SPECIFICATION ViewSpec
CONSTANTS
    here = here
    there = there
    theirs = theirs
    mine = mine
    None = None
    Chats = {here, there}
    MessageIds = {theirs, mine}
    ChatOf <- MCChatOf
    Own = {mine}
    FirstChat = here
    MaxVersion <- MCMaxVersion
    MaxSwitches = 1
    MaxLost = 1
    MaxFailed = 1
    MaxRuns = 2
INVARIANTS
    ScreenIsOpenChat
    ShowsNewestWhenQuiet
