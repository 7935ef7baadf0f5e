SPECIFICATION Spec
CONSTANTS
    NoText = NoText
    Null = Null
    long = long
    dotted = dotted
    old = old
    LocalFiles = {long, dotted}
    ChunkCount <- MCChunkCount
    Forbidden = {dotted}
    Quotable = {old}
    MaxUploads = 2
    MaxClicks = 2
    MaxFaults = 1
    MaxTokens = 1
CONSTRAINT OneScenario
INVARIANTS
    AttachmentArrivesWhole
    DownloadsNeedBackslash
    FilesMatchRows
PROPERTY
    ComposerFreed
