SPECIFICATION Spec
CONSTANTS
    l1 = l1
    l2 = l2
    l3 = l3
    f1 = f1
    f2 = f2
    o1 = o1
    c1 = c1
    d1 = d1
    old = old
    new = new
    Passwords = {old, new}
    FirstPassword = old
    Kind <- KindOf
    Password <- PasswordOf
    NewPassword <- NewPasswordOf
    Presents <- PresentsOf
    MaxFaults = 1
    Requests = {l1, l2, l3, f1, f2, o1, c1, d1}
CONSTRAINT OneScenario
INVARIANTS
    TypeOK
    SecondSessionNeedsRace
    RedeemedTwiceNeedsRace
    LoggedOutStaysOut
    OldPasswordNeedsRace
