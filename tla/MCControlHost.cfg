\* Three commands, two at a time, on two contents of one profile name, two run ids.
CONSTANTS
    a = a
    b = b
    i1 = i1
    i2 = i2
    i3 = i3
    r1 = r1
    r2 = r2
    Invocations = {i1, i2, i3}
    Requests <- MCSharedRequests
    Profiles = {a, b}
    NameOf <- MCSharedName
    RunIds = {r1, r2}
    IdsOf <- MCSharedIds
    FailFast = FALSE
    MaxLive = 2
    NoRun = NoRun
    NoProfile = NoProfile
    NoLock = NoLock
SYMMETRY MCSymmetry
CHECK_DEADLOCK FALSE
SPECIFICATION Spec
INVARIANTS TypeOK Exclusive UpdatesSerialized LocksHaveHolders RunOfOneProfile
PROPERTY UntestedRunUnchanged
