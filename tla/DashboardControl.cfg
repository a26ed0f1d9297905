SPECIFICATION Spec
CONSTANTS
    a = a
    b = b
    none = none
    r1 = r1
    r2 = r2
    s1 = s1
    None = none
    Symbols = {a, b}
    Default <- MCDefault
    Refreshes = {r1, r2}
    Saves = {s1}
    WatchLists <- MCWatchLists
    MaxEdits = 1
    MaxVersion = 3
INVARIANTS  PromptsMatchServer
PROPERTIES  QuietStoreIsShown
