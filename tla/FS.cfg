CONSTANTS
    Names = {"a", "b"}
    Dots = {".", ".."}
    MaxCookie = 4
    MaxSize = 2
    ReadBlock = 2
    Lengths = {0, 1, 3}
    Counts = {0, 1, 2}
    Statuses = {"NOENT", "IO"}
    MaxDepth = 1
    MaxChanges = 3
SPECIFICATION Spec
INVARIANTS ListedOnce ChunksAddUp
PROPERTIES EofIsFinal CallsEnd
