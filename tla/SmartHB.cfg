\* One device of either kind, two slots, every configuration.
SPECIFICATION Spec
CONSTANTS
    s1 = s1
    s2 = s2
    Devices = {d1}
    Slots = {s1, s2}
    Boards = {b1}
    Addresses = {a1}
    None = None
    Info = Info
SYMMETRY Sym
INVARIANTS
    FlagIsTruth
PROPERTIES
    OutputsGetCompleteRecords
    CompletionIsDelivered
    InfoIsAskedByOne
