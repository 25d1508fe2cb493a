\* A complete record that changes is not saved again.
SPECIFICATION Spec
CONSTANTS
    s1 = s1
    s2 = s2
    Devices = {d1}
    Slots = {s1}
    Boards = {b1}
    Addresses = {a1, a2}
    None = None
    Info = Info
PROPERTY CompleteMergeIsSaved
