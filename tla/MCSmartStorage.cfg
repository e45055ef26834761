CONSTANTS
    o1 = o1
    o2 = o2
    o3 = o3
    o4 = o4
    o5 = o5
    o6 = o6
    None = None
    Object <- MCObject
    Rank = {1, 2}
    Slot = {1, 2}
    Worker = {0, 1}
    Share <- MCShare
    Control = 2
SPECIFICATION Spec
INVARIANTS
    NoUseAfterFree
    FreedWhenUnused
SYMMETRY Symmetry
