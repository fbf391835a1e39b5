SPECIFICATION ListSpec
CONSTANTS
    Cell = {c1, c2, c3, c4}
    Item = {a, b}
    Key = {0, 1, 2}
    NULL = NULL
    NoItem = NoItem
SYMMETRY ListSymmetry
INVARIANTS
    ListInv
PROPERTIES
    ImplementsSequence
