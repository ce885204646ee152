CONSTANTS
    Capacity = 4
    Item = {a, b}
    Vacant = vacant
    Exclusive = FALSE
SPECIFICATION OverwriteSpec
INVARIANT NoOverwriteRace
