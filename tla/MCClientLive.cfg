SPECIFICATION ReachableSpec
CONSTANTS
    hi = hi
    HI = HI
    Users = {u1}
    Texts = {hi, HI}
    Fold <- MCFold
    Messages = {m1}
    Slots = {s1, s2}
    FetchLimit = 1
    Nil = Nil
PROPERTIES
    SpinnerStops
    EveryPostSettles
