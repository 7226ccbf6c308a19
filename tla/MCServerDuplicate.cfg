SPECIFICATION Spec
CONSTANTS
    ann = ann
    ANN = ANN
    Threads = {t1, t2}
    Names = {ann, ANN}
    Lower <- MCLower
    Passwords = {good, other, long}
    TooLong = {long}
    Texts = {hi}
    Filters = {}
    Limits = {1}
    Blank = Blank
    TokenLife = 1
    MaxTime = 1
    MaxThoughts = 1
    Nil = Nil
INVARIANTS
    DuplicateGets400
