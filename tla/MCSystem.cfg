SPECIFICATION FairSpec
CONSTANTS
    Devices = {d1, d2}
    Typists = {d1}
    Texts = {hello, bye}
    Blank = blank
    Window = 1
    Slots = {s1}
    MaxPosts = 1
    MaxFaults = 1
    Nil = Nil
INVARIANTS
    TypeOK
    NothingForgotten
    RowsAreAccountedFor
PROPERTIES
    TypedThoughtIsSeen
