SPECIFICATION Spec
CONSTANTS
    Devices = {d1}
    Typists = {d1}
    Texts = {hello}
    Blank = blank
    Window = 1
    Slots = {s1}
    MaxPosts = 1
    MaxFaults = 1
    Nil = Nil
INVARIANT
    OneRowPerThought
