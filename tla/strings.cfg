SPECIFICATION Spec
CONSTANTS
    Sizes = {1, 2, 9, 19}
    ByteMod = 14
    DwordMod = 60
    Digits = {1, 3, 10}
    Alphabets = {4, 12}
PROPERTIES StaysNear ResultIsTrue
CHECK_DEADLOCK FALSE
