SPECIFICATION Spec
CONSTANTS
    Base = 2
    DwordMod = 20
    Sizes = {0, 1, 3, 6, 10, 11}
INVARIANTS LengthTrue
PROPERTIES StaysInside
