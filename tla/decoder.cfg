SPECIFICATION Spec
CONSTANTS
    Base = 16
    FragmentMax = 234
    Lengths = {0, 1, 2, 4, 17, 234, 235}
    MaxDamaged = 21
    Kinds <- MCKinds
    Roots <- MCRoots
    Schema <- MCSchema
    Depth <- MCDepth
    Careless <- MCCareless
    Messages <- MCMessages
INVARIANTS Inside ReadsInside Decoded MembersHold WholeTexts FilledOnce
PROPERTIES Terminates
CHECK_DEADLOCK FALSE
