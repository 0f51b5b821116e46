SPECIFICATION Spec
CONSTANTS
    missing = missing
    upgrades = upgrades
    Skills <- TwoSkills
    Window = 2
    Caps <- SmallCaps
    MaxTime = 5
    MaxSends = 6
    MaxLost = 1
SYMMETRY Interchangeable
INVARIANT
    SlotsHeld
PROPERTY
    CapKept
