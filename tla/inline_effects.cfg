CONSTANTS
    MonoInline = 3
    PassesMax = 2
SPECIFICATION MCSpec
INVARIANT EffectsKept
CHECK_DEADLOCK FALSE
