CONSTANTS
    Size = 3
    SeqMod = 8
    MaxLen = 3
    Byte = {b1, b2}
    NULL = NULL
    Junk = Junk
SPECIFICATION Spec
INVARIANTS TypeOK MemoryHeldIffUsed KeptInitialised
PROPERTY Implements
