SPECIFICATION MsgSpec
CONSTANTS
    Players = {p, q}
    Types = {ClCorpse}
    ClCorpse = ClCorpse
    Nobody = Nobody
    RingSize = 2
    Window = 0
    Chunk = 2
    Cap = 4
    MaxBytes = 1
    MaxText = 5
    MaxHides = 1
    MaxSent = 3
INVARIANT MessagesConsistent
INVARIANT MessagesAreWhole
INVARIANT DumpTellsTheWindow
SYMMETRY Slots
CHECK_DEADLOCK FALSE
