SPECIFICATION WireSpec
CONSTANTS
    GroupBits = 2
    WordBits = 5
    ValueBits = 3
    IdLen = 1
    GuidLen = 2
    MaxIndexCount = 2
    MaxDecompressed = 2
    ForeignLen = 5
    Keys <- MCKeys
    TypeOf <- MCTypeOf
    Descriptors <- MCDescriptors
    Explicit <- MCExplicit
    Payloads <- MCPayloads
INVARIANTS
    RoundTrip
    NeverAnotherMessage
    DetectionAgrees
    ReadUndoesWrite
CHECK_DEADLOCK FALSE
