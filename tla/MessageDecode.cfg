CONSTANTS
    Base = 2
    MaxLen = 2
    Consumed = 2
    MaxStream = 10
SPECIFICATION DecodeSpec
INVARIANTS ChunkingIrrelevant BufferBounded
CHECK_DEADLOCK FALSE
