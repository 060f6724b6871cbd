CONSTANTS
    ByteBits = 3
    BufferSize = 7
    SA_LEADING_BYTE = 5
    SA_CHECK_BYTE = 6
    PayloadLength = 3
    CR = 1
    LF = 2
    Reading <- MCReading
    MaxFaults = 2
SPECIFICATION LinkSpec
INVARIANTS WholePacketPublished DamagedPacketRejected
PROPERTY Resynchronises
