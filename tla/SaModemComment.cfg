CONSTANTS
    ByteBits = 2
    BufferSize = 3
    SA_LEADING_BYTE = 3
    SA_CHECK_BYTE = 2
SPECIFICATION Spec
INVARIANT CheckByteRequired
