CONSTANTS
    Byte <- MCByte
    STX = 2
    Crc <- MCCrc
    Start = 0
    Accumulate <- MCAccumulate
    Low <- MCLow
    High <- MCHigh
    Extra <- MCExtra
    RAWBUF = 8
    GAP_TICKS = 3
    TimerWrap = 10
    Key <- MCKey
    PinOf <- MCPinOf
    MaxPins = 5
SPECIFICATION PeripheralsSpec
INVARIANTS ReturnsMessages PayloadFits ReceiverSound GpioSound
