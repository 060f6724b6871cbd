CONSTANTS
    Travel = 2
    RxSize = 2
    MaxCommands = 4
    MaxPowerCycles = 1
SPECIFICATION Spec
INVARIANTS PositionTrueOnceHomed PositionNeverWraps HomingDiscardsCommands
PROPERTY ComesToRest
