CONSTANTS
    mIntegralWindowSize = 4
    Reader = {navigator, controller}
    Timeout = 2
    ClockWrap = 8
    Slack = 1
    Late = 2
    Silence = 2
    Channel = {aileron, elevator}
    Writer = {manully, controller}
    writeThread = writeThread
    Mode = {"MANULLY", "CONTINUOS"}
    MaxMessages = 4
    MaxWrites = 3
    Interval = 5
    WorkTime = 33
    Delay = 7
SPECIFICATION PartsSpec
INVARIANTS StoresInside WindowIsClear AttitudeSound ServoSound EveryRound
PROPERTIES FallsBack
