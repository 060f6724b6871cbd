CONSTANTS
    TtySize = 1
    Travel = 1
    RxSize = 2
    MessageText = {"moveUp", "reset"}
    MaxMessages = 2
SPECIFICATION Spec
PROPERTIES MessageAnswered HostLearnsPosition
