CONSTANTS
    TtySize = 2
    MessageText = {"moveUp", "stopMove", "hello"}
    MaxReports = 4
    MaxMessages = 4
SPECIFICATION Spec
CONSTRAINT FewOfOne
\* A silent sensor leaves the reader blocked in read() with the lock, and the
\* main thread, if it has a command to send, waiting for it: the host stops.
CHECK_DEADLOCK FALSE
INVARIANTS NewestReadingShown  LastMessageObeyed ObeyedAtMostThrice
PROPERTY ShownNeverGoesBack
