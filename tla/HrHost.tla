------------------------------- MODULE HrHost -------------------------------
(***************************************************************************)
(* The host between a sensor that numbers its reports and an operator that *)
(* numbers the messages: what the loop of Chicken does with both when the  *)
(* threads interleave in any way.  Every word of report n has the value n, *)
(* so a value tells which report it came from; a report that the kernel    *)
(* has no room for is lost and gets no number.                             *)
(***************************************************************************)
EXTENDS Chicken

CONSTANTS
    MessageText,     \* texts the operator sends
    MaxReports,      \* bound: reports received
    MaxMessages      \* bound: messages received

ASSUME HostAssumption == MaxReports \in Nat /\ MaxMessages \in Nat

VARIABLES
    reports,     \* how many reports the kernel has taken in
    last,        \* history: the last report published in full
    wiped,       \* history: the constructor zeroed a published word
    messages,    \* how many messages have been received
    obeyed       \* history: times each message was answered by a command

hostVars == <<chickenVars, reports, last, wiped, messages, obeyed>>

Init ==
    /\ ChickenInit
    /\ reports = 0 /\ last = 0 /\ wiped = FALSE
    /\ messages = 0
    /\ obeyed = [id \in 1 .. MaxMessages |-> 0]

ReceiveReport ==
    /\ reports < MaxReports
    /\ reports' = IF Len(tty) < TtySize THEN reports + 1 ELSE reports
    /\ LET n == reports + 1 IN TtyReceive([d0 |-> n, d1 |-> n, pos |-> n])
    /\ UNCHANGED <<mainVars, mailboxVars, last, wiped, messages, obeyed>>

ReceiveMessage ==
    /\ messages < MaxMessages
    /\ messages' = messages + 1
    /\ \E text \in MessageText : BeginMessage([id |-> messages', text |-> text])
    /\ UNCHANGED <<reports, last, wiped, obeyed>>

StoreMessage == Callback /\ UNCHANGED <<reports, last, wiped, messages, obeyed>>

Read ==
    /\ Reading
    /\ last' = IF WriteFlag THEN Head(batch).pos ELSE last
    /\ UNCHANGED <<reports, wiped, messages, obeyed>>

Loop ==
    /\ MainLoop \/ LockPort
    /\ wiped' = (wiped \/ (main = "zero0" /\ mDist[1] # 0)
                       \/ (main = "zero1" /\ mDist[2] # 0))
    /\ UNCHANGED <<reports, last, messages, obeyed>>

Write ==
    /\ WriteCommand
    /\ obeyed' = [obeyed EXCEPT ![sending.id] = @ + 1]
    /\ UNCHANGED <<reports, last, wiped, messages>>

Next == ReceiveReport \/ ReceiveMessage \/ StoreMessage \/ Read \/ Loop \/ Write

Spec == Init /\ [][Next]_hostVars

-----------------------------------------------------------------------------

ReportNumber == 0 .. MaxReports
MessageNumber == 0 .. MaxMessages

TypeOK ==
    /\ tty \in Seq([d0 : ReportNumber, d1 : ReportNumber, pos : ReportNumber])
    /\ Len(tty) <= TtySize
    /\ mutex \in {"free", "reader", "main"}
    /\ reader \in {"lock", "read", "dist0", "dist1", "position", "flag"}
    /\ (mutex = "reader") = (reader = "read")
    /\ (mutex = "main") = (main = "write")
    /\ mDist \in [1 .. 2 -> ReportNumber]
    /\ mHrPosition \in ReportNumber
    /\ mHasNewData \in BOOLEAN
    /\ shown \in [pos : ReportNumber, d0 : ReportNumber, d1 : ReportNumber]
    /\ compared \in 0 .. Len(KnownText)
    /\ mHasNewMessage \in BOOLEAN
    /\ lastSent.id \in MessageNumber

\* Nothing is on its way from the port to the display.
SensorQuiet ==
    /\ tty = <<>> /\ batch = <<>> /\ reader \in {"lock", "read", "dist0"}
    /\ main = "pollData" /\ ~mHasNewData

(***************************************************************************)
(* No reading is forgotten for good: when everything received has been     *)
(* dealt with, the display shows the distances the driver holds, and these *)
(* are the last report's unless the constructor, which zeroes them after   *)
(* starting the thread, has wiped them.  (getDistData() clears the flag    *)
(* before the values are read, the thread raises it after writing them.)   *)
(***************************************************************************)
NewestReadingShown ==
    SensorQuiet =>
        /\ <<shown.d0, shown.d1>> = mDist
        /\ ~wiped => mDist = <<last, last>>

(***************************************************************************)
(* The display never goes back to an older report, in either distance,     *)
(* although its two words may come from different reports.                 *)
(***************************************************************************)
ShownNeverGoesBack ==
    [][shown'.d0 >= shown.d0 /\ shown'.d1 >= shown.d1]_shown

(***************************************************************************)
(* A text can mix reports only so far: the first distance is at most one   *)
(* report ahead of the second, and the position, read first and written    *)
(* last, is never ahead of either.                                         *)
(***************************************************************************)
BoundedTear ==
    ~wiped => /\ shown.d0 <= shown.d1 + 1
              /\ shown.pos <= shown.d0
              /\ shown.pos <= shown.d1

IsKnown(m) == \E i \in 1 .. Len(KnownText) : m.text = KnownText[i]

\* No message is on its way from the network to the port.
OperatorQuiet ==
    /\ incoming.step = "idle" /\ ~mHasNewMessage
    /\ main \in {"pollData", "pollMessage"}

(***************************************************************************)
(* The operator has the last word: messages may overwrite each other in    *)
(* the mailbox, but the last one received is never lost.  When nothing is  *)
(* pending, a last message that names a command was the last one obeyed.   *)
(***************************************************************************)
LastMessageObeyed ==
    OperatorQuiet /\ IsKnown(mReceivedMessage) => lastSent.id = mReceivedMessage.id

(***************************************************************************)
(* A message can be met before its own flag is raised, in the live buffer: *)
(* while the loop is still comparing the message before the last, and once *)
(* more by the flag of the last.  With its own flag that makes three       *)
(* times, and never more.  (The lock is its holder's all the while.)       *)
(***************************************************************************)
ObeyedAtMostThrice == TypeOK /\ \A id \in 1 .. MaxMessages : obeyed[id] <= 3

=============================================================================
