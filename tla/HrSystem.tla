------------------------------ MODULE HrSystem ------------------------------
(***************************************************************************)
(* The head-rest system: the host program (Chicken) and the firmware       *)
(* (HeadRest) at the two ends of one serial line.  The only silence of the *)
(* firmware is while it homes the carriage; the host's reader then holds   *)
(* the port's lock in read(), and a command has to wait for the homing.    *)
(***************************************************************************)
EXTENDS Chicken, HeadRest

CONSTANTS
    MessageText,      \* texts the operator sends
    MaxMessages       \* bound: messages the operator sends

ASSUME SystemAssumption == MaxMessages \in Nat

VARIABLE messages

hostVars == <<driverVars, mainVars, mailboxVars>>
systemVars == <<hostVars, firmwareVars, messages>>

Init == ChickenInit /\ FirmwareInit /\ messages = 0

OperatorSends ==
    /\ messages < MaxMessages
    /\ messages' = messages + 1
    /\ \E text \in MessageText : BeginMessage([id |-> messages', text |-> text])
    /\ UNCHANGED firmwareVars

StoreMessage == Callback /\ UNCHANGED <<firmwareVars, messages>>

Read == Reading /\ UNCHANGED <<firmwareVars, messages>>

HostLoop == MainLoop /\ UNCHANGED <<firmwareVars, messages>>

Lock == LockPort /\ UNCHANGED <<firmwareVars, messages>>

Write ==
    /\ WriteCommand
    /\ SerialReceive(sending.byte)
    /\ UNCHANGED messages

Report ==
    /\ SendReport
    /\ TtyReceive([d0 |-> 0, d1 |-> 0, pos |-> hrPosition])
    /\ UNCHANGED <<mainVars, mailboxVars, messages>>

Firmware == Work /\ UNCHANGED <<hostVars, messages>>

Next ==
    \/ OperatorSends \/ StoreMessage
    \/ Read \/ HostLoop \/ Lock \/ Write
    \/ Report \/ Firmware

\* Every thread and the board keep running.  The lock is granted fairly: the
\* reader sleeps 10 ms between releasing it and asking for it again, and the
\* main thread, waiting, takes it in that time.
Fairness ==
    /\ WF_systemVars(StoreMessage)
    /\ WF_systemVars(Read)
    /\ WF_systemVars(HostLoop \/ Write)
    /\ SF_systemVars(Lock)
    /\ WF_systemVars(Report \/ Firmware)

Spec == Init /\ [][Next]_systemVars /\ Fairness

-----------------------------------------------------------------------------

(***************************************************************************)
(* The host never hangs: a message raised in the mailbox is always taken   *)
(* out again, although a command in hand may wait for the lock that the    *)
(* reader holds while the firmware is silent.                              *)
(***************************************************************************)
MessageAnswered == mHasNewMessage ~> ~mHasNewMessage

(***************************************************************************)
(* In the end the host knows where the carriage is: when messages cease,   *)
(* the position it holds becomes and stays the true height, if the bottom  *)
(* was ever seen, and the motor is off.                                    *)
(***************************************************************************)
HostLearnsPosition ==
    <>[](movingStatus = "stop" /\ (homed => mHrPosition = height))

=============================================================================
