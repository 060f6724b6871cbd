------------------------------ MODULE Chicken ------------------------------
(***************************************************************************)
(* The head-rest application on the host: the endless loop of              *)
(* setupDeviceForFaurecia() (chicken/chicken.cpp) between the sensor side, *)
(* HrDriver, and the network side, the one-message mailbox of WsHandler    *)
(* (io/websocket_handler.cpp).                                             *)
(*                                                                         *)
(* The mailbox is written by a callback of the network library on the      *)
(* daemon thread and read, without a lock, by the main thread: the main    *)
(* thread gets a pointer to the buffer and compares the buffer as it is    *)
(* when each strcmp runs.  (The callback can also run on the main thread,  *)
(* inside sendText(): one of the interleavings.)                           *)
(*                                                                         *)
(* The connection is taken to be up; a reading that is put out while it is *)
(* not is lost, and the next one is put out like any other.                *)
(***************************************************************************)
EXTENDS HrDriver

\* What the main loop compares with, in its order, and the bytes it sends.
KnownText == <<"moveUp", "moveDown", "stopMove", "reset">>
CommandByte == <<"w", "s", " ", "r">>

\* A message half copied over another: neither, and no known text.
Torn == [id |-> 0, text |-> "torn"]

VARIABLES
    main,            \* where the main thread is
    hp,              \* its copy of the position
    value0,          \* mDist[0] as sendDistance() read it
    shown,           \* what was put out last: position printed, values sent
    compared,        \* comparisons made of the message in hand
    sending,         \* the command in hand: its byte and its message's id
    lastSent,        \* history: the last command written to the port
    incoming,        \* message the callback is storing, with how far it is
    mReceivedMessage,
    mHasNewMessage

mainVars == <<main, hp, value0, shown, compared, sending, lastSent>>
mailboxVars == <<incoming, mReceivedMessage, mHasNewMessage>>
chickenVars == <<driverVars, mainVars, mailboxVars>>

NoMessage == [id |-> 0, text |-> "none"]
NoCommand == [byte |-> "none", id |-> 0]

ChickenInit ==
    /\ DriverInit
    /\ main = "zero0"
    /\ hp = 0 /\ value0 = 0
    /\ shown = [pos |-> 0, d0 |-> 0, d1 |-> 0]
    /\ compared = 0
    /\ sending = NoCommand /\ lastSent = NoCommand
    /\ incoming = [step |-> "idle", message |-> NoMessage]
    /\ mReceivedMessage = NoMessage
    /\ mHasNewMessage = FALSE

-----------------------------------------------------------------------------

\* onMessageReceived(): copy, terminate, raise the flag.

BeginMessage(m) ==
    /\ incoming.step = "idle"
    /\ incoming' = [step |-> "copy", message |-> m]
    /\ mReceivedMessage' = Torn
    /\ UNCHANGED <<driverVars, mainVars, mHasNewMessage>>

EndCopy ==
    /\ incoming.step = "copy"
    /\ incoming' = [incoming EXCEPT !.step = "flag"]
    /\ mReceivedMessage' = incoming.message
    /\ UNCHANGED <<driverVars, mainVars, mHasNewMessage>>

RaiseMessageFlag ==
    /\ incoming.step = "flag"
    /\ incoming' = [incoming EXCEPT !.step = "idle"]
    /\ mHasNewMessage' = TRUE
    /\ UNCHANGED <<driverVars, mainVars, mReceivedMessage>>

Callback == EndCopy \/ RaiseMessageFlag

-----------------------------------------------------------------------------

\* The main thread, one access to shared state at a time.

Goto(from, to) == main = from /\ main' = to

ConstructDist0 ==
    /\ Goto("zero0", "zero1")
    /\ ZeroDist(1)
    /\ UNCHANGED <<hp, value0, shown, compared, sending, lastSent, mailboxVars>>

ConstructDist1 ==
    /\ Goto("zero1", "pollData")
    /\ ZeroDist(2)
    /\ UNCHANGED <<hp, value0, shown, compared, sending, lastSent, mailboxVars>>

PollData ==
    /\ Goto("pollData", IF mHasNewData THEN "position" ELSE "pollMessage")
    /\ UNCHANGED <<driverVars, hp, value0, shown, compared, sending, lastSent,
                   mailboxVars>>

GetHrPosition ==
    /\ Goto("position", "clear")
    /\ hp' = mHrPosition
    /\ UNCHANGED <<driverVars, value0, shown, compared, sending, lastSent,
                   mailboxVars>>

GetDistData ==
    /\ Goto("clear", "value0")
    /\ ClearHasNewData
    /\ UNCHANGED <<hp, value0, shown, compared, sending, lastSent, mailboxVars>>

ReadValue0 ==
    /\ Goto("value0", "value1")
    /\ value0' = mDist[1]
    /\ UNCHANGED <<driverVars, hp, shown, compared, sending, lastSent, mailboxVars>>

\* Bug: the flag is cleared once the text is made.
SendDistanceClearsFlag ==
    /\ Goto("value1", "pollMessage")
    /\ shown' = [pos |-> hp, d0 |-> value0, d1 |-> mDist[2]]
    /\ ClearHasNewData
    /\ UNCHANGED <<hp, value0, compared, sending, lastSent, mailboxVars>>

\* The second word is read and the text goes out.
SendDistance ==
    /\ Goto("value1", "pollMessage")
    /\ shown' = [pos |-> hp, d0 |-> value0, d1 |-> mDist[2]]
    /\ UNCHANGED <<driverVars, hp, value0, compared, sending, lastSent, mailboxVars>>

PollMessage ==
    /\ Goto("pollMessage", IF mHasNewMessage THEN "get1" ELSE "pollData")
    /\ UNCHANGED <<driverVars, hp, value0, shown, compared, sending, lastSent,
                   mailboxVars>>

\* Bug: the flag is not cleared.
GetReceivedMessageKeepsFlag(from, to) ==
    /\ Goto(from, to)
    /\ compared' = 0
    /\ UNCHANGED <<driverVars, hp, value0, shown, sending, lastSent, mailboxVars>>

\* Called twice: for the pointer, and again to print the message.
GetReceivedMessage(from, to) ==
    /\ Goto(from, to)
    /\ mHasNewMessage' = FALSE
    /\ compared' = 0
    /\ UNCHANGED <<driverVars, hp, value0, shown, sending, lastSent, incoming,
                   mReceivedMessage>>

\* Where the loop goes when n texts have been compared.
AfterComparing(n) == IF n = Len(KnownText) THEN "pollData" ELSE "compare"

CompareText ==
    LET n == compared + 1
    IN  /\ compared' = n
        /\ IF mReceivedMessage.text = KnownText[n]
             THEN /\ Goto("compare", "sendLock")
                  /\ sending' = [byte |-> CommandByte[n], id |-> mReceivedMessage.id]
             ELSE /\ Goto("compare", AfterComparing(n))
                  /\ UNCHANGED sending
        /\ UNCHANGED <<driverVars, hp, value0, shown, lastSent, mailboxVars>>

LockPort ==
    /\ Goto("sendLock", "write")
    /\ SendLock
    /\ UNCHANGED <<hp, value0, shown, compared, sending, lastSent, mailboxVars>>

\* Bug: the mailbox is declared read once the command is out.
WriteCommandClearsFlag ==
    /\ Goto("write", AfterComparing(compared))
    /\ SendUnlock
    /\ lastSent' = sending
    /\ mHasNewMessage' = FALSE
    /\ UNCHANGED <<hp, value0, shown, compared, sending, incoming, mReceivedMessage>>

\* The byte is on its way; who receives it is not said here.
WriteCommand ==
    /\ Goto("write", AfterComparing(compared))
    /\ SendUnlock
    /\ lastSent' = sending
    /\ UNCHANGED <<hp, value0, shown, compared, sending, mailboxVars>>

\* The steps of the main thread that need no lock and send no byte.
MainLoop ==
    \/ ConstructDist0 \/ ConstructDist1
    \/ PollData \/ GetHrPosition \/ GetDistData \/ ReadValue0 \/ SendDistance
    \/ PollMessage
    \/ GetReceivedMessage("get1", "get2")
    \/ GetReceivedMessage("get2", "compare")
    \/ main = "compare" /\ CompareText

Reading == ReadThread /\ UNCHANGED <<mainVars, mailboxVars>>

=============================================================================
