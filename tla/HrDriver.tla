------------------------------ MODULE HrDriver ------------------------------
(***************************************************************************)
(* The host's end of the serial line: class HrDriver                       *)
(* (chicken/device/driver/hr_driver.cpp) on a SerialHandler whose reads    *)
(* block (io/serial_handler.cpp).                                          *)
(*                                                                         *)
(* A thread reads reports and publishes them in mDist, mHrPosition and     *)
(* mHasNewData; the main thread reads those fields and sends commands.     *)
(* The fields have no lock: every access to one of their words is a step.  *)
(* The lock of SerialHandler guards the descriptor, and recv() holds it    *)
(* for as long as read() blocks.                                           *)
(*                                                                         *)
(* Reports are whole packets here, records with fields d0, d1 and pos; how *)
(* bytes become packets is SaModem.                                        *)
(***************************************************************************)
EXTENDS Integers, Sequences

CONSTANT
    TtySize      \* reports the kernel buffers; one that finds it full is lost

ASSUME TtyAssumption == TtySize \in Nat \ {0}

VARIABLES
    tty,            \* reports received and not read
    mutex,          \* holder of SerialHandler's mMutex: free, reader, main
    reader,         \* where the read thread is
    batch,          \* reports in mReadBuffer not yet published
    mDist,          \* mDist[0], mDist[1]
    mHrPosition,
    mHasNewData

readerVars == <<reader, batch>>
fieldVars == <<mDist, mHrPosition, mHasNewData>>
driverVars == <<tty, mutex, readerVars, fieldVars>>

\* HrDriver::HrDriver up to pthread_create; mDist is not initialised yet, and
\* no one can read it before the constructor has returned.
DriverInit ==
    /\ tty = <<>>
    /\ mutex = "free"
    /\ reader = "lock"
    /\ batch = <<>>
    /\ mDist = <<0, 0>>
    /\ mHrPosition = 0
    /\ mHasNewData = FALSE

TtyReceive(report) ==
    /\ tty' = IF Len(tty) < TtySize THEN Append(tty, report) ELSE tty
    /\ UNCHANGED <<mutex, readerVars, fieldVars>>

-----------------------------------------------------------------------------

\* The read thread: readData() and the sleep after it.

ReaderLock ==
    /\ reader = "lock"
    /\ mutex = "free"
    /\ mutex' = "reader"
    /\ reader' = "read"
    /\ UNCHANGED <<tty, batch, fieldVars>>

\* Bug: the newest bytes are taken first.
ReaderReadNewestFirst ==
    /\ reader = "read"
    /\ \E n \in 1 .. Len(tty) :
         /\ batch' = SubSeq(tty, n, Len(tty))
         /\ tty' = SubSeq(tty, 1, n - 1)
    /\ mutex' = "free"
    /\ reader' = "dist0"
    /\ UNCHANGED fieldVars

\* Bug: recv() returns without releasing the lock.
ReaderReadKeepsLock ==
    /\ reader = "read"
    /\ \E n \in 1 .. Len(tty) :
         /\ batch' = SubSeq(tty, 1, n)
         /\ tty' = SubSeq(tty, n + 1, Len(tty))
    /\ reader' = "dist0"
    /\ UNCHANGED <<mutex, fieldVars>>

\* read() returns as soon as there is something, with any part of it.
ReaderRead ==
    /\ reader = "read"
    /\ \E n \in 1 .. Len(tty) :
         /\ batch' = SubSeq(tty, 1, n)
         /\ tty' = SubSeq(tty, n + 1, Len(tty))
    /\ mutex' = "free"
    /\ reader' = "dist0"
    /\ UNCHANGED fieldVars

\* Bug: the position is published first.
WriteDist0PositionFirst ==
    /\ reader = "dist0"
    /\ batch # <<>>
    /\ mDist' = [mDist EXCEPT ![1] = Head(batch).d0]
    /\ mHrPosition' = Head(batch).pos
    /\ reader' = "dist1"
    /\ UNCHANGED <<tty, mutex, batch, mHasNewData>>

WriteDist0 ==
    /\ reader = "dist0"
    /\ batch # <<>>
    /\ mDist' = [mDist EXCEPT ![1] = Head(batch).d0]
    /\ reader' = "dist1"
    /\ UNCHANGED <<tty, mutex, batch, mHrPosition, mHasNewData>>

WriteDist1 ==
    /\ reader = "dist1"
    /\ mDist' = [mDist EXCEPT ![2] = Head(batch).d1]
    /\ reader' = "position"
    /\ UNCHANGED <<tty, mutex, batch, mHrPosition, mHasNewData>>

WritePosition ==
    /\ reader = "position"
    /\ mHrPosition' = Head(batch).pos
    /\ reader' = "flag"
    /\ UNCHANGED <<tty, mutex, batch, mDist, mHasNewData>>

WriteFlag ==
    /\ reader = "flag"
    /\ mHasNewData' = TRUE
    /\ batch' = Tail(batch)
    /\ reader' = "dist0"
    /\ UNCHANGED <<tty, mutex, mDist, mHrPosition>>

ReaderSleep ==
    /\ reader = "dist0"
    /\ batch = <<>>
    /\ reader' = "lock"
    /\ UNCHANGED <<tty, mutex, batch, fieldVars>>

ReadThread ==
    \/ ReaderLock \/ ReaderRead
    \/ WriteDist0 \/ WriteDist1 \/ WritePosition \/ WriteFlag
    \/ ReaderSleep

-----------------------------------------------------------------------------

\* What the main thread does to the driver.

\* The constructor goes on after the thread has been started.
ZeroDist(i) ==
    /\ mDist' = [mDist EXCEPT ![i] = 0]
    /\ UNCHANGED <<tty, mutex, readerVars, mHrPosition, mHasNewData>>

\* getDistData(): the pointer it returns is to the live fields.
ClearHasNewData ==
    /\ mHasNewData' = FALSE
    /\ UNCHANGED <<tty, mutex, readerVars, mDist, mHrPosition>>

\* SerialHandler::send() waits for the lock; write() does not block.
SendLock ==
    /\ mutex = "free"
    /\ mutex' = "main"
    /\ UNCHANGED <<tty, readerVars, fieldVars>>

SendUnlock ==
    /\ mutex = "main"
    /\ mutex' = "free"
    /\ UNCHANGED <<tty, readerVars, fieldVars>>

=============================================================================
