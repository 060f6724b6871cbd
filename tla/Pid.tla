---------------------------------- MODULE Pid ----------------------------------
(* A PID of AttitudeController, which work() updates on the controller's    *)
(* thread and reset() clears on the thread of StatusController, without a   *)
(* lock, when onTakeover() calls it.  Steps are the accesses to the window  *)
(* of errors and its index.  An error is "new" when it was computed since   *)
(* the last takeover began, "old" before it.                                *)
EXTENDS Naturals

CONSTANT mIntegralWindowSize

ASSUME WindowAssumption == mIntegralWindowSize \in Nat \ {0}

VARIABLES
    mIsEnabled,
    status,                  \* where the status thread is; the cell to clear
    work,                    \* where work() is, its error and a register
    mIntegralBuffer,
    mIntegralBufferIndex,
    met                      \* history: the takeover met a work() under way

window == <<mIntegralBuffer, mIntegralBufferIndex>>
vars == <<mIsEnabled, status, work, window, met>>

Cell == 0 .. mIntegralWindowSize - 1

Init ==
    /\ mIsEnabled = FALSE
    /\ status = [pc |-> "off", i |-> 0]
    /\ work = [pc |-> "idle", error |-> "new", register |-> 0]
    /\ mIntegralBuffer = [c \in Cell |-> "zero"]
    /\ mIntegralBufferIndex = 0
    /\ met = FALSE

-----------------------------------------------------------------------------
(* The status thread.                                                       *)

\* onRelease: setEnabled(false)
Release ==
    /\ status.pc = "on"
    /\ mIsEnabled' = FALSE
    /\ status' = [status EXCEPT !.pc = "off"]
    /\ UNCHANGED <<work, window, met>>

\* onTakeover begins: what there is becomes old.
Takeover ==
    /\ status.pc = "off"
    /\ status' = [pc |-> "clear", i |-> 0]
    /\ mIntegralBuffer' = [c \in Cell |-> IF mIntegralBuffer[c] = "new" THEN "old"
                                          ELSE mIntegralBuffer[c]]
    /\ work' = [work EXCEPT !.error = "old"]
    /\ met' = (work.pc # "idle")
    /\ UNCHANGED <<mIsEnabled, mIntegralBufferIndex>>

\* Bug: the first cell is left.
ClearFromSecond ==
    /\ status.pc = "clear"
    /\ mIntegralBuffer' = IF status.i = 0 THEN mIntegralBuffer
                          ELSE [mIntegralBuffer EXCEPT ![status.i] = "zero"]
    /\ status' = IF status.i + 1 \in Cell THEN [status EXCEPT !.i = @ + 1]
                 ELSE [status EXCEPT !.pc = "index"]
    /\ UNCHANGED <<mIsEnabled, work, mIntegralBufferIndex, met>>

\* PID::reset
Clear ==
    /\ status.pc = "clear"
    /\ mIntegralBuffer' = [mIntegralBuffer EXCEPT ![status.i] = "zero"]
    /\ status' = IF status.i + 1 \in Cell THEN [status EXCEPT !.i = @ + 1]
                 ELSE [status EXCEPT !.pc = "index"]
    /\ UNCHANGED <<mIsEnabled, work, mIntegralBufferIndex, met>>

ResetIndex ==
    /\ status.pc = "index"
    /\ mIntegralBufferIndex' = 0
    /\ status' = [status EXCEPT !.pc = "enable"]
    /\ UNCHANGED <<mIsEnabled, work, mIntegralBuffer, met>>

\* setEnabled(true)
Enable ==
    /\ status.pc = "enable"
    /\ mIsEnabled' = TRUE
    /\ status' = [status EXCEPT !.pc = "on"]
    /\ UNCHANGED <<work, window, met>>

-----------------------------------------------------------------------------
(* AttitudeController::work with PID::updateError, which adds one to the    *)
(* index and then takes it modulo the window, in two statements.            *)

Goto(from, to) == work.pc = from /\ work' = [work EXCEPT !.pc = to]

Others == <<mIsEnabled, status, met>>

Check ==
    /\ work.pc = "idle" /\ mIsEnabled
    /\ work' = [work EXCEPT !.pc = "store", !.error = "new"]
    /\ UNCHANGED window

Store ==
    /\ Goto("store", "load")
    /\ mIntegralBuffer' = [mIntegralBuffer EXCEPT ![mIntegralBufferIndex] = work.error]
    /\ UNCHANGED mIntegralBufferIndex

Load(from, to) ==
    /\ work.pc = from
    /\ work' = [work EXCEPT !.pc = to, !.register = mIntegralBufferIndex]
    /\ UNCHANGED window

Increment ==
    /\ Goto("increment", "reload")
    /\ mIntegralBufferIndex' = work.register + 1
    /\ UNCHANGED mIntegralBuffer

\* Bug: the index goes back only from beyond the end.
WrapLate ==
    /\ Goto("wrap", "sum")
    /\ mIntegralBufferIndex' = work.register % (mIntegralWindowSize + 1)
    /\ UNCHANGED mIntegralBuffer

Wrap ==
    /\ Goto("wrap", "sum")
    /\ mIntegralBufferIndex' = work.register % mIntegralWindowSize
    /\ UNCHANGED mIntegralBuffer

\* The sum is read and the result returned.
Sum ==
    /\ Goto("sum", "idle")
    /\ UNCHANGED window

StatusThread == Release \/ Takeover \/ Clear \/ ResetIndex \/ Enable

Work ==
    /\ \/ Check \/ Store \/ Load("load", "increment") \/ Increment
       \/ Load("reload", "wrap") \/ Wrap \/ Sum
    /\ UNCHANGED Others

Next == StatusThread \/ Work

Spec == Init /\ [][Next]_vars

-----------------------------------------------------------------------------
TypeOK ==
    /\ mIsEnabled \in BOOLEAN
    /\ status \in [pc : {"off", "clear", "index", "enable", "on"}, i : Cell]
    /\ work \in [pc : {"idle", "store", "load", "increment", "reload", "wrap", "sum"},
                 error : {"old", "new"}, register : 0 .. mIntegralWindowSize]
    /\ mIntegralBuffer \in [Cell -> {"zero", "old", "new"}]
    /\ mIntegralBufferIndex \in 0 .. mIntegralWindowSize
    /\ met \in BOOLEAN

(* The error is stored within the buffer, whatever reset() does to the      *)
(* index between the statements that advance it.                            *)
StoresInside == work.pc = "store" => mIntegralBufferIndex \in Cell

(* When the controller is enabled the window holds no error of the flight   *)
(* before; one if a work() was under way when reset() began.                *)
WindowIsClear ==
    status.pc = "on" =>
        LET old == {c \in Cell : mIntegralBuffer[c] = "old"} IN
        \A c, d \in old : c = d /\ met
=============================================================================
