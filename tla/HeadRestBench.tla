--------------------------- MODULE HeadRestBench ---------------------------
(***************************************************************************)
(* The firmware alone, with anyone at the other end of the serial line:    *)
(* any command byte at any time, and power cycles.                         *)
(***************************************************************************)
EXTENDS HeadRest

CONSTANTS
    MaxCommands,      \* bound: command bytes that arrive
    MaxPowerCycles    \* bound: power cycles

ASSUME BenchAssumption == MaxCommands \in Nat /\ MaxPowerCycles \in Nat

VARIABLES commands, powerCycles   \* how many there have been

benchVars == <<firmwareVars, commands, powerCycles>>

Init == FirmwareInit /\ commands = 0 /\ powerCycles = 0

Arrive ==
    /\ commands < MaxCommands
    /\ commands' = commands + 1
    /\ \E c \in Command : SerialReceive(c)
    /\ UNCHANGED powerCycles

Restart ==
    /\ powerCycles < MaxPowerCycles
    /\ powerCycles' = powerCycles + 1
    /\ PowerCycle
    /\ UNCHANGED commands

Run == Loop /\ UNCHANGED <<commands, powerCycles>>

Next == Arrive \/ Restart \/ Run

\* loop() is called for ever; nothing obliges a command or a restart to come.
Spec == Init /\ [][Next]_benchVars /\ WF_benchVars(Run)

-----------------------------------------------------------------------------

TypeOK ==
    /\ at \in {"drain", "homing", "discard", "move", "report"}
    /\ movingStatus \in {"stop", "up", "down"}
    /\ hrPosition \in Int
    /\ height \in 0 .. Travel
    /\ rx \in Seq([byte : Command,
                   during : {"drain", "homing", "discard", "move", "report"}])
    /\ Len(rx) <= RxSize
    /\ homed \in BOOLEAN
    /\ commands \in 0 .. MaxCommands
    /\ powerCycles \in 0 .. MaxPowerCycles

(***************************************************************************)
(* From the first time the bottom switch is seen the position the firmware *)
(* reports is the height of the carriage, through limit stops, resets and  *)
(* reversals (moveHrUp, moveHrDown, case 'r').                             *)
(***************************************************************************)
PositionTrueOnceHomed == homed => hrPosition = height

(***************************************************************************)
(* Before that the position is relative to where power came on, so it may  *)
(* be negative, but it never leaves the int16_t that carries it: ++ and -- *)
(* are always stopped by a switch first.                                   *)
(***************************************************************************)
PositionNeverWraps == hrPosition \in -Travel .. Travel

(***************************************************************************)
(* No command that came while the carriage was being homed is ever obeyed: *)
(* when loop() looks for commands again, none of them is left (the inner   *)
(* while loop of case 'r').                                                *)
(***************************************************************************)
HomingDiscardsCommands ==
    at \in {"drain", "move", "report"} =>
        \A i \in 1 .. Len(rx) : rx[i].during \notin {"homing", "discard"}

(***************************************************************************)
(* When commands cease the motor comes to rest, if only at a limit.        *)
(***************************************************************************)
ComesToRest == <>[](movingStatus = "stop")

=============================================================================
