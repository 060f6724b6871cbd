------------------------------ MODULE HeadRest ------------------------------
(***************************************************************************)
(* The firmware of the head rest: arduino/hr/hr.ino.  loop() drains the    *)
(* serial port, moves the motor by at most one step, and reports.  The     *)
(* mechanism it drives is modelled from the two limit switches the sketch  *)
(* reads: height is the true position of the carriage, the bottom switch   *)
(* reads LOW at height 0 and the top switch at height Travel.              *)
(*                                                                         *)
(* A byte may reach the serial port between any two steps of loop().  The  *)
(* analog readings are not modelled here; the report is its position.      *)
(***************************************************************************)
EXTENDS Integers, Sequences

CONSTANTS
    Travel,       \* motor steps between the two limit switches
    RxSize        \* bytes Serial buffers; a byte that finds it full is lost

ASSUME TravelAssumption == Travel \in Nat /\ Travel < 2^15
ASSUME RxAssumption == RxSize \in Nat \ {0}

Command == {"w", "s", " ", "r"}

VARIABLES
    at,            \* where loop() is
    movingStatus,  \* hrMovingStatus
    hrPosition,    \* hrPosition: what the firmware believes the height to be
    height,        \* where the carriage really is
    rx,            \* bytes waiting in Serial, each with the place it came at
    homed          \* history: the bottom switch was seen since power-up

firmwareVars == <<at, movingStatus, hrPosition, height, rx, homed>>

AtBottom == height = 0     \* !digitalRead(PIN_LIMIT_BOTTOM)
AtTop == height = Travel   \* !digitalRead(PIN_LIMIT_TOP)

-----------------------------------------------------------------------------

\* setup(): the carriage is wherever the last run left it.
FirmwareInit ==
    /\ at = "drain"
    /\ movingStatus = "stop"
    /\ hrPosition = 0
    /\ height \in 0 .. Travel
    /\ rx = <<>>
    /\ homed = FALSE

\* A byte arrives at the serial port.
SerialReceive(c) ==
    /\ rx' = IF Len(rx) < RxSize THEN Append(rx, [byte |-> c, during |-> at]) ELSE rx
    /\ UNCHANGED <<at, movingStatus, hrPosition, height, homed>>

StatusFor(c) ==
    CASE c = "w" -> "up"
      [] c = "s" -> "down"
      [] c = " " -> "stop"
      [] OTHER -> movingStatus

ReadCommand ==
    /\ at = "drain"
    /\ rx # <<>>
    /\ rx' = Tail(rx)
    /\ movingStatus' = StatusFor(Head(rx).byte)
    /\ at' = IF Head(rx).byte = "r" THEN "homing" ELSE "drain"
    /\ UNCHANGED <<hrPosition, height, homed>>

NoCommandLeft ==
    /\ at = "drain"
    /\ rx = <<>>
    /\ at' = "move"
    /\ UNCHANGED <<movingStatus, hrPosition, height, rx, homed>>

\* while (digitalRead(PIN_LIMIT_BOTTOM)) moveHrDown(); the switch cannot
\* change between the loop's test and moveHrDown's own.
HomingStep ==
    /\ at = "homing"
    /\ ~AtBottom
    /\ height' = height - 1
    /\ hrPosition' = hrPosition - 1
    /\ UNCHANGED <<at, movingStatus, rx, homed>>

\* Bug: the position is not cleared when the bottom is reached.
HomingDoneKeepsPosition ==
    /\ at = "homing"
    /\ AtBottom
    /\ homed' = TRUE
    /\ at' = "discard"
    /\ UNCHANGED <<movingStatus, hrPosition, height, rx>>

HomingDone ==
    /\ at = "homing"
    /\ AtBottom
    /\ hrPosition' = 0
    /\ homed' = TRUE
    /\ at' = "discard"
    /\ UNCHANGED <<movingStatus, height, rx>>

\* Bug: one byte is thrown away, not all of them.
DiscardOne ==
    /\ at = "discard"
    /\ rx # <<>>
    /\ rx' = Tail(rx)
    /\ at' = "drain"
    /\ UNCHANGED <<movingStatus, hrPosition, height, homed>>

\* Commands that came while homing are thrown away.
DiscardCommand ==
    /\ at = "discard"
    /\ rx # <<>>
    /\ rx' = Tail(rx)
    /\ UNCHANGED <<at, movingStatus, hrPosition, height, homed>>

NothingToDiscard ==
    /\ at = "discard"
    /\ rx = <<>>
    /\ at' = "drain"
    /\ UNCHANGED <<movingStatus, hrPosition, height, rx, homed>>

\* Bug: a step is counted although the top switch stopped the motor.
MoveHrUpMiscounts ==
    /\ at = "move"
    /\ movingStatus = "up"
    /\ hrPosition' = hrPosition + 1
    /\ IF AtTop
         THEN movingStatus' = "stop" /\ UNCHANGED height
         ELSE height' = height + 1 /\ UNCHANGED movingStatus
    /\ at' = "report"
    /\ UNCHANGED <<rx, homed>>

MoveHrUp ==
    /\ at = "move"
    /\ movingStatus = "up"
    /\ IF AtTop
         THEN /\ movingStatus' = "stop"
              /\ UNCHANGED <<height, hrPosition>>
         ELSE /\ height' = height + 1
              /\ hrPosition' = hrPosition + 1
              /\ UNCHANGED movingStatus
    /\ at' = "report"
    /\ UNCHANGED <<rx, homed>>

\* Bug: the motor is not switched off at the bottom.
MoveHrDownKeepsGoing ==
    /\ at = "move"
    /\ movingStatus = "down"
    /\ IF AtBottom
         THEN /\ hrPosition' = 0
              /\ homed' = TRUE
              /\ UNCHANGED <<height, movingStatus>>
         ELSE /\ height' = height - 1
              /\ hrPosition' = hrPosition - 1
              /\ UNCHANGED <<movingStatus, homed>>
    /\ at' = "report"
    /\ UNCHANGED rx

MoveHrDown ==
    /\ at = "move"
    /\ movingStatus = "down"
    /\ IF AtBottom
         THEN /\ hrPosition' = 0
              /\ homed' = TRUE
              /\ movingStatus' = "stop"
              /\ UNCHANGED height
         ELSE /\ height' = height - 1
              /\ hrPosition' = hrPosition - 1
              /\ UNCHANGED <<movingStatus, homed>>
    /\ at' = "report"
    /\ UNCHANGED rx

StandStill ==
    /\ at = "move"
    /\ movingStatus = "stop"
    /\ at' = "report"
    /\ UNCHANGED <<movingStatus, hrPosition, height, rx, homed>>

\* The packet is written; what becomes of it is the host's business.
SendReport ==
    /\ at = "report"
    /\ at' = "drain"
    /\ UNCHANGED <<movingStatus, hrPosition, height, rx, homed>>

Work ==
    \/ ReadCommand \/ NoCommandLeft
    \/ HomingStep \/ HomingDone
    \/ DiscardCommand \/ NothingToDiscard
    \/ MoveHrUp \/ MoveHrDown \/ StandStill

\* A power cycle (opening the port also resets the board) runs setup() again.
PowerCycle ==
    /\ at' = "drain"
    /\ movingStatus' = "stop"
    /\ hrPosition' = 0
    /\ rx' = <<>>
    /\ homed' = FALSE
    /\ UNCHANGED height

Loop == Work \/ SendReport

=============================================================================
