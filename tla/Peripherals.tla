------------------------------ MODULE Peripherals ------------------------------
(***************************************************************************)
(* What stands between the programs and the world outside, side by side:   *)
(* the parser of MAVLink messages, the infra-red receiver and the manager  *)
(* of the pins.  They belong to different programs or threads and share no *)
(* state: a behaviour is one of one of them, the others at rest.           *)
(***************************************************************************)
EXTENDS Mavlink

CONSTANTS
    RAWBUF, GAP_TICKS, TimerWrap,    \* IrReceiver
    Key, PinOf, MaxPins              \* Gpio

VARIABLES
    part,    \* the part that moves
    rcvstate, timer, rawlen, rawbuf, main, results, lag, quiet, crossed,
    exportedPins, handlers, cleaning, toClean, kernel, refused

infraredVars == <<rcvstate, timer, rawlen, rawbuf, main, results, lag, quiet, crossed>>
pinVars == <<exportedPins, handlers, cleaning, toClean, kernel, refused>>
allVars == <<part, vars, infraredVars, pinVars>>

Infrared == INSTANCE IrReceiver WITH Wrap <- TimerWrap
Pins == INSTANCE Gpio

ASSUME PeripheralsAssumption ==
    Infrared!ConstantsAssumption /\ Pins!KeysAssumption

PeripheralsInit ==
    /\ part \in {"mavlink", "infrared", "pins"}
    /\ Init /\ Infrared!Init
    /\ Pins!Init /\ (part # "pins" => kernel = {})

ParserMoves == part = "mavlink" /\ Next /\ UNCHANGED <<part, infraredVars, pinVars>>

Sampled == part = "infrared" /\ Infrared!Interrupt /\ UNCHANGED <<part, vars, pinVars>>
LoopMoves == part = "infrared" /\ Infrared!Loop /\ UNCHANGED <<part, vars, pinVars>>

PinsMove == part = "pins" /\ Pins!Next /\ UNCHANGED <<part, vars, infraredVars>>

PeripheralsNext == ParserMoves \/ Sampled \/ LoopMoves \/ PinsMove

PeripheralsSpec == PeripheralsInit /\ [][PeripheralsNext]_allVars

-----------------------------------------------------------------------------
(* What IrReceiver and Gpio promise, and what a comment of gpio_manager.cpp *)
(* does, see there.                                                         *)
ReceiverSound == Infrared!ReceiverSound
GpioSound == Pins!GpioSound
CleanUnexportsAll == Pins!CleanUnexportsAll
=============================================================================
