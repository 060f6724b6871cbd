------------------------------ MODULE IrReceiver ------------------------------
(* The infra-red receiver of arduino/ir/IRrecvDemo: the timer interrupt     *)
(* that samples the sensor every 50 us and records the lengths of marks and *)
(* spaces, and the sketch's loop() with IRrecv::decode and resume, which    *)
(* the interrupt may hit between any two accesses to irparams.  An entry of *)
(* rawbuf is abstracted to what was measured.  Which protocol a decoder     *)
(* finds in them does not matter here: decode() changes no other state.     *)
EXTENDS Naturals

CONSTANTS
    RAWBUF,
    GAP_TICKS,
    Wrap        \* unsigned int timer: 2^16 on the Arduino

ConstantsAssumption ==
    /\ {RAWBUF, GAP_TICKS, Wrap} \subseteq Nat
    /\ RAWBUF > 0 /\ GAP_TICKS > 1 /\ Wrap > 2 * GAP_TICKS

VARIABLES
    rcvstate, timer, rawlen, rawbuf,   \* irparams
    main,      \* where loop() is
    results,   \* results->rawlen
    lag,       \* interrupts since the last step of main
    quiet,     \* history: samples since the last mark
    crossed    \* history: this recording began within a resume()

irparams == <<rcvstate, timer, rawlen, rawbuf>>
vars == <<irparams, main, results, lag, quiet, crossed>>

\* Two accesses in a row are less than one period of the timer apart.
Adjacent == {"state", "rawlen"}

\* Bound: how long a silence lasts.
Longest == Wrap + GAP_TICKS

Init ==
    /\ rcvstate = "IDLE" /\ timer = 0 /\ rawlen = 0
    /\ rawbuf = [i \in 0 .. RAWBUF - 1 |-> "none"]
    /\ main = "loop" /\ results = 0 /\ lag = 0
    /\ quiet = 0 /\ crossed = FALSE

Record(i, kind) ==
    /\ rawbuf' = [rawbuf EXCEPT ![i] = kind]
    /\ rawlen' = i + 1
    /\ timer' = 0

-----------------------------------------------------------------------------
(* The interrupt, by the state it finds after the overflow check.           *)

Found == IF rawlen >= RAWBUF THEN "STOP" ELSE rcvstate
Ticked == (timer + 1) % Wrap
Keep == UNCHANGED <<rawlen, rawbuf>>

InIdle(mark) ==
    /\ Found = "IDLE"
    /\ IF mark /\ Ticked >= GAP_TICKS
       THEN rcvstate' = "MARK" /\ Record(0, "gap") /\ crossed' = (main = "rawlen")
       ELSE /\ timer' = IF mark THEN 0 ELSE Ticked
            /\ UNCHANGED <<rcvstate, crossed>> /\ Keep

InMark(mark) ==
    /\ Found = "MARK"
    /\ IF mark THEN timer' = Ticked /\ rcvstate' = Found /\ Keep
       ELSE rcvstate' = "SPACE" /\ Record(rawlen, "mark")
    /\ UNCHANGED crossed

InSpace(mark) ==
    /\ Found = "SPACE"
    /\ IF mark THEN rcvstate' = "MARK" /\ Record(rawlen, "space")
       ELSE /\ timer' = Ticked
            /\ rcvstate' = IF Ticked > GAP_TICKS THEN "STOP" ELSE "SPACE"
            /\ Keep
    /\ UNCHANGED crossed

\* Bug: a mark does not start the measure of the gap again.
InStopKeepsTimer(mark) ==
    /\ Found = "STOP"
    /\ rcvstate' = Found
    /\ timer' = Ticked
    /\ UNCHANGED crossed /\ Keep

InStop(mark) ==
    /\ Found = "STOP"
    /\ rcvstate' = Found
    /\ timer' = IF mark THEN 0 ELSE Ticked
    /\ UNCHANGED crossed /\ Keep

Interrupt ==
    /\ main \in Adjacent => lag = 0
    /\ lag' = IF main \in Adjacent THEN 1 ELSE 0
    /\ \E mark \in BOOLEAN :
          /\ InIdle(mark) \/ InMark(mark) \/ InSpace(mark) \/ InStop(mark)
          /\ quiet' = IF mark THEN 0 ELSE quiet + 1
          /\ ~mark => quiet < Longest
    /\ UNCHANGED <<main, results>>

-----------------------------------------------------------------------------
(* loop(), one step per access to irparams.                                 *)

Goto(from, to) == main = from /\ main' = to /\ lag' = 0

\* decode() copies the length, then looks whether it may.
CopyLength ==
    /\ Goto("loop", "state")
    /\ results' = rawlen
    /\ UNCHANGED irparams

CheckState ==
    /\ Goto("state", IF rcvstate = "STOP" THEN "decode" ELSE "loop")
    /\ UNCHANGED <<irparams, results>>

\* Decoded or not, by the hash or before it, resume() follows: loop() calls it
\* for a code, decode() itself for none.
Decode ==
    /\ Goto("decode", "resume")
    /\ UNCHANGED <<irparams, results>>

ResumeState ==
    /\ Goto("resume", "rawlen")
    /\ rcvstate' = "IDLE"
    /\ UNCHANGED <<timer, rawlen, rawbuf, results>>

ResumeLength ==
    /\ Goto("rawlen", "loop")
    /\ rawlen' = 0
    /\ UNCHANGED <<rcvstate, timer, rawbuf, results>>

Loop ==
    /\ CopyLength \/ CheckState \/ Decode \/ ResumeState \/ ResumeLength
    /\ UNCHANGED <<quiet, crossed>>

Next == Interrupt \/ Loop

Spec == Init /\ [][Next]_vars

-----------------------------------------------------------------------------
TypeOK ==
    /\ rcvstate \in {"IDLE", "MARK", "SPACE", "STOP"}
    /\ timer \in 0 .. Wrap - 1
    /\ rawlen \in 0 .. RAWBUF
    /\ rawbuf \in [0 .. RAWBUF - 1 -> {"none", "gap", "mark", "space"}]
    /\ main \in {"loop", "state", "decode", "resume", "rawlen"}
    /\ results \in 0 .. RAWBUF
    /\ lag \in 0 .. 1
    /\ quiet \in 0 .. Longest
    /\ crossed \in BOOLEAN

(* While it waits for a gap the timer, which is never set when a recording  *)
(* ends or is resumed, counts the samples of silence, modulo its width.     *)
(* So a recording starts with a mark after a gap, never within a code.      *)
GapMeasured ==
    rcvstate \in {"IDLE", "STOP"} =>
        \E q \in {quiet, quiet - 1} : q \in Nat /\ timer = q % Wrap

(* A code is decoded as it was received, the gap first, then marks and      *)
(* spaces in turn, and of the length decode() copied before it knew that    *)
(* recording had stopped; unless it began within a resume().                *)
DecodesWhole ==
    main = "decode" /\ ~crossed =>
        /\ results = rawlen
        /\ \A i \in 0 .. rawlen - 1 :
              rawbuf[i] = IF i = 0 THEN "gap" ELSE IF i % 2 = 1 THEN "mark" ELSE "space"

(* The recording is of one code, from a gap on, and stays in its buffer.    *)
ReceiverSound == TypeOK /\ GapMeasured /\ DecodesWhole
=============================================================================
