------------------------------ MODULE SerialServo ------------------------------
(* SerialServoDriver: the read thread publishes the channels of the pilot's *)
(* radio one by one, other threads copy them; controllers store the signal  *)
(* to put out and, in manual mode, pack and send it themselves, in          *)
(* continuous mode the write thread does.  Nothing of this is locked but    *)
(* the send itself, and a compiler may take the channels in any order.  A   *)
(* signal is abstracted to the message or the call each channel is of.      *)
EXTENDS Naturals

CONSTANTS
    Channel,      \* aileron, elevator, throttle, ...
    Writer,       \* the threads that call setOverrideServoSignal
    writeThread,  \* mWriteThread
    Mode,         \* what setOutputMode is called with
    MaxMessages,  \* bound: RC_CHANNELS_RAW messages received
    MaxWrites     \* bound: calls of setOverrideServoSignal

ConstantsAssumption ==
    /\ writeThread \notin Writer
    /\ Mode \subseteq {"DISABLE", "MANULLY", "CONTINUOS"}
    /\ MaxMessages \in Nat /\ MaxWrites \in Nat

VARIABLES
    mRawServoSignal,
    fetch,                \* the read thread: message in hand, channels to publish
    copy,                 \* a getRawServoSignal: channels to copy, those copied
    mOverrideServoSignal,
    mOutputMode,
    call,                 \* each thread that stores or sends, see Idle
    writes,               \* calls of setOverrideServoSignal so far
    sent,                 \* the last frame on the wire, and whose it is
    lastAlone             \* history: the last call met no other thread, nor a
                          \* mode but the manual one

rawVars == <<mRawServoSignal, fetch, copy>>
outVars == <<mOverrideServoSignal, mOutputMode, call, writes, sent, lastAlone>>
vars == <<rawVars, outVars>>

Signal == [Channel -> Nat]
Constantly(n) == [ch \in Channel |-> n]
Threads == Writer \cup {writeThread}

\* A thread outside the driver.  Within, "todo" is what it has to store or to
\* pack yet, "alone" that no other was within since it came.
Idle == [pc |-> "idle", id |-> 0, todo |-> {}, buf |-> Constantly(0), alone |-> TRUE]
AllIdle == \A t \in Threads : call[t].pc = "idle"

Init ==
    /\ mRawServoSignal = Constantly(0)
    /\ fetch = [message |-> 0, todo |-> {}]
    /\ copy = [todo |-> {}, signal |-> Constantly(0), floor |-> 0]
    /\ mOverrideServoSignal = Constantly(0)
    /\ mOutputMode = "MANULLY"
    /\ call = [t \in Threads |-> Idle]
    /\ writes = 0
    /\ sent = [id |-> 0, signal |-> Constantly(0), alone |-> TRUE]
    /\ lastAlone = TRUE

-----------------------------------------------------------------------------
(* The pilot's signal.                                                      *)

\* The last message every channel of which is published.
Published == IF fetch.todo = {} THEN fetch.message ELSE fetch.message - 1

\* fetchServos: a whole message was parsed.
FetchMessage ==
    /\ fetch.todo = {} /\ fetch.message < MaxMessages
    /\ fetch' = [message |-> fetch.message + 1, todo |-> Channel]
    /\ UNCHANGED <<mRawServoSignal, copy, outVars>>

Publish(ch) ==
    /\ ch \in fetch.todo
    /\ mRawServoSignal' = [mRawServoSignal EXCEPT ![ch] = fetch.message]
    /\ fetch' = [fetch EXCEPT !.todo = @ \ {ch}]
    /\ UNCHANGED <<copy, outVars>>

\* getRawServoSignal returns a copy of the structure.
GetRawServoSignal ==
    /\ copy.todo = {}
    /\ copy' = [copy EXCEPT !.todo = Channel, !.floor = Published]
    /\ UNCHANGED <<mRawServoSignal, fetch, outVars>>

CopyChannel(ch) ==
    /\ ch \in copy.todo
    /\ copy' = [copy EXCEPT !.todo = @ \ {ch}, !.signal[ch] = mRawServoSignal[ch]]
    /\ UNCHANGED <<mRawServoSignal, fetch, outVars>>

-----------------------------------------------------------------------------
(* The signal to put out.                                                   *)

\* Whoever comes in meets those who are within, and they it.
Enter(t, c) ==
    /\ call[t].pc = "idle"
    /\ call' = [u \in Threads |->
                   IF u = t THEN [c EXCEPT !.alone = AllIdle]
                   ELSE [call[u] EXCEPT !.alone = @ /\ call[u].pc = "idle"]]

SetOverrideServoSignal(w) ==
    /\ writes < MaxWrites
    /\ writes' = writes + 1
    /\ Enter(w, [Idle EXCEPT !.pc = "store", !.id = writes', !.todo = Channel])
    /\ lastAlone' = (AllIdle /\ mOutputMode = "MANULLY")
    /\ UNCHANGED <<rawVars, mOverrideServoSignal, mOutputMode, sent>>

StoreChannel(w, ch) ==
    /\ call[w].pc = "store" /\ ch \in call[w].todo
    /\ mOverrideServoSignal' = [mOverrideServoSignal EXCEPT ![ch] = call[w].id]
    /\ call' = [call EXCEPT ![w].todo = @ \ {ch}]
    /\ UNCHANGED <<rawVars, mOutputMode, writes, sent, lastAlone>>

\* Bug: the signal may be sent before it is stored.
CheckModeEarly(w) ==
    /\ call[w].pc = "store"
    /\ mOutputMode = "MANULLY"
    /\ call' = [call EXCEPT ![w].pc = "pack", ![w].todo = Channel]
    /\ UNCHANGED <<rawVars, mOverrideServoSignal, mOutputMode, writes, sent, lastAlone>>

CheckMode(w) ==
    /\ call[w].pc = "store" /\ call[w].todo = {}
    /\ call' = IF mOutputMode = "MANULLY"
               THEN [call EXCEPT ![w].pc = "pack", ![w].todo = Channel]
               ELSE [call EXCEPT ![w] = Idle]
    /\ UNCHANGED <<rawVars, mOverrideServoSignal, mOutputMode, writes, sent, lastAlone>>

WriteServos ==
    /\ mOutputMode = "CONTINUOS"
    /\ Enter(writeThread, [Idle EXCEPT !.pc = "pack", !.todo = Channel])
    /\ UNCHANGED <<rawVars, mOverrideServoSignal, mOutputMode, writes, sent, lastAlone>>

\* emitSignal: the channels are read, packed and sent.
PackChannel(t, ch) ==
    /\ call[t].pc = "pack" /\ ch \in call[t].todo
    /\ call' = [call EXCEPT ![t].todo = @ \ {ch}, ![t].buf[ch] = mOverrideServoSignal[ch]]
    /\ UNCHANGED <<rawVars, mOverrideServoSignal, mOutputMode, writes, sent, lastAlone>>

Send(t) ==
    /\ call[t].pc = "pack" /\ call[t].todo = {}
    /\ sent' = [id |-> call[t].id, signal |-> call[t].buf, alone |-> call[t].alone]
    /\ call' = [call EXCEPT ![t] = Idle]
    /\ UNCHANGED <<rawVars, mOverrideServoSignal, mOutputMode, writes, lastAlone>>

SetOutputMode(m) ==
    /\ mOutputMode' = m
    /\ lastAlone' = (lastAlone /\ m = "MANULLY")
    /\ UNCHANGED <<rawVars, mOverrideServoSignal, call, writes, sent>>

-----------------------------------------------------------------------------
Fetching == FetchMessage \/ \E ch \in Channel : Publish(ch)
Copying == GetRawServoSignal \/ \E ch \in Channel : CopyChannel(ch)
Emitting(t) == Send(t) \/ \E ch \in Channel : PackChannel(t, ch)
Storing(w) == CheckMode(w) \/ \E ch \in Channel : StoreChannel(w, ch)
Writing(w) == Storing(w) \/ Emitting(w)
WriteThread == WriteServos \/ Emitting(writeThread)

\* The pilot's side and the servos' share no state.
Input == Fetching \/ Copying

Output ==
    \/ \E w \in Writer : SetOverrideServoSignal(w) \/ Writing(w)
    \/ WriteThread
    \/ \E m \in Mode : SetOutputMode(m)

Next == Input \/ Output

Spec == Init /\ [][Next]_vars

-----------------------------------------------------------------------------
TypeOK ==
    /\ mRawServoSignal \in [Channel -> 0 .. MaxMessages]
    /\ fetch \in [message : 0 .. MaxMessages, todo : SUBSET Channel]
    /\ copy \in [todo : SUBSET Channel, signal : [Channel -> 0 .. MaxMessages],
                 floor : 0 .. MaxMessages]
    /\ mOverrideServoSignal \in [Channel -> 0 .. MaxWrites]
    /\ mOutputMode \in {"DISABLE", "MANULLY", "CONTINUOS"}
    /\ \A t \in Threads :
           /\ call[t].pc \in {"idle", "store", "pack"}
           /\ call[t].id \in 0 .. MaxWrites
           /\ call[t].todo \subseteq Channel
           /\ call[t].buf \in [Channel -> 0 .. MaxWrites]
    /\ call[writeThread].pc # "idle" => "CONTINUOS" \in Mode
    /\ writes \in 0 .. MaxWrites
    /\ sent.signal \in [Channel -> 0 .. MaxWrites]

(* A copy of the pilot's signal may mix messages, but no channel of it is   *)
(* older than the last message published in full when the copy was begun.   *)
CopyNotOlder ==
    copy.todo = {} => \A ch \in Channel : copy.signal[ch] >= copy.floor

(* A frame sent in a call that met no other thread in the driver is the     *)
(* signal of that call in every channel.                                    *)
FrameOfOneCall ==
    sent.alone /\ sent.id # 0 => sent.signal = Constantly(sent.id)

(* When all is quiet and the last call was made in manual mode and met no   *)
(* other, the servos have its signal: no frame packed before is sent after. *)
LastCallSent == AllIdle /\ lastAlone => sent.signal = Constantly(writes)

(* What is copied of the pilot's signal and what is sent to the servos goes *)
(* wrong by the mixing of calls at once, and in no other way.               *)
ServoSound == TypeOK /\ CopyNotOlder /\ FrameOfOneCall /\ LastCallSent

=============================================================================
