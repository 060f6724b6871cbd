------------------------------- MODULE WebProofs -------------------------------
(* Both ends of the web connection, the handler of the host and the server. *)
(*                                                                          *)
(* The host has one connection to the server, also when both threads drive  *)
(* and drop the connection at once, at any of the places between two        *)
(* accesses to what they share.  What makes it so is that the status is     *)
(* "disconnect" only while no connection is alive or the daemon is about to *)
(* say that it is connecting, and that a thread about to say that the       *)
(* connection is gone is the only one, and right (IInv).                    *)
(*                                                                          *)
(* From there, while connectServer has never begun during a sendText: one   *)
(* is under way only on a connection that is open or was closed under it,   *)
(* and one thread at most is between the end of a connection and the end of *)
(* its removal (CallInv); the context in hand is the newest entry of the    *)
(* table until it is removed (TableInv).  And a request for a writable      *)
(* callback stands only between the copy of a text and the service call     *)
(* behind it (Transfer).                                                    *)
(*                                                                          *)
(* The server's list of browsers is in the order they came and, until one   *)
(* leaves from the middle, links exactly the connected ones (ListInv).  What*)
(* a walk along it meets is shown by induction from its end: WalkFrom is a  *)
(* recursive function, and of several places where a claim fails the one    *)
(* farthest on (GreatestElement) refutes itself.                            *)
EXTENDS Web, TLAPS, SequenceTheorems, FiniteSetTheorems, WellFoundedInduction

USE ConstantsAssumption

D == at["daemon"]
M == at["main"]

Places ==
    /\ mWsStatus \in {"disconnect", "connecting", "connected"}
    /\ mWsContext \in 0 .. MaxContexts
    /\ conn \in [Contexts -> Phases]
    /\ at \in [Thread -> DaemonPlaces \cup MainPlaces]
    /\ D \in DaemonPlaces /\ M \in MainPlaces

\* Before the first context nothing runs but the daemon's look.
BeforeFirst ==
    mWsContext = 0 =>
        mWsStatus = "disconnect" /\ D = "look" /\ M \in {"idle", "skipped"}

GoodHasContext == mIsGood => mWsContext # 0

Untried ==
    /\ \A n \in Contexts : n > mWsContext => conn[n] = "none"
    /\ D \in {"register", "connect"} => conn[mWsContext] = "none"

StatusOfAlive ==
    mWsContext # 0 /\ conn[mWsContext] \in Alive /\ D # "started" =>
        mWsStatus # "disconnect"

\* A thread about to say that the connection is gone.
Pending == {"closed", "failed", "notConnected"}

Dropping ==
    /\ D \in Pending => conn[mWsContext] = "dead" /\ M \notin Pending
    /\ M \in Pending => /\ conn[mWsContext] = "dead"
                        /\ D \notin {"register", "connect"}
                        /\ D = "started" \/ mWsStatus # "disconnect"

IInv ==
    /\ Places /\ OneConnection /\ BeforeFirst /\ GoodHasContext
    /\ Untried /\ StatusOfAlive /\ Dropping

\* A thread at place p is between the end of a connection and the end of its
\* removal; c is the phase of the current connection.
Leaves(p, c) ==
    \/ p \in Pending \cup {"notGood", "remove"}
    \/ p = "switch" /\ c = "dead"

\* The daemon has a connection in hand that never was good.
Fresh ==
    {"register", "connect", "started", "service",
     "established", "good", "failed", "notConnected"}

\* The connection was good: it is open, or closed with its end not yet
\* reported and the daemon not yet at the next.
Held(d, c) ==
    /\ c \in {"open", "dead"}
    /\ d \notin Fresh
    /\ d = "switch" => c = "dead"

\* The places d of the daemon and m of the main thread, the phase c of the
\* current connection and the status s agree.
Agree(d, m, c, s) ==
    /\ m \notin {"idle", "skipped"} =>
           Held(d, c) /\ m \notin {"failed", "notConnected", "established", "good"}
    /\ d \in {"started", "service"} => c \in Opening
    /\ d \in {"established", "good"} => c = "open"
    /\ d = "good" => s = "connected"
    /\ d = "switch" => \/ c = "dead" /\ s = "disconnect"
                       \/ c = "open" /\ s = "connected"
    /\ m = "switch" => c = "dead" /\ s = "disconnect"
    /\ Leaves(d, c) => c = "dead" /\ ~Leaves(m, c)
    /\ Leaves(m, c) => c = "dead"

\* With mIsGood TRUE.
GoodWith(d, m, c, s) ==
    /\ Held(d, c)
    /\ c = "open" => s = "connected"
    /\ c = "dead" => {d, m} \cap {"closed", "switch", "notGood"} # {}

PlacesAgree == Agree(D, M, conn[mWsContext], mWsStatus)
GoodAgrees == mIsGood => GoodWith(D, M, conn[mWsContext], mWsStatus)
CallInv == ~crossed => PlacesAgree /\ GoodAgrees

\* The current context is in the table.
Here(d, m, c) == d # "register" /\ (c # "dead" \/ Leaves(d, c) \/ Leaves(m, c))

Listed(n) ==
    /\ n <= mWsContext
    /\ IF n = mWsContext THEN Here(D, M, conn[n]) ELSE conn[n] # "dead"

TableAgrees ==
    /\ ctxList \in Seq(Contexts) /\ handlerLength = Len(ctxList)
    /\ \A i, j \in 1 .. Len(ctxList) : i < j => ctxList[i] < ctxList[j]
    /\ \A n \in Contexts : Contains(ctxList, n) <=> Listed(n)

TableInv == ~crossed => TableAgrees

DataOK ==
    /\ text \in {0, 1}
    /\ mWsBuffer \in [1..2 -> {0, 1}] /\ frame \in [1..2 -> {0, 1}]
    /\ ctxList \in Seq(Contexts) /\ handlerLength \in Int
    /\ mIsGood \in BOOLEAN /\ wantsWrite \in BOOLEAN /\ offered \in BOOLEAN
    /\ crossed \in BOOLEAN /\ overtaken \in BOOLEAN

BufferInv ==
    /\ M # "copy2" => mWsBuffer[1] = mWsBuffer[2]
    /\ M \notin {"idle", "skipped", "copy1"} => mWsBuffer[1] = text
    /\ M \notin {"idle", "skipped", "copy1", "copy2"} => mWsBuffer[2] = text

WantsInv == wantsWrite => M = "touch" /\ mWsContext # 0 /\ conn[mWsContext] = "open"

FrameInv ==
    ~overtaken => /\ frame[1] = frame[2]
                  /\ M \in {"copy1", "copy2"} => D # "write"

OfferedInv ==
    ~crossed /\ M \notin {"idle", "skipped", "copy1", "copy2", "request", "write"} =>
        wantsWrite \/ offered \/ D = "write" \/ conn[mWsContext] # "open"

Transfer == BufferInv /\ WantsInv /\ FrameInv /\ OfferedInv

-----------------------------------------------------------------------------
LEMMA PhaseFacts ==
    /\ Alive = {"connect", "reply", "open"} /\ Opening = {"connect", "reply"}
    /\ Phases = {"connect", "reply", "none", "open", "dead", "lost"}
    /\ Thread = {"daemon", "main"}
    /\ After("daemon") = "sleep" /\ After("main") = "result"
  BY DEF Alive, Opening, Phases, Thread, After

LEMMA InitIInv == Init => IInv
<1> SUFFICES ASSUME Init PROVE IInv
  OBVIOUS
<1>1. GoodHasContext
  BY Zenon DEF Init, GoodHasContext
<1>2. /\ mWsStatus = "disconnect" /\ mWsContext = 0
      /\ conn = [n \in Contexts |-> "none"]
      /\ at = [t \in Thread |-> IF t = "daemon" THEN "look" ELSE "idle"]
  BY DEF Init
<1>3. D = "look" /\ M = "idle"
  BY <1>2 DEF D, M, Thread
<1>4. Places
  BY <1>2, <1>3, PhaseFacts DEF Places, DaemonPlaces, MainPlaces, LibraryPlaces
<1> QED
  BY <1>1, <1>2, <1>3, <1>4, PhaseFacts DEF IInv, OneConnection, BeforeFirst,
     Untried, StatusOfAlive, Dropping, Pending, Contexts

(* A thread that goes to a place leaves the other one where it is.          *)
LEMMA GotoFacts ==
  ASSUME Places, NEW t \in Thread, NEW place, Goto(t, place)
  PROVE  /\ t = "daemon" => D' = place /\ M' = M
         /\ t = "main" => M' = place /\ D' = D
         /\ at'[t] = place
         /\ place \in DaemonPlaces \cap MainPlaces => at' \in [Thread -> DaemonPlaces \cup MainPlaces]
         /\ t = "daemon" /\ place \in DaemonPlaces => at' \in [Thread -> DaemonPlaces \cup MainPlaces]
         /\ t = "main" /\ place \in MainPlaces => at' \in [Thread -> DaemonPlaces \cup MainPlaces]
<1> at \in [Thread -> DaemonPlaces \cup MainPlaces] /\ Thread = {"daemon", "main"}
  BY PhaseFacts DEF Places
<1>1. at' = [at EXCEPT ![t] = place]
  BY DEF Goto
<1> HIDE DEF Goto
<1> QED BY <1>1 DEF D, M

(* What a service call does: the phase of the current connection and the    *)
(* place of the thread that makes it.                                       *)
Found == ~crossed /\ Contains(ctxList, mWsContext)

Event(t, phase, place) ==
    \/ /\ conn[mWsContext] \in Opening
       /\ phase \in {"reply", "lost"} /\ place = After(t)
    \/ /\ conn[mWsContext] = "reply"
       /\ phase = "open" /\ place \in {"established", After(t)}
       /\ Found => place = "established"
    \/ /\ conn[mWsContext] = "open"
       /\ phase = "dead" /\ place \in {"closed", After(t)}
       /\ Found => place = "closed"
    \/ /\ conn[mWsContext] = "open"
       /\ phase = "open" /\ place \in {"write", After(t)}
    \/ /\ phase = conn[mWsContext] /\ place = After(t)
    \/ /\ conn[mWsContext] \in Opening
       /\ phase = "dead" /\ place = IF at[t] = "service" THEN "notConnected" ELSE "failed"

LEMMA CallbackFacts ==
  ASSUME NEW t, NEW place, Callback(t, place)
  PROVE  \E q \in {place, After(t)} : Goto(t, q) /\ (Found => q = place)
<1>1. PICK found \in Finds : Goto(t, IF found THEN place ELSE After(t))
  BY Zenon DEF Callback
<1>2. CASE found
  BY <1>1, <1>2, Zenon
<1>3. CASE ~found
  <2>1. ~Found
    BY <1>1, <1>3, Zenon DEF Finds, Found
  <2> QED BY <1>1, <1>3, <2>1, Zenon
<1> QED BY <1>2, <1>3

LEMMA ServiceFacts ==
  ASSUME IInv, NEW t \in Thread, Service(t)
  PROVE  /\ at[t] \in {"touch", "service"} /\ mWsContext \in Contexts
         /\ UNCHANGED <<mWsStatus, mWsContext, ctxList, handlerLength>>
         /\ \E phase \in Phases, place \in LibraryPlaces \cup {"sleep", "result"} :
               /\ conn' = [conn EXCEPT ![mWsContext] = phase]
               /\ Goto(t, place)
               /\ Event(t, phase, place)
<1>1. at[t] \in {"touch", "service"} /\ UNCHANGED <<mWsStatus, mWsContext, ctxList, handlerLength>>
  BY DEF Service, handler, table, status
<1>2. mWsContext \in Contexts
  BY <1>1, PhaseFacts DEF IInv, Places, BeforeFirst, Contexts, D, M
<1>3. After(t) \in {"sleep", "result"}
  BY DEF After
<1> DEFINE P == Phases
           L == LibraryPlaces \cup {"sleep", "result"}
           Goal == \E phase \in P, place \in L :
               /\ conn' = [conn EXCEPT ![mWsContext] = phase]
               /\ Goto(t, place)
               /\ Event(t, phase, place)
<1>4. /\ {"reply", "lost", "open", "dead"} \subseteq P
      /\ {"established", "closed", "write", "notConnected", "failed", After(t)} \subseteq L
      /\ conn[mWsContext] \in P /\ conn = [conn EXCEPT ![mWsContext] = conn[mWsContext]]
  BY <1>2, <1>3, PhaseFacts DEF LibraryPlaces, IInv, Places
<1>12. SUFFICES Goal
  BY <1>1, <1>2, Zenon DEF P, L
<1> HIDE DEF P, L
<1>5. CASE Progress(t)
  <2>1. Event(t, "reply", After(t)) /\ Goto(t, After(t))
        /\ conn' = [conn EXCEPT ![mWsContext] = "reply"]
    BY <1>5, Zenon DEF Progress, Event, Conn, Opening
  <2> QED BY <1>4, <2>1, Zenon
<1>6. CASE FailSilently(t)
  <2>1. Event(t, "lost", After(t)) /\ Goto(t, After(t))
        /\ conn' = [conn EXCEPT ![mWsContext] = "lost"]
    BY <1>6, Zenon DEF FailSilently, Event, Conn
  <2> QED BY <1>4, <2>1, Zenon
<1>7. CASE Establish(t)
  <2>1. PICK q \in {"established", After(t)} : Goto(t, q) /\ (Found => q = "established")
    BY <1>7, CallbackFacts DEF Establish
  <2>2. Event(t, "open", q) /\ conn' = [conn EXCEPT ![mWsContext] = "open"]
    BY <1>7, <2>1, Zenon DEF Establish, Event, Conn
  <2>3. q \in L
    BY <1>4, <2>1, Zenon
  <2> QED BY <1>4, <2>1, <2>2, <2>3, Zenon
<1>8. CASE Close(t)
  <2>1. PICK q \in {"closed", After(t)} : Goto(t, q) /\ (Found => q = "closed")
    BY <1>8, CallbackFacts DEF Close
  <2>2. Event(t, "dead", q) /\ conn' = [conn EXCEPT ![mWsContext] = "dead"]
    BY <1>8, <2>1, Zenon DEF Close, Event, Conn
  <2>3. q \in L
    BY <1>4, <2>1, Zenon
  <2> QED BY <1>4, <2>1, <2>2, <2>3, Zenon
<1>9. CASE Writeable(t)
  <2>1. PICK q \in {"write", After(t)} : Goto(t, q) /\ (Found => q = "write")
    BY <1>9, CallbackFacts DEF Writeable
  <2>2. Event(t, "open", q) /\ conn' = [conn EXCEPT ![mWsContext] = "open"]
    <3>1. conn[mWsContext] = "open" /\ conn' = conn
      BY <1>9, Zenon DEF Writeable
    <3>2. Event(t, "open", q)
      BY <2>1, <3>1, Zenon DEF Event
    <3> QED BY <1>4, <3>1, <3>2
  <2>3. q \in L
    BY <1>4, <2>1, Zenon
  <2> QED BY <1>4, <2>1, <2>2, <2>3, Zenon
<1>10. CASE NothingToDo(t)
  <2>1. Event(t, conn[mWsContext], After(t)) /\ Goto(t, After(t)) /\ conn' = conn
    BY <1>10, Zenon DEF NothingToDo, Event
  <2>2. conn' = [conn EXCEPT ![mWsContext] = conn[mWsContext]]
    BY <1>4, <2>1
  <2> QED BY <1>4, <2>1, <2>2, Zenon
<1>11. CASE ServiceFails(t)
  <2> DEFINE q == IF at[t] = "service" THEN "notConnected" ELSE "failed"
  <2>1. Event(t, "dead", q) /\ Goto(t, q) /\ conn' = [conn EXCEPT ![mWsContext] = "dead"]
    BY <1>11, Zenon DEF ServiceFails, Event, Conn
  <2>2. q \in L
    BY <1>4, Zenon
  <2> QED BY <1>4, <2>1, <2>2, Zenon
<1> QED
  BY <1>5, <1>6, <1>7, <1>8, <1>9, <1>10, <1>11, Zenon DEF Service

LEMMA ServiceIInv ==
  ASSUME IInv, NEW t \in Thread, Service(t), GoodHasContext'
  PROVE  IInv'
<1> PICK phase \in Phases, place \in LibraryPlaces \cup {"sleep", "result"} :
        /\ conn' = [conn EXCEPT ![mWsContext] = phase]
        /\ Goto(t, place)
        /\ Event(t, phase, place)
  BY ServiceFacts
<1>1. /\ at[t] \in {"touch", "service"} /\ mWsContext \in Contexts
      /\ UNCHANGED <<mWsStatus, mWsContext>>
  BY ServiceFacts
<1> Places /\ OneConnection /\ Untried /\ StatusOfAlive /\ Dropping
  BY DEF IInv
<1>2. /\ t = "daemon" => D' = place /\ M' = M /\ D \in {"touch", "service"}
      /\ t = "main" => M' = place /\ D' = D /\ M = "touch"
  BY <1>1, GotoFacts DEF D, M, Places, MainPlaces, LibraryPlaces
<1>3. /\ t = "daemon" => place # "result"
      /\ t = "main" => place \notin {"sleep", "service", "notConnected"}
      /\ place \notin {"touch", "service", "switch", "good", "notGood", "remove"}
  <2>1. at[t] = "service" => t = "daemon"
    BY PhaseFacts DEF Places, MainPlaces, LibraryPlaces, M
  <2>2. CASE t = "daemon"
    BY <2>2, PhaseFacts DEF Event
  <2>3. CASE t = "main"
    <3>1. at[t] # "service"
      BY <2>1, <2>3
    <3> QED BY <2>3, <3>1, PhaseFacts DEF Event
  <2> QED BY <2>2, <2>3, PhaseFacts
<1>4. /\ D' \in DaemonPlaces /\ M' \in MainPlaces
      /\ at' \in [Thread -> DaemonPlaces \cup MainPlaces]
  <2>1. CASE t = "daemon"
    <3>1. place \in DaemonPlaces
      BY <1>3, <2>1 DEF DaemonPlaces
    <3> QED BY <1>2, <2>1, <3>1, GotoFacts DEF Places
  <2>2. CASE t = "main"
    <3>1. place \in MainPlaces
      BY <1>3, <2>2 DEF MainPlaces
    <3> QED BY <1>2, <2>2, <3>1, GotoFacts DEF Places
  <2> QED BY <2>1, <2>2, PhaseFacts
<1>5. Places'
  BY <1>1, <1>4 DEF Places
<1>6. conn'[mWsContext] \in Alive => conn[mWsContext] \in Alive
  BY <1>1, PhaseFacts DEF Event, Places
<1>7. OneConnection'
  BY <1>1, <1>6 DEF OneConnection, Places
<1>8. Untried' /\ BeforeFirst'
  <2>1. conn[mWsContext] = "none" => conn'[mWsContext] = "none"
    BY <1>1, PhaseFacts DEF Event, Places
  <2>2. \A n \in Contexts : n > mWsContext => n # mWsContext /\ conn'[n] = conn[n]
    BY <1>1 DEF Places, Contexts
  <2>3. D' \notin {"register", "connect"} \/ D' = D
    BY <1>2, <1>3, PhaseFacts DEF LibraryPlaces
  <2>4. Untried'
    BY <1>1, <2>1, <2>2, <2>3 DEF Untried
  <2> QED BY <1>1, <2>4 DEF BeforeFirst, Contexts
<1>9. StatusOfAlive'
  <2>1. D' = "started" <=> D = "started"
    BY <1>2, <1>3, PhaseFacts DEF LibraryPlaces
  <2> QED BY <1>1, <1>6, <2>1 DEF StatusOfAlive
<1>10. Dropping'
  <2>1. place \in Pending => conn[mWsContext] \in Alive /\ conn'[mWsContext] = "dead"
    BY <1>1, PhaseFacts DEF Event, Places, Pending
  <2>2. conn[mWsContext] = "dead" => conn'[mWsContext] = "dead" /\ place \notin Pending
    BY <1>1, <2>1, PhaseFacts DEF Event, Places
  <2>3. CASE t = "daemon"
    <3>1. place \in Pending => M \notin Pending
      BY <2>2, <2>1, PhaseFacts DEF Dropping
    <3>2. D # "started" /\ place \notin {"register", "connect", "started"}
      BY <1>2, <2>3 DEF LibraryPlaces
    <3> QED BY <1>1, <1>2, <2>1, <2>2, <2>3, <3>1, <3>2 DEF Dropping
  <2>4. CASE t = "main"
    <3>1. place \in Pending => D \notin Pending
      BY <2>1, <2>2 DEF Dropping
    <3>2. place \in Pending => D \notin {"register", "connect"}
      BY <2>1, PhaseFacts DEF Untried
    <3>3. place \in Pending => D = "started" \/ mWsStatus # "disconnect"
      BY <1>1, <2>1 DEF StatusOfAlive, Contexts
    <3> QED BY <1>1, <1>2, <2>1, <2>2, <2>4, <3>1, <3>2, <3>3 DEF Dropping
  <2> QED BY <2>3, <2>4, PhaseFacts
<1> QED
  BY <1>5, <1>7, <1>8, <1>9, <1>10 DEF IInv

(* What the thread says of the connection is right, or still to be          *)
(* overwritten by the daemon that is just connecting.                       *)
LEMMA SetStatusIInv ==
  ASSUME IInv, NEW t \in Thread, SetStatus(t), GoodHasContext'
  PROVE  IInv'
<1> Places /\ OneConnection /\ Untried /\ StatusOfAlive /\ Dropping
  BY DEF IInv
<1>1. PICK place \in {"switch", "notGood", "remove"} : Goto(t, place)
  BY DEF SetStatus
<1>2. /\ at[t] \in {"established", "closed", "failed", "notConnected"}
      /\ mWsStatus' \in {"connected", "disconnect"}
      /\ mWsStatus' = "disconnect" => at[t] \in Pending
      /\ UNCHANGED <<mWsContext, conn>>
  BY DEF SetStatus, Pending
<1>3. /\ t = "daemon" => D' = place /\ M' = M /\ D = at[t]
      /\ t = "main" => M' = place /\ D' = D /\ M = at[t]
      /\ place \in DaemonPlaces \cap MainPlaces
      /\ at' \in [Thread -> DaemonPlaces \cup MainPlaces]
  BY <1>1, GotoFacts DEF D, M, DaemonPlaces, MainPlaces, LibraryPlaces
<1>4. mWsContext \in Contexts
  BY <1>2, PhaseFacts DEF IInv, Places, BeforeFirst, Contexts, D, M
<1>5. Places'
  BY <1>2, <1>3, PhaseFacts DEF Places
<1>6. OneConnection' /\ BeforeFirst'
  BY <1>2, <1>4 DEF OneConnection, BeforeFirst, Contexts
<1>7. Untried'
  BY <1>2, <1>3, PhaseFacts DEF Untried
<1>8. StatusOfAlive'
  <2>1. mWsStatus' = "disconnect" => conn[mWsContext] = "dead"
    BY <1>2, PhaseFacts DEF Dropping, D, M
  <2> QED BY <1>2, <2>1, PhaseFacts DEF StatusOfAlive
<1>9. Dropping'
  <2>1. place \notin Pending /\ place # "register" /\ place # "connect"
    BY <1>1 DEF Pending
  <2>2. CASE t = "main"
    BY <1>2, <1>3, <2>1, <2>2 DEF Dropping
  <2>3. CASE t = "daemon"
    <3>1. M \in Pending => mWsStatus' = "connected"
      BY <1>2, <1>3, <2>3 DEF Dropping
    <3> QED BY <1>2, <1>3, <2>1, <2>3, <3>1 DEF Dropping
  <2> QED BY <2>2, <2>3, PhaseFacts
<1> QED
  BY <1>5, <1>6, <1>7, <1>8, <1>9 DEF IInv

(* The other steps of a service call leave status and connections alone.    *)
LEMMA QuietIInv ==
  ASSUME IInv, NEW t \in Thread, NEW place \in DaemonPlaces \cup MainPlaces, Goto(t, place),
         UNCHANGED <<mWsStatus, mWsContext, conn>>, GoodHasContext',
         place \notin Pending \cup {"register", "connect", "started"},
         mWsContext = 0 => t = "main" /\ place \in {"idle", "skipped"},
         t = "daemon" => place \in DaemonPlaces /\ D # "started",
         t = "main" => place \in MainPlaces
  PROVE  IInv'
<1> Places /\ OneConnection /\ BeforeFirst /\ Untried /\ StatusOfAlive /\ Dropping
  BY DEF IInv
<1>1. /\ t = "daemon" => D' = place /\ M' = M
      /\ t = "main" => M' = place /\ D' = D
      /\ at' \in [Thread -> DaemonPlaces \cup MainPlaces]
  BY GotoFacts, PhaseFacts
<1>2. Places'
  BY <1>1, PhaseFacts DEF Places
<1>3. OneConnection' /\ BeforeFirst'
  BY <1>1, PhaseFacts DEF OneConnection, BeforeFirst
<1>4. Untried'
  BY <1>1, PhaseFacts DEF Untried
<1>5. StatusOfAlive'
  BY <1>1, PhaseFacts DEF StatusOfAlive
<1>6. Dropping'
  BY <1>1, PhaseFacts DEF Dropping
<1> QED
  BY <1>2, <1>3, <1>4, <1>5, <1>6 DEF IInv

LEMMA GoodKeepsContext ==
  ASSUME IInv, [Next]_vars PROVE GoodHasContext'
<1>1. mWsContext \in Nat /\ GoodHasContext
  BY DEF IInv, Places
<1>2. CASE \E t \in Thread : SetGood(t)
  <2>1. PICK t \in Thread : SetGood(t)
    BY <1>2
  <2>2. at[t] \in {"good", "notGood"} /\ mWsContext' = mWsContext
    BY <2>1 DEF SetGood
  <2>3. mWsContext # 0
    BY <2>2, PhaseFacts DEF IInv, BeforeFirst, D, M
  <2> QED BY <2>2, <2>3, Zenon DEF GoodHasContext
<1>3. CASE CreateContext
  <2>1. mWsContext' = mWsContext + 1
    BY <1>3 DEF CreateContext
  <2>2. mWsContext' # 0
    BY <1>1, <2>1
  <2> QED BY <2>2, Zenon DEF GoodHasContext
<1>4. CASE mIsGood' = mIsGood /\ mWsContext' = mWsContext
  BY <1>1, <1>4, Zenon DEF GoodHasContext
<1>5. \A t \in Thread : InLibrary(t) /\ ~SetGood(t) => mIsGood' = mIsGood /\ mWsContext' = mWsContext
  BY Zenon DEF InLibrary, Service, SetStatus, Switch, RemoveHandler, Write, handler, status
<1>6. Daemon => CreateContext \/ InLibrary("daemon") \/ (mIsGood' = mIsGood /\ mWsContext' = mWsContext)
  BY Zenon DEF Daemon, RegisterHandler, Refuse, ClientConnect, MarkConnecting, Look,
     Wake, handler, status
<1>7. Main => InLibrary("main") \/ (mIsGood' = mIsGood /\ mWsContext' = mWsContext)
  BY Zenon DEF Main, SendText, SendTextNotGood, CopyText, RequestWritable, Return,
     handler, status
<1>8. UNCHANGED vars => mIsGood' = mIsGood /\ mWsContext' = mWsContext
  BY Zenon DEF vars, handler, status
<1>9. "daemon" \in Thread /\ "main" \in Thread
  BY DEF Thread
<1> QED
  BY <1>2, <1>3, <1>4, <1>5, <1>6, <1>7, <1>8, <1>9, Zenon DEF Next

LEMMA LibraryIInv ==
  ASSUME IInv, NEW t \in Thread, InLibrary(t), GoodHasContext'
  PROVE  IInv'
<1>1. CASE Service(t)
  BY <1>1, ServiceIInv
<1>2. CASE SetStatus(t)
  BY <1>2, SetStatusIInv
<1>3. CASE Switch(t) \/ SetGood(t) \/ RemoveHandler(t) \/ Write(t)
  <2>1. /\ at[t] \in {"switch", "good", "notGood", "remove", "write"}
        /\ UNCHANGED <<mWsStatus, mWsContext, conn>>
    BY <1>3 DEF Switch, SetGood, RemoveHandler, Write, handler, status
  <2>2. PICK place \in {"notGood", "good", "remove", After(t)} : Goto(t, place)
    BY <1>3, Zenon DEF Switch, SetGood, RemoveHandler, Write
  <2>3. mWsContext # 0
    BY <2>1, PhaseFacts DEF IInv, BeforeFirst, D, M
  <2>4. /\ place \in DaemonPlaces \cup MainPlaces
        /\ place \notin Pending \cup {"register", "connect", "started"}
        /\ t = "daemon" => place \in DaemonPlaces /\ D # "started"
        /\ t = "main" => place \in MainPlaces
    BY <2>1, <2>2, PhaseFacts
       DEF DaemonPlaces, MainPlaces, LibraryPlaces, Pending, D
  <2> QED BY <2>1, <2>2, <2>3, <2>4, QuietIInv
<1> QED BY <1>1, <1>2, <1>3, Zenon DEF InLibrary

(* connectServer begins only when no connection is left.                    *)
LEMMA CreateContextIInv ==
  ASSUME IInv, CreateContext, GoodHasContext'
  PROVE  IInv'
<1> Places /\ OneConnection /\ BeforeFirst /\ Untried /\ StatusOfAlive /\ Dropping
  BY DEF IInv
<1>1. /\ D = "look" /\ mWsStatus = "disconnect" /\ mWsContext < MaxContexts
      /\ mWsContext' = mWsContext + 1 /\ UNCHANGED <<mWsStatus, conn>>
      /\ Goto("daemon", "register")
  BY DEF CreateContext, status, D
<1>2. /\ D' = "register" /\ M' = M
      /\ at' \in [Thread -> DaemonPlaces \cup MainPlaces]
  BY <1>1, GotoFacts, PhaseFacts DEF DaemonPlaces
<1>3. \A n \in Contexts : conn[n] \notin Alive
  BY <1>1 DEF OneConnection, StatusOfAlive, Contexts
<1>4. Places' /\ OneConnection'
  BY <1>1, <1>2, <1>3 DEF Places, OneConnection, DaemonPlaces
<1>5. Untried'
  BY <1>1, <1>2 DEF Places, Untried, Contexts
<1>6. StatusOfAlive' /\ BeforeFirst'
  <2>1. mWsContext' # 0 /\ conn'[mWsContext'] \notin Alive
    BY <1>1, <1>3 DEF Places, Contexts
  <2> QED BY <2>1 DEF StatusOfAlive, BeforeFirst
<1>7. Dropping'
  <2>1. M \notin Pending
    BY <1>1 DEF Dropping
  <2> QED BY <1>2, <2>1 DEF Dropping, Pending
<1> QED
  BY <1>4, <1>5, <1>6, <1>7 DEF IInv

LEMMA DaemonIInv ==
  ASSUME IInv, Daemon, GoodHasContext'
  PROVE  IInv'
<1> Places /\ OneConnection /\ BeforeFirst /\ Untried /\ StatusOfAlive /\ Dropping
  BY DEF IInv
<1>1. "daemon" \in Thread /\ "daemon" # "main"
  BY PhaseFacts
<1>2. CASE CreateContext
  BY <1>2, CreateContextIInv
<1>3. CASE Refuse \/ Look \/ Wake
  <2>1. /\ UNCHANGED <<mWsStatus, mWsContext, conn>>
        /\ D \in {"connect", "look", "sleep"} /\ (D = "look" => mWsStatus # "disconnect")
    BY <1>3 DEF Refuse, Look, Wake, handler, status, D
  <2>2. PICK place \in {"sleep", "look", "touch"} : Goto("daemon", place)
    BY <1>3, Zenon DEF Refuse, Look, Wake
  <2>3. mWsContext # 0
    BY <2>1 DEF BeforeFirst
  <2>4. place \in DaemonPlaces /\ place \notin Pending \cup {"register", "connect", "started"}
    BY <2>2 DEF DaemonPlaces, LibraryPlaces, Pending
  <2> QED BY <1>1, <2>1, <2>2, <2>3, <2>4, QuietIInv
<1>4. CASE RegisterHandler
  <2>1. /\ D = "register" /\ UNCHANGED <<mWsStatus, mWsContext, conn>>
        /\ Goto("daemon", "connect")
    BY <1>4 DEF RegisterHandler, status, D
  <2>2. /\ D' = "connect" /\ M' = M
        /\ at' \in [Thread -> DaemonPlaces \cup MainPlaces]
    BY <1>1, <2>1, GotoFacts DEF DaemonPlaces
  <2>3. mWsContext # 0 /\ Places'
    BY <2>1, <2>2 DEF BeforeFirst, Places, DaemonPlaces
  <2>4. OneConnection' /\ BeforeFirst' /\ Untried'
    BY <2>1, <2>2, <2>3 DEF OneConnection, BeforeFirst, Untried
  <2>5. StatusOfAlive' /\ Dropping'
    BY <2>1, <2>2, <2>3 DEF StatusOfAlive, Dropping, Pending
  <2> QED BY <2>3, <2>4, <2>5 DEF IInv
<1>5. CASE ClientConnect
  <2>1. /\ D = "connect" /\ UNCHANGED <<mWsStatus, mWsContext>>
        /\ Goto("daemon", "started")
    BY <1>5 DEF ClientConnect, handler, status, D
  <2>2. PICK phase \in Opening : conn' = [conn EXCEPT ![mWsContext] = phase]
    BY <1>5 DEF ClientConnect, Conn
  <2>3. /\ D' = "started" /\ M' = M
        /\ at' \in [Thread -> DaemonPlaces \cup MainPlaces]
    BY <1>1, <2>1, GotoFacts DEF DaemonPlaces
  <2>4. mWsContext \in Contexts /\ Places'
    BY <2>1, <2>2, <2>3, PhaseFacts DEF BeforeFirst, Places, DaemonPlaces, Contexts
  <2>5. OneConnection' /\ BeforeFirst' /\ Untried'
    BY <2>1, <2>2, <2>3, <2>4 DEF OneConnection, BeforeFirst, Untried, Places, Contexts
  <2>6. M \notin Pending
    BY <2>1, PhaseFacts DEF Dropping
  <2>7. StatusOfAlive' /\ Dropping'
    BY <2>3, <2>6 DEF StatusOfAlive, Dropping, Pending
  <2> QED BY <2>4, <2>5, <2>7 DEF IInv
<1>6. CASE MarkConnecting
  <2>1. /\ D = "started" /\ UNCHANGED <<mWsContext, conn>> /\ mWsStatus' = "connecting"
        /\ Goto("daemon", "service")
    BY <1>6 DEF MarkConnecting, status, D
  <2>2. /\ D' = "service" /\ M' = M
        /\ at' \in [Thread -> DaemonPlaces \cup MainPlaces]
    BY <1>1, <2>1, GotoFacts DEF DaemonPlaces, LibraryPlaces
  <2>3. mWsContext # 0 /\ Places'
    BY <2>1, <2>2 DEF BeforeFirst, Places, DaemonPlaces, LibraryPlaces
  <2>4. OneConnection' /\ BeforeFirst' /\ Untried'
    BY <2>1, <2>2, <2>3 DEF OneConnection, BeforeFirst, Untried
  <2>5. StatusOfAlive' /\ Dropping'
    BY <2>1, <2>2, <2>3 DEF StatusOfAlive, Dropping, Pending
  <2> QED BY <2>3, <2>4, <2>5 DEF IInv
<1>7. CASE InLibrary("daemon")
  BY <1>1, <1>7, LibraryIInv
<1> QED
  BY <1>2, <1>3, <1>4, <1>5, <1>6, <1>7, Zenon DEF Daemon

LEMMA MainIInv ==
  ASSUME IInv, Main, GoodHasContext'
  PROVE  IInv'
<1> BeforeFirst /\ GoodHasContext
  BY DEF IInv
<1>1. "main" \in Thread /\ "main" # "daemon"
  BY PhaseFacts
<1>2. CASE SendText \/ SendTextNotGood \/ CopyText \/ RequestWritable \/ Return
  <2>1. UNCHANGED <<mWsStatus, mWsContext, conn>>
    BY <1>2, Zenon DEF SendText, SendTextNotGood, CopyText, RequestWritable, Return,
       handler, status
  <2>2. PICK place \in {"copy1", "skipped", "copy2", "request", "touch", "idle"} :
            Goto("main", place)
    BY <1>2, Zenon DEF SendText, SendTextNotGood, CopyText, RequestWritable, Return
  <2>3. place \in MainPlaces /\ place \notin Pending \cup {"register", "connect", "started"}
    BY <2>2 DEF MainPlaces, LibraryPlaces, Pending
  <2>4. mWsContext = 0 => place \in {"idle", "skipped"}
    <3>1. CASE SendText
      <4>1. mWsContext # 0
        BY <3>1, Zenon DEF SendText, GoodHasContext
      <4> QED BY <4>1
    <3>2. CASE CopyText \/ RequestWritable
      BY <3>2 DEF CopyText, RequestWritable, BeforeFirst, M
    <3>3. CASE SendTextNotGood \/ Return
      <4>1. Goto("main", "skipped") \/ Goto("main", "idle")
        BY <3>3, Zenon DEF SendTextNotGood, Return
      <4>2. M' \in {"skipped", "idle"} /\ M' = place
        BY <1>1, <2>2, <4>1, GotoFacts DEF IInv
      <4> QED BY <4>2
    <3> QED BY <1>2, <3>1, <3>2, <3>3
  <2> QED BY <1>1, <2>1, <2>2, <2>3, <2>4, QuietIInv
<1>3. CASE InLibrary("main")
  BY <1>1, <1>3, LibraryIInv
<1> QED
  BY <1>2, <1>3, Zenon DEF Main

LEMMA StutterIInv == ASSUME IInv, UNCHANGED vars PROVE IInv'
<1>1. UNCHANGED <<mWsContext, mWsStatus, conn, at>>
  BY DEF vars, handler, status
<1>2. GoodHasContext'
  BY Zenon DEF IInv, vars, handler, status, GoodHasContext
<1> QED
  BY <1>1, <1>2 DEF IInv, Places, OneConnection, BeforeFirst, Untried, StatusOfAlive,
     Dropping, D, M

LEMMA IInvStep == ASSUME IInv, [Next]_vars PROVE IInv'
  BY GoodKeepsContext, DaemonIInv, MainIInv, StutterIInv, Zenon DEF Next

-----------------------------------------------------------------------------
(* While connectServer has not begun during a sendText.  A step of a        *)
(* library call takes a thread from place p to q; the phase c of the        *)
(* current connection becomes e and the status s becomes r; a is where the  *)
(* thread goes on when the call returns.                                    *)
Serve(p, c, q, e, a) ==
    /\ p \in {"touch", "service"}
    /\ \/ c \in Opening /\ e \in {"reply", "lost"} /\ q = a
       \/ c = "reply" /\ e = "open" /\ q = "established"
       \/ c = "open" /\ e = "dead" /\ q = "closed"
       \/ c = "open" /\ e = "open" /\ q \in {"write", a}
       \/ e = c /\ q = a
       \/ c \in Opening /\ e = "dead" /\ q = IF p = "service" THEN "notConnected" ELSE "failed"

Report(p, c, s, q, r, a) ==
    \/ p = "established" /\ r = "connected" /\ q = "switch"
    \/ p = "closed" /\ r = "disconnect" /\ q = "switch"
    \/ p = "failed" /\ r = "disconnect" /\ q = "notGood"
    \/ p = "notConnected" /\ r = "disconnect" /\ q = "remove"
    \/ p = "switch" /\ r = s /\ s = "disconnect" /\ q = "notGood"
    \/ p = "switch" /\ r = s /\ s = "connected" /\ q = "good"
    \/ p = "switch" /\ r = s /\ s = "connecting" /\ q = a
    \/ p = "notGood" /\ r = s /\ q = "remove"
    \/ p \in {"good", "remove", "write"} /\ r = s /\ q = a

Move(p, c, s, q, e, r, a) ==
    \/ Serve(p, c, q, e, a) /\ r = s
    \/ Report(p, c, s, q, r, a) /\ e = c

(* What a move of the daemon leaves true ...                                *)
LEMMA DaemonMove ==
  ASSUME NEW d, NEW m, NEW c, NEW s, NEW q, NEW e, NEW r,
         Agree(d, m, c, s), Move(d, c, s, q, e, r, "sleep")
  PROVE  /\ Agree(q, m, e, r)
         /\ GoodWith(d, m, c, s) /\ d # "notGood" => GoodWith(q, m, e, r)
         /\ d = "good" => GoodWith(q, m, e, r)
         /\ d # "remove" => (Here(q, m, e) <=> Here(d, m, c))
<1> USE PhaseFacts DEF Move, Serve, Report, Agree, GoodWith, Here, Held, Leaves, Fresh, Pending
<1>1. Agree(q, m, e, r)
  OBVIOUS
<1>2. GoodWith(d, m, c, s) /\ d # "notGood" => GoodWith(q, m, e, r)
  OBVIOUS
<1>3. d = "good" => GoodWith(q, m, e, r)
  OBVIOUS
<1>4. d # "remove" => (Here(q, m, e) <=> Here(d, m, c))
  OBVIOUS
<1> QED BY <1>1, <1>2, <1>3, <1>4, Zenon

(* ... and of the main thread.                                              *)
LEMMA MainMove ==
  ASSUME NEW d, NEW m, NEW c, NEW s, NEW q, NEW e, NEW r,
         Agree(d, m, c, s), Move(m, c, s, q, e, r, "result"), m # "service"
  PROVE  /\ Agree(d, q, e, r)
         /\ GoodWith(d, m, c, s) /\ m # "notGood" => GoodWith(d, q, e, r)
         /\ m # "good"
         /\ m # "remove" => (Here(d, q, e) <=> Here(d, m, c))
<1> USE PhaseFacts DEF Move, Serve, Report, Agree, GoodWith, Here, Held, Leaves, Fresh, Pending
<1>1. Agree(d, q, e, r)
  OBVIOUS
<1>2. GoodWith(d, m, c, s) /\ m # "notGood" => GoodWith(d, q, e, r)
  OBVIOUS
<1>3. m # "good"
  OBVIOUS
<1>4. m # "remove" => (Here(d, q, e) <=> Here(d, m, c))
  OBVIOUS
<1> QED BY <1>1, <1>2, <1>3, <1>4, Zenon

(* The handler of a connection that is alive is found.                      *)
LEMMA AliveIsFound ==
  ASSUME IInv, TableInv, ~crossed, mWsContext \in Contexts, conn[mWsContext] \in Alive
  PROVE  Found
<1>1. D # "register" /\ conn[mWsContext] # "dead"
  BY PhaseFacts DEF IInv, Untried
<1>2. Listed(mWsContext)
  BY <1>1 DEF Listed, Here, Contexts
<1>3. TableAgrees
  BY Zenon DEF TableInv
<1> QED BY <1>2, <1>3, Zenon DEF TableAgrees, Found

(* Every step of a library call is a move.                                  *)
LEMMA LibraryMoves ==
  ASSUME IInv, TableInv, ~crossed, NEW t \in Thread, InLibrary(t)
  PROVE  /\ mWsContext \in Contexts /\ mWsContext' = mWsContext
         /\ \E q, e : /\ conn' = [conn EXCEPT ![mWsContext] = e]
                      /\ Goto(t, q)
                      /\ Move(at[t], conn[mWsContext], mWsStatus, q, e, mWsStatus', After(t))
<1> DEFINE Goal == \E q, e : 
        /\ conn' = [conn EXCEPT ![mWsContext] = e]
        /\ Goto(t, q)
        /\ Move(at[t], conn[mWsContext], mWsStatus, q, e, mWsStatus', After(t))
<1>1. CASE Service(t)
  <2>1. /\ at[t] \in {"touch", "service"} /\ mWsContext \in Contexts
        /\ UNCHANGED <<mWsStatus, mWsContext>>
    BY <1>1, ServiceFacts
  <2>2. PICK phase \in Phases, place \in LibraryPlaces \cup {"sleep", "result"} :
        /\ conn' = [conn EXCEPT ![mWsContext] = phase]
        /\ Goto(t, place)
        /\ Event(t, phase, place)
    BY <1>1, ServiceFacts
  <2>3. conn[mWsContext] \in {"reply", "open"} => Found
    BY <2>1, AliveIsFound, PhaseFacts
  <2>4. Serve(at[t], conn[mWsContext], place, phase, After(t))
    BY <2>1, <2>2, <2>3 DEF Event, Serve
  <2> QED BY <2>1, <2>2, <2>4, Zenon DEF Move
<1>2. CASE SetStatus(t) \/ Switch(t) \/ SetGood(t) \/ RemoveHandler(t) \/ Write(t)
  <2>1. /\ at[t] \in {"established", "closed", "failed", "notConnected",
                      "switch", "good", "notGood", "remove", "write"}
        /\ UNCHANGED <<mWsContext, conn>>
    BY <1>2 DEF SetStatus, Switch, SetGood, RemoveHandler, Write, handler
  <2>2. mWsContext \in Contexts
    BY <2>1, PhaseFacts DEF IInv, Places, BeforeFirst, Contexts, D, M
  <2>3. conn' = [conn EXCEPT ![mWsContext] = conn[mWsContext]]
    BY <2>1, <2>2 DEF IInv, Places
  <2>4. \E q : Goto(t, q) /\ Report(at[t], conn[mWsContext], mWsStatus, q, mWsStatus', After(t))
    <3>1. CASE SetStatus(t)
      BY <3>1, Zenon DEF SetStatus, Report
    <3>2. CASE Switch(t)
      BY <3>2, Zenon DEF Switch, Report, handler, status
    <3>3. CASE SetGood(t)
      BY <3>3, Zenon DEF SetGood, Report
    <3>4. CASE RemoveHandler(t) \/ Write(t)
      BY <3>4, Zenon DEF RemoveHandler, Write, Report, handler, status
    <3> QED BY <1>2, <3>1, <3>2, <3>3, <3>4
  <2> QED BY <2>1, <2>2, <2>3, <2>4, Zenon DEF Move
<1> QED BY <1>1, <1>2, Zenon DEF InLibrary

LEMMA GoodByLibrary ==
  ASSUME NEW t, InLibrary(t)
  PROVE  /\ at[t] = "notGood" => ~mIsGood'
         /\ at[t] \notin {"good", "notGood"} => mIsGood' = mIsGood
<1>1. CASE SetGood(t)
  <2>1. \/ at[t] = "good"
        \/ at[t] = "notGood" /\ mIsGood' = FALSE
    BY <1>1, Zenon DEF SetGood
  <2>2. at[t] = "good" => at[t] # "notGood"
    OBVIOUS
  <2>3. at[t] \in {"good", "notGood"}
    BY <2>1, Zenon
  <2> QED BY <2>1, <2>2, <2>3, Zenon
<1>2. CASE Service(t) \/ SetStatus(t) \/ Switch(t) \/ RemoveHandler(t) \/ Write(t)
  <2>1. mIsGood' = mIsGood
    BY <1>2, Zenon DEF Service, SetStatus, Switch, RemoveHandler, Write, handler, status
  <2>2. at[t] # "notGood"
    BY <1>2, PhaseFacts DEF Service, SetStatus, Switch, RemoveHandler, Write
  <2> QED BY <2>1, <2>2, Zenon
<1> QED BY <1>1, <1>2, Zenon DEF InLibrary

(* A step of a library call keeps the threads, the status and the           *)
(* connection in agreement, and leaves the table as it should be but for    *)
(* the removal.                                                             *)
LEMMA LibraryCall ==
  ASSUME IInv, TableInv, CallInv, ~crossed, NEW t \in Thread, InLibrary(t)
  PROVE  /\ PlacesAgree' /\ GoodAgrees'
         /\ at[t] # "remove" => \A n \in Contexts : Listed(n)' <=> Listed(n)
<1> PICK q, e : /\ conn' = [conn EXCEPT ![mWsContext] = e]
                /\ Goto(t, q)
                /\ Move(at[t], conn[mWsContext], mWsStatus, q, e, mWsStatus', After(t))
  BY LibraryMoves
<1> DEFINE c == conn[mWsContext]
           s == mWsStatus
           r == mWsStatus'
<1>1. /\ mWsContext \in Contexts /\ mWsContext' = mWsContext
      /\ conn \in [Contexts -> Phases]
  BY LibraryMoves DEF IInv, Places
<1>2. /\ conn'[mWsContext'] = e
      /\ \A n \in Contexts : n # mWsContext => conn'[n] = conn[n]
  BY <1>1
<1>3. /\ Agree(D, M, c, s)
      /\ mIsGood => GoodWith(D, M, c, s)
  BY Zenon DEF CallInv, PlacesAgree, GoodAgrees
<1>4. /\ at[t] = "notGood" => ~mIsGood'
      /\ at[t] \notin {"good", "notGood"} => mIsGood' = mIsGood
  BY GoodByLibrary
<1>5. /\ Agree(D', M', e, r)
      /\ GoodWith(D, M, c, s) /\ at[t] # "notGood" => GoodWith(D', M', e, r)
      /\ at[t] = "good" => GoodWith(D', M', e, r)
      /\ at[t] # "remove" => (Here(D', M', e) <=> Here(D, M, c))
  <2>1. CASE t = "daemon"
    <3>1. D' = q /\ M' = M /\ at[t] = D /\ After(t) = "sleep"
      BY <2>1, GotoFacts, PhaseFacts DEF IInv, D
    <3>2. Move(D, c, s, q, e, r, "sleep")
      BY <3>1
    <3> HIDE DEF c, s, r
    <3> QED BY <1>3, <3>1, <3>2, DaemonMove, Zenon
  <2>2. CASE t = "main"
    <3>1. M' = q /\ D' = D /\ at[t] = M /\ After(t) = "result" /\ M # "service"
      BY <2>2, GotoFacts, PhaseFacts DEF IInv, M, Places, MainPlaces, LibraryPlaces
    <3>2. Move(M, c, s, q, e, r, "result")
      BY <3>1
    <3> HIDE DEF c, s, r
    <3> QED BY <1>3, <3>1, <3>2, MainMove, Zenon
  <2> QED BY <2>1, <2>2, PhaseFacts
<1>6. PlacesAgree'
  BY <1>2, <1>5, Zenon DEF PlacesAgree
<1>7. GoodAgrees'
  <2>1. ASSUME mIsGood' PROVE GoodWith(D', M', e, r)
    <3>1. CASE at[t] = "good"
      BY <1>5, <3>1
    <3>2. CASE at[t] # "good"
      <4>1. at[t] \notin {"good", "notGood"}
        BY <1>4, <2>1, <3>2
      <4>2. mIsGood
        BY <1>4, <2>1, <4>1, Zenon
      <4> QED BY <1>3, <1>5, <4>1, <4>2
    <3> QED BY <3>1, <3>2
  <2> QED BY <1>2, <2>1, Zenon DEF GoodAgrees
<1>8. ASSUME at[t] # "remove", NEW n \in Contexts PROVE Listed(n)' <=> Listed(n)
  <2>1. CASE n = mWsContext
    <3>1. Listed(n) <=> Here(D, M, c)
      BY <1>1, <2>1 DEF Listed, Contexts
    <3>2. Listed(n)' <=> Here(D', M', e)
      BY <1>1, <1>2, <2>1 DEF Listed, Contexts
    <3> QED BY <1>5, <1>8, <3>1, <3>2, Zenon
  <2>2. CASE n # mWsContext
    BY <1>1, <1>2, <2>2 DEF Listed
  <2> QED BY <2>1, <2>2
<1> QED BY <1>6, <1>7, <1>8

(* The other steps of the daemon.                                           *)
DaemonOther ==
    RegisterHandler \/ Refuse \/ ClientConnect \/ MarkConnecting \/ Look \/ Wake

LEMMA DaemonCall ==
  ASSUME IInv, CallInv, ~crossed, DaemonOther
  PROVE  /\ PlacesAgree' /\ GoodAgrees'
         /\ ~RegisterHandler => \A n \in Contexts : Listed(n)' <=> Listed(n)
<1> DEFINE c == conn[mWsContext]
           e == conn'[mWsContext]
           s == mWsStatus
           r == mWsStatus'
<1>1. /\ D \in {"register", "connect", "started", "look", "sleep"}
      /\ D \notin {"look", "sleep"} \/ (s = r /\ c = e)
      /\ mWsContext' = mWsContext
  BY DEF DaemonOther, RegisterHandler, Refuse, ClientConnect, MarkConnecting, Look, Wake,
         handler, status, D
<1>2. mIsGood' = mIsGood
  BY Zenon DEF DaemonOther, RegisterHandler, Refuse, ClientConnect, MarkConnecting, Look,
               Wake, handler, status
<1>3. mWsContext \in Contexts /\ conn \in [Contexts -> Phases]
  <2>1. D = "look" => mWsStatus # "disconnect"
    BY DEF DaemonOther, RegisterHandler, Refuse, ClientConnect, MarkConnecting, Look, Wake, D
  <2> QED BY <1>1, <2>1 DEF IInv, Places, BeforeFirst, Contexts
<1>4. /\ Agree(D, M, c, s)
      /\ mIsGood => GoodWith(D, M, c, s)
      /\ D \in {"register", "connect"} => c = "none"
  BY Zenon DEF CallInv, PlacesAgree, GoodAgrees, IInv, Untried
<1>5. M' = M /\ \E q : D' = q /\ Goto("daemon", q)
  <2>1. PICK q : Goto("daemon", q)
    BY Zenon DEF DaemonOther, RegisterHandler, Refuse, ClientConnect, MarkConnecting, Look, Wake
  <2> QED BY <2>1, GotoFacts, PhaseFacts DEF IInv
<1>6. \/ D = "register" /\ D' = "connect" /\ e = c /\ r = s
      \/ D = "connect" /\ D' = "sleep" /\ e = c /\ r = s
      \/ D = "connect" /\ D' = "started" /\ e \in Opening /\ r = s
      \/ D = "started" /\ D' = "service" /\ e = c /\ r = "connecting"
      \/ D = "look" /\ D' = "touch" /\ e = c /\ r = s
      \/ D = "sleep" /\ D' = "look" /\ e = c /\ r = s
  <2> "daemon" \in Thread /\ at \in [Thread -> DaemonPlaces \cup MainPlaces]
    BY PhaseFacts DEF IInv, Places
  <2> USE DEF Goto, D
  <2>1. CASE RegisterHandler \/ MarkConnecting
    BY <2>1 DEF RegisterHandler, MarkConnecting, status
  <2>2. CASE Refuse \/ Look \/ Wake
    BY <2>2 DEF Refuse, Look, Wake, handler, status
  <2>3. CASE ClientConnect
    <3>1. PICK phase \in Opening : conn' = [conn EXCEPT ![mWsContext] = phase]
      BY <2>3 DEF ClientConnect, Conn
    <3> QED BY <1>3, <2>3, <3>1 DEF ClientConnect, handler, status
  <2> QED BY <2>1, <2>2, <2>3 DEF DaemonOther
<1> HIDE DEF c, e, s, r
<1>7. Agree(D', M, e, r)
  BY <1>4, <1>6, PhaseFacts DEF Agree, Held, Leaves, Fresh, Pending
<1>8. GoodWith(D, M, c, s) => GoodWith(D', M, e, r)
  BY <1>4, <1>6, PhaseFacts DEF GoodWith, Held, Fresh
<1>9. D # "register" => (Here(D', M, e) <=> Here(D, M, c))
  BY <1>4, <1>6, PhaseFacts DEF Here, Leaves, Pending
<1> USE DEF c, e, s, r
<1>10. PlacesAgree'
  BY <1>1, <1>5, <1>7, Zenon DEF PlacesAgree
<1>11. GoodAgrees'
  <2>1. mIsGood' => GoodWith(D', M, e, r)
    BY <1>2, <1>4, <1>8, Zenon
  <2> QED BY <1>1, <1>5, <2>1, Zenon DEF GoodAgrees
<1>12. ASSUME ~RegisterHandler, NEW n \in Contexts PROVE Listed(n)' <=> Listed(n)
  <2>1. D # "register"
    BY <1>12 DEF DaemonOther, Refuse, ClientConnect, MarkConnecting, Look, Wake, D
  <2>2. n # mWsContext => conn'[n] = conn[n]
    BY <1>3 DEF DaemonOther, RegisterHandler, Refuse, ClientConnect, MarkConnecting, Look,
         Wake, handler, status, Conn
  <2>3. CASE n = mWsContext
    <3>1. Listed(n) <=> Here(D, M, c)
      BY <1>3, <2>3 DEF Listed, Contexts
    <3>2. Listed(n)' <=> Here(D', M, e)
      BY <1>1, <1>3, <1>5, <2>3 DEF Listed, Contexts
    <3> QED BY <1>9, <2>1, <3>1, <3>2, Zenon
  <2>4. CASE n # mWsContext
    BY <1>1, <2>2, <2>4 DEF Listed
  <2> QED BY <2>3, <2>4
<1> QED BY <1>10, <1>11, <1>12

(* connectServer begins with a clean slate.                                 *)
LEMMA CreateContextCall ==
  ASSUME IInv, CallInv, ~crossed, CreateContext, ~InSendText
  PROVE  /\ PlacesAgree' /\ GoodAgrees'
         /\ \A n \in Contexts : Listed(n)' <=> Listed(n)
<1>1. /\ D = "look" /\ mWsStatus = "disconnect" /\ M \in {"idle", "skipped"}
      /\ mWsContext' = mWsContext + 1 /\ mWsContext < MaxContexts
      /\ UNCHANGED <<mWsStatus, conn>> /\ Goto("daemon", "register")
  BY DEF CreateContext, InSendText, status, D, M
<1>2. D' = "register" /\ M' = M
  BY <1>1, GotoFacts, PhaseFacts DEF IInv
<1>3. /\ mWsContext \in Nat /\ mWsContext + 1 \in Contexts /\ conn \in [Contexts -> Phases]
      /\ conn[mWsContext + 1] = "none"
  BY <1>1 DEF IInv, Places, Untried, Contexts
<1>4. Agree("register", M, "none", mWsStatus)
  BY <1>1, PhaseFacts DEF Agree, Leaves, Pending
<1>5. PlacesAgree'
  BY <1>1, <1>2, <1>3, <1>4, Zenon DEF PlacesAgree
<1>6. ~GoodWith(D, M, conn[mWsContext], mWsStatus)
  BY <1>1, PhaseFacts DEF GoodWith, Held
<1>7. ~mIsGood'
  <2>1. mIsGood' = mIsGood
    BY Zenon DEF CreateContext, status
  <2> QED BY <1>6, <2>1, Zenon DEF CallInv, GoodAgrees
<1>8. GoodAgrees'
  BY <1>7, Zenon DEF GoodAgrees
<1>9. ASSUME NEW n \in Contexts PROVE Listed(n)' <=> Listed(n)
  <2>0. n \in Nat
    BY DEF Contexts
  <2>1. CASE n = mWsContext + 1
    <3>1. ~Listed(n)' /\ ~Listed(n)
      BY <1>1, <1>2, <1>3, <2>1 DEF Listed, Here
    <3> QED BY <3>1
  <2>2. CASE n = mWsContext
    <3>1. Listed(n) <=> conn[n] # "dead"
      BY <1>1, <1>3, <2>2 DEF Listed, Here, Leaves, Pending
    <3>2. Listed(n)' <=> conn[n] # "dead"
      BY <1>1, <1>3, <2>2 DEF Listed
    <3> QED BY <3>1, <3>2
  <2>3. CASE n # mWsContext + 1 /\ n # mWsContext
    BY <1>1, <1>3, <2>0, <2>3 DEF Listed
  <2> QED BY <2>1, <2>2, <2>3
<1> QED BY <1>5, <1>8, <1>9

(* The other steps of the main thread.                                      *)
MainOther == SendText \/ SendTextNotGood \/ CopyText \/ RequestWritable \/ Return

LEMMA MainCall ==
  ASSUME IInv, CallInv, ~crossed, MainOther
  PROVE  /\ PlacesAgree' /\ GoodAgrees'
         /\ \A n \in Contexts : Listed(n)' <=> Listed(n)
<1> DEFINE c == conn[mWsContext]
           s == mWsStatus
<1>1. UNCHANGED <<mWsStatus, mWsContext, conn>> /\ mIsGood' = mIsGood
  BY Zenon DEF MainOther, SendText, SendTextNotGood, CopyText, RequestWritable, Return,
     handler, status
<1>2. PICK q : Goto("main", q)
  BY Zenon DEF MainOther, SendText, SendTextNotGood, CopyText, RequestWritable, Return
<1>3. D' = D /\ M' = q
  BY <1>2, GotoFacts, PhaseFacts DEF IInv
<1>4. /\ Agree(D, M, c, s)
      /\ mIsGood => GoodWith(D, M, c, s)
  BY Zenon DEF CallInv, PlacesAgree, GoodAgrees
<1>5. \/ M = "idle" /\ M' = "copy1" /\ GoodWith(D, M, c, s)
      \/ M = "idle" /\ M' = "skipped"
      \/ M = "copy1" /\ M' = "copy2"
      \/ M = "copy2" /\ M' = "request"
      \/ M = "request" /\ M' = "touch"
      \/ M \in {"result", "skipped"} /\ M' = "idle"
  <2> DEFINE To(p) == Goto("main", p)
  <2>1. \A p : To(p) => M' = p
    BY GotoFacts, PhaseFacts DEF IInv
  <2> HIDE DEF To
  <2> USE DEF M
  <2>2. CASE SendText
    <3>1. at["main"] = "idle" /\ mIsGood /\ To("copy1")
      BY <2>2, Zenon DEF SendText, To
    <3> QED BY <1>4, <2>1, <3>1, Zenon
  <2>3. CASE SendTextNotGood
    <3>1. at["main"] = "idle" /\ To("skipped")
      BY <2>3, Zenon DEF SendTextNotGood, To
    <3> QED BY <2>1, <3>1, Zenon
  <2>4. CASE CopyText
    <3>1. \/ at["main"] = "copy1" /\ To("copy2")
          \/ at["main"] = "copy2" /\ To("request")
      BY <2>4, Zenon DEF CopyText, To
    <3> QED BY <2>1, <3>1, Zenon
  <2>5. CASE RequestWritable
    <3>1. at["main"] = "request" /\ To("touch")
      BY <2>5, Zenon DEF RequestWritable, To
    <3> QED BY <2>1, <3>1, Zenon
  <2>6. CASE Return
    <3>1. at["main"] \in {"result", "skipped"} /\ To("idle")
      BY <2>6, Zenon DEF Return, To
    <3> QED BY <2>1, <3>1, Zenon
  <2> QED BY <2>2, <2>3, <2>4, <2>5, <2>6, Zenon DEF MainOther
<1> HIDE DEF c, s
<1>6. Agree(D, M', c, s)
  BY <1>4, <1>5, PhaseFacts DEF Agree, GoodWith, Held, Leaves, Pending
<1>7. GoodWith(D, M, c, s) => GoodWith(D, M', c, s)
  BY <1>5, PhaseFacts DEF GoodWith
<1>8. Here(D, M', c) <=> Here(D, M, c)
  BY <1>5, PhaseFacts DEF Here, Leaves, Pending
<1> USE DEF c, s
<1>9. PlacesAgree'
  BY <1>1, <1>3, <1>6, Zenon DEF PlacesAgree
<1>10. GoodAgrees'
  <2>1. mIsGood' => GoodWith(D, M', c, s)
    BY <1>1, <1>4, <1>7, Zenon
  <2> QED BY <1>1, <1>3, <2>1, Zenon DEF GoodAgrees
<1>11. ASSUME NEW n \in Contexts PROVE Listed(n)' <=> Listed(n)
  BY <1>1, <1>3, <1>8 DEF Listed
<1> QED BY <1>9, <1>10, <1>11

-----------------------------------------------------------------------------
(* The context in hand is the newest: a removal takes the last entry.       *)
LEMMA RemovedIsLast ==
  ASSUME NEW list \in Seq(Contexts), NEW n \in Contexts, Contains(list, n),
         \A i, j \in 1 .. Len(list) : i < j => list[i] < list[j],
         \A i \in 1 .. Len(list) : list[i] <= n
  PROVE  /\ Len(list) > 0 /\ list[Len(list)] = n
         /\ Removed(list, n) = SubSeq(list, 1, Len(list) - 1)
<1>1. PICK k \in 1 .. Len(list) : list[k] = n
  BY DEF Contains
<1>2. Len(list) \in Nat /\ Len(list) > 0 /\ \A i \in 1 .. Len(list) : list[i] \in Nat
  BY <1>1 DEF Contexts
<1>3. k = Len(list)
  BY <1>1, <1>2
<1>4. {i \in 1 .. Len(list) : list[i] = n} = {Len(list)}
  BY <1>1, <1>2, <1>3
<1>5. Min({Len(list)}) = Len(list)
  BY <1>2 DEF Min
<1>6. SelectInSeq(list, LAMBDA x : x = n) = Len(list)
  BY <1>4, <1>5 DEF SelectInSeq
<1>7. list # <<>> /\ Len(list) # 0
  BY <1>2, EmptySeq
<1>8. Removed(list, n) = RemoveAt(list, Len(list))
  BY <1>6, <1>7 DEF Removed
<1>9. SubSeq(list, Len(list) + 1, Len(list)) = <<>>
  BY <1>2, SubSeqProperties, EmptySeq
<1>10. SubSeq(list, 1, Len(list) - 1) \o <<>> = SubSeq(list, 1, Len(list) - 1)
  <2>1. SubSeq(list, 1, Len(list) - 1) \in Seq(Contexts)
    BY <1>2, SubSeqProperties
  <2> QED BY <2>1, ConcatEmptySeq
<1> QED
  BY <1>1, <1>2, <1>3, <1>8, <1>9, <1>10 DEF RemoveAt

LEMMA TableKept ==
  ASSUME TableAgrees, UNCHANGED <<ctxList, handlerLength>>,
         \A n \in Contexts : Listed(n)' <=> Listed(n)
  PROVE  TableAgrees'
BY DEF TableAgrees, Contains

(* The table holds the context in hand as its last entry.                   *)
LEMMA CurrentIsLast ==
  ASSUME TableAgrees, mWsContext \in Contexts
  PROVE  /\ ctxList \in Seq(Contexts) /\ Len(ctxList) \in Nat
         /\ \A i \in 1 .. Len(ctxList) : ctxList[i] \in Nat /\ ctxList[i] <= mWsContext
         /\ Listed(mWsContext) =>
               /\ Len(ctxList) > 0 /\ ctxList[Len(ctxList)] = mWsContext
               /\ Removed(ctxList, mWsContext) = SubSeq(ctxList, 1, Len(ctxList) - 1)
<1>1. /\ ctxList \in Seq(Contexts) /\ Len(ctxList) \in Nat
      /\ \A i \in 1 .. Len(ctxList) : ctxList[i] \in Contexts
      /\ \A i, j \in 1 .. Len(ctxList) : i < j => ctxList[i] < ctxList[j]
      /\ \A n \in Contexts : Contains(ctxList, n) <=> Listed(n)
      /\ Contexts \subseteq Nat
  BY DEF TableAgrees, Contexts
<1>2. \A i \in 1 .. Len(ctxList) : ctxList[i] <= mWsContext
  <2> TAKE i \in 1 .. Len(ctxList)
  <2>1. Contains(ctxList, ctxList[i])
    BY DEF Contains
  <2>2. Listed(ctxList[i])
    BY <1>1, <2>1
  <2> QED BY <2>2, Zenon DEF Listed
<1>3. CASE Listed(mWsContext)
  <2>1. Contains(ctxList, mWsContext)
    BY <1>1, <1>3
  <2> QED BY <1>1, <1>2, <2>1, RemovedIsLast
<1> QED BY <1>1, <1>2, <1>3

(* A context whose end was reported leaves the table, if it is there.       *)
LEMMA TableDropped ==
  ASSUME TableAgrees, mWsContext \in Contexts, Listed(mWsContext),
         ctxList' = Removed(ctxList, mWsContext), handlerLength' = handlerLength - 1,
         mWsContext' = mWsContext, UNCHANGED conn, ~Listed(mWsContext)'
  PROVE  TableAgrees'
<1>1. /\ ctxList \in Seq(Contexts) /\ Len(ctxList) \in Nat
      /\ \A i \in 1 .. Len(ctxList) : ctxList[i] \in Contexts
      /\ \A i \in 1 .. Len(ctxList) : ctxList[i] \in Nat
      /\ mWsContext \in Nat /\ Contexts \subseteq Nat
  BY DEF TableAgrees, Contexts
<1> DEFINE k == Len(ctxList) - 1
<1>4. /\ Len(ctxList) > 0 /\ ctxList[Len(ctxList)] = mWsContext
      /\ ctxList' = SubSeq(ctxList, 1, k)
  BY CurrentIsLast
<1>5. /\ ctxList' \in Seq(Contexts) /\ Len(ctxList') = k
      /\ \A i \in 1 .. k : ctxList'[i] = ctxList[i]
  <2>1. k \in 0 .. Len(ctxList)
    BY <1>1, <1>4
  <2>2. \A i \in 1 .. k : ctxList[i] \in Contexts
    BY <1>1, <2>1
  <2>3. /\ SubSeq(ctxList, 1, k) \in Seq(Contexts)
        /\ Len(SubSeq(ctxList, 1, k)) = k
        /\ \A i \in 1 .. k : SubSeq(ctxList, 1, k)[i] = ctxList[1 + i - 1]
    <3> HIDE DEF k
    <3>1. k \in Int /\ k - 1 + 1 = k /\ (1 <= k \/ k = 0)
      BY <1>1, <2>1
    <3> QED BY <2>2, <3>1, SubSeqProperties
  <2>4. \A i \in 1 .. k : ctxList[1 + i - 1] = ctxList[i]
    OBVIOUS
  <2> QED BY <1>4, <2>3, <2>4
<1>6. \A i, j \in 1 .. Len(ctxList') : i < j => ctxList'[i] < ctxList'[j]
  BY <1>1, <1>5 DEF TableAgrees
<1>7. \A n \in Contexts : Contains(ctxList', n) <=> Listed(n)'
  <2> TAKE n \in Contexts
  <2>1. \A i \in 1 .. k : ctxList[i] # mWsContext
    <3> TAKE i \in 1 .. k
    <3>1. i < Len(ctxList) /\ i \in 1 .. Len(ctxList) /\ Len(ctxList) \in 1 .. Len(ctxList)
      BY <1>1, <1>4
    <3>2. ctxList[i] < ctxList[Len(ctxList)]
      BY <3>1 DEF TableAgrees
    <3> QED BY <1>1, <1>4, <3>1, <3>2
  <2>2. CASE n = mWsContext
    BY <1>5, <2>1, <2>2 DEF Contains
  <2>3. CASE n # mWsContext
    <3>1. \A i \in 1 .. Len(ctxList) : ctxList[i] = n => i \in 1 .. k
      BY <1>1, <1>4, <2>3
    <3>2. \A i \in 1 .. k : i \in 1 .. Len(ctxList) /\ i \in 1 .. Len(ctxList')
      BY <1>1, <1>4, <1>5
    <3>3. Contains(ctxList', n) <=> \E i \in 1 .. k : ctxList'[i] = n
      BY <1>5, Zenon DEF Contains
    <3>4. Contains(ctxList, n) <=> \E i \in 1 .. Len(ctxList) : ctxList[i] = n
      BY Zenon DEF Contains
    <3>5. Contains(ctxList', n) <=> Contains(ctxList, n)
      <4> HIDE DEF k
      <4> QED BY <1>5, <3>1, <3>2, <3>3, <3>4, Zenon
    <3>6. Listed(n)' <=> Listed(n)
      BY <2>3 DEF Listed
    <3> QED BY <3>5, <3>6 DEF TableAgrees
  <2> QED BY <2>2, <2>3
<1> QED
  BY <1>1, <1>5, <1>6, <1>7 DEF TableAgrees

(* A new context is put behind all that are there.                          *)
LEMMA TableGrows ==
  ASSUME TableAgrees, mWsContext \in Contexts, ~Listed(mWsContext),
         ctxList' = Append(ctxList, mWsContext), handlerLength' = handlerLength + 1,
         mWsContext' = mWsContext, UNCHANGED conn, Listed(mWsContext)'
  PROVE  TableAgrees'
<1>1. /\ ctxList \in Seq(Contexts) /\ Len(ctxList) \in Nat
      /\ \A i \in 1 .. Len(ctxList) : ctxList[i] \in Contexts
      /\ \A i \in 1 .. Len(ctxList) : ctxList[i] \in Nat
      /\ mWsContext \in Nat /\ Contexts \subseteq Nat
  BY DEF TableAgrees, Contexts
<1>2. \A i \in 1 .. Len(ctxList) : ctxList[i] < mWsContext
  <2> TAKE i \in 1 .. Len(ctxList)
  <2>1. Contains(ctxList, ctxList[i])
    BY DEF Contains
  <2>2. ctxList[i] # mWsContext
    <3>1. ctxList[i] \in Contexts /\ Listed(ctxList[i])
      BY <1>1, <2>1 DEF TableAgrees
    <3> QED BY <3>1, Zenon
  <2>3. ctxList[i] <= mWsContext /\ ctxList[i] \in Nat
    BY CurrentIsLast
  <2> QED BY <1>1, <2>2, <2>3
<1>3. /\ ctxList' \in Seq(Contexts) /\ Len(ctxList') = Len(ctxList) + 1
      /\ \A i \in 1 .. Len(ctxList) : ctxList'[i] = ctxList[i]
      /\ ctxList'[Len(ctxList) + 1] = mWsContext
  BY <1>1, AppendProperties
<1>4. \A i, j \in 1 .. Len(ctxList') : i < j => ctxList'[i] < ctxList'[j]
  <2> TAKE i, j \in 1 .. Len(ctxList')
  <2>1. CASE j <= Len(ctxList)
    BY <1>1, <1>3, <2>1 DEF TableAgrees
  <2>2. CASE j = Len(ctxList) + 1
    <3>1. SUFFICES ASSUME i < j PROVE ctxList'[i] < ctxList'[j]
      OBVIOUS
    <3>2. i \in 1 .. Len(ctxList)
      BY <1>1, <1>3, <2>2, <3>1
    <3>3. ctxList'[i] = ctxList[i] /\ ctxList[i] < mWsContext /\ ctxList[i] \in Nat
      BY <1>1, <1>2, <1>3, <3>2
    <3> QED BY <1>1, <1>3, <2>2, <3>3
  <2> QED BY <1>1, <1>3, <2>1, <2>2
<1>6. \A n \in Contexts : Contains(ctxList', n) <=> Listed(n)'
  <2> TAKE n \in Contexts
  <2>1. CASE n = mWsContext
    <3>1. Contains(ctxList', n)
      BY <1>1, <1>3, <2>1 DEF Contains
    <3> QED BY <2>1, <3>1
  <2>2. CASE n # mWsContext
    <3>1. Contains(ctxList', n) <=> Contains(ctxList, n)
      BY <1>1, <1>3, <2>2 DEF Contains
    <3>2. Listed(n)' <=> Listed(n)
      BY <2>2 DEF Listed
    <3> QED BY <3>1, <3>2 DEF TableAgrees
  <2> QED BY <2>1, <2>2
<1> QED
  BY <1>1, <1>3, <1>4, <1>6 DEF TableAgrees

(* What holds until connectServer begins during a call of sendText goes on  *)
(* holding.                                                                 *)
LEMMA CallStep ==
  ASSUME IInv, TableInv, CallInv, Next
  PROVE  TableInv' /\ CallInv'
<1> SUFFICES ASSUME ~crossed' PROVE TableAgrees' /\ PlacesAgree' /\ GoodAgrees'
  BY Zenon DEF TableInv, CallInv
<1>1. \/ \E t \in Thread : InLibrary(t)
      \/ CreateContext \/ DaemonOther \/ MainOther
  BY PhaseFacts, Zenon DEF Next, Daemon, Main, DaemonOther, MainOther
<1>2. ~crossed
  BY <1>1, Zenon DEF InLibrary, Service, SetStatus, Switch, SetGood, RemoveHandler, Write,
     CreateContext, DaemonOther, RegisterHandler, Refuse, ClientConnect, MarkConnecting,
     Look, Wake, MainOther, SendText, SendTextNotGood, CopyText, RequestWritable, Return
<1>3. TableAgrees
  BY <1>2, Zenon DEF TableInv
<1>4. CASE \E t \in Thread : InLibrary(t)
  <2>1. PICK t \in Thread : InLibrary(t)
    BY <1>4
  <2>2. PlacesAgree' /\ GoodAgrees'
    BY <1>2, <2>1, LibraryCall
  <2>3. CASE RemoveHandler(t)
    <3>1. /\ at[t] = "remove" /\ UNCHANGED <<mWsContext, conn>>
          /\ ctxList' = Removed(ctxList, mWsContext)
          /\ handlerLength' = handlerLength - 1
          /\ Goto(t, After(t))
      BY <2>3 DEF RemoveHandler
    <3>2. mWsContext \in Contexts
      BY <1>2, <2>1, LibraryMoves
    <3>3. Agree(D, M, conn[mWsContext], mWsStatus)
      BY <1>2, Zenon DEF CallInv, PlacesAgree
    <3>4. \/ D = "remove" /\ D' = "sleep" /\ M' = M
          \/ M = "remove" /\ M' = "result" /\ D' = D
      BY <3>1, GotoFacts, PhaseFacts DEF IInv, D, M
    <3>5. Here(D, M, conn[mWsContext]) /\ ~Here(D', M', conn[mWsContext])
      BY <3>3, <3>4 DEF Agree, Here, Leaves, Pending, Held, Fresh
    <3>6. Listed(mWsContext) /\ ~Listed(mWsContext)'
      BY <3>1, <3>2, <3>5 DEF Listed, Contexts
    <3>7. TableAgrees'
      BY <1>3, <3>1, <3>2, <3>6, TableDropped
    <3> QED BY <2>2, <3>7
  <2>4. CASE ~RemoveHandler(t)
    <3>1. at[t] # "remove" /\ UNCHANGED <<ctxList, handlerLength>>
      BY <2>1, <2>4 DEF InLibrary, Service, SetStatus, Switch, SetGood, Write, handler, table
    <3>2. TableAgrees'
      BY <1>2, <1>3, <2>1, <3>1, LibraryCall, TableKept
    <3> QED BY <2>2, <3>2
  <2> QED BY <2>3, <2>4
<1>5. CASE CreateContext
  <2>1. ~InSendText /\ UNCHANGED <<ctxList, handlerLength>>
    BY <1>5, Zenon DEF CreateContext, table
  <2>2. PlacesAgree' /\ GoodAgrees' /\ \A n \in Contexts : Listed(n)' <=> Listed(n)
    BY <1>2, <1>5, <2>1, CreateContextCall
  <2> QED BY <1>3, <2>1, <2>2, TableKept
<1>6. CASE DaemonOther
  <2>1. PlacesAgree' /\ GoodAgrees'
    BY <1>2, <1>6, DaemonCall
  <2>2. CASE RegisterHandler
    <3>1. /\ D = "register" /\ Goto("daemon", "connect")
          /\ UNCHANGED <<mWsContext, conn>>
          /\ ctxList' = IF handlerLength < 0 THEN ctxList ELSE Append(ctxList, mWsContext)
          /\ handlerLength' = handlerLength + 1
      BY <2>2 DEF RegisterHandler, D
    <3>2. D' = "connect" /\ M' = M
      BY <3>1, GotoFacts, PhaseFacts DEF IInv
    <3>3. mWsContext \in Contexts /\ conn[mWsContext] = "none"
      BY <3>1 DEF IInv, Places, BeforeFirst, Untried, Contexts
    <3>4. ~Listed(mWsContext) /\ Listed(mWsContext)'
      BY <3>1, <3>2, <3>3 DEF Listed, Here, Contexts
    <3>5. ctxList' = Append(ctxList, mWsContext)
      BY <1>3, <3>1 DEF TableAgrees
    <3>6. TableAgrees'
      BY <1>3, <3>1, <3>3, <3>4, <3>5, TableGrows
    <3> QED BY <2>1, <3>6
  <2>3. CASE ~RegisterHandler
    <3>1. UNCHANGED <<ctxList, handlerLength>>
      BY <1>6, <2>3, Zenon DEF DaemonOther, Refuse, ClientConnect, MarkConnecting, Look,
         Wake, handler, table
    <3>2. TableAgrees'
      BY <1>2, <1>3, <1>6, <2>3, <3>1, DaemonCall, TableKept
    <3> QED BY <2>1, <3>2
  <2> QED BY <2>2, <2>3
<1>7. CASE MainOther
  <2>1. UNCHANGED <<ctxList, handlerLength>>
    BY <1>7, Zenon DEF MainOther, SendText, SendTextNotGood, CopyText, RequestWritable,
       Return, handler, table
  <2>2. PlacesAgree' /\ GoodAgrees' /\ \A n \in Contexts : Listed(n)' <=> Listed(n)
    BY <1>2, <1>7, MainCall
  <2> QED BY <1>3, <2>1, <2>2, TableKept
<1> QED BY <1>1, <1>4, <1>5, <1>6, <1>7

-----------------------------------------------------------------------------
(* The types of what is written without being read.                         *)

(* A set of natural numbers has a least element: what an induction needs.   *)
LEMMA LeastElement ==
    ASSUME NEW T \in SUBSET Nat, T # {}
    PROVE  \E x \in T : \A y \in T : x <= y
  <1> DEFINE Less == {xy \in Nat \X Nat : xy[1] < xy[2]}
  <1>1. IsWellFoundedOn(Less, Nat)
    BY NatLessThanWellFounded DEF OpToRel
  <1>2. \A x, y \in Nat : y < x => <<y, x>> \in Less
    OBVIOUS
  <1> HIDE DEF Less
  <1>3. PICK x \in T : \A y \in T : ~(<<y, x>> \in Less)
    BY <1>1, WFMin
  <1>4. ASSUME NEW y \in T PROVE x <= y
    <2>1. x \in Nat /\ y \in Nat /\ ~(y < x)
      BY <1>2, <1>3
    <2> QED BY <2>1
  <1> QED BY <1>4

(* Whatever is removed, a table of contexts is left.                        *)
LEMMA RemovedIsSeq ==
  ASSUME NEW list \in Seq(Contexts), NEW n PROVE Removed(list, n) \in Seq(Contexts)
<1>1. Len(list) \in Nat /\ \A i \in 1 .. Len(list) : list[i] \in Contexts
  OBVIOUS
<1> DEFINE I == {i \in 1 .. Len(list) : list[i] = n}
           k == SelectInSeq(list, LAMBDA x : x = n)
<1>2. k = IF I # {} THEN Min(I) ELSE 0
  BY DEF SelectInSeq
<1>3. k \in 0 .. Len(list)
  <2>1. CASE I = {}
    BY <1>1, <1>2, <2>1
  <2>2. CASE I # {}
    <3>1. I \in SUBSET Nat /\ I \subseteq 1 .. Len(list)
      BY <1>1
    <3> HIDE DEF I
    <3>2. \E x \in I : \A y \in I : x <= y
      BY <2>2, <3>1, LeastElement
    <3>3. Min(I) \in I
      BY <3>2 DEF Min
    <3> QED BY <1>1, <1>2, <2>2, <3>1, <3>3
  <2> QED BY <2>1, <2>2
<1> HIDE DEF k
<1> DEFINE j == IF k = 0 THEN Len(list) ELSE k
<1>4. Removed(list, n) = IF list = <<>> THEN list ELSE RemoveAt(list, j)
  BY DEF Removed, k
<1>5. j \in 0 .. Len(list)
  BY <1>1, <1>3
<1> HIDE DEF j
<1>6. SubSeq(list, 1, j - 1) \in Seq(Contexts)
  <2>1. j - 1 \in Int /\ \A i \in 1 .. j - 1 : list[i] \in Contexts
    BY <1>1, <1>5
  <2> QED BY <2>1, SubSeqProperties
<1>7. SubSeq(list, j + 1, Len(list)) \in Seq(Contexts)
  <2>1. j + 1 \in Int /\ Len(list) \in Int /\ \A i \in j + 1 .. Len(list) : list[i] \in Contexts
    BY <1>1, <1>5
  <2> QED BY <2>1, SubSeqProperties
<1>8. RemoveAt(list, j) \in Seq(Contexts)
  BY <1>6, <1>7, ConcatProperties DEF RemoveAt
<1> QED BY <1>4, <1>8

(* A step of a library call: where it is, where it goes, and what it leaves *)
(* alone.                                                                   *)
LEMMA LibraryGoto ==
  ASSUME IInv, NEW t \in Thread, InLibrary(t)
  PROVE  /\ at[t] \in LibraryPlaces
         /\ UNCHANGED <<text, mWsBuffer, overtaken, crossed>>
         /\ \E q \in (LibraryPlaces \ {"touch", "service"}) \cup {After(t)} : Goto(t, q)
<1>1. UNCHANGED <<text, mWsBuffer, overtaken, crossed>>
  BY Zenon DEF InLibrary, Service, SetStatus, Switch, SetGood, RemoveHandler, Write, sending
<1>2. at[t] \in LibraryPlaces
  BY Zenon DEF InLibrary, Service, SetStatus, Switch, SetGood, RemoveHandler, Write,
     LibraryPlaces
<1> DEFINE Q == (LibraryPlaces \ {"touch", "service"}) \cup {After(t)}
<1>3. {After(t), "established", "closed", "failed", "notConnected", "switch", "good",
       "notGood", "remove", "write"} \subseteq Q
  BY DEF LibraryPlaces
<1>4. \E q \in Q : Goto(t, q)
  <2> HIDE DEF Q
  <2>1. CASE Service(t)
    <3>1. PICK phase \in Phases, place \in LibraryPlaces \cup {"sleep", "result"} :
            Goto(t, place) /\ Event(t, phase, place)
      BY <2>1, ServiceFacts
    <3>2. place \in Q
      BY <1>3, <3>1 DEF Event
    <3> QED BY <3>1, <3>2
  <2>2. CASE SetStatus(t) \/ Switch(t) \/ SetGood(t)
    BY <1>3, <2>2, Zenon DEF SetStatus, Switch, SetGood
  <2>3. CASE RemoveHandler(t) \/ Write(t)
    BY <1>3, <2>3, Zenon DEF RemoveHandler, Write
  <2> QED BY <2>1, <2>2, <2>3, Zenon DEF InLibrary
<1> QED BY <1>1, <1>2, <1>4

LEMMA DataStep == ASSUME IInv, DataOK, Next PROVE DataOK'
<1> USE DEF DaemonOther, MainOther
<1>1. \/ \E t \in Thread : InLibrary(t)
      \/ CreateContext \/ DaemonOther \/ MainOther
  BY PhaseFacts, Zenon DEF Next, Daemon, Main
<1> USE DEF RegisterHandler, Refuse, ClientConnect, MarkConnecting, Look, Wake,
            SendText, SendTextNotGood, CopyText, RequestWritable, Return, CreateContext,
            handler, status, table, sending, wire
<1>2. text' \in {0, 1} /\ mWsBuffer' \in [1..2 -> {0, 1}]
  <2>1. CASE \E t \in Thread : InLibrary(t)
    BY <2>1, LibraryGoto DEF DataOK
  <2>2. CASE CreateContext \/ DaemonOther
    <3>1. UNCHANGED <<text, mWsBuffer>>
      BY <2>2, Zenon
    <3> QED BY <3>1 DEF DataOK
  <2>3. CASE MainOther
    <3>1. /\ text' = text \/ text' = 1 - text
          /\ \/ mWsBuffer' = mWsBuffer
             \/ mWsBuffer' = [mWsBuffer EXCEPT ![1] = text]
             \/ mWsBuffer' = [mWsBuffer EXCEPT ![2] = text]
      BY <2>3, Zenon DEF CopyHalf
    <3> QED BY <3>1 DEF DataOK
  <2> QED BY <1>1, <2>1, <2>2, <2>3
<1>3. frame' \in [1..2 -> {0, 1}]
  <2>1. frame' = frame \/ frame' = mWsBuffer
    BY <1>1, Zenon DEF InLibrary, Service, Progress, Establish, FailSilently, Close, Writeable,
       NothingToDo, ServiceFails, SetStatus, Switch, SetGood, RemoveHandler, Write
  <2> QED BY <2>1 DEF DataOK
<1>4. ctxList' \in Seq(Contexts) /\ handlerLength' \in Int
  <2>1. \/ UNCHANGED <<ctxList, handlerLength>>
        \/ ctxList' = Removed(ctxList, mWsContext) /\ handlerLength' = handlerLength - 1
        \/ RegisterHandler
    BY <1>1, Zenon DEF InLibrary, Service, SetStatus, Switch, SetGood, RemoveHandler, Write
  <2>2. RegisterHandler => mWsContext \in Contexts
    BY DEF IInv, Places, BeforeFirst, Contexts, D
  <2>3. CASE RegisterHandler
    BY <2>2, <2>3 DEF DataOK
  <2>4. CASE ~RegisterHandler
    <3> HIDE DEF RegisterHandler
    <3> QED BY <2>1, <2>4, RemovedIsSeq DEF DataOK
  <2> QED BY <2>3, <2>4
<1>5. mIsGood' \in BOOLEAN /\ wantsWrite' \in BOOLEAN /\ offered' \in BOOLEAN
      /\ crossed' \in BOOLEAN /\ overtaken' \in BOOLEAN
  BY <1>1, Zenon DEF DataOK, InLibrary, Service, Progress, Establish, FailSilently, Close,
     Writeable, NothingToDo, ServiceFails, SetStatus, Switch, SetGood, RemoveHandler, Write
<1> QED
  BY <1>2, <1>3, <1>4, <1>5, Zenon DEF DataOK

-----------------------------------------------------------------------------
(* The transfer of a text.                                                  *)

(* A library call leaves text and buffer alone, and a main thread that is   *)
(* in one is past the copy.                                                 *)
LEMMA LibraryBuffer ==
  ASSUME IInv, BufferInv, NEW t \in Thread, InLibrary(t)
  PROVE  /\ BufferInv'
         /\ t = "daemon" => M' = M
         /\ t = "main" => /\ D' = D
                          /\ M \in LibraryPlaces \ {"service"}
                          /\ M' \in (LibraryPlaces \ {"touch", "service"}) \cup {"result"}
<1> PICK q \in (LibraryPlaces \ {"touch", "service"}) \cup {After(t)} : Goto(t, q)
  BY LibraryGoto
<1>1. at[t] \in LibraryPlaces /\ UNCHANGED <<text, mWsBuffer>>
  BY LibraryGoto
<1>2. /\ t = "daemon" => M' = M
      /\ t = "main" => M' = q /\ D' = D /\ at[t] = M
  BY GotoFacts DEF IInv, M
<1>3. t = "main" => /\ M \in LibraryPlaces \ {"service"}
                    /\ M' \in (LibraryPlaces \ {"touch", "service"}) \cup {"result"}
  BY <1>1, <1>2, PhaseFacts DEF IInv, Places, MainPlaces
<1>4. BufferInv'
  <2>1. CASE t = "daemon"
    BY <1>1, <1>2, <2>1 DEF BufferInv
  <2>2. CASE t = "main"
    BY <1>1, <1>2, <1>3, <2>2 DEF BufferInv, LibraryPlaces
  <2> QED BY <2>1, <2>2, PhaseFacts
<1> QED BY <1>2, <1>3, <1>4

\* The main thread has asked for its writable callback.
Past == M \notin {"idle", "skipped", "copy1", "copy2", "request", "write"}

(* With a connection not open nobody waits for a callback, nor needs to.    *)
LEMMA NotOpenTransfer ==
  ASSUME FrameInv, UNCHANGED <<frame, overtaken>>, BufferInv', ~wantsWrite',
         ~crossed' /\ Past' => conn'[mWsContext'] # "open",
         M' \in {"copy1", "copy2"} => M \in {"copy1", "copy2"} /\ (D' = "write" => D = "write")
  PROVE  Transfer'
<1>1. FrameInv'
  BY DEF FrameInv
<1>2. WantsInv'
  BY Zenon DEF WantsInv
<1>3. OfferedInv'
  BY DEF OfferedInv, Past
<1> QED BY <1>1, <1>2, <1>3, Zenon DEF Transfer

LEMMA ServiceTransfer ==
  ASSUME ~SocketBlocks, IInv, TableInv, CallInv, Transfer, NEW t \in Thread, Service(t)
  PROVE  Transfer'
<1> BufferInv /\ WantsInv /\ FrameInv /\ OfferedInv
  BY Zenon DEF Transfer
<1>1. /\ BufferInv'
      /\ t = "daemon" => M' = M
      /\ t = "main" => /\ D' = D
                       /\ M' \notin {"touch", "copy1", "copy2"}
  BY LibraryBuffer, Zenon DEF InLibrary, LibraryPlaces
<1>2. /\ mWsContext' = mWsContext /\ mWsContext \in Contexts
      /\ conn \in [Contexts -> Phases]
  BY ServiceFacts DEF IInv, Places
<1>3. UNCHANGED <<text, mWsBuffer, overtaken, crossed>>
  BY Zenon DEF Service, sending
<1>4. /\ t = "daemon" => D \in {"touch", "service"}
      /\ t = "main" => M = "touch"
  BY ServiceFacts, PhaseFacts DEF IInv, Places, MainPlaces, LibraryPlaces, D, M
<1>5. ~crossed /\ M \notin {"idle", "skipped"} => conn[mWsContext] \in {"open", "dead"}
  <2>1. ~crossed => Agree(D, M, conn[mWsContext], mWsStatus)
    BY Zenon DEF CallInv, PlacesAgree
  <2> QED BY <2>1 DEF Agree, Held
<1>6. PICK q : Goto(t, q)
  BY ServiceFacts
<1>7. /\ t = "daemon" => D' = q
      /\ t = "main" => M' = q
  BY <1>6, GotoFacts DEF IInv
<1>8. CASE Progress(t) \/ Establish(t) \/ FailSilently(t) \/ ServiceFails(t)
  <2>1. conn[mWsContext] \in Opening /\ conn[mWsContext] # "open"
    BY <1>8, PhaseFacts DEF Progress, Establish, FailSilently, ServiceFails, Opening
  <2>2. UNCHANGED wire
    BY <1>8, Zenon DEF Progress, Establish, FailSilently, ServiceFails
  <2>3. q # "write"
    <3>1. PICK p \in {"established", "failed", "notConnected", After(t)} : Goto(t, p)
      BY <1>8, Zenon DEF Progress, Establish, FailSilently, ServiceFails, Callback
    <3>2. at'[t] = p /\ at'[t] = q
      BY <1>6, <3>1, GotoFacts DEF IInv
    <3> QED BY <3>1, <3>2, PhaseFacts
  <2>4. ~wantsWrite'
    BY <2>1, <2>2, Zenon DEF WantsInv, wire
  <2>5. ~crossed' => ~Past'
    <3>1. crossed \/ M \in {"idle", "skipped"}
      BY <1>5, <2>1, PhaseFacts
    <3>2. crossed \/ (t = "daemon" /\ M' = M)
      BY <1>1, <1>4, <3>1, PhaseFacts
    <3>3. M \in {"idle", "skipped"} /\ M' = M => ~Past'
      BY DEF Past
    <3> QED BY <1>3, <3>1, <3>2, <3>3, Zenon
  <2>6. M' \in {"copy1", "copy2"} => M \in {"copy1", "copy2"} /\ (D' = "write" => D = "write")
    BY <1>1, <1>7, <2>3, PhaseFacts
  <2>7. UNCHANGED <<frame, overtaken>>
    BY <1>3, <2>2 DEF wire
  <2> QED BY <1>1, <2>4, <2>5, <2>6, <2>7, NotOpenTransfer
<1>9. CASE Close(t)
  <2>1. wantsWrite' = FALSE /\ frame' = frame /\ conn' = [conn EXCEPT ![mWsContext] = "dead"]
    BY <1>9, Zenon DEF Close, Conn
  <2>2. conn'[mWsContext'] # "open"
    BY <1>2, <2>1
  <2>3. PICK p \in {"closed", After(t)} : Goto(t, p)
    BY <1>9, CallbackFacts DEF Close
  <2>4. q # "write"
    <3>2. at'[t] = p /\ at'[t] = q
      BY <1>6, <2>3, GotoFacts DEF IInv
    <3> QED BY <2>3, <3>2, PhaseFacts
  <2>5. M' \in {"copy1", "copy2"} => M \in {"copy1", "copy2"} /\ (D' = "write" => D = "write")
    BY <1>1, <1>7, <2>4, PhaseFacts
  <2>6. ~wantsWrite'
    BY <2>1, Zenon
  <2>7. UNCHANGED <<frame, overtaken>>
    BY <1>3, <2>1
  <2> QED BY <1>1, <2>2, <2>5, <2>6, <2>7, NotOpenTransfer
<1>10. CASE Writeable(t)
  <2>1. /\ conn[mWsContext] = "open" /\ wantsWrite
        /\ wantsWrite' = FALSE /\ UNCHANGED <<conn, frame, offered>>
    BY <1>10, Zenon DEF Writeable
  <2>2. M = "touch"
    BY <2>1, Zenon DEF WantsInv
  <2>3. PICK p \in {"write", After(t)} : Goto(t, p) /\ (Found => p = "write")
    BY <1>10, CallbackFacts DEF Writeable
  <2>4. p = q
    <3>2. at'[t] = p /\ at'[t] = q
      BY <1>6, <2>3, GotoFacts DEF IInv
    <3> QED BY <3>2
  <2>5. ~crossed => q = "write"
    <3>1. ~crossed => Found
      BY <1>2, <2>1, AliveIsFound, PhaseFacts
    <3> QED BY <2>3, <2>4, <3>1
  <2>6. M' \notin {"copy1", "copy2"}
    BY <1>1, <2>2, PhaseFacts
  <2>7. FrameInv'
    BY <1>3, <2>1, <2>6 DEF FrameInv
  <2>8. WantsInv'
    BY <2>1, Zenon DEF WantsInv
  <2>9. OfferedInv'
    <3>1. ~crossed => D' = "write" \/ M' = "write"
      BY <1>7, <2>5, PhaseFacts
    <3> QED BY <1>3, <3>1 DEF OfferedInv
  <2> QED BY <1>1, <2>7, <2>8, <2>9, Zenon DEF Transfer
<1>11. CASE NothingToDo(t)
  <2>1. /\ UNCHANGED <<conn, wantsWrite, frame, offered>> /\ Goto(t, After(t))
        /\ ~(wantsWrite /\ conn[mWsContext] = "open")
    BY <1>11, Zenon DEF NothingToDo, wire
  <2>2. ~wantsWrite /\ ~wantsWrite'
    BY <2>1, Zenon DEF WantsInv
  <2>3. /\ t = "daemon" => M' = M /\ D' = "sleep"
        /\ t = "main" => M' = "result" /\ D' = D
    BY <2>1, GotoFacts, PhaseFacts DEF IInv
  <2>4. FrameInv'
    BY <1>3, <2>1, <2>3, PhaseFacts DEF FrameInv
  <2>5. WantsInv'
    BY <2>2, Zenon DEF WantsInv
  <2>6. OfferedInv'
    <3>1. Past' => Past
      BY <1>4, <2>3, PhaseFacts DEF Past
    <3>2. D = "write" => D' = "write"
      BY <1>4, <2>3, PhaseFacts
    <3>3. UNCHANGED <<crossed, offered, conn, mWsContext>>
      BY <1>2, <1>3, <2>1
    <3> HIDE DEF Past
    <3>4. ~crossed /\ Past => offered \/ D = "write" \/ conn[mWsContext] # "open"
      BY <2>2, Zenon DEF OfferedInv, Past
    <3>5. ~crossed' /\ Past' => offered' \/ D' = "write" \/ conn'[mWsContext'] # "open"
      BY <3>1, <3>2, <3>3, <3>4, Zenon
    <3> QED BY <3>5, Zenon DEF OfferedInv, Past
  <2> QED BY <1>1, <2>4, <2>5, <2>6, Zenon DEF Transfer
<1> QED
  BY <1>8, <1>9, <1>10, <1>11, Zenon DEF Service

LEMMA ReportTransfer ==
  ASSUME IInv, Transfer, NEW t \in Thread, InLibrary(t), ~Service(t), ~Write(t)
  PROVE  Transfer'
<1> BufferInv /\ WantsInv /\ FrameInv /\ OfferedInv
  BY Zenon DEF Transfer
<1>1. /\ at[t] \in LibraryPlaces \ {"touch", "service", "write"}
      /\ UNCHANGED <<mWsContext, conn, wire, overtaken, crossed>>
  <2>1. SetStatus(t) \/ Switch(t) \/ SetGood(t) \/ RemoveHandler(t)
    BY Zenon DEF InLibrary
  <2>2. UNCHANGED <<mWsContext, conn, wire, overtaken, crossed>>
    BY <2>1, Zenon DEF SetStatus, Switch, SetGood, RemoveHandler, handler, sending
  <2>3. at[t] \in {"established", "closed", "failed", "notConnected", "switch", "good",
                   "notGood", "remove"}
    BY <2>1, Zenon DEF SetStatus, Switch, SetGood, RemoveHandler
  <2> QED BY <2>2, <2>3 DEF LibraryPlaces
<1>2. PICK q \in {"switch", "notGood", "good", "remove", After(t)} : Goto(t, q)
  BY Zenon DEF InLibrary, SetStatus, Switch, SetGood, RemoveHandler
<1>3. /\ t = "daemon" => D' = q /\ M' = M /\ D = at[t]
      /\ t = "main" => M' = q /\ D' = D /\ M = at[t]
  BY <1>2, GotoFacts DEF IInv, D, M
<1>4. /\ M = "touch" => M' = "touch"
      /\ M' \in {"copy1", "copy2"} => M' = M
      /\ D' = "write" <=> D = "write"
      /\ Past' => Past
  BY <1>1, <1>2, <1>3, PhaseFacts DEF LibraryPlaces, Past
<1>5. BufferInv'
  BY LibraryBuffer
<1>6. FrameInv'
  BY <1>1, <1>4 DEF FrameInv, wire
<1>7. WantsInv'
  <2>1. wantsWrite' = wantsWrite
    BY <1>1, Zenon DEF wire
  <2> QED BY <1>1, <1>4, <2>1, Zenon DEF WantsInv
<1>8. OfferedInv'
  <2>1. UNCHANGED <<wantsWrite, offered, crossed, conn, mWsContext>>
    BY <1>1, Zenon DEF wire
  <2> QED BY <1>4, <2>1, Zenon DEF OfferedInv, Past
<1> QED BY <1>5, <1>6, <1>7, <1>8, Zenon DEF Transfer

LEMMA WriteTransfer ==
  ASSUME IInv, DataOK, Transfer, NEW t \in Thread, Write(t)
  PROVE  Transfer'
<1> BufferInv /\ WantsInv /\ FrameInv /\ OfferedInv
  BY Zenon DEF Transfer
<1>1. /\ at[t] = "write" /\ Goto(t, After(t))
      /\ UNCHANGED <<mWsContext, conn, wantsWrite, text, mWsBuffer, overtaken, crossed>>
      /\ frame' = mWsBuffer \/ frame' = frame
      /\ offered' = (offered \/ mWsBuffer = <<text, text>>)
  BY Zenon DEF Write, handler, sending
<1>2. /\ t = "daemon" => D' = "sleep" /\ M' = M /\ D = "write"
      /\ t = "main" => M' = "result" /\ D' = D /\ M = "write"
  BY <1>1, GotoFacts, PhaseFacts DEF IInv, D, M
<1>3. BufferInv'
  BY LibraryBuffer, Zenon DEF InLibrary
<1>4. FrameInv'
  <2>1. SUFFICES ASSUME ~overtaken'
                 PROVE  frame'[1] = frame'[2] /\ (M' \in {"copy1", "copy2"} => D' # "write")
    BY Zenon DEF FrameInv
  <2>2. ~overtaken
    BY <1>1, <2>1, Zenon
  <2>3. frame[1] = frame[2] /\ (M \in {"copy1", "copy2"} => D # "write")
    BY <2>2, Zenon DEF FrameInv
  <2>4. M # "copy2"
    BY <1>2, <2>3, PhaseFacts
  <2>5. mWsBuffer[1] = mWsBuffer[2]
    BY <2>4, Zenon DEF BufferInv
  <2> QED BY <1>1, <1>2, <2>3, <2>5, PhaseFacts
<1>5. WantsInv'
  <2>1. M = "touch" => M' = "touch"
    BY <1>2, PhaseFacts
  <2> QED BY <1>1, <2>1, Zenon DEF WantsInv
<1>6. OfferedInv'
  <2>1. Past' => M \notin {"idle", "skipped", "copy1", "copy2"}
    BY <1>2, PhaseFacts DEF Past
  <2>2. Past' => mWsBuffer = <<text, text>>
    BY <2>1 DEF BufferInv, DataOK
  <2>3. Past' => offered'
    BY <1>1, <2>2, Zenon
  <2> QED BY <2>3, Zenon DEF OfferedInv, Past
<1> QED BY <1>3, <1>4, <1>5, <1>6, Zenon DEF Transfer

LEMMA DaemonTransfer ==
  ASSUME IInv, CallInv, Transfer, CreateContext \/ DaemonOther
  PROVE  Transfer'
<1> BufferInv /\ WantsInv /\ FrameInv /\ OfferedInv
  BY Zenon DEF Transfer
<1> USE DEF DaemonOther
<1>1. PICK q \in {"register", "connect", "sleep", "started", "service", "touch", "look"} :
          Goto("daemon", q)
  BY Zenon DEF CreateContext, RegisterHandler, Refuse, ClientConnect, MarkConnecting, Look, Wake
<1>2. M' = M /\ D' = q
  BY <1>1, GotoFacts, PhaseFacts DEF IInv
<1>3. UNCHANGED <<text, mWsBuffer, overtaken, frame, offered>>
  BY Zenon DEF CreateContext, RegisterHandler, Refuse, ClientConnect, MarkConnecting, Look,
     Wake, sending, wire
<1>4. BufferInv'
  BY <1>2, <1>3 DEF BufferInv
<1>5. FrameInv'
  BY <1>2, <1>3 DEF FrameInv
<1>6. D \in {"look", "register", "connect", "started", "sleep"}
  BY DEF CreateContext, RegisterHandler, Refuse, ClientConnect, MarkConnecting, Look, Wake, D
<1>7. CASE CreateContext
  <2>1. /\ mWsStatus = "disconnect" /\ UNCHANGED <<wantsWrite, conn>>
        /\ crossed' = (crossed \/ InSendText) /\ D = "look"
    BY <1>7, Zenon DEF CreateContext, wire, D
  <2>2. mWsContext # 0 => conn[mWsContext] # "open"
    BY <2>1, PhaseFacts DEF IInv, StatusOfAlive
  <2>3. ~wantsWrite'
    BY <2>1, <2>2, Zenon DEF WantsInv
  <2>4. ~crossed' => ~Past'
    <3>1. ~crossed' => ~InSendText
      BY <2>1, Zenon
    <3>2. ~InSendText => ~Past'
      BY <1>2 DEF InSendText, Past, M
    <3> QED BY <3>1, <3>2, Zenon
  <2>5. OfferedInv'
    BY <2>4, Zenon DEF OfferedInv, Past
  <2>6. WantsInv'
    BY <2>3, Zenon DEF WantsInv
  <2> QED BY <1>4, <1>5, <2>5, <2>6, Zenon DEF Transfer
<1>8. CASE ClientConnect
  <2>1. wantsWrite' = FALSE /\ crossed' = crossed
    BY <1>8, Zenon DEF ClientConnect
  <2>2. D = "connect"
    BY <1>8 DEF ClientConnect, D
  <2>3. ~crossed => M \in {"idle", "skipped"}
    <3>1. ~crossed => Agree(D, M, conn[mWsContext], mWsStatus)
      BY Zenon DEF CallInv, PlacesAgree
    <3> QED BY <2>2, <3>1 DEF Agree, Held, Fresh
  <2>4. OfferedInv'
    <3>1. ~crossed' => ~Past'
      BY <1>2, <2>1, <2>3 DEF Past
    <3> QED BY <3>1, Zenon DEF OfferedInv, Past
  <2>5. WantsInv'
    BY <2>1, Zenon DEF WantsInv
  <2> QED BY <1>4, <1>5, <2>4, <2>5, Zenon DEF Transfer
<1>9. CASE RegisterHandler \/ Refuse \/ MarkConnecting \/ Look \/ Wake
  <2>1. UNCHANGED <<wantsWrite, offered, conn, mWsContext, crossed>>
    BY <1>9, Zenon DEF RegisterHandler, Refuse, MarkConnecting, Look, Wake, wire, handler
  <2>2. WantsInv'
    BY <1>2, <2>1, Zenon DEF WantsInv
  <2>3. D # "write" /\ D' # "write"
    BY <1>2, <1>6
  <2>4. OfferedInv'
    BY <1>2, <2>1, <2>3, Zenon DEF OfferedInv
  <2> QED BY <1>4, <1>5, <2>2, <2>4, Zenon DEF Transfer
<1> QED BY <1>7, <1>8, <1>9, Zenon

LEMMA MainTransfer ==
  ASSUME IInv, DataOK, Transfer, MainOther
  PROVE  Transfer'
<1> BufferInv /\ WantsInv /\ FrameInv /\ OfferedInv
  BY Zenon DEF Transfer
<1> DEFINE To(p) == Goto("main", p)
<1>1. \A p : To(p) => M' = p /\ D' = D
  BY GotoFacts, PhaseFacts DEF IInv
<1> HIDE DEF To
<1>2. UNCHANGED <<conn, mWsContext, frame, crossed>>
  BY Zenon DEF MainOther, SendText, SendTextNotGood, CopyText, RequestWritable, Return,
     handler, wire
<1>3. CASE SendText
  <2>1. /\ at["main"] = "idle" /\ To("copy1") /\ UNCHANGED <<mWsBuffer, wantsWrite>>
        /\ overtaken' = (overtaken \/ at["daemon"] = "write")
    BY <1>3, Zenon DEF SendText, To
  <2>2. M = "idle" /\ M' = "copy1" /\ D' = D
    BY <1>1, <2>1 DEF M
  <2>3. ~wantsWrite'
    <3>1. M # "touch"
      BY <2>2
    <3> QED BY <2>1, <3>1, Zenon DEF WantsInv
  <2>4. BufferInv'
    BY <2>1, <2>2 DEF BufferInv
  <2>5. FrameInv'
    <3>1. ~overtaken' => ~overtaken /\ D # "write"
      BY <2>1, Zenon DEF D
    <3>2. ~overtaken' => frame'[1] = frame'[2] /\ D' # "write"
      BY <1>2, <2>2, <3>1, Zenon DEF FrameInv
    <3> QED BY <3>2, Zenon DEF FrameInv
  <2>6. ~Past'
    BY <2>2 DEF Past
  <2>7. OfferedInv' /\ WantsInv'
    BY <2>3, <2>6, Zenon DEF OfferedInv, WantsInv, Past
  <2> QED BY <2>4, <2>5, <2>7, Zenon DEF Transfer
<1>4. CASE SendTextNotGood \/ Return
  <2>1. /\ UNCHANGED <<text, mWsBuffer, wantsWrite, overtaken>>
        /\ at["main"] \in {"idle", "result", "skipped"}
        /\ To("skipped") \/ To("idle")
    <3>1. CASE SendTextNotGood
      <4>1. at["main"] = "idle" /\ To("skipped")
        BY <3>1, Zenon DEF SendTextNotGood, To
      <4>2. UNCHANGED <<text, mWsBuffer, wantsWrite, overtaken>>
        BY <3>1, Zenon DEF SendTextNotGood, sending, wire
      <4> QED BY <4>1, <4>2
    <3>2. CASE Return
      <4>1. at["main"] \in {"result", "skipped"} /\ To("idle")
        BY <3>2, Zenon DEF Return, To
      <4>2. UNCHANGED <<text, mWsBuffer, wantsWrite, overtaken>>
        BY <3>2, Zenon DEF Return, sending, wire
      <4> QED BY <4>1, <4>2
    <3> QED BY <1>4, <3>1, <3>2
  <2>2. M \in {"idle", "result", "skipped"} /\ M' \in {"idle", "skipped"}
    BY <1>1, <2>1 DEF M
  <2>3. ~wantsWrite'
    <3>1. M # "touch"
      BY <2>2
    <3> QED BY <2>1, <3>1, Zenon DEF WantsInv
  <2>4. BufferInv'
    BY <2>1, <2>2 DEF BufferInv
  <2>5. ~Past' /\ M' \notin {"copy1", "copy2"}
    BY <2>2 DEF Past
  <2>6. UNCHANGED <<frame, overtaken>>
    BY <1>2, <2>1
  <2> QED BY <2>3, <2>4, <2>5, <2>6, NotOpenTransfer
<1>5. CASE CopyText
  <2>1. /\ \/ at["main"] = "copy1" /\ mWsBuffer' = [mWsBuffer EXCEPT ![1] = text] /\ To("copy2")
           \/ at["main"] = "copy2" /\ mWsBuffer' = [mWsBuffer EXCEPT ![2] = text] /\ To("request")
        /\ UNCHANGED <<text, wantsWrite, overtaken>>
    BY <1>5, Zenon DEF CopyText, CopyHalf, To, wire
  <2>2. \/ M = "copy1" /\ M' = "copy2" /\ mWsBuffer' = [mWsBuffer EXCEPT ![1] = text]
        \/ M = "copy2" /\ M' = "request" /\ mWsBuffer' = [mWsBuffer EXCEPT ![2] = text]
    BY <1>1, <2>1, Zenon DEF M
  <2>3. D' = D
    BY <1>1, <2>1, Zenon
  <2>4. ~wantsWrite'
    <3>1. M # "touch"
      BY <2>2
    <3> QED BY <2>1, <3>1, Zenon DEF WantsInv
  <2>5. BufferInv'
    BY <2>1, <2>2 DEF BufferInv, DataOK
  <2>6. ~Past' /\ (M' \in {"copy1", "copy2"} => M \in {"copy1", "copy2"})
    BY <2>2 DEF Past
  <2>7. UNCHANGED <<frame, overtaken>>
    BY <1>2, <2>1
  <2> QED BY <2>3, <2>4, <2>5, <2>6, <2>7, NotOpenTransfer
<1>6. CASE RequestWritable
  <2>1. /\ at["main"] = "request" /\ To("touch")
        /\ UNCHANGED <<text, mWsBuffer, overtaken>>
        /\ wantsWrite' = (wantsWrite \/ conn[mWsContext] = "open")
    BY <1>6, Zenon DEF RequestWritable, To, sending
  <2>2. M = "request" /\ M' = "touch" /\ D' = D
    BY <1>1, <2>1 DEF M
  <2>3. BufferInv'
    BY <2>1, <2>2 DEF BufferInv
  <2>4. FrameInv'
    BY <1>2, <2>1, <2>2 DEF FrameInv
  <2>5. mWsContext # 0
    BY <2>2, PhaseFacts DEF IInv, BeforeFirst
  <2>6. ~wantsWrite
    <3>1. M # "touch"
      BY <2>2
    <3> QED BY <3>1, Zenon DEF WantsInv
  <2>7. wantsWrite' <=> conn'[mWsContext'] = "open"
    BY <1>2, <2>1, <2>6, Zenon
  <2>8. mWsContext' # 0
    BY <1>2, <2>5
  <2>9. WantsInv' /\ OfferedInv'
    BY <2>2, <2>7, <2>8, Zenon DEF WantsInv, OfferedInv
  <2> QED BY <2>3, <2>4, <2>9, Zenon DEF Transfer
<1> QED
  BY <1>3, <1>4, <1>5, <1>6, Zenon DEF MainOther

-----------------------------------------------------------------------------
LEMMA InitRest == Init => TableInv /\ CallInv /\ DataOK /\ Transfer
<1> SUFFICES ASSUME Init PROVE TableInv /\ CallInv /\ DataOK /\ Transfer
  OBVIOUS
<1>1. /\ mWsContext = 0 /\ ctxList = <<>> /\ handlerLength = 0
      /\ conn = [n \in Contexts |-> "none"]
      /\ at = [t \in Thread |-> IF t = "daemon" THEN "look" ELSE "idle"]
      /\ text = 0 /\ mWsBuffer = <<0, 0>> /\ frame = <<0, 0>>
  BY DEF Init
<1>2. ~mIsGood /\ ~wantsWrite
  BY Zenon DEF Init
<1>3. D = "look" /\ M = "idle"
  BY <1>1, PhaseFacts DEF D, M
<1>4. TableInv
  <2>1. ctxList \in Seq(Contexts) /\ Len(ctxList) = 0
    BY <1>1, EmptySeq
  <2>2. TableAgrees
    BY <1>1, <2>1 DEF TableAgrees, Contains, Listed, Contexts
  <2> QED BY <2>2, Zenon DEF TableInv
<1>5. CallInv
  <2>1. PlacesAgree
    BY <1>3 DEF PlacesAgree, Agree, Leaves, Pending
  <2> QED BY <1>2, <2>1, Zenon DEF CallInv, GoodAgrees
<1>6. DataOK
  <2>1. <<0, 0>> \in [1..2 -> {0, 1}] /\ ctxList \in Seq(Contexts) /\ 0 \in Int
    BY <1>1, EmptySeq
  <2>2. mIsGood \in BOOLEAN /\ wantsWrite \in BOOLEAN /\ offered \in BOOLEAN
        /\ crossed \in BOOLEAN /\ overtaken \in BOOLEAN
    BY Zenon DEF Init
  <2>3. text \in {0, 1} /\ handlerLength \in Int /\ mWsBuffer \in [1..2 -> {0, 1}]
        /\ frame \in [1..2 -> {0, 1}]
    BY <1>1, <2>1
  <2> QED BY <2>1, <2>2, <2>3, Zenon DEF DataOK
<1>7. Transfer
  <2>1. BufferInv /\ FrameInv
    BY <1>1, <1>3 DEF BufferInv, FrameInv
  <2>2. OfferedInv
    BY <1>3 DEF OfferedInv
  <2>3. WantsInv
    BY <1>2, Zenon DEF WantsInv
  <2> QED BY <2>1, <2>2, <2>3, Zenon DEF Transfer
<1> QED BY <1>4, <1>5, <1>6, <1>7

(* What holds however the sockets behave and the threads cross.             *)
HandlerInv == IInv /\ TableInv /\ CallInv /\ DataOK

LEMMA HandlerInvStep == ASSUME HandlerInv, [Next]_vars PROVE HandlerInv'
<1>1. CASE Next
  BY <1>1, IInvStep, CallStep, DataStep, Zenon DEF HandlerInv
<1>2. CASE UNCHANGED vars
  <2>1. IInv'
    BY IInvStep DEF HandlerInv
  <2>2. UNCHANGED <<mWsStatus, mWsContext, ctxList, handlerLength, conn, at, text,
                    mWsBuffer, frame>>
    BY <1>2 DEF vars, handler, status, table, sending, wire
  <2>3. UNCHANGED <<mIsGood, wantsWrite, offered, crossed, overtaken>>
    BY <1>2, Zenon DEF vars, handler, status, sending, wire
  <2>4. DataOK'
    BY <2>2, <2>3, Zenon DEF HandlerInv, DataOK
  <2>5. (TableAgrees <=> TableAgrees') /\ (PlacesAgree <=> PlacesAgree')
    BY <2>2 DEF TableAgrees, Contains, Listed, PlacesAgree, D, M
  <2>6. GoodWith(D, M, conn[mWsContext], mWsStatus)
            <=> GoodWith(D', M', conn'[mWsContext'], mWsStatus')
    BY <2>2 DEF D, M
  <2>7. GoodAgrees => GoodAgrees'
    BY <2>3, <2>6, Zenon DEF GoodAgrees
  <2>8. TableInv' /\ CallInv'
    BY <2>3, <2>5, <2>7, Zenon DEF HandlerInv, TableInv, CallInv
  <2> QED BY <2>1, <2>4, <2>8 DEF HandlerInv
<1> QED BY <1>1, <1>2

(* Table, places and data of the handler agree, for any number of attempts  *)
(* (websocket_handler.cpp 112-298).                                         *)
THEOREM HandlerInvHolds == Init /\ [][Next]_vars => []HandlerInv
<1>1. Init => HandlerInv
  BY InitIInv, InitRest DEF HandlerInv
<1>2. HandlerInv /\ [Next]_vars => HandlerInv'
  BY HandlerInvStep
<1> QED
  BY <1>1, <1>2, PTL

(* At most one connection alive, whatever fails and however the two threads *)
(* cross between any two of their accesses (websocket_handler.cpp 116-139,  *)
(* 183-250).                                                                *)
THEOREM NeverTwoConnections == Spec => []OneConnection
<1>1. HandlerInv => OneConnection
  BY DEF HandlerInv, IInv
<1> QED
  BY <1>1, HandlerInvHolds, PTL DEF Spec

(* Until connectServer begins during a sendText, the table holds, in order, *)
(* the contexts whose end was not reported, but for the moments a thread is *)
(* about to put one in or take one out (websocket_handler.cpp 183-220,      *)
(* 273-298).                                                                *)
THEOREM TableIsSound == Spec => []TableAccounts
<1>1. HandlerInv => TableAccounts
  <2> SUFFICES ASSUME HandlerInv, ~crossed,
                      \A t \in Thread : at[t] \notin Ending \cup {"remove", "register"}
               PROVE  /\ handlerLength = Len(ctxList)
                      /\ \A i, j \in 1 .. Len(ctxList) : i < j => ctxList[i] < ctxList[j]
                      /\ Range(ctxList) = {n \in 1 .. mWsContext : conn[n] # "dead"}
    BY Zenon DEF TableAccounts
  <2>1. TableAgrees
    BY Zenon DEF HandlerInv, TableInv
  <2>2. /\ ctxList \in Seq(Contexts) /\ mWsContext \in 0 .. MaxContexts
        /\ \A n \in Contexts : Contains(ctxList, n) <=> Listed(n)
    BY <2>1 DEF TableAgrees, HandlerInv, IInv, Places
  <2>3. Range(ctxList) = {n \in Contexts : Contains(ctxList, n)}
    BY <2>2 DEF Range, Contains
  <2>4. D \notin Ending \cup {"remove", "register"} /\ M \notin Ending \cup {"remove"}
    BY PhaseFacts DEF D, M
  <2>5. \A n \in Contexts : Listed(n) <=> n <= mWsContext /\ conn[n] # "dead"
    BY <2>4 DEF Listed, Here, Leaves, Pending, Ending
  <2>6. Range(ctxList) = {n \in 1 .. mWsContext : conn[n] # "dead"}
    BY <2>2, <2>3, <2>5 DEF Contexts
  <2> QED BY <2>1, <2>6 DEF TableAgrees
<1> QED
  BY <1>1, HandlerInvHolds, PTL DEF Spec

(* With a socket that can be written, the transfer keeps what it promises.  *)
LEMMA TransferStep ==
  ASSUME ~SocketBlocks, HandlerInv, Transfer, [Next]_vars
  PROVE  Transfer'
<1> IInv /\ TableInv /\ CallInv /\ DataOK
  BY DEF HandlerInv
<1>1. CASE Next
  <2>1. \/ \E t \in Thread : InLibrary(t)
        \/ CreateContext \/ DaemonOther \/ MainOther
    BY <1>1, PhaseFacts, Zenon DEF Next, Daemon, Main, DaemonOther, MainOther
  <2> QED
    BY <2>1, ServiceTransfer, WriteTransfer, ReportTransfer, DaemonTransfer, MainTransfer, Zenon
<1>2. CASE UNCHANGED vars
  <2>1. UNCHANGED <<mWsContext, conn, at, text, mWsBuffer, frame>>
    BY <1>2 DEF vars, handler, sending, wire
  <2>2. UNCHANGED <<wantsWrite, offered, crossed, overtaken>>
    BY <1>2, Zenon DEF vars, sending, wire
  <2>3. D' = D /\ M' = M
    BY <2>1 DEF D, M
  <2>4. BufferInv'
    BY <2>1, <2>3 DEF Transfer, BufferInv
  <2>5. FrameInv' /\ WantsInv' /\ OfferedInv'
    BY <2>1, <2>2, <2>3, Zenon DEF Transfer, FrameInv, WantsInv, OfferedInv
  <2> QED BY <2>4, <2>5, Zenon DEF Transfer
<1> QED BY <1>1, <1>2

(* With a socket that can be written: the flag sendText decides by says     *)
(* that the connection is open or its end is being reported, and a frame is *)
(* a whole text.                                                            *)
THEOREM AlwaysConsistent == ASSUME ~SocketBlocks PROVE Spec => []Consistent
<1>1. Init => Transfer
  BY InitRest
<1>2. HandlerInv /\ Transfer /\ [Next]_vars => Transfer'
  BY TransferStep
<1>3. HandlerInv /\ Transfer => Consistent
  <2> SUFFICES ASSUME HandlerInv, Transfer PROVE Consistent
    OBVIOUS
  <2>1. TypeOK
    <3>1. {wantsWrite, offered, crossed, overtaken} \subseteq BOOLEAN
      BY Zenon DEF HandlerInv, DataOK
    <3> QED BY <3>1, Zenon DEF HandlerInv, IInv, Places, DataOK, TypeOK, D, M
  <2>2. GoodMeansOpen
    <3>1. SUFFICES ASSUME mIsGood, ~crossed
                   PROVE  \/ conn[mWsContext] = "open" /\ mWsStatus = "connected"
                          \/ \E t \in Thread : at[t] \in Ending
      BY Zenon DEF GoodMeansOpen
    <3>2. GoodWith(D, M, conn[mWsContext], mWsStatus)
      BY <3>1, Zenon DEF HandlerInv, CallInv, GoodAgrees
    <3> QED BY <3>2, PhaseFacts DEF GoodWith, Held, Ending, D, M
  <2>3. FrameIsWhole
    BY Zenon DEF Transfer, FrameInv, FrameIsWhole
  <2> QED BY <2>1, <2>2, <2>3 DEF Consistent
<1> QED
  BY <1>1, <1>2, <1>3, HandlerInvHolds, PTL DEF Spec

(* With a socket that can be written, a sendText that found mIsGood TRUE    *)
(* returns true only when libwebsocket_write has its whole text or is just  *)
(* getting it, or the daemon is reporting the end of the connection; until  *)
(* connectServer begins during a sendText (websocket_handler.cpp 235-250).  *)
THEOREM TrueIsOffered == ASSUME ~SocketBlocks PROVE Spec => TrueMeansOffered
<1> DEFINE Kept == at["main"] = "result" /\ at'["main"] = "idle" /\ mIsGood /\ ~crossed =>
                       offered \/ at["daemon"] \in Ending \cup {"write"}
<1>1. Init => Transfer
  BY InitRest
<1>2. HandlerInv /\ Transfer /\ [Next]_vars => Transfer'
  BY TransferStep
<1>3. HandlerInv /\ Transfer => [Kept]_vars
  <2> SUFFICES ASSUME HandlerInv, Transfer, M = "result", mIsGood, ~crossed
               PROVE  offered \/ D \in Ending \cup {"write"}
    BY Zenon DEF D, M
  <2>1. GoodWith(D, M, conn[mWsContext], mWsStatus)
    BY Zenon DEF HandlerInv, CallInv, GoodAgrees
  <2>2. M # "touch" /\ M \notin {"idle", "skipped", "copy1", "copy2", "request", "write"}
    OBVIOUS
  <2>3. ~wantsWrite
    BY <2>2, Zenon DEF Transfer, WantsInv
  <2>4. offered \/ D = "write" \/ conn[mWsContext] # "open"
    BY <2>2, <2>3, Zenon DEF Transfer, OfferedInv
  <2>5. conn[mWsContext] # "open" => D \in Ending
    BY <2>1 DEF GoodWith, Held, Ending
  <2>6. D = "write" => D \in Ending \cup {"write"}
    OBVIOUS
  <2>7. D \in Ending => D \in Ending \cup {"write"}
    OBVIOUS
  <2> QED BY <2>4, <2>5, <2>6, <2>7, Zenon
<1>4. TrueMeansOffered <=> [][Kept]_vars
  BY DEF TrueMeansOffered
<1> QED
  BY <1>1, <1>2, <1>3, <1>4, HandlerInvHolds, PTL DEF Spec

(* Side by side, each end behaves as it does alone: what is proved of Spec  *)
(* without its fairness, and of ServerSpec, holds of WebSpec.               *)
THEOREM EachEndAlone == WebSpec => Init /\ [][Next]_vars /\ ServerSpec
<1>1. WebInit => Init /\ ServerInit
  BY DEF WebInit
<1>2. [WebNext]_webVars => [Next]_vars /\ [ServerNext]_serverVars
  BY Zenon DEF WebNext, DaemonMoves, MainMoves, ServerMoves, webVars, Next
<1> QED
  BY <1>1, <1>2, PTL DEF WebSpec, ServerSpec

-----------------------------------------------------------------------------
(* The server.                                                              *)

(* And a bounded one has a greatest.                                        *)
LEMMA GreatestElement ==
    ASSUME NEW n \in Nat, NEW T \in SUBSET (1 .. n), T # {}
    PROVE  \E x \in T : \A y \in T : y <= x
  <1> DEFINE Flip == {k \in Nat : k <= n /\ n - k \in T}
  <1>1. Flip \in SUBSET Nat
    OBVIOUS
  <1>2. Flip # {}
    <2>1. PICK x \in T : TRUE
      OBVIOUS
    <2>2. x \in 1 .. n
      BY <2>1
    <2>3. n - x \in Nat /\ n - x <= n /\ n - (n - x) = x
      BY <2>2
    <2> QED BY <2>1, <2>3
  <1>3. PICK k \in Flip : \A j \in Flip : k <= j
    <2> HIDE DEF Flip
    <2> QED BY <1>1, <1>2, LeastElement
  <1>4. k \in Nat /\ k <= n /\ n - k \in T
    BY <1>3
  <1>5. ASSUME NEW y \in T PROVE y <= n - k
    <2>1. y \in 1 .. n
      OBVIOUS
    <2>2. n - y \in Nat /\ n - y <= n /\ n - (n - y) = y
      BY <2>1
    <2>3. n - y \in Flip
      BY <2>2
    <2>4. k <= n - y
      BY <1>3, <2>3
    <2> QED BY <1>4, <2>1, <2>2, <2>4
  <1> QED BY <1>4, <1>5

(* An element in front of a sequence.                                       *)
LEMMA InFront ==
    ASSUME NEW S, NEW c \in S, NEW s \in Seq(S)
    PROVE  /\ <<c>> \o s \in Seq(S) /\ Len(<<c>> \o s) = Len(s) + 1
           /\ (<<c>> \o s)[1] = c
           /\ \A i \in 1 .. Len(s) : (<<c>> \o s)[i + 1] = s[i]
  <1>1. PICK f \in Seq(S) : f = <<c>> /\ Len(f) = 1 /\ f[1] = c
    <2>1. <<c>> \in Seq(S) /\ Len(<<c>>) = 1 /\ <<c>>[1] = c
      OBVIOUS
    <2> QED BY <2>1
  <1>2. PICK n \in Nat : n = Len(s)
    OBVIOUS
  <1>3. /\ f \o s \in Seq(S) /\ Len(f \o s) = 1 + n
        /\ \A i \in 1 .. 1 + n : (f \o s)[i] = IF i <= 1 THEN f[i] ELSE s[i - 1]
    BY <1>1, <1>2, ConcatProperties
  <1>4. ASSUME NEW i \in 1 .. n
        PROVE  (f \o s)[i + 1] = s[i]
    <2>1. i + 1 \in 1 .. 1 + n /\ ~(i + 1 <= 1) /\ (i + 1) - 1 = i
      OBVIOUS
    <2> QED BY <1>3, <2>1
  <1>5. 1 \in 1 .. 1 + n /\ 1 + n = n + 1
    OBVIOUS
  <1> QED BY <1>1, <1>2, <1>3, <1>4, <1>5

-----------------------------------------------------------------------------
(* The links, whoever has left: forward to later clients, back to earlier   *)
(* ones, and none of a client that has not come yet.                        *)
LinksKeepOrder ==
    /\ \A c \in Client : nextClient[c] # Undefined => nextClient[c] > c
    /\ \A c \in Client : previousClient[c] # Undefined => previousClient[c] < c
    /\ \A c \in Client : c > count =>
          nextClient[c] = Undefined /\ previousClient[c] = Undefined

\* From here on nextClient leads to the next connected client, or to none.
LeadsOn(c) ==
    IF nextClient[c] = Undefined
      THEN \A d \in connected : d <= c
      ELSE /\ nextClient[c] \in connected
           /\ \A d \in connected : d > c => nextClient[c] <= d

LeadsBack(c) ==
    IF previousClient[c] = Undefined
      THEN \A d \in connected : c <= d
      ELSE /\ previousClient[c] \in connected
           /\ \A d \in connected : d < c => d <= previousClient[c]

Chained ==
    /\ connected = {} => firstClient = Undefined
    /\ connected # {} => firstClient \in connected /\ \A d \in connected : firstClient <= d
    /\ \A c \in connected : LeadsOn(c) /\ LeadsBack(c)

ListInv ==
    /\ ServerTypeOK
    /\ LinksKeepOrder
    /\ innerLeft \in BOOLEAN
    /\ ~innerLeft => Chained

(* The equation of a walk, for the clients behind k.                        *)
WalkOf(w, k) ==
    w = [c \in (k + 1) .. MaxClients |->
            IF nextClient[c] = Undefined THEN <<c>> ELSE <<c>> \o w[nextClient[c]]]

LEMMA WalkBack ==
    ASSUME ListInv, NEW k \in Nat, k + 1 <= MaxClients, NEW w, WalkOf(w, k + 1)
    PROVE  \E v : WalkOf(v, k)
  <1>1. PICK m \in Nat : m = MaxClients
    BY ServerAssumption
  <1>2. ASSUME NEW c \in (k + 1) .. m, nextClient[c] # Undefined
        PROVE  nextClient[c] \in (k + 2) .. m
    <2>1. c \in Client /\ nextClient[c] \in 0 .. count /\ count \in 0 .. m
      BY <1>1, <1>2 DEF ListInv, ServerTypeOK, Client
    <2>2. nextClient[c] > c
      BY <1>2, <2>1 DEF ListInv, LinksKeepOrder
    <2> QED BY <1>1, <2>1, <2>2
  <1> DEFINE v == [c \in (k + 1) .. m |->
                     IF c = k + 1
                       THEN IF nextClient[c] = Undefined THEN <<c>>
                            ELSE <<c>> \o w[nextClient[c]]
                       ELSE w[c]]
  <1>3. w = [c \in (k + 2) .. m |->
                IF nextClient[c] = Undefined THEN <<c>> ELSE <<c>> \o w[nextClient[c]]]
    <2>1. (k + 1) + 1 = k + 2
      OBVIOUS
    <2> QED BY <1>1, <2>1 DEF WalkOf
  <1>4. \A d \in (k + 2) .. m : v[d] = w[d] /\ d \in (k + 1) .. m
    OBVIOUS
  <1>5. ASSUME NEW c \in (k + 1) .. m
        PROVE  v[c] = IF nextClient[c] = Undefined THEN <<c>> ELSE <<c>> \o v[nextClient[c]]
    <2>1. nextClient[c] # Undefined => v[nextClient[c]] = w[nextClient[c]]
      BY <1>2, <1>4
    <2>2. CASE c = k + 1
      BY <2>1, <2>2
    <2>3. CASE c # k + 1
      <3>1. c \in (k + 2) .. m
        BY <2>3
      <3>2. v[c] = w[c]
        BY <1>4, <3>1
      <3>3. w[c] = IF nextClient[c] = Undefined THEN <<c>> ELSE <<c>> \o w[nextClient[c]]
        BY <1>3, <3>1
      <3> QED BY <2>1, <3>2, <3>3
    <2> QED BY <2>2, <2>3
  <1>6. v = [c \in (k + 1) .. m |-> v[c]]
    OBVIOUS
  <1> HIDE DEF v
  <1>7. v = [c \in (k + 1) .. m |->
                IF nextClient[c] = Undefined THEN <<c>> ELSE <<c>> \o v[nextClient[c]]]
    BY <1>5, <1>6
  <1>8. WalkOf(v, k)
    BY <1>1, <1>7 DEF WalkOf
  <1> QED BY <1>8

(* As the links lead forward, a walk comes to an end.                       *)
LEMMA WalkEnds ==
    ASSUME ListInv
    PROVE  \A c \in Client :
              WalkFrom[c] = IF nextClient[c] = Undefined THEN <<c>>
                            ELSE <<c>> \o WalkFrom[nextClient[c]]
  <1>1. PICK m \in Nat : m = MaxClients
    BY ServerAssumption
  <1> DEFINE T == {k \in Nat : k <= m /\ \E w : WalkOf(w, k)}
  <1>2. m \in T
    <2>1. (m + 1) .. m = {}
      OBVIOUS
    <2>2. WalkOf([c \in {} |-> 0], m)
      BY <1>1, <2>1 DEF WalkOf
    <2> QED BY <2>2
  <1>3. PICK k \in T : \A j \in T : k <= j
    <2>1. T \in SUBSET Nat /\ T # {}
      BY <1>2
    <2> HIDE DEF T
    <2> QED BY <2>1, LeastElement
  <1>4. k = 0
    <2> SUFFICES ASSUME k # 0 PROVE FALSE
      OBVIOUS
    <2>1. PICK j \in Nat : k = j + 1
      <3>1. k \in Nat /\ k # 0
        BY <1>3
      <3>2. k - 1 \in Nat /\ k = (k - 1) + 1
        BY <3>1
      <3> QED BY <3>2
    <2>2. PICK w : WalkOf(w, j + 1)
      BY <1>3, <2>1
    <2>3. \E v : WalkOf(v, j)
      BY <1>1, <1>3, <2>1, <2>2, WalkBack
    <2>4. j \in T
      BY <1>3, <2>1, <2>3
    <2> QED BY <1>3, <2>1, <2>4
  <1>5. PICK w : WalkOf(w, 0)
    BY <1>3, <1>4
  <1>6. w = [c \in Client |->
                IF nextClient[c] = Undefined THEN <<c>> ELSE <<c>> \o w[nextClient[c]]]
    <2>1. 0 + 1 = 1
      OBVIOUS
    <2>2. w = [c \in (0 + 1) .. MaxClients |->
                IF nextClient[c] = Undefined THEN <<c>> ELSE <<c>> \o w[nextClient[c]]]
      BY <1>5 DEF WalkOf
    <2> QED BY <2>1, <2>2, Zenon DEF Client
  <1>7. WalkFrom = [c \in Client |->
                IF nextClient[c] = Undefined THEN <<c>> ELSE <<c>> \o WalkFrom[nextClient[c]]]
    BY <1>6, Zenon DEF WalkFrom
  <1> QED BY <1>7

LastOf(s) == s[Len(s)]

(* Every client of a walk has connected, and the last one has nobody behind. *)
LEMMA WalkIsOfClients ==
    ASSUME ListInv
    PROVE  \A c \in 1 .. count :
              /\ WalkFrom[c] \in Seq(1 .. count) /\ Len(WalkFrom[c]) > 0
              /\ LastOf(WalkFrom[c]) \in 1 .. count
              /\ nextClient[LastOf(WalkFrom[c])] = Undefined
  <1>1. PICK n \in Nat : n = count /\ 1 .. n \subseteq Client
    BY ServerAssumption DEF ListInv, ServerTypeOK, Client
  <1> DEFINE Good(c) == /\ WalkFrom[c] \in Seq(1 .. n) /\ Len(WalkFrom[c]) > 0
                        /\ LastOf(WalkFrom[c]) \in 1 .. n
                        /\ nextClient[LastOf(WalkFrom[c])] = Undefined
             Bad == {c \in 1 .. n : ~Good(c)}
  <1>2. ASSUME NEW c \in 1 .. n, \A d \in 1 .. n : d > c => Good(d)
        PROVE  Good(c)
    <2>1. WalkFrom[c] = IF nextClient[c] = Undefined THEN <<c>>
                        ELSE <<c>> \o WalkFrom[nextClient[c]]
      BY <1>1, WalkEnds
    <2>2. CASE nextClient[c] = Undefined
      <3>1. <<c>> \in Seq(1 .. n) /\ Len(<<c>>) = 1 /\ <<c>>[1] = c
        OBVIOUS
      <3> QED BY <2>1, <2>2, <3>1 DEF LastOf
    <2>3. CASE nextClient[c] # Undefined
      <3>1. PICK d \in 1 .. n : d = nextClient[c] /\ d > c
        BY <1>1, <2>3 DEF ListInv, ServerTypeOK, LinksKeepOrder, Undefined
      <3>2. Good(d)
        BY <1>2, <3>1
      <3>3. PICK s \in Seq(1 .. n), k \in Nat : s = WalkFrom[d] /\ k = Len(s) /\ k > 0
        BY <3>2
      <3>4. WalkFrom[c] = <<c>> \o s
        BY <2>1, <2>3, <3>1, <3>3
      <3>5. /\ WalkFrom[c] \in Seq(1 .. n) /\ Len(WalkFrom[c]) = k + 1
            /\ WalkFrom[c][k + 1] = s[k]
        BY <3>3, <3>4, InFront
      <3>6. LastOf(WalkFrom[c]) = LastOf(WalkFrom[d])
        BY <3>3, <3>5 DEF LastOf
      <3> QED BY <3>2, <3>3, <3>5, <3>6
    <2> QED BY <2>2, <2>3
  <1>3. Bad = {}
    <2> SUFFICES ASSUME Bad # {} PROVE FALSE
      OBVIOUS
    <2>1. PICK c \in Bad : \A d \in Bad : d <= c
      <3>1. Bad \in SUBSET (1 .. n)
        OBVIOUS
      <3> HIDE DEF Bad
      <3> QED BY <3>1, GreatestElement
    <2>2. c \in 1 .. n /\ ~Good(c)
      BY <2>1
    <2>3. ASSUME NEW d \in 1 .. n, d > c PROVE Good(d)
      <3>1. ~(d <= c)
        BY <2>2, <2>3
      <3> QED BY <2>1, <3>1
    <2> QED BY <1>2, <2>2, <2>3
  <1> QED BY <1>1, <1>3

Behind(c) == {d \in connected : c <= d}

ElementsOf(s) == {s[i] : i \in 1 .. Len(s)}

LEMMA BehindIsFinite ==
    ASSUME ListInv, NEW c
    PROVE  IsFiniteSet(connected) /\ IsFiniteSet(Behind(c))
  <1>1. PICK n \in Nat : n = count /\ connected \subseteq 1 .. n
    BY ServerAssumption DEF ListInv, ServerTypeOK
  <1>2. IsFiniteSet(1 .. n)
    BY FS_Interval
  <1>3. Behind(c) \subseteq connected
    BY DEF Behind
  <1> QED BY <1>1, <1>2, <1>3, FS_Subset

(* While the list is whole, a walk meets the connected clients from its     *)
(* start on, each once.                                                     *)
LEMMA WalkMeetsConnected ==
    ASSUME ListInv, ~innerLeft
    PROVE  \A c \in connected :
              /\ ElementsOf(WalkFrom[c]) = Behind(c)
              /\ Len(WalkFrom[c]) = Cardinality(Behind(c))
  <1>1. PICK n \in Nat : n = count /\ 1 .. n \subseteq Client /\ connected \subseteq 1 .. n
    BY ServerAssumption DEF ListInv, ServerTypeOK, Client
  <1> DEFINE Good(c) == /\ ElementsOf(WalkFrom[c]) = Behind(c)
                        /\ Len(WalkFrom[c]) = Cardinality(Behind(c))
             Bad == {c \in connected : ~Good(c)}
  <1>2. ASSUME NEW c \in connected, \A d \in connected : d > c => Good(d)
        PROVE  Good(c)
    <2>1. /\ c \in 1 .. n
          /\ WalkFrom[c] = IF nextClient[c] = Undefined THEN <<c>>
                           ELSE <<c>> \o WalkFrom[nextClient[c]]
      BY <1>1, WalkEnds
    <2>2. LeadsOn(c)
      BY DEF ListInv, Chained
    <2>3. CASE nextClient[c] = Undefined
      <3>1. PICK s \in Seq(1 .. n) : s = <<c>> /\ Len(s) = 1 /\ s[1] = c
        <4>1. <<c>> \in Seq(1 .. n) /\ Len(<<c>>) = 1 /\ <<c>>[1] = c
          BY <2>1
        <4> QED BY <4>1
      <3>2. ElementsOf(s) = {c}
        <4>1. \A i \in 1 .. 1 : i = 1
          OBVIOUS
        <4>2. 1 \in 1 .. 1
          OBVIOUS
        <4> QED BY <3>1, <4>1, <4>2 DEF ElementsOf
      <3>3. Behind(c) = {c}
        <4>1. \A d \in connected : d <= c
          BY <2>2, <2>3 DEF LeadsOn
        <4>2. ASSUME NEW d \in connected, c <= d PROVE d = c
          <5>1. d \in 1 .. n /\ d <= c
            BY <1>1, <4>1
          <5> QED BY <2>1, <4>2, <5>1
        <4>3. c <= c
          BY <2>1
        <4> QED BY <4>2, <4>3 DEF Behind
      <3>4. Cardinality({c}) = 1
        BY FS_Singleton
      <3> QED BY <2>1, <2>3, <3>1, <3>2, <3>3, <3>4
    <2>4. CASE nextClient[c] # Undefined
      <3>1. PICK d \in 1 .. n : /\ d = nextClient[c] /\ d > c /\ d \in connected
                                /\ \A e \in connected : e > c => d <= e
        BY <1>1, <2>1, <2>2, <2>4
        DEF ListInv, ServerTypeOK, LinksKeepOrder, Undefined, LeadsOn
      <3>2. Good(d)
        BY <1>2, <3>1
      <3>3. PICK s \in Seq(1 .. n), k \in Nat : s = WalkFrom[d] /\ k = Len(s)
        <4>1. WalkFrom[d] \in Seq(1 .. n)
          BY <1>1, <3>1, WalkIsOfClients
        <4>2. Len(WalkFrom[d]) \in Nat
          BY <4>1, LenProperties
        <4> QED BY <4>1, <4>2
      <3>4. WalkFrom[c] = <<c>> \o s
        BY <2>1, <2>4, <3>1, <3>3
      <3>5. PICK t \in Seq(1 .. n) : /\ t = WalkFrom[c] /\ Len(t) = k + 1 /\ t[1] = c
                                     /\ \A i \in 1 .. k : t[i + 1] = s[i]
        <4>1. /\ <<c>> \o s \in Seq(1 .. n) /\ Len(<<c>> \o s) = k + 1
              /\ (<<c>> \o s)[1] = c
              /\ \A i \in 1 .. k : (<<c>> \o s)[i + 1] = s[i]
          BY <2>1, <3>3, InFront
        <4> QED BY <3>4, <4>1
      <3>6. ElementsOf(t) = {c} \cup ElementsOf(s)
        <4>1. ASSUME NEW i \in 1 .. k + 1
              PROVE  t[i] \in {c} \cup ElementsOf(s)
          <5>1. CASE i = 1
            BY <3>5, <5>1
          <5>2. CASE i # 1
            <6>1. PICK j \in 1 .. k : i = j + 1
              <7>1. i - 1 \in 1 .. k /\ i = (i - 1) + 1
                BY <5>2
              <7> QED BY <7>1
            <6> QED BY <3>3, <3>5, <6>1 DEF ElementsOf
          <5> QED BY <5>1, <5>2
        <4>2. ASSUME NEW j \in 1 .. k
              PROVE  s[j] \in ElementsOf(t)
          <5>1. j + 1 \in 1 .. k + 1 /\ t[j + 1] = s[j]
            BY <3>5
          <5> QED BY <3>5, <5>1 DEF ElementsOf
        <4>3. c \in ElementsOf(t)
          <5>1. 1 \in 1 .. k + 1
            OBVIOUS
          <5> QED BY <3>5, <5>1 DEF ElementsOf
        <4>4. ElementsOf(t) \subseteq {c} \cup ElementsOf(s)
          BY <3>5, <4>1 DEF ElementsOf
        <4>5. ElementsOf(s) \subseteq ElementsOf(t)
          <5>1. \A x \in ElementsOf(s) : \E j \in 1 .. k : x = s[j]
            BY <3>3 DEF ElementsOf
          <5> QED BY <4>2, <5>1
        <4> QED BY <4>3, <4>4, <4>5, Zenon
      <3>7. Behind(c) = {c} \cup Behind(d)
        <4>1. ASSUME NEW e \in connected PROVE c <= e <=> (e = c \/ d <= e)
          <5>1. e \in 1 .. n /\ (e > c => d <= e)
            BY <1>1, <3>1
          <5> QED BY <2>1, <3>1, <5>1
        <4> QED BY <4>1 DEF Behind
      <3>8. c \notin Behind(d)
        <4>1. ~(d <= c)
          BY <2>1, <3>1
        <4> QED BY <4>1 DEF Behind
      <3>9. Cardinality(Behind(c)) = Cardinality(Behind(d)) + 1
        <4>1. IsFiniteSet(Behind(d))
          BY BehindIsFinite
        <4>2. Behind(c) = Behind(d) \cup {c}
          BY <3>7, Zenon
        <4>3. Cardinality(Behind(d) \cup {c}) = Cardinality(Behind(d)) + 1
          <5> HIDE DEF Behind
          <5> QED BY <3>8, <4>1, FS_AddElement
        <4> QED BY <4>2, <4>3, Zenon
      <3> QED BY <3>2, <3>3, <3>5, <3>6, <3>7, <3>9
    <2> QED BY <2>3, <2>4
  <1>3. Bad = {}
    <2> SUFFICES ASSUME Bad # {} PROVE FALSE
      OBVIOUS
    <2>1. PICK c \in Bad : \A d \in Bad : d <= c
      <3>1. Bad \in SUBSET (1 .. n)
        BY <1>1
      <3> HIDE DEF Bad
      <3> QED BY <3>1, GreatestElement
    <2>2. c \in connected /\ ~Good(c)
      BY <2>1
    <2>3. ASSUME NEW d \in connected, d > c PROVE Good(d)
      <3>1. d \in 1 .. n /\ c \in 1 .. n
        BY <1>1, <2>2
      <3>2. ~(d <= c)
        BY <2>3, <3>1
      <3> QED BY <2>1, <3>2
    <2> QED BY <1>2, <2>2, <2>3
  <1> QED BY <1>3

(* So a text goes to exactly the connected clients.                         *)
LEMMA EmitMeetsConnected ==
    ASSUME ListInv
    PROVE  EmitsToConnected /\ TrivialEmitData \in Seq(Client)
  <1>1. PICK n \in Nat : /\ n = count /\ 1 .. n \subseteq Client /\ connected \subseteq 1 .. n
                         /\ firstClient \in 0 .. n
    BY ServerAssumption DEF ListInv, ServerTypeOK, Client
  <1>2. TrivialEmitData \in Seq(Client)
    <2>1. CASE firstClient = Undefined
      BY <2>1 DEF TrivialEmitData
    <2>2. CASE firstClient # Undefined
      <3>1. firstClient \in 1 .. n
        BY <1>1, <2>2 DEF Undefined
      <3>2. WalkFrom[firstClient] \in Seq(1 .. n)
        BY <1>1, <3>1, WalkIsOfClients
      <3>3. WalkFrom[firstClient] \in Seq(Client)
        BY <1>1, <3>2, SeqMonotonic
      <3> QED BY <2>2, <3>3 DEF TrivialEmitData
    <2> QED BY <2>1, <2>2
  <1>3. DOMAIN TrivialEmitData = 1 .. Len(TrivialEmitData)
    BY <1>2, LenProperties
  <1>4. ASSUME ~innerLeft
        PROVE  /\ ElementsOf(TrivialEmitData) = connected
               /\ Len(TrivialEmitData) = Cardinality(connected)
    <2>1. CASE connected = {}
      <3>1. TrivialEmitData = <<>>
        BY <1>4, <2>1 DEF ListInv, Chained, TrivialEmitData
      <3>2. Len(<<>>) = 0 /\ 1 .. 0 = {} /\ Cardinality({}) = 0
        BY FS_EmptySet
      <3> QED BY <2>1, <3>1, <3>2 DEF ElementsOf
    <2>2. CASE connected # {}
      <3>1. firstClient \in connected /\ \A d \in connected : firstClient <= d
        BY <1>4, <2>2 DEF ListInv, Chained
      <3>2. firstClient # Undefined
        <4>1. firstClient \in 1 .. n
          BY <1>1, <3>1
        <4> QED BY <4>1 DEF Undefined
      <3>3. Behind(firstClient) = connected
        BY <3>1 DEF Behind
      <3> QED BY <1>4, <3>1, <3>2, <3>3, WalkMeetsConnected DEF TrivialEmitData
    <2> QED BY <2>1, <2>2
  <1>5. EmitsToConnected
    BY <1>3, <1>4 DEF EmitsToConnected, ElementsOf
  <1> QED BY <1>2, <1>5

(* A client connects: it goes behind the last one.                          *)
LEMMA ConnectKeeps ==
    ASSUME ListInv, Connect
    PROVE  ListInv'
  <1>1. PICK m \in Nat, n \in Nat :
            /\ m = MaxClients /\ n = count /\ n < m /\ count' = n + 1
            /\ connected \subseteq 1 .. n /\ firstClient \in 0 .. n
            /\ nextClient \in [1 .. m -> 0 .. n] /\ previousClient \in [1 .. m -> 0 .. n]
    BY ServerAssumption DEF Connect, ListInv, ServerTypeOK, Client
  <1>2. /\ connected' = connected \cup {n + 1} /\ innerLeft' = innerLeft
        /\ n + 1 \in 1 .. m /\ n + 1 \in 0 .. m /\ 0 .. n \subseteq 0 .. n + 1
    BY <1>1 DEF Connect
  <1>3. /\ nextClient[n + 1] = 0 /\ previousClient[n + 1] = 0
        /\ \A c \in 1 .. m : nextClient[c] # 0 => nextClient[c] > c
        /\ \A c \in 1 .. m : previousClient[c] # 0 => previousClient[c] < c
        /\ \A c \in 1 .. m : c > n => nextClient[c] = 0 /\ previousClient[c] = 0
    BY <1>1, <1>2 DEF ListInv, LinksKeepOrder, Undefined, Client
  <1>4. /\ opened' = opened /\ open' = open /\ serverConnection' = serverConnection
        /\ emitted' = emitted
    BY DEF Connect, hostVars
  <1>5. \A d \in connected : d \in 1 .. n /\ d <= n + 1 /\ d # n + 1
    BY <1>1
  <1>6. CASE firstClient = 0
    <2>1. firstClient' = n + 1 /\ nextClient' = nextClient
          /\ previousClient' = previousClient
      BY <1>1, <1>6 DEF Connect, Undefined
    <2>2. ServerTypeOK'
      BY <1>1, <1>2, <1>4, <2>1 DEF ListInv, ServerTypeOK, Client
    <2>3. LinksKeepOrder'
      BY <1>1, <1>3, <2>1 DEF LinksKeepOrder, Undefined, Client
    <2>4. ~innerLeft => Chained'
      <3> SUFFICES ASSUME ~innerLeft PROVE Chained'
        OBVIOUS
      <3>1. connected = {}
        <4>1. ASSUME connected # {} PROVE FALSE
          <5>1. firstClient \in connected
            BY <4>1 DEF ListInv, Chained
          <5> QED BY <1>5, <1>6, <5>1
        <4> QED BY <4>1
      <3>2. connected' = {n + 1} /\ n + 1 <= n + 1
        BY <1>1, <1>2, <3>1
      <3> QED BY <1>3, <2>1, <3>2 DEF Chained, LeadsOn, LeadsBack, Undefined
    <2> QED BY <1>2, <2>2, <2>3, <2>4 DEF ListInv
  <1>7. CASE firstClient # 0
    <2>1. PICK e \in 1 .. n :
              /\ e = LastOf(WalkFrom[firstClient]) /\ nextClient[e] = 0
              /\ ~innerLeft => e \in connected
      <3>1. firstClient \in 1 .. n
        BY <1>1, <1>7
      <3>2. /\ LastOf(WalkFrom[firstClient]) \in 1 .. n
            /\ nextClient[LastOf(WalkFrom[firstClient])] = 0
            /\ WalkFrom[firstClient] \in Seq(1 .. n) /\ Len(WalkFrom[firstClient]) > 0
        BY <1>1, <3>1, WalkIsOfClients DEF Undefined
      <3>3. ASSUME ~innerLeft PROVE LastOf(WalkFrom[firstClient]) \in connected
        <4>1. firstClient \in connected
          BY <1>7, <3>3 DEF ListInv, Chained, Undefined
        <4>2. ElementsOf(WalkFrom[firstClient]) = Behind(firstClient)
          BY <3>3, <4>1, WalkMeetsConnected
        <4>3. Len(WalkFrom[firstClient]) \in 1 .. Len(WalkFrom[firstClient])
          BY <3>2
        <4> QED BY <4>2, <4>3 DEF ElementsOf, Behind, LastOf
      <3> QED BY <3>2, <3>3
    <2>2. /\ firstClient' = firstClient
          /\ nextClient' = [nextClient EXCEPT ![e] = n + 1]
          /\ previousClient' = [previousClient EXCEPT ![n + 1] = e]
      BY <1>1, <1>7, <2>1, Zenon DEF Connect, Undefined, LastOf
    <2>3. e \in 1 .. m /\ e # n + 1 /\ e \in 0 .. n + 1 /\ n + 1 \in 0 .. n + 1 /\ e < n + 1
      BY <1>1
    <2>4. \A c \in 1 .. m : /\ nextClient'[c] = IF c = e THEN n + 1 ELSE nextClient[c]
                            /\ previousClient'[c] = IF c = n + 1 THEN e ELSE previousClient[c]
      BY <1>1, <1>2, <2>2, <2>3
    <2>5. /\ nextClient' \in [1 .. m -> 0 .. n + 1]
          /\ previousClient' \in [1 .. m -> 0 .. n + 1]
      BY <1>1, <1>2, <2>2, <2>3
    <2>6. ServerTypeOK'
      <3>1. firstClient' \in 0 .. n + 1 /\ connected' \subseteq 1 .. n + 1
        BY <1>1, <1>2, <2>2
      <3>2. count' \in 0 .. m
        BY <1>1, <1>2
      <3> QED BY <1>1, <1>4, <2>5, <3>1, <3>2 DEF ListInv, ServerTypeOK, Client
    <2>7. LinksKeepOrder'
      <3>1. ASSUME NEW c \in 1 .. m
            PROVE  /\ nextClient'[c] # 0 => nextClient'[c] > c
                   /\ previousClient'[c] # 0 => previousClient'[c] < c
                   /\ c > n + 1 => nextClient'[c] = 0 /\ previousClient'[c] = 0
        <4>1. c > n + 1 => c > n /\ c # e /\ c # n + 1
          BY <2>3
        <4> QED BY <1>3, <2>3, <2>4, <4>1
      <3> QED BY <1>1, <3>1 DEF LinksKeepOrder, Undefined, Client
    <2>8. ~innerLeft => Chained'
      <3> SUFFICES ASSUME ~innerLeft PROVE Chained'
        OBVIOUS
      <3>1. e \in connected /\ LeadsOn(e)
        BY <2>1 DEF ListInv, Chained
      <3>2. \A d \in connected : d <= e
        BY <2>1, <3>1 DEF LeadsOn, Undefined
      <3>3. firstClient \in connected /\ \A d \in connected : firstClient <= d
        BY <3>1 DEF ListInv, Chained
      <3>4. ASSUME NEW c \in connected
            PROVE  LeadsOn(c)' /\ LeadsBack(c)'
        <4>1. /\ c \in 1 .. n /\ c # n + 1 /\ c \in 1 .. m /\ LeadsOn(c) /\ LeadsBack(c)
              /\ c <= n + 1 /\ ~(n + 1 < c)
          BY <1>1, <1>5 DEF ListInv, Chained
        <4>2. LeadsBack(c)'
          BY <1>2, <2>4, <4>1 DEF LeadsBack, Undefined
        <4>3. CASE c = e
          <5>1. nextClient'[c] = n + 1 /\ n + 1 # 0 /\ n + 1 <= n + 1
            BY <2>3, <2>4, <4>1, <4>3
          <5>2. ASSUME NEW d \in connected', d > c PROVE n + 1 <= d
            <6>1. d \in connected => d \in 1 .. n /\ d <= c
              BY <1>1, <3>2, <4>3
            <6>2. d \notin connected
              BY <4>1, <5>2, <6>1
            <6> QED BY <1>2, <5>1, <6>2
          <5> QED BY <1>2, <4>2, <5>1, <5>2 DEF LeadsOn, Undefined
        <4>4. CASE c # e
          <5>1. e \in 1 .. n /\ c <= e
            BY <3>2
          <5>2. c < e
            BY <4>1, <4>4, <5>1
          <5>3. nextClient[c] # 0
            BY <3>1, <4>1, <5>2 DEF LeadsOn, Undefined
          <5>4. nextClient[c] \in connected /\ nextClient[c] \in 1 .. n
            BY <1>1, <4>1, <5>3 DEF LeadsOn, Undefined
          <5>5. nextClient'[c] = nextClient[c] /\ nextClient[c] <= n + 1
            BY <2>4, <4>1, <4>4, <5>4
          <5>6. \A d \in connected' : d > c => nextClient[c] <= d
            BY <1>2, <4>1, <5>3, <5>5 DEF LeadsOn, Undefined
          <5> QED BY <1>2, <4>2, <5>3, <5>4, <5>5, <5>6 DEF LeadsOn, Undefined
        <4> QED BY <4>3, <4>4
      <3>5. LeadsOn(n + 1)' /\ LeadsBack(n + 1)'
        <4>1. nextClient'[n + 1] = 0 /\ previousClient'[n + 1] = e /\ e # 0
          BY <1>2, <1>3, <2>3, <2>4
        <4>2. \A d \in connected' : d <= n + 1 /\ (d < n + 1 => d <= e)
          BY <1>2, <1>5, <2>3, <3>2
        <4>3. e \in connected'
          BY <1>2, <3>1
        <4> QED BY <4>1, <4>2, <4>3 DEF LeadsOn, LeadsBack, Undefined
      <3>6. \A d \in connected' : firstClient <= d
        BY <1>2, <1>5, <3>3
      <3> QED BY <1>2, <2>2, <3>3, <3>4, <3>5, <3>6 DEF Chained
    <2> QED BY <1>2, <2>6, <2>7, <2>8 DEF ListInv
  <1> QED BY <1>6, <1>7

(* What a departure leaves of the types and of the order of the links.      *)
LEMMA LeaveKeepsOrder ==
    ASSUME ListInv, NEW c \in Client, c \in connected, Leave(c), ForgetPrevious(c),
           firstClient' \in {firstClient, nextClient[c]},
           \/ nextClient' = nextClient
           \/ /\ previousClient[c] # Undefined
              /\ nextClient' = [nextClient EXCEPT ![previousClient[c]] = nextClient[c]]
    PROVE  ServerTypeOK' /\ LinksKeepOrder' /\ innerLeft' \in BOOLEAN
  <1>1. PICK m \in Nat, n \in Nat :
            /\ m = MaxClients /\ n = count /\ n <= m /\ count' = n
            /\ connected \subseteq 1 .. n /\ firstClient \in 0 .. n
            /\ nextClient \in [1 .. m -> 0 .. n] /\ previousClient \in [1 .. m -> 0 .. n]
    BY ServerAssumption DEF Leave, ListInv, ServerTypeOK, Client
  <1>2. PICK p \in 0 .. n, x \in 0 .. n : p = previousClient[c] /\ x = nextClient[c]
    BY <1>1 DEF Client
  <1>3. /\ \A d \in 1 .. m : nextClient[d] # 0 => nextClient[d] > d
        /\ \A d \in 1 .. m : previousClient[d] # 0 => previousClient[d] < d
        /\ \A d \in 1 .. m : d > n => nextClient[d] = 0 /\ previousClient[d] = 0
    BY <1>1 DEF ListInv, LinksKeepOrder, Undefined, Client
  <1>4. 0 \in 0 .. n /\ c \in 1 .. m /\ c \in 1 .. n
    BY <1>1 DEF Client
  <1>5. /\ previousClient' \in [1 .. m -> 0 .. n]
        /\ \A d \in 1 .. m : previousClient'[d] \in {previousClient[d], 0}
    BY <1>1, <1>2, <1>4 DEF ForgetPrevious, Undefined
  <1>6. /\ nextClient' \in [1 .. m -> 0 .. n]
        /\ \A d \in 1 .. m : \/ nextClient'[d] = nextClient[d]
                             \/ p # 0 /\ d = p /\ nextClient'[d] = x
    BY <1>1, <1>2 DEF Undefined
  <1>7. /\ opened' = opened /\ open' = open /\ serverConnection' = serverConnection
        /\ emitted' = emitted /\ connected' \subseteq 1 .. n
        /\ firstClient' \in 0 .. n
    BY <1>1, <1>2 DEF Leave, hostVars
  <1>8. ServerTypeOK'
    BY <1>1, <1>5, <1>6, <1>7 DEF ListInv, ServerTypeOK, Client
  <1>9. LinksKeepOrder'
    <2>1. ASSUME NEW d \in 1 .. m
          PROVE  /\ nextClient'[d] # 0 => nextClient'[d] > d
                 /\ previousClient'[d] # 0 => previousClient'[d] < d
                 /\ d > n => nextClient'[d] = 0 /\ previousClient'[d] = 0
      <3>1. d > n => d # p
        BY <1>2
      <3>2. p # 0 /\ x # 0 => x > p
        <4>1. p # 0 => p < c
          BY <1>2, <1>3, <1>4
        <4>2. x # 0 => x > c
          BY <1>2, <1>3, <1>4
        <4> QED BY <1>4, <4>1, <4>2
      <3> QED BY <1>3, <1>5, <1>6, <3>1, <3>2
    <2> QED BY <1>1, <2>1 DEF LinksKeepOrder, Undefined, Client
  <1>10. innerLeft' \in BOOLEAN
    BY Zenon DEF Leave, ListInv
  <1> QED BY <1>8, <1>9, <1>10

(* The first client leaves: the next one is the first then.                 *)
LEMMA DisconnectFirstKeeps ==
    ASSUME ListInv, NEW c \in Client, DisconnectFirst(c)
    PROVE  ListInv'
  <1>1. ServerTypeOK' /\ LinksKeepOrder' /\ innerLeft' \in BOOLEAN
    BY LeaveKeepsOrder DEF DisconnectFirst
  <1>2. ASSUME ~innerLeft' PROVE Chained'
    <2>1. PICK n \in Nat :
              /\ n = count /\ connected \subseteq 1 .. n /\ 1 .. n \subseteq Client
              /\ previousClient \in [Client -> 0 .. n]
      BY ServerAssumption DEF ListInv, ServerTypeOK, Client
    <2>2. /\ ~innerLeft /\ Chained /\ c \in connected /\ previousClient[c] = 0
          /\ connected' = connected \ {c} /\ firstClient' = nextClient[c]
          /\ nextClient' = nextClient
      BY <1>2 DEF DisconnectFirst, Leave, ListInv, Undefined
    <2>3. LeadsOn(c) /\ LeadsBack(c)
      BY <2>2 DEF Chained
    <2>4. \A d \in connected : c <= d
      BY <2>2, <2>3 DEF LeadsBack, Undefined
    <2>5. \A d \in connected : nextClient[d] # 0 => nextClient[d] > d
      BY <2>1 DEF ListInv, LinksKeepOrder, Undefined
    <2>6. CASE nextClient[c] = 0
      <3>1. \A d \in connected : d <= c
        BY <2>3, <2>6 DEF LeadsOn, Undefined
      <3>2. \A d \in connected : d = c
        <4> TAKE d \in connected
        <4>1. d \in 1 .. n /\ c \in 1 .. n /\ d <= c /\ c <= d
          BY <2>1, <2>2, <2>4, <3>1
        <4> QED BY <4>1
      <3>3. connected' = {}
        BY <2>2, <3>2
      <3> QED BY <2>2, <2>6, <3>3 DEF Chained, Undefined
    <2>7. CASE nextClient[c] # 0
      <3>1. PICK x \in 1 .. n : /\ x = nextClient[c] /\ x \in connected /\ x > c
                                /\ \A d \in connected : d > c => x <= d
        BY <2>1, <2>2, <2>3, <2>5, <2>7 DEF LeadsOn, Undefined
      <3>2. previousClient' = [previousClient EXCEPT ![x] = 0]
        BY <2>7, <3>1 DEF DisconnectFirst, ForgetPrevious, Undefined
      <3>3. \A d \in connected : d = c \/ x <= d
        <4> TAKE d \in connected
        <4>1. d \in 1 .. n /\ c \in 1 .. n /\ c <= d
          BY <2>1, <2>2, <2>4
        <4> QED BY <3>1, <4>1
      <3>4. x # c /\ x \in connected'
        <4>1. c \in 1 .. n
          BY <2>1, <2>2
        <4> QED BY <2>2, <3>1, <4>1
      <3>5. ASSUME NEW d \in connected'
            PROVE  LeadsOn(d)' /\ LeadsBack(d)'
        <4>1. d \in connected /\ d # c /\ d \in 1 .. n /\ LeadsOn(d) /\ LeadsBack(d)
          BY <2>1, <2>2 DEF Chained
        <4>2. LeadsOn(d)'
          <5>1. nextClient[d] # 0 => nextClient[d] \in 1 .. n /\ nextClient[d] # c
            <6> SUFFICES ASSUME nextClient[d] # 0
                         PROVE  nextClient[d] \in 1 .. n /\ nextClient[d] # c
              OBVIOUS
            <6>1. PICK y \in 1 .. n : y = nextClient[d] /\ y > d
              BY <2>1, <2>5, <4>1 DEF LeadsOn, Undefined
            <6>2. c \in 1 .. n /\ c <= d
              BY <2>1, <2>2, <2>4, <4>1
            <6> QED BY <4>1, <6>1, <6>2
          <5> QED BY <2>2, <4>1, <5>1 DEF LeadsOn, Undefined
        <4>3. CASE d = x
          <5>1. previousClient'[d] = 0
            BY <2>1, <3>1, <3>2, <4>3
          <5>2. \A e \in connected' : d <= e
            BY <2>2, <3>3, <4>3
          <5> QED BY <4>2, <5>1, <5>2 DEF LeadsBack, Undefined
        <4>4. CASE d # x
          <5>1. previousClient'[d] = previousClient[d]
            BY <2>1, <3>1, <3>2, <4>1, <4>4
          <5>2. previousClient[d] # 0
            <6>1. ASSUME previousClient[d] = 0 PROVE FALSE
              <7>1. d <= c /\ c <= d /\ c \in 1 .. n
                BY <2>1, <2>2, <2>4, <4>1, <6>1 DEF LeadsBack, Undefined
              <7> QED BY <4>1, <7>1
            <6> QED BY <6>1
          <5>3. previousClient[d] # c
            <6>1. ASSUME previousClient[d] = c PROVE FALSE
              <7>1. x < d
                BY <3>3, <4>1, <4>4
              <7>2. x <= c
                BY <3>1, <4>1, <5>2, <6>1, <7>1 DEF LeadsBack, Undefined
              <7>3. c \in 1 .. n
                BY <2>1, <2>2
              <7> QED BY <3>1, <7>2, <7>3
            <6> QED BY <6>1
          <5> QED BY <2>2, <4>1, <4>2, <5>1, <5>2, <5>3 DEF LeadsBack, Undefined
        <4> QED BY <4>3, <4>4
      <3>6. firstClient' \in connected' /\ \A d \in connected' : firstClient' <= d
        BY <2>2, <3>1, <3>3, <3>4
      <3> QED BY <3>4, <3>5, <3>6 DEF Chained
    <2> QED BY <2>6, <2>7
  <1> QED BY <1>1, <1>2 DEF ListInv

(* Another one leaves; if the list stays whole it was the last one.         *)
LEMMA DisconnectOtherKeeps ==
    ASSUME ListInv, NEW c \in Client, DisconnectOther(c)
    PROVE  ListInv'
  <1>1. ServerTypeOK' /\ LinksKeepOrder' /\ innerLeft' \in BOOLEAN
    BY LeaveKeepsOrder DEF DisconnectOther
  <1>2. ASSUME ~innerLeft' PROVE Chained'
    <2>1. PICK n \in Nat :
              /\ n = count /\ connected \subseteq 1 .. n /\ 1 .. n \subseteq Client
              /\ nextClient \in [Client -> 0 .. n]
      BY ServerAssumption DEF ListInv, ServerTypeOK, Client
    <2>2. /\ ~innerLeft /\ Chained /\ c \in connected /\ previousClient[c] # 0
          /\ nextClient[c] = 0
          /\ connected' = connected \ {c} /\ firstClient' = firstClient
      BY <1>2 DEF DisconnectOther, Leave, ListInv, Undefined
    <2>3. previousClient' = previousClient
      BY <2>2 DEF DisconnectOther, ForgetPrevious, Undefined
    <2>4. LeadsOn(c) /\ LeadsBack(c)
      BY <2>2 DEF Chained
    <2>5. \A d \in connected : d <= c
      BY <2>2, <2>4 DEF LeadsOn, Undefined
    <2>6. PICK p \in 1 .. n : /\ p = previousClient[c] /\ p \in connected /\ p < c
                              /\ \A d \in connected : d < c => d <= p
      <3>1. previousClient[c] < c
        BY <2>2 DEF ListInv, LinksKeepOrder, Undefined
      <3> QED BY <2>1, <2>2, <2>4, <3>1 DEF LeadsBack, Undefined
    <2>7. nextClient' = [nextClient EXCEPT ![p] = 0]
      BY <2>2, <2>6 DEF DisconnectOther
    <2>8. \A d \in connected : d = c \/ d <= p
      <3> TAKE d \in connected
      <3>1. d \in 1 .. n /\ c \in 1 .. n /\ d <= c
        BY <2>1, <2>2, <2>5
      <3> QED BY <2>6, <3>1
    <2>9. \A d \in connected : /\ nextClient[d] # 0 => nextClient[d] > d
                               /\ previousClient[d] # 0 => previousClient[d] < d
      BY <2>1 DEF ListInv, LinksKeepOrder, Undefined
    <2>10. p # c /\ p \in connected'
      <3>1. c \in 1 .. n
        BY <2>1, <2>2
      <3> QED BY <2>2, <2>6, <3>1
    <2>11. ASSUME NEW d \in connected'
           PROVE  LeadsOn(d)' /\ LeadsBack(d)'
      <3>1. /\ d \in connected /\ d # c /\ d \in 1 .. n /\ LeadsOn(d) /\ LeadsBack(d)
            /\ d <= p /\ c \in 1 .. n /\ d <= c
        BY <2>1, <2>2, <2>5, <2>8 DEF Chained
      <3>2. LeadsBack(d)'
        <4>1. previousClient[d] # 0 => previousClient[d] \in 1 .. n /\ previousClient[d] # c
          <5> SUFFICES ASSUME previousClient[d] # 0
                       PROVE  previousClient[d] \in 1 .. n /\ previousClient[d] # c
            OBVIOUS
          <5>1. PICK y \in 1 .. n : y = previousClient[d] /\ y < d
            BY <2>1, <2>9, <3>1 DEF LeadsBack, Undefined
          <5> QED BY <3>1, <5>1
        <4> QED BY <2>2, <2>3, <3>1, <4>1 DEF LeadsBack, Undefined
      <3>3. CASE d = p
        <4>1. nextClient'[d] = 0
          BY <2>1, <2>6, <2>7, <3>3
        <4>2. \A e \in connected' : e <= d
          BY <2>2, <2>8, <3>3
        <4> QED BY <3>2, <4>1, <4>2 DEF LeadsOn, Undefined
      <3>4. CASE d # p
        <4>1. nextClient'[d] = nextClient[d]
          BY <2>1, <2>6, <2>7, <3>1, <3>4
        <4>2. d < p
          BY <2>6, <3>1, <3>4
        <4>3. nextClient[d] # 0
          <5>1. ASSUME nextClient[d] = 0 PROVE FALSE
            <6>1. p <= d
              BY <2>6, <3>1, <5>1 DEF LeadsOn, Undefined
            <6> QED BY <2>6, <3>1, <4>2, <6>1
          <5> QED BY <5>1
        <4>4. nextClient[d] # c
          <5>1. nextClient[d] <= p
            BY <2>6, <3>1, <4>2, <4>3 DEF LeadsOn, Undefined
          <5> QED BY <2>6, <3>1, <5>1
        <4> QED BY <2>2, <3>1, <3>2, <4>1, <4>3, <4>4 DEF LeadsOn, Undefined
      <3> QED BY <3>3, <3>4
    <2>12. firstClient' \in connected' /\ \A d \in connected' : firstClient' <= d
      <3>1. firstClient \in connected /\ \A d \in connected : firstClient <= d
        BY <2>2 DEF Chained
      <3>2. firstClient # c
        <4>1. firstClient <= p /\ c \in 1 .. n
          BY <2>1, <2>2, <2>6, <3>1
        <4> QED BY <2>6, <4>1
      <3> QED BY <2>2, <3>1, <3>2
    <2> QED BY <2>10, <2>11, <2>12 DEF Chained
  <1> QED BY <1>1, <1>2 DEF ListInv

LEMMA ListInvInit == ServerInit => ListInv
  <1> SUFFICES ASSUME ServerInit PROVE ListInv
    OBVIOUS
  <1>1. PICK m \in Nat, k \in Nat : m = MaxClients /\ k = MaxConnections
    BY ServerAssumption
  <1>2. 0 \in 0 .. m /\ 0 \in 0 .. k /\ 0 \in 0 .. 0
    OBVIOUS
  <1>3. ServerTypeOK
    BY <1>1, <1>2 DEF ServerInit, ServerTypeOK, Undefined
  <1> QED BY <1>3 DEF ServerInit, ListInv, LinksKeepOrder, Chained, Undefined

LEMMA ListInvStays == ASSUME ListInv, [ServerNext]_serverVars PROVE ListInv'
  <1> SUFFICES ASSUME UNCHANGED listVars,
                      \/ \E s \in Connection : HostCloses(s)
                      \/ HostConnects
                      \/ Text
                      \/ UNCHANGED serverVars
               PROVE  ListInv'
    BY ConnectKeeps, DisconnectFirstKeeps, DisconnectOtherKeeps
    DEF ServerNext, HostConnects, HostCloses, Text, serverVars
  <1>1. PICK m \in Nat, k \in Nat :
            /\ m = MaxConnections /\ k = opened /\ k <= m /\ open \subseteq 1 .. k
            /\ serverConnection \in 0 .. k
    BY ServerAssumption DEF ListInv, ServerTypeOK
  <1>2. /\ opened' \in 0 .. MaxConnections /\ open' \subseteq 1 .. opened'
        /\ serverConnection' \in 0 .. opened'
    <2>1. CASE HostConnects
      <3>1. k < m /\ opened' = k + 1 /\ open' = open \cup {k + 1} /\ serverConnection' = k + 1
        BY <1>1, <2>1 DEF HostConnects
      <3> QED BY <1>1, <3>1
    <2>2. ASSUME NEW s \in Connection, HostCloses(s)
          PROVE  /\ opened' \in 0 .. MaxConnections /\ open' \subseteq 1 .. opened'
                 /\ serverConnection' \in 0 .. opened'
      BY <1>1, <2>2 DEF HostCloses, Undefined
    <2>3. CASE Text \/ UNCHANGED serverVars
      <3>1. opened' = opened /\ open' = open /\ serverConnection' = serverConnection
        BY <2>3, Zenon DEF Text, serverVars, hostVars
      <3> QED BY <1>1, <3>1
    <2> QED BY <2>1, <2>2, <2>3
  <1>3. emitted' \in Seq(Client)
    BY EmitMeetsConnected
    DEF HostConnects, HostCloses, Text, serverVars, ListInv, ServerTypeOK
  <1>4. ServerTypeOK'
    BY <1>2, <1>3 DEF listVars, ListInv, ServerTypeOK
  <1> QED BY <1>4 DEF listVars, ListInv, LinksKeepOrder, Chained, LeadsOn, LeadsBack

(* The links of the list keep the order of arrival, and until a browser     *)
(* leaves from the middle they chain those connected (index.js 65-127).     *)
THEOREM ListInvHolds == ServerSpec => []ListInv
  <1> QED BY ListInvInit, ListInvStays, PTL DEF ServerSpec

(* The list never turns back, so walking it ends.                           *)
THEOREM ListIsAlwaysSound == ServerSpec => []ListIsSound
  <1>1. ListInv => ListIsSound
    BY DEF ListInv, LinksKeepOrder, ListIsSound
  <1> QED BY <1>1, ListInvHolds, PTL

(* Until a browser leaves from the middle, a text goes to exactly the       *)
(* browsers connected.                                                      *)
THEOREM TextsReachTheConnected == ServerSpec => []EmitsToConnected
  <1>1. ListInv => EmitsToConnected
    BY EmitMeetsConnected
  <1> QED BY <1>1, ListInvHolds, PTL

-----------------------------------------------------------------------------
(* The host's connections: the one in hand is the newest, and it is lost    *)
(* only when a connection closes, its own or an older one.                  *)
HostInv ==
    /\ opened \in Nat /\ open \subseteq 1 .. opened
    /\ ControlsReachHost
    /\ ~overlapped => \A s \in open : s = opened

LEMMA HostInvStays == ASSUME HostInv, [ServerNext]_serverVars PROVE HostInv'
  <1>1. CASE HostConnects
    <2>1. PICK k \in Nat : k = opened /\ open \subseteq 1 .. k
      BY DEF HostInv
    <2>2. /\ opened' = k + 1 /\ open' = open \cup {k + 1} /\ serverConnection' = k + 1
          /\ overlapped' = (overlapped \/ open # {})
      BY <1>1, <2>1 DEF HostConnects
    <2>3. k + 1 \in 1 .. k + 1 /\ 1 .. k \subseteq 1 .. k + 1
      OBVIOUS
    <2>4. ~overlapped' => open' = {k + 1}
      BY <2>2
    <2> QED BY <2>1, <2>2, <2>3, <2>4 DEF HostInv, ControlsReachHost
  <1>2. ASSUME NEW s \in Connection, HostCloses(s)
        PROVE  HostInv'
    <2>1. /\ open' = open \ {s} /\ serverConnection' = Undefined /\ opened' = opened
          /\ overlapped' = overlapped /\ s \in open
      BY <1>2 DEF HostCloses
    <2>2. ~overlapped' => open' = {}
      BY <2>1 DEF HostInv
    <2> QED BY <2>1, <2>2 DEF HostInv, ControlsReachHost
  <1>3. CASE UNCHANGED hostVars
    BY <1>3 DEF hostVars, HostInv, ControlsReachHost
  <1> QED BY <1>1, <1>2, <1>3
      DEF ServerNext, Connect, DisconnectFirst, DisconnectOther, Leave, Text, serverVars

(* A control goes to a host connection that is open, and to the newest.     *)
THEOREM ControlsAlwaysReachHost == ServerSpec => []ControlsReachHost
  <1>1. ServerInit => HostInv
    BY DEF ServerInit, HostInv, ControlsReachHost, Undefined
  <1>2. HostInv => ControlsReachHost
    BY DEF HostInv
  <1> QED BY <1>1, <1>2, HostInvStays, PTL DEF ServerSpec

=============================================================================
