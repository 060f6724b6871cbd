------------------------------ MODULE WsHandler ------------------------------
(* The connection of the host to the web server: WsHandler with its daemon  *)
(* thread and its table of contexts (websocket_handler.cpp), sendText on    *)
(* the main thread, and of libwebsockets what a client connection goes      *)
(* through.  A connection has the number of its context.                    *)
(*                                                                          *)
(* Nothing is locked.  Each thread has a place, and each access to what     *)
(* the other thread may write is a step of its own.  A callback runs on the *)
(* thread whose libwebsocket_service reports the event: the event and the   *)
(* lookup the callback begins with are one step, the steps of setWsStatus   *)
(* and doSendText follow.  What two calls at once do inside the library is  *)
(* not modelled.                                                            *)
EXTENDS Integers, Sequences, SequencesExt

CONSTANTS
    MaxContexts,     \* bound: contexts created
    SilentFailure,   \* a handshake may fail without a result below zero
    SocketBlocks     \* the socket may not be writable

ASSUME ConstantsAssumption ==
    /\ MaxContexts \in Nat \ {0}
    /\ {SilentFailure, SocketBlocks} \subseteq BOOLEAN

VARIABLES
    mWsStatus,      \* "disconnect", "connecting", "connected"
    mIsGood,
    mWsContext,     \* the number of the last context, 0 before the first
    ctxList,        \* the table: the contexts in it, in order
    handlerLength,
    conn,           \* what became of the connection of each context
    at,             \* where each thread is
    text,           \* the text sendText has been given: two by turns
    mWsBuffer,      \* the two halves of the send buffer, by the text they are of
    wantsWrite,     \* a writable callback has been asked for
    frame,          \* the last frame sent, by halves
    offered,        \* history: the text as a whole was given to libwebsocket_write
    crossed,        \* history: connectServer began during a call of sendText
    overtaken       \* history: a sendText began while the daemon was in doSendText

table == <<ctxList, handlerLength>>
status == <<mWsStatus, mIsGood>>
handler == <<status, mWsContext, table>>
sending == <<text, mWsBuffer, overtaken>>
wire == <<wantsWrite, frame, offered>>
vars == <<handler, conn, at, sending, wire, crossed>>

Thread == {"daemon", "main"}

\* "none": no connection yet, or refused at once.  "lost": ended with nothing
\* but a CLIENT_CONNECTION_ERROR callback, which plainProtocolCallback ignores.
Opening == {"connect", "reply"}
Alive == Opening \cup {"open"}
Phases == Alive \cup {"none", "dead", "lost"}
Contexts == 1 .. MaxContexts

Init ==
    /\ mWsStatus = "disconnect" /\ mIsGood = FALSE
    /\ mWsContext = 0 /\ ctxList = <<>> /\ handlerLength = 0
    /\ conn = [n \in Contexts |-> "none"]
    /\ at = [t \in Thread |-> IF t = "daemon" THEN "look" ELSE "idle"]
    /\ text = 0 /\ mWsBuffer = <<0, 0>>
    /\ wantsWrite = FALSE /\ frame = <<0, 0>> /\ offered = FALSE
    /\ crossed = FALSE /\ overtaken = FALSE

Goto(t, place) == at' = [at EXCEPT ![t] = place]

\* Where a thread goes on when its service call returns.
After(t) == IF t = "daemon" THEN "sleep" ELSE "result"

Conn(phase) == conn' = [conn EXCEPT ![mWsContext] = phase]

\* Whether lookupHandler finds the context.  Once connectServer has run beside
\* a sendText both threads may be in the table at once: then it is anybody's
\* guess.
Finds == IF crossed THEN BOOLEAN ELSE {Contains(ctxList, mWsContext)}

\* A callback: it goes on at this place if it finds its handler.
Callback(t, place) ==
    \E found \in Finds : Goto(t, IF found THEN place ELSE After(t))

-----------------------------------------------------------------------------
(* libwebsocket_service on the current context: one outcome of those the    *)
(* phase allows.                                                            *)

\* client.c, lws_client_socket_service: connected, then the handshake written.
Progress(t) ==
    /\ conn[mWsContext] = "connect"
    /\ Conn("reply")
    /\ Goto(t, After(t))
    /\ UNCHANGED wire

\* A handshake accepted: LWS_CALLBACK_CLIENT_ESTABLISHED.
Establish(t) ==
    /\ conn[mWsContext] = "reply"
    /\ Conn("open")
    /\ Callback(t, "established")
    /\ UNCHANGED wire

\* Refused, hung up or rejected on the quiet: the connection is freed and
\* libwebsocket_service returns 0.
FailSilently(t) ==
    /\ SilentFailure
    /\ conn[mWsContext] \in Opening
    /\ Conn("lost")
    /\ Goto(t, After(t))
    /\ UNCHANGED wire

\* The server closes: LWS_CALLBACK_CLOSED.
Close(t) ==
    /\ conn[mWsContext] = "open"
    /\ Conn("dead")
    /\ Callback(t, "closed")
    /\ wantsWrite' = FALSE
    /\ UNCHANGED <<frame, offered>>

\* LWS_CALLBACK_CLIENT_WRITEABLE.
Writeable(t) ==
    /\ conn[mWsContext] = "open" /\ wantsWrite
    /\ wantsWrite' = FALSE
    /\ Callback(t, "write")
    /\ UNCHANGED <<conn, frame, offered>>

\* poll() returns with nothing to do; a text waits only if the socket blocks.
NothingToDo(t) ==
    /\ wantsWrite /\ conn[mWsContext] = "open" => SocketBlocks
    /\ Goto(t, After(t))
    /\ UNCHANGED <<conn, wire>>

\* A result below zero comes of a connection still being opened.
ServiceFails(t) ==
    /\ conn[mWsContext] \in Opening
    /\ Conn("dead")
    /\ Goto(t, IF at[t] = "service" THEN "notConnected" ELSE "failed")
    /\ UNCHANGED wire

\* The service call of touchServer, and of connectServer ("service").
Service(t) ==
    /\ at[t] \in {"touch", "service"}
    /\ \/ Progress(t) \/ Establish(t) \/ FailSilently(t) \/ Close(t)
       \/ Writeable(t) \/ NothingToDo(t) \/ ServiceFails(t)
    /\ UNCHANGED <<handler, sending, crossed>>

-----------------------------------------------------------------------------
(* setWsStatus, and what touchServer and connectServer do with a result     *)
(* below zero: one write at a time.                                         *)

\* An error the invariants exclude: the status stays "connecting".
SetStatusNotFailed(t) ==
    /\ \/ at[t] = "established" /\ mWsStatus' = "connected" /\ Goto(t, "switch")
       \/ at[t] = "closed" /\ mWsStatus' = "disconnect" /\ Goto(t, "switch")
       \/ at[t] = "failed" /\ UNCHANGED mWsStatus /\ Goto(t, "notGood")
       \/ at[t] = "notConnected" /\ mWsStatus' = "disconnect" /\ Goto(t, "remove")
    /\ UNCHANGED <<mIsGood, mWsContext, table, conn, sending, wire, crossed>>

\* connectServer leaves mIsGood.
SetStatus(t) ==
    /\ \/ at[t] = "established" /\ mWsStatus' = "connected" /\ Goto(t, "switch")
       \/ at[t] = "closed" /\ mWsStatus' = "disconnect" /\ Goto(t, "switch")
       \/ at[t] = "failed" /\ mWsStatus' = "disconnect" /\ Goto(t, "notGood")
       \/ at[t] = "notConnected" /\ mWsStatus' = "disconnect" /\ Goto(t, "remove")
    /\ UNCHANGED <<mIsGood, mWsContext, table, conn, sending, wire, crossed>>

\* The switch reads the field again, not its argument.
Switch(t) ==
    /\ at[t] = "switch"
    /\ \/ mWsStatus = "disconnect" /\ Goto(t, "notGood")
       \/ mWsStatus = "connected" /\ Goto(t, "good")
       \/ mWsStatus = "connecting" /\ Goto(t, After(t))
    /\ UNCHANGED <<handler, conn, sending, wire, crossed>>

\* An error the invariants exclude: mIsGood is left as it was.
SetGoodOnly(t) ==
    /\ \/ at[t] = "good" /\ mIsGood' = TRUE /\ Goto(t, After(t))
       \/ at[t] = "notGood" /\ UNCHANGED mIsGood /\ Goto(t, "remove")
    /\ UNCHANGED <<mWsStatus, mWsContext, table, conn, sending, wire, crossed>>

SetGood(t) ==
    /\ \/ at[t] = "good" /\ mIsGood' = TRUE /\ Goto(t, After(t))
       \/ at[t] = "notGood" /\ mIsGood' = FALSE /\ Goto(t, "remove")
    /\ UNCHANGED <<mWsStatus, mWsContext, table, conn, sending, wire, crossed>>

\* The table without the context, or without its last entry when the context
\* is not there.
Removed(list, n) ==
    LET i == SelectInSeq(list, LAMBDA x : x = n) IN
    IF list = <<>> THEN list
    ELSE RemoveAt(list, IF i = 0 THEN Len(list) ELSE i)

\* An error the invariants exclude: the context stays in the table.
RemoveNothing(t) ==
    /\ at[t] = "remove"
    /\ Goto(t, After(t))
    /\ UNCHANGED <<handler, conn, sending, wire, crossed>>

\* removeHandler(mWsContext): of whatever context is the current one by now.
\* The length goes down even when the table is empty.
RemoveHandler(t) ==
    /\ at[t] = "remove"
    /\ ctxList' = Removed(ctxList, mWsContext)
    /\ handlerLength' = handlerLength - 1
    /\ Goto(t, After(t))
    /\ UNCHANGED <<status, mWsContext, conn, sending, wire, crossed>>

\* doSendText.  libwebsocket_write may fail, its result is not looked at.
Write(t) ==
    /\ at[t] = "write"
    /\ \/ conn[mWsContext] = "open" /\ frame' = mWsBuffer
       \/ UNCHANGED frame
    /\ offered' = (offered \/ mWsBuffer = <<text, text>>)
    /\ Goto(t, After(t))
    /\ UNCHANGED <<handler, conn, sending, wantsWrite, crossed>>

InLibrary(t) ==
    Service(t) \/ SetStatus(t) \/ Switch(t) \/ SetGood(t) \/ RemoveHandler(t) \/ Write(t)

-----------------------------------------------------------------------------
(* The daemon thread.                                                       *)

\* Between :237, where mIsGood is found TRUE, and the return.
InSendText == at["main"] \notin {"idle", "skipped"}

\* startWebsocketDaemon looks at the status; connectServer makes a context.
CreateContext ==
    /\ at["daemon"] = "look" /\ mWsStatus = "disconnect"
    /\ mWsContext < MaxContexts
    /\ mWsContext' = mWsContext + 1
    /\ crossed' = (crossed \/ InSendText)
    /\ Goto("daemon", "register")
    /\ UNCHANGED <<status, table, conn, sending, wire>>

\* Below the table's start an entry is lost.
RegisterHandler ==
    /\ at["daemon"] = "register"
    /\ ctxList' = IF handlerLength < 0 THEN ctxList ELSE Append(ctxList, mWsContext)
    /\ handlerLength' = handlerLength + 1
    /\ Goto("daemon", "connect")
    /\ UNCHANGED <<status, mWsContext, conn, sending, wire, crossed>>

\* Refused at once: libwebsocket_client_connect returns NULL; the entry of the
\* table and the context stay.
Refuse ==
    /\ at["daemon"] = "connect"
    /\ Goto("daemon", "sleep")
    /\ UNCHANGED <<handler, conn, sending, wire, crossed>>

ClientConnect ==
    /\ at["daemon"] = "connect"
    /\ \E phase \in Opening : Conn(phase)
    /\ wantsWrite' = FALSE
    /\ Goto("daemon", "started")
    /\ UNCHANGED <<handler, sending, frame, offered, crossed>>

MarkConnecting ==
    /\ at["daemon"] = "started"
    /\ mWsStatus' = "connecting"
    /\ Goto("daemon", "service")
    /\ UNCHANGED <<mIsGood, mWsContext, table, conn, sending, wire, crossed>>

\* An error the invariants exclude: connecting is taken for disconnected.
LookConnectsAgain ==
    /\ at["daemon"] = "look" /\ mWsStatus # "disconnect"
    /\ IF mWsStatus = "connecting" /\ mWsContext < MaxContexts
       THEN mWsContext' = mWsContext + 1 /\ Goto("daemon", "register")
       ELSE UNCHANGED mWsContext /\ Goto("daemon", "touch")
    /\ UNCHANGED <<status, table, conn, sending, wire, crossed>>

Look ==
    /\ at["daemon"] = "look" /\ mWsStatus # "disconnect"
    /\ Goto("daemon", "touch")
    /\ UNCHANGED <<handler, conn, sending, wire, crossed>>

\* usleep(WEBSOCKET_RECONNECT_INTERNAL), a second.
Wake ==
    /\ at["daemon"] = "sleep"
    /\ Goto("daemon", "look")
    /\ UNCHANGED <<handler, conn, sending, wire, crossed>>

Daemon ==
    \/ CreateContext \/ RegisterHandler \/ Refuse \/ ClientConnect
    \/ MarkConnecting \/ Look \/ Wake \/ InLibrary("daemon")

-----------------------------------------------------------------------------
(* sendText on the main thread.                                             *)

SendText ==
    /\ at["main"] = "idle" /\ mIsGood
    /\ text' = 1 - text
    /\ offered' = FALSE
    /\ overtaken' = (overtaken \/ at["daemon"] = "write")
    /\ Goto("main", "copy1")
    /\ UNCHANGED <<handler, conn, mWsBuffer, wantsWrite, frame, crossed>>

SendTextNotGood ==
    /\ at["main"] = "idle" /\ ~mIsGood
    /\ Goto("main", "skipped")
    /\ UNCHANGED <<handler, conn, sending, wire, crossed>>

CopyHalf(i) == mWsBuffer' = [mWsBuffer EXCEPT ![i] = text]

\* An error the invariants exclude: the writable callback is asked for before
\* the text is in the buffer.
CopyTextLate ==
    /\ \/ /\ at["main"] = "copy1" /\ CopyHalf(1) /\ Goto("main", "request")
          /\ wantsWrite' = (wantsWrite \/ conn[mWsContext] = "open")
       \/ /\ at["main"] = "copy2" /\ CopyHalf(2) /\ Goto("main", "request")
          /\ UNCHANGED wantsWrite
    /\ UNCHANGED <<handler, conn, text, overtaken, frame, offered, crossed>>

CopyText ==
    /\ \/ at["main"] = "copy1" /\ CopyHalf(1) /\ Goto("main", "copy2")
       \/ at["main"] = "copy2" /\ CopyHalf(2) /\ Goto("main", "request")
    /\ UNCHANGED <<handler, conn, text, overtaken, wire, crossed>>

\* libwebsocket_callback_on_writable; on a connection not open it is undone
\* before the handshake is written, or touches what has been freed.
RequestWritable ==
    /\ at["main"] = "request"
    /\ wantsWrite' = (wantsWrite \/ conn[mWsContext] = "open")
    /\ Goto("main", "touch")
    /\ UNCHANGED <<handler, conn, sending, frame, offered, crossed>>

\* sendText reads mIsGood again for its result.
Return ==
    /\ at["main"] \in {"result", "skipped"}
    /\ Goto("main", "idle")
    /\ UNCHANGED <<handler, conn, sending, wire, crossed>>

Main ==
    \/ SendText \/ SendTextNotGood \/ CopyText \/ RequestWritable
    \/ Return \/ InLibrary("main")

Next == Daemon \/ Main

\* Both threads go on running; of the server nothing is assumed.
Spec == Init /\ [][Next]_vars /\ WF_vars(Daemon) /\ WF_vars(Main)

-----------------------------------------------------------------------------
LibraryPlaces ==
    {"touch", "service", "established", "closed", "failed", "notConnected",
     "switch", "good", "notGood", "remove", "write"}
DaemonPlaces ==
    LibraryPlaces \cup {"look", "register", "connect", "started", "sleep"}
MainPlaces ==
    (LibraryPlaces \ {"service"})
        \cup {"idle", "skipped", "copy1", "copy2", "request", "result"}

TypeOK ==
    /\ mWsStatus \in {"disconnect", "connecting", "connected"}
    /\ mIsGood \in BOOLEAN
    /\ mWsContext \in 0 .. MaxContexts
    /\ ctxList \in Seq(Contexts) /\ handlerLength \in Int
    /\ conn \in [Contexts -> Phases]
    /\ at \in [Thread -> DaemonPlaces \cup MainPlaces]
    /\ at["daemon"] \in DaemonPlaces /\ at["main"] \in MainPlaces
    /\ text \in {0, 1}
    /\ mWsBuffer \in [1..2 -> {0, 1}] /\ frame \in [1..2 -> {0, 1}]
    /\ {wantsWrite, offered, crossed, overtaken} \subseteq BOOLEAN

\* Places between the end of a connection in the library and mIsGood = false.
Ending == {"closed", "switch", "failed", "notConnected", "notGood"}

\* The host never has two connections to the server: the daemon connects anew
\* only when the last connection is gone, however the threads cross.
OneConnection == \A n \in Contexts : conn[n] \in Alive => n = mWsContext

\* mIsGood, by which sendText decides, says that the connection is open,
\* except while a thread is reporting its end (websocket_handler.cpp:206-208,
\* 214-219), until connectServer begins during a sendText: then the thread
\* that reports an end may do it of the next connection.
GoodMeansOpen ==
    mIsGood /\ ~crossed =>
        \/ conn[mWsContext] = "open" /\ mWsStatus = "connected"
        \/ \E t \in Thread : at[t] \in Ending

\* Unless a thread is about to take a context out or put one in, the table
\* holds, in order, the contexts whose end was not reported: the current one,
\* and every attempt refused at once; and the length is that of the table
\* (registerHandlerMap, removeHandler).  Until connectServer begins during a
\* sendText: then the wrong context may be taken out.
TableAccounts ==
    ~crossed /\ (\A t \in Thread : at[t] \notin Ending \cup {"remove", "register"}) =>
        /\ handlerLength = Len(ctxList)
        /\ \A i, j \in 1 .. Len(ctxList) : i < j => ctxList[i] < ctxList[j]
        /\ Range(ctxList) = {n \in 1 .. mWsContext : conn[n] # "dead"}

\* After a connection that was closed, or refused in any way that the handler
\* is told of, the daemon makes another attempt, unless connectServer ever
\* begins during a sendText: the status can then say "connecting" or
\* "connected" for good.
Reconnects ==
    []~crossed =>
        \A n \in 1 .. MaxContexts - 1 :
            (mWsContext = n /\ conn[n] \in {"dead", "none"})
                ~> (mWsContext > n \/ conn[n] \notin {"dead", "none"})

\* With a socket that can be written a frame is a whole text, whichever thread
\* the writable callback runs on, until a sendText begins while the daemon is
\* in doSendText with the text before.
FrameIsWhole == ~overtaken => frame[1] = frame[2]

\* What sendText decides by and what it sends agree with the connection.
Consistent == TypeOK /\ GoodMeansOpen /\ FrameIsWhole

\* A sendText that found mIsGood TRUE returns true only when its whole text
\* has been given to libwebsocket_write, is being given to it by the daemon,
\* or the daemon is just reporting the connection's end; until connectServer
\* begins during a sendText.  (A sendText that found it FALSE may return true
\* as well, :237 and :244, with nothing written.)
TrueMeansOffered ==
    [][at["main"] = "result" /\ at'["main"] = "idle" /\ mIsGood /\ ~crossed =>
           offered \/ at["daemon"] \in Ending \cup {"write"}]_vars
=============================================================================
