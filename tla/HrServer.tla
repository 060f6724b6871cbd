------------------------------ MODULE HrServer ------------------------------
(***************************************************************************)
(* The web server between the browsers and the host: server/index.js.      *)
(* Browsers are kept in a doubly linked list in the order they connected;  *)
(* a text from the host is emitted along the list from firstClient, and a  *)
(* control from a browser goes to serverConnection, the host's web socket. *)
(*                                                                         *)
(* Node runs one event handler at a time: each handler is one action.      *)
(* Browsers and host connections are numbered as they come, and 0 stands   *)
(* for undefined.                                                          *)
(***************************************************************************)
EXTENDS Naturals, FiniteSets, Sequences

CONSTANTS
    MaxClients,       \* bound: browsers that connect
    MaxConnections    \* bound: times the host connects

ASSUME ServerAssumption == MaxClients \in Nat /\ MaxConnections \in Nat

VARIABLES
    count,              \* browsers so far
    connected,          \* the browsers still connected
    firstClient,
    nextClient,
    previousClient,
    serverConnection,
    opened,             \* host connections so far
    open,               \* the host connections still open
    emitted,            \* the browsers the last text was emitted to, in order
    innerLeft,          \* history: a browser with two neighbours has left
    overlapped          \* history: the host connected while it was connected

listVars == <<count, connected, firstClient, nextClient, previousClient, innerLeft>>
hostVars == <<serverConnection, opened, open, overlapped>>
serverVars == <<listVars, hostVars, emitted>>

Undefined == 0
Client == 1 .. MaxClients
Connection == 1 .. MaxConnections

ServerInit ==
    /\ count = 0 /\ connected = {}
    /\ firstClient = Undefined
    /\ nextClient = [c \in Client |-> Undefined]
    /\ previousClient = [c \in Client |-> Undefined]
    /\ serverConnection = Undefined
    /\ opened = 0 /\ open = {}
    /\ emitted = <<>>
    /\ innerLeft = FALSE /\ overlapped = FALSE

\* The clients a walk along nextClient meets from each client on.
WalkFrom ==
    LET walk[c \in Client] ==
          IF nextClient[c] = Undefined THEN <<c>> ELSE <<c>> \o walk[nextClient[c]]
    IN  walk

\* trivialEmitData: every client from firstClient on.
TrivialEmitData ==
    IF firstClient = Undefined THEN <<>> ELSE WalkFrom[firstClient]

-----------------------------------------------------------------------------

\* Bug: a new client is put right behind the first one.
ConnectBehindFirst ==
    /\ count < MaxClients
    /\ count' = count + 1
    /\ connected' = connected \cup {count'}
    /\ IF firstClient = Undefined
         THEN /\ firstClient' = count'
              /\ UNCHANGED <<nextClient, previousClient>>
         ELSE /\ nextClient' = [nextClient EXCEPT ![firstClient] = count',
                                                  ![count'] = nextClient[firstClient]]
              /\ previousClient' = [previousClient EXCEPT ![count'] = firstClient]
              /\ UNCHANGED firstClient
    /\ UNCHANGED <<hostVars, emitted, innerLeft>>

\* The new client goes to the end of the list (insertNew).
Connect ==
    /\ count < MaxClients
    /\ count' = count + 1
    /\ connected' = connected \cup {count'}
    /\ IF firstClient = Undefined
         THEN /\ firstClient' = count'
              /\ UNCHANGED <<nextClient, previousClient>>
         ELSE LET end == WalkFrom[firstClient][Len(WalkFrom[firstClient])]
              IN  /\ nextClient' = [nextClient EXCEPT ![end] = count']
                  /\ previousClient' = [previousClient EXCEPT ![count'] = end]
                  /\ UNCHANGED firstClient
    /\ UNCHANGED <<hostVars, emitted, innerLeft>>

\* In the handler "this" is the socket, which has no previousClient: the
\* neighbour behind always ends up with none.
ForgetPrevious(c) ==
    previousClient' =
        IF nextClient[c] = Undefined
          THEN previousClient
          ELSE [previousClient EXCEPT ![nextClient[c]] = Undefined]

Leave(c) ==
    /\ connected' = connected \ {c}
    /\ innerLeft' = (innerLeft \/ (previousClient[c] # Undefined
                                     /\ nextClient[c] # Undefined))
    /\ UNCHANGED <<count, hostVars, emitted>>

\* Bug: the second client is not told that it is the first now.
DisconnectFirstKeepsPrevious(c) ==
    /\ c \in connected
    /\ previousClient[c] = Undefined
    /\ firstClient' = nextClient[c]
    /\ Leave(c)
    /\ UNCHANGED <<nextClient, previousClient>>

DisconnectFirst(c) ==
    /\ c \in connected
    /\ previousClient[c] = Undefined
    /\ firstClient' = nextClient[c]
    /\ ForgetPrevious(c)
    /\ Leave(c)
    /\ UNCHANGED nextClient

DisconnectOther(c) ==
    /\ c \in connected
    /\ previousClient[c] # Undefined
    /\ nextClient' = [nextClient EXCEPT ![previousClient[c]] = nextClient[c]]
    /\ ForgetPrevious(c)
    /\ Leave(c)
    /\ UNCHANGED firstClient

-----------------------------------------------------------------------------

HostConnects ==
    /\ opened < MaxConnections
    /\ opened' = opened + 1
    /\ open' = open \cup {opened'}
    /\ serverConnection' = opened'
    /\ overlapped' = (overlapped \/ open # {})
    /\ UNCHANGED <<listVars, emitted>>

\* Bug: a closed connection is kept.
HostClosesKept(s) ==
    /\ s \in open
    /\ open' = open \ {s}
    /\ UNCHANGED <<serverConnection, opened, overlapped, listVars, emitted>>

\* Whichever connection closes, there is none any more.
HostCloses(s) ==
    /\ s \in open
    /\ open' = open \ {s}
    /\ serverConnection' = Undefined
    /\ UNCHANGED <<opened, overlapped, listVars, emitted>>

\* conn.on("text"), from any open connection.
Text ==
    /\ open # {}
    /\ emitted' = TrivialEmitData
    /\ UNCHANGED <<listVars, hostVars>>

ServerNext ==
    \/ Connect
    \/ \E c \in Client : DisconnectFirst(c) \/ DisconnectOther(c)
    \/ HostConnects
    \/ \E s \in Connection : HostCloses(s)
    \/ Text

ServerSpec == ServerInit /\ [][ServerNext]_serverVars

-----------------------------------------------------------------------------

ServerTypeOK ==
    /\ count \in 0 .. MaxClients
    /\ connected \subseteq 1 .. count
    /\ firstClient \in 0 .. count
    /\ nextClient \in [Client -> 0 .. count]
    /\ previousClient \in [Client -> 0 .. count]
    /\ opened \in 0 .. MaxConnections
    /\ open \subseteq 1 .. opened
    /\ serverConnection \in 0 .. opened
    /\ emitted \in Seq(Client)

(***************************************************************************)
(* The list never turns back on itself, however clients come and go and    *)
(* although the handler of "disconnect" forgets links: nextClient leads    *)
(* only to clients that connected later.  So trivialEmitData and insertNew *)
(* always end, and no browser gets a text twice.  No link leads to a       *)
(* browser that has not connected yet, either.                             *)
(***************************************************************************)
ListIsSound ==
    /\ ServerTypeOK
    /\ \A c \in Client : nextClient[c] # Undefined => nextClient[c] > c

(***************************************************************************)
(* As long as no browser with a neighbour on both sides has left, a text   *)
(* goes to exactly the connected browsers, in the order they connected.    *)
(* (After such a departure the neighbour behind takes itself for the first *)
(* one, and its own departure cuts off everybody before it.)               *)
(***************************************************************************)
EmitsToConnected ==
    ~innerLeft =>
        /\ {TrivialEmitData[i] : i \in DOMAIN TrivialEmitData} = connected
        /\ Len(TrivialEmitData) = Cardinality(connected)

(***************************************************************************)
(* A control is only ever sent to a host connection that is open, and to   *)
(* the newest there has been; and while a host never connects before its   *)
(* last connection is closed, every control reaches the host that is       *)
(* connected.  (A late "close" of an old connection clears the new one:    *)
(* index.js:147.)                                                          *)
(***************************************************************************)
ControlsReachHost ==
    /\ serverConnection # Undefined =>
           serverConnection \in open /\ serverConnection = opened
    /\ ~overlapped /\ open # {} => serverConnection \in open

=============================================================================
