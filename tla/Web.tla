--------------------------------- MODULE Web ---------------------------------
(* Both ends of the web link, side by side: the host's handler and the      *)
(* server.  Neither assumes anything of the other: the handler takes any    *)
(* answer, the server any host.  So a behaviour is the behaviour of one of  *)
(* them with the other at rest.                                             *)
EXTENDS WsHandler, HrServer

VARIABLE part    \* the end that moves

webVars == <<part, vars, serverVars>>

WebInit == part \in {"host", "server"} /\ Init /\ ServerInit

DaemonMoves == part = "host" /\ Daemon /\ UNCHANGED <<part, serverVars>>
MainMoves == part = "host" /\ Main /\ UNCHANGED <<part, serverVars>>
ServerMoves == part = "server" /\ ServerNext /\ UNCHANGED <<part, vars>>

WebNext == DaemonMoves \/ MainMoves \/ ServerMoves

\* Both threads of the host go on running; nobody need use the server.
WebSpec ==
    WebInit /\ [][WebNext]_webVars /\ WF_webVars(DaemonMoves) /\ WF_webVars(MainMoves)
=============================================================================
