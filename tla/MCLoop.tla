------------------------------- MODULE MCLoop ------------------------------
(* The event loop and what runs on it: its timers, its sockets over a      *)
(* selector, the HTTP client and a WebSocket connection of the server.     *)
(* The models share no state; each behaviour runs one of them.             *)
EXTENDS LoopTimers, LoopSelector

CONSTANTS r1, r2, r3, Conns, MaxKept, MaxWaiting, RetryUnsent,
          MaxMessage, MaxBuffered, ZipMin, Piece, WireRoom
VARIABLES part, cl, servers, calls, client, server, up, down, talk

HP == INSTANCE HttpClientPlans
C == INSTANCE HttpEventClient WITH Requests <- HP!AllRequests, Plans <- HP!ClientPlans,
                                   net <- servers, plan <- calls
SP == INSTANCE WsPlans
S == INSTANCE WsConn WITH Plans <- SP!WsPlans, b <- client, e <- server, plan <- talk

clientVars == <<cl, servers, calls>>
socketVars == <<client, server, up, down, talk>>

OneOf(set) == CHOOSE x \in set : TRUE

PartsInit ==
    /\ part \in {"timers", "selector", "client", "socket"}
    /\ TimersInit
    /\ Init
    /\ C!Init /\ (part # "client" => calls = OneOf(HP!ClientPlans))
    /\ S!Init /\ (part # "socket" => talk = OneOf(SP!WsPlans))

PartsNext ==
    \/ part = "timers" /\ TimersNext /\ UNCHANGED <<part, vars, clientVars, socketVars>>
    \/ part = "selector" /\ Next /\ UNCHANGED <<part, timerVars, clientVars, socketVars>>
    \/ part = "client" /\ C!Next /\ UNCHANGED <<part, timerVars, vars, socketVars>>
    \/ part = "socket" /\ S!Next /\ UNCHANGED <<part, timerVars, vars, clientVars>>

PartsSpec ==
    /\ PartsInit
    /\ [][PartsNext]_<<part, timerVars, vars, clientVars, socketVars>>
    /\ WF_timerVars(part = "timers" /\ TimersStep)
    /\ SF_timerVars(part = "timers" /\ TimePasses)
    /\ WF_vars(part = "selector" /\ LoopStep)

OneAnswerEach == C!OneAnswerEach
NoWaiterStranded == C!NoWaiterStranded
MessagesArrive == S!MessagesArrive
NothingLeftBehind == S!NothingLeftBehind
=============================================================================
