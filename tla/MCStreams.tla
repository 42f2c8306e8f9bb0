----------------------------- MODULE MCStreams -----------------------------
(* The streams of an HTTP/2 connection, those of a QUIC connection, and    *)
(* the dynamic table of QPACK: models that share no state, of which each   *)
(* behaviour runs one.                                                     *)
EXTENDS MCH2Conn

CONSTANTS QuicWindow, ConnWindow, StreamWindowMax, ConnWindowMax, StreamBuffer,
          ConnBuffer, Streams, StreamsNow, Path, MaxNet,
          TableCap, TableMax, MayWait, Sending
VARIABLES part, conn, net, app, calls, enc, dec, inserts, acks, sections, misread, traffic

QP == INSTANCE QuicPlans
Q == INSTANCE QuicStreams WITH StreamWindow <- QuicWindow, plan <- calls,
                                Plans <- QP!QuicPlans

TP == INSTANCE QpackPlans
T == INSTANCE Qpack WITH Cap <- TableCap, PeerMax <- TableMax, Blocked <- MayWait,
                         Streams <- Sending, Plans <- TP!QpackPlans,
                         stream <- sections, fault <- misread, plan <- traffic

quicVars == <<conn, net, app, calls>>
tableVars == <<enc, dec, inserts, acks, sections, misread, traffic>>

StreamsInit ==
    /\ part \in {"h2", "quic", "table"}
    /\ Init /\ (part # "h2" => plan = CHOOSE p \in Plans : TRUE)
    /\ Q!Init /\ (part # "quic" => calls = CHOOSE p \in QP!QuicPlans : TRUE)
    /\ T!Init /\ (part # "table" => traffic = CHOOSE p \in TP!QpackPlans : TRUE)

StreamsNext ==
    \/ part = "h2" /\ Next /\ UNCHANGED <<part, quicVars, tableVars>>
    \/ part = "quic" /\ Q!Next /\ UNCHANGED <<part, vars, tableVars>>
    \/ part = "table" /\ T!Next /\ UNCHANGED <<part, vars, quicVars>>

StreamsSpec == StreamsInit /\ [][StreamsNext]_<<part, vars, quicVars, tableVars>>

(* The properties of the streams of QUIC and of the tables of QPACK, and   *)
(* one for both kinds of streams: no end takes what the other has sent for *)
(* an error.                                                               *)
NoPeerFault == (part = "h2" => NoFault) /\ (part = "quic" => Q!NoFault)
Intact == part = "quic" => Q!Intact
NothingForgotten == part = "quic" => Q!NothingForgotten
AccountsAgree == part = "quic" => Q!AccountsAgree
NoStall == part = "quic" => Q!NoStall
TablesAgree == part = "table" => T!TablesAgree
=============================================================================
