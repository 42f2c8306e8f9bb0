------------------------------ MODULE MCNetwork ----------------------------
(* The life of a QUIC connection, the updates of its keys, a TLS           *)
(* connection, an HTTP server on the event loop, and the posts to a loop:  *)
(* models that share no state, of which each behaviour runs one.           *)
EXTENDS LoopWake, QuicKeys

CONSTANTS Full, Pending, MaxPn, MaxWire,
          EarlyMax, EarlySkip, Overhead, MaxUnsent, MaxSeq,
          Requests, Clients, q1, q2, q3, n1, n2, MaxOut, Room
VARIABLES part, conn, wire, plan, ends, records, program, sv, web, calls

Calm == [losses |-> 0, repeats |-> 0, probes |-> 0, closes |-> 0, idles |-> 0,
         flight |-> 3, hasty |-> FALSE]

(* A long flight, held back by the amplification limit, with a loss; two   *)
(* losses; a probe that was not needed; a repeat; closes that meet a loss, *)
(* the idle time or each other.                                            *)
Plans ==
    {[Calm EXCEPT !.probes = 1, !.flight = 7],
     [Calm EXCEPT !.losses = 1, !.flight = 7],
     [Calm EXCEPT !.probes = 2, !.losses = 2],
     [Calm EXCEPT !.probes = 1, !.losses = 1, !.flight = 2, !.hasty = TRUE],
     [Calm EXCEPT !.repeats = 1, !.losses = 1],
     [Calm EXCEPT !.closes = 1, !.losses = 1],
     [Calm EXCEPT !.closes = 1, !.idles = 1],
     [Calm EXCEPT !.closes = 2]}

(* TLS: full handshakes of both versions with every client certificate and *)
(* a retry; early data offered, with a retry, a ticket the server does not *)
(* know, or a server that does not take it; updates of the keys, asked     *)
(* for or not, and handshakes asked for on a connection that has one. The  *)
(* data of a program comes in records of one size: tiny, of which the early *)
(* data allowed is more than a refusal passes over; small; or so large that *)
(* two are more than an end keeps unsent.                                   *)
Each(c, s) == [client |-> c, server |-> s]
Cfg == [v12 |-> FALSE, hrr |-> FALSE, psk |-> "none", early |-> "none",
        auth |-> "none", cert |-> FALSE, tickets |-> TRUE]
Early == [Cfg EXCEPT !.psk = "good", !.early = "taken"]
Tiny == 1
Small == 2
Large == 20
Program(cfg, n, w, u, k, asks) ==
    [cfg |-> cfg, size |-> n, writes |-> w, updates |-> u, closes |-> k, asks |-> asks]

Programs ==
    {Program([Cfg EXCEPT !.v12 = v, !.hrr = h /\ ~v, !.auth = a, !.cert = k],
             Small, Each(1, 1), Each(0, 0), Each(1, 1), FALSE) :
        v, h, k \in BOOLEAN, a \in {"none", "optional", "require"}}
    \cup {Program([Early EXCEPT !.hrr = h, !.psk = p, !.early = y],
                  Small, Each(3, 2), Each(0, 0), Each(1, 1), FALSE) :
             h \in BOOLEAN, p \in {"good", "bad"}, y \in {"taken", "left"}}
    \cup {Program([Early EXCEPT !.auth = "optional", !.psk = "bad", !.cert = k],
                  Tiny, Each(3, 2), Each(0, 0), Each(0, 0), FALSE) : k \in BOOLEAN}
    \cup {Program([Early EXCEPT !.v12 = v, !.early = "none", !.tickets = k],
                  Large, Each(2, 2), Each(1, 1), Each(0, 1), k) : k, v \in BOOLEAN}
    \cup {Program([Early EXCEPT !.hrr = TRUE], Tiny, Each(3, 0), Each(0, 0), Each(0, 0), FALSE)}

H == INSTANCE QuicHandshake
T == INSTANCE TlsConn WITH conn <- ends, wire <- records, plan <- program,
                           Plans <- Programs
P == INSTANCE HttpServerPlans
S == INSTANCE HttpEventServer WITH plan <- calls, Plans <- P!ServerPlans

quicVars == <<conn, wire, plan>>
tlsVars == <<ends, records, program>>
serverVars == <<sv, web, calls>>

OneOf(set) == CHOOSE x \in set : TRUE

PartsInit ==
    /\ part \in {"life", "keys", "tls", "posts", "server"}
    /\ H!Init /\ (part # "life" => plan = OneOf(Plans))
    /\ KeysInit
    /\ T!Init /\ (part # "tls" => program = OneOf(Programs))
    /\ S!Init /\ (part # "server" => calls = OneOf(P!ServerPlans))
    /\ Init /\ (part # "posts" => port)

PartsNext ==
    \/ part = "life" /\ H!Next
       /\ UNCHANGED <<part, serverVars, keyVars, tlsVars, vars>>
    \/ part = "keys" /\ KeysNext
       /\ UNCHANGED <<part, serverVars, quicVars, tlsVars, vars>>
    \/ part = "tls" /\ T!Next
       /\ UNCHANGED <<part, serverVars, quicVars, keyVars, vars>>
    \/ part = "posts" /\ Next
       /\ UNCHANGED <<part, serverVars, quicVars, keyVars, tlsVars>>
    \/ part = "server" /\ S!Next
       /\ UNCHANGED <<part, quicVars, keyVars, tlsVars, vars>>

PartsSpec ==
    PartsInit /\ [][PartsNext]_<<part, serverVars, quicVars, keyVars, tlsVars, vars>>

NeverSleepsUnconfirmed == part = "life" => H!NeverSleepsUnconfirmed
EndsAgree == part = "life" => H!EndsAgree
NoHonestAlert == part = "tls" => T!NoHonestAlert
SecretsAgree == part = "tls" => T!SecretsAgree
DataIsWhole == part = "tls" => T!DataIsWhole
AnsweredInOrder == part = "server" => S!AnsweredInOrder
NobodyStranded == part = "server" => S!NobodyStranded
=============================================================================
