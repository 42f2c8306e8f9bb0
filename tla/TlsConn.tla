------------------------------ MODULE TlsConn ------------------------------
(* Two ends of a TLS connection over TCP (net/src/tls13.c), 1.3 or 1.2 as   *)
(* the server chooses: records that arrive in order and one by one, data    *)
(* before and after the handshake, key updates, closes, and what the        *)
(* programs may call in between.                                            *)
EXTENDS Integers, Sequences
LOCAL INSTANCE SequencesExt

CONSTANTS
    Plans,      \* what the two ends are configured for and will do
    EarlyMax, EarlySkip, Overhead, MaxUnsent, MaxSeq,
    MaxWire     \* records under way in one direction

INSTANCE Tls13
T12 == INSTANCE Tls12

VARIABLES
    conn,  \* the two ends, by role
    wire,  \* the records on their way to each end
    plan   \* what the programs may still do

vars == <<conn, wire, plan>>

End == {"client", "server"}
Peer(e) == IF e = "client" THEN "server" ELSE "client"

(* A hello leads to the version the server takes, an answer to the one it   *)
(* names.                                                                   *)
Message(c, m) ==
    CASE c.v12 -> IF Established(c) THEN T12!Post12Message(c, m)
                  ELSE IF c.role = "client" THEN T12!Client12Message(c, m)
                  ELSE T12!Server12Message(c, m)
      [] c.state = "WAIT_CH" /\ m.name = "CH" /\ c.cfg.v12 -> T12!Server12ClientHello(c, m)
      [] c.state = "WAIT_SH" /\ m.name = "SH" /\ m.v12 -> T12!Client12ServerHello(c, m)
      [] Established(c) -> PostMessage(c, m)
      [] c.role = "server" -> ServerMessage(c, m)
      [] OTHER -> ClientMessage(c, m)

Content(c, r) ==
    CASE r.type = "handshake" -> Message(c, r.m)
      [] r.type = "alert" -> IF r.m.name = "close" THEN [c EXCEPT !.eof = TRUE]
                             ELSE [c EXCEPT !.fault = "alerted"]
      [] Established(c) -> [c EXCEPT !.plain = r.m.data]
      [] c.state = "WAIT_EOED" /\ r.m.size <= c.left ->
            [c EXCEPT !.plain = r.m.data, !.left = @ - r.m.size]
      [] OTHER -> Fail(c, "unexpected")

Record12Process(c, r) ==
    CASE r.type = "ccs" -> T12!Ccs12Received(c)
      [] r.key # c.read -> Fail(c, "bad_record_mac")
      [] r.type = "handshake" -> Message(c, r.m)
      [] r.type = "alert" ->
            CASE r.m.name = "close"   -> [c EXCEPT !.eof = TRUE]
              [] r.m.name = "warning" -> c
              [] OTHER                -> [c EXCEPT !.fault = "alerted"]
      [] Established(c) -> [c EXCEPT !.plain = r.m.data]
      [] OTHER -> Fail(c, "unexpected")

RecordProcess(c, r) ==
    CASE c.v12 -> Record12Process(c, r)
      [] r.type = "ccs" ->
            IF Established(c) \/ (c.state = "WAIT_CH" /\ ~c.retried)
            THEN Fail(c, "unexpected") ELSE c
      [] c.read = Clear /\ r.key = Clear -> Content(c, r)
      [] c.read = Clear -> IF MaySkip(c, r, FALSE) THEN Skipped(c, r) ELSE Fail(c, "unexpected")
      [] r.key = Clear -> Fail(c, "unexpected")
      [] r.key = c.read -> Content([c EXCEPT !.skip = 0], r)
      [] OTHER -> IF MaySkip(c, r, TRUE) THEN Skipped(c, r) ELSE Fail(c, "bad_record_mac")

-----------------------------------------------------------------------------
(* What the program calls                                                  *)

Init ==
    /\ plan \in Plans
    /\ conn = [e \in End |-> IF e = "client" THEN ClientHelloSend(Fresh(e, plan.cfg))
                          ELSE Fresh(e, plan.cfg)]
    /\ wire = [e \in End |-> <<>>]

(* One record of the pending output is sent                                *)
OutputSent(e) ==
    /\ conn[e].out # <<>> /\ Len(wire[Peer(e)]) < MaxWire
    /\ conn' = [conn EXCEPT ![e].out = Tail(@)]
    /\ wire' = [wire EXCEPT ![Peer(e)] = Append(@, Head(conn[e].out))]
    /\ UNCHANGED plan

FeedOver(e) ==     \* the data not read yet is written over
    /\ wire[e] # <<>> /\ ~Dead(conn[e])
    /\ conn' = [conn EXCEPT ![e] = IF @.eof THEN @ ELSE RecordProcess(@, Head(wire[e]))]
    /\ wire' = [wire EXCEPT ![e] = Tail(@)]
    /\ UNCHANGED plan

(* Nothing is taken in while data waits to be read; after a close, whatever *)
(* comes is thrown away.                                                    *)
Feed(e) ==
    /\ wire[e] # <<>> /\ ~Dead(conn[e]) /\ conn[e].plain = 0
    /\ conn' = [conn EXCEPT ![e] = IF @.eof THEN @ ELSE RecordProcess(@, Head(wire[e]))]
    /\ wire' = [wire EXCEPT ![e] = Tail(@)]
    /\ UNCHANGED plan

Read(e) ==
    /\ conn[e].plain # 0
    /\ conn' = [conn EXCEPT ![e].plain = 0, ![e].got = Append(@, conn[e].plain)]
    /\ UNCHANGED <<wire, plan>>

MayWrite(e, c) ==
    \/ Established(c)
    \/ e = "server" /\ c.early = "accepted" /\ c.state \in {"WAIT_EOED", "WAIT_FINISHED"}
    \/ e = "client" /\ c.early = "offered" /\ c.state = "WAIT_SH"

(* One record of data, numbered by its place in what the program wrote     *)
Sealed(c, n) ==
    [Emit(c, "data", [name |-> "DATA", data |-> Len(c.sent) + 1, size |-> n])
        EXCEPT !.sent = Append(@, [early |-> c.write = EarlyKey, size |-> n])]

Write(e) ==
    LET c == conn[e]
        early == ~Established(c) /\ e = "client"
        n == IF early /\ c.left < plan.size THEN c.left ELSE plan.size
    IN  /\ plan.writes[e] > 0
        /\ ~Dead(c) /\ c.closed = "no" /\ MayWrite(e, c)
        /\ Unsent(c) < MaxUnsent
        /\ early => c.left > 0
        /\ c.v12 => c.seq < MaxSeq
        /\ conn' = [conn EXCEPT ![e] =
             CASE early -> [Sealed(c, n) EXCEPT !.left = @ - n]
               [] c.seq >= MaxSeq -> Sealed(KeyUpdateSend(c, FALSE), n)
               [] OTHER -> Sealed(c, n)]
        /\ plan' = [plan EXCEPT !.writes[e] = @ - 1]
        /\ UNCHANGED wire

(* A server's or an established end's data may go past the pending output,  *)
(* when that is empty; a new key sends its message by the ordinary way.     *)
SealInto(e) ==
    LET c == conn[e]
        sealed == Sealed(c, plan.size)
    IN  /\ plan.writes[e] > 0
        /\ ~Dead(c) /\ c.closed = "no" /\ MayWrite(e, c)
        /\ Established(c) \/ e = "server"
        /\ c.out = <<>> /\ Len(wire[Peer(e)]) < MaxWire
        /\ c.v12 => c.seq < MaxSeq
        /\ IF c.seq >= MaxSeq
           THEN /\ conn' = [conn EXCEPT ![e] = KeyUpdateSend(c, FALSE)]
                /\ UNCHANGED <<wire, plan>>
           ELSE /\ conn' = [conn EXCEPT ![e] = [sealed EXCEPT !.out = <<>>]]
                /\ wire' = [wire EXCEPT ![Peer(e)] = @ \o sealed.out]
                /\ plan' = [plan EXCEPT !.writes[e] = @ - 1]

Close(e) ==
    /\ plan.closes[e] > 0 /\ ~Dead(conn[e]) /\ conn[e].closed = "no"
    /\ conn' = [conn EXCEPT ![e] =
         [Emit(@, "alert", [name |-> "close"]) EXCEPT
             !.closed = IF Established(conn[e]) THEN "late" ELSE "early"]]
    /\ plan' = [plan EXCEPT !.closes[e] = @ - 1]
    /\ UNCHANGED wire

(* Of TLS 1.2 there is none. This library asks for nothing in return, and   *)
(* for no new handshake; another may (plan.asks).                           *)
KeyUpdate(e) ==
    LET c == conn[e]
    IN  /\ plan.updates[e] > 0
        /\ ~Dead(c) /\ Established(c) /\ c.closed = "no"
        /\ \/ ~c.v12 /\ conn' = [conn EXCEPT ![e] = KeyUpdateSend(c, plan.asks)]
           \/ c.v12 /\ plan.asks
              /\ conn' = [conn EXCEPT ![e] =
                   Emit(c, "handshake", [name |-> T12!Renegotiate[Peer(e)]])]
        /\ plan' = [plan EXCEPT !.updates[e] = @ - 1]
        /\ UNCHANGED wire

Next == \E e \in End :
    OutputSent(e) \/ Feed(e) \/ Read(e) \/ Write(e) \/ SealInto(e) \/ Close(e) \/ KeyUpdate(e)

Spec == Init /\ [][Next]_vars

-----------------------------------------------------------------------------
(* Properties                                                              *)

Quiet(e) == wire[e] = <<>> /\ conn[Peer(e)].out = <<>>
Whole == \A e \in End : ~Dead(conn[e])

(* The early records the client has written, by their length                *)
EarlyLength ==
    LET sent == conn["client"].sent
    IN  FoldLeft(LAMBDA sum, w : IF w.early THEN sum + Overhead + w.size ELSE sum, 0, sent)

(* No order of writes, early data, updates, closes and the handshake makes  *)
(* one end of this library fail the other, which did nothing wrong. What   *)
(* may end a connection: a certificate required and not there; a close     *)
(* before the handshake is done, under keys the other end has left; early   *)
(* data within the ticket's allowance, refused, in records so small that    *)
(* together they are longer than the server passes over; and an update      *)
(* asked of an end that has more waiting to be sent than its bound.         *)
NoHonestAlert ==
    \A e \in End : Dead(conn[e]) =>
        \/ plan.cfg.auth = "require" /\ ~plan.cfg.cert
        \/ \E f \in End : conn[f].closed = "early"
        \/ conn["server"].early = "refused" /\ EarlyLength > EarlySkip
        \/ plan.asks /\ \E f \in End : conn[f].burden > MaxUnsent

(* Two ends that both hold the handshake done hold the same: the messages, *)
(* what became of the early data, the certificate, the secret that resumes *)
(* the connection - which the server may have sent before the client's     *)
(* Finished had come - and, when nothing is under way, the keys.           *)
SecretsAgree ==
    LET c == conn["client"]
        s == conn["server"]
    IN  Established(c) /\ Established(s) =>
          /\ c.early = s.early /\ c.early # "offered"
          /\ c.psk = s.psk /\ c.v12 = s.v12 /\ c.master = s.master
          /\ s.peerCert = (s.asked /\ plan.cfg.cert)
          /\ c.ticket \in {<<>>, s.ticket}
          /\ c.v12 \/ c.tr = s.tr
          /\ s.ticket \in {<<>>, IF c.v12 THEN c.master ELSE c.tr}
          /\ \A e \in End : Whole /\ Quiet(e) => conn[e].read = conn[Peer(e)].write

(* The numbers of the data an end is still to be given                      *)
Counts(e, key) == ~(key = EarlyKey /\ e = "server" /\ conn[e].early = "refused")
OnTheWay(e) ==
    LET data == SelectSeq(wire[e] \o conn[Peer(e)].out,
                          LAMBDA r : r.type = "data" /\ Counts(e, r.key))
    IN  [i \in 1 .. Len(data) |-> data[i].m.data]
Written(e) ==
    LET sent == conn[Peer(e)].sent
    IN  SelectSeq([i \in 1 .. Len(sent) |-> i],
                  LAMBDA i : Counts(e, IF sent[i].early THEN EarlyKey ELSE AppKey))
Given(e) == IF conn[e].plain = 0 THEN conn[e].got ELSE Append(conn[e].got, conn[e].plain)

(* Every record written is read once, in order, before the end of the data, *)
(* or belongs to early data refused, none of which is read; the client is  *)
(* told which it was. A close is heard, behind all the data.                *)
DataIsWhole ==
    \A e \in End : Whole /\ (conn[e].eof => conn[Peer(e)].closed = "late") =>
        /\ Given(e) \o OnTheWay(e) = Written(e)
        /\ Quiet(e) /\ conn[Peer(e)].closed = "late" => conn[e].eof
=============================================================================
