--------------------------- MODULE QuicHandshake ---------------------------
(***************************************************************************)
(* The life of a QUIC connection around its streams, of src/net/src/       *)
(* quic_conn.c: the three packet number spaces and their keys, the TLS     *)
(* messages carried in CRYPTO frames, a server's limit on what it sends to *)
(* an address it has not validated, the loss and probe timer, packets held *)
(* for keys still to come, the end of the handshake and the closing of a   *)
(* connection.  The network loses, reorders and repeats datagrams.         *)
(*                                                                         *)
(* A TLS message is a unit of CRYPTO data: the client's hello; the         *)
(* server's hello; the units of its Handshake flight; the client's         *)
(* Finished.  A datagram holds Full units.  Time is left out: a timer that *)
(* is armed may run out at any moment, or, in a plan that is not hasty, a  *)
(* probe timeout comes when all that is under way has come or is lost.     *)
(***************************************************************************)
EXTENDS Integers, FiniteSets, Sequences, FiniteSetsExt, SequencesExt

CONSTANTS
    Full,           \* units a datagram takes; PROVEN_QUIC_MIN_INITIAL
    Pending,        \* QC_PENDING
    MaxPn,          \* packets an end may send in one space: a bound of the model
    MaxWire,        \* datagrams on their way to one end: a bound of the model
    Plans           \* the faults, timeouts and calls still to come

VARIABLES
    conn,           \* the two proven_quic_conn_t
    wire,           \* the datagrams on their way to each end
    plan            \* what may still happen

vars == <<conn, wire, plan>>

Ends == {"client", "server"}
Peer(e) == IF e = "client" THEN "server" ELSE "client"
Levels == 0..2                          \* Initial, Handshake, 1-RTT
None == -1

NewSpace ==
    [rx_ok |-> FALSE, tx_ok |-> FALSE, discarded |-> FALSE, next_pn |-> 0,
     rcvd |-> {}, ack_owed |-> FALSE, ack_any |-> FALSE,
     sent |-> {}, largest_acked |-> None, probes |-> 0,
     owed |-> {}, crypto_acked |-> {}, written |-> 0,           \* crypto_tx
     got |-> {}, read |-> 0,                                    \* crypto_rx
     pending |-> << >>]
OpenSpace == [NewSpace EXCEPT !.rx_ok = TRUE, !.tx_ok = TRUE]

Write(sp, n) == [sp EXCEPT !.owed = @ \cup sp.written..(sp.written + n - 1), !.written = @ + n]

NewConn(e) ==
    [state |-> "handshake", complete |-> FALSE, confirmed |-> FALSE,
     validated |-> e = "client", amp_rx |-> 0, amp_tx |-> 0,
     hs_acked |-> FALSE, done_owed |-> FALSE, app_owed |-> FALSE, armed |-> "no",
     established |-> 0, told |-> 0,     \* events told
     close_owed |-> FALSE, close_unsent |-> FALSE, close_rx |-> 0,
     sp |-> [l \in Levels |-> CASE l = 0 /\ e = "client" -> Write(OpenSpace, 1)
                                [] l = 0 /\ e = "server" -> OpenSpace
                                [] OTHER -> NewSpace]]

Over(h) == h.state \in {"closing", "draining", "closed"}

----------------------------------------------------------------------------
(* Timers.                                                                 *)

Eliciting(sp) == {p \in sp.sent : p.eliciting}
any_ack_eliciting_in_flight(h) == \E l \in Levels : Eliciting(h.sp[l]) # {}
LossTime(sp) == \E p \in sp.sent : p.pn <= sp.largest_acked

(* A client that the server may be unable to answer keeps a probe timer.   *)
peer_validated_usOnceAnswered(e, h) == e = "server" \/ h.sp[1].rx_ok
peer_validated_us(e, h) == e = "server" \/ h.confirmed \/ h.hs_acked
amp_blocked(e, h) == e = "server" /\ ~h.validated /\ h.amp_tx + Full > 3 * h.amp_rx

(* The spaces a probe timeout may be for: 1-RTT only once confirmed.  With *)
(* nothing in flight it is the latest a client can write in.               *)
pto_spaces(h) ==
    IF any_ack_eliciting_in_flight(h)
    THEN {l \in Levels : Eliciting(h.sp[l]) # {} /\ ~h.sp[l].discarded /\ (l = 2 => h.confirmed)}
    ELSE {IF h.sp[1].tx_ok /\ ~h.sp[1].discarded THEN 1 ELSE 0}

set_loss_timer(e, h) ==
    [h EXCEPT !.armed =
        CASE \E l \in Levels : LossTime(h.sp[l]) -> "loss"
          [] OTHER -> IF \/ amp_blocked(e, h)
                         \/ ~any_ack_eliciting_in_flight(h) /\ peer_validated_us(e, h)
                         \/ pto_spaces(h) = {}
                      THEN "no" ELSE "pto"]

(* A space's keys go, with all that was in flight or held there.           *)
space_discard(h, l) ==
    [h EXCEPT !.sp[l] = [NewSpace EXCEPT !.discarded = TRUE, !.next_pn = h.sp[l].next_pn]]

----------------------------------------------------------------------------
(* What a packet carried, acknowledged and lost.                           *)

frame_acked(e, l, h, f) ==
    IF f.k = "crypto"
    THEN [h EXCEPT !.sp[l].crypto_acked = @ \cup f.u,
                   !.sp[l].owed = @ \ f.u,
                   !.hs_acked = @ \/ (e = "client" /\ l = 1)]
    ELSE h

frame_lost(l, h, f) ==
    CASE f.k = "crypto" -> [h EXCEPT !.sp[l].owed = @ \cup (f.u \ h.sp[l].crypto_acked)]
      [] f.k = "done" -> [h EXCEPT !.done_owed = ~h.sp[2].discarded]
      [] f.k = "app" -> [h EXCEPT !.app_owed = TRUE]
      [] OTHER -> h

Frames(pkts) == UNION {p.fr : p \in pkts}
Lost(l, h, pkts) ==
    FoldSet(LAMBDA f, g : frame_lost(l, g, f), [h EXCEPT !.sp[l].sent = @ \ pkts], Frames(pkts))

(* Below the largest acknowledged, what age has come to is lost.           *)
detect_lost(l, h, aged) ==
    IF aged THEN Lost(l, h, {p \in h.sp[l].sent : p.pn <= h.sp[l].largest_acked}) ELSE h

on_ack(e, l, h, pns, aged) ==
    LET newly == {p \in h.sp[l].sent : p.pn \in pns}
        h1 == FoldSet(LAMBDA f, g : frame_acked(e, l, g, f),
                      [h EXCEPT !.sp[l].sent = @ \ newly, !.sp[l].largest_acked = Max({@} \cup pns)],
                      Frames(newly))
    IN IF newly = {} THEN h1 ELSE detect_lost(l, h1, aged)

----------------------------------------------------------------------------
(* What TLS does of the messages it has in full, and the connection of     *)
(* that: output, keys, the end of the handshake.                           *)

tls_after(e, l, h) ==
    LET read == h.sp[l].read
    IN CASE e = "server" /\ l = 0 /\ read = 1 ->
              [h EXCEPT !.sp = [@ EXCEPT ![0] = Write(@, 1),
                                         ![1] = [Write(@, plan.flight) EXCEPT !.rx_ok = TRUE, !.tx_ok = TRUE],
                                         ![2].tx_ok = TRUE]]
         [] e = "server" /\ l = 1 /\ read = 1 ->
              space_discard([h EXCEPT !.complete = TRUE, !.state = "open", !.established = @ + 1,
                                      !.sp[2].rx_ok = TRUE, !.confirmed = TRUE, !.done_owed = TRUE], 1)
         [] e = "client" /\ l = 0 /\ read = 1 ->
              [h EXCEPT !.sp[1].rx_ok = TRUE, !.sp[1].tx_ok = TRUE]
         [] e = "client" /\ l = 1 /\ read = plan.flight ->
              [h EXCEPT !.complete = TRUE, !.state = "open", !.established = @ + 1, !.app_owed = TRUE,
                        !.sp = [@ EXCEPT ![1] = Write(@, 1), ![2].rx_ok = TRUE, ![2].tx_ok = TRUE]]
         [] OTHER -> h

(* A unit that completes the stream up to it is fed, and those behind it.  *)
RECURSIVE feed(_, _, _)
feed(e, l, h) ==
    IF h.sp[l].discarded \/ h.sp[l].read \notin h.sp[l].got THEN h
    ELSE feed(e, l, tls_after(e, l, [h EXCEPT !.sp[l].read = @ + 1]))
on_crypto(e, l, h, units) == feed(e, l, [h EXCEPT !.sp[l].got = @ \cup units])

conn_drain(h) ==
    [h EXCEPT !.state = "draining", !.close_unsent = FALSE,
              !.told = IF h.state = "closing" THEN @ ELSE @ + 1]

on_frame(e, l, h, f) ==
    CASE Over(h) -> h
      [] ~Over(h) /\ f.k = "crypto" -> on_crypto(e, l, h, f.u)
      [] ~Over(h) /\ f.k = "close" -> conn_drain(h)
      [] ~Over(h) /\ f.k = "done" ->
           IF h.confirmed THEN h ELSE space_discard([h EXCEPT !.confirmed = TRUE], 1)
      [] OTHER -> h

ack_note(l, h, p) ==
    IF h.sp[l].discarded THEN h
    ELSE [h EXCEPT !.sp[l].rcvd = @ \cup {p.pn}, !.sp[l].ack_any = TRUE, !.sp[l].ack_owed = @ \/ p.eliciting]

PowerOfTwo(n) == n \in {1, 2, 4, 8, 16}

(* One packet of a datagram: r is the connection so far, whether any       *)
(* packet was opened, and whether the rest of the datagram is left unread. *)
read_packet(e, r, p, aged) ==
    LET h == r.h
        l == p.lvl
        sp == h.sp[l]
        answered == [h EXCEPT !.close_rx = @ + 1, !.close_owed = @ \/ PowerOfTwo(h.close_rx + 1)]
        valid == IF e = "server" /\ l = 1 THEN space_discard([h EXCEPT !.validated = TRUE], 0) ELSE h
        acked == IF p.ack = {} THEN valid ELSE on_ack(e, l, valid, p.ack, aged)
        done == FoldSet(LAMBDA f, g : on_frame(e, l, g, f), acked, p.fr)
    IN CASE r.stop \/ h.state \in {"draining", "closed"} \/ sp.discarded \/ (sp.rx_ok /\ p.pn \in sp.rcvd) -> r
         [] OTHER ->
              CASE ~sp.rx_ok ->
                     [r EXCEPT !.stop = TRUE,
                               !.h.sp[l].pending = IF Len(@) < Pending THEN Append(@, p) ELSE @]
                [] sp.rx_ok /\ h.state = "closing" ->
                     IF [k |-> "close"] \in p.fr THEN [r EXCEPT !.h = conn_drain(answered), !.stop = TRUE]
                     ELSE [r EXCEPT !.h = answered, !.any = TRUE]
                [] OTHER ->
                     IF done.state = "draining" THEN [r EXCEPT !.h = done, !.stop = TRUE]
                     ELSE [r EXCEPT !.h = ack_note(l, done, p), !.any = TRUE]

read_datagram(e, h, d, aged) ==
    LET r == FoldLeft(LAMBDA a, p : read_packet(e, a, p, aged), [h |-> h, any |-> FALSE, stop |-> FALSE], d.pkts)
    IN IF r.any /\ e = "server" THEN [r.h EXCEPT !.amp_rx = @ + d.size] ELSE r.h

(* What was held for keys that have come since is read as it would have    *)
(* been, each packet as a datagram of its own.                             *)
ReplayLevel(e, l, h) ==
    IF ~h.sp[l].rx_ok THEN h
    ELSE FoldLeft(LAMBDA g, p : read_datagram(e, g, [pkts |-> <<p>>, size |-> p.size], FALSE),
                  [h EXCEPT !.sp[l].pending = << >>], h.sp[l].pending)
replay_held(e, h) == ReplayLevel(e, 2, ReplayLevel(e, 1, h))

----------------------------------------------------------------------------
(* Datagrams sent.                                                         *)

SendBudgetPerDatagram(e, h) == IF e = "server" /\ ~h.validated THEN Min({Full, 3 * h.amp_rx}) ELSE Full
SendBudget(e, h) ==
    IF e = "server" /\ ~h.validated THEN Min({Full, Max({0, 3 * h.amp_rx - h.amp_tx})}) ELSE Full

(* Frames of the application space, once it may be used.                   *)
AppFrames(h) ==
    IF h.state # "open" THEN {}
    ELSE {[k |-> "done"] : x \in {y \in {1} : h.done_owed}} \cup {[k |-> "app"] : x \in {y \in {1} : h.app_owed}}

First(units, n) == {u \in units : Cardinality({v \in units : v < u}) < n}

space_has_eliciting(h, l) == h.sp[l].probes > 0 \/ h.sp[l].owed # {} \/ (l = 2 /\ AppFrames(h) # {})

(* The packet of space l with room units: its ACK when one is due or       *)
(* frames go anyway, and its frames; none if it would be empty.            *)
build_packet(h, l, room, ok) ==
    LET sp == h.sp[l]
        units == First(sp.owed, room)
        own == (IF units = {} THEN {} ELSE {[k |-> "crypto", u |-> units]}) \cup (IF l = 2 THEN AppFrames(h) ELSE {})
        fr == IF ~ok THEN {} ELSE IF own = {} /\ sp.probes > 0 THEN {[k |-> "ping"]} ELSE own
        ack == IF sp.ack_owed \/ (ok /\ sp.ack_any /\ space_has_eliciting(h, l)) THEN sp.rcvd ELSE {}
    IN {p \in {[lvl |-> l, pn |-> sp.next_pn, ack |-> ack, fr |-> fr, eliciting |-> fr # {},
                size |-> Max({1, Cardinality(units)})]} : p.ack # {} \/ p.fr # {}}

MayWrite(e, h, l) == h.sp[l].tx_ok /\ ~h.sp[l].discarded /\ (l = 2 => e = "server" \/ h.complete)

(* The datagram an end sends next: a packet of each space in turn.         *)
NextDatagram(e, h) ==
    LET budget == SendBudget(e, h)
        Add(pkts, l) ==
            LET at == FoldLeft(LAMBDA n, p : n + p.size, 0, pkts)
                ok == ~(e = "server" /\ l = 0 /\ budget < Full)
            IN IF ~MayWrite(e, h, l) \/ budget - at < 1 THEN pkts
               ELSE pkts \o SetToSeq(build_packet(h, l, budget - at, ok))
    IN FoldLeft(Add, << >>, <<0, 1, 2>>)

(* A client's datagram with an Initial, and a server's with one that asks  *)
(* for an ACK, is filled up.                                               *)
Padded(e, pkts) == \E i \in 1..Len(pkts) : pkts[i].lvl = 0 /\ (e = "client" \/ pkts[i].eliciting)
SizeOf(e, pkts) == IF Padded(e, pkts) THEN Full ELSE FoldLeft(LAMBDA n, p : n + p.size, 0, pkts)

seal(e, h, pkts) ==
    LET One(g, i) ==
            LET p == pkts[i]
                l == p.lvl
                kept == p.eliciting \/ (i = Len(pkts) /\ Padded(e, pkts))
            IN [g EXCEPT !.sp[l] = [@ EXCEPT !.next_pn = @ + 1,
                                             !.sent = IF kept THEN @ \cup {[pn |-> p.pn, fr |-> p.fr, eliciting |-> p.eliciting]} ELSE @,
                                             !.probes = IF p.eliciting /\ @ > 0 THEN @ - 1 ELSE @,
                                             !.owed = @ \ UNION {f.u : f \in {x \in p.fr : x.k = "crypto"}},
                                             !.ack_owed = @ /\ p.ack = {},
                                             !.ack_any = @ /\ p.ack = {}],
                         !.done_owed = @ /\ [k |-> "done"] \notin p.fr,
                         !.app_owed = @ /\ [k |-> "app"] \notin p.fr]
    IN FoldLeft(One, [h EXCEPT !.amp_tx = IF e = "server" THEN @ + SizeOf(e, pkts) ELSE @], [i \in 1..Len(pkts) |-> i])

ClosePacketsHighest(h, room) ==
    LET l == Max({x \in Levels : h.sp[x].tx_ok /\ ~h.sp[x].discarded})
    IN <<[lvl |-> l, pn |-> h.sp[l].next_pn, ack |-> {}, fr |-> {[k |-> "close"]}, eliciting |-> FALSE, size |-> 1]>>
(* The close goes in each space the peer may be able to read.              *)
ClosePackets(h, room) ==
    LET lvls == {l \in Levels : /\ h.sp[l].tx_ok /\ ~h.sp[l].discarded
                                /\ l = 2 => h.complete \/ ~h.sp[1].tx_ok \/ h.sp[1].discarded}
        Close(l) == [lvl |-> l, pn |-> h.sp[l].next_pn, ack |-> {}, fr |-> {[k |-> "close"]}, eliciting |-> FALSE, size |-> 1]
        ordered == SetToSortSeq(First(lvls, room), <)
    IN [i \in 1..Len(ordered) |-> Close(ordered[i])]

----------------------------------------------------------------------------
(* The steps of an end.                                                    *)

Budget(what) == plan[what] > 0
Spend(what) == plan' = [plan EXCEPT ![what] = @ - 1]
Bounded(e) == /\ Cardinality(wire[Peer(e)]) < MaxWire
              /\ \A l \in Levels : conn[e].sp[l].next_pn < MaxPn
HasToSend(e) ==
    \/ ~Over(conn[e]) /\ NextDatagram(e, conn[e]) # << >>
    \/ conn[e].state = "closing" /\ (conn[e].close_unsent \/ conn[e].close_owed)

Hushed == \A e \in Ends : ~HasToSend(e) /\ wire[e] = {}

(* The driver sends all there is before it waits.                          *)
Settled(e) == ~HasToSend(e) \/ ~Bounded(e)

(* A client drops its Initial keys when it first writes at Handshake.      *)
Send(e) ==
    LET h == conn[e]
        pkts == NextDatagram(e, h)
        sealed == seal(e, h, pkts)
        sent == IF e = "client" /\ \E i \in 1..Len(pkts) : pkts[i].lvl = 1 THEN space_discard(sealed, 0) ELSE sealed
    IN /\ ~Over(h) /\ pkts # << >> /\ Bounded(e)
       /\ conn' = [conn EXCEPT ![e] = set_loss_timer(e, sent)]
       /\ wire' = [wire EXCEPT ![Peer(e)] = @ \cup {[pkts |-> pkts, size |-> SizeOf(e, pkts)]}]
       /\ UNCHANGED plan

(* The closing period starts at the first chance to send the close.        *)
SendClose(e) ==
    LET h == [conn[e] EXCEPT !.close_unsent = FALSE]
        room == SendBudget(e, h)
        pkts == ClosePackets(h, room)
        size == Len(pkts)
        going == h.close_owed /\ room > 0
    IN /\ h.state = "closing" /\ (conn[e].close_unsent \/ (h.close_owed /\ room > 0)) /\ Bounded(e)
       /\ conn' = [conn EXCEPT ![e] = IF going THEN seal(e, [h EXCEPT !.close_owed = FALSE], pkts) ELSE h]
       /\ wire' = [wire EXCEPT ![Peer(e)] = IF going THEN @ \cup {[pkts |-> pkts, size |-> size]} ELSE @]
       /\ UNCHANGED plan

Take(e, d, aged) == set_loss_timer(e, replay_held(e, read_datagram(e, conn[e], d, aged)))

Receive(e, d, aged) ==
    /\ Settled(e) /\ conn[e].state \notin {"draining", "closed"}
    /\ conn' = [conn EXCEPT ![e] = Take(e, d, aged)]
    /\ wire' = [wire EXCEPT ![e] = @ \ {d}]
    /\ UNCHANGED plan

(* The network repeats a datagram: a copy is still to come.                *)
ReceiveOneOfTwo(e, d, aged) ==
    /\ Settled(e) /\ conn[e].state \notin {"draining", "closed"} /\ Budget("repeats")
    /\ conn' = [conn EXCEPT ![e] = Take(e, d, aged)]
    /\ Spend("repeats")
    /\ UNCHANGED wire

Lose(e, d) ==
    /\ Budget("losses") \/ conn[e].state \in {"draining", "closed"}
    /\ wire' = [wire EXCEPT ![e] = @ \ {d}]
    /\ IF conn[e].state \in {"draining", "closed"} THEN UNCHANGED plan ELSE Spend("losses")
    /\ UNCHANGED conn

(* The loss timer: packets lost by age, or a probe timeout of space l,     *)
(* whose probes carry the oldest packet's frames and all CRYPTO data that  *)
(* is not acknowledged.                                                    *)
LossTimeout(e) ==
    LET h == conn[e]
        l == CHOOSE x \in Levels : LossTime(h.sp[x]) /\ \A y \in Levels : LossTime(h.sp[y]) => x <= y
    IN /\ Settled(e) /\ ~Over(h) /\ h.armed = "loss"
       /\ conn' = [conn EXCEPT ![e] = set_loss_timer(e, detect_lost(l, h, TRUE))]
       /\ UNCHANGED <<wire, plan>>

ProbeTimeout(e, l) ==
    LET h == conn[e]
        oldest == {p \in h.sp[l].sent : \A q \in h.sp[l].sent : p.pn <= q.pn}
        again == FoldSet(LAMBDA f, g : frame_lost(l, g, f), [h EXCEPT !.sp[l].probes = 2], Frames(oldest))
        all == IF l = 2 THEN again
               ELSE [again EXCEPT !.sp[l].owed = (0..(again.sp[l].written - 1)) \ again.sp[l].crypto_acked]
    IN /\ Settled(e) /\ ~Over(h) /\ h.armed = "pto" /\ Budget("probes") /\ (plan.hasty \/ Hushed) /\ l \in pto_spaces(h)
       /\ conn' = [conn EXCEPT ![e] = set_loss_timer(e, IF h.sp[l].discarded THEN h ELSE all)]
       /\ Spend("probes")
       /\ UNCHANGED wire

(* The application closes; the call has no time, the closing period starts *)
(* when the close is sent.                                                 *)
Close(e) ==
    /\ Budget("closes") /\ ~Over(conn[e])
    /\ conn' = [conn EXCEPT ![e] = [@ EXCEPT !.state = "closing", !.close_owed = TRUE, !.close_unsent = TRUE, !.told = @ + 1]]
    /\ Spend("closes")
    /\ UNCHANGED wire

(* The closing period is over; or the idle time.                           *)
Timeout(e) ==
    /\ \/ Over(conn[e]) /\ conn[e].state # "closed" /\ (~conn[e].close_unsent \/ Budget("idles")) /\ UNCHANGED plan
       \/ ~Over(conn[e]) /\ Budget("idles") /\ Spend("idles")
    /\ conn' = [conn EXCEPT ![e] = [@ EXCEPT !.state = "closed", !.told = IF Over(conn[e]) THEN @ ELSE @ + 1]]
    /\ UNCHANGED wire

Init ==
    /\ conn = [e \in Ends |-> NewConn(e)]
    /\ wire = [e \in Ends |-> {}]
    /\ plan \in Plans

Next ==
    \E e \in Ends :
        \/ Send(e) \/ SendClose(e) \/ LossTimeout(e) \/ Close(e) \/ Timeout(e)
        \/ \E d \in wire[e], aged \in BOOLEAN : Receive(e, d, aged) \/ ReceiveOneOfTwo(e, d, aged)
        \/ \E d \in wire[e] : Lose(e, d)
        \/ \E l \in Levels : ProbeTimeout(e, l)

Spec == Init /\ [][Next]_vars

----------------------------------------------------------------------------
(* Properties.                                                             *)

Confirmed == \A e \in Ends : conn[e].complete /\ conn[e].confirmed
Asleep(e) == ~HasToSend(e) /\ conn[e].armed = "no"

(* A handshake never sleeps: while it is not confirmed at both ends, some  *)
(* datagram is under way, or an end has something it may send, or a timer  *)
(* is armed (set_loss_timer, pto_time, the amplification limit,            *)
(* space_discard); and once it is, nothing is owed.                        *)
NeverSleepsUnconfirmed ==
    (\A e \in Ends : ~Over(conn[e]) /\ Asleep(e) /\ wire[e] = {}) =>
        Confirmed /\ \A e \in Ends : ~conn[e].done_owed /\ ~conn[e].app_owed

(* A close under way can be read by the end it goes to, whatever keys each *)
(* has by then: it is in a space whose keys that end has (send_close).     *)
CloseIsHeard ==
    \A e \in Ends : \A d \in wire[e] :
        /\ conn[e].state \in {"handshake", "open"}
        /\ \E i \in 1..Len(d.pkts) : [k |-> "close"] \in d.pkts[i].fr
        => read_datagram(e, conn[e], d, FALSE).state = "draining"

(* No end is ahead of what the other knows: who discards keys does so when *)
(* the other needs nothing more under them, a server sends an address it   *)
(* has not validated three times what came from it at most, and each       *)
(* application is told that its connection stands, and that it is over,    *)
(* once each; and a close under way will be heard (space_discard,           *)
(* proven_quic_conn_send, enter_closed_event).                             *)
EndsAgree ==
    LET c == conn["client"]
        s == conn["server"]
    IN /\ s.complete => c.complete /\ c.sp[1].read = IF c.confirmed THEN 0 ELSE plan.flight
       /\ c.confirmed => s.confirmed
       /\ c.sp[0].discarded => s.sp[1].rx_ok \/ s.complete \/ Over(s)
       /\ ~s.validated => s.amp_tx <= 3 * s.amp_rx
       /\ \A e \in Ends : /\ conn[e].established = IF conn[e].complete THEN 1 ELSE 0
                          /\ conn[e].told = IF Over(conn[e]) THEN 1 ELSE 0
       /\ CloseIsHeard
=============================================================================
