---------------------------- MODULE QuicStreams ----------------------------
(***************************************************************************)
(* The 1-RTT space of src/net/src/quic_conn.c between two ends whose       *)
(* handshake is over: streams, the two levels of flow control, the limit   *)
(* on streams, acknowledgement, loss and what is sent again.  The network  *)
(* between the ends loses, reorders and repeats packets.                   *)
(*                                                                         *)
(* Bytes are their offsets: a send queue keeps base..end-1, a set of       *)
(* ranges is the set of the numbers in it.  Time is left out:              *)
(* what the code does after a delay (an ACK that is due, a packet declared *)
(* lost by age, a probe timeout) may happen at any moment.  So may the     *)
(* congestion window and pacing hold a packet back.  A packet the receiver *)
(* drops unread (too many ranges, no key) is a packet lost.                *)
(***************************************************************************)
EXTENDS Integers, FiniteSets, Sequences, FiniteSetsExt, SequencesExt

CONSTANTS
    StreamWindow, ConnWindow,           \* cfg.stream_window, cfg.conn_window
    StreamWindowMax, ConnWindowMax,     \* 0, or how far the windows may grow
    StreamBuffer, ConnBuffer,           \* cfg.stream_send_buffer, cfg.conn_send_buffer
    Streams, StreamsNow,                \* cfg.max_streams_*, cfg.streams_bidi_now: the first grant
    Path,                               \* twice the congestion window, for what a sender may buffer
    MaxNet,                             \* packets under way to one end: a bound of the model
    Plans                               \* what the two applications and the network do

VARIABLES
    conn,       \* the two proven_quic_conn_t
    net,        \* the packets on their way to each end
    app,        \* each application's streams: left to write, taken, read, end read
    plan        \* the calls and faults still to come

vars == <<conn, net, app, plan>>

Ends == {"client", "server"}
Peer(e) == IF e = "client" THEN "server" ELSE "client"
Kinds == {0, 1}                         \* bidirectional, unidirectional
None == -1

(* QC_MAX_SENT, the packets recorded as in flight, and, a bound of the     *)
(* model, the packets one end may send.  A plan sets both, so that the     *)
(* limit of records is met in short plans and leaves room in long ones.    *)
MaxSent == plan.records
MaxPn == plan.packets

(* The two low bits of a stream's number: who opened it, and its kind.     *)
id_local(e, id) == id % 2 = (IF e = "server" THEN 1 ELSE 0)
id_kind(id) == (id \div 2) % 2
StreamId(e, k, i) == 4 * i + 2 * k + (IF e = "server" THEN 1 ELSE 0)
has_tx(e, id) == id_kind(id) = 0 \/ id_local(e, id)
has_rx(e, id) == id_kind(id) = 0 \/ ~id_local(e, id)

Bytes(off, len) == off..(off + len - 1)

----------------------------------------------------------------------------
(* Sending a byte stream.                                                  *)

NewSendq == [base |-> 0, end |-> 0, next |-> 0, lost |-> {}, acked |-> {},
             fin |-> FALSE, fin_sent |-> FALSE, fin_lost |-> FALSE, fin_acked |-> FALSE]

sendq_acked(q, f) ==
    LET acked == {o \in q.acked \cup Bytes(f.off, f.len) : o >= q.base}
        base == Min({o \in q.base..q.end : o \notin acked})
    IN [q EXCEPT !.fin_acked = @ \/ f.fin,
                 !.base = base,
                 !.acked = {o \in acked : o > base},
                 !.lost = {o \in @ \ Bytes(f.off, f.len) : o >= base}]

sendq_lost(q, f) ==
    [q EXCEPT !.fin_lost = @ \/ (f.fin /\ ~q.fin_acked),
              !.lost = @ \cup {o \in Bytes(f.off, f.len) : o >= q.base}]

(* The next piece: lost bytes first, then new ones up to limit, then the   *)
(* end alone.  A piece that stops at the ring's wrap is only a shorter one.*)
sendq_next(q, room, limit) ==
    LET owed == q.lost \ q.acked
        off == Min(owed)
        len == Max({n \in 1..room : Bytes(off, n) \subseteq owed})
        new == Min({Min({q.end, limit}) - q.next, room})
    IN CASE owed # {} ->
              {[off |-> off, len |-> len, fresh |-> FALSE,
                fin |-> q.fin /\ off + len = q.end /\ (q.fin_lost \/ ~q.fin_sent)]}
         [] owed = {} /\ new > 0 ->
              {[off |-> q.next, len |-> new, fresh |-> TRUE, fin |-> q.fin /\ q.next + new = q.end]}
         [] owed = {} /\ new <= 0 /\ q.fin /\ q.next = q.end /\ ~q.fin_acked /\ (~q.fin_sent \/ q.fin_lost) ->
              {[off |-> q.end, len |-> 0, fresh |-> FALSE, fin |-> TRUE]}
         [] OTHER -> {}

sendq_sent(q, p) ==
    [q EXCEPT !.lost = @ \ Bytes(p.off, p.len),
              !.next = Max({@, p.off + p.len}),
              !.fin_sent = @ \/ p.fin,
              !.fin_lost = @ /\ ~p.fin]

sendq_done(q) == q.fin /\ q.fin_acked /\ q.base = q.end

(* Receiving one.                                                          *)
NewRecvq == [read |-> 0, highest |-> 0, final |-> None, got |-> {}]

recvq_insert(q, off, len) ==
    [q EXCEPT !.got = @ \cup {o \in Bytes(off, len) : o >= q.read},
              !.highest = Max({@, off + len})]

recvq_readyOverGaps(q) == Cardinality(q.got)
recvq_ready(q) == Cardinality({o \in q.got : \A i \in q.read..o : i \in q.got})

(* The bytes handed over: what was never received is whatever was there.   *)
Copied(q, n) == [i \in 1..n |-> IF q.read + i - 1 \in q.got THEN q.read + i - 1 ELSE None]

recvq_take(q, n) == [q EXCEPT !.read = @ + n, !.got = {o \in @ : o >= q.read + n}]

----------------------------------------------------------------------------
(* A connection and its streams.                                           *)

FirstGrant == [k \in Kinds |-> IF k = 0 THEN StreamsNow ELSE Streams]

NewConn == [st |-> << >>, cursor |-> None,
            local_opened |-> [k \in Kinds |-> 0], peer_opened |-> [k \in Kinds |-> 0],
            peer_closed |-> [k \in Kinds |-> 0],
            our_max |-> FirstGrant, peer_max |-> FirstGrant,
            grant |-> StreamsNow, max_streams_owed |-> [k \in Kinds |-> FALSE],
            send_buffered |-> 0, tx_written |-> 0, send_room_freed |-> FALSE, tx_data |-> 0, tx_max_data |-> ConnWindow,
            rx_data |-> 0, rx_read |-> 0, rx_max_data |-> ConnWindow, rx_conn_window |-> ConnWindow,
            rx_cap |-> 0, max_data_owed |-> FALSE,
            next_pn |-> 0, sent |-> {}, largest_acked |-> None, probes |-> 0,
            unkept |-> {},              \* history: frames of packets sealed without a record
            rcvd |-> {}, ack_owed |-> FALSE, err |-> "none"]

NewStream(c) ==
    [tx |-> NewSendq, rx |-> NewRecvq, tx_max |-> StreamWindow, rx_max |-> StreamWindow,
     rx_window |-> IF c.rx_cap > 0 /\ c.rx_cap < StreamWindow THEN c.rx_cap ELSE StreamWindow,
     rx_max_owed |-> FALSE, tx_reset |-> FALSE, tx_reset_owed |-> FALSE, tx_reset_acked |-> FALSE,
     tx_reset_final |-> 0, rx_reset |-> FALSE, rx_stop_owed |-> FALSE, rx_stopped |-> FALSE,
     rx_fin_read |-> FALSE, rx_reset_reported |-> FALSE, tx_blocked |-> FALSE,
     ev |-> {}]                         \* of "opened", "reset", "stop", "readable", "writable"

Fail(c, code) == [c EXCEPT !.err = IF @ = "none" THEN code ELSE @]

stream_new(c, ids) == [c EXCEPT !.st = [i \in DOMAIN @ \cup ids |-> IF i \in DOMAIN @ THEN @[i] ELSE NewStream(c)]]

TxOver(e, id, s) == ~has_tx(e, id) \/ s.tx_reset_acked \/ sendq_done(s.tx)
RxOver(e, id, s) == ~has_rx(e, id) \/ s.rx_fin_read \/ s.rx_reset_reported

stream_maybe_freeNoGrant(e, c, id) ==
    IF id \in DOMAIN c.st /\ TxOver(e, id, c.st[id]) /\ RxOver(e, id, c.st[id]) /\ c.st[id].ev \ {"writable"} = {}
    THEN [c EXCEPT !.st = [i \in DOMAIN @ \ {id} |-> @[i]],
                   !.send_buffered = @ - (c.st[id].tx.end - c.st[id].tx.base)]
    ELSE c

(* A stream both of whose sides are over, and whose news was told, goes;   *)
(* one the peer opened is a stream more it may open.                       *)
stream_maybe_free(e, c, id) ==
    IF id \notin DOMAIN c.st THEN c
    ELSE LET s == c.st[id]
             k == id_kind(id)
             closed == c.peer_closed[k] + 1
             limit == closed + (IF k = 1 THEN Streams ELSE c.grant)
             held == s.tx.end - s.tx.base
             gone == [c EXCEPT !.st = [i \in DOMAIN @ \ {id} |-> @[i]],
                               !.send_buffered = @ - held,
                               !.send_room_freed = @ \/ held > 0]
         IN IF \/ ~TxOver(e, id, s) \/ ~RxOver(e, id, s)
               \/ s.ev \ {"writable"} # {} \/ s.rx_max_owed \/ s.tx_reset_owed \/ s.rx_stop_owed
            THEN c
            ELSE IF id_local(e, id) THEN gone
            ELSE [gone EXCEPT !.peer_closed[k] = closed,
                              !.our_max[k] = Max({@, limit}),
                              !.max_streams_owed[k] = @ \/ limit > c.our_max[k]]

(* The stream a peer's frame names: it and those below it are opened if    *)
(* the peer may; one that is over stays over.                              *)
stream_for_peer(e, c, id) ==
    LET k == id_kind(id)
        i == id \div 4
    IN CASE id \in DOMAIN c.st -> c
         [] id \notin DOMAIN c.st /\ id_local(e, id) ->
              IF i >= c.local_opened[k] THEN Fail(c, "stream state") ELSE c
         [] id \notin DOMAIN c.st /\ ~id_local(e, id) ->
              IF i >= c.our_max[k] THEN Fail(c, "stream limit")
              ELSE LET new == {StreamId(Peer(e), k, j) : j \in c.peer_opened[k]..i}
                       n == stream_new(c, new)
                   IN [n EXCEPT !.peer_opened[k] = Max({@, i + 1}),
                                !.st = [j \in DOMAIN @ |-> IF j \in new THEN [@[j] EXCEPT !.ev = {"opened"}] ELSE @[j]]]

(* A window emptied fast grows; under a ceiling it stops there.            *)
rx_grow(window, cap, fast) == IF cap <= window \/ ~fast THEN window ELSE Min({2 * window, cap})
rx_capped(c, cap) == IF c.rx_cap > 0 /\ cap > c.rx_cap THEN c.rx_cap ELSE cap

rx_credit_stream(c, id, fast) ==
    LET s == c.st[id]
        w == rx_grow(s.rx_window, rx_capped(c, StreamWindowMax), fast)
        want == w + w \div 2
        conn_max == rx_capped(c, ConnWindowMax)
        moved == [c EXCEPT !.st[id].rx_window = w,
                           !.st[id].rx_max = Max({@, s.rx.read + w}),
                           !.st[id].rx_max_owed = TRUE]
    IN CASE s.rx.final # None \/ s.rx_max - s.rx.read >= s.rx_window \div 2 -> c
         [] OTHER ->
              IF ConnWindowMax > 0 /\ c.rx_conn_window < want /\ c.rx_conn_window < conn_max
              THEN [moved EXCEPT !.rx_conn_window = Min({want, conn_max}),
                                 !.rx_max_data = Max({@, c.rx_read + Min({want, conn_max})}),
                                 !.max_data_owed = TRUE]
              ELSE moved

(* n bytes are read, on the stream in ids if there is one: the windows     *)
(* move once half of one is used.                                          *)
rx_credit(c0, ids, n, fast) ==
    LET c1 == [c0 EXCEPT !.rx_read = @ + n]
        c == IF ids = {} THEN c1 ELSE rx_credit_stream(c1, CHOOSE id \in ids : TRUE, fast)
        w == rx_grow(c.rx_conn_window, rx_capped(c, ConnWindowMax), fast)
    IN IF c.rx_max_data - c.rx_read >= c.rx_conn_window \div 2 THEN c
       ELSE [c EXCEPT !.rx_conn_window = w,
                      !.rx_max_data = Max({@, c.rx_read + w}),
                      !.max_data_owed = TRUE]

(* What a write may add: the configured buffers, or, when the windows grow,*)
(* what the peer granted beyond what it acknowledged.                      *)
tx_room(c, s) ==
    LET Cap(cfg, granted, max) == IF max = 0 THEN cfg ELSE Max({cfg, Min({Max({0, granted}), Path, max})})
        acked == c.tx_written - c.send_buffered
    IN Max({0, Min({Cap(StreamBuffer, s.tx_max - s.tx.base, StreamWindowMax) - (s.tx.end - s.tx.base),
                    Cap(ConnBuffer, c.tx_max_data - acked, ConnWindowMax) - c.send_buffered})})

stream_tx_resetKeepsCount(e, c, id) ==
    IF ~has_tx(e, id) \/ c.st[id].tx_reset THEN c
    ELSE [c EXCEPT !.st[id].tx_reset = TRUE,
                   !.st[id].tx_reset_owed = TRUE,
                   !.st[id].tx_reset_final = c.st[id].tx.next,
                   !.st[id].tx = [@ EXCEPT !.base = c.st[id].tx.next, !.end = c.st[id].tx.next, !.lost = {}, !.acked = {}]]
stream_tx_reset(e, c, id) ==
    LET s == c.st[id]
        held == s.tx.end - s.tx.base
    IN IF ~has_tx(e, id) \/ s.tx_reset \/ sendq_done(s.tx) THEN c
       ELSE [c EXCEPT !.send_buffered = @ - held,
                      !.send_room_freed = @ \/ held > 0,
                      !.st[id].tx_reset = TRUE,
                      !.st[id].tx_reset_owed = TRUE,
                      !.st[id].tx_reset_final = s.tx.next,
                      !.st[id].tx = [@ EXCEPT !.base = s.tx.next, !.end = s.tx.next, !.lost = {}, !.acked = {}]]

----------------------------------------------------------------------------
(* What was in a packet, when it is acknowledged and when it is lost.      *)

frame_acked(e, c, f) ==
    CASE f.k = "stream" /\ f.id \in DOMAIN c.st /\ ~c.st[f.id].tx_reset ->
           LET q == sendq_acked(c.st[f.id].tx, f)
               freed == q.base - c.st[f.id].tx.base
           IN stream_maybe_free(e,
                [c EXCEPT !.st[f.id].tx = q,
                          !.st[f.id].ev = IF freed > 0 THEN @ \cup {"writable"} ELSE @,
                          !.send_buffered = @ - freed,
                          !.send_room_freed = @ \/ freed > 0], f.id)
      [] f.k = "reset" /\ f.id \in DOMAIN c.st ->
           stream_maybe_free(e, [c EXCEPT !.st[f.id].tx_reset_acked = TRUE], f.id)
      [] OTHER -> c

frame_lostOnlyStreams(c, f) ==
    IF f.k = "stream" /\ f.id \in DOMAIN c.st THEN [c EXCEPT !.st[f.id].tx = sendq_lost(@, f)] ELSE c
frame_lost(c, f) ==
    LET open == f.id \in DOMAIN c.st
    IN CASE f.k = "stream" /\ open /\ ~c.st[f.id].tx_reset ->
              [c EXCEPT !.st[f.id].tx = sendq_lost(@, f)]
         [] f.k = "reset" /\ open -> [c EXCEPT !.st[f.id].tx_reset_owed = @ \/ ~c.st[f.id].tx_reset_acked]
         [] f.k = "stop" /\ open ->
              [c EXCEPT !.st[f.id].rx_stop_owed = @ \/ (c.st[f.id].rx_stopped /\ c.st[f.id].rx.final = None)]
         [] f.k = "max_stream_data" /\ open ->
              [c EXCEPT !.st[f.id].rx_max_owed = @ \/ (c.st[f.id].rx.final = None /\ ~c.st[f.id].rx_reset)]
         [] f.k = "max_data" -> [c EXCEPT !.max_data_owed = TRUE]
         [] f.k = "max_streams" -> [c EXCEPT !.max_streams_owed[f.id] = TRUE]
         [] OTHER -> c

AllLost(c, frs) == FoldLeft(frame_lost, c, frs)
ByNumber(pkts) == SetToSortSeq(pkts, LAMBDA p, q : p.pn < q.pn)
FramesOf(pkts) == FlattenSeq([i \in 1..Cardinality(pkts) |-> ByNumber(pkts)[i].fr])

(* The packets up to old, of those below the largest acknowledged, are     *)
(* declared lost: by their age, or by the threshold.                       *)
detect_lost(c, old) ==
    LET lost == {p \in c.sent : p.pn <= c.largest_acked /\ p.pn <= old}
    IN AllLost([c EXCEPT !.sent = @ \ lost], FramesOf(lost))

on_ack(e, c, pns, old) ==
    LET newly == {p \in c.sent : p.pn \in pns}
        Acked(d, f) == frame_acked(e, d, f)
        c1 == FoldLeft(Acked, [c EXCEPT !.largest_acked = Max({@} \cup pns), !.sent = @ \ newly], FramesOf(newly))
    IN CASE pns # {} /\ Max(pns) >= c.next_pn -> Fail(c, "acknowledged what was not sent")
         [] newly = {} -> c1
         [] OTHER -> detect_lost(c1, old)

----------------------------------------------------------------------------
(* Frames received.                                                        *)

on_stream(e, c0, f) ==
    LET c == stream_for_peer(e, c0, f.id)
        s == c.st[f.id]
        q == s.rx
        end == f.off + f.len
        counted == [c EXCEPT !.rx_data = @ + Max({0, end - q.highest})]
        q1 == [q EXCEPT !.final = IF f.fin THEN end ELSE @]
        q2 == recvq_insert(q1, f.off, f.len)
    IN CASE c.err # "none" \/ f.id \notin DOMAIN c.st -> c
         [] OTHER ->
              CASE (q.final # None /\ (end > q.final \/ (f.fin /\ end # q.final))) \/ (f.fin /\ end < q.highest) ->
                     Fail(c, "final size")
                [] end > s.rx_max \/ counted.rx_data > c.rx_max_data -> Fail(c, "flow control")
                [] s.rx_reset \/ s.rx_stopped ->
                     [counted EXCEPT !.st[f.id].rx = [q1 EXCEPT !.highest = Max({@, end})]]
                [] OTHER ->
                     [counted EXCEPT !.st[f.id].rx = q2,
                                     !.st[f.id].ev = IF recvq_ready(q2) > 0 \/ q2.read = q2.final
                                                     THEN @ \cup {"readable"} ELSE @]

on_reset_stream(e, c0, f) ==
    LET c == stream_for_peer(e, c0, f.id)
        s == c.st[f.id]
        q == s.rx
        counted == [c EXCEPT !.rx_data = @ + (f.final - q.highest),
                             !.st[f.id].rx = [q EXCEPT !.highest = f.final, !.final = f.final]]
    IN CASE c.err # "none" \/ f.id \notin DOMAIN c.st -> c
         [] OTHER ->
              CASE (q.final # None /\ f.final # q.final) \/ f.final < q.highest -> Fail(c, "final size")
                [] f.final > s.rx_max \/ counted.rx_data > c.rx_max_data -> Fail(c, "flow control")
                [] s.rx_reset \/ s.rx_fin_read -> counted
                [] OTHER ->
                     rx_credit([counted EXCEPT !.st[f.id].rx = [@ EXCEPT !.read = f.final, !.got = {}],
                                               !.st[f.id].rx_reset = TRUE,
                                               !.st[f.id].ev = (@ \cup {"reset"}) \ {"readable"},
                                               !.st[f.id].rx_max_owed = FALSE],
                               {}, f.final - q.read, FALSE)

on_stop_sending(e, c0, f) ==
    LET c == stream_for_peer(e, c0, f.id)
        s == c.st[f.id]
    IN CASE c.err # "none" \/ f.id \notin DOMAIN c.st -> c
         [] OTHER ->
              IF s.tx_reset \/ sendq_done(s.tx) THEN c
              ELSE [stream_tx_reset(e, c, f.id) EXCEPT !.st[f.id].ev = @ \cup {"stop"}]

on_max_stream_data(e, c0, f) ==
    LET c == stream_for_peer(e, c0, f.id)
    IN IF c.err # "none" \/ f.id \notin DOMAIN c.st THEN c
       ELSE IF f.v <= c.st[f.id].tx_max THEN c
       ELSE [c EXCEPT !.st[f.id].tx_max = f.v, !.st[f.id].ev = @ \cup {"writable"}]

WrongDirection(e, f) ==
    \/ f.k \in {"stream", "reset"} /\ ~has_rx(e, f.id)
    \/ f.k \in {"stop", "max_stream_data"} /\ ~has_tx(e, f.id)

on_frame(e, c, f) ==
    CASE c.err # "none" -> c
      [] c.err = "none" /\ WrongDirection(e, f) -> Fail(c, "stream state")
      [] OTHER ->
           CASE f.k = "stream" -> on_stream(e, c, f)
             [] f.k = "reset" -> on_reset_stream(e, c, f)
             [] f.k = "stop" -> on_stop_sending(e, c, f)
             [] f.k = "max_stream_data" -> on_max_stream_data(e, c, f)
             [] f.k = "max_data" -> [c EXCEPT !.tx_max_data = Max({@, f.v})]
             [] f.k = "max_streams" -> [c EXCEPT !.peer_max[f.id] = Max({@, f.v})]
             [] f.k = "ping" -> c

(* One packet: its ACK, its other frames in order, and then it is noted to *)
(* be acknowledged.  A number seen before is dropped.  A packet that is an *)
(* ACK alone is never acknowledged for itself: it has no number here.      *)
read_packet(e, c, p, old) ==
    LET Take(d, f) == on_frame(e, d, f)
        c1 == FoldLeft(Take, IF p.ack = {} THEN c ELSE on_ack(e, c, p.ack, old), p.fr)
    IN CASE p.pn \in c.rcvd -> c
         [] p.pn = None -> c1
         [] OTHER -> [c1 EXCEPT !.rcvd = @ \cup {p.pn}, !.ack_owed = TRUE]

----------------------------------------------------------------------------
(* Packets sent.                                                           *)

StreamLimitOfStreamOnly(c, s) == s.tx_max
StreamLimit(c, s) == Min({s.tx_max, s.tx.next + (c.tx_max_data - c.tx_data)})

(* What stream id would put in a packet with room left.                    *)
NextPiece(e, c, id, room) ==
    IF has_tx(e, id) /\ ~c.st[id].tx_reset /\ room > 0
    THEN sendq_next(c.st[id].tx, room, StreamLimit(c, c.st[id])) ELSE {}

(* One frame of each stream in turn, while there is room.                  *)
RECURSIVE put_streams(_, _, _, _)
put_streams(e, c, room, frs) ==
    LET ready == {id \in DOMAIN c.st : NextPiece(e, c, id, room) # {}}
        after == {id \in ready : id > c.cursor}
        id == IF after # {} THEN Min(after) ELSE Min(ready)
        p == CHOOSE x \in NextPiece(e, c, id, room) : TRUE
        s == c.st[id]
    IN IF ready = {} THEN [c |-> c, fr |-> frs]
       ELSE put_streams(e,
              [c EXCEPT !.st[id].tx = sendq_sent(@, p),
                        !.tx_data = @ + (IF p.fresh THEN p.off + p.len - s.tx.next ELSE 0),
                        !.cursor = id],
              room - p.len,
              Append(frs, [k |-> "stream", id |-> id, off |-> p.off, len |-> p.len, fin |-> p.fin]))

(* Control frames, each with its latest value.                             *)
ControlFrames(c) ==
    {[k |-> "max_data", id |-> 0, v |-> c.rx_max_data] : x \in {y \in {1} : c.max_data_owed}}
    \cup {[k |-> "max_streams", id |-> k, v |-> c.our_max[k]] : k \in {k \in Kinds : c.max_streams_owed[k]}}
    \cup {[k |-> "reset", id |-> i, final |-> c.st[i].tx_reset_final] : i \in {i \in DOMAIN c.st : c.st[i].tx_reset_owed}}
    \cup {[k |-> "stop", id |-> i] : i \in {i \in DOMAIN c.st : c.st[i].rx_stop_owed}}
    \cup {[k |-> "max_stream_data", id |-> i, v |-> c.st[i].rx_max] : i \in {i \in DOMAIN c.st : c.st[i].rx_max_owed}}

put_control(c) ==
    [c EXCEPT !.max_data_owed = FALSE,
              !.max_streams_owed = [k \in Kinds |-> FALSE],
              !.st = [i \in DOMAIN @ |-> [@[i] EXCEPT !.tx_reset_owed = FALSE, !.rx_stop_owed = FALSE,
                                                      !.rx_max_owed = FALSE]]]

space_has_eliciting(e, c) ==
    c.probes > 0 \/ ControlFrames(c) # {} \/ \E id \in DOMAIN c.st : NextPiece(e, c, id, plan.room) # {}

(* The frames of the next packet and the connection that has sent it: kept *)
(* on record while there is room for records.                              *)
build_packet(e, c) ==
    LET s == put_streams(e, put_control(c), plan.room, SetToSeq(ControlFrames(c)))
    IN [c |-> s.c, fr |-> IF s.fr = << >> /\ c.probes > 0 THEN <<[k |-> "ping", id |-> 0]>> ELSE s.fr]

Packet(c, fr) ==
    [pn |-> IF fr = << >> THEN None ELSE c.next_pn, ack |-> IF c.ack_owed THEN c.rcvd ELSE {}, fr |-> fr]

seal(c, fr) ==
    LET record == fr # << >> /\ Cardinality(c.sent) < MaxSent
    IN [c EXCEPT !.next_pn = IF fr = << >> THEN @ ELSE @ + 1,
                 !.sent = IF record THEN @ \cup {[pn |-> c.next_pn, fr |-> fr]} ELSE @,
                 !.unkept = IF record THEN @ ELSE @ \cup Range(fr),
                 !.probes = IF record /\ @ > 0 THEN @ - 1 ELSE @,
                 !.ack_owed = FALSE]

----------------------------------------------------------------------------
(* The steps of an end e: calls of its application, a packet sent or read, *)
(* a timer.                                                                *)

Budget(what) == plan[what] > 0
Spend(what) == plan' = [plan EXCEPT ![what] = @ - 1]
Live(e) == conn[e].err = "none"

(* The driver's round: an end reads its next packet, or serves a timer,    *)
(* once its application has been told all and all there is to send is      *)
(* sent.  In a lazy plan the application, or the congestion window, waits. *)
Settled(e) ==
    \/ plan.lazy
    \/ /\ \A id \in DOMAIN conn[e].st : conn[e].st[id].ev = {}
       /\ ~space_has_eliciting(e, conn[e]) \/ Cardinality(net[Peer(e)]) >= MaxNet
AppStream(left) == [left |-> left, wrote |-> 0, read |-> << >>, end |-> FALSE]

(* What stream_write takes of an application's bytes, all that is left.    *)
Written(c, id, left) ==
    LET s == c.st[id]
        n == Min({left, tx_room(c, s)})
    IN IF s.tx_reset \/ s.tx.fin THEN c
       ELSE [c EXCEPT !.st[id].tx.end = @ + n,
                      !.st[id].tx.fin = n = left,
                      !.st[id].tx_blocked = @ \/ n < left,
                      !.send_buffered = @ + n,
                      !.tx_written = @ + n]

(* The application opens the next stream of its plan, and writes to it.    *)
StreamOpen(e) ==
    /\ Live(e) /\ plan.open[e] # << >>
    /\ LET k == Head(plan.open[e]).kind
           left == Head(plan.open[e]).bytes
           id == StreamId(e, k, conn[e].local_opened[k])
           c == stream_new(conn[e], {id})
           w == Written(c, id, left)
       IN /\ conn[e].local_opened[k] < conn[e].peer_max[k]
          /\ conn' = [conn EXCEPT ![e] = [w EXCEPT !.local_opened[k] = @ + 1]]
          /\ app' = [app EXCEPT ![e] = (id :> [AppStream(left) EXCEPT !.left = left - w.st[id].tx.end,
                                                                      !.wrote = w.st[id].tx.end]) @@ @]
    /\ plan' = [plan EXCEPT !.open[e] = Tail(@)]
    /\ UNCHANGED net

(* Room freed is told to every stream whose write fell short.              *)
TellRoom(c) ==
    IF ~c.send_room_freed THEN c
    ELSE [c EXCEPT !.send_room_freed = FALSE,
                   !.st = [i \in DOMAIN @ |->
                       [@[i] EXCEPT !.ev = IF c.st[i].tx_blocked /\ ~c.st[i].tx_reset THEN @ \cup {"writable"} ELSE @,
                                    !.tx_blocked = FALSE]]]

(* The event of a stream that is told next.                                *)
NextEvent(s) ==
    CHOOSE v \in s.ev : \A w \in s.ev : LET rank == [opened |-> 1, reset |-> 2, stop |-> 3, readable |-> 4, writable |-> 5]
                                        IN rank[v] <= rank[w]

(* An event is told and the application acts on it at once: it answers a   *)
(* stream opened to it, reads up to n bytes, or writes what it has left.   *)
Poll(e, id, n, fast) ==
    LET c0 == TellRoom(conn[e])
        told == NextEvent(c0.st[id])
        c1 == [c0 EXCEPT !.st[id].ev = @ \ {told}, !.st[id].rx_reset_reported = @ \/ told = "reset"]
        c == stream_maybe_free(e, c1, id)
        s == c.st[id]
        got == Min({n, recvq_ready(s.rx)})
        q == recvq_take(s.rx, got)
        ended == q.read = q.final
        taken == [c EXCEPT !.st[id].rx = q]
        paid == IF got > 0 THEN rx_credit(taken, {id}, got, fast) ELSE taken
        read == stream_maybe_free(e,
                  [paid EXCEPT !.st[id].rx_fin_read = @ \/ ended,
                               !.st[id].rx_max_owed = @ /\ ~ended,
                               !.st[id].ev = IF ~ended /\ recvq_ready(q) > 0 THEN @ \cup {"readable"} ELSE @], id)
    IN /\ c0.st[id].ev # {}
       /\ CASE id \notin DOMAIN c.st \/ told \in {"reset", "stop"} ->
                 conn' = [conn EXCEPT ![e] = c] /\ UNCHANGED app
            [] id \in DOMAIN c.st /\ told = "readable" ->
                 /\ conn' = [conn EXCEPT ![e] = read]
                 /\ app' = [app EXCEPT ![e][id].read = @ \o Copied(s.rx, got), ![e][id].end = @ \/ ended]
            [] id \in DOMAIN c.st /\ told \in {"opened", "writable"} ->
                 LET mine == IF told = "opened" THEN AppStream(IF has_tx(e, id) THEN plan.reply ELSE 0) ELSE app[e][id]
                     w == IF has_tx(e, id) THEN Written(c, id, mine.left) ELSE c
                     m == w.st[id].tx.end - s.tx.end
                 IN /\ conn' = [conn EXCEPT ![e] = w]
                    /\ app' = [app EXCEPT ![e] = (id :> [mine EXCEPT !.left = @ - m, !.wrote = @ + m]) @@ @]
       /\ UNCHANGED <<net, plan>>

(* A poll that finds nothing to tell.                                      *)
PollNothing(e) ==
    LET c == TellRoom(conn[e])
    IN /\ \A id \in DOMAIN c.st : c.st[id].ev = {}
       /\ c # conn[e]
       /\ conn' = [conn EXCEPT ![e] = c]
       /\ UNCHANGED <<net, app, plan>>

StreamReset(e, id) ==
    /\ Live(e) /\ Budget("resets") /\ has_tx(e, id) /\ id \in DOMAIN app[e]
    /\ stream_tx_reset(e, conn[e], id) # conn[e]
    /\ conn' = [conn EXCEPT ![e] = stream_tx_reset(e, @, id)]
    /\ Spend("resets")
    /\ UNCHANGED <<net, app>>

(* The reader wants no more: what it holds unread is let go and given back *)
(* to the connection's window.                                             *)
StreamStop(e, id) ==
    LET c == conn[e]
        s == c.st[id]
        q == [s.rx EXCEPT !.read = s.rx.highest, !.got = {}]
        stopped == [c EXCEPT !.st[id].rx = q,
                             !.st[id].rx_stopped = TRUE,
                             !.st[id].rx_stop_owed = @ \/ q.final = None,
                             !.st[id].rx_fin_read = TRUE,
                             !.st[id].ev = @ \ {"readable"}]
    IN /\ Live(e) /\ Budget("stops") /\ has_rx(e, id) /\ id \in DOMAIN app[e]
       /\ ~s.rx_stopped /\ ~s.rx_reset /\ ~s.rx_fin_read
       /\ conn' = [conn EXCEPT ![e] = stream_maybe_free(e, rx_credit(stopped, {}, s.rx.highest - s.rx.read, FALSE), id)]
       /\ Spend("stops")
       /\ UNCHANGED <<net, app>>

(* A ceiling on the credit given from now on; 0 lifts it.                  *)
CapWindow(e) ==
    LET n == Head(plan.caps)
        Capped(w, cfg) == IF n > 0 /\ w > n THEN n ELSE Max({w, IF n > 0 /\ n < cfg THEN n ELSE cfg})
    IN /\ Live(e) /\ e = "server" /\ plan.caps # << >>
       /\ conn' = [conn EXCEPT ![e].rx_cap = n,
                               ![e].rx_conn_window = Capped(@, ConnWindow),
                               ![e].st = [i \in DOMAIN @ |-> [@[i] EXCEPT !.rx_window = Capped(@, StreamWindow)]]]
       /\ plan' = [plan EXCEPT !.caps = Tail(@)]
       /\ UNCHANGED <<net, app>>

(* The number of streams the peer may have open from now on.               *)
SetMaxStreams(e, n) ==
    /\ Live(e) /\ e = "server" /\ Budget("grants") /\ n # conn[e].grant
    /\ LET limit == conn[e].peer_closed[0] + n
       IN conn' = [conn EXCEPT ![e].grant = n,
                               ![e].our_max[0] = Max({@, limit}),
                               ![e].max_streams_owed[0] = @ \/ limit > conn[e].our_max[0]]
    /\ Spend("grants")
    /\ UNCHANGED <<net, app>>

(* A packet with what there is to send, its ACK with it.                   *)
SendData(e) ==
    LET c == conn[e]
        b == build_packet(e, c)
    IN /\ Live(e) /\ c.next_pn < MaxPn
       /\ Cardinality(net[Peer(e)]) < MaxNet
       /\ space_has_eliciting(e, c)
       /\ c.probes > 0 \/ Cardinality(c.sent) < MaxSent
       /\ conn' = [conn EXCEPT ![e] = seal(b.c, b.fr)]
       /\ net' = [net EXCEPT ![Peer(e)] = @ \cup {Packet(c, b.fr)}]
       /\ UNCHANGED <<app, plan>>

(* An ACK alone, when one is owed.                                         *)
SendAck(e) ==
    LET c == conn[e]
    IN /\ Live(e) /\ Cardinality(net[Peer(e)]) < MaxNet
       /\ c.ack_owed /\ ~space_has_eliciting(e, c)
       /\ conn' = [conn EXCEPT ![e] = seal(c, << >>)]
       /\ net' = [net EXCEPT ![Peer(e)] = @ \cup {Packet(c, << >>)}]
       /\ UNCHANGED <<app, plan>>

Receive(e, p, old) ==
    /\ Live(e) /\ Settled(e)
    /\ conn' = [conn EXCEPT ![e] = read_packet(e, @, p, old)]
    /\ net' = [net EXCEPT ![e] = @ \ {p}]
    /\ UNCHANGED <<app, plan>>

(* The network repeats a packet: one copy is read, one is still to come.   *)
ReceiveOneOfTwo(e, p, old) ==
    /\ Live(e) /\ Settled(e) /\ Budget("repeats")
    /\ conn' = [conn EXCEPT ![e] = read_packet(e, @, p, old)]
    /\ Spend("repeats")
    /\ UNCHANGED <<net, app>>

Lose(e, p) ==
    /\ Budget("losses")
    /\ net' = [net EXCEPT ![e] = @ \ {p}]
    /\ Spend("losses")
    /\ UNCHANGED <<conn, app>>

(* The loss timer: packets older than one acknowledged are lost by age.    *)
LossTimeout(e, old) ==
    /\ Live(e) /\ Settled(e) /\ \E p \in conn[e].sent : p.pn <= conn[e].largest_acked /\ p.pn <= old
    /\ conn' = [conn EXCEPT ![e] = detect_lost(@, old)]
    /\ UNCHANGED <<net, app, plan>>

(* The probe timeout: two probes, and what the oldest packet in flight     *)
(* carried goes out again in them.  The packet stays on record.            *)
ProbeTimeout(e) ==
    LET c == conn[e]
        oldest == CHOOSE p \in c.sent : \A q \in c.sent : p.pn <= q.pn
    IN /\ Live(e) /\ Settled(e) /\ Budget("probes") /\ c.sent # {}
       /\ ~\E p \in c.sent : p.pn <= c.largest_acked
       /\ conn' = [conn EXCEPT ![e] = AllLost([c EXCEPT !.probes = 2], oldest.fr)]
       /\ Spend("probes")
       /\ UNCHANGED <<net, app>>

(* Up to which packet in flight age has come.                             *)
Olds(e) == {None, conn[e].next_pn}

Init ==
    /\ conn = [e \in Ends |-> NewConn]
    /\ net = [e \in Ends |-> {}]
    /\ app = [e \in Ends |-> << >>]
    /\ plan \in Plans

Next ==
    \E e \in Ends :
        \/ StreamOpen(e)
        \/ \E id \in DOMAIN conn[e].st : Poll(e, id, plan.read, plan.fast)
        \/ PollNothing(e)
        \/ \E id \in DOMAIN conn[e].st : StreamReset(e, id)
        \/ \E id \in DOMAIN conn[e].st : StreamStop(e, id)
        \/ CapWindow(e)
        \/ \E n \in 1..Streams : SetMaxStreams(e, n)
        \/ SendData(e)
        \/ SendAck(e)
        \/ \E p \in net[e], old \in Olds(e) : Receive(e, p, old)
        \/ \E p \in net[e], old \in Olds(e) : ReceiveOneOfTwo(e, p, old)
        \/ \E p \in net[e] : Lose(e, p)
        \/ \E old \in Olds(e) : LossTimeout(e, old)
        \/ ProbeTimeout(e)

Spec == Init /\ [][Next]_vars

----------------------------------------------------------------------------
(* Properties.                                                             *)

(* A frame is on record; what a probe past the limit of records carried    *)
(* never is, and is the one thing that may be forgotten.                   *)
InFlight(e) == UNION {Range(p.fr) : p \in conn[e].sent}
OnRecord(e, frame(_)) == \E f \in InFlight(e) \cup conn[e].unkept : frame(f)

(* The end knows the stream, or did: it was opened there.                  *)
WasOpened(e, id) ==
    id \div 4 < (IF id_local(e, id) THEN conn[e].local_opened ELSE conn[e].peer_opened)[id_kind(id)]

(* Two ends that follow this code never close each other with an error:    *)
(* whatever is lost, repeated or reordered, no frame of one exceeds a      *)
(* window, a stream limit or a final size the other holds (on_stream,      *)
(* on_reset_stream, stream_for_peer, on_ack).                              *)
NoFault == \A e \in Ends : conn[e].err = "none"

(* A reader gets a prefix of what the writer wrote, byte for byte, and is  *)
(* told the end only when it has all of it and the writer had ended the    *)
(* stream (recvq_insert, recvq_take, sendq_next, stream_write).            *)
Intact ==
    \A e \in Ends : \A id \in DOMAIN app[e] \cap DOMAIN app[Peer(e)] :
        LET r == app[e][id]
            w == app[Peer(e)][id]
        IN /\ Len(r.read) <= w.wrote
           /\ \A i \in 1..Len(r.read) : r.read[i] = i - 1
           /\ r.end => Len(r.read) = w.wrote /\ w.left = 0

(* Nothing that was sent is forgotten before it is acknowledged: a byte or *)
(* the end of a stream, a reset, a stop, a grant of credit is on record as *)
(* in flight, owed again, or has reached the peer (frame_lost, frame_acked,*)
(* seal).  One thing is left out, as the code does forget it: what a probe *)
(* carried that was sent while MaxSent packets were on record, which seal  *)
(* keeps no record of (quic_conn.c:2550, 2695).  A stop is followed as     *)
(* long as its stream is known: both sides of the stream may be over while *)
(* the stop is under way, and then it is not sent again (1518).            *)
NothingForgotten ==
    \A e \in Ends :
        LET c == conn[e]
            d == conn[Peer(e)]
            Sent(k, id) == OnRecord(e, LAMBDA f : f.k = k /\ f.id = id)
        IN /\ \A id \in DOMAIN c.st :
                LET q == c.st[id].tx
                IN /\ ~c.st[id].tx_reset =>
                        /\ \A o \in q.base..(q.next - 1) :
                              o \in q.acked \cup q.lost
                              \/ OnRecord(e, LAMBDA f : f.k = "stream" /\ f.id = id /\ o \in Bytes(f.off, f.len))
                        /\ q.fin_sent => q.fin_acked \/ q.fin_lost
                                         \/ OnRecord(e, LAMBDA f : f.k = "stream" /\ f.id = id /\ f.fin)
                   /\ c.st[id].tx_reset => c.st[id].tx_reset_acked \/ c.st[id].tx_reset_owed \/ Sent("reset", id)
                   /\ c.st[id].rx_stopped /\ c.st[id].rx.final = None =>
                        \/ c.st[id].rx_stop_owed \/ Sent("stop", id)
                        \/ IF id \in DOMAIN d.st THEN d.st[id].tx_reset \/ sendq_done(d.st[id].tx)
                           ELSE WasOpened(Peer(e), id)
                   /\ id \in DOMAIN d.st /\ c.st[id].rx.final = None /\ ~c.st[id].rx_reset =>
                        d.st[id].tx_max = c.st[id].rx_max \/ c.st[id].rx_max_owed \/ Sent("max_stream_data", id)
           /\ d.tx_max_data = c.rx_max_data \/ c.max_data_owed \/ Sent("max_data", 0)
           /\ \A k \in Kinds : d.peer_max[k] = c.our_max[k] \/ c.max_streams_owed[k] \/ Sent("max_streams", k)

SumOver(st, val(_)) == FoldSet(LAMBDA id, n : n + val(st[id]), 0, DOMAIN st)

(* What was received and not yet given back to the connection's window is  *)
(* what some reader can still read: no credit is lost when a stream ends,  *)
(* is reset by its sender or stopped by its reader (rx_credit, on_stream,  *)
(* on_reset_stream, stream_stop).                                          *)
StopGivesBack ==
    \A e \in Ends :
        conn[e].rx_data - conn[e].rx_read =
            SumOver(conn[e].st, LAMBDA s : IF s.rx_stopped THEN 0 ELSE s.rx.highest - s.rx.read)

(* The accounts of a connection add up over any loss and reset: what is    *)
(* buffered is what its streams hold, and, where no reader stops one,      *)
(* credit is given back.                                                   *)
AccountsAgree ==
    /\ \A e \in Ends : conn[e].send_buffered = SumOver(conn[e].st, LAMBDA s : s.tx.end - s.tx.base)
    /\ plan.stopping \/ StopGivesBack

(* Nothing is on its way, no timer is running and nobody has anything to   *)
(* send or to tell.                                                        *)
Quiet ==
    \A e \in Ends :
        /\ Live(e) /\ net[e] = {} /\ conn[e].sent = {} /\ ~conn[e].ack_owed
        /\ ~space_has_eliciting(e, conn[e])
        /\ \A id \in DOMAIN conn[e].st : TellRoom(conn[e]).st[id].ev = {}

(* The two ends never wait for each other for ever: when all is quiet,     *)
(* every stream an application opened has been written and read to its     *)
(* end, or was reset, is gone at both, and the next one can be opened.     *)
(* Left out are a reader that stops (StopGivesBack) and, as in             *)
(* NothingForgotten, what went out past the limit of records.              *)
NoStall ==
    Quiet /\ ~plan.stopping /\ (\A e \in Ends : conn[e].unkept = {}) =>
        /\ \A e \in Ends : DOMAIN conn[e].st = {}
        /\ \A e \in Ends : plan.open[e] # << >> =>
              conn[e].local_opened[Head(plan.open[e]).kind] < conn[e].peer_max[Head(plan.open[e]).kind]
=============================================================================
