------------------------------ MODULE H2Conn ------------------------------
(***************************************************************************)
(* src/net/src/h2_conn.c: one HTTP/2 connection, both ends of it played by *)
(* this library.  An end takes bytes in and gives events and bytes out; it *)
(* has no socket and no clock, so the model joins a client's and a         *)
(* server's end by two streams of bytes and lets two applications call     *)
(* whatever they may, at any time: also between two pieces of one DATA     *)
(* frame, and while what the other end said is still on its way.           *)
(*                                                                         *)
(* What is modelled is flow control (the windows of the connection and of  *)
(* each stream on both sides, credit returned in batches, settings that    *)
(* change while streams are open, windows that grow, the ceiling on        *)
(* credit), the life of streams (refusal, reset, the memory of how the     *)
(* last streams ended), the goodbye, and the bound on buffered output.     *)
(* Header lists and bodies are left out: a list is well formed, a body is  *)
(* a number of units.  Padding, priority, frames of unknown types,         *)
(* interim responses, content-length and allocation failure are left out   *)
(* as well: this library's own ends send none of the first four.           *)
(***************************************************************************)
EXTENDS Integers, Sequences, SequencesExt, FiniteSets, FiniteSetsExt, Functions

CONSTANTS
    DefaultWindow,   \* PROVEN_H2_DEFAULT_WINDOW, in units of body
    MaxWindow,       \* PROVEN_H2_MAX_WINDOW
    Frame,           \* the largest DATA frame either end takes
    ClientStreams,   \* max_concurrent_streams, the client's configuration
    ServerStreams,   \* and the server's
    ServerWindow,    \* initial_window, the server's; the client's is the default
    CfgOut,          \* max_buffered_output: a body unit or any other frame is 1
    CfgDebt,         \* max_reset_debt
    GrowStream,      \* what a server's windows may grow to, streams and
    GrowConn,        \*   connection (proven_h2_conn_grow_); 0: they do not
    MaxId,           \* bound: the last stream a client opens
    Plans            \* bound: the calls the two applications may make

Ends == {"client", "server"}
Ids == {i \in 1..MaxId : i % 2 = 1}
Unlimited == MaxId + ClientStreams

(* How often each call may be made, what may be sent, who may say goodbye, *)
(* and the server's changes in their order.                                *)
PlanType ==
    [requests : Nat, responses : Nat, trailers : Nat, resets : Nat, pings : Nat,
     tunnel : BOOLEAN, body : [Ends -> Nat], goodbyes : SUBSET Ends,
     changes : Seq([call : {"streams", "window", "cap"}, n : Nat])]

ASSUME H2Assumption ==
    /\ {DefaultWindow, MaxWindow, Frame, ClientStreams, ServerStreams, ServerWindow,
        CfgOut, CfgDebt, MaxId} \subseteq Nat \ {0}
    /\ {GrowStream, GrowConn} \subseteq Nat
    /\ ServerWindow <= MaxWindow /\ DefaultWindow <= MaxWindow
    /\ Plans \subseteq PlanType

VARIABLES
    end,      \* [end -> struct proven_h2_conn]
    plan      \* the calls that the two applications may still make

vars == <<end, plan>>

Other(e) == IF e = "client" THEN "server" ELSE "client"
Smaller(a, b) == IF a < b THEN a ELSE b
Larger(a, b) == IF a > b THEN a ELSE b

CfgStreams(S) == IF S.server THEN ServerStreams ELSE ClientStreams
CfgWindow(S) == IF S.server THEN ServerWindow ELSE DefaultWindow

-----------------------------------------------------------------------------
(* The frames.  Settings that do not appear in a frame are -1.             *)
Settings(streams, window) == [t |-> "settings", streams |-> streams, window |-> window]
Ack == [t |-> "ack"]
Headers(id, fin, tunnel) == [t |-> "headers", id |-> id, fin |-> fin, tunnel |-> tunnel]
Data(id, n, fin) == [t |-> "data", id |-> id, n |-> n, fin |-> fin]
Window(id, n) == [t |-> "window", id |-> id, n |-> n]
Rst(id, code) == [t |-> "rst", id |-> id, code |-> code]
Goaway(last, code) == [t |-> "goaway", last |-> last, code |-> code]
Ping == [t |-> "ping"]
Pong == [t |-> "pong"]

Size(f) == IF f.t = "data" THEN Larger(f.n, 1) ELSE 1

NoData == [id |-> 0, left |-> 0, fin |-> FALSE, drop |-> FALSE]

NewStream(S, tunnel) ==
    [send |-> S.peerWindow, recv |-> S.localWindow, unacked |-> 0, held |-> 0, win |-> 0,
     flags |-> IF tunnel THEN {"TUNNEL"} ELSE {}]

(* proven_h2_conn_create: the opening is in the output.                    *)
Created(server) ==
    LET streams == IF server THEN ServerStreams ELSE ClientStreams
        window == IF server THEN ServerWindow ELSE DefaultWindow
        said == Settings(streams, IF window = DefaultWindow THEN -1 ELSE window)
        first == IF window > DefaultWindow
                   THEN <<said, Window(0, window - DefaultWindow)>> ELSE <<said>>
    IN  [server |-> server, streams |-> << >>, ring |-> << >>,
         out |-> first, pending |-> Len(first), ctlQueued |-> 0,
         sendWin |-> DefaultWindow, recvWin |-> Larger(window, DefaultWindow),
         unacked |-> 0, target |-> Larger(window, DefaultWindow), cap |-> 0,
         localWindow |-> DefaultWindow, advWindow |-> window, wantWindow |-> window,
         peerWindow |-> DefaultWindow,
         advStreams |-> streams, ackedStreams |-> streams, wantStreams |-> streams,
         peerStreams |-> Unlimited,
         chgInflight |-> FALSE, settingsAcked |-> FALSE, gotSettings |-> FALSE,
         nextId |-> 1, lastPeerId |-> 0, lastActed |-> 0,
         goawaySent |-> FALSE, goawayRecv |-> FALSE, goawayLast |-> 0,
         sweepGoaway |-> FALSE, sweepWritable |-> FALSE,
         debt |-> 0, closed |-> FALSE, rd |-> NoData,
         \* history: the faults found in the peer; the streams handed to the
         \* application, refused for their number, reported as refused; and
         \* those opened before the peer's settings were known
         blamed |-> {}, acted |-> {}, overLimit |-> {}, refused |-> {}, blind |-> {}]

Open(S) == DOMAIN S.streams
Has(S, id, flag) == flag \in S.streams[id].flags
Flag(S, id, set) == [S EXCEPT !.streams[id].flags = @ \cup set]

-----------------------------------------------------------------------------
(* Output.                                                                 *)
Put(S, f) == [S EXCEPT !.out = Append(@, f), !.pending = @ + Size(f)]

(* h2c_fail: say why, and take nothing more.                               *)
Fail(S, code) ==
    IF S.closed THEN S
    ELSE [Put(S, Goaway(S.lastActed, code)) EXCEPT
            !.goawaySent = TRUE, !.closed = TRUE, !.blamed = @ \cup {code}]

(* h2c_ctl: answers the peer does not read are bounded.                    *)
Ctl(S) ==
    LET T == [S EXCEPT !.ctlQueued = @ + 1]
    IN  IF T.ctlQueued > CfgOut THEN Fail(T, "calm") ELSE T

Queue(S, f) == IF S.closed THEN S ELSE Put(S, f)
Answer(S, f) == IF S.closed THEN S ELSE Ctl(Put(S, f))

-----------------------------------------------------------------------------
(* Flow control, receiving.                                                *)

(* The sum of a function's values, as a number of units.                   *)
Total(f) == Cardinality(UNION {{x} \X (1 .. f[x]) : x \in DOMAIN f})

(* h2c_held                                                                *)
Held(S) == Total([id \in Open(S) |-> S.streams[id].held])

ConnTarget(S) == IF S.cap # 0 /\ S.cap < S.target THEN S.cap ELSE S.target

(* h2c_conn_credit: half a window is the batch; under a ceiling room is    *)
(* given back only up to it, and what is withheld is not owed later.       *)
ConnCredit(S, n) ==
    LET owed == S.unacked + n
        room == S.cap - (S.recvWin + Held(S))
        inc == IF S.cap # 0 THEN Smaller(owed, room) ELSE owed
    IN  CASE n = 0 \/ S.closed -> S
          [] n # 0 /\ ~S.closed /\ 2 * owed < ConnTarget(S) -> [S EXCEPT !.unacked = owed]
          [] OTHER ->
               LET T == [S EXCEPT !.unacked = 0]
               IN  IF inc <= 0 THEN T
                   ELSE Answer([T EXCEPT !.recvWin = @ + inc], Window(0, inc))

(* h2c_conn_follow                                                         *)
ConnFollow(S, window) ==
    LET cap == IF S.cap # 0 THEN Smaller(S.cap, GrowConn) ELSE GrowConn
        want == Smaller(window + window \div 2, cap)
        add == want - S.target
    IN  IF add <= 0 THEN S
        ELSE Answer([S EXCEPT !.target = want, !.recvWin = @ + add], Window(0, add))

(* The batch of a stream: of the initial window in force and the one said, *)
(* the smaller, unless the stream has grown; never above the ceiling.      *)
CreditWindow(S, id) ==
    LET w == Larger(S.streams[id].win, Smaller(S.localWindow, S.advWindow))
    IN  IF S.cap # 0 THEN Smaller(w, S.cap) ELSE w

(* h2c_stream_credit; fast: the reader took half a window within two round *)
(* trips of the window's last move.                                        *)
StreamCredit(S, id, n, fast) ==
    LET owed == S.streams[id].unacked + n
        window == CreditWindow(S, id)
        growCap == IF S.cap # 0 THEN Smaller(S.cap, GrowStream) ELSE GrowStream
        grows == fast /\ S.server /\ GrowStream # 0 /\ S.settingsAcked /\ window < growCap
        next == Smaller(2 * window, growCap)
        win == IF S.cap # 0 THEN Smaller(S.streams[id].win, S.cap) ELSE S.streams[id].win
        T == [S EXCEPT !.streams[id].unacked = 0,
                       !.streams[id].win = IF grows THEN next ELSE win]
        F == IF grows THEN ConnFollow(T, next) ELSE T
        asked == IF grows THEN owed + (next - window) ELSE owed
        lowering == Larger(S.localWindow - S.advWindow, 0)
        room == S.cap - (S.streams[id].recv - lowering + S.streams[id].held)
        inc == IF S.cap # 0 THEN Smaller(asked, room) ELSE asked
    IN  CASE n = 0 \/ S.closed -> S
          [] n # 0 /\ ~S.closed /\ (Has(S, id, "REMOTE_END") \/ 2 * owed < window) ->
               [S EXCEPT !.streams[id].unacked = owed]
          [] OTHER -> IF inc <= 0 THEN F
                      ELSE Answer([F EXCEPT !.streams[id].recv = @ + inc], Window(id, inc))

-----------------------------------------------------------------------------
(* Streams.                                                                *)

(* h2c_ring_add: the last cfg_streams endings are remembered.              *)
RingAdd(S, id, how) ==
    LET entry == [id |-> id, how |-> how]
    IN  [S EXCEPT !.ring = IF Len(@) = CfgStreams(S) THEN Append(Tail(@), entry)
                                                     ELSE Append(@, entry)]

(* h2c_ring_find                                                           *)
RingFind(S, id) ==
    LET i == SelectInSeq(S.ring, LAMBDA entry : entry.id = id)
    IN  IF i = 0 THEN "unknown" ELSE S.ring[i].how

(* h2c_remove: what the stream held goes back to the connection's window.  *)
RemoveStream(S, id, properly, how) ==
    LET T == [S EXCEPT !.streams = Restrict(@, DOMAIN @ \ {id}),
                       !.debt = IF properly /\ @ > 0 THEN @ - 1 ELSE @]
    IN  ConnCredit(RingAdd(T, id, how), S.streams[id].held)

(* h2c_is_idle                                                             *)
IsIdle(S, id) == IF S.server THEN id > S.lastPeerId ELSE id >= S.nextId

(* h2c_debt                                                                *)
Debt(S) ==
    LET T == [S EXCEPT !.debt = @ + 1]
    IN  IF T.debt > CfgDebt THEN Fail(T, "calm") ELSE T

(* h2c_stream_fault                                                        *)
StreamFault(S, id, code, forgive) ==
    LET Q == [Answer(S, Rst(id, code)) EXCEPT !.blamed = @ \cup {code}]
    IN  Debt(IF id \in Open(Q) THEN RemoveStream(Q, id, FALSE, IF forgive THEN "ours" ELSE "done")
             ELSE IF forgive THEN RingAdd(Q, id, "ours") ELSE Q)

(* h2c_closed_frame                                                        *)
ClosedFrame(S, id) ==
    LET how == RingFind(S, id)
    IN  CASE how = "ours" -> S
          [] how = "peer" -> StreamFault(S, id, "closed", FALSE)
          [] how = "done" -> Fail(S, "closed")
          [] how = "unknown" ->
               Fail(S, IF Len(S.ring) = CfgStreams(S) THEN "forgotten" ELSE "unknown")

EndedByBoth == "done"     \* mutant: what the client still sends is a fault
EndedEarly == "ours"

(* h2c_local_end: a response that is complete before its request makes the *)
(* rest of the request unwanted.                                           *)
LocalEnd(S, id) ==
    LET T == Flag(S, id, {"LOCAL_END"})
    IN  CASE Has(S, id, "REMOTE_END") -> RemoveStream(T, id, TRUE, "done")
          [] ~Has(S, id, "REMOTE_END") /\ (~S.server \/ Has(S, id, "TUNNEL")) -> T
          [] OTHER -> RemoveStream(Queue(T, Rst(id, "none")), id, TRUE, EndedEarly)

(* h2c_remote_end                                                          *)
RemoteEnd(S, id) ==
    LET T == Flag(S, id, {"REMOTE_END"})
    IN  IF Has(S, id, "LOCAL_END") THEN RemoveStream(T, id, TRUE, "done") ELSE T

-----------------------------------------------------------------------------
(* Frames, arriving: what an end becomes when it has read one.             *)

(* Until a change is acknowledged the larger number holds.                 *)
SaidLimit(S) == S.advStreams     \* mutant: a lower number holds once it is said
StreamLimit(S) == Larger(S.ackedStreams, S.advStreams)

(* h2c_on_block, at a server: a new request, or trailers.                  *)
ServerBlock(S, f) ==
    LET T == [S EXCEPT !.lastPeerId = f.id]
    IN  CASE f.id \in Open(S) ->
               IF Has(S, f.id, "REMOTE_END") THEN StreamFault(S, f.id, "closed", FALSE)
               ELSE IF ~f.fin THEN StreamFault(S, f.id, "protocol", TRUE)
               ELSE RemoteEnd(S, f.id)
          [] f.id \notin Open(S) /\ f.id <= S.lastPeerId -> ClosedFrame(S, f.id)
          [] f.id > S.lastPeerId /\ S.goawaySent ->
               LET Q == Answer(T, Rst(f.id, "refused"))
               IN  IF f.fin THEN Q ELSE RingAdd(Q, f.id, "ours")
          [] f.id > S.lastPeerId /\ ~S.goawaySent
             /\ Cardinality(Open(S)) >= StreamLimit(S) ->
               [StreamFault(T, f.id, "refused", ~f.fin) EXCEPT !.overLimit = @ \cup {f.id}]
          [] OTHER ->
               LET s == NewStream(T, f.tunnel)
               IN  [T EXCEPT
                     !.streams = [i \in Open(T) \cup {f.id} |-> IF i = f.id
                        THEN [s EXCEPT !.flags = @ \cup (IF f.fin THEN {"REMOTE_END"} ELSE {})]
                        ELSE T.streams[i]],
                     !.lastActed = f.id, !.acted = @ \cup {f.id}]

(* h2c_on_block, at a client: the response, or trailers.                   *)
ClientBlock(S, f) ==
    CASE f.id \notin Open(S) ->
           IF f.id < S.nextId THEN ClosedFrame(S, f.id) ELSE Fail(S, "protocol")
      [] f.id \in Open(S) /\ Has(S, f.id, "REMOTE_END") -> StreamFault(S, f.id, "closed", FALSE)
      [] f.id \in Open(S) /\ ~Has(S, f.id, "REMOTE_END") /\ ~Has(S, f.id, "HEAD_RECV") ->
           LET T == Flag(S, f.id, {"HEAD_RECV"})
           IN  IF f.fin THEN RemoteEnd(T, f.id) ELSE T
      [] OTHER -> IF f.fin THEN RemoteEnd(S, f.id) ELSE StreamFault(S, f.id, "protocol", TRUE)

(* h2c_apply_setting for each setting of the frame, then the answer.       *)
(* Every open stream moves by the difference, below zero if need be.       *)
OnSettings(S, f) ==
    LET G == [S EXCEPT !.gotSettings = TRUE,
                       !.peerStreams = IF f.streams = -1 THEN @ ELSE f.streams]
        delta == f.window - S.peerWindow
        tooMuch == \E id \in Open(S) : S.streams[id].send + delta > MaxWindow
        M == [G EXCEPT
                !.streams = [id \in Open(S) |-> [S.streams[id] EXCEPT !.send = @ + delta]],
                !.peerWindow = f.window,
                !.sweepWritable = @ \/ delta > 0]
    IN  CASE f.window = -1 -> Answer(G, Ack)
          [] f.window # -1 /\ tooMuch -> Fail(G, "flow")
          [] OTHER -> Answer(M, Ack)

(* Mutant: streams that are open keep the window they began with.          *)
NewStreamsOnly(S, window) == [S EXCEPT !.localWindow = window]

(* h2c_local_window: every open stream moves with the initial window.      *)
LocalWindow(S, window) ==
    [S EXCEPT !.localWindow = window,
              !.streams = [id \in Open(S) |->
                             [S.streams[id] EXCEPT !.recv = @ + (window - S.localWindow)]]]

(* h2c_settings_change: say what of want_ differs.  A raise holds at once, *)
(* a lowering when it is acknowledged.                                     *)
SettingsChange(S) ==
    LET said == Settings(IF S.wantStreams # S.advStreams THEN S.wantStreams ELSE -1,
                         IF S.wantWindow # S.advWindow THEN S.wantWindow ELSE -1)
        T == [Put(S, said) EXCEPT !.advStreams = S.wantStreams,
                                  !.advWindow = S.wantWindow, !.chgInflight = TRUE]
    IN  IF said = Settings(-1, -1) THEN S
        ELSE IF T.settingsAcked /\ T.advWindow > T.localWindow
               THEN LocalWindow(T, T.advWindow) ELSE T

(* h2c_settings_acked: the opening's acknowledgement first, then that of   *)
(* the change in flight, after which what was asked for meanwhile goes out *)
OnAck(S) ==
    CASE ~S.settingsAcked -> LocalWindow([S EXCEPT !.settingsAcked = TRUE], CfgWindow(S))
      [] S.settingsAcked /\ ~S.chgInflight -> S
      [] OTHER ->
           SettingsChange(LocalWindow([S EXCEPT !.chgInflight = FALSE,
                                                !.ackedStreams = S.advStreams], S.advWindow))

(* h2c_on_header for DATA: the whole frame counts against both windows     *)
(* before a byte of it is looked at.                                       *)
OnData(S, f) ==
    LET T == [S EXCEPT !.recvWin = @ - f.n,
                       !.rd = [id |-> f.id, left |-> f.n, fin |-> f.fin, drop |-> FALSE]]
        D == [T EXCEPT !.rd.drop = TRUE]
        open == f.id \in Open(S)
    IN  CASE f.n > S.recvWin -> Fail(S, "flow")
          [] f.n <= S.recvWin /\ ~open ->
               IF IsIdle(S, f.id) THEN Fail(T, "protocol") ELSE ClosedFrame(D, f.id)
          [] f.n <= S.recvWin /\ open /\ Has(S, f.id, "REMOTE_END") ->
               StreamFault(D, f.id, "closed", FALSE)
          [] f.n <= S.recvWin /\ open /\ ~Has(S, f.id, "REMOTE_END")
             /\ ~S.server /\ ~Has(S, f.id, "HEAD_RECV") ->
               StreamFault(D, f.id, "protocol", TRUE)
          [] OTHER ->
               IF f.n > S.streams[f.id].recv
                 THEN StreamFault(D, f.id, IF f.n = 0 THEN "empty" ELSE "flow", TRUE)
                 ELSE [T EXCEPT !.streams[f.id].recv = @ - f.n]

(* h2c_read, RS_DATA: n units of the frame under way, the stream looked up *)
(* again for each piece; with none left, the end of the frame.             *)
OnPiece(S, n) ==
    LET id == S.rd.id
        left == S.rd.left - n
        T == [S EXCEPT !.rd = IF left = 0 THEN NoData ELSE [@ EXCEPT !.left = left]]
        H == [T EXCEPT !.streams[id].held = @ + n]
    IN  IF S.rd.drop \/ id \notin Open(S) THEN ConnCredit(T, n)
        ELSE IF left = 0 /\ S.rd.fin THEN RemoteEnd(H, id) ELSE H

(* h2c_on_fixed: WINDOW_UPDATE.                                            *)
OnWindow(S, f) ==
    CASE f.id = 0 ->
           IF S.sendWin + f.n > MaxWindow THEN Fail(S, "flow")
           ELSE [S EXCEPT !.sendWin = @ + f.n, !.sweepWritable = TRUE]
      [] f.id # 0 /\ f.id \notin Open(S) -> IF IsIdle(S, f.id) THEN Fail(S, "protocol") ELSE S
      [] OTHER ->
           IF S.streams[f.id].send + f.n > MaxWindow THEN StreamFault(S, f.id, "flow", TRUE)
           ELSE [S EXCEPT !.streams[f.id].send = @ + f.n, !.sweepWritable = TRUE]

(* h2c_on_fixed: RST_STREAM.  A server that is done with a response ends a *)
(* request it does not want this way; anything else is counted.            *)
OnRst(S, f) ==
    LET polite == ~S.server /\ f.code = "none" /\ Has(S, f.id, "REMOTE_END")
        R == RemoveStream(S, f.id, polite, "peer")
        T == IF f.code = "refused" THEN [R EXCEPT !.refused = @ \cup {f.id}] ELSE R
    IN  IF f.id \notin Open(S)
          THEN IF IsIdle(S, f.id) THEN Fail(S, "protocol") ELSE S
          ELSE IF polite THEN T ELSE Debt(T)

(* h2c_on_fixed and h2c_goaway_event: GOAWAY.                              *)
OnGoaway(S, f) ==
    IF S.goawayRecv /\ f.last > S.goawayLast THEN Fail(S, "protocol")
    ELSE [S EXCEPT !.goawayLast = f.last, !.goawayRecv = TRUE, !.sweepGoaway = TRUE]

OnFrame(S, f) ==
    CASE f.t = "settings" -> OnSettings(S, f)
      [] f.t = "ack" -> OnAck(S)
      [] f.t = "headers" -> IF S.server THEN ServerBlock(S, f) ELSE ClientBlock(S, f)
      [] f.t = "data" -> OnData(S, f)
      [] f.t = "window" -> OnWindow(S, f)
      [] f.t = "rst" -> OnRst(S, f)
      [] f.t = "goaway" -> OnGoaway(S, f)
      [] f.t = "ping" -> Answer(S, Pong)
      [] f.t = "pong" -> S

-----------------------------------------------------------------------------
(* proven_h2_conn_feed: what is due first, then what is new.               *)

(* h2c_can_write                                                           *)
CanWrite(S, id) ==
    /\ S.pending < CfgOut
    /\ \/ Has(S, id, "HBLOCKED")
       \/ Has(S, id, "BLOCKED") /\ S.streams[id].send > 0 /\ S.sendWin > 0

(* The streams that the peer's goodbye left out.                           *)
BeyondLast(S) == {id \in Open(S) : id > S.goawayLast}

LeftOut(S) == IF S.sweepGoaway /\ ~S.server THEN BeyondLast(S) ELSE {}
Writable(S) == IF S.sweepWritable THEN {id \in Open(S) : CanWrite(S, id)} ELSE {}
AtEnd(S) == (S.goawayRecv \/ S.goawaySent) /\ Open(S) = {}
IsDue(S) == LeftOut(S) # {} \/ Writable(S) # {} \/ AtEnd(S)
Swept(S) == [S EXCEPT !.sweepGoaway = FALSE, !.sweepWritable = FALSE]

(* Mutant: output that left does not make a sweep due.                     *)
OutputSentOnly(S) ==
    LET n == Size(Head(S.out))
    IN  [S EXCEPT !.out = Tail(@), !.pending = @ - n, !.ctlQueued = Larger(@ - n, 0)]

(* proven_h2_conn_output_sent: the first frame of the output leaves, and   *)
(* a sweep will see which streams the room lets go on.  The transport is   *)
(* part of the output: a frame leaves when the other end begins to read it *)
OutputSent(S) ==
    LET n == Size(Head(S.out))
    IN  [S EXCEPT !.out = Tail(@), !.pending = @ - n, !.ctlQueued = Larger(@ - n, 0),
                  !.sweepWritable = TRUE]

Step(e, S) == end' = [end EXCEPT ![e] = S]
(* A call of this kind is among those left.                                *)
Call(kind) == plan[kind] > 0 /\ plan' = [plan EXCEPT ![kind] = @ - 1]

(* A stream the peer's goodbye left out: it can be sent again elsewhere.   *)
DueRefused(e) ==
    /\ ~end[e].closed
    /\ \E id \in LeftOut(end[e]) :
         Step(e, [RemoveStream(end[e], id, FALSE, "peer") EXCEPT !.refused = @ \cup {id}])
    /\ UNCHANGED plan

(* A stream that may send again; the order among them is left open.        *)
DueWritable(e) ==
    /\ ~end[e].closed /\ LeftOut(end[e]) = {}
    /\ \E id \in Writable(end[e]) :
         Step(e, [end[e] EXCEPT !.sweepGoaway = FALSE,
                                !.streams[id].flags = @ \ {"BLOCKED", "HBLOCKED"}])
    /\ UNCHANGED plan

(* After a goodbye the end of the last stream is the end.                  *)
DueClose(e) ==
    /\ ~end[e].closed /\ LeftOut(end[e]) = {} /\ Writable(end[e]) = {} /\ AtEnd(end[e])
    /\ Step(e, [Swept(end[e]) EXCEPT !.closed = TRUE])
    /\ UNCHANGED plan

(* A call of feed that has nothing due and nothing new.                    *)
FeedNothing(e) ==
    /\ ~end[e].closed /\ ~IsDue(end[e]) /\ Swept(end[e]) # end[e]
    /\ Step(e, Swept(end[e]))
    /\ UNCHANGED plan

(* h2c_read: a whole frame, or the header of a DATA frame.                 *)
ReadFrame(e) ==
    LET o == Other(e) IN
    /\ ~end[e].closed /\ ~IsDue(end[e]) /\ end[e].rd = NoData /\ end[o].out # << >>
    /\ end' = [end EXCEPT ![e] = OnFrame(Swept(@), Head(end[o].out)), ![o] = OutputSent(@)]
    /\ UNCHANGED plan

(* h2c_read: a piece of the DATA frame under way.                          *)
ReadPiece(e) ==
    /\ ~end[e].closed /\ ~IsDue(end[e]) /\ end[e].rd # NoData
    /\ \E n \in Smaller(1, end[e].rd.left)..end[e].rd.left :
         Step(e, OnPiece(Swept(end[e]), n))
    /\ UNCHANGED plan

-----------------------------------------------------------------------------
(* What the applications call.                                             *)

(* proven_h2_conn_submit_request                                           *)
SubmitRequest ==
    LET S == end["client"]
        id == S.nextId
    IN  /\ ~S.closed /\ ~S.goawayRecv /\ ~S.goawaySent /\ id <= MaxId
        /\ Cardinality(Open(S)) < Smaller(S.wantStreams, S.peerStreams)
        /\ S.pending < CfgOut
        /\ \E fin \in BOOLEAN :
             LET s == NewStream(S, FALSE)
                 flags == {"HEAD_SENT"} \cup (IF fin THEN {"LOCAL_END"} ELSE {})
             IN  Step("client",
                   [Put(S, Headers(id, fin, plan.tunnel)) EXCEPT
                      !.streams = [i \in Open(S) \cup {id} |->
                                     IF i = id THEN [s EXCEPT !.flags = flags] ELSE @[i]],
                      !.nextId = id + 2,
                      !.blind = IF S.gotSettings THEN @ ELSE @ \cup {id}])
        /\ Call("requests")

(* proven_h2_conn_submit_response; plain: a status above 299, after which  *)
(* a tunnel is an ordinary stream.                                         *)
SubmitResponse(id) ==
    LET S == end["server"] IN
    /\ ~S.closed /\ id \in Open(S) /\ ~Has(S, id, "HEAD_SENT")
    /\ IF S.pending >= CfgOut
         THEN Step("server", Flag(S, id, {"HBLOCKED"}))
         ELSE \E fin \in BOOLEAN, plain \in {FALSE, plan.tunnel} :
                LET Q == Flag(Put(S, Headers(id, fin, FALSE)), id, {"HEAD_SENT"})
                    T == IF plain THEN [Q EXCEPT !.streams[id].flags = @ \ {"TUNNEL"}] ELSE Q
                IN  Step("server", IF fin THEN LocalEnd(T, id) ELSE T)
    /\ Call("responses")

(* The frames that carry take units, the last one perhaps the end.         *)
DataFrames(id, take, fin) ==
    LET count == Larger(1, (take + Frame - 1) \div Frame)
    IN  [i \in 1..count |-> Data(id, IF i < count THEN Frame ELSE take - (count - 1) * Frame,
                                 fin /\ i = count)]

(* What both windows let through.                                          *)
SendRoom(S, id) == Larger(0, Smaller(S.streams[id].send, S.sendWin))

(* Of n, as much as both windows and the output's bound let through.       *)
Taken(S, id, n) == Smaller(Smaller(n, SendRoom(S, id)), Larger(0, CfgOut - S.pending))

(* An end that was asked to send n, and perhaps the end of the stream.     *)
Sent(S, id, n, fin) ==
    LET take == Taken(S, id, n)
        last == take = n /\ fin
        frames == IF take > 0 \/ last THEN DataFrames(id, take, last) ELSE << >>
        T == [S EXCEPT !.out = @ \o frames,
                       !.pending = @ + (IF frames = << >> THEN 0 ELSE Larger(take, 1)),
                       !.streams[id].send = @ - take,
                       !.sendWin = @ - take]
    IN  IF take < n THEN Flag(T, id, {"BLOCKED"}) ELSE IF fin THEN LocalEnd(T, id) ELSE T

(* proven_h2_conn_send_data                                                *)
SendData(e, id) ==
    LET S == end[e] IN
    /\ ~S.closed /\ id \in Open(S) /\ Has(S, id, "HEAD_SENT") /\ ~Has(S, id, "LOCAL_END")
    /\ \E n \in 0..plan.body[e], fin \in BOOLEAN :
         /\ n > 0 \/ fin
         /\ Step(e, Sent(S, id, n, fin))
         /\ plan' = [plan EXCEPT !.body[e] = @ - Taken(S, id, n)]

(* proven_h2_conn_send_trailers                                            *)
SendTrailers(e, id) ==
    LET S == end[e] IN
    /\ ~S.closed /\ id \in Open(S) /\ Has(S, id, "HEAD_SENT") /\ ~Has(S, id, "LOCAL_END")
    /\ Step(e, IF S.pending >= CfgOut THEN Flag(S, id, {"HBLOCKED"})
               ELSE LocalEnd(Put(S, Headers(id, TRUE, FALSE)), id))
    /\ Call("trailers")

(* proven_h2_conn_reset                                                    *)
Reset(e, id) ==
    LET S == end[e]
        how == IF Has(S, id, "REMOTE_END") THEN "done" ELSE "ours"
    IN  /\ ~S.closed /\ id \in Open(S)
        /\ Step(e, RemoveStream(Queue(S, Rst(id, "cancel")), id, FALSE, how))
        /\ Call("resets")

(* proven_h2_conn_consumed                                                 *)
Consumed(e, id) ==
    LET S == end[e] IN
    /\ ~S.closed /\ id \in Open(S)
    /\ \E n \in 1..S.streams[id].held, fast \in BOOLEAN :
         Step(e, ConnCredit(StreamCredit([S EXCEPT !.streams[id].held = @ - n], id, n, fast), n))
    /\ UNCHANGED plan

(* proven_h2_conn_ping                                                     *)
SendPing(e) ==
    /\ ~end[e].closed
    /\ Step(e, Put(end[e], Ping))
    /\ Call("pings")

(* proven_h2_conn_shutdown with no error.                                  *)
Shutdown(e) ==
    LET S == end[e] IN
    /\ e \in plan.goodbyes /\ ~S.closed /\ ~S.goawaySent
    /\ Step(e, [Put(S, Goaway(S.lastActed, "none")) EXCEPT !.goawaySent = TRUE])
    /\ plan' = [plan EXCEPT !.goodbyes = @ \ {e}]

(* h2c_set, the calls of the server's owner that change its settings: kept *)
(* while a change is in flight, refused after a goodbye.                   *)
Set(S, streams, window) ==
    LET T == [S EXCEPT !.wantStreams = streams, !.wantWindow = window]
    IN  IF S.closed \/ S.goawaySent THEN S
        ELSE IF S.chgInflight THEN T ELSE SettingsChange(T)

(* proven_h2_conn_cap_window_: a ceiling on credit from now on.            *)
CapWindow(S, n) ==
    LET T == [S EXCEPT !.cap = n]
        initial == IF n # 0 THEN Smaller(n, CfgWindow(S)) ELSE CfgWindow(S)
    IN  IF initial = T.wantWindow THEN T ELSE Set(T, T.wantStreams, initial)

(* proven_h2_conn_set_max_streams and proven_h2_conn_set_initial_window    *)
(* (refused above the configured numbers), and the ceiling, as planned.    *)
Change ==
    LET S == end["server"]
        ch == Head(plan.changes)
    IN  /\ plan.changes # << >> /\ ~S.closed
        /\ ch.call # "cap" => ~S.goawaySent
        /\ Step("server", CASE ch.call = "streams" -> Set(S, ch.n, S.wantWindow)
                            [] ch.call = "window" -> Set(S, S.wantStreams, ch.n)
                            [] ch.call = "cap" -> CapWindow(S, ch.n))
        /\ plan' = [plan EXCEPT !.changes = Tail(@)]

Init ==
    /\ end = [e \in Ends |-> Created(e = "server")]
    /\ plan \in Plans

Next ==
    \/ SubmitRequest
    \/ Change
    \/ \E id \in Ids : SubmitResponse(id)
    \/ \E e \in Ends, id \in Ids :
         SendData(e, id) \/ SendTrailers(e, id) \/ Reset(e, id) \/ Consumed(e, id)
    \/ \E e \in Ends :
         \/ DueRefused(e) \/ DueWritable(e) \/ DueClose(e) \/ FeedNothing(e)
         \/ ReadFrame(e) \/ ReadPiece(e)
         \/ SendPing(e) \/ Shutdown(e)

Spec == Init /\ [][Next]_vars

-----------------------------------------------------------------------------
(* Type correctness.                                                       *)
StreamFlags == {"LOCAL_END", "REMOTE_END", "HEAD_SENT", "HEAD_RECV", "BLOCKED", "HBLOCKED", "TUNNEL"}
StreamType == [send : Int, recv : Int, unacked : Nat, held : Nat, win : Nat,
               flags : SUBSET StreamFlags]
Endings == {"ours", "peer", "done"}
Codes == {"none", "cancel", "refused", "calm", "closed", "protocol", "flow",
          "forgotten", "unknown", "empty"}

FrameType ==
    [t : {"settings"}, streams : Int, window : Int] \cup [t : {"ack", "ping", "pong"}]
    \cup [t : {"headers"}, id : Ids, fin : BOOLEAN, tunnel : BOOLEAN]
    \cup [t : {"data"}, id : Ids, n : Nat, fin : BOOLEAN]
    \cup [t : {"window"}, id : Ids \cup {0}, n : Nat]
    \cup [t : {"rst"}, id : Ids, code : Codes]
    \cup [t : {"goaway"}, last : Nat, code : Codes]

EndType(ids) ==
    [server : BOOLEAN, streams : [ids -> StreamType],
     ring : Seq([id : Ids, how : Endings]), out : Seq(FrameType), pending : Int, ctlQueued : Int,
     sendWin : Int, recvWin : Int, unacked : Nat, target : Nat, cap : Nat,
     localWindow : Int, advWindow : Int, wantWindow : Int, peerWindow : Int,
     advStreams : Int, ackedStreams : Int, wantStreams : Int, peerStreams : Int,
     chgInflight : BOOLEAN, settingsAcked : BOOLEAN, gotSettings : BOOLEAN,
     nextId : Nat, lastPeerId : Nat, lastActed : Nat,
     goawaySent : BOOLEAN, goawayRecv : BOOLEAN, goawayLast : Int,
     sweepGoaway : BOOLEAN, sweepWritable : BOOLEAN, debt : Int, closed : BOOLEAN,
     rd : [id : Ids \cup {0}, left : Nat, fin : BOOLEAN, drop : BOOLEAN],
     blamed : SUBSET Codes, acted : SUBSET Ids, overLimit : SUBSET Ids,
     refused : SUBSET Ids, blind : SUBSET Ids]

IsEnd(S) == Open(S) \subseteq Ids /\ S \in EndType(Open(S))
EndsTyped ==
    /\ DOMAIN end = Ends
    /\ \A e \in Ends : IsEnd(end[e]) /\ end[e].server = (e = "server")
    /\ plan \in PlanType

TypeOK ==
    /\ EndsTyped
    /\ \A e \in Ends :
         LET S == end[e] IN
         /\ Len(S.ring) <= CfgStreams(S)
         /\ {S.pending, S.ctlQueued, S.localWindow, S.debt, S.sendWin, S.recvWin} \subseteq Nat
         /\ S.lastActed <= S.lastPeerId

-----------------------------------------------------------------------------
(* Two ends that keep the protocol never find a fault in each other: no    *)
(* frame arrives beyond a window, on a stream that is over or idle, or out *)
(* of its place, however settings, resets, early responses and goodbyes    *)
(* cross on the way.  What is left: a stream over the limit is refused, a  *)
(* peer that resets much or reads nothing is told to calm down, a late     *)
(* frame on a stream that was ended more endings ago than are remembered   *)
(* is taken for a fault (manual-17: "for as long as the reset is among the *)
(* last max_concurrent_streams endings"), and an empty frame that ends a   *)
(* stream whose window was lowered below zero, which the code takes for    *)
(* data beyond the window.                                                 *)
NoFault ==
    /\ TypeOK
    /\ \A e \in Ends : end[e].blamed \subseteq {"refused", "calm", "forgotten", "empty"}

(* A stream is refused for the number of streams only if the client opened *)
(* it before it had read any settings: a lower number holds only once it   *)
(* is acknowledged, so a client that keeps to what it read is never        *)
(* refused (h2.h, proven_h2_conn_set_max_streams).  And a request the      *)
(* client reports as refused, by a reset or by the goodbye's last stream,  *)
(* was never handed to the server's application: sending it again          *)
(* elsewhere does nothing twice.                                           *)
RefusalsAreRight ==
    /\ end["server"].overLimit \subseteq end["client"].blind
    /\ end["client"].refused \cap end["server"].acted = {}

(* The units that frames of this kind, for these streams, carry from e.    *)
Of(out, kind, ids) == {i \in DOMAIN out : out[i].t = kind /\ out[i].id \in ids}
Carried(out, kind, ids) == Total([i \in Of(out, kind, ids) |-> out[i].n])
InFlight(e, kind, ids) == Carried(end[e].out, kind, ids)

(* Both ends count the same: what the receiver would still take is what    *)
(* the sender may still send, what is under way to the receiver and the    *)
(* room under way to the sender - for the connection and, relative to the  *)
(* initial window each side holds to, for every stream open on both.       *)
WindowsAgree ==
    \A e \in Ends :
      LET S == end[e]
          R == end[Other(e)]
      IN  S.closed \/ R.closed \/
          /\ R.recvWin = S.sendWin + InFlight(e, "data", Ids) + InFlight(Other(e), "window", {0})
          /\ \A id \in Open(S) \cap Open(R) :
               R.streams[id].recv - R.localWindow
                 = S.streams[id].send - S.peerWindow
                   + InFlight(e, "data", {id}) + InFlight(Other(e), "window", {id})

(* The last stream an end knows of: neither it nor what it has sent is of  *)
(* a later one.  The client is ahead of the server.                        *)
Known(S) == IF S.server THEN S.lastPeerId ELSE S.nextId - 1
OfKnown(S) ==
    /\ \A id \in Open(S) : id <= Known(S)
    /\ \A i \in DOMAIN S.out :
         S.out[i].t \in {"headers", "data", "window"} => S.out[i].id <= Known(S)
StreamsInOrder ==
    /\ \A e \in Ends : OfKnown(end[e])
    /\ end["client"].nextId % 2 = 1
    /\ end["server"].lastPeerId < end["client"].nextId

(* What an end counts as sent and as taken, with what is under way: the    *)
(* two sides of the equations in WindowsAgree.                             *)
ConnSends(S) == S.sendWin + Carried(S.out, "data", Ids)
ConnTakes(S) == S.recvWin - Carried(S.out, "window", {0})
Sends(S, id) == S.streams[id].send - S.peerWindow + Carried(S.out, "data", {id})
Takes(S, id) == S.streams[id].recv - S.localWindow - Carried(S.out, "window", {id})

(* They agree, and for a stream whose request the server has not read yet  *)
(* the client has counted nothing but what is under way.                   *)
CountsAgree ==
    LET c == end["client"]
        s == end["server"]
    IN  c.closed \/ s.closed \/
        /\ \A e \in Ends : ConnTakes(end[Other(e)]) = ConnSends(end[e])
        /\ \A e \in Ends : \A id \in Open(c) \cap Open(s) :
             Takes(end[Other(e)], id) = Sends(end[e], id)
        /\ \A id \in Open(c) : id > s.lastPeerId => Sends(c, id) = 0 /\ Takes(c, id) = 0

WindowInv ==
    /\ EndsTyped
    /\ StreamsInOrder
    /\ CountsAgree

(* Nothing is under way between the two ends and nothing is due.           *)
Quiet ==
    \A e \in Ends : /\ ~end[e].closed /\ ~IsDue(end[e]) /\ end[e].rd = NoData
                    /\ end[e].out = << >>

(* A stream that was cut short and could go on is never forgotten: when    *)
(* it may write, a sweep is due that will say so.  And when nothing is     *)
(* under way and all that arrived has been consumed, the connection has    *)
(* room: withholding credit until half a window has been consumed never    *)
(* leaves the peer waiting for it.                                         *)
NothingStalls ==
    /\ \A e \in Ends : \A id \in Open(end[e]) :
         ~end[e].closed /\ CanWrite(end[e], id) => end[e].sweepWritable
    /\ Quiet => \A e \in Ends : Held(end[Other(e)]) = 0 => end[e].sendWin > 0

(* What the second half needs of the plan: the ceilings that the server's  *)
(* owner asks for never rise again (0 is no ceiling).  Under a ceiling, room*)
(* that h2c_conn_credit withholds is not owed later: after the ceiling is  *)
(* lifted, half of the target can be more than the peer has room for.      *)
Tightens(a, b) == b = a \/ a = 0 \/ (b # 0 /\ b <= a)
OnlyTightens(changes) ==
    \A i, j \in DOMAIN changes :
      i <= j /\ changes[i].call = "cap" /\ changes[j].call = "cap"
      => Tightens(changes[i].n, changes[j].n)
CeilingsOnlyFall == \A p \in Plans : OnlyTightens(p.changes)

(* The same for each stream whose sender has not ended it.                 *)
StreamNeverStalls ==
    Quiet => \A e \in Ends : \A id \in Open(end[e]) \cap Open(end[Other(e)]) :
               /\ Has(end[e], id, "HEAD_SENT") /\ ~Has(end[e], id, "LOCAL_END")
               /\ end[Other(e)].streams[id].held = 0 /\ end[Other(e)].localWindow > 0
               => end[e].streams[id].send > 0
=============================================================================
