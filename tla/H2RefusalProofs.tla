-------------------------- MODULE H2RefusalProofs --------------------------
(***************************************************************************)
(* Refusals of an HTTP/2 connection, for all configurations and for every  *)
(* plan of the two applications: a request that the client's application   *)
(* is told was refused never reached the server's (RefusedNeverActedOn).   *)
(* The proof says of each step what it leaves alone, what it puts into the *)
(* output, and what becomes of each stream (Goes, Fares, Reading, Moves);  *)
(* H2LimitProofs goes on from there.                                       *)
(***************************************************************************)
EXTENDS H2ConnProofs
---------------------------------------------------------------------------
(* An end's own steps, again: what they leave alone.                       *)

(* What only reading a frame or a call that begins something changes.      *)
Same(S, R) ==
    /\ R.server = S.server /\ R.nextId = S.nextId /\ R.lastPeerId = S.lastPeerId
    /\ R.lastActed = S.lastActed /\ R.acted = S.acted /\ R.overLimit = S.overLimit
    /\ R.blind = S.blind

(* The limit on streams, as it was said and acknowledged.                  *)
SameNumbers(S, R) ==
    /\ R.advStreams = S.advStreams /\ R.ackedStreams = S.ackedStreams
    /\ R.wantStreams = S.wantStreams
    /\ R.settingsAcked = S.settingsAcked /\ R.chgInflight = S.chgInflight

(* That, and what the peer's settings, resets and goodbye have told.       *)
SameLimit(S, R) ==
    /\ SameNumbers(S, R)
    /\ R.gotSettings = S.gotSettings /\ R.peerStreams = S.peerStreams
    /\ R.refused = S.refused
    /\ R.goawayRecv = S.goawayRecv /\ R.goawayLast = S.goawayLast
    /\ R.sweepGoaway => S.sweepGoaway

Rest(S, R) ==
    /\ Same(S, R) /\ SameLimit(S, R) /\ R.rd = S.rd
    /\ R.sweepGoaway = S.sweepGoaway /\ R.streams = S.streams

LEMMA RestTrans ==
    ASSUME NEW S, NEW R, NEW T, Rest(S, R), Rest(R, T)
    PROVE  Rest(S, T)
BY DEF Rest, Same, SameLimit, SameNumbers

(* The frames that an end has put behind those of before.                  *)
New(S, R) == Len(S.out) + 1 .. Len(R.out)

(* What a frame may be that an end puts there by itself.                   *)
Fits(S, R, f) ==
    /\ f.t = "goaway" => R.goawaySent /\ f.last = S.lastActed
    /\ f.t = "rst" => f.id <= Known(S)
    /\ f.t = "headers" => f.id \in Open(S)

Goes(S, R) ==
    /\ GoodEnd(R) /\ Same(S, R)
    /\ S.goawaySent => R.goawaySent
    /\ S.goawayRecv => R.goawayRecv
    /\ S.closed => R.closed
    /\ Open(R) \subseteq Open(S)
    /\ Len(S.out) <= Len(R.out) /\ \A i \in 1 .. Len(S.out) : R.out[i] = S.out[i]
    /\ \A i \in New(S, R) : Fits(S, R, R.out[i])

(* Neither the limit nor the frame under way.                              *)
Settled(S, R) ==
    /\ SameLimit(S, R) /\ R.rd = S.rd
    /\ \A i \in New(S, R) : R.out[i].t \notin {"settings", "ack"}

(* All that answering can put there.                                       *)
Murmur(f) == f.t \in {"window", "goaway", "ping", "pong"}

(* R is S after answers, and without some of its streams.                  *)
Parts(S, R, gone) ==
    /\ Goes(S, R) /\ Settled(S, R)
    /\ Open(R) = Open(S) \ gone
    /\ \A j \in Open(R) : R.streams[j].flags = S.streams[j].flags
    /\ \A i \in New(S, R) : Murmur(R.out[i])

LEMMA OutIs ==
    ASSUME NEW S, GoodEnd(S)
    PROVE  S.out \in Seq(FrameType) /\ Len(S.out) \in Nat
BY EndFields DEF GoodEnd

LEMMA KnownIs ==
    ASSUME NEW S, NEW R, Same(S, R)
    PROVE  Known(R) = Known(S)
BY DEF Same, Known

LEMMA GoesItself ==
    ASSUME NEW S, GoodEnd(S)
    PROVE  Parts(S, S, {})
<1>1. Len(S.out) \in Nat
  BY OutIs
<1>2. New(S, S) = {}
  BY <1>1 DEF New
<1> QED
  BY <1>1, <1>2 DEF Parts, Goes, Same, Settled, SameLimit, SameNumbers

LEMMA GoesTrans ==
    ASSUME NEW S, GoodEnd(S), NEW R, NEW T, Goes(S, R), Goes(R, T)
    PROVE  /\ Goes(S, T)
           /\ New(S, R) \subseteq New(S, T) /\ New(R, T) \subseteq New(S, T)
           /\ \A i \in New(S, R) : T.out[i] = R.out[i]
           /\ New(S, T) = New(S, R) \cup New(R, T)
<1>1. Len(S.out) \in Nat /\ Len(R.out) \in Nat /\ Len(T.out) \in Nat
  BY OutIs DEF Goes
<1>2. Len(S.out) <= Len(R.out) /\ Len(R.out) <= Len(T.out)
  BY DEF Goes
<1>3. /\ New(S, R) \subseteq New(S, T) /\ New(R, T) \subseteq New(S, T)
      /\ New(S, T) = New(S, R) \cup New(R, T)
  BY <1>1, <1>2 DEF New
<1>4. \A i \in New(S, R) : T.out[i] = R.out[i]
  <2>1. New(S, R) \subseteq 1 .. Len(R.out)
    BY <1>1 DEF New
  <2> QED
    BY <2>1 DEF Goes
<1>5. Same(S, T)
  BY DEF Goes, Same
<1>6. \A i \in 1 .. Len(S.out) : T.out[i] = S.out[i]
  <2>1. 1 .. Len(S.out) \subseteq 1 .. Len(R.out)
    BY <1>1, <1>2
  <2> QED
    BY <2>1 DEF Goes
<1>7. ASSUME NEW i \in New(S, T) PROVE Fits(S, T, T.out[i])
  <2>1. CASE i \in New(S, R)
    <3>1. Fits(S, R, R.out[i]) /\ T.out[i] = R.out[i]
      BY <1>4, <2>1 DEF Goes
    <3> QED
      BY <3>1 DEF Fits, Goes
  <2>2. CASE i \in New(R, T)
    <3>1. Fits(R, T, T.out[i]) /\ Known(R) = Known(S) /\ R.lastActed = S.lastActed
          /\ Open(R) \subseteq Open(S)
      BY <2>2, KnownIs DEF Goes, Same
    <3> QED
      BY <3>1 DEF Fits
  <2> QED
    BY <1>3, <1>7, <2>1, <2>2
<1>8. GoodEnd(T) /\ Open(T) \subseteq Open(S) /\ Len(S.out) <= Len(T.out)
      /\ (S.goawayRecv => T.goawayRecv) /\ (S.goawaySent => T.goawaySent)
      /\ (S.closed => T.closed)
  BY <1>1, <1>2 DEF Goes
<1> QED
  BY <1>3, <1>4, <1>5, <1>6, <1>7, <1>8 DEF Goes

LEMMA SettledTrans ==
    ASSUME NEW S, GoodEnd(S), NEW R, NEW T, Goes(S, R), Goes(R, T), Settled(S, R), Settled(R, T)
    PROVE  Settled(S, T)
<1>1. /\ \A i \in New(S, R) : T.out[i] = R.out[i]
      /\ New(S, T) = New(S, R) \cup New(R, T)
  BY GoesTrans
<1>2. \A i \in New(S, T) : T.out[i].t \notin {"settings", "ack"}
  BY <1>1 DEF Settled
<1> QED
  BY <1>2 DEF Settled, SameLimit, SameNumbers

LEMMA PartsTrans ==
    ASSUME NEW S, GoodEnd(S), NEW R, NEW T, NEW a, NEW b, Parts(S, R, a), Parts(R, T, b)
    PROVE  Parts(S, T, a \cup b)
<1>1. /\ Goes(S, T)
      /\ \A i \in New(S, R) : T.out[i] = R.out[i]
      /\ New(S, T) = New(S, R) \cup New(R, T)
  BY GoesTrans DEF Parts
<1>2. Settled(S, T)
  BY SettledTrans DEF Parts
<1>3. \A i \in New(S, T) : Murmur(T.out[i])
  BY <1>1 DEF Parts
<1>4. Open(T) = Open(S) \ (a \cup b) /\ \A j \in Open(T) : T.streams[j].flags = S.streams[j].flags
  BY DEF Parts
<1> QED
  BY <1>1, <1>2, <1>3, <1>4 DEF Parts

(* All that counts here is as it was.                                      *)
LEMMA RestParts ==
    ASSUME NEW S, GoodEnd(S), NEW R, GoodEnd(R), Rest(S, R), R.out = S.out,
           S.closed => R.closed, S.goawaySent => R.goawaySent
    PROVE  Parts(S, R, {})
<1>1. Len(S.out) \in Nat
  BY OutIs
<1>2. New(S, R) = {} /\ Open(R) = Open(S)
  BY <1>1 DEF New, Rest, Open
<1> QED
  BY <1>1, <1>2 DEF Parts, Goes, Settled, Rest, SameLimit

(* The same with one frame more.                                           *)
LEMMA RestMore ==
    ASSUME NEW S, GoodEnd(S), NEW R, GoodEnd(R), Rest(S, R), NEW f \in FrameType,
           R.out = Append(S.out, f),
           S.closed => R.closed, S.goawaySent => R.goawaySent, Fits(S, R, f)
    PROVE  /\ Goes(S, R) /\ SameLimit(S, R) /\ R.rd = S.rd
           /\ Open(R) = Open(S) /\ R.streams = S.streams
           /\ New(S, R) = {Len(S.out) + 1} /\ R.out[Len(S.out) + 1] = f
<1>1. S.out \in Seq(FrameType) /\ Len(S.out) \in Nat
  BY OutIs
<1>2. Len(R.out) = Len(S.out) + 1 /\ R.out[Len(S.out) + 1] = f
  BY <1>1
<1>3. \A i \in 1 .. Len(S.out) : R.out[i] = S.out[i]
  BY <1>1
<1>4. New(S, R) = {Len(S.out) + 1} /\ Open(R) = Open(S)
  BY <1>1, <1>2 DEF New, Rest, Open
<1>5. Len(S.out) <= Len(R.out)
  BY <1>1, <1>2
<1> QED
  BY <1>2, <1>3, <1>4, <1>5 DEF Goes, Rest, SameLimit


---------------------------------------------------------------------------
(* Output and credit.                                                      *)

LEMMA PutRest ==
    ASSUME NEW S, IsEnd(S), NEW f \in FrameType
    PROVE  /\ Rest(S, Put(S, f)) /\ Put(S, f).out = Append(S.out, f)
           /\ Put(S, f).closed = S.closed /\ Put(S, f).goawaySent = S.goawaySent
<1> HIDE DEF FrameType, StreamType
<1> QED
  BY ZenonT(60) DEF Put, IsEnd, EndType, Rest, Same, SameLimit, SameNumbers

LEMMA FailParts ==
    ASSUME NEW S, GoodEnd(S), NEW code \in Codes
    PROVE  /\ Parts(S, Fail(S, code), {}) /\ Fail(S, code).closed
           /\ Fail(S, code).streams = S.streams
<1> DEFINE f == Goaway(S.lastActed, code)
           P == Put(S, f)
           R == [P EXCEPT !.goawaySent = TRUE, !.closed = TRUE, !.blamed = @ \cup {code}]
<1>1. Due(S, f) /\ f \in FrameType /\ f.t = "goaway" /\ f.last = S.lastActed
  BY EndFields DEF GoodEnd, Goaway, Due, FrameType
<1>2. GoodEnd(P) /\ Rest(S, P) /\ P.out = Append(S.out, f) /\ IsEnd(P)
  BY <1>1, PutGood, PutRest DEF GoodEnd
<1> HIDE DEF P, f
<1>3. Rest(P, R) /\ R.out = P.out /\ R.closed /\ R.goawaySent
  <2> HIDE DEF FrameType, StreamType
  <2> QED
    BY <1>2, ZenonT(60) DEF IsEnd, EndType, Rest, Same, SameLimit, SameNumbers
<1> HIDE DEF R
<1>4. CASE ~S.closed
  <2>1. Fail(S, code) = R
    BY <1>4 DEF Fail, R, P, f
  <2>2. GoodEnd(R)
    BY <2>1, FailIs
  <2>3. Rest(S, R) /\ R.out = Append(S.out, f)
    BY <1>2, <1>3, RestTrans
  <2>4. Fits(S, R, f)
    BY <1>1, <1>3 DEF Fits
  <2>5. /\ Goes(S, R) /\ SameLimit(S, R) /\ R.rd = S.rd
        /\ Open(R) = Open(S) /\ R.streams = S.streams
        /\ New(S, R) = {Len(S.out) + 1} /\ R.out[Len(S.out) + 1] = f
    BY <1>1, <1>3, <2>2, <2>3, <2>4, RestMore
  <2>6. Parts(S, R, {})
    BY <1>1, <2>5 DEF Parts, Settled, Murmur
  <2> QED
    BY <1>3, <2>1, <2>5, <2>6
<1>5. CASE S.closed
  <2>1. Fail(S, code) = S
    BY <1>5 DEF Fail
  <2> QED
    BY <1>5, <2>1, GoesItself
<1> QED
  BY <1>4, <1>5

LEMMA CtlParts ==
    ASSUME NEW S, GoodEnd(S)
    PROVE  Parts(S, Ctl(S), {}) /\ Ctl(S).streams = S.streams
<1> DEFINE T == [S EXCEPT !.ctlQueued = @ + 1]
<1>1. S.ctlQueued + 1 \in Int
  BY EndFields DEF GoodEnd
<1>2. /\ IsEnd(T) /\ Alike(S, T) /\ T.out = S.out /\ T.closed = S.closed
      /\ T.goawaySent = S.goawaySent
  <2> HIDE DEF FrameType, StreamType
  <2> QED
    BY <1>1, ZenonT(60) DEF GoodEnd, IsEnd, EndType, Open, Alike
<1>3. Rest(S, T)
  <2> HIDE DEF FrameType, StreamType
  <2> QED
    BY ZenonT(60) DEF GoodEnd, IsEnd, EndType, Rest, Same, SameLimit, SameNumbers
<1>4. Ctl(S) = IF T.ctlQueued > CfgOut THEN Fail(T, "calm") ELSE T
  BY DEF Ctl
<1> HIDE DEF T
<1>5. GoodEnd(T)
  BY <1>2, AlikeKeeps DEF Keeps
<1>6. Parts(S, T, {}) /\ T.streams = S.streams
  BY <1>2, <1>3, <1>5, RestParts DEF Rest
<1>7. Parts(T, Fail(T, "calm"), {}) /\ Fail(T, "calm").streams = T.streams
  <2>1. "calm" \in Codes
    BY DEF Codes
  <2> QED
    BY <1>5, <2>1, FailParts
<1>8. Parts(S, Fail(T, "calm"), {})
  <2>1. {} \cup {} = {}
    OBVIOUS
  <2> QED
    BY <1>6, <1>7, <2>1, PartsTrans
<1> QED
  BY <1>4, <1>6, <1>7, <1>8

(* R is S after one frame, and perhaps a goodbye.                          *)
Tells(S, R, f) ==
    /\ Goes(S, R) /\ SameLimit(S, R) /\ R.rd = S.rd /\ R.streams = S.streams
    /\ \A i \in New(S, R) : R.out[i] = f \/ Murmur(R.out[i])
    /\ R.closed \/ \E i \in New(S, R) : R.out[i] = f

LEMMA TellsParts ==
    ASSUME NEW S, GoodEnd(S), NEW R, NEW f, Murmur(f), Tells(S, R, f)
    PROVE  Parts(S, R, {})
<1>1. Open(R) = Open(S)
  BY DEF Tells, Open
<1>2. \A i \in New(S, R) : Murmur(R.out[i])
  BY DEF Tells
<1> QED
  BY <1>1, <1>2 DEF Tells, Parts, Settled, Murmur

LEMMA PutTells ==
    ASSUME NEW S, GoodEnd(S), NEW f, Due(S, f), Fits(S, S, f), f.t # "goaway"
    PROVE  Tells(S, Put(S, f), f)
<1>1. f \in FrameType
  BY DEF Due
<1>2. GoodEnd(Put(S, f)) /\ Rest(S, Put(S, f)) /\ Put(S, f).out = Append(S.out, f)
      /\ Put(S, f).closed = S.closed /\ Put(S, f).goawaySent = S.goawaySent
  BY <1>1, PutGood, PutRest DEF GoodEnd
<1>3. PICK P : P = Put(S, f)
  OBVIOUS
<1>4. Fits(S, P, f)
  BY DEF Fits
<1>5. /\ Goes(S, P) /\ SameLimit(S, P) /\ P.rd = S.rd
      /\ Open(P) = Open(S) /\ P.streams = S.streams
      /\ New(S, P) = {Len(S.out) + 1} /\ P.out[Len(S.out) + 1] = f
  BY <1>1, <1>2, <1>3, <1>4, RestMore
<1> QED
  BY <1>3, <1>5 DEF Tells

(* Parts that keep the streams, after a frame.                             *)
LEMMA TellsOn ==
    ASSUME NEW S, GoodEnd(S), NEW R, NEW f, Tells(S, R, f), NEW T, Parts(R, T, {}),
           T.streams = R.streams
    PROVE  Tells(S, T, f)
<1>1. /\ Goes(S, T) /\ New(S, R) \subseteq New(S, T)
      /\ \A i \in New(S, R) : T.out[i] = R.out[i]
      /\ New(S, T) = New(S, R) \cup New(R, T)
  BY GoesTrans DEF Tells, Parts
<1>2. SameLimit(S, T) /\ T.rd = S.rd /\ T.streams = S.streams
  BY DEF Tells, Parts, Settled, SameLimit, SameNumbers
<1>3. \A i \in New(S, T) : T.out[i] = f \/ Murmur(T.out[i])
  BY <1>1 DEF Tells, Parts
<1>4. T.closed \/ \E i \in New(S, T) : T.out[i] = f
  <2>1. R.closed => T.closed
    BY DEF Parts, Goes
  <2> QED
    BY <1>1, <2>1 DEF Tells
<1> QED
  BY <1>1, <1>2, <1>3, <1>4 DEF Tells

LEMMA ClosedTells ==
    ASSUME NEW S, GoodEnd(S), S.closed, NEW f
    PROVE  Tells(S, S, f)
<1>1. Parts(S, S, {})
  BY GoesItself
<1> QED
  BY <1>1 DEF Parts, Settled, Tells

LEMMA QueueTells ==
    ASSUME NEW S, GoodEnd(S), NEW f, Due(S, f), Fits(S, S, f), f.t # "goaway"
    PROVE  Tells(S, Queue(S, f), f)
<1>1. CASE S.closed
  BY <1>1, ClosedTells DEF Queue
<1>2. CASE ~S.closed
  BY <1>2, PutTells DEF Queue
<1> QED
  BY <1>1, <1>2

LEMMA AnswerTells ==
    ASSUME NEW S, GoodEnd(S), NEW f, Due(S, f), Fits(S, S, f), f.t # "goaway"
    PROVE  Tells(S, Answer(S, f), f)
<1>1. CASE S.closed
  BY <1>1, ClosedTells DEF Answer
<1>2. CASE ~S.closed
  <2>1. PICK P : P = Put(S, f)
    OBVIOUS
  <2>2. Tells(S, P, f)
    BY <2>1, PutTells
  <2>3. Parts(P, Ctl(P), {}) /\ Ctl(P).streams = P.streams
    BY <2>2, CtlParts DEF Tells, Goes
  <2>4. Tells(S, Ctl(P), f)
    BY <2>2, <2>3, TellsOn
  <2> QED
    BY <1>2, <2>1, <2>4 DEF Answer
<1> QED
  BY <1>1, <1>2

LEMMA NoneGone == {} \cup {} = {}
OBVIOUS

LEMMA PartsOn ==
    ASSUME NEW S, GoodEnd(S), NEW R, NEW T, Parts(S, R, {}), Parts(R, T, {})
    PROVE  Parts(S, T, {})
BY PartsTrans, NoneGone

LEMMA ConnMoreParts ==
    ASSUME NEW S, GoodEnd(S), NEW n \in Nat
    PROVE  LET R == Answer([S EXCEPT !.recvWin = @ + n], Window(0, n)) IN
           Parts(S, R, {}) /\ R.streams = S.streams
<1> DEFINE U == [S EXCEPT !.recvWin = @ + n]
           f == Window(0, n)
<1>1. S.recvWin + n \in Int
  BY EndFields DEF GoodEnd
<1>2. /\ IsEnd(U) /\ Rest(S, U) /\ U.out = S.out /\ U.closed = S.closed
      /\ U.goawaySent = S.goawaySent
  <2> HIDE DEF FrameType, StreamType
  <2>1. IsEnd(U)
    BY <1>1, ZenonT(60) DEF GoodEnd, IsEnd, EndType, Open
  <2>2. /\ Rest(S, U) /\ U.out = S.out /\ U.closed = S.closed
        /\ U.goawaySent = S.goawaySent
    BY ZenonT(60) DEF GoodEnd, IsEnd, EndType, Rest, Same, SameLimit, SameNumbers
  <2> QED
    BY <2>1, <2>2
<1> HIDE DEF U
<1>3. Known(U) = Known(S) /\ Open(U) = Open(S)
  BY <1>2, KnownIs DEF Rest, Open
<1>4. GoodEnd(U)
  BY <1>2, <1>3 DEF GoodEnd, OfKnown
<1>5. f \in FrameType /\ f.t = "window" /\ f.id = 0
  BY DEF Window, FrameType
<1>6. Due(U, f) /\ Fits(U, U, f) /\ Murmur(f)
  BY <1>4, <1>5 DEF Due, Fits, Murmur, GoodEnd
<1>7. Parts(S, U, {})
  BY <1>2, <1>4, RestParts
<1> HIDE DEF f
<1>8. Tells(U, Answer(U, f), f)
  BY <1>4, <1>5, <1>6, AnswerTells
<1>9. Parts(U, Answer(U, f), {})
  BY <1>4, <1>6, <1>8, TellsParts
<1>10. Parts(S, Answer(U, f), {}) /\ Answer(U, f).streams = S.streams
  BY <1>2, <1>7, <1>8, <1>9, PartsOn DEF Tells, Rest
<1> QED
  BY <1>10 DEF U, f

LEMMA ConnCreditParts ==
    ASSUME H2Assumption, NEW S, GoodEnd(S), NEW n \in Nat
    PROVE  Parts(S, ConnCredit(S, n), {}) /\ ConnCredit(S, n).streams = S.streams
<1> DEFINE owed == S.unacked + n
           room == S.cap - (S.recvWin + Held(S))
           inc == IF S.cap # 0 THEN Smaller(owed, room) ELSE owed
           A == [S EXCEPT !.unacked = owed]
           T == [S EXCEPT !.unacked = 0]
           R == Answer([T EXCEPT !.recvWin = @ + inc], Window(0, inc))
<1>1. owed \in Nat /\ inc \in Int
  <2>1. S.unacked \in Nat /\ S.cap \in Nat /\ S.recvWin \in Int /\ Held(S) \in Nat
    BY EndFields, HeldType DEF GoodEnd
  <2> QED
    BY <2>1 DEF Smaller
<1>2. \/ ConnCredit(S, n) = S
      \/ ConnCredit(S, n) = A
      \/ inc <= 0 /\ ConnCredit(S, n) = T
      \/ inc > 0 /\ ConnCredit(S, n) = R
  <2> DEFINE due == n # 0 /\ ~S.closed /\ 2 * owed < ConnTarget(S)
             nothing == n = 0 \/ S.closed
  <2>1. ~(nothing /\ due)
    OBVIOUS
  <2>2. ConnCredit(S, n) = CASE nothing -> S
                             [] due -> A
                             [] OTHER -> IF inc <= 0 THEN T ELSE R
    BY DEF ConnCredit
  <2>3. ~(inc <= 0) => inc > 0
    BY <1>1
  <2> HIDE DEF due, nothing, A, T, R, inc
  <2> QED
    BY <2>1, <2>2, <2>3
<1>3. ASSUME NEW u \in Nat
      PROVE  LET U == [S EXCEPT !.unacked = u] IN Parts(S, U, {}) /\ U.streams = S.streams
  <2> DEFINE U == [S EXCEPT !.unacked = u]
  <2>1. IsEnd(U) /\ Alike(S, U) /\ U.out = S.out /\ U.closed = S.closed
    <3> HIDE DEF FrameType, StreamType
    <3> QED
      BY ZenonT(60) DEF GoodEnd, IsEnd, EndType, Open, Alike
  <2>2. Rest(S, U) /\ U.goawaySent = S.goawaySent
    <3> HIDE DEF FrameType, StreamType
    <3> QED
      BY ZenonT(60) DEF GoodEnd, IsEnd, EndType, Rest, Same, SameLimit, SameNumbers
  <2> HIDE DEF U
  <2>3. GoodEnd(U)
    BY <2>1, AlikeKeeps DEF Keeps
  <2>4. Parts(S, U, {}) /\ U.streams = S.streams
    BY <2>1, <2>2, <2>3, RestParts DEF Rest
  <2> QED
    BY <2>4 DEF U
<1>4. Parts(S, A, {}) /\ A.streams = S.streams
  BY <1>1, <1>3
<1>5. Parts(S, T, {}) /\ T.streams = S.streams
  BY <1>3
<1> HIDE DEF A, T, owed, inc
<1>6. CASE inc > 0 /\ ConnCredit(S, n) = R
  <2>1. inc \in Nat
    BY <1>1, <1>6
  <2>2. GoodEnd(T)
    BY <1>5 DEF Parts, Goes
  <2>3. Parts(T, R, {}) /\ R.streams = T.streams
    BY <2>1, <2>2, ConnMoreParts
  <2> QED
    BY <1>5, <1>6, <2>3, PartsOn
<1> QED
  BY <1>2, <1>4, <1>5, <1>6, GoesItself

LEMMA ConnFollowParts ==
    ASSUME H2Assumption, NEW S, GoodEnd(S), NEW window \in Nat
    PROVE  Parts(S, ConnFollow(S, window), {}) /\ ConnFollow(S, window).streams = S.streams
<1> DEFINE cap == IF S.cap # 0 THEN Smaller(S.cap, GrowConn) ELSE GrowConn
           want == Smaller(window + window \div 2, cap)
           add == want - S.target
           T == [S EXCEPT !.target = want]
           R == Answer([S EXCEPT !.target = want, !.recvWin = @ + add], Window(0, add))
<1>1. want \in Nat /\ add \in Int
  <2>1. S.cap \in Nat /\ S.target \in Nat /\ GrowConn \in Nat
    BY EndFields DEF GoodEnd, H2Assumption
  <2>2. window + window \div 2 \in Nat
    OBVIOUS
  <2> QED
    BY <2>1, <2>2 DEF Smaller
<1>2. ConnFollow(S, window) = IF add <= 0 THEN S ELSE R
  BY DEF ConnFollow
<1>3. IsEnd(T) /\ Alike(S, T) /\ T.out = S.out /\ T.closed = S.closed
  <2> HIDE DEF FrameType, StreamType, want
  <2> QED
    BY <1>1, ZenonT(60) DEF GoodEnd, IsEnd, EndType, Open, Alike
<1>4. Rest(S, T) /\ T.goawaySent = S.goawaySent
  <2> HIDE DEF FrameType, StreamType, want
  <2> QED
    BY ZenonT(60) DEF GoodEnd, IsEnd, EndType, Rest, Same, SameLimit, SameNumbers
<1>5. R = Answer([T EXCEPT !.recvWin = @ + add], Window(0, add))
  <2> HIDE DEF want, add
  <2>1. [S EXCEPT !.target = want, !.recvWin = @ + add] = [T EXCEPT !.recvWin = @ + add]
    OBVIOUS
  <2> QED
    BY <2>1
<1> HIDE DEF T, R, add, want
<1>6. GoodEnd(T)
  BY <1>3, AlikeKeeps DEF Keeps
<1>7. Parts(S, T, {}) /\ T.streams = S.streams
  BY <1>3, <1>4, <1>6, RestParts DEF Rest
<1>8. CASE add > 0
  <2>1. add \in Nat /\ ~(add <= 0)
    BY <1>1, <1>8
  <2>2. Parts(T, R, {}) /\ R.streams = T.streams
    BY <1>5, <1>6, <2>1, ConnMoreParts
  <2> QED
    BY <1>2, <1>7, <2>1, <2>2, PartsOn
<1>9. CASE add <= 0
  BY <1>2, <1>9, GoesItself
<1> QED
  BY <1>1, <1>8, <1>9

(* Other streams, or other values of them, and the rest as it was.         *)
LEMMA StreamsRest ==
    ASSUME NEW S, IsEnd(S), NEW ss, NEW R, R = [S EXCEPT !.streams = ss]
    PROVE  /\ Same(S, R) /\ SameLimit(S, R) /\ R.rd = S.rd /\ R.sweepGoaway = S.sweepGoaway
           /\ R.streams = ss /\ R.out = S.out /\ R.closed = S.closed
           /\ R.goawaySent = S.goawaySent
<1> HIDE DEF FrameType, StreamType
<1> QED
  BY ZenonT(60) DEF IsEnd, EndType, Same, SameLimit, SameNumbers

LEMMA StreamsParts ==
    ASSUME NEW S, GoodEnd(S), NEW ss, NEW R, R = [S EXCEPT !.streams = ss], GoodEnd(R),
           NEW gone, DOMAIN ss = Open(S) \ gone,
           \A j \in DOMAIN ss : ss[j].flags = S.streams[j].flags
    PROVE  Parts(S, R, gone) /\ R.streams = ss
<1>1. /\ Same(S, R) /\ SameLimit(S, R) /\ R.rd = S.rd /\ R.sweepGoaway = S.sweepGoaway
      /\ R.streams = ss /\ R.out = S.out /\ R.closed = S.closed
      /\ R.goawaySent = S.goawaySent
  <2>1. IsEnd(S)
    BY DEF GoodEnd
  <2> QED
    BY <2>1, StreamsRest
<1>2. Open(R) = Open(S) \ gone
  BY <1>1 DEF Open
<1>3. New(S, R) = {} /\ Len(S.out) \in Nat
  BY <1>1, OutIs DEF New
<1> QED
  BY <1>1, <1>2, <1>3 DEF Parts, Goes, Settled, Open

(* One stream that differs in anything but its flags.                      *)
LEMMA StreamParts ==
    ASSUME NEW S, GoodEnd(S), NEW id \in Open(S), NEW s \in StreamType,
           s.flags = S.streams[id].flags, NEW R, R = [S EXCEPT !.streams[id] = s]
    PROVE  Parts(S, R, {}) /\ R.streams = [S.streams EXCEPT ![id] = s]
<1> DEFINE ss == [S.streams EXCEPT ![id] = s]
<1>0. IsEnd(S)
  BY DEF GoodEnd
<1>1. S.streams \in [Open(S) -> StreamType] /\ Open(S) \in SUBSET Ids
  BY <1>0, EndFields
<1> HIDE DEF StreamType
<1>2. ss \in [Open(S) -> StreamType]
  BY <1>1
<1>3. DOMAIN ss = Open(S) \ {} /\ \A j \in DOMAIN ss : ss[j].flags = S.streams[j].flags
  BY <1>1
<1>4. R = [S EXCEPT !.streams = ss]
  OBVIOUS
<1> HIDE DEF ss
<1>5. /\ IsEnd(R) /\ Open(R) = Open(S) /\ R.out = S.out
      /\ R.server = S.server /\ R.nextId = S.nextId /\ R.lastPeerId = S.lastPeerId
  BY <1>0, <1>1, <1>2, <1>4, OtherStreams
<1>6. Known(R) = Known(S)
  BY <1>5 DEF Known
<1>7. GoodEnd(R)
  BY <1>5, <1>6 DEF GoodEnd, OfKnown
<1>8. Parts(S, R, {}) /\ R.streams = ss
  <2>1. PICK gone : gone = {}
    OBVIOUS
  <2>2. DOMAIN ss = Open(S) \ gone
    BY <1>3, <2>1
  <2>3. \A j \in DOMAIN ss : ss[j].flags = S.streams[j].flags
    BY <1>3
  <2>4. Parts(S, R, gone) /\ R.streams = ss
    BY ONLY GoodEnd(S), <1>4, <1>7, <2>2, <2>3, StreamsParts
  <2> QED
    BY <2>1, <2>4
<1> QED
  BY <1>8 DEF ss

LEMMA StreamMoreParts ==
    ASSUME NEW S, GoodEnd(S), NEW id \in Open(S), NEW n \in Nat
    PROVE  Parts(S, Answer([S EXCEPT !.streams[id].recv = @ + n], Window(id, n)), {})
<1> DEFINE s == [S.streams[id] EXCEPT !.recv = @ + n]
           U == [S EXCEPT !.streams[id] = s]
           f == Window(id, n)
<1>1. S.streams[id] \in StreamType /\ S.streams[id].recv \in Int /\ id \in Ids
  BY EndFields DEF GoodEnd
<1>2. s \in StreamType /\ s.flags = S.streams[id].flags
  BY <1>1 DEF StreamType
<1>3. [S EXCEPT !.streams[id].recv = @ + n] = U
  OBVIOUS
<1> HIDE DEF s
<1>4. Parts(S, U, {})
  BY <1>2, StreamParts
<1> HIDE DEF U
<1>5. f \in FrameType /\ f.t = "window" /\ f.id = id
  BY <1>1 DEF Window, FrameType
<1> HIDE DEF f
<1>6. GoodEnd(U) /\ id \in Open(U)
  BY <1>4 DEF Parts, Goes
<1>7. Due(U, f) /\ Fits(U, U, f) /\ Murmur(f) /\ f.t # "goaway"
  BY <1>5, <1>6 DEF Due, Fits, Murmur, GoodEnd, OfKnown
<1>8. Parts(U, Answer(U, f), {})
  BY <1>6, <1>7, AnswerTells, TellsParts
<1>9. Parts(S, Answer(U, f), {})
  BY <1>4, <1>8, PartsOn
<1> QED
  BY <1>3, <1>9 DEF f

LEMMA StreamCreditParts ==
    ASSUME H2Assumption, NEW S, GoodEnd(S), NEW id \in Open(S), NEW n \in Nat, NEW fast \in BOOLEAN
    PROVE  Parts(S, StreamCredit(S, id, n, fast), {})
<1> DEFINE owed == S.streams[id].unacked + n
           window == CreditWindow(S, id)
           growCap == IF S.cap # 0 THEN Smaller(S.cap, GrowStream) ELSE GrowStream
           grows == fast /\ S.server /\ GrowStream # 0 /\ S.settingsAcked /\ window < growCap
           next == Smaller(2 * window, growCap)
           win == IF S.cap # 0 THEN Smaller(S.streams[id].win, S.cap) ELSE S.streams[id].win
           w == IF grows THEN next ELSE win
           A == [S EXCEPT !.streams[id].unacked = owed]
           T == [S EXCEPT !.streams[id].unacked = 0, !.streams[id].win = w]
           F == IF grows THEN ConnFollow(T, next) ELSE T
           asked == IF grows THEN owed + (next - window) ELSE owed
           lowering == Larger(S.localWindow - S.advWindow, 0)
           room == S.cap - (S.streams[id].recv - lowering + S.streams[id].held)
           inc == IF S.cap # 0 THEN Smaller(asked, room) ELSE asked
           R == Answer([F EXCEPT !.streams[id].recv = @ + inc], Window(id, inc))
<1>0. IsEnd(S)
  BY DEF GoodEnd
<1>1. /\ S.cap \in Nat /\ S.localWindow \in Int /\ S.advWindow \in Int
      /\ S.streams[id].win \in Nat /\ S.streams[id].recv \in Int /\ S.streams[id].held \in Nat
      /\ S.streams[id].unacked \in Nat /\ S.streams[id] \in StreamType
      /\ GrowStream \in Nat
  BY <1>0, EndFields DEF H2Assumption
<1>2. window \in Nat
  BY <1>1 DEF CreditWindow, Larger, Smaller
<1>3. owed \in Nat
  BY <1>1
<1>4. growCap \in Nat
  BY <1>1 DEF Smaller
<1> HIDE DEF window, owed, growCap, grows
<1>5. next \in Nat
  BY <1>2, <1>4 DEF Smaller
<1>6. win \in Nat
  BY <1>1 DEF Smaller
<1> HIDE DEF next, win
<1>7. w \in Nat
  BY <1>5, <1>6
<1>8. asked \in Int
  BY <1>2, <1>3, <1>5
<1>9. room \in Int
  BY <1>1 DEF Larger
<1> HIDE DEF asked, lowering, room
<1>10. inc \in Int
  BY <1>8, <1>9 DEF Smaller
<1>11. \/ StreamCredit(S, id, n, fast) = S
       \/ StreamCredit(S, id, n, fast) = A
       \/ inc <= 0 /\ StreamCredit(S, id, n, fast) = F
       \/ inc > 0 /\ StreamCredit(S, id, n, fast) = R
  <2> DEFINE nothing == n = 0 \/ S.closed
             later == n # 0 /\ ~S.closed /\ (Has(S, id, "REMOTE_END") \/ 2 * owed < window)
  <2>1. ~(nothing /\ later)
    OBVIOUS
  <2>2. StreamCredit(S, id, n, fast) = CASE nothing -> S
                                         [] later -> A
                                         [] OTHER -> IF inc <= 0 THEN F ELSE R
    BY DEF StreamCredit, owed, window, growCap, grows, next, win, asked, lowering, room
  <2>3. ~(inc <= 0) => inc > 0
    BY <1>10
  <2> HIDE DEF nothing, later, A, T, F, R, inc
  <2> QED
    BY <2>1, <2>2, <2>3
<1>12. Parts(S, A, {})
  <2> DEFINE s == [S.streams[id] EXCEPT !.unacked = owed]
  <2>1. A = [S EXCEPT !.streams[id] = s]
    OBVIOUS
  <2>2. s \in StreamType /\ s.flags = S.streams[id].flags
    BY <1>1, <1>3 DEF StreamType
  <2> HIDE DEF s, A
  <2> QED
    BY <2>1, <2>2, StreamParts
<1>13. Parts(S, T, {})
  <2> HIDE DEF w
  <2> DEFINE s == [S.streams[id] EXCEPT !.unacked = 0, !.win = w]
  <2>1. T = [S EXCEPT !.streams[id] = s]
    <3>1. S \in EndType(Open(S)) /\ S.streams \in [Open(S) -> StreamType]
      BY <1>0, EndFields DEF IsEnd
    <3> HIDE DEF StreamType, FrameType
    <3>2. [S.streams EXCEPT ![id] = s]
            = [[S.streams EXCEPT ![id].unacked = 0] EXCEPT ![id].win = w]
      BY <3>1
    <3>3. [S EXCEPT !.streams[id] = s] = [S EXCEPT !.streams = [S.streams EXCEPT ![id] = s]]
      OBVIOUS
    <3> QED
      BY <3>1, <3>2, <3>3 DEF EndType
  <2>2. s \in StreamType /\ s.flags = S.streams[id].flags
    BY <1>1, <1>7 DEF StreamType
  <2> HIDE DEF s, T
  <2> QED
    BY <2>1, <2>2, StreamParts
<1> HIDE DEF A, T, w
<1>14. GoodEnd(T)
  BY <1>13 DEF Parts, Goes
<1>15. Parts(S, F, {})
  <2>1. CASE grows
    BY <1>5, <1>13, <1>14, <2>1, ConnFollowParts, PartsOn
  <2>2. CASE ~grows
    BY <1>13, <2>2
  <2> QED
    BY <2>1, <2>2
<1> HIDE DEF F, inc
<1>16. CASE inc > 0 /\ StreamCredit(S, id, n, fast) = R
  <2>1. inc \in Nat /\ GoodEnd(F) /\ id \in Open(F)
    BY <1>10, <1>15, <1>16 DEF Parts, Goes
  <2>2. Parts(F, R, {})
    BY <2>1, StreamMoreParts
  <2> QED
    BY <1>15, <1>16, <2>2, PartsOn
<1> QED
  BY <1>11, <1>12, <1>15, <1>16, GoesItself

---------------------------------------------------------------------------
(* The life of streams.                                                    *)

LEMMA RingAddParts ==
    ASSUME H2Assumption, NEW S, GoodEnd(S), NEW id \in Ids, NEW how \in Endings
    PROVE  Parts(S, RingAdd(S, id, how), {}) /\ RingAdd(S, id, how).streams = S.streams
<1> DEFINE entry == [id |-> id, how |-> how]
           ring == IF Len(S.ring) = CfgStreams(S) THEN Append(Tail(S.ring), entry)
                                                 ELSE Append(S.ring, entry)
           R == [S EXCEPT !.ring = ring]
<1>1. RingAdd(S, id, how) = R
  BY DEF RingAdd
<1> HIDE DEF ring
<1>2. Rest(S, R) /\ R.out = S.out /\ R.closed = S.closed /\ R.goawaySent = S.goawaySent
  <2> HIDE DEF FrameType, StreamType
  <2> QED
    BY ZenonT(60) DEF GoodEnd, IsEnd, EndType, Rest, Same, SameLimit, SameNumbers
<1> HIDE DEF R
<1>3. GoodEnd(R)
  BY <1>1, RingAddKeeps DEF Keeps
<1> QED
  BY <1>1, <1>2, <1>3, RestParts DEF Rest

LEMMA RemoveStreamParts ==
    ASSUME H2Assumption, NEW S, GoodEnd(S), NEW id \in Open(S), NEW properly \in BOOLEAN,
           NEW how \in Endings
    PROVE  Parts(S, RemoveStream(S, id, properly, how), {id})
<1> DEFINE D == Open(S) \ {id}
           ss == Restrict(S.streams, DOMAIN S.streams \ {id})
           debt == IF properly /\ S.debt > 0 THEN S.debt - 1 ELSE S.debt
           T0 == [S EXCEPT !.streams = ss]
           T == [S EXCEPT !.streams = ss, !.debt = debt]
           Q == RingAdd(T, id, how)
           R == ConnCredit(Q, S.streams[id].held)
<1>0. IsEnd(S)
  BY DEF GoodEnd
<1>1. /\ Open(S) \in SUBSET Ids /\ S.streams \in [Open(S) -> StreamType] /\ S.debt \in Int
      /\ S.streams[id].held \in Nat /\ id \in Ids
  BY <1>0, EndFields
<1>2. D \in SUBSET Ids /\ ss \in [D -> StreamType] /\ \A i \in D : ss[i] = S.streams[i]
  <2> HIDE DEF StreamType
  <2> QED
    BY <1>1 DEF Restrict, Open
<1>3. debt \in Int
  BY <1>1
<1>4. RemoveStream(S, id, properly, how) = R
  BY DEF RemoveStream
<1>5. DOMAIN ss = Open(S) \ {id} /\ \A j \in DOMAIN ss : ss[j].flags = S.streams[j].flags
  BY <1>2
<1> HIDE DEF D, ss, debt
<1>6. /\ IsEnd(T0) /\ Open(T0) = D /\ T0.streams = ss
      /\ T0.server = S.server /\ T0.nextId = S.nextId /\ T0.lastPeerId = S.lastPeerId
      /\ T0.out = S.out
  BY <1>0, <1>2, OtherStreams
<1>7. GoodEnd(T0)
  <2>1. Known(T0) = Known(S)
    BY <1>6 DEF Known
  <2> QED
    BY <1>6, <2>1 DEF GoodEnd, OfKnown, D
<1>8. Parts(S, T0, {id})
  BY <1>5, <1>7, StreamsParts
<1>9. T = [T0 EXCEPT !.debt = debt]
  OBVIOUS
<1> HIDE DEF T0, T
<1>10. IsEnd(T) /\ Alike(T0, T) /\ T.out = T0.out /\ T.closed = T0.closed
  <2> HIDE DEF FrameType, StreamType
  <2> QED
    BY <1>3, <1>6, <1>9, ZenonT(60) DEF IsEnd, EndType, Open, Alike
<1>11. Rest(T0, T) /\ T.goawaySent = T0.goawaySent
  <2> HIDE DEF FrameType, StreamType
  <2> QED
    BY <1>6, <1>9, ZenonT(60) DEF IsEnd, EndType, Rest, Same, SameLimit, SameNumbers
<1>12. Parts(T0, T, {}) /\ GoodEnd(T)
  BY <1>7, <1>10, <1>11, AlikeKeeps, RestParts DEF Keeps
<1>13. Parts(T, Q, {})
  BY <1>1, <1>12, RingAddParts
<1>14. Parts(Q, R, {})
  <2> HIDE DEF Q
  <2>1. GoodEnd(Q)
    BY <1>13 DEF Parts, Goes
  <2> QED
    BY <1>1, <2>1, ConnCreditParts
<1> HIDE DEF Q, R
<1>15. Parts(S, R, {id})
  <2>1. Parts(T0, R, {})
    BY <1>7, <1>12, <1>13, <1>14, PartsOn
  <2>2. {id} \cup {} = {id}
    OBVIOUS
  <2> QED
    BY <1>8, <2>1, <2>2, PartsTrans
<1> QED
  BY <1>4, <1>15

LEMMA DebtParts ==
    ASSUME NEW S, GoodEnd(S)
    PROVE  Parts(S, Debt(S), {})
<1> DEFINE T == [S EXCEPT !.debt = @ + 1]
<1>1. S.debt + 1 \in Int
  BY EndFields DEF GoodEnd
<1>2. IsEnd(T) /\ Alike(S, T) /\ T.out = S.out /\ T.closed = S.closed
  <2> HIDE DEF FrameType, StreamType
  <2> QED
    BY <1>1, ZenonT(60) DEF GoodEnd, IsEnd, EndType, Open, Alike
<1>3. Rest(S, T) /\ T.goawaySent = S.goawaySent
  <2> HIDE DEF FrameType, StreamType
  <2> QED
    BY ZenonT(60) DEF GoodEnd, IsEnd, EndType, Rest, Same, SameLimit, SameNumbers
<1>4. Debt(S) = IF T.debt > CfgDebt THEN Fail(T, "calm") ELSE T
  BY DEF Debt
<1> HIDE DEF T
<1>5. Parts(S, T, {}) /\ GoodEnd(T)
  BY <1>2, <1>3, AlikeKeeps, RestParts DEF Keeps
<1>6. Parts(T, Fail(T, "calm"), {})
  <2>1. "calm" \in Codes
    BY DEF Codes
  <2> QED
    BY <1>5, <2>1, FailParts
<1> QED
  BY <1>4, <1>5, <1>6, PartsOn

(* What a frame says of stream j: that it is reset, that its sender has    *)
(* sent all.                                                               *)
IsRst(f, j) == f.t = "rst" /\ f.id = j
Ended(f, j) == f.t \in {"headers", "data"} /\ f.id = j /\ f.fin

(* What became of stream j at an end.  While it is open, what it has heard *)
(* is told apart, and its own end is in the frame that said so; it is over *)
(* when it was lost, when it was reset, and when both sides had ended.     *)
Fares(S, R, j, heard, lost) ==
    /\ \A i \in New(S, R) : IsRst(R.out[i], j) => j \notin Open(R)
    /\ \A i \in New(S, R) : Ended(R.out[i], j) => j \notin Open(R) \/ Has(R, j, "LOCAL_END")
    /\ j \in Open(R) =>
         /\ Has(R, j, "REMOTE_END") <=> Has(S, j, "REMOTE_END") \/ heard
         /\ Has(S, j, "LOCAL_END") => Has(R, j, "LOCAL_END")
         /\ Has(R, j, "LOCAL_END") =>
              Has(S, j, "LOCAL_END") \/ \E i \in New(S, R) : Ended(R.out[i], j)
         /\ Has(R, j, "LOCAL_END") /\ Has(R, j, "REMOTE_END") =>
              Has(S, j, "LOCAL_END") /\ Has(S, j, "REMOTE_END")
    /\ j \in Open(S) \ Open(R) =>
         \/ lost
         \/ \E i \in New(S, R) : IsRst(R.out[i], j)
         \/ /\ Has(S, j, "REMOTE_END") \/ heard
            /\ Has(S, j, "LOCAL_END") \/ \E i \in New(S, R) : Ended(R.out[i], j)

(* Refusing a request is told by a code of its own.                        *)
Polite(S, R) == \A i \in New(S, R) : R.out[i].t = "rst" => R.out[i].code # "refused"

(* An end after a step of its own, but for one stream.                     *)
Lives(S, R, but) ==
    /\ Goes(S, R) /\ Polite(S, R)
    /\ R.closed \/ \A j \in Ids \ but : Fares(S, R, j, FALSE, FALSE)

LEMMA FaresTrans ==
    ASSUME NEW S, GoodEnd(S), NEW R, NEW T, Goes(S, R), Goes(R, T), NEW j,
           NEW h1 \in BOOLEAN, NEW l1 \in BOOLEAN, NEW h2 \in BOOLEAN, NEW l2 \in BOOLEAN,
           Fares(S, R, j, h1, l1), Fares(R, T, j, h2, l2)
    PROVE  Fares(S, T, j, h1 \/ h2, l1 \/ l2)
<1>1. /\ New(S, R) \subseteq New(S, T) /\ New(R, T) \subseteq New(S, T)
      /\ \A i \in New(S, R) : T.out[i] = R.out[i]
      /\ New(S, T) = New(S, R) \cup New(R, T)
  BY GoesTrans
<1>2. Open(T) \subseteq Open(R) /\ Open(R) \subseteq Open(S)
  BY DEF Goes
<1>3. \A i \in New(S, R) : /\ IsRst(R.out[i], j) <=> IsRst(T.out[i], j)
                           /\ Ended(R.out[i], j) <=> Ended(T.out[i], j)
  BY <1>1
<1>4. ASSUME NEW i \in New(S, T), IsRst(T.out[i], j) PROVE j \notin Open(T)
  <2>1. CASE i \in New(S, R)
    BY <1>2, <1>3, <1>4, <2>1 DEF Fares
  <2>2. CASE i \in New(R, T)
    BY <1>4, <2>2 DEF Fares
  <2> QED
    BY <1>1, <2>1, <2>2
<1>5. ASSUME NEW i \in New(S, T), Ended(T.out[i], j), j \in Open(T) PROVE Has(T, j, "LOCAL_END")
  <2>1. CASE i \in New(S, R)
    <3>1. Ended(R.out[i], j) /\ j \in Open(R)
      BY <1>2, <1>3, <1>5, <2>1
    <3>2. Has(R, j, "LOCAL_END")
      BY <2>1, <3>1 DEF Fares
    <3> QED
      BY <1>5, <3>1, <3>2 DEF Fares
  <2>2. CASE i \in New(R, T)
    BY <1>5, <2>2 DEF Fares
  <2> QED
    BY <1>1, <1>5, <2>1, <2>2
<1>6. /\ (\E i \in New(S, R) : Ended(R.out[i], j)) => \E i \in New(S, T) : Ended(T.out[i], j)
      /\ (\E i \in New(R, T) : Ended(T.out[i], j)) => \E i \in New(S, T) : Ended(T.out[i], j)
      /\ (\E i \in New(S, R) : IsRst(R.out[i], j)) => \E i \in New(S, T) : IsRst(T.out[i], j)
      /\ (\E i \in New(R, T) : IsRst(T.out[i], j)) => \E i \in New(S, T) : IsRst(T.out[i], j)
  BY <1>1, <1>3
<1> DEFINE e1 == \E i \in New(S, R) : Ended(R.out[i], j)
           e2 == \E i \in New(R, T) : Ended(T.out[i], j)
           e == \E i \in New(S, T) : Ended(T.out[i], j)
           r1 == \E i \in New(S, R) : IsRst(R.out[i], j)
           r2 == \E i \in New(R, T) : IsRst(T.out[i], j)
           r == \E i \in New(S, T) : IsRst(T.out[i], j)
<1>7. (e1 => e) /\ (e2 => e) /\ (r1 => r) /\ (r2 => r)
  BY <1>6
<1>8. j \in Open(R) =>
         /\ Has(R, j, "REMOTE_END") <=> Has(S, j, "REMOTE_END") \/ h1
         /\ Has(S, j, "LOCAL_END") => Has(R, j, "LOCAL_END")
         /\ Has(R, j, "LOCAL_END") => Has(S, j, "LOCAL_END") \/ e1
         /\ Has(R, j, "LOCAL_END") /\ Has(R, j, "REMOTE_END") =>
              Has(S, j, "LOCAL_END") /\ Has(S, j, "REMOTE_END")
  BY DEF Fares
<1>9. j \in Open(T) =>
         /\ Has(T, j, "REMOTE_END") <=> Has(R, j, "REMOTE_END") \/ h2
         /\ Has(R, j, "LOCAL_END") => Has(T, j, "LOCAL_END")
         /\ Has(T, j, "LOCAL_END") => Has(R, j, "LOCAL_END") \/ e2
         /\ Has(T, j, "LOCAL_END") /\ Has(T, j, "REMOTE_END") =>
              Has(R, j, "LOCAL_END") /\ Has(R, j, "REMOTE_END")
  BY DEF Fares
<1>10. j \in Open(S) \ Open(R) =>
         l1 \/ r1 \/ ((Has(S, j, "REMOTE_END") \/ h1) /\ (Has(S, j, "LOCAL_END") \/ e1))
  BY DEF Fares
<1>11. j \in Open(R) \ Open(T) =>
         l2 \/ r2 \/ ((Has(R, j, "REMOTE_END") \/ h2) /\ (Has(R, j, "LOCAL_END") \/ e2))
  BY DEF Fares
<1> HIDE DEF e1, e2, e, r1, r2, r, Has
<1>12. j \in Open(T) =>
         /\ Has(T, j, "REMOTE_END") <=> Has(S, j, "REMOTE_END") \/ (h1 \/ h2)
         /\ Has(S, j, "LOCAL_END") => Has(T, j, "LOCAL_END")
         /\ Has(T, j, "LOCAL_END") => Has(S, j, "LOCAL_END") \/ e
         /\ Has(T, j, "LOCAL_END") /\ Has(T, j, "REMOTE_END") =>
              Has(S, j, "LOCAL_END") /\ Has(S, j, "REMOTE_END")
  BY <1>2, <1>7, <1>8, <1>9
<1>13. j \in Open(S) \ Open(T) =>
         (l1 \/ l2) \/ r
           \/ ((Has(S, j, "REMOTE_END") \/ (h1 \/ h2)) /\ (Has(S, j, "LOCAL_END") \/ e))
  BY <1>2, <1>7, <1>8, <1>10, <1>11
<1> QED
  BY <1>4, <1>5, <1>12, <1>13 DEF Fares, e, r

LEMMA PoliteTrans ==
    ASSUME NEW S, GoodEnd(S), NEW R, NEW T, Goes(S, R), Goes(R, T), Polite(S, R), Polite(R, T)
    PROVE  Polite(S, T)
<1>1. /\ \A i \in New(S, R) : T.out[i] = R.out[i]
      /\ New(S, T) = New(S, R) \cup New(R, T)
  BY GoesTrans
<1>2. ASSUME NEW i \in New(S, T) PROVE T.out[i].t = "rst" => T.out[i].code # "refused"
  <2>1. CASE i \in New(S, R)
    BY <1>1, <2>1 DEF Polite
  <2>2. CASE i \in New(R, T)
    BY <2>2 DEF Polite
  <2> QED
    BY <1>1, <2>1, <2>2
<1> QED
  BY <1>2 DEF Polite

LEMMA PartsFares ==
    ASSUME NEW S, NEW R, NEW gone, Parts(S, R, gone)
    PROVE  /\ Polite(S, R)
           /\ \A j : \A i \in New(S, R) : ~IsRst(R.out[i], j) /\ ~Ended(R.out[i], j)
           /\ \A j \in Ids \ gone : Fares(S, R, j, FALSE, FALSE)
           /\ Lives(S, R, gone)
<1>1. \A j : \A i \in New(S, R) : ~IsRst(R.out[i], j) /\ ~Ended(R.out[i], j)
  BY DEF Parts, Murmur, IsRst, Ended
<1>2. Polite(S, R)
  BY DEF Parts, Murmur, Polite
<1>3. ASSUME NEW j \in Ids, j \notin gone PROVE Fares(S, R, j, FALSE, FALSE)
  <2>1. j \in Open(R) => R.streams[j].flags = S.streams[j].flags
    BY DEF Parts
  <2>2. j \notin Open(S) \ Open(R)
    BY <1>3 DEF Parts
  <2> QED
    BY <1>1, <2>1, <2>2 DEF Fares, Has
<1> QED
  BY <1>1, <1>2, <1>3 DEF Lives, Parts

LEMMA LivesTrans ==
    ASSUME NEW S, GoodEnd(S), NEW R, NEW T, NEW but, Lives(S, R, but), Lives(R, T, but)
    PROVE  Lives(S, T, but)
<1>1. /\ Goes(S, T)
      /\ \A i \in New(S, R) : T.out[i] = R.out[i]
      /\ New(S, T) = New(S, R) \cup New(R, T)
  BY GoesTrans DEF Lives
<1>2. Polite(S, T)
  BY <1>1 DEF Lives, Polite
<1>3. ASSUME ~T.closed, NEW j \in Ids \ but PROVE Fares(S, T, j, FALSE, FALSE)
  <2>1. ~R.closed
    BY <1>3 DEF Lives, Goes
  <2>2. Fares(S, R, j, FALSE, FALSE) /\ Fares(R, T, j, FALSE, FALSE)
    BY <1>3, <2>1 DEF Lives
  <2>3. PICK n \in BOOLEAN : n = FALSE
    OBVIOUS
  <2>4. Fares(S, T, j, n \/ n, n \/ n)
    BY <2>2, <2>3, FaresTrans DEF Lives
  <2>5. (n \/ n) = FALSE
    BY <2>3
  <2> QED
    BY <2>4, <2>5
<1> QED
  BY <1>1, <1>2, <1>3 DEF Lives

(* A stream that is over fared as it may when there is a reason.           *)
LEMMA OverFares ==
    ASSUME NEW S, NEW R, NEW j, j \notin Open(R), NEW heard \in BOOLEAN, NEW lost \in BOOLEAN,
           j \in Open(S) =>
             \/ lost
             \/ \E i \in New(S, R) : IsRst(R.out[i], j)
             \/ /\ Has(S, j, "REMOTE_END") \/ heard
                /\ Has(S, j, "LOCAL_END") \/ \E i \in New(S, R) : Ended(R.out[i], j)
    PROVE  Fares(S, R, j, heard, lost)
BY DEF Fares

LEMMA TellsFares ==
    ASSUME NEW S, NEW R, NEW f, Tells(S, R, f), NEW j, ~IsRst(f, j), ~Ended(f, j)
    PROVE  Fares(S, R, j, FALSE, FALSE)
<1>1. \A i \in New(S, R) : ~IsRst(R.out[i], j) /\ ~Ended(R.out[i], j)
  BY DEF Tells, Murmur, IsRst, Ended
<1>2. Open(R) = Open(S) /\ (j \in Open(R) => R.streams[j].flags = S.streams[j].flags)
  BY DEF Tells, Open
<1> QED
  BY <1>1, <1>2 DEF Fares, Has

(* A fault: the stream is reset, and over.                                 *)
LEMMA StreamFaultFares ==
    ASSUME H2Assumption, NEW S, GoodEnd(S), NEW id \in Ids, id <= Known(S), NEW code \in Codes,
           NEW forgive \in BOOLEAN
    PROVE  LET R == StreamFault(S, id, code, forgive) IN
           /\ Goes(S, R) /\ Settled(S, R) /\ Open(R) = Open(S) \ {id}
           /\ \A j \in Open(R) : R.streams[j].flags = S.streams[j].flags
           /\ \A i \in New(S, R) : Murmur(R.out[i]) \/ R.out[i] = Rst(id, code)
           /\ R.closed \/ \E i \in New(S, R) : R.out[i] = Rst(id, code)
<1> DEFINE f == Rst(id, code)
           P == Answer(S, f)
           Q == [P EXCEPT !.blamed = @ \cup {code}]
           V == IF id \in Open(Q) THEN RemoveStream(Q, id, FALSE, IF forgive THEN "ours" ELSE "done")
                ELSE IF forgive THEN RingAdd(Q, id, "ours") ELSE Q
           R == Debt(V)
<1>1. Due(S, f) /\ Fits(S, S, f) /\ f.t = "rst"
  BY DEF Due, Fits, Rst, FrameType
<1>2. Tells(S, P, f)
  BY <1>1, AnswerTells
<1>3. StreamFault(S, id, code, forgive) = R
  BY DEF StreamFault
<1>4. f = Rst(id, code)
  OBVIOUS
<1> HIDE DEF P, f
<1>5. GoodEnd(P) /\ IsEnd(P) /\ P.blamed \cup {code} \subseteq Codes
  BY <1>2, EndFields DEF Tells, Goes, GoodEnd
<1>6. IsEnd(Q) /\ Alike(P, Q) /\ Q.out = P.out /\ Q.closed = P.closed
  <2> HIDE DEF FrameType, StreamType, Codes
  <2> QED
    BY <1>5, ZenonT(60) DEF IsEnd, EndType, Open, Alike
<1>7. Rest(P, Q) /\ Q.goawaySent = P.goawaySent
  <2> HIDE DEF FrameType, StreamType, Codes
  <2> QED
    BY <1>5, ZenonT(60) DEF IsEnd, EndType, Rest, Same, SameLimit, SameNumbers
<1> HIDE DEF Q
<1>8. Parts(P, Q, {}) /\ GoodEnd(Q) /\ Open(Q) = Open(S)
  BY <1>2, <1>5, <1>6, <1>7, AlikeKeeps, RestParts DEF Keeps, Rest, Tells, Open
<1>9. Parts(Q, V, {id})
  <2>1. CASE id \in Open(Q)
    <3>1. PICK how \in Endings : how = IF forgive THEN "ours" ELSE "done"
      BY DEF Endings
    <3>2. Parts(Q, RemoveStream(Q, id, FALSE, how), {id})
      BY <1>8, <2>1, RemoveStreamParts
    <3> QED
      BY <2>1, <3>1, <3>2
  <2>2. ASSUME id \notin Open(Q), NEW W, Parts(Q, W, {}) PROVE Parts(Q, W, {id})
    BY <2>2 DEF Parts
  <2>3. CASE id \notin Open(Q) /\ forgive
    <3>1. "ours" \in Endings
      BY DEF Endings
    <3>2. Parts(Q, RingAdd(Q, id, "ours"), {})
      BY <1>8, <3>1, RingAddParts
    <3> QED
      BY <2>2, <2>3, <3>2
  <2>4. CASE id \notin Open(Q) /\ ~forgive
    BY <1>8, <2>2, <2>4, GoesItself
  <2> QED
    BY <2>1, <2>3, <2>4
<1> HIDE DEF V
<1>10. Parts(V, R, {})
  BY <1>9, DebtParts DEF Parts, Goes
<1> HIDE DEF R
<1>11. Parts(P, R, {id})
  <2>1. Parts(Q, R, {id})
    <3>1. {id} \cup {} = {id}
      OBVIOUS
    <3> QED
      BY <1>8, <1>9, <1>10, <3>1, PartsTrans
  <2>2. {} \cup {id} = {id}
    OBVIOUS
  <2> QED
    BY <1>5, <1>8, <2>1, <2>2, PartsTrans
<1>12. /\ Goes(S, R)
       /\ \A i \in New(S, P) : R.out[i] = P.out[i]
       /\ New(S, R) = New(S, P) \cup New(P, R)
  BY <1>2, <1>11, GoesTrans DEF Tells, Parts
<1>13. Settled(S, R)
  <2>1. \A i \in New(S, P) : P.out[i].t \notin {"settings", "ack"}
    BY <1>1, <1>2 DEF Tells, Murmur
  <2>2. Settled(S, P)
    BY <1>2, <2>1 DEF Settled, Tells
  <2> QED
    BY <1>2, <1>11, <2>2, SettledTrans DEF Tells, Parts
<1>14. Open(R) = Open(S) \ {id} /\ \A j \in Open(R) : R.streams[j].flags = S.streams[j].flags
  BY <1>2, <1>11 DEF Tells, Parts, Open
<1>15. \A i \in New(S, R) : Murmur(R.out[i]) \/ R.out[i] = f
  BY <1>2, <1>11, <1>12 DEF Tells, Parts
<1>16. R.closed \/ \E i \in New(S, R) : R.out[i] = f
  <2>1. P.closed => R.closed
    BY <1>11 DEF Parts, Goes
  <2> QED
    BY <1>2, <1>12, <2>1 DEF Tells
<1> QED
  BY <1>3, <1>4, <1>12, <1>13, <1>14, <1>15, <1>16

LEMMA StreamFaultLives ==
    ASSUME H2Assumption, NEW S, GoodEnd(S), NEW id \in Ids, id <= Known(S),
           NEW code \in Codes \ {"refused"}, NEW forgive \in BOOLEAN
    PROVE  LET R == StreamFault(S, id, code, forgive) IN
           Lives(S, R, {}) /\ Settled(S, R) /\ Open(R) = Open(S) \ {id}
<1>1. PICK R : R = StreamFault(S, id, code, forgive)
  OBVIOUS
<1>2. /\ Goes(S, R) /\ Settled(S, R) /\ Open(R) = Open(S) \ {id}
      /\ \A j \in Open(R) : R.streams[j].flags = S.streams[j].flags
      /\ \A i \in New(S, R) : Murmur(R.out[i]) \/ R.out[i] = Rst(id, code)
      /\ R.closed \/ \E i \in New(S, R) : R.out[i] = Rst(id, code)
  BY <1>1, StreamFaultFares
<1>3. Polite(S, R)
  BY <1>2 DEF Polite, Murmur, Rst
<1>4. ASSUME NEW i \in New(S, R), NEW j
      PROVE  ~Ended(R.out[i], j) /\ (IsRst(R.out[i], j) => j = id)
  BY <1>2 DEF Ended, IsRst, Murmur, Rst
<1>5. ASSUME ~R.closed, NEW j \in Ids PROVE Fares(S, R, j, FALSE, FALSE)
  <2>1. CASE j = id
    <3>1. \E i \in New(S, R) : IsRst(R.out[i], id)
      BY <1>2, <1>5 DEF IsRst, Rst
    <3> QED
      BY <1>2, <2>1, <3>1, OverFares
  <2>2. CASE j # id
    <3>1. j \in Open(S) => j \in Open(R)
      BY <1>2, <2>2
    <3>2. j \in Open(R) => R.streams[j].flags = S.streams[j].flags
      BY <1>2
    <3> QED
      BY <1>4, <2>2, <3>1, <3>2 DEF Fares, Has
  <2> QED
    BY <2>1, <2>2
<1>6. Lives(S, R, {})
  BY <1>2, <1>3, <1>5 DEF Lives
<1> QED
  BY <1>1, <1>2, <1>6

LEMMA PartsLives ==
    ASSUME NEW S, NEW R, Parts(S, R, {})
    PROVE  Lives(S, R, {}) /\ Settled(S, R) /\ Open(R) = Open(S)
BY PartsFares DEF Parts

LEMMA ClosedFrameLives ==
    ASSUME H2Assumption, NEW S, GoodEnd(S), NEW id \in Ids, id \notin Open(S), id <= Known(S)
    PROVE  LET R == ClosedFrame(S, id) IN
           Lives(S, R, {}) /\ Settled(S, R) /\ Open(R) = Open(S)
<1> DEFINE code == IF Len(S.ring) = CfgStreams(S) THEN "forgotten" ELSE "unknown"
           R == ClosedFrame(S, id)
<1>1. code \in Codes /\ "closed" \in Codes /\ "closed" # "refused"
  BY DEF Codes
<1>2. RingFind(S, id) \in {"ours", "peer", "done", "unknown"}
  BY RingFindType DEF GoodEnd, Endings
<1>3. \/ R = S
      \/ R = StreamFault(S, id, "closed", FALSE)
      \/ R = Fail(S, "closed")
      \/ R = Fail(S, code)
  <2> DEFINE how == RingFind(S, id)
  <2>1. R = CASE how = "ours" -> S
              [] how = "peer" -> StreamFault(S, id, "closed", FALSE)
              [] how = "done" -> Fail(S, "closed")
              [] how = "unknown" -> Fail(S, code)
    BY DEF ClosedFrame
  <2> HIDE DEF R, how, code
  <2>2. how \in {"ours", "peer", "done", "unknown"}
    BY <1>2 DEF how
  <2> QED
    BY <2>1, <2>2
<1> HIDE DEF R, code
<1>4. CASE R = S
  BY <1>4, GoesItself, PartsLives DEF R
<1>5. CASE R = StreamFault(S, id, "closed", FALSE)
  <2>1. "closed" \in Codes \ {"refused"}
    BY <1>1
  <2>2. PICK n \in BOOLEAN : n = FALSE
    OBVIOUS
  <2>3. R = StreamFault(S, id, "closed", n)
    BY <1>5, <2>2
  <2>4. Lives(S, R, {}) /\ Settled(S, R) /\ Open(R) = Open(S) \ {id}
    BY <2>1, <2>3, StreamFaultLives
  <2>5. Open(S) \ {id} = Open(S)
    OBVIOUS
  <2> QED
    BY <2>4, <2>5 DEF R
<1>6. ASSUME NEW c \in Codes, R = Fail(S, c)
      PROVE  Lives(S, R, {}) /\ Settled(S, R) /\ Open(R) = Open(S)
  BY <1>6, FailParts, PartsLives
<1>7. Lives(S, R, {}) /\ Settled(S, R) /\ Open(R) = Open(S)
  BY <1>1, <1>3, <1>4, <1>5, <1>6 DEF R
<1> QED
  BY <1>7 DEF R

(* Other flags of one stream.                                              *)
WithFlags(S, id, flags) == [S EXCEPT !.streams[id].flags = flags]

LEMMA FlagIs ==
    ASSUME NEW S, GoodEnd(S), NEW id, id \in Open(S), NEW flags, flags \in SUBSET StreamFlags,
           NEW R, R = WithFlags(S, id, flags)
    PROVE  /\ GoodEnd(R) /\ Goes(S, R) /\ Settled(S, R) /\ Open(R) = Open(S) /\ New(S, R) = {}
           /\ R.streams[id].flags = flags
           /\ \A j \in Open(S) \ {id} : R.streams[j].flags = S.streams[j].flags
           /\ R.out = S.out /\ R.closed = S.closed /\ R.goawaySent = S.goawaySent
<1> DEFINE s == [S.streams[id] EXCEPT !.flags = flags]
           ss == [S.streams EXCEPT ![id] = s]
<1>0. IsEnd(S)
  BY DEF GoodEnd
<1>1. S.streams \in [Open(S) -> StreamType] /\ Open(S) \in SUBSET Ids /\ S.streams[id] \in StreamType
  BY <1>0, EndFields
<1>2. s \in StreamType /\ s.flags = flags
  <2> HIDE DEF StreamFlags
  <2> QED
    BY <1>1 DEF StreamType
<1> HIDE DEF s, StreamType
<1>3. /\ ss \in [Open(S) -> StreamType] /\ ss[id] = s
      /\ \A j \in Open(S) \ {id} : ss[j] = S.streams[j]
  BY <1>1, <1>2
<1>4. R = [S EXCEPT !.streams = ss]
  BY DEF s, WithFlags
<1> HIDE DEF ss
<1>5. /\ Same(S, R) /\ SameLimit(S, R) /\ R.rd = S.rd /\ R.sweepGoaway = S.sweepGoaway
      /\ R.streams = ss /\ R.out = S.out /\ R.closed = S.closed
      /\ R.goawaySent = S.goawaySent
  <2> HIDE DEF ss
  <2> QED
    BY ONLY <1>0, <1>4, StreamsRest
<1>6. IsEnd(R) /\ Open(R) = Open(S)
  BY <1>0, <1>1, <1>3, <1>4, OtherStreams
<1>7. Known(R) = Known(S)
  BY <1>5, KnownIs
<1>8. GoodEnd(R)
  BY <1>5, <1>6, <1>7 DEF GoodEnd, OfKnown
<1>9. New(S, R) = {} /\ Len(S.out) \in Nat
  BY <1>5, OutIs DEF New
<1>10. Goes(S, R) /\ Settled(S, R)
  BY <1>5, <1>6, <1>8, <1>9 DEF Goes, Settled, SameLimit, SameNumbers
<1> QED
  BY <1>2, <1>3, <1>5, <1>6, <1>8, <1>9, <1>10

(* An end that has just sent the last of a stream.                         *)
LEMMA LocalEndLives ==
    ASSUME H2Assumption, NEW S0, GoodEnd(S0), NEW S, Goes(S0, S), Settled(S0, S), Polite(S0, S),
           NEW id \in Open(S), \A j \in Ids \ {id} : Fares(S0, S, j, FALSE, FALSE),
           \A i \in New(S0, S) : ~IsRst(S.out[i], id),
           \E i \in New(S0, S) : Ended(S.out[i], id),
           Has(S, id, "REMOTE_END") <=> Has(S0, id, "REMOTE_END")
    PROVE  Lives(S0, LocalEnd(S, id), {}) /\ Settled(S0, LocalEnd(S, id))
<1> DEFINE T == Flag(S, id, {"LOCAL_END"})
           Q == Queue(T, Rst(id, "none"))
           A == RemoveStream(T, id, TRUE, "done")
           B == RemoveStream(Q, id, TRUE, EndedEarly)
           R == LocalEnd(S, id)
<1>0. {"done", EndedEarly} \subseteq Endings /\ "none" \in Codes /\ GoodEnd(S)
      /\ id \in Ids /\ id <= Known(S) /\ S.streams[id].flags \subseteq StreamFlags
  BY EndFields DEF Endings, EndedEarly, Codes, Goes, GoodEnd, OfKnown
<1>1. /\ GoodEnd(T) /\ Goes(S, T) /\ Settled(S, T) /\ Open(T) = Open(S) /\ New(S, T) = {}
      /\ T.streams[id].flags = S.streams[id].flags \cup {"LOCAL_END"}
      /\ \A j \in Open(S) \ {id} : T.streams[j].flags = S.streams[j].flags
  <2>1. S.streams[id].flags \cup {"LOCAL_END"} \in SUBSET StreamFlags
    BY <1>0 DEF StreamFlags
  <2>2. T = WithFlags(S, id, S.streams[id].flags \cup {"LOCAL_END"})
    BY DEF Flag, WithFlags
  <2>3. PICK flags : flags = S.streams[id].flags \cup {"LOCAL_END"}
    OBVIOUS
  <2> HIDE DEF T
  <2>4. GoodEnd(S) /\ T = WithFlags(S, id, flags) /\ flags \in SUBSET StreamFlags
    BY <1>0, <2>1, <2>2, <2>3
  <2>5. /\ GoodEnd(T) /\ Goes(S, T) /\ Settled(S, T) /\ Open(T) = Open(S) /\ New(S, T) = {}
        /\ T.streams[id].flags = flags
        /\ \A j \in Open(S) \ {id} : T.streams[j].flags = S.streams[j].flags
    BY <2>4, FlagIs
  <2> QED
    BY <2>3, <2>5
<1>2. \/ ~Has(S, id, "REMOTE_END") /\ R = T
      \/ Has(S, id, "REMOTE_END") /\ R = A
      \/ R = B
  <2> DEFINE both == Has(S, id, "REMOTE_END")
             kept == ~S.server \/ Has(S, id, "TUNNEL")
  <2>1. R = CASE both -> A [] ~both /\ kept -> T [] OTHER -> B
    BY DEF LocalEnd
  <2> HIDE DEF both, kept, A, T, B, R
  <2>2. (~both /\ R = T) \/ (both /\ R = A) \/ R = B
    BY <2>1
  <2> QED
    BY <2>2 DEF both
<1> HIDE DEF T
<1>3. /\ Goes(S0, T) /\ Settled(S0, T) /\ Polite(S0, T)
      /\ \A j \in Ids \ {id} : Fares(S0, T, j, FALSE, FALSE)
      /\ New(S0, T) = New(S0, S) /\ \A i \in New(S0, T) : T.out[i] = S.out[i]
      /\ Open(T) = Open(S)
  <2>1. /\ Goes(S0, T) /\ \A i \in New(S0, S) : T.out[i] = S.out[i]
        /\ New(S0, T) = New(S0, S)
    BY <1>1, GoesTrans
  <2>2. Settled(S0, T)
    BY <1>1, SettledTrans
  <2>3. Polite(S0, T)
    BY <2>1 DEF Polite
  <2>4. ASSUME NEW j \in Ids, j # id PROVE Fares(S0, T, j, FALSE, FALSE)
    <3>1. j \in Open(T) => T.streams[j].flags = S.streams[j].flags
      BY <1>1, <2>4
    <3>2. j \in Open(T) => \A flag : Has(T, j, flag) <=> Has(S, j, flag)
      BY <3>1 DEF Has
    <3>3. \A i \in New(S0, S) : /\ IsRst(T.out[i], j) <=> IsRst(S.out[i], j)
                                /\ Ended(T.out[i], j) <=> Ended(S.out[i], j)
      BY <2>1
    <3>4. Fares(S0, S, j, FALSE, FALSE)
      BY <2>4
    <3> HIDE DEF Has, IsRst, Ended
    <3>5. /\ (\E i \in New(S0, S) : IsRst(S.out[i], j)) <=> (\E i \in New(S0, T) : IsRst(T.out[i], j))
          /\ (\E i \in New(S0, S) : Ended(S.out[i], j)) <=> (\E i \in New(S0, T) : Ended(T.out[i], j))
      BY <2>1, <3>3
    <3> QED
      BY <1>1, <2>1, <3>2, <3>3, <3>4, <3>5 DEF Fares
  <2> QED
    BY <1>1, <2>1, <2>2, <2>3, <2>4
<1>4. Has(T, id, "LOCAL_END") /\ (Has(T, id, "REMOTE_END") <=> Has(S, id, "REMOTE_END"))
  BY <1>1 DEF Has
<1>5. /\ \A i \in New(S0, T) : ~IsRst(T.out[i], id)
      /\ \E i \in New(S0, T) : Ended(T.out[i], id)
  BY <1>3
(* The stream stays.                                                       *)
<1>6. CASE ~Has(S, id, "REMOTE_END") /\ R = T
  <2>1. id \in Open(S0)
    BY DEF Goes
  <2>2. ~Has(T, id, "REMOTE_END") /\ ~Has(S0, id, "REMOTE_END")
    BY <1>4, <1>6
  <2> HIDE DEF Has, IsRst, Ended
  <2>3. Fares(S0, T, id, FALSE, FALSE)
    BY <1>3, <1>4, <1>5, <2>1, <2>2 DEF Fares
  <2>4. \A j \in Ids : Fares(S0, T, j, FALSE, FALSE)
    BY <1>3, <2>3
  <2> QED
    BY <1>3, <1>6, <2>4 DEF Lives
(* The stream goes, and what goes with it says nothing of others.          *)
<1>7. ASSUME NEW W, Goes(T, W), Settled(T, W), Polite(T, W), Open(W) = Open(T) \ {id},
             \A j \in Ids \ {id} : Fares(T, W, j, FALSE, FALSE),
             W.closed \/ Has(S, id, "REMOTE_END") \/ \E i \in New(T, W) : IsRst(W.out[i], id)
      PROVE  Lives(S0, W, {}) /\ Settled(S0, W)
  <2>1. /\ Goes(S0, W) /\ New(S0, T) \subseteq New(S0, W) /\ New(T, W) \subseteq New(S0, W)
        /\ \A i \in New(S0, T) : W.out[i] = T.out[i]
        /\ New(S0, W) = New(S0, T) \cup New(T, W)
    BY <1>3, <1>7, GoesTrans
  <2>2. Settled(S0, W)
    BY <1>3, <1>7, SettledTrans
  <2>3. Polite(S0, W)
    BY <1>3, <1>7, <2>1 DEF Polite
  <2>4. ASSUME NEW j \in Ids \ {id} PROVE Fares(S0, W, j, FALSE, FALSE)
    <3>1. PICK n \in BOOLEAN : n = FALSE
      OBVIOUS
    <3>2. Fares(S0, T, j, n, n) /\ Fares(T, W, j, n, n)
      BY <1>3, <1>7, <3>1
    <3>3. Fares(S0, W, j, n \/ n, n \/ n)
      BY <1>3, <1>7, <3>2, FaresTrans
    <3>4. (n \/ n) = FALSE
      BY <3>1
    <3> QED
      BY <3>3, <3>4
  <2>5. ASSUME ~W.closed PROVE Fares(S0, W, id, FALSE, FALSE)
    <3>1. id \notin Open(W)
      BY <1>7
    <3>2. \E i \in New(S0, W) : Ended(W.out[i], id)
      BY <1>5, <2>1
    <3>3. Has(S0, id, "REMOTE_END") \/ \E i \in New(S0, W) : IsRst(W.out[i], id)
      BY <1>7, <2>1, <2>5
    <3> QED
      BY <3>1, <3>2, <3>3, OverFares
  <2>6. W.closed \/ \A j \in Ids : Fares(S0, W, j, FALSE, FALSE)
    BY <2>4, <2>5
  <2> QED
    BY <2>1, <2>2, <2>3, <2>6 DEF Lives
<1>8. CASE Has(S, id, "REMOTE_END") /\ R = A
  <2>1. Parts(T, A, {id})
    BY <1>0, <1>1, RemoveStreamParts
  <2> HIDE DEF A
  <2>2. Goes(T, A) /\ Settled(T, A) /\ Polite(T, A) /\ Open(A) = Open(T) \ {id}
        /\ \A j \in Ids \ {id} : Fares(T, A, j, FALSE, FALSE)
    BY <2>1, PartsFares DEF Parts
  <2> QED
    BY <1>7, <1>8, <2>2
<1>9. CASE R = B
  <2>1. PICK f : f = Rst(id, "none")
    OBVIOUS
  <2>2. Due(T, f) /\ Fits(T, T, f) /\ f.t = "rst" /\ f.id = id /\ f.code = "none"
    <3>1. id <= Known(T)
      BY <1>0, <1>1, KnownIs DEF Goes
    <3> QED
      BY <1>0, <2>1, <3>1 DEF Due, Fits, Rst, FrameType
  <2>3. Tells(T, Q, f)
    BY <1>1, <2>1, <2>2, QueueTells
  <2> HIDE DEF Q
  <2>4. GoodEnd(Q) /\ Open(Q) = Open(T)
    BY <2>3 DEF Tells, Goes, Open
  <2>5. Parts(Q, B, {id})
    <3>1. PICK how \in Endings : how = EndedEarly
      BY <1>0
    <3>2. id \in Open(Q)
      BY <1>1, <2>4
    <3>3. Parts(Q, RemoveStream(Q, id, TRUE, how), {id})
      BY <2>4, <3>2, RemoveStreamParts
    <3> QED
      BY <3>1, <3>3
  <2> HIDE DEF B
  <2>6. /\ Goes(T, B) /\ New(T, Q) \subseteq New(T, B)
        /\ \A i \in New(T, Q) : B.out[i] = Q.out[i]
        /\ New(T, B) = New(T, Q) \cup New(Q, B)
    BY <1>1, <2>3, <2>5, GoesTrans DEF Tells, Parts
  <2>7. Settled(T, B)
    <3>1. Settled(T, Q)
      BY <2>2, <2>3 DEF Tells, Settled, Murmur
    <3> QED
      BY <1>1, <2>3, <2>5, <3>1, SettledTrans DEF Tells, Parts
  <2>8. \A i \in New(T, B) : Murmur(B.out[i]) \/ B.out[i] = f
    BY <2>3, <2>5, <2>6 DEF Tells, Parts
  <2>9. Polite(T, B)
    BY <2>2, <2>8 DEF Polite, Murmur
  <2>10. Open(B) = Open(T) \ {id}
    BY <2>4, <2>5 DEF Parts
  <2>11. ASSUME NEW j \in Ids \ {id} PROVE Fares(T, B, j, FALSE, FALSE)
    <3>1. \A i \in New(T, B) : ~IsRst(B.out[i], j) /\ ~Ended(B.out[i], j)
      BY <2>2, <2>8 DEF Murmur, IsRst, Ended
    <3>2. j \in Open(B) => B.streams[j].flags = T.streams[j].flags
      BY <2>3, <2>5 DEF Tells, Parts
    <3>3. j \notin Open(T) \ Open(B)
      BY <2>10
    <3> QED
      BY <2>10, <3>1, <3>2, <3>3 DEF Fares, Has
  <2>12. B.closed \/ \E i \in New(T, B) : IsRst(B.out[i], id)
    <3>1. Q.closed => B.closed
      BY <2>5 DEF Parts, Goes
    <3>2. Q.closed \/ \E i \in New(T, Q) : Q.out[i] = f
      BY <2>3 DEF Tells
    <3> QED
      BY <2>2, <2>6, <3>1, <3>2 DEF IsRst
  <2> QED
    BY <1>7, <1>9, <2>6, <2>7, <2>9, <2>10, <2>11, <2>12
<1> QED
  BY <1>2, <1>6, <1>8, <1>9

(* The same output, the same streams with the same flags.                  *)
LEMMA StillParts ==
    ASSUME NEW S, GoodEnd(S), NEW R, GoodEnd(R), Same(S, R), SameLimit(S, R), R.rd = S.rd,
           R.out = S.out, S.closed => R.closed, S.goawaySent => R.goawaySent, Open(R) = Open(S),
           \A j \in Open(S) : R.streams[j].flags = S.streams[j].flags
    PROVE  Parts(S, R, {})
<1>1. Len(S.out) \in Nat
  BY OutIs
<1>2. New(S, R) = {}
  BY <1>1 DEF New
<1> QED
  BY <1>1, <1>2 DEF Parts, Goes, Settled, SameLimit, SameNumbers

(* An end that has just heard the last of a stream.                        *)
LEMMA RemoteEndFares ==
    ASSUME H2Assumption, NEW S, GoodEnd(S), NEW id \in Open(S)
    PROVE  LET R == RemoteEnd(S, id) IN
           /\ Goes(S, R) /\ Settled(S, R) /\ Polite(S, R)
           /\ Fares(S, R, id, TRUE, FALSE)
           /\ \A j \in Ids \ {id} : Fares(S, R, j, FALSE, FALSE)
           /\ id \in Open(R) => Has(R, id, "REMOTE_END")
<1> DEFINE T == Flag(S, id, {"REMOTE_END"})
           A == RemoveStream(T, id, TRUE, "done")
           R == RemoteEnd(S, id)
<1>1. id \in Ids /\ S.streams[id].flags \subseteq StreamFlags /\ "done" \in Endings
  BY EndFields DEF GoodEnd, Endings
<1>2. PICK flags : flags = S.streams[id].flags \cup {"REMOTE_END"}
  OBVIOUS
<1>3. T = WithFlags(S, id, flags) /\ flags \in SUBSET StreamFlags
  BY <1>1, <1>2 DEF Flag, WithFlags, StreamFlags
<1>4. R = IF Has(S, id, "LOCAL_END") THEN A ELSE T
  BY DEF RemoteEnd
<1> HIDE DEF T
<1>5. /\ GoodEnd(T) /\ Goes(S, T) /\ Settled(S, T) /\ Open(T) = Open(S) /\ New(S, T) = {}
      /\ T.streams[id].flags = flags
      /\ \A j \in Open(S) \ {id} : T.streams[j].flags = S.streams[j].flags
  BY <1>3, FlagIs
<1>6. /\ \A flag : Has(T, id, flag) <=> Has(S, id, flag) \/ flag = "REMOTE_END"
      /\ \A j \in Open(S) \ {id} : \A flag : Has(T, j, flag) <=> Has(S, j, flag)
  BY <1>2, <1>5 DEF Has
<1>7. Has(T, id, "REMOTE_END") /\ (Has(T, id, "LOCAL_END") <=> Has(S, id, "LOCAL_END"))
  <2> HIDE DEF Has
  <2>1. "LOCAL_END" # "REMOTE_END"
    OBVIOUS
  <2> QED
    BY <1>6, <2>1
<1> HIDE DEF A, R
<1>8. CASE ~Has(S, id, "LOCAL_END")
  <2>1. R = T
    BY <1>4, <1>8
  <2> HIDE DEF Has
  <2>2. Fares(S, T, id, TRUE, FALSE)
    BY <1>5, <1>7, <1>8 DEF Fares
  <2>3. ASSUME NEW j \in Ids \ {id} PROVE Fares(S, T, j, FALSE, FALSE)
    <3>1. j \in Open(T) => \A flag : Has(T, j, flag) <=> Has(S, j, flag)
      BY <1>5, <1>6
    <3> QED
      BY <1>5, <3>1 DEF Fares
  <2>4. Polite(S, T)
    BY <1>5 DEF Polite
  <2> QED
    BY <1>5, <1>7, <2>1, <2>2, <2>3, <2>4 DEF R
<1>9. CASE Has(S, id, "LOCAL_END")
  <2>1. R = A
    BY <1>4, <1>9
  <2>2. Parts(T, R, {id})
    BY <1>1, <1>5, <2>1, RemoveStreamParts DEF A
  <2>3. /\ Goes(S, R)
        /\ \A i \in New(S, T) : R.out[i] = T.out[i]
        /\ New(S, R) = New(S, T) \cup New(T, R)
    BY <1>5, <2>2, GoesTrans DEF Parts
  <2>4. New(S, R) = New(T, R)
    BY <1>5, <2>3
  <2>5. Settled(S, R)
    BY <1>5, <2>2, SettledTrans DEF Parts
  <2>6. \A j : \A i \in New(S, R) : ~IsRst(R.out[i], j) /\ ~Ended(R.out[i], j)
    BY <2>2, <2>4, PartsFares
  <2>7. Polite(S, R)
    BY <2>2, <2>4, PartsFares DEF Polite
  <2>8. id \notin Open(R)
    BY <2>2 DEF Parts
  <2>9. Fares(S, R, id, TRUE, FALSE)
    BY <1>9, <2>8, OverFares
  <2>10. ASSUME NEW j \in Ids \ {id} PROVE Fares(S, R, j, FALSE, FALSE)
    <3>1. j \in Open(R) => R.streams[j].flags = S.streams[j].flags
      BY <1>5, <2>2 DEF Parts
    <3>2. j \in Open(S) => j \in Open(R)
      BY <1>5, <2>2 DEF Parts
    <3> QED
      BY <2>6, <3>1, <3>2 DEF Fares, Has
  <2> QED
    BY <2>3, <2>5, <2>7, <2>8, <2>9, <2>10 DEF R
<1> QED
  BY <1>8, <1>9

LEMMA LocalWindowParts ==
    ASSUME NEW S, GoodEnd(S), NEW window \in Int
    PROVE  Parts(S, LocalWindow(S, window), {})
<1> DEFINE ss == [id \in Open(S) |-> [S.streams[id] EXCEPT !.recv = @ + (window - S.localWindow)]]
           R == [S EXCEPT !.localWindow = window, !.streams = ss]
<1>1. LocalWindow(S, window) = R
  BY DEF LocalWindow
<1>2. \A j \in Open(S) : ss[j].flags = S.streams[j].flags
  <2>1. \A j \in Open(S) : S.streams[j] \in StreamType
    BY EndFields DEF GoodEnd
  <2> QED
    BY <2>1 DEF StreamType
<1> HIDE DEF ss
<1>3. /\ Same(S, R) /\ SameLimit(S, R) /\ R.rd = S.rd /\ R.sweepGoaway = S.sweepGoaway
      /\ R.streams = ss /\ R.out = S.out /\ R.closed = S.closed
      /\ R.goawaySent = S.goawaySent
  <2> HIDE DEF FrameType, StreamType
  <2> QED
    BY ZenonT(60) DEF GoodEnd, IsEnd, EndType, Same, SameLimit, SameNumbers
<1> HIDE DEF R
<1>4. GoodEnd(R) /\ Open(R) = Open(S)
  BY <1>1, LocalWindowKeeps DEF Keeps
<1> QED
  BY <1>1, <1>2, <1>3, <1>4, StillParts

---------------------------------------------------------------------------
(* Reading a frame.                                                        *)

(* S but for what no stream and no frame of the output tells.              *)
Begins(S, D) ==
    /\ Same(S, D) /\ D.streams = S.streams /\ D.out = S.out
    /\ D.goawaySent = S.goawaySent /\ D.goawayRecv = S.goawayRecv /\ D.closed = S.closed

LEMMA BeginsOn ==
    ASSUME NEW S, GoodEnd(S), NEW D, GoodEnd(D), Begins(S, D), NEW R, Goes(D, R)
    PROVE  /\ Goes(S, R) /\ New(S, R) = New(D, R) /\ (Polite(D, R) => Polite(S, R))
           /\ \A j, heard, lost : Fares(D, R, j, heard, lost) => Fares(S, R, j, heard, lost)
           /\ \A but : Lives(D, R, but) => Lives(S, R, but)
<1>1. New(S, R) = New(D, R) /\ Open(D) = Open(S) /\ Known(D) = Known(S)
  BY KnownIs DEF New, Begins, Open
<1>2. \A f : Fits(D, R, f) => Fits(S, R, f)
  BY <1>1 DEF Fits, Begins, Same
<1>3. Goes(S, R)
  BY <1>1, <1>2 DEF Goes, Begins, Same
<1>4. \A j, flag : Has(D, j, flag) <=> Has(S, j, flag)
  BY DEF Has, Begins
<1>5. Polite(D, R) => Polite(S, R)
  BY <1>1 DEF Polite
<1>6. ASSUME NEW j, NEW heard, NEW lost, Fares(D, R, j, heard, lost)
      PROVE  Fares(S, R, j, heard, lost)
  <2> HIDE DEF Has, IsRst, Ended
  <2> QED
    BY <1>1, <1>4, <1>6 DEF Fares
<1>7. ASSUME NEW but, Lives(D, R, but) PROVE Lives(S, R, but)
  BY <1>3, <1>5, <1>6, <1>7 DEF Lives
<1> QED
  BY <1>1, <1>3, <1>5, <1>6, <1>7

(* The last of the DATA frame under way will end stream j.                 *)
Coming(S, j) == S.rd.id = j /\ S.rd.fin /\ ~S.rd.drop

(* What an end knows of a stream whose end it has read.                    *)
Over(S, j) ==
    \/ j <= Known(S) /\ j \notin Open(S)
    \/ Coming(S, j)
    \/ j \in Open(S) /\ Has(S, j, "REMOTE_END")

(* A frame that says nothing of settings leaves the numbers alone.         *)
Still(S, R) ==
    /\ SameNumbers(S, R) /\ R.gotSettings = S.gotSettings /\ R.peerStreams = S.peerStreams
    /\ \A i \in New(S, R) : R.out[i].t \notin {"settings", "ack"}

(* What f tells of refusals.                                               *)
Told(S, R, f) ==
    /\ \A j \in R.refused : j \in S.refused \/ (IsRst(f, j) /\ f.code = "refused")
    /\ R.goawayRecv => \/ S.goawayRecv /\ R.goawayLast = S.goawayLast
                       \/ f.t = "goaway" /\ R.goawayLast = f.last
    /\ R.sweepGoaway => S.sweepGoaway \/ R.goawayRecv

(* What f tells of the streams.                                            *)
Marks(R, f) ==
    /\ R.rd.fin => Ended(f, R.rd.id) /\ R.rd.id <= Known(R)
    /\ \A j \in Ids : Ended(f, j) => Over(R, j)
    /\ \A j \in Ids : IsRst(f, j) => j <= Known(R) /\ j \notin Open(R)

(* An end that had read S.rd to its end has read f.                        *)
Reading(S, R, f) ==
    /\ Goes(S, R) /\ Polite(S, R) /\ Told(S, R, f)
    /\ f.t \notin {"settings", "ack"} => Still(S, R)
    /\ R.closed \/
       /\ \A j \in Ids : \E heard, lost \in BOOLEAN :
            Fares(S, R, j, heard, lost) /\ (heard => Ended(f, j)) /\ (lost => IsRst(f, j))
       /\ Marks(R, f)

LEMMA LivesReading ==
    ASSUME NEW S, NEW R, NEW f, Lives(S, R, {}), SameLimit(S, R),
           \A i \in New(S, R) : R.out[i].t \notin {"settings", "ack"},
           R.closed \/ Marks(R, f)
    PROVE  Reading(S, R, f)
<1>1. Told(S, R, f) /\ Still(S, R)
  BY DEF SameLimit, Told, Still
<1>2. ASSUME ~R.closed, NEW j \in Ids
      PROVE  \E heard, lost \in BOOLEAN :
               Fares(S, R, j, heard, lost) /\ (heard => Ended(f, j)) /\ (lost => IsRst(f, j))
  <2>1. Fares(S, R, j, FALSE, FALSE)
    BY <1>2 DEF Lives
  <2>2. FALSE \in BOOLEAN
    OBVIOUS
  <2> QED
    BY <2>1, <2>2
<1> QED
  BY <1>1, <1>2 DEF Reading, Lives

(* A frame that neither ends nor resets a stream.                          *)
LEMMA PlainReading ==
    ASSUME NEW S, NEW R, NEW f, Lives(S, R, {}), Settled(S, R), S.rd = NoData,
           f.t \notin {"headers", "data", "rst"}
    PROVE  Reading(S, R, f)
<1>1. R.rd.fin = FALSE
  BY DEF Settled, NoData
<1>2. Marks(R, f)
  BY <1>1 DEF Marks, Ended, IsRst
<1> QED
  BY <1>2, LivesReading DEF Settled

LEMMA FailLives ==
    ASSUME NEW S, GoodEnd(S), NEW code \in Codes
    PROVE  LET R == Fail(S, code) IN Lives(S, R, {}) /\ Settled(S, R) /\ R.closed
BY FailParts, PartsLives

LEMMA OpenKnown ==
    ASSUME NEW S, GoodEnd(S), NEW id \in Open(S)
    PROVE  id \in Ids /\ id <= Known(S)
BY EndFields DEF GoodEnd, OfKnown

LEMMA IdleIs ==
    ASSUME H2Assumption, NEW S, GoodEnd(S), NEW id \in Ids
    PROVE  IsIdle(S, id) <=> ~(id <= Known(S))
<1>0. id \in Nat
  BY DEF H2Assumption, Ids
<1>1. id \in Nat /\ Known(S) \in Nat /\ S.nextId \in Nat /\ S.lastPeerId \in Nat
  BY <1>0, EndFields DEF GoodEnd
<1> QED
  BY <1>1 DEF IsIdle, Known

LEMMA OnDataIs ==
    ASSUME NEW S, IsEnd(S), NEW f \in FrameType, f.t = "data"
    PROVE  LET T == [S EXCEPT !.recvWin = @ - f.n,
                              !.rd = [id |-> f.id, left |-> f.n, fin |-> f.fin, drop |-> FALSE]]
               D == [T EXCEPT !.rd.drop = TRUE]
               R == OnData(S, f)
           IN \/ R = Fail(S, "flow")
              \/ f.id \notin Open(S) /\ IsIdle(S, f.id) /\ R = Fail(T, "protocol")
              \/ f.id \notin Open(S) /\ ~IsIdle(S, f.id) /\ R = ClosedFrame(D, f.id)
              \/ f.id \in Open(S) /\ \E code \in {"closed", "protocol", "empty", "flow"},
                                       forgive \in BOOLEAN : R = StreamFault(D, f.id, code, forgive)
              \/ f.id \in Open(S) /\ R = [T EXCEPT !.streams[f.id].recv = @ - f.n]
<1> DEFINE T == [S EXCEPT !.recvWin = @ - f.n,
                          !.rd = [id |-> f.id, left |-> f.n, fin |-> f.fin, drop |-> FALSE]]
           D == [T EXCEPT !.rd.drop = TRUE]
           V == [T EXCEPT !.streams[f.id].recv = @ - f.n]
           R == OnData(S, f)
           open == f.id \in Open(S)
           codes == {"closed", "protocol", "empty", "flow"}
           much == f.n > S.recvWin
           fits == f.n <= S.recvWin
           ended == Has(S, f.id, "REMOTE_END")
           early == ~S.server /\ ~Has(S, f.id, "HEAD_RECV")
           code == IF f.n = 0 THEN "empty" ELSE "flow"
           r0 == Fail(S, "flow")
           r1 == IF IsIdle(S, f.id) THEN Fail(T, "protocol") ELSE ClosedFrame(D, f.id)
           r2 == StreamFault(D, f.id, "closed", FALSE)
           r3 == StreamFault(D, f.id, "protocol", TRUE)
           r4 == IF f.n > S.streams[f.id].recv THEN StreamFault(D, f.id, code, TRUE) ELSE V
<1>1. R = CASE much -> r0
            [] fits /\ ~open -> r1
            [] fits /\ open /\ ended -> r2
            [] fits /\ open /\ ~ended /\ early -> r3
            [] OTHER -> r4
  BY DEF OnData
<1>2. much <=> ~fits
  BY FrameTypes, EndFields
<1>3. code \in codes /\ "closed" \in codes /\ "protocol" \in codes
  OBVIOUS
<1> HIDE DEF R, much, fits, open, ended, early, r0, r1, r2, r3, r4, code, codes, T, D, V
<1>4. R = r0 \/ (~open /\ R = r1) \/ (open /\ R \in {r2, r3, r4})
  BY <1>1, <1>2
<1>5. r4 \in {StreamFault(D, f.id, code, TRUE), V} /\ r2 = StreamFault(D, f.id, "closed", FALSE)
      /\ r3 = StreamFault(D, f.id, "protocol", TRUE)
  BY DEF r2, r3, r4
<1>6. ~open /\ R = r1 => \/ IsIdle(S, f.id) /\ R = Fail(T, "protocol")
                         \/ ~IsIdle(S, f.id) /\ R = ClosedFrame(D, f.id)
  BY DEF r1
<1>7. open /\ R \in {r2, r3, r4} =>
        \/ \E c \in codes, forgive \in BOOLEAN : R = StreamFault(D, f.id, c, forgive)
        \/ R = V
  BY <1>3, <1>5
<1>8. \/ R = Fail(S, "flow")
      \/ ~open /\ IsIdle(S, f.id) /\ R = Fail(T, "protocol")
      \/ ~open /\ ~IsIdle(S, f.id) /\ R = ClosedFrame(D, f.id)
      \/ open /\ \E c \in codes, forgive \in BOOLEAN : R = StreamFault(D, f.id, c, forgive)
      \/ open /\ R = V
  BY <1>4, <1>6, <1>7 DEF r0
<1> QED
  BY <1>8 DEF R, open, codes, T, D, V

RdType == [id : Ids \cup {0}, left : Nat, fin : BOOLEAN, drop : BOOLEAN]

(* With another DATA frame under way.                                      *)
WithRd(S, n, rd) == [S EXCEPT !.recvWin = n, !.rd = rd]

LEMMA RdIs ==
    ASSUME NEW S, GoodEnd(S), NEW n \in Int, NEW rd \in RdType, NEW D, D = WithRd(S, n, rd)
    PROVE  GoodEnd(D) /\ Begins(S, D) /\ SameLimit(S, D) /\ D.rd = rd
<1>1. IsEnd(D) /\ D.out = S.out /\ Open(D) = Open(S) /\ D.closed = S.closed
  <2> HIDE DEF FrameType, StreamType
  <2> QED
    BY ZenonT(60) DEF GoodEnd, IsEnd, EndType, Open, RdType, WithRd
<1>2. Begins(S, D) /\ SameLimit(S, D) /\ D.rd = rd
  <2> HIDE DEF FrameType, StreamType
  <2> QED
    BY ZenonT(60) DEF GoodEnd, IsEnd, EndType, Begins, Same, SameLimit, SameNumbers, WithRd
<1>3. Known(D) = Known(S)
  BY <1>2, KnownIs DEF Begins
<1> QED
  BY <1>1, <1>2, <1>3 DEF GoodEnd, OfKnown

LEMMA OnDataReading ==
    ASSUME H2Assumption, NEW S, GoodEnd(S), S.rd = NoData, NEW f \in FrameType, f.t = "data"
    PROVE  Reading(S, OnData(S, f), f)
<1> DEFINE n == S.recvWin - f.n
           open == [id |-> f.id, left |-> f.n, fin |-> f.fin, drop |-> FALSE]
           shut == [open EXCEPT !.drop = TRUE]
           T == [S EXCEPT !.recvWin = n, !.rd = open]
           D == [S EXCEPT !.recvWin = n, !.rd = shut]
           V == [T EXCEPT !.streams[f.id].recv = @ - f.n]
           R == OnData(S, f)
<1>0. f.id \in Ids /\ f.n \in Nat /\ f.fin \in BOOLEAN
  BY FrameTypes
<1>1. n \in Int /\ IsEnd(S)
  BY <1>0, EndFields DEF GoodEnd
<1>2. open \in RdType /\ shut \in RdType
  BY <1>0 DEF RdType
<1>3. /\ GoodEnd(T) /\ Begins(S, T) /\ SameLimit(S, T) /\ T.rd = open
      /\ GoodEnd(D) /\ Begins(S, D) /\ SameLimit(S, D) /\ D.rd = shut
  <2>1. T = WithRd(S, n, open) /\ D = WithRd(S, n, shut)
    BY DEF WithRd
  <2> HIDE DEF open, shut, n, T, D
  <2> QED
    BY <1>1, <1>2, <2>1, RdIs
<1>4. [T EXCEPT !.rd.drop = TRUE] = D
  <2> HIDE DEF open, n
  <2>1. [open EXCEPT !.drop = TRUE] = shut
    OBVIOUS
  <2> HIDE DEF shut
  <2>2. [T EXCEPT !.rd.drop = TRUE] = [T EXCEPT !.rd = shut]
    <3> HIDE DEF T
    <3> QED
      BY <1>3, <2>1
  <2>3. [T EXCEPT !.rd = shut] = D
    OBVIOUS
  <2> QED
    BY <2>2, <2>3
<1>5. \/ R = Fail(S, "flow")
      \/ f.id \notin Open(S) /\ IsIdle(S, f.id) /\ R = Fail(T, "protocol")
      \/ f.id \notin Open(S) /\ ~IsIdle(S, f.id) /\ R = ClosedFrame(D, f.id)
      \/ f.id \in Open(S) /\ \E code \in {"closed", "protocol", "empty", "flow"},
                               forgive \in BOOLEAN : R = StreamFault(D, f.id, code, forgive)
      \/ f.id \in Open(S) /\ R = V
  <2> DEFINE E == [T EXCEPT !.rd.drop = TRUE]
             O == Open(S)
             idle == IsIdle(S, f.id)
  <2>1. \/ R = Fail(S, "flow")
        \/ f.id \notin O /\ idle /\ R = Fail(T, "protocol")
        \/ f.id \notin O /\ ~idle /\ R = ClosedFrame(E, f.id)
        \/ f.id \in O /\ \E code \in {"closed", "protocol", "empty", "flow"},
                                 forgive \in BOOLEAN : R = StreamFault(E, f.id, code, forgive)
        \/ f.id \in O /\ R = V
    BY <1>1, OnDataIs
  <2>2. E = D
    BY <1>4
  <2> HIDE DEF E, D, O, idle
  <2>3. \/ R = Fail(S, "flow")
        \/ f.id \notin O /\ idle /\ R = Fail(T, "protocol")
        \/ f.id \notin O /\ ~idle /\ R = ClosedFrame(D, f.id)
        \/ f.id \in O /\ \E code \in {"closed", "protocol", "empty", "flow"},
                                 forgive \in BOOLEAN : R = StreamFault(D, f.id, code, forgive)
        \/ f.id \in O /\ R = V
    BY <2>1, <2>2
  <2> QED
    BY <2>3 DEF O, idle
<1> HIDE DEF open, shut, n, T, D, V, R
<1>6. Open(T) = Open(S) /\ Open(D) = Open(S) /\ Known(D) = Known(S) /\ Known(T) = Known(S)
  BY <1>3, KnownIs DEF Begins, Open
<1>7. {"flow", "protocol", "closed", "empty"} \subseteq Codes \ {"refused"}
  BY DEF Codes
<1>8. f.id \in Open(S) => f.id <= Known(S)
  BY OpenKnown
(* What is left of the frame.                                              *)
<1>9. ASSUME NEW A, GoodEnd(A), Begins(S, A), SameLimit(S, A), NEW W, Lives(A, W, {}), Settled(A, W), W.closed \/ Marks(W, f)
      PROVE  Reading(S, W, f)
  <2>1. Lives(S, W, {}) /\ New(S, W) = New(A, W)
    BY <1>9, BeginsOn DEF Lives
  <2>2. SameLimit(S, W)
    BY <1>9 DEF Settled, SameLimit, SameNumbers
  <2> QED
    BY <1>3, <1>9, <2>1, <2>2, LivesReading DEF Settled
<1>10. ASSUME NEW W, f.id \notin Open(W), f.id <= Known(S), Goes(D, W), Settled(D, W) PROVE Marks(W, f)
  <2>1. W.rd = shut /\ Known(W) = Known(S)
    BY <1>3, <1>6, <1>10, KnownIs DEF Settled, Goes
  <2> QED
    BY <1>10, <2>1 DEF Marks, Over, Ended, IsRst, shut, open
<1>11. CASE R = Fail(S, "flow")
  <2>1. Lives(S, R, {}) /\ Settled(S, R) /\ R.closed
    BY <1>7, <1>11, FailLives
  <2> QED
    BY <2>1, LivesReading DEF Settled, R
<1>12. CASE R = Fail(T, "protocol")
  <2>1. Lives(T, R, {}) /\ Settled(T, R) /\ R.closed
    BY <1>3, <1>7, <1>12, FailLives
  <2> QED
    BY <1>3, <1>9, <2>1 DEF R
<1>13. CASE f.id \notin Open(S) /\ ~IsIdle(S, f.id) /\ R = ClosedFrame(D, f.id)
  <2>1. f.id <= Known(S)
    BY <1>0, <1>13, IdleIs
  <2>2. Lives(D, R, {}) /\ Settled(D, R) /\ Open(R) = Open(D)
    BY <1>0, <1>3, <1>6, <1>13, <2>1, ClosedFrameLives
  <2>3. Marks(R, f)
    BY <1>6, <1>10, <1>13, <2>1, <2>2 DEF Lives
  <2> QED
    BY <1>3, <1>9, <2>2, <2>3 DEF R
<1>14. ASSUME f.id \in Open(S), NEW code \in {"closed", "protocol", "empty", "flow"},
              NEW forgive \in BOOLEAN, R = StreamFault(D, f.id, code, forgive)
       PROVE  Reading(S, R, f)
  <2>1. Lives(D, R, {}) /\ Settled(D, R) /\ Open(R) = Open(D) \ {f.id}
    BY <1>0, <1>3, <1>6, <1>7, <1>8, <1>14, StreamFaultLives
  <2>2. Marks(R, f)
    BY <1>8, <1>10, <1>14, <2>1 DEF Lives
  <2> QED
    BY <1>3, <1>9, <2>1, <2>2
<1>15. CASE f.id \in Open(S) /\ R = V
  <2> DEFINE s == [T.streams[f.id] EXCEPT !.recv = @ - f.n]
  <2>1. T.streams[f.id] \in StreamType /\ T.streams[f.id].recv \in Int
    BY <1>3, <1>6, <1>15, EndFields DEF GoodEnd
  <2>2. s \in StreamType /\ s.flags = T.streams[f.id].flags
    BY <1>0, <2>1 DEF StreamType
  <2>3. V = [T EXCEPT !.streams[f.id] = s]
    BY DEF V
  <2> HIDE DEF s
  <2>4. Parts(T, R, {})
    BY <1>3, <1>6, <1>15, <2>2, <2>3, StreamParts
  <2>5. Lives(T, R, {}) /\ Settled(T, R) /\ Known(R) = Known(S)
    BY <1>6, <2>4, PartsLives, KnownIs DEF Parts, Goes
  <2>6. R.rd = open
    BY <1>3, <2>5 DEF Settled
  <2>7. Marks(R, f)
    BY <1>8, <1>15, <2>5, <2>6 DEF Marks, Over, Coming, Ended, IsRst, open
  <2> QED
    BY <1>3, <1>9, <2>5, <2>7 DEF R
<1> QED
  BY <1>5, <1>11, <1>12, <1>13, <1>14, <1>15 DEF R

(* A piece of a DATA frame, and with the last one the end of its stream.   *)
LEMMA OnPieceGoes ==
    ASSUME H2Assumption, NEW S, GoodEnd(S), NEW n \in Nat, n <= S.rd.left
    PROVE  LET R == OnPiece(S, n) IN
           /\ Goes(S, R) /\ Polite(S, R) /\ SameLimit(S, R) /\ Still(S, R)
           /\ \A j \in Ids : \E heard \in BOOLEAN :
                Fares(S, R, j, heard, FALSE) /\ (heard => S.rd.fin /\ j = S.rd.id)
           /\ R.rd.fin => S.rd.fin /\ R.rd.id = S.rd.id
           /\ \A j \in Ids : j <= Known(S) /\ Coming(S, j) => Over(R, j)
<1> DEFINE id == S.rd.id
           left == S.rd.left - n
           rd == IF left = 0 THEN NoData ELSE [S.rd EXCEPT !.left = left]
           T == [S EXCEPT !.rd = rd]
           H == [T EXCEPT !.streams[id].held = @ + n]
           R == OnPiece(S, n)
<1>1. S.rd \in RdType /\ S.recvWin \in Int
  <2> HIDE DEF FrameType, StreamType
  <2> QED
    BY DEF GoodEnd, IsEnd, EndType, RdType
<1>2. left \in Nat /\ rd \in RdType /\ (rd.fin => S.rd.fin /\ rd.id = id)
      /\ (left # 0 => rd.fin = S.rd.fin /\ rd.drop = S.rd.drop /\ rd.id = id)
  <2>1. PICK m \in Nat : m = S.rd.left
    BY <1>1 DEF RdType
  <2>2. left \in Nat
    BY <2>1
  <2> HIDE DEF left
  <2> QED
    BY <1>1, <2>2 DEF RdType, NoData
<1>3. T = WithRd(S, S.recvWin, rd)
  <2> HIDE DEF rd, FrameType, StreamType
  <2> QED
    BY DEF GoodEnd, IsEnd, EndType, WithRd
<1>4. R = IF S.rd.drop \/ id \notin Open(S) THEN ConnCredit(T, n)
          ELSE IF left = 0 /\ S.rd.fin THEN RemoteEnd(H, id) ELSE H
  BY DEF OnPiece
<1> HIDE DEF T, rd, R
<1>5. GoodEnd(T) /\ Begins(S, T) /\ SameLimit(S, T) /\ T.rd = rd
  BY <1>1, <1>2, <1>3, RdIs
<1>6. Open(T) = Open(S) /\ Known(T) = Known(S)
  BY <1>5, KnownIs DEF Begins, Open
<1>7. ASSUME NEW W, Goes(T, W), Settled(T, W), Polite(T, W),
             NEW heard \in BOOLEAN, heard => S.rd.fin,
             Fares(T, W, id, heard, FALSE), \A j \in Ids \ {id} : Fares(T, W, j, FALSE, FALSE),
             id \in Ids /\ id <= Known(S) /\ Coming(S, id) => Over(W, id)
      PROVE  /\ Goes(S, W) /\ Polite(S, W) /\ SameLimit(S, W) /\ Still(S, W)
             /\ \A j \in Ids : \E h \in BOOLEAN :
                  Fares(S, W, j, h, FALSE) /\ (h => S.rd.fin /\ j = S.rd.id)
             /\ W.rd.fin => S.rd.fin /\ W.rd.id = S.rd.id
             /\ \A j \in Ids : j <= Known(S) /\ Coming(S, j) => Over(W, j)
  <2>1. /\ Goes(S, W) /\ New(S, W) = New(T, W) /\ Polite(S, W)
        /\ Fares(S, W, id, heard, FALSE) /\ \A j \in Ids \ {id} : Fares(S, W, j, FALSE, FALSE)
    <3>1. /\ Goes(S, W) /\ New(S, W) = New(T, W) /\ (Polite(T, W) => Polite(S, W))
          /\ \A j, h, l : Fares(T, W, j, h, l) => Fares(S, W, j, h, l)
      BY <1>5, <1>7, BeginsOn
    <3>2. Polite(T, W) /\ Fares(T, W, id, heard, FALSE) /\ \A j \in Ids \ {id} : Fares(T, W, j, FALSE, FALSE)
      BY <1>7
    <3> QED
      BY ONLY <3>1, <3>2
  <2>2. SameLimit(S, W)
    BY <1>5, <1>7 DEF Settled, SameLimit, SameNumbers
  <2>3. Still(S, W)
    BY <1>7, <2>1, <2>2 DEF Settled, SameLimit, Still
  <2>4. W.rd.fin => S.rd.fin /\ W.rd.id = S.rd.id
    BY <1>2, <1>5, <1>7 DEF Settled
  <2>5. ASSUME NEW j \in Ids
        PROVE  \E h \in BOOLEAN : Fares(S, W, j, h, FALSE) /\ (h => S.rd.fin /\ j = S.rd.id)
    <3>1. CASE j = id
      BY <1>7, <2>1, <3>1
    <3>2. CASE j # id
      <4>1. Fares(S, W, j, FALSE, FALSE) /\ FALSE \in BOOLEAN
        BY <2>1, <3>2
      <4> QED
        BY <4>1
    <3> QED
      BY <3>1, <3>2
  <2>6. \A j \in Ids : j <= Known(S) /\ Coming(S, j) => Over(W, j)
    BY <1>7 DEF Coming
  <2> QED
    BY <2>1, <2>2, <2>3, <2>4, <2>5, <2>6
<1>8. CASE S.rd.drop \/ id \notin Open(S)
  <2>1. Parts(T, R, {})
    BY <1>4, <1>5, <1>8, ConnCreditParts
  <2>2. Goes(T, R) /\ Settled(T, R) /\ Polite(T, R) /\ Open(R) = Open(S) /\ Known(R) = Known(S)
    BY <1>6, <2>1, PartsFares, KnownIs DEF Parts, Goes
  <2>3. \A j : Fares(T, R, j, FALSE, FALSE)
    <3>1. ASSUME NEW j PROVE Fares(T, R, j, FALSE, FALSE)
      <4>1. \A i \in New(T, R) : ~IsRst(R.out[i], j) /\ ~Ended(R.out[i], j)
        BY <2>1, PartsFares
      <4>2. j \in Open(R) => R.streams[j].flags = T.streams[j].flags
        BY <2>1 DEF Parts
      <4>3. Open(R) = Open(T)
        BY <2>1 DEF Parts
      <4> QED
        BY <4>1, <4>2, <4>3 DEF Fares, Has
    <3> QED
      BY <3>1
  <2>4. id <= Known(S) /\ Coming(S, id) => Over(R, id)
    BY <1>8, <2>2 DEF Coming, Over
  <2> QED
    BY <1>7, <2>2, <2>3, <2>4 DEF R
<1>9. CASE ~S.rd.drop /\ id \in Open(S)
  <2> DEFINE s == [T.streams[id] EXCEPT !.held = @ + n]
  <2>1. T.streams[id] \in StreamType /\ T.streams[id].held \in Nat
    BY <1>5, <1>6, <1>9, EndFields DEF GoodEnd
  <2>2. s \in StreamType /\ s.flags = T.streams[id].flags
    BY <2>1 DEF StreamType
  <2>3. H = [T EXCEPT !.streams[id] = s]
    OBVIOUS
  <2> HIDE DEF s, H
  <2>4. Parts(T, H, {}) /\ id \in Open(T)
    BY <1>5, <1>6, <1>9, <2>2, <2>3, StreamParts
  <2>5. /\ Goes(T, H) /\ Settled(T, H) /\ Polite(T, H) /\ Open(H) = Open(T) /\ GoodEnd(H)
        /\ \A j \in Ids : Fares(T, H, j, FALSE, FALSE)
    BY <2>4, PartsFares DEF Parts, Goes
  <2>6. id \in Ids
    BY <1>5, <2>4, EndFields DEF GoodEnd
  <2>7. CASE ~(left = 0 /\ S.rd.fin)
    <3>1. R = H
      BY <1>4, <1>9, <2>7
    <3>2. Coming(S, id) => Over(H, id)
      BY <1>2, <1>5, <1>9, <2>5, <2>7 DEF Coming, Over, Settled
    <3>3. PICK heard \in BOOLEAN : heard = FALSE
      OBVIOUS
    <3> QED
      BY <1>7, <2>5, <2>6, <3>1, <3>2, <3>3 DEF R
  <2>8. CASE left = 0 /\ S.rd.fin
    <3>1. R = RemoteEnd(H, id)
      BY <1>4, <1>9, <2>8
    <3>2. /\ Goes(H, R) /\ Settled(H, R) /\ Polite(H, R)
          /\ Fares(H, R, id, TRUE, FALSE)
          /\ \A j \in Ids \ {id} : Fares(H, R, j, FALSE, FALSE)
          /\ id \in Open(R) => Has(R, id, "REMOTE_END")
      BY <2>4, <2>5, <3>1, RemoteEndFares
    <3>3. Goes(T, R) /\ Settled(T, R) /\ \A i \in New(T, H) : R.out[i] = H.out[i]
          /\ New(T, R) = New(T, H) \cup New(H, R)
      BY <1>5, <2>5, <3>2, GoesTrans, SettledTrans
    <3>4. Polite(T, R)
      BY <1>5, <2>5, <3>2, PoliteTrans
    <3>5. PICK y \in BOOLEAN : y = TRUE
      OBVIOUS
    <3>6. PICK z \in BOOLEAN : z = FALSE
      OBVIOUS
    <3>7. (z \/ y) = y /\ (z \/ z) = z
      BY <3>5, <3>6
    <3>8. Fares(T, R, id, y, z)
      <4>1. Fares(T, H, id, z, z) /\ Fares(H, R, id, y, z)
        BY <2>5, <2>6, <3>2, <3>5, <3>6
      <4>2. Fares(T, R, id, z \/ y, z \/ z)
        BY <1>5, <2>5, <3>2, <4>1, FaresTrans
      <4> QED
        BY <3>7, <4>2
    <3>9. ASSUME NEW j \in Ids \ {id} PROVE Fares(T, R, j, FALSE, FALSE)
      <4>1. Fares(T, H, j, z, z) /\ Fares(H, R, j, z, z)
        BY <2>5, <3>2, <3>6
      <4>2. Fares(T, R, j, z \/ z, z \/ z)
        BY <1>5, <2>5, <3>2, <4>1, FaresTrans
      <4> QED
        BY <3>6, <3>7, <4>2
    <3>10. id <= Known(S) => Over(R, id)
      <4>1. Known(R) = Known(S)
        BY <1>6, <3>3, KnownIs DEF Goes
      <4> QED
        BY <3>2, <4>1 DEF Over
    <3> QED
      BY <1>7, <2>8, <3>3, <3>4, <3>5, <3>6, <3>8, <3>9, <3>10 DEF R
  <2> QED
    BY <2>7, <2>8
<1> QED
  BY <1>8, <1>9

LEMMA OnWindowReading ==
    ASSUME H2Assumption, NEW S, GoodEnd(S), ~S.closed, S.rd = NoData, NEW f \in FrameType,
           f.t = "window"
    PROVE  Reading(S, OnWindow(S, f), f)
<1> DEFINE n == S.sendWin + f.n
           A == [S EXCEPT !.sendWin = n, !.sweepWritable = TRUE]
           s == [S.streams[f.id] EXCEPT !.send = @ + f.n]
           T == [S EXCEPT !.streams[f.id] = s]
           V == [T EXCEPT !.sweepWritable = TRUE]
           R == OnWindow(S, f)
<1>0. f.id \in Ids \cup {0} /\ f.n \in Nat /\ IsEnd(S)
  BY FrameTypes DEF GoodEnd
<1>1. {"flow", "protocol"} \subseteq Codes \ {"refused"}
  BY DEF Codes
<1>2. \/ R = Fail(S, "flow") \/ R = Fail(S, "protocol") \/ R = S \/ R = A
      \/ f.id \in Open(S) /\ R = StreamFault(S, f.id, "flow", TRUE)
      \/ f.id \in Open(S) /\ R = V
  <2> DEFINE none == f.id = 0
             over == f.id # 0 /\ f.id \notin Open(S)
             r1 == IF S.sendWin + f.n > MaxWindow THEN Fail(S, "flow") ELSE A
             r2 == IF IsIdle(S, f.id) THEN Fail(S, "protocol") ELSE S
             W == [S EXCEPT !.streams[f.id].send = @ + f.n, !.sweepWritable = TRUE]
             r3 == IF S.streams[f.id].send + f.n > MaxWindow
                     THEN StreamFault(S, f.id, "flow", TRUE) ELSE W
  <2>1. R = CASE none -> r1 [] over -> r2 [] OTHER -> r3
    BY DEF OnWindow
  <2>2. ~(none /\ over) /\ (~none /\ ~over => f.id \in Open(S))
    OBVIOUS
  <2>3. W = V
    OBVIOUS
  <2>4. /\ r1 \in {Fail(S, "flow"), A} /\ r2 \in {Fail(S, "protocol"), S}
        /\ r3 \in {StreamFault(S, f.id, "flow", TRUE), V}
    BY <2>3
  <2> DEFINE open == f.id \in Open(S)
  <2>5. ~none /\ ~over => open
    BY <2>2
  <2> HIDE DEF none, over, r1, r2, r3, R, open, A, V
  <2>6. R \in {r1, r2} \/ (open /\ R = r3)
    BY <2>1, <2>2, <2>5
  <2> QED
    BY <2>4, <2>6 DEF open
<1> HIDE DEF R
<1>3. ASSUME NEW W, Parts(S, W, {}) PROVE Reading(S, W, f)
  BY <1>3, PartsLives, PlainReading
<1>4. CASE R = A
  <2> HIDE DEF FrameType, StreamType
  <2>1. n \in Int
    BY <1>0, EndFields
  <2> HIDE DEF n
  <2>2. IsEnd(A) /\ A.out = S.out /\ A.closed = S.closed
    BY <1>0, <2>1, ZenonT(60) DEF IsEnd, EndType, Open
  <2>3. Rest(S, A) /\ A.goawaySent = S.goawaySent
    BY <1>0, ZenonT(60) DEF IsEnd, EndType, Rest, Same, SameLimit, SameNumbers
  <2> HIDE DEF A
  <2>4. GoodEnd(A)
    <3>1. Known(A) = Known(S) /\ Open(A) = Open(S)
      BY <2>3, KnownIs DEF Rest, Open
    <3> QED
      BY <2>2, <3>1 DEF GoodEnd, OfKnown
  <2> QED
    BY <1>3, <1>4, <2>2, <2>3, <2>4, RestParts DEF R
<1>5. CASE f.id \in Open(S) /\ R = V
  <2>1. S.streams[f.id] \in StreamType /\ S.streams[f.id].send \in Int
    BY <1>0, <1>5, EndFields
  <2>2. s \in StreamType /\ s.flags = S.streams[f.id].flags
    BY <1>0, <2>1 DEF StreamType
  <2> HIDE DEF s
  <2>3. Parts(S, T, {})
    BY <1>5, <2>2, StreamParts
  <2> HIDE DEF T
  <2>4. GoodEnd(T) /\ IsEnd(T)
    BY <2>3 DEF Parts, Goes, GoodEnd
  <2> HIDE DEF FrameType, StreamType
  <2>5. IsEnd(V) /\ V.out = T.out /\ V.closed = T.closed
    BY <2>4, ZenonT(60) DEF IsEnd, EndType, Open
  <2>6. Rest(T, V) /\ V.goawaySent = T.goawaySent
    BY <2>4, ZenonT(60) DEF IsEnd, EndType, Rest, Same, SameLimit, SameNumbers
  <2> HIDE DEF V
  <2>7. GoodEnd(V)
    <3>1. Known(V) = Known(T) /\ Open(V) = Open(T)
      BY <2>6, KnownIs DEF Rest, Open
    <3> QED
      BY <2>4, <2>5, <3>1 DEF GoodEnd, OfKnown
  <2>8. Parts(S, V, {})
    BY <2>3, <2>4, <2>5, <2>6, <2>7, RestParts, PartsOn
  <2> QED
    BY <1>3, <1>5, <2>8 DEF R
<1>6. CASE f.id \in Open(S) /\ R = StreamFault(S, f.id, "flow", TRUE)
  <2>1. f.id \in Ids /\ f.id <= Known(S)
    BY <1>6, OpenKnown
  <2>2. Lives(S, R, {}) /\ Settled(S, R)
    BY <1>1, <1>6, <2>1, StreamFaultLives
  <2> QED
    BY <2>2, PlainReading DEF R
<1>7. CASE R = S
  BY <1>3, <1>7, GoesItself DEF R
<1>8. CASE R = Fail(S, "flow") \/ R = Fail(S, "protocol")
  BY <1>1, <1>3, <1>8, FailParts DEF R
<1> QED
  BY <1>2, <1>4, <1>5, <1>6, <1>7, <1>8 DEF R

LEMMA OnRstReading ==
    ASSUME H2Assumption, NEW S, GoodEnd(S), S.rd = NoData, NEW f \in FrameType, f.t = "rst"
    PROVE  Reading(S, OnRst(S, f), f)
<1> DEFINE id == f.id
           polite == ~S.server /\ f.code = "none" /\ Has(S, id, "REMOTE_END")
           P == RemoveStream(S, id, polite, "peer")
           Q == [P EXCEPT !.refused = @ \cup {id}]
           T == IF f.code = "refused" THEN Q ELSE P
           R == OnRst(S, f)
<1>0. id \in Ids /\ "protocol" \in Codes
  BY FrameTypes DEF Codes
<1>1. \/ id \notin Open(S) /\ IsIdle(S, id) /\ R = Fail(S, "protocol")
      \/ id \notin Open(S) /\ ~IsIdle(S, id) /\ R = S
      \/ id \in Open(S) /\ R \in {T, Debt(T)}
  BY DEF OnRst
<1>2. CASE id \notin Open(S) /\ IsIdle(S, id) /\ R = Fail(S, "protocol")
  <2> HIDE DEF R
  <2>1. Lives(S, R, {}) /\ Settled(S, R) /\ R.closed
    BY <1>0, <1>2, FailLives
  <2> QED
    BY <2>1, LivesReading DEF Settled, R
<1>3. CASE id \notin Open(S) /\ ~IsIdle(S, id) /\ R = S
  <2>1. Lives(S, S, {}) /\ Settled(S, S)
    BY GoesItself, PartsLives
  <2>2. Marks(S, f)
    <3>1. id <= Known(S)
      BY <1>0, <1>3, IdleIs
    <3> QED
      BY <1>3, <3>1 DEF Marks, IsRst, Ended, NoData
  <2> QED
    BY <1>3, <2>1, <2>2, LivesReading DEF Settled
<1>4. CASE id \in Open(S) /\ R \in {T, Debt(T)}
  <2>0. id <= Known(S)
    BY <1>4, OpenKnown
  <2>1. PICK p \in BOOLEAN : p = polite
    <3>1. polite \in BOOLEAN
      BY <1>4
    <3> QED
      BY <3>1
  <2>2. "peer" \in Endings
    BY DEF Endings
  <2>3. Parts(S, P, {id})
    BY <1>4, <2>1, <2>2, RemoveStreamParts
  <2> HIDE DEF P, polite
  <2>4. GoodEnd(P) /\ IsEnd(P)
    BY <2>3 DEF Parts, Goes, GoodEnd
  <2>5. IsEnd(Q) /\ Begins(P, Q) /\ SameNumbers(P, Q) /\ Q.rd = P.rd
        /\ Q.gotSettings = P.gotSettings /\ Q.peerStreams = P.peerStreams
        /\ Q.goawayRecv = P.goawayRecv /\ Q.goawayLast = P.goawayLast
        /\ Q.sweepGoaway = P.sweepGoaway /\ Q.refused = P.refused \cup {id}
    <3> HIDE DEF FrameType, StreamType
    <3>1. P.refused \cup {id} \in SUBSET Ids
      BY <1>0, <2>4 DEF IsEnd, EndType
    <3>2. IsEnd(Q)
      BY <2>4, <3>1, ZenonT(60) DEF IsEnd, EndType, Open
    <3>3. /\ Begins(P, Q) /\ SameNumbers(P, Q) /\ Q.rd = P.rd
          /\ Q.gotSettings = P.gotSettings /\ Q.peerStreams = P.peerStreams
          /\ Q.goawayRecv = P.goawayRecv /\ Q.goawayLast = P.goawayLast
          /\ Q.sweepGoaway = P.sweepGoaway /\ Q.refused = P.refused \cup {id}
      BY <2>4, ZenonT(60) DEF IsEnd, EndType, Begins, Same, SameNumbers
    <3> QED
      BY <3>2, <3>3
  <2> HIDE DEF Q
  <2>6. GoodEnd(Q)
    <3>1. Known(Q) = Known(P) /\ Open(Q) = Open(P)
      BY <2>5, KnownIs DEF Begins, Open
    <3>2. Q.out = P.out
      BY <2>5 DEF Begins
    <3> QED
      BY <2>4, <2>5, <3>1, <3>2 DEF GoodEnd, OfKnown
  <2>7. /\ GoodEnd(T) /\ Begins(P, T) /\ SameNumbers(P, T) /\ T.rd = P.rd
        /\ T.gotSettings = P.gotSettings /\ T.peerStreams = P.peerStreams
        /\ T.goawayRecv = P.goawayRecv /\ T.goawayLast = P.goawayLast
        /\ T.sweepGoaway = P.sweepGoaway
        /\ \A j \in T.refused : j \in P.refused \/ (j = id /\ f.code = "refused")
    BY <2>4, <2>5, <2>6 DEF Begins, Same, SameNumbers
  <2> HIDE DEF T
  <2>8. Parts(T, R, {})
    <3>1. R \in {T, Debt(T)}
      BY <1>4
    <3> HIDE DEF R
    <3> QED
      BY <2>7, <3>1, GoesItself, DebtParts DEF R
  <2> HIDE DEF R
  <2>9. /\ Goes(S, T) /\ New(S, T) = New(S, P) /\ Open(T) = Open(S) \ {id}
        /\ \A j \in Open(T) : T.streams[j].flags = S.streams[j].flags
        /\ T.out = P.out
    <3>1. /\ Goes(S, P) /\ Open(P) = Open(S) \ {id}
          /\ \A j \in Open(P) : P.streams[j].flags = S.streams[j].flags
      BY <2>3 DEF Parts
    <3>2. New(S, T) = New(S, P) /\ T.out = P.out /\ T.streams = P.streams /\ Open(T) = Open(P)
      BY <2>7 DEF New, Begins, Open
    <3>3. \A i \in New(S, P) : Fits(S, P, P.out[i]) => Fits(S, T, P.out[i])
      BY <2>7 DEF Fits, Begins
    <3>4. Goes(S, T)
      BY <2>7, <3>1, <3>2, <3>3 DEF Goes, Begins, Same
    <3> QED
      BY <3>1, <3>2, <3>4
  <2>10. /\ Goes(S, R) /\ Open(R) = Open(S) \ {id}
         /\ \A i \in New(S, R) : Murmur(R.out[i])
         /\ \A j \in Open(R) : R.streams[j].flags = S.streams[j].flags
    <3>1. /\ Goes(S, R) /\ \A i \in New(S, T) : R.out[i] = T.out[i]
          /\ New(S, R) = New(S, T) \cup New(T, R)
      BY <2>8, <2>9, GoesTrans DEF Parts
    <3>2. \A i \in New(S, T) : Murmur(T.out[i])
      BY <2>3, <2>9 DEF Parts
    <3>3. \A i \in New(T, R) : Murmur(R.out[i])
      BY <2>8 DEF Parts
    <3>4. Open(R) = Open(S) \ {id} /\ \A j \in Open(R) : R.streams[j].flags = S.streams[j].flags
      BY <2>8, <2>9 DEF Parts
    <3> QED
      BY <3>1, <3>2, <3>3, <3>4
  <2>11. Told(S, R, f)
    <3>1. /\ R.goawayRecv = S.goawayRecv /\ R.goawayLast = S.goawayLast
          /\ R.sweepGoaway => S.sweepGoaway
          /\ R.refused = T.refused /\ P.refused = S.refused
      BY <2>3, <2>7, <2>8 DEF Parts, Settled, SameLimit
    <3> QED
      BY <2>7, <3>1 DEF Told, IsRst
  <2>12. Still(S, R)
    <3>1. SameNumbers(S, R) /\ R.gotSettings = S.gotSettings /\ R.peerStreams = S.peerStreams
      BY <2>3, <2>7, <2>8 DEF Parts, Settled, SameLimit, SameNumbers
    <3> QED
      BY <2>10, <3>1 DEF Still, Murmur
  <2>13. Polite(S, R)
    BY <2>10 DEF Polite, Murmur
  <2>14. Marks(R, f)
    <3>1. R.rd = NoData
      BY <2>3, <2>7, <2>8 DEF Parts, Settled
    <3>2. Known(R) = Known(S)
      BY <2>10, KnownIs DEF Goes
    <3> QED
      BY <2>0, <2>10, <3>1, <3>2 DEF Marks, NoData, Ended, IsRst
  <2>15. ASSUME NEW j \in Ids
         PROVE  \E heard, lost \in BOOLEAN :
                  Fares(S, R, j, heard, lost) /\ (heard => Ended(f, j)) /\ (lost => IsRst(f, j))
    <3>1. \A i \in New(S, R) : ~IsRst(R.out[i], j) /\ ~Ended(R.out[i], j)
      BY <2>10 DEF Murmur, IsRst, Ended
    <3>2. CASE j = id
      <4>1. Fares(S, R, j, FALSE, TRUE)
        BY <2>10, <3>2, OverFares
      <4>2. IsRst(f, j) /\ TRUE \in BOOLEAN /\ FALSE \in BOOLEAN
        BY <3>2 DEF IsRst
      <4> QED
        BY <4>1, <4>2
    <3>3. CASE j # id
      <4>1. Fares(S, R, j, FALSE, FALSE)
        BY <2>10, <3>1, <3>3 DEF Fares, Has
      <4>2. FALSE \in BOOLEAN
        OBVIOUS
      <4> QED
        BY <4>1, <4>2
    <3> QED
      BY <3>2, <3>3
  <2> QED
    BY <2>10, <2>11, <2>12, <2>13, <2>14, <2>15 DEF Reading, R
<1> QED
  BY <1>1, <1>2, <1>3, <1>4

(* Streams that are as they were, and nothing said of them.                *)
LEMMA SameFares ==
    ASSUME NEW S, NEW R, New(S, R) = {}, R.streams = S.streams
    PROVE  \A j : Fares(S, R, j, FALSE, FALSE)
<1>1. Open(R) = Open(S) /\ \A j, flag : Has(R, j, flag) <=> Has(S, j, flag)
  BY DEF Open, Has
<1> HIDE DEF Has
<1> QED
  BY <1>1 DEF Fares

LEMMA OnGoawayReading ==
    ASSUME NEW S, GoodEnd(S), S.rd = NoData, NEW f \in FrameType, f.t = "goaway"
    PROVE  Reading(S, OnGoaway(S, f), f)
<1> DEFINE A == [S EXCEPT !.goawayLast = f.last, !.goawayRecv = TRUE, !.sweepGoaway = TRUE]
           R == OnGoaway(S, f)
<1>1. R = Fail(S, "protocol") \/ R = A
  BY DEF OnGoaway
<1>2. f.last \in Int /\ "protocol" \in Codes
  BY FrameTypes DEF Codes
<1> HIDE DEF R
<1>3. CASE R = Fail(S, "protocol")
  <2>1. Lives(S, R, {}) /\ Settled(S, R)
    BY <1>2, <1>3, FailLives
  <2> QED
    BY <2>1, PlainReading DEF R
<1>4. CASE R = A
  <2> HIDE DEF FrameType, StreamType
  <2>1. IsEnd(A)
    BY <1>2, ZenonT(60) DEF GoodEnd, IsEnd, EndType, Open
  <2>2. /\ Same(S, A) /\ SameNumbers(S, A) /\ A.rd = S.rd /\ A.streams = S.streams /\ A.out = S.out
        /\ A.gotSettings = S.gotSettings /\ A.peerStreams = S.peerStreams /\ A.refused = S.refused
        /\ A.goawaySent = S.goawaySent /\ A.closed = S.closed
        /\ A.goawayRecv /\ A.goawayLast = f.last
    BY ZenonT(60) DEF GoodEnd, IsEnd, EndType, Same, SameNumbers
  <2> HIDE DEF A
  <2>3. Known(A) = Known(S) /\ Open(A) = Open(S) /\ New(S, A) = {} /\ Len(S.out) \in Nat
    BY <2>2, OutIs, KnownIs DEF Open, New
  <2>4. GoodEnd(A)
    BY <2>1, <2>2, <2>3 DEF GoodEnd, OfKnown
  <2>5. Goes(S, A) /\ Polite(S, A) /\ Still(S, A)
    BY <2>2, <2>3, <2>4 DEF Goes, Polite, Still
  <2>6. Told(S, A, f)
    BY <2>2 DEF Told
  <2>7. Marks(A, f)
    BY <2>2 DEF Marks, NoData, Ended, IsRst
  <2>8. \A j : Fares(S, A, j, FALSE, FALSE)
    BY <2>2, <2>3, SameFares
  <2>9. \A j \in Ids : \E heard, lost \in BOOLEAN :
          Fares(S, A, j, heard, lost) /\ (heard => Ended(f, j)) /\ (lost => IsRst(f, j))
    <3>1. FALSE \in BOOLEAN
      OBVIOUS
    <3> QED
      BY <2>8, <3>1
  <2> QED
    BY <1>4, <2>5, <2>6, <2>7, <2>9 DEF Reading, R
<1> QED
  BY <1>1, <1>3, <1>4 DEF R

(* Flags other than the two ends of the stream.                            *)
LEMMA FlagLives ==
    ASSUME NEW S, GoodEnd(S), NEW id, id \in Open(S), NEW flags, flags \in SUBSET StreamFlags,
           "LOCAL_END" \in flags <=> Has(S, id, "LOCAL_END"),
           "REMOTE_END" \in flags <=> Has(S, id, "REMOTE_END"),
           NEW R, R = WithFlags(S, id, flags)
    PROVE  /\ GoodEnd(R) /\ Open(R) = Open(S) /\ Settled(S, R) /\ Goes(S, R) /\ Polite(S, R)
           /\ \A j \in Ids : Fares(S, R, j, FALSE, FALSE)
           /\ Lives(S, R, {}) /\ New(S, R) = {} /\ R.out = S.out /\ id \in Open(R)
           /\ Has(R, id, "REMOTE_END") <=> Has(S, id, "REMOTE_END")
           /\ Has(R, id, "LOCAL_END") <=> Has(S, id, "LOCAL_END")
<1>1. /\ GoodEnd(R) /\ Goes(S, R) /\ Settled(S, R) /\ Open(R) = Open(S) /\ New(S, R) = {}
      /\ R.streams[id].flags = flags
      /\ \A j \in Open(S) \ {id} : R.streams[j].flags = S.streams[j].flags
      /\ R.out = S.out
  BY FlagIs
<1>2. \A j \in Open(S) : /\ Has(R, j, "REMOTE_END") <=> Has(S, j, "REMOTE_END")
                         /\ Has(R, j, "LOCAL_END") <=> Has(S, j, "LOCAL_END")
  <2>1. /\ Has(R, id, "REMOTE_END") <=> Has(S, id, "REMOTE_END")
        /\ Has(R, id, "LOCAL_END") <=> Has(S, id, "LOCAL_END")
    BY <1>1 DEF Has
  <2>2. ASSUME NEW j \in Open(S) \ {id}
        PROVE  /\ Has(R, j, "REMOTE_END") <=> Has(S, j, "REMOTE_END")
               /\ Has(R, j, "LOCAL_END") <=> Has(S, j, "LOCAL_END")
    <3>1. R.streams[j].flags = S.streams[j].flags
      BY <1>1
    <3> QED
      BY <3>1 DEF Has
  <2> HIDE DEF Has
  <2> QED
    BY <2>1, <2>2
<1> HIDE DEF Has
<1>3. \A j \in Ids : Fares(S, R, j, FALSE, FALSE)
  BY <1>1, <1>2 DEF Fares
<1>4. Polite(S, R)
  BY <1>1 DEF Polite
<1> QED
  BY <1>1, <1>2, <1>3, <1>4 DEF Lives

(* The frame of headers that ends its stream.                              *)
LEMMA RemoteEndReading ==
    ASSUME H2Assumption, NEW S, GoodEnd(S), S.rd = NoData, NEW f, f.t = "headers", f.fin,
           NEW T, Goes(S, T), Settled(S, T), Polite(S, T),
           \A j \in Ids : Fares(S, T, j, FALSE, FALSE), f.id \in Open(T)
    PROVE  Reading(S, RemoteEnd(T, f.id), f)
<1>1. PICK id : id = f.id
  OBVIOUS
<1>2. PICK R : R = RemoteEnd(T, id)
  OBVIOUS
<1>3. GoodEnd(T) /\ id \in Open(T) /\ id \in Ids
  BY <1>1, EndFields DEF Goes, GoodEnd
<1>4. /\ Goes(T, R) /\ Settled(T, R) /\ Polite(T, R)
      /\ Fares(T, R, id, TRUE, FALSE)
      /\ \A j \in Ids \ {id} : Fares(T, R, j, FALSE, FALSE)
      /\ id \in Open(R) => Has(R, id, "REMOTE_END")
  BY <1>2, <1>3, RemoteEndFares
<1>5. Goes(S, R) /\ Settled(S, R) /\ Polite(S, R)
  BY <1>4, GoesTrans, SettledTrans, PoliteTrans
<1>6. Ended(f, id) /\ \A j : (Ended(f, j) => j = id) /\ ~IsRst(f, j)
  BY <1>1 DEF Ended, IsRst
<1>7. ASSUME NEW j \in Ids
      PROVE  \E heard, lost \in BOOLEAN :
               Fares(S, R, j, heard, lost) /\ (heard => Ended(f, j)) /\ (lost => IsRst(f, j))
  <2>1. PICK z \in BOOLEAN : z = FALSE
    OBVIOUS
  <2>2. PICK y \in BOOLEAN : y = (j = id)
    OBVIOUS
  <2>3. Fares(S, T, j, z, z) /\ Fares(T, R, j, y, z)
    BY <1>4, <2>1, <2>2
  <2>4. Fares(S, R, j, z \/ y, z \/ z)
    BY <1>4, <2>3, FaresTrans
  <2>5. (z \/ y) = y /\ (z \/ z) = z
    BY <2>1
  <2> QED
    BY <1>6, <2>1, <2>2, <2>4, <2>5
<1>8. Told(S, R, f) /\ Still(S, R)
  BY <1>5 DEF Told, Still, Settled, SameLimit
<1>9. Marks(R, f)
  <2>1. ~R.rd.fin
    BY <1>5 DEF Settled, NoData
  <2>2. id <= Known(R)
    <3>1. Known(R) = Known(T)
      BY <1>4, KnownIs DEF Goes
    <3> QED
      BY <1>3, <3>1, OpenKnown
  <2> QED
    BY <1>4, <1>6, <2>1, <2>2 DEF Marks, Over
<1> QED
  BY <1>1, <1>2, <1>5, <1>7, <1>8, <1>9 DEF Reading

(* A frame of headers whose stream goes, or is gone.                       *)
LEMMA GoneReading ==
    ASSUME NEW S, GoodEnd(S), S.rd = NoData, NEW f, f.t = "headers", NEW R, Lives(S, R, {}),
           Settled(S, R), R.closed \/ (f.id \notin Open(R) /\ f.id <= Known(S))
    PROVE  Reading(S, R, f)
<1>1. ~R.rd.fin
  BY DEF Settled, NoData
<1>2. Known(R) = Known(S)
  BY KnownIs DEF Lives, Goes
<1>3. R.closed \/ Marks(R, f)
  BY <1>1, <1>2 DEF Marks, Ended, IsRst, Over
<1> QED
  BY <1>3, LivesReading DEF Settled

LEMMA ClientBlockReading ==
    ASSUME H2Assumption, NEW S, GoodEnd(S), ~S.server, S.rd = NoData,
           NEW f \in FrameType, f.t = "headers"
    PROVE  Reading(S, ClientBlock(S, f), f)
<1> DEFINE id == f.id
           T == Flag(S, id, {"HEAD_RECV"})
           R == ClientBlock(S, f)
           open == id \in Open(S)
           far == Has(S, id, "REMOTE_END")
           head == Has(S, id, "HEAD_RECV")
           r1 == IF id < S.nextId THEN ClosedFrame(S, id) ELSE Fail(S, "protocol")
           r2 == StreamFault(S, id, "closed", FALSE)
           r3 == IF f.fin THEN RemoteEnd(T, id) ELSE T
           r4 == IF f.fin THEN RemoteEnd(S, id) ELSE StreamFault(S, id, "protocol", TRUE)
<1>0. id \in Ids /\ {"closed", "protocol"} \subseteq Codes \ {"refused"} /\ id \in Nat
      /\ f.fin \in BOOLEAN
  BY FrameTypes DEF Codes, Ids, H2Assumption
<1>1. R = CASE ~open -> r1 [] open /\ far -> r2 [] open /\ ~far /\ ~head -> r3 [] OTHER -> r4
  BY DEF ClientBlock
<1>2. open => id <= Known(S)
  BY OpenKnown
<1>3. r1 = IF id <= Known(S) THEN ClosedFrame(S, id) ELSE Fail(S, "protocol")
  <2>1. id < S.nextId <=> id <= Known(S)
    BY SMTT(20), <1>0, EndFields DEF Known, GoodEnd
  <2> QED
    BY <2>1
<1> HIDE DEF r1
<1>4. CASE R = r1 /\ ~open
  <2>1. CASE id <= Known(S)
    <3>1. R = ClosedFrame(S, id)
      BY <1>3, <1>4, <2>1
    <3> HIDE DEF R
    <3>2. Lives(S, R, {}) /\ Settled(S, R) /\ Open(R) = Open(S)
      BY <1>0, <1>4, <2>1, <3>1, ClosedFrameLives
    <3> QED
      BY <1>4, <2>1, <3>2, GoneReading DEF R
  <2>2. CASE ~(id <= Known(S))
    <3>1. R = Fail(S, "protocol")
      BY <1>3, <1>4, <2>2
    <3> HIDE DEF R
    <3>2. Lives(S, R, {}) /\ Settled(S, R) /\ R.closed
      BY <1>0, <3>1, FailLives
    <3> QED
      BY <3>2, GoneReading DEF R
  <2> QED
    BY <2>1, <2>2
<1>5. ASSUME open, NEW code \in Codes \ {"refused"}, NEW forgive \in BOOLEAN,
             R = StreamFault(S, id, code, forgive)
      PROVE  Reading(S, R, f)
  <2> HIDE DEF R
  <2>1. Lives(S, R, {}) /\ Settled(S, R) /\ Open(R) = Open(S) \ {id}
    BY <1>0, <1>2, <1>5, StreamFaultLives
  <2> QED
    BY <1>2, <1>5, <2>1, GoneReading DEF R
<1>6. CASE open /\ ~f.fin /\ R = T
  <2>1. PICK flags : flags = S.streams[id].flags \cup {"HEAD_RECV"}
    OBVIOUS
  <2>2. T = WithFlags(S, id, flags)
    BY <2>1 DEF Flag, WithFlags
  <2>3. flags \in SUBSET StreamFlags
    BY <1>6, <2>1, EndFields DEF GoodEnd, StreamFlags
  <2>4. /\ "LOCAL_END" \in flags <=> Has(S, id, "LOCAL_END")
        /\ "REMOTE_END" \in flags <=> Has(S, id, "REMOTE_END")
    BY <2>1 DEF Has
  <2> HIDE DEF T, R
  <2>5. Lives(S, T, {}) /\ Settled(S, T)
    BY <1>6, <2>2, <2>3, <2>4, FlagLives
  <2>6. Marks(T, f)
    BY <1>6, <2>5 DEF Marks, Settled, NoData, Ended, IsRst
  <2> QED
    BY <1>6, <2>5, <2>6, LivesReading DEF Settled, R
<1>7. CASE open /\ f.fin /\ R = RemoteEnd(T, id)
  <2>1. PICK flags : flags = S.streams[id].flags \cup {"HEAD_RECV"}
    OBVIOUS
  <2>2. T = WithFlags(S, id, flags)
    BY <2>1 DEF Flag, WithFlags
  <2>3. flags \in SUBSET StreamFlags
    BY <1>7, <2>1, EndFields DEF GoodEnd, StreamFlags
  <2>4. /\ "LOCAL_END" \in flags <=> Has(S, id, "LOCAL_END")
        /\ "REMOTE_END" \in flags <=> Has(S, id, "REMOTE_END")
    BY <2>1 DEF Has
  <2> HIDE DEF T, R
  <2>5. /\ Settled(S, T) /\ Goes(S, T) /\ Polite(S, T) /\ id \in Open(T)
        /\ \A j \in Ids : Fares(S, T, j, FALSE, FALSE)
    BY <1>7, <2>2, <2>3, <2>4, FlagLives
  <2>6. Reading(S, RemoteEnd(T, f.id), f)
    BY <1>7, <2>5, RemoteEndReading
  <2> QED
    BY <1>7, <2>6 DEF R
<1>8. CASE open /\ f.fin /\ R = RemoteEnd(S, id)
  <2>1. Parts(S, S, {})
    BY GoesItself
  <2>2. Goes(S, S) /\ Settled(S, S) /\ Polite(S, S) /\ \A j \in Ids : Fares(S, S, j, FALSE, FALSE)
    BY <2>1, PartsFares DEF Parts
  <2>3. Reading(S, RemoteEnd(S, f.id), f)
    BY <1>8, <2>2, RemoteEndReading
  <2> QED
    BY <1>8, <2>3
<1> HIDE DEF R
<1>9. \/ R = r1 /\ ~open
      \/ open /\ \E code \in Codes \ {"refused"}, forgive \in BOOLEAN :
                   R = StreamFault(S, id, code, forgive)
      \/ open /\ ~f.fin /\ R = T
      \/ open /\ f.fin /\ R = RemoteEnd(T, id)
      \/ open /\ f.fin /\ R = RemoteEnd(S, id)
  <2> DEFINE fault == \E code \in Codes \ {"refused"}, forgive \in BOOLEAN :
                   R = StreamFault(S, id, code, forgive)
  <2>1. R = r2 => fault
    BY <1>0
  <2>2. R = r3 => (~f.fin /\ R = T) \/ (f.fin /\ R = RemoteEnd(T, id))
    OBVIOUS
  <2>3. R = r4 => fault \/ (f.fin /\ R = RemoteEnd(S, id))
    BY <1>0
  <2> HIDE DEF open, far, head, r1, r2, r3, r4, T, fault
  <2>4. (R = r1 /\ ~open) \/ (open /\ R \in {r2, r3, r4})
    BY <1>1
  <2> QED
    BY <2>1, <2>2, <2>3, <2>4 DEF fault
<1> QED
  BY <1>4, <1>5, <1>6, <1>7, <1>8, <1>9 DEF R

(* At a server: what follows a request on its stream.                      *)
LEMMA TrailerReading ==
    ASSUME H2Assumption, NEW S, GoodEnd(S), S.server, S.rd = NoData,
           NEW f \in FrameType, f.t = "headers", f.id <= S.lastPeerId
    PROVE  Reading(S, ServerBlock(S, f), f)
<1> DEFINE id == f.id
           open == id \in Open(S)
           R == ServerBlock(S, f)
<1>0. id \in Ids /\ {"closed", "protocol"} \subseteq Codes \ {"refused"} /\ id \in Nat
      /\ S.lastPeerId \in Nat /\ id <= Known(S)
  BY SMTT(20), FrameTypes, EndFields DEF Codes, Ids, H2Assumption, GoodEnd, Known
<1>1. \/ ~open /\ R = ClosedFrame(S, id)
      \/ open /\ \E code \in Codes \ {"refused"}, forgive \in BOOLEAN :
                   R = StreamFault(S, id, code, forgive)
      \/ open /\ f.fin /\ R = RemoteEnd(S, id)
  <2> DEFINE T == [S EXCEPT !.lastPeerId = id]
             past == id <= S.lastPeerId
             new == id > S.lastPeerId
             full == Cardinality(Open(S)) >= StreamLimit(S)
             bye == S.goawaySent
             Q == Answer(T, Rst(id, "refused"))
             r1 == IF Has(S, id, "REMOTE_END") THEN StreamFault(S, id, "closed", FALSE)
                   ELSE IF ~f.fin THEN StreamFault(S, id, "protocol", TRUE)
                   ELSE RemoteEnd(S, id)
             r2 == ClosedFrame(S, id)
             r3 == IF f.fin THEN Q ELSE RingAdd(Q, id, "ours")
             r4 == [StreamFault(T, id, "refused", ~f.fin) EXCEPT !.overLimit = @ \cup {id}]
             s == NewStream(T, f.tunnel)
             r5 == [T EXCEPT
                     !.streams = [i \in Open(T) \cup {f.id} |-> IF i = f.id
                        THEN [s EXCEPT !.flags = @ \cup (IF f.fin THEN {"REMOTE_END"} ELSE {})]
                        ELSE T.streams[i]],
                     !.lastActed = f.id, !.acted = @ \cup {f.id}]
             fault == \E code \in Codes \ {"refused"}, forgive \in BOOLEAN :
                        R = StreamFault(S, id, code, forgive)
  <2>1. R = CASE open -> r1 [] ~open /\ past -> r2 [] new /\ bye -> r3
              [] new /\ ~bye /\ full -> r4 [] OTHER -> r5
    BY DEF ServerBlock
  <2>2. past /\ ~new
    BY <1>0
  <2>3. R = r1 => fault \/ (f.fin /\ R = RemoteEnd(S, id))
    BY <1>0
  <2> HIDE DEF open, past, new, full, bye, r1, r2, r3, r4, r5, R, fault
  <2>4. (open /\ R = r1) \/ (~open /\ R = r2)
    BY <2>1, <2>2
  <2> QED
    BY <2>3, <2>4 DEF fault, r2
<1>2. CASE ~open /\ R = ClosedFrame(S, id)
  <2> HIDE DEF R
  <2>1. Lives(S, R, {}) /\ Settled(S, R) /\ Open(R) = Open(S)
    BY <1>0, <1>2, ClosedFrameLives
  <2> QED
    BY <1>0, <1>2, <2>1, GoneReading DEF R
<1>3. ASSUME open, NEW code \in Codes \ {"refused"}, NEW forgive \in BOOLEAN,
             R = StreamFault(S, id, code, forgive)
      PROVE  Reading(S, R, f)
  <2> HIDE DEF R
  <2>1. Lives(S, R, {}) /\ Settled(S, R) /\ Open(R) = Open(S) \ {id}
    BY <1>0, <1>3, StreamFaultLives
  <2> QED
    BY <1>0, <2>1, GoneReading DEF R
<1>4. CASE open /\ f.fin /\ R = RemoteEnd(S, id)
  <2>1. Parts(S, S, {})
    BY GoesItself
  <2>2. Goes(S, S) /\ Settled(S, S) /\ Polite(S, S) /\ \A j \in Ids : Fares(S, S, j, FALSE, FALSE)
    BY <2>1, PartsFares DEF Parts
  <2>3. Reading(S, RemoteEnd(S, f.id), f)
    BY <1>4, <2>2, RemoteEndReading
  <2> QED
    BY <1>4, <2>3
<1> HIDE DEF R
<1> QED
  BY <1>1, <1>2, <1>3, <1>4 DEF R

---------------------------------------------------------------------------
(* Settings, and their acknowledgement.                                    *)

(* What only a frame from the peer tells.                                  *)
Deaf(S, R) ==
    /\ R.rd = S.rd /\ R.refused = S.refused
    /\ R.goawayRecv = S.goawayRecv /\ R.goawayLast = S.goawayLast
    /\ R.sweepGoaway => S.sweepGoaway
    /\ R.gotSettings = S.gotSettings /\ R.peerStreams = S.peerStreams

(* The same output, the same streams with the same flags.                  *)
LEMMA StillLives ==
    ASSUME NEW S, GoodEnd(S), NEW R, GoodEnd(R), Same(S, R), R.out = S.out,
           S.closed => R.closed, S.goawaySent => R.goawaySent, S.goawayRecv => R.goawayRecv,
           Open(R) = Open(S), \A j \in Open(S) : R.streams[j].flags = S.streams[j].flags
    PROVE  Lives(S, R, {}) /\ New(S, R) = {} /\ \A j : Fares(S, R, j, FALSE, FALSE)
<1>1. Len(S.out) \in Nat
  BY OutIs
<1>2. New(S, R) = {}
  BY <1>1 DEF New
<1>3. \A j : Fares(S, R, j, FALSE, FALSE)
  BY <1>2 DEF Fares, Has
<1>4. Goes(S, R) /\ Polite(S, R)
  BY <1>1, <1>2 DEF Goes, Polite
<1> QED
  BY <1>2, <1>3, <1>4 DEF Lives

LEMMA SpokenReading ==
    ASSUME NEW S, NEW R, NEW f, f.t \in {"settings", "ack"}, Lives(S, R, {}), R.rd = NoData,
           R.refused = S.refused, R.goawayRecv = S.goawayRecv, R.goawayLast = S.goawayLast,
           R.sweepGoaway => S.sweepGoaway
    PROVE  Reading(S, R, f)
<1>1. R.rd.fin = FALSE
  BY DEF NoData
<1>2. Marks(R, f) /\ Told(S, R, f)
  BY <1>1 DEF Marks, Ended, IsRst, Told
<1>3. ASSUME ~R.closed, NEW j \in Ids
      PROVE  \E heard, lost \in BOOLEAN :
               Fares(S, R, j, heard, lost) /\ (heard => Ended(f, j)) /\ (lost => IsRst(f, j))
  <2>1. Fares(S, R, j, FALSE, FALSE)
    BY <1>3 DEF Lives
  <2>2. FALSE \in BOOLEAN
    OBVIOUS
  <2> QED
    BY <2>1, <2>2
<1> QED
  BY <1>2, <1>3 DEF Reading, Lives

LEMMA AnswerOut ==
    ASSUME NEW S, GoodEnd(S), NEW f, Due(S, f), Fits(S, S, f), f.t # "goaway"
    PROVE  LET R == Answer(S, f) IN
           /\ Tells(S, R, f) /\ (R.closed \/ R.out = Append(S.out, f))
           /\ \A i \in New(S, R) : i = Len(S.out) + 1 \/ Murmur(R.out[i])
<1>1. PICK R : R = Answer(S, f)
  OBVIOUS
<1>2. Tells(S, R, f) /\ (R.closed \/ R.out = Append(S.out, f))
  BY <1>1, AnswerTells, AnswerIs DEF Says
<1>3. CASE S.closed
  <2>1. R = S
    BY <1>1, <1>3 DEF Answer
  <2>2. New(S, R) = {}
    BY <2>1, OutIs DEF New
  <2> QED
    BY <1>1, <1>2, <2>2
<1>4. CASE ~S.closed
  <2>1. PICK P : P = Put(S, f)
    OBVIOUS
  <2>2. GoodEnd(P) /\ P.out = Append(S.out, f) /\ R = Ctl(P)
    BY <1>1, <1>4, <2>1, PutGood, PutIs DEF Answer, Due, GoodEnd
  <2>3. Parts(P, R, {})
    BY <2>2, CtlParts
  <2>4. S.out \in Seq(FrameType) /\ Len(S.out) \in Nat /\ Len(P.out) = Len(S.out) + 1
        /\ Len(R.out) \in Nat
    BY <1>2, <2>2, OutIs DEF Tells, Goes
  <2>5. \A i \in New(S, R) : i = Len(S.out) + 1 \/ i \in New(P, R)
    BY <2>4 DEF New
  <2> QED
    BY <1>1, <1>2, <2>3, <2>5 DEF Parts
<1> QED
  BY <1>3, <1>4

(* The peer's settings are noted, the streams move, and it is answered.    *)
LEMMA GreetReading ==
    ASSUME NEW S, GoodEnd(S), S.rd = NoData, NEW f, f.t = "settings",
           NEW G, GoodEnd(G), Same(S, G), SameNumbers(S, G), G.rd = S.rd, G.refused = S.refused,
           G.goawayRecv = S.goawayRecv, G.goawayLast = S.goawayLast,
           G.sweepGoaway = S.sweepGoaway, G.goawaySent = S.goawaySent,
           G.out = S.out, G.closed = S.closed, Open(G) = Open(S),
           \A j \in Open(S) : G.streams[j].flags = S.streams[j].flags
    PROVE  /\ LET R == Answer(G, Ack) IN
              /\ Reading(S, R, f) /\ SameNumbers(S, R)
              /\ R.gotSettings = G.gotSettings /\ R.peerStreams = G.peerStreams
              /\ R.closed \/ R.out = Append(S.out, Ack)
              /\ \A i \in New(S, R) : i = Len(S.out) + 1 \/ Murmur(R.out[i])
              /\ \A i \in New(S, R) : R.out[i].t # "settings"
           /\ LET R == Fail(G, "flow") IN
              /\ Reading(S, R, f) /\ SameNumbers(S, R) /\ R.closed
              /\ \A i \in New(S, R) : Murmur(R.out[i])
<1>1. Lives(S, G, {}) /\ New(S, G) = {}
  BY StillLives
<1>2. \A W : New(S, W) = New(G, W)
  BY DEF New
<1>3. ASSUME NEW W, Lives(G, W, {}), SameLimit(G, W), W.rd = G.rd
      PROVE  Reading(S, W, f) /\ SameNumbers(S, W)
  <2>1. Lives(S, W, {})
    BY <1>1, <1>3, LivesTrans
  <2>2. /\ W.rd = NoData /\ W.refused = S.refused /\ W.goawayRecv = S.goawayRecv
        /\ W.goawayLast = S.goawayLast /\ (W.sweepGoaway => S.sweepGoaway) /\ SameNumbers(S, W)
    BY <1>3 DEF SameLimit, SameNumbers
  <2> QED
    BY <2>1, <2>2, SpokenReading
<1>4. PICK A : A = Answer(G, Ack)
  OBVIOUS
<1>5. PICK k : k = Ack
  OBVIOUS
<1>6. Due(G, k) /\ Fits(G, G, k) /\ k.t = "ack"
  BY <1>5 DEF Ack, Due, Fits, FrameType
<1>7. /\ Tells(G, A, k) /\ (A.closed \/ A.out = Append(G.out, k))
      /\ \A i \in New(G, A) : i = Len(G.out) + 1 \/ Murmur(A.out[i])
  BY <1>4, <1>5, <1>6, AnswerOut
<1>8. Lives(G, A, {})
  <2>1. \A j : Fares(G, A, j, FALSE, FALSE)
    BY <1>6, <1>7, TellsFares DEF IsRst, Ended
  <2>2. Polite(G, A)
    BY <1>6, <1>7 DEF Tells, Polite, Murmur
  <2> QED
    BY <1>7, <2>1, <2>2 DEF Lives, Tells
<1>9. Reading(S, A, f) /\ SameNumbers(S, A) /\ A.gotSettings = G.gotSettings
      /\ A.peerStreams = G.peerStreams
  BY <1>3, <1>7, <1>8 DEF Tells, SameLimit
<1>10. \A i \in New(S, A) : A.out[i].t # "settings"
  BY <1>2, <1>6, <1>7 DEF Tells, Murmur
<1>11. PICK F : F = Fail(G, "flow")
  OBVIOUS
<1>12. "flow" \in Codes
  BY DEF Codes
<1>13. Parts(G, F, {}) /\ F.closed
  BY <1>11, <1>12, FailParts
<1>14. Reading(S, F, f) /\ SameNumbers(S, F)
  BY <1>3, <1>13, PartsLives DEF Settled
<1>15. \A i \in New(S, F) : Murmur(F.out[i])
  BY <1>2, <1>13 DEF Parts
<1> QED
  BY <1>2, <1>4, <1>5, <1>7, <1>9, <1>10, <1>11, <1>13, <1>14, <1>15

LEMMA OnSettingsReading ==
    ASSUME H2Assumption, NEW S, GoodEnd(S), S.rd = NoData, NEW f \in FrameType, f.t = "settings"
    PROVE  LET R == OnSettings(S, f) IN
           /\ Reading(S, R, f) /\ SameNumbers(S, R)
           /\ R.closed \/ /\ R.gotSettings /\ R.out = Append(S.out, Ack)
                          /\ R.peerStreams = IF f.streams = -1 THEN S.peerStreams ELSE f.streams
           /\ \A i \in New(S, R) : i = Len(S.out) + 1 \/ Murmur(R.out[i])
           /\ \A i \in New(S, R) : R.out[i].t # "settings"
<1> DEFINE streams == IF f.streams = -1 THEN S.peerStreams ELSE f.streams
           G == [S EXCEPT !.gotSettings = TRUE, !.peerStreams = streams]
           delta == f.window - S.peerWindow
           tooMuch == \E id \in Open(S) : S.streams[id].send + delta > MaxWindow
           ss == [id \in Open(S) |-> [S.streams[id] EXCEPT !.send = @ + delta]]
           sweep == S.sweepWritable \/ delta > 0
           M == [G EXCEPT !.streams = ss, !.peerWindow = f.window, !.sweepWritable = sweep]
           T == [S EXCEPT !.streams = ss]
           M2 == [T EXCEPT !.gotSettings = TRUE, !.peerStreams = streams,
                           !.peerWindow = f.window, !.sweepWritable = sweep]
           R == OnSettings(S, f)
<1>0. IsEnd(S) /\ f.streams \in Int /\ f.window \in Int
  BY FrameTypes DEF GoodEnd
<1>1. /\ Open(S) \in SUBSET Ids /\ S.peerWindow \in Int /\ S.peerStreams \in Int
      /\ \A id \in Open(S) : S.streams[id] \in StreamType /\ S.streams[id].send \in Int
  BY <1>0, EndFields
<1>2. streams \in Int /\ delta \in Int /\ sweep \in BOOLEAN
  <2>1. S.sweepWritable \in BOOLEAN
    <3> HIDE DEF FrameType, StreamType
    <3> QED
      BY <1>0 DEF IsEnd, EndType
  <2> QED
    BY <1>0, <1>1, <2>1
<1>3. R \in {Answer(G, Ack), Fail(G, "flow"), Answer(M, Ack)}
  <2> DEFINE none == f.window = -1
             much == f.window # -1 /\ tooMuch
  <2>1. R = CASE none -> Answer(G, Ack)
              [] much -> Fail(G, "flow")
              [] OTHER -> Answer(M, Ack)
    <3>1. [S EXCEPT !.gotSettings = TRUE, !.peerStreams = IF f.streams = -1 THEN @ ELSE f.streams] = G
      <4> HIDE DEF FrameType, StreamType
      <4> QED
        BY <1>0 DEF IsEnd, EndType
    <3>2. [G EXCEPT !.streams = ss, !.peerWindow = f.window, !.sweepWritable = @ \/ delta > 0] = M
      <4> HIDE DEF FrameType, StreamType, ss, delta, streams
      <4> QED
        BY <1>0 DEF IsEnd, EndType
    <3> QED
      BY <3>1, <3>2 DEF OnSettings
  <2>2. ~(none /\ much)
    OBVIOUS
  <2> HIDE DEF none, much, R, G, M
  <2> QED
    BY <2>1, <2>2
<1>4. IsEnd(G) /\ Alike(S, G)
  <2> HIDE DEF FrameType, StreamType, streams
  <2> QED
    BY <1>0, <1>2, ZenonT(60) DEF IsEnd, EndType, Open, Alike
<1>5. /\ Same(S, G) /\ SameNumbers(S, G) /\ G.rd = S.rd /\ G.refused = S.refused
      /\ G.goawayRecv = S.goawayRecv /\ G.goawayLast = S.goawayLast
      /\ G.sweepGoaway = S.sweepGoaway /\ G.goawaySent = S.goawaySent
      /\ G.out = S.out /\ G.closed = S.closed /\ G.gotSettings /\ G.peerStreams = streams
  <2> HIDE DEF FrameType, StreamType, streams
  <2> QED
    BY <1>0, ZenonT(60) DEF IsEnd, EndType, Same, SameNumbers
<1>6. M = M2
  <2> HIDE DEF streams, ss, sweep
  <2> QED
    OBVIOUS
<1>7. ss \in [Open(S) -> StreamType]
  BY <1>1, <1>2 DEF StreamType
<1>8. \A id \in Open(S) : ss[id].flags = S.streams[id].flags
  BY <1>1 DEF StreamType
<1> HIDE DEF ss, streams, sweep
<1>9. IsEnd(T) /\ Open(T) = Open(S)
  BY <1>0, <1>1, <1>7, OtherStreams
<1>10. /\ Same(S, T) /\ SameLimit(S, T) /\ T.rd = S.rd /\ T.sweepGoaway = S.sweepGoaway
       /\ T.streams = ss /\ T.out = S.out /\ T.closed = S.closed /\ T.goawaySent = S.goawaySent
  BY <1>0, StreamsRest
<1> HIDE DEF T
<1>11. IsEnd(M2) /\ Open(M2) = Open(T)
  <2> HIDE DEF FrameType, StreamType
  <2>1. T \in EndType(Open(T)) /\ Open(T) \subseteq Ids
    BY <1>9 DEF IsEnd
  <2>2. M2 \in EndType(Open(T))
    BY <1>0, <1>2, <2>1, ZenonT(60) DEF EndType
  <2>3. M2.streams = T.streams
    BY <2>1 DEF EndType
  <2>4. Open(M2) = Open(T)
    BY <2>3 DEF Open
  <2> QED
    BY <2>1, <2>2, <2>4 DEF IsEnd
<1>12. /\ Same(T, M2) /\ SameNumbers(T, M2) /\ M2.rd = T.rd /\ M2.refused = T.refused
       /\ M2.goawayRecv = T.goawayRecv /\ M2.goawayLast = T.goawayLast
       /\ M2.sweepGoaway = T.sweepGoaway /\ M2.goawaySent = T.goawaySent
       /\ M2.out = T.out /\ M2.closed = T.closed /\ M2.gotSettings /\ M2.peerStreams = streams
       /\ M2.streams = T.streams
  <2> HIDE DEF FrameType, StreamType
  <2>1. T \in EndType(Open(T))
    BY <1>9 DEF IsEnd
  <2> QED
    BY <2>1, ZenonT(60) DEF EndType, Same, SameNumbers
<1> HIDE DEF G, M, M2
<1>13. /\ Same(S, M) /\ SameNumbers(S, M) /\ M.rd = S.rd /\ M.refused = S.refused
       /\ M.goawayRecv = S.goawayRecv /\ M.goawayLast = S.goawayLast
       /\ M.sweepGoaway = S.sweepGoaway /\ M.goawaySent = S.goawaySent
       /\ M.out = S.out /\ M.closed = S.closed /\ M.gotSettings /\ M.peerStreams = streams
       /\ M.streams = ss /\ Open(M) = Open(S) /\ IsEnd(M)
  BY <1>6, <1>9, <1>10, <1>11, <1>12 DEF Same, SameLimit, SameNumbers
<1>14. GoodEnd(M) /\ GoodEnd(G) /\ Open(G) = Open(S) /\ G.streams = S.streams
  <2>1. Known(G) = Known(S) /\ Known(M) = Known(S) /\ Open(G) = Open(S)
    BY <1>4, <1>5, <1>13, KnownIs DEF Alike, Open
  <2> QED
    BY <1>4, <1>5, <1>13, <2>1 DEF GoodEnd, OfKnown, Alike
<1>15. \A i, Q : Murmur(Q.out[i]) => Q.out[i].t # "settings"
  BY DEF Murmur
<1>16. CASE R \in {Answer(G, Ack), Fail(G, "flow")}
  <2> HIDE DEF R
  <2>1. LET Q == Answer(G, Ack) IN
        /\ Reading(S, Q, f) /\ SameNumbers(S, Q)
        /\ Q.gotSettings = G.gotSettings /\ Q.peerStreams = G.peerStreams
        /\ Q.closed \/ Q.out = Append(S.out, Ack)
        /\ \A i \in New(S, Q) : i = Len(S.out) + 1 \/ Murmur(Q.out[i])
        /\ \A i \in New(S, Q) : Q.out[i].t # "settings"
    BY <1>5, <1>14, GreetReading
  <2>2. LET Q == Fail(G, "flow") IN
        /\ Reading(S, Q, f) /\ SameNumbers(S, Q) /\ Q.closed
        /\ \A i \in New(S, Q) : Murmur(Q.out[i])
    BY <1>5, <1>14, GreetReading
  <2> QED
    BY <1>5, <1>15, <1>16, <2>1, <2>2 DEF streams, R
<1>17. CASE R = Answer(M, Ack)
  <2> HIDE DEF R
  <2>1. LET Q == Answer(M, Ack) IN
        /\ Reading(S, Q, f) /\ SameNumbers(S, Q)
        /\ Q.gotSettings = M.gotSettings /\ Q.peerStreams = M.peerStreams
        /\ Q.closed \/ Q.out = Append(S.out, Ack)
        /\ \A i \in New(S, Q) : i = Len(S.out) + 1 \/ Murmur(Q.out[i])
        /\ \A i \in New(S, Q) : Q.out[i].t # "settings"
    BY <1>8, <1>13, <1>14, GreetReading
  <2> QED
    BY <1>13, <1>17, <2>1 DEF streams, R
<1> QED
  BY <1>3, <1>16, <1>17

(* What a change of settings does to the limit: what was wanted is said.   *)
Changes(S, R) ==
    /\ R.ackedStreams = S.ackedStreams /\ R.wantStreams = S.wantStreams
    /\ R.settingsAcked = S.settingsAcked
    /\ \/ /\ R.advStreams = S.advStreams /\ R.chgInflight = S.chgInflight /\ R.out = S.out
          /\ R.wantStreams \in {R.advStreams, -1}
       \/ /\ R.advStreams = S.wantStreams /\ R.chgInflight
          /\ \E f \in FrameType :
               /\ R.out = Append(S.out, f) /\ f.t = "settings"
               /\ f.streams = IF S.wantStreams # S.advStreams THEN S.wantStreams ELSE -1

LEMMA LivesOn ==
    ASSUME NEW S, GoodEnd(S), NEW R, NEW T, Lives(S, R, {}), Deaf(S, R), Lives(R, T, {}), Deaf(R, T)
    PROVE  Lives(S, T, {}) /\ Deaf(S, T)
<1>1. Deaf(S, T)
  BY DEF Deaf
<1> QED
  BY <1>1, LivesTrans

LEMMA SettingsChangeLives ==
    ASSUME NEW S, GoodEnd(S)
    PROVE  LET R == SettingsChange(S) IN Lives(S, R, {}) /\ Deaf(S, R) /\ Changes(S, R)
<1> DEFINE streams == IF S.wantStreams # S.advStreams THEN S.wantStreams ELSE -1
           window == IF S.wantWindow # S.advWindow THEN S.wantWindow ELSE -1
           said == Settings(streams, window)
           P == Put(S, said)
           T == [P EXCEPT !.advStreams = S.wantStreams,
                          !.advWindow = S.wantWindow, !.chgInflight = TRUE]
           R == SettingsChange(S)
<1>0. IsEnd(S)
  BY DEF GoodEnd
<1>1. S.wantStreams \in Int /\ S.wantWindow \in Int
  BY <1>0, EndFields
<1>2. said \in FrameType /\ said.t = "settings" /\ said.streams = streams
  BY <1>1 DEF Settings, FrameType
<1>3. \/ said = Settings(-1, -1) /\ R = S
      \/ R \in {T, LocalWindow(T, T.advWindow)}
  BY DEF SettingsChange
<1>4. said = Settings(-1, -1) => S.wantStreams \in {S.advStreams, -1}
  BY DEF Settings
<1> HIDE DEF said, streams
<1>5. GoodEnd(P) /\ Rest(S, P) /\ P.out = Append(S.out, said) /\ P.closed = S.closed
      /\ P.goawaySent = S.goawaySent
  <2>1. Due(S, said)
    BY <1>2 DEF Due
  <2> QED
    BY <1>0, <1>2, <2>1, PutRest, PutGood
<1>6. Goes(S, P) /\ Lives(S, P, {}) /\ Deaf(S, P)
  <2>1. Fits(S, P, said)
    BY <1>2 DEF Fits
  <2>2. /\ Goes(S, P) /\ Open(P) = Open(S) /\ P.streams = S.streams
        /\ New(S, P) = {Len(S.out) + 1} /\ P.out[Len(S.out) + 1] = said
    BY <1>2, <1>5, <2>1, RestMore
  <2>3. \A j : Fares(S, P, j, FALSE, FALSE)
    BY <1>2, <2>2 DEF Fares, Has, IsRst, Ended
  <2>4. Polite(S, P)
    BY <1>2, <2>2 DEF Polite
  <2>5. Deaf(S, P)
    BY <1>5 DEF Rest, SameLimit, Deaf
  <2> QED
    BY <2>2, <2>3, <2>4, <2>5 DEF Lives
<1>7. IsEnd(P) /\ SameNumbers(S, P)
  BY <1>5 DEF GoodEnd, Rest, SameLimit
<1> HIDE DEF P
<1>8. IsEnd(T) /\ Alike(P, T) /\ T.out = P.out /\ T.closed = P.closed
  <2> HIDE DEF FrameType, StreamType
  <2> QED
    BY <1>1, <1>7, ZenonT(60) DEF IsEnd, EndType, Open, Alike
<1>9. /\ Same(P, T) /\ Deaf(P, T) /\ T.goawaySent = P.goawaySent
      /\ T.advStreams = S.wantStreams /\ T.chgInflight
      /\ T.ackedStreams = P.ackedStreams /\ T.wantStreams = P.wantStreams
      /\ T.settingsAcked = P.settingsAcked
  <2> HIDE DEF FrameType, StreamType
  <2> QED
    BY <1>7, ZenonT(60) DEF IsEnd, EndType, Same, Deaf
<1> HIDE DEF T
<1>10. GoodEnd(T)
  BY <1>5, <1>8, AlikeKeeps DEF Keeps
<1>11. Lives(P, T, {})
  <2>1. Open(T) = Open(P) /\ T.streams = P.streams
    BY <1>8 DEF Alike, Open
  <2> QED
    BY <1>5, <1>8, <1>9, <1>10, <2>1, StillLives DEF Deaf
<1>12. Lives(S, T, {}) /\ Deaf(S, T)
  BY <1>5, <1>6, <1>9, <1>11, LivesOn
<1>13. Changes(S, T)
  BY <1>2, <1>5, <1>7, <1>8, <1>9 DEF Changes, SameNumbers, streams
<1>14. Parts(T, LocalWindow(T, T.advWindow), {})
       /\ LocalWindow(T, T.advWindow).out = T.out
  <2>1. T.advWindow \in Int
    BY <1>8, EndFields
  <2>2. LocalWindow(T, T.advWindow).out = T.out
    <3> HIDE DEF FrameType, StreamType
    <3> QED
      BY <1>8 DEF LocalWindow, IsEnd, EndType
  <2> QED
    BY <1>10, <2>1, <2>2, LocalWindowParts
<1>15. PICK W : W = LocalWindow(T, T.advWindow)
  OBVIOUS
<1>16. Lives(T, W, {}) /\ Deaf(T, W) /\ SameNumbers(T, W) /\ W.out = T.out
  BY <1>14, <1>15, PartsLives DEF Settled, SameLimit, Deaf
<1>17. Lives(S, W, {}) /\ Deaf(S, W) /\ Changes(S, W)
  <2>1. Lives(S, W, {}) /\ Deaf(S, W)
    BY <1>10, <1>12, <1>16, LivesOn
  <2>2. Changes(S, W)
    BY <1>2, <1>5, <1>7, <1>8, <1>9, <1>16 DEF Changes, SameNumbers, streams
  <2> QED
    BY <2>1, <2>2
<1>18. Lives(S, S, {}) /\ Deaf(S, S) /\ (S.wantStreams \in {S.advStreams, -1} => Changes(S, S))
  BY GoesItself, PartsLives DEF Deaf, Changes
<1> HIDE DEF R
<1>19. Lives(S, R, {}) /\ Deaf(S, R) /\ Changes(S, R)
  BY <1>3, <1>4, <1>12, <1>13, <1>15, <1>17, <1>18
<1> QED
  BY <1>19 DEF R

LEMMA OnAckReading ==
    ASSUME H2Assumption, NEW S, GoodEnd(S), S.rd = NoData, NEW f, f.t = "ack"
    PROVE  LET R == OnAck(S) IN
           /\ Reading(S, R, f) /\ Deaf(S, R)
           /\ \A i \in New(S, R) : R.out[i].t # "ack"
           /\ \/ /\ ~S.settingsAcked /\ R.settingsAcked /\ R.chgInflight = S.chgInflight
                 /\ R.advStreams = S.advStreams /\ R.ackedStreams = S.ackedStreams
                 /\ R.wantStreams = S.wantStreams /\ R.out = S.out
              \/ S.settingsAcked /\ ~S.chgInflight /\ R = S
              \/ /\ S.settingsAcked /\ S.chgInflight
                 /\ \E L : /\ ~L.chgInflight /\ L.settingsAcked /\ L.out = S.out
                           /\ L.advStreams = S.advStreams /\ L.ackedStreams = S.advStreams
                           /\ L.wantStreams = S.wantStreams /\ Changes(L, R)
<1> DEFINE A == [S EXCEPT !.settingsAcked = TRUE]
           B == [S EXCEPT !.chgInflight = FALSE, !.ackedStreams = S.advStreams]
           K == LocalWindow(A, CfgWindow(S))
           L == LocalWindow(B, S.advWindow)
           R == OnAck(S)
<1>0. IsEnd(S) /\ S.advStreams \in Int /\ S.advWindow \in Int /\ CfgWindow(S) \in Int
  BY EndFields DEF GoodEnd, CfgWindow, H2Assumption
<1>1. \/ ~S.settingsAcked /\ R = K
      \/ S.settingsAcked /\ ~S.chgInflight /\ R = S
      \/ S.settingsAcked /\ S.chgInflight /\ R = SettingsChange(L)
  <2> DEFINE first == ~S.settingsAcked
             none == S.settingsAcked /\ ~S.chgInflight
  <2>1. ~(first /\ none)
    OBVIOUS
  <2>2. R = CASE first -> K
              [] none -> S
              [] OTHER -> SettingsChange(L)
    BY DEF OnAck
  <2>3. ~first /\ ~none => S.settingsAcked /\ S.chgInflight
    OBVIOUS
  <2> HIDE DEF A, B, L, K, R
  <2> QED
    BY <2>1, <2>2, <2>3
<1>2. IsEnd(A) /\ Alike(S, A) /\ A.out = S.out /\ A.closed = S.closed
  <2> HIDE DEF FrameType, StreamType
  <2> QED
    BY <1>0, ZenonT(60) DEF IsEnd, EndType, Open, Alike
<1>3. IsEnd(B) /\ Alike(S, B) /\ B.out = S.out /\ B.closed = S.closed
  <2> HIDE DEF FrameType, StreamType
  <2> QED
    BY <1>0, ZenonT(60) DEF IsEnd, EndType, Open, Alike
<1>4. /\ Same(S, A) /\ Deaf(S, A) /\ A.goawaySent = S.goawaySent
      /\ A.settingsAcked /\ A.chgInflight = S.chgInflight /\ A.advStreams = S.advStreams
      /\ A.ackedStreams = S.ackedStreams /\ A.wantStreams = S.wantStreams
  <2> HIDE DEF FrameType, StreamType
  <2> QED
    BY <1>0, ZenonT(60) DEF IsEnd, EndType, Same, Deaf
<1>5. /\ Same(S, B) /\ Deaf(S, B) /\ B.goawaySent = S.goawaySent
      /\ B.settingsAcked = S.settingsAcked /\ ~B.chgInflight /\ B.advStreams = S.advStreams
      /\ B.ackedStreams = S.advStreams /\ B.wantStreams = S.wantStreams
  <2> HIDE DEF FrameType, StreamType
  <2> QED
    BY <1>0, ZenonT(60) DEF IsEnd, EndType, Same, Deaf
<1> HIDE DEF A, B
<1>6. GoodEnd(A) /\ GoodEnd(B)
  BY <1>2, <1>3, AlikeKeeps DEF Keeps
<1>7. Lives(S, A, {}) /\ Lives(S, B, {})
  <2>1. Open(A) = Open(S) /\ A.streams = S.streams /\ Open(B) = Open(S) /\ B.streams = S.streams
    BY <1>2, <1>3 DEF Alike, Open
  <2> QED
    BY <1>2, <1>3, <1>4, <1>5, <1>6, <2>1, StillLives DEF Deaf
<1>8. /\ Parts(A, K, {}) /\ K.out = S.out /\ Parts(B, L, {}) /\ L.out = S.out
  <2>1. Parts(A, K, {}) /\ Parts(B, L, {})
    BY <1>0, <1>6, LocalWindowParts
  <2>2. K.out = A.out /\ L.out = B.out
    <3> HIDE DEF FrameType, StreamType
    <3> QED
      BY <1>2, <1>3 DEF LocalWindow, IsEnd, EndType
  <2> QED
    BY <1>2, <1>3, <2>1, <2>2
<1> HIDE DEF K, L
<1>9. /\ Lives(A, K, {}) /\ Deaf(A, K) /\ SameNumbers(A, K)
      /\ Lives(B, L, {}) /\ Deaf(B, L) /\ SameNumbers(B, L) /\ GoodEnd(L)
  BY <1>8, PartsLives DEF Settled, SameLimit, Deaf, Parts, Goes
<1>10. Lives(S, K, {}) /\ Deaf(S, K) /\ Lives(S, L, {}) /\ Deaf(S, L)
  BY <1>4, <1>5, <1>7, <1>9, LivesOn
<1>11. \A W : Lives(S, W, {}) /\ Deaf(S, W) => Reading(S, W, f)
  BY SpokenReading DEF Deaf
<1>12. Len(S.out) \in Nat
  BY OutIs
<1> HIDE DEF R
<1>13. CASE ~S.settingsAcked /\ R = K
  <2>1. New(S, R) = {}
    BY SMTT(20), <1>8, <1>12, <1>13 DEF New
  <2> QED
    BY <1>4, <1>8, <1>9, <1>10, <1>11, <1>13, <2>1 DEF SameNumbers, R
<1>14. CASE S.settingsAcked /\ ~S.chgInflight /\ R = S
  <2>1. New(S, R) = {} /\ Deaf(S, S) /\ Lives(S, S, {})
    BY <1>12, <1>14, GoesItself, PartsLives DEF New, Deaf
  <2> QED
    BY <1>11, <1>14, <2>1 DEF R
<1>15. CASE S.settingsAcked /\ S.chgInflight /\ R = SettingsChange(L)
  <2>1. Lives(L, R, {}) /\ Deaf(L, R) /\ Changes(L, R)
    BY <1>9, <1>15, SettingsChangeLives
  <2>2. Reading(S, R, f) /\ Deaf(S, R)
    BY <1>10, <1>11, <2>1, LivesOn
  <2>3. \A i \in New(S, R) : R.out[i].t # "ack"
    <3>1. CASE R.out = L.out
      BY <1>8, <1>12, <3>1 DEF New
    <3>2. ASSUME NEW g \in FrameType, R.out = Append(L.out, g), g.t = "settings"
          PROVE  \A i \in New(S, R) : R.out[i].t # "ack"
      <4>1. S.out \in Seq(FrameType)
        BY OutIs
      <4>2. Len(R.out) = Len(S.out) + 1 /\ R.out[Len(S.out) + 1] = g
        BY <1>8, <3>2, <4>1
      <4>3. New(S, R) = {Len(S.out) + 1}
        BY <1>12, <4>2 DEF New
      <4> QED
        BY <3>2, <4>2, <4>3
    <3> QED
      BY <2>1, <3>1, <3>2 DEF Changes
  <2>4. /\ ~L.chgInflight /\ L.settingsAcked /\ L.out = S.out
        /\ L.advStreams = S.advStreams /\ L.ackedStreams = S.advStreams
        /\ L.wantStreams = S.wantStreams
    BY <1>5, <1>8, <1>9, <1>15 DEF SameNumbers
  <2> QED
    BY <1>15, <2>1, <2>2, <2>3, <2>4 DEF R
<1> QED
  BY <1>1, <1>13, <1>14, <1>15

(* What the owner's calls do to the limit: while a change is under way it  *)
(* is kept for later.                                                      *)
Sets(S, R, n) ==
    /\ R.ackedStreams = S.ackedStreams /\ R.settingsAcked = S.settingsAcked
    /\ R.wantStreams \in {S.wantStreams, n}
    /\ \/ R.advStreams = S.advStreams /\ R.chgInflight = S.chgInflight /\ R.out = S.out
       \/ /\ ~S.chgInflight /\ R.chgInflight /\ R.advStreams = R.wantStreams
          /\ \E f \in FrameType :
               /\ R.out = Append(S.out, f) /\ f.t = "settings"
               /\ f.streams = IF R.wantStreams # S.advStreams THEN R.wantStreams ELSE -1

LEMMA SetLives ==
    ASSUME NEW S, GoodEnd(S), NEW n \in Int, NEW window \in Int
    PROVE  LET R == Set(S, n, window) IN Lives(S, R, {}) /\ Deaf(S, R) /\ Sets(S, R, n)
<1> DEFINE T == [S EXCEPT !.wantStreams = n, !.wantWindow = window]
           R == Set(S, n, window)
<1>1. \/ R = S
      \/ R = T
      \/ ~S.chgInflight /\ R = SettingsChange(T)
  BY DEF Set
<1>2. IsEnd(T) /\ Alike(S, T) /\ T.out = S.out /\ T.closed = S.closed
  <2> HIDE DEF FrameType, StreamType
  <2> QED
    BY ZenonT(60) DEF GoodEnd, IsEnd, EndType, Open, Alike
<1>3. /\ Same(S, T) /\ Deaf(S, T) /\ T.goawaySent = S.goawaySent
      /\ T.settingsAcked = S.settingsAcked /\ T.chgInflight = S.chgInflight
      /\ T.advStreams = S.advStreams /\ T.ackedStreams = S.ackedStreams /\ T.wantStreams = n
  <2> HIDE DEF FrameType, StreamType
  <2> QED
    BY ZenonT(60) DEF GoodEnd, IsEnd, EndType, Same, Deaf
<1> HIDE DEF T, R
<1>4. GoodEnd(T)
  BY <1>2, AlikeKeeps DEF Keeps
<1>5. Lives(S, T, {})
  <2>1. Open(T) = Open(S) /\ T.streams = S.streams
    BY <1>2 DEF Alike, Open
  <2> QED
    BY <1>2, <1>3, <1>4, <2>1, StillLives DEF Deaf
<1>6. CASE R = S
  BY <1>6, GoesItself, PartsLives DEF Deaf, Sets, R
<1>7. CASE R = T
  BY <1>2, <1>3, <1>5, <1>7 DEF Sets, R
<1>8. CASE ~S.chgInflight /\ R = SettingsChange(T)
  <2>1. Lives(T, R, {}) /\ Deaf(T, R) /\ Changes(T, R)
    BY <1>4, <1>8, SettingsChangeLives
  <2>2. Lives(S, R, {}) /\ Deaf(S, R)
    BY <1>3, <1>5, <2>1, LivesOn
  <2>3. Sets(S, R, n)
    BY <1>2, <1>3, <1>8, <2>1 DEF Changes, Sets
  <2> QED
    BY <2>2, <2>3 DEF R
<1> QED
  BY <1>1, <1>6, <1>7, <1>8

LEMMA CapWindowLives ==
    ASSUME H2Assumption, NEW S, GoodEnd(S), NEW n \in Nat
    PROVE  LET R == CapWindow(S, n) IN
           Lives(S, R, {}) /\ Deaf(S, R) /\ Sets(S, R, S.wantStreams)
<1> DEFINE T == [S EXCEPT !.cap = n]
           initial == IF n # 0 THEN Smaller(n, CfgWindow(S)) ELSE CfgWindow(S)
           R == CapWindow(S, n)
<1>0. CfgWindow(S) \in Int
  BY DEF CfgWindow, H2Assumption
<1>1. R \in {T, Set(T, T.wantStreams, initial)}
  BY DEF CapWindow
<1>2. initial \in Int
  BY <1>0 DEF Smaller
<1>3. IsEnd(T) /\ Alike(S, T) /\ T.out = S.out /\ T.closed = S.closed
  <2> HIDE DEF FrameType, StreamType
  <2> QED
    BY ZenonT(60) DEF GoodEnd, IsEnd, EndType, Open, Alike
<1>4. Same(S, T) /\ Deaf(S, T) /\ T.goawaySent = S.goawaySent /\ SameNumbers(S, T)
  <2> HIDE DEF FrameType, StreamType
  <2> QED
    BY ZenonT(60) DEF GoodEnd, IsEnd, EndType, Same, Deaf, SameNumbers
<1> HIDE DEF T, initial, R
<1>5. GoodEnd(T)
  BY <1>3, AlikeKeeps DEF Keeps
<1>6. Lives(S, T, {})
  <2>1. Open(T) = Open(S) /\ T.streams = S.streams
    BY <1>3 DEF Alike, Open
  <2> QED
    BY <1>3, <1>4, <1>5, <2>1, StillLives DEF Deaf
<1>7. T.wantStreams \in Int
  BY <1>3, EndFields
<1>8. CASE R = T
  BY <1>3, <1>4, <1>6, <1>8 DEF Sets, SameNumbers, R
<1>9. CASE R = Set(T, T.wantStreams, initial)
  <2>1. Lives(T, R, {}) /\ Deaf(T, R) /\ Sets(T, R, T.wantStreams)
    BY <1>2, <1>5, <1>7, <1>9, SetLives
  <2>2. Lives(S, R, {}) /\ Deaf(S, R)
    BY <1>4, <1>6, <2>1, LivesOn
  <2>3. Sets(S, R, S.wantStreams)
    BY <1>3, <1>4, <2>1 DEF Sets, SameNumbers
  <2> QED
    BY <2>2, <2>3 DEF R
<1> QED
  BY <1>1, <1>8, <1>9

LEMMA SweptLives ==
    ASSUME NEW S, GoodEnd(S)
    PROVE  LET R == Swept(S) IN
           /\ GoodEnd(R) /\ Begins(S, R) /\ SameLimit(S, R) /\ R.rd = S.rd /\ ~R.sweepGoaway
           /\ Lives(S, R, {}) /\ Settled(S, R) /\ Still(S, R) /\ Deaf(S, R)
<1> DEFINE R == Swept(S)
<1>1. GoodEnd(R) /\ R.rd = S.rd /\ R.out = S.out /\ R.closed = S.closed /\ R.streams = S.streams
  BY SweptKeeps DEF Alike
<1>2. /\ Same(S, R) /\ SameLimit(S, R) /\ R.goawaySent = S.goawaySent
      /\ R.goawayRecv = S.goawayRecv /\ ~R.sweepGoaway
  <2> HIDE DEF FrameType, StreamType
  <2> QED
    BY ZenonT(60) DEF Swept, GoodEnd, IsEnd, EndType, Same, SameLimit, SameNumbers
<1> HIDE DEF R
<1>3. Open(R) = Open(S)
  BY <1>1 DEF Open
<1>4. Lives(S, R, {}) /\ New(S, R) = {}
  BY <1>1, <1>2, <1>3, StillLives
<1>5. Begins(S, R) /\ Settled(S, R)
  BY <1>1, <1>2, <1>4 DEF Begins, Settled
<1>6. Still(S, R) /\ Deaf(S, R)
  BY <1>1, <1>2, <1>4 DEF Still, Deaf, SameLimit
<1> QED
  BY <1>1, <1>2, <1>4, <1>5, <1>6 DEF R

---------------------------------------------------------------------------
(* Any frame but a new request.                                            *)

LEMMA ReadingOn ==
    ASSUME NEW S, GoodEnd(S), NEW D, GoodEnd(D), Begins(S, D), SameLimit(S, D),
           NEW R, NEW f, Reading(D, R, f)
    PROVE  Reading(S, R, f)
<1>1. /\ Goes(S, R) /\ New(S, R) = New(D, R) /\ Polite(S, R)
      /\ \A j, heard, lost : Fares(D, R, j, heard, lost) => Fares(S, R, j, heard, lost)
  BY BeginsOn DEF Reading
<1>2. Told(S, R, f)
  BY DEF Reading, Told, SameLimit
<1>3. f.t \notin {"settings", "ack"} => Still(S, R)
  BY <1>1 DEF Reading, Still, SameLimit, SameNumbers
<1>4. R.closed \/
      /\ \A j \in Ids : \E heard, lost \in BOOLEAN :
           Fares(S, R, j, heard, lost) /\ (heard => Ended(f, j)) /\ (lost => IsRst(f, j))
      /\ Marks(R, f)
  BY <1>1 DEF Reading
<1> QED
  BY <1>1, <1>2, <1>3, <1>4 DEF Reading

LEMMA FrameIs ==
    ASSUME NEW S, NEW f \in FrameType
    PROVE  /\ f.t = "settings" => OnFrame(S, f) = OnSettings(S, f)
           /\ f.t = "ack" => OnFrame(S, f) = OnAck(S)
           /\ f.t = "headers" => OnFrame(S, f) = IF S.server THEN ServerBlock(S, f) ELSE ClientBlock(S, f)
           /\ f.t = "data" => OnFrame(S, f) = OnData(S, f)
           /\ f.t = "window" => OnFrame(S, f) = OnWindow(S, f)
           /\ f.t = "rst" => OnFrame(S, f) = OnRst(S, f)
           /\ f.t = "goaway" => OnFrame(S, f) = OnGoaway(S, f)
           /\ f.t = "ping" => OnFrame(S, f) = Answer(S, Pong)
           /\ f.t = "pong" => OnFrame(S, f) = S
BY DEF OnFrame

(* A server that has read a request it did not know.                       *)
NewRequest(S, f) == S.server /\ f.t = "headers" /\ f.id > S.lastPeerId

LEMMA OnFrameReading ==
    ASSUME H2Assumption, NEW S, GoodEnd(S), ~S.closed, S.rd = NoData, NEW f \in FrameType,
           ~NewRequest(S, f)
    PROVE  Reading(S, OnFrame(S, f), f)
<1>1. f.t \in {"settings", "ack", "headers", "data", "window", "rst", "goaway", "ping", "pong"}
  BY FrameTypes
<1>2. CASE f.t = "settings"
  BY <1>2, FrameIs, OnSettingsReading
<1>3. CASE f.t = "ack"
  BY <1>3, FrameIs, OnAckReading
<1>4. CASE f.t = "headers" /\ S.server
  <2>1. f.id <= S.lastPeerId
    <3>1. f.id \in Ids /\ S.lastPeerId \in Nat
      BY <1>4, EndFields, FrameTypes DEF GoodEnd
    <3>2. ~(f.id > S.lastPeerId)
      BY <1>4 DEF NewRequest
    <3> QED
      BY <3>1, <3>2 DEF Ids
  <2> QED
    BY <1>4, <2>1, FrameIs, TrailerReading
<1>5. CASE f.t = "headers" /\ ~S.server
  BY <1>5, FrameIs, ClientBlockReading
<1>6. CASE f.t = "data"
  BY <1>6, FrameIs, OnDataReading
<1>7. CASE f.t = "window"
  BY <1>7, FrameIs, OnWindowReading
<1>8. CASE f.t = "rst"
  BY <1>8, FrameIs, OnRstReading
<1>9. CASE f.t = "goaway"
  BY <1>9, FrameIs, OnGoawayReading
<1>10. CASE f.t = "ping"
  <2>1. PICK g : g = Pong
    OBVIOUS
  <2>2. Due(S, g) /\ Fits(S, S, g) /\ g.t = "pong"
    BY <2>1 DEF Pong, Due, Fits, FrameType
  <2>3. Tells(S, Answer(S, g), g)
    BY <2>2, AnswerTells
  <2>4. Parts(S, Answer(S, g), {})
    BY <2>2, <2>3, TellsParts DEF Murmur
  <2>5. Lives(S, Answer(S, g), {}) /\ Settled(S, Answer(S, g))
    BY <2>4, PartsLives
  <2>6. Reading(S, Answer(S, g), f)
    BY <1>10, <2>5, PlainReading
  <2> QED
    BY <1>10, <2>1, <2>6, FrameIs
<1>11. CASE f.t = "pong"
  <2>1. Lives(S, S, {}) /\ Settled(S, S)
    BY GoesItself, PartsLives
  <2>2. Reading(S, S, f)
    BY <1>11, <2>1, PlainReading
  <2> QED
    BY <1>11, <2>2, FrameIs
<1> QED
  BY <1>1, <1>2, <1>3, <1>4, <1>5, <1>6, <1>7, <1>8, <1>9, <1>10, <1>11

(* The call of feed that reads it.                                         *)
LEMMA FrameReading ==
    ASSUME H2Assumption, NEW S, GoodEnd(S), ~S.closed, S.rd = NoData, NEW f \in FrameType,
           ~NewRequest(S, f)
    PROVE  Reading(S, OnFrame(Swept(S), f), f)
<1>1. PICK D : D = Swept(S)
  OBVIOUS
<1>2. GoodEnd(D) /\ Begins(S, D) /\ SameLimit(S, D) /\ D.rd = S.rd
  BY <1>1, SweptLives
<1>3. ~D.closed /\ ~NewRequest(D, f)
  BY <1>2 DEF Begins, Same, NewRequest
<1>4. Reading(D, OnFrame(D, f), f)
  BY <1>2, <1>3, OnFrameReading
<1> QED
  BY <1>1, <1>2, <1>4, ReadingOn

(* What reading settings does to the limit the client keeps to.            *)
LEMMA SettingsReading ==
    ASSUME H2Assumption, NEW S, GoodEnd(S), S.rd = NoData, NEW f \in FrameType, f.t = "settings"
    PROVE  LET R == OnFrame(Swept(S), f) IN
           /\ SameNumbers(S, R)
           /\ R.closed \/ /\ R.gotSettings /\ R.out = Append(S.out, Ack)
                          /\ R.peerStreams = IF f.streams = -1 THEN S.peerStreams ELSE f.streams
           /\ \A i \in New(S, R) : i = Len(S.out) + 1 \/ Murmur(R.out[i])
           /\ \A i \in New(S, R) : R.out[i].t # "settings"
<1>1. PICK D : D = Swept(S)
  OBVIOUS
<1>2. GoodEnd(D) /\ Begins(S, D) /\ SameLimit(S, D) /\ D.rd = S.rd
  BY <1>1, SweptLives
<1>3. PICK R : R = OnFrame(D, f)
  OBVIOUS
<1>4. /\ SameNumbers(D, R)
      /\ R.closed \/ /\ R.gotSettings /\ R.out = Append(D.out, Ack)
                     /\ R.peerStreams = IF f.streams = -1 THEN D.peerStreams ELSE f.streams
      /\ \A i \in New(D, R) : i = Len(D.out) + 1 \/ Murmur(R.out[i])
      /\ \A i \in New(D, R) : R.out[i].t # "settings"
  <2>1. R = OnSettings(D, f)
    BY <1>3, FrameIs
  <2> QED
    BY <1>2, <2>1, OnSettingsReading
<1>5. D.out = S.out /\ New(D, R) = New(S, R) /\ D.peerStreams = S.peerStreams
  BY <1>2 DEF Begins, New, SameLimit
<1>6. SameNumbers(S, R)
  BY <1>2, <1>4 DEF SameNumbers, SameLimit
<1> QED
  BY <1>1, <1>3, <1>4, <1>5, <1>6

(* And what reading an acknowledgement does to the server's.               *)
LEMMA AckReading ==
    ASSUME H2Assumption, NEW S, GoodEnd(S), S.rd = NoData, NEW f \in FrameType, f.t = "ack"
    PROVE  LET R == OnFrame(Swept(S), f) IN
           /\ R.gotSettings = S.gotSettings /\ R.peerStreams = S.peerStreams
           /\ \A i \in New(S, R) : R.out[i].t # "ack"
           /\ \/ /\ ~S.settingsAcked /\ R.settingsAcked /\ R.chgInflight = S.chgInflight
                 /\ R.advStreams = S.advStreams /\ R.ackedStreams = S.ackedStreams
                 /\ R.wantStreams = S.wantStreams /\ R.out = S.out
              \/ S.settingsAcked /\ ~S.chgInflight /\ SameNumbers(S, R) /\ R.out = S.out
              \/ /\ S.settingsAcked /\ S.chgInflight
                 /\ \E L : /\ ~L.chgInflight /\ L.settingsAcked /\ L.out = S.out
                           /\ L.advStreams = S.advStreams /\ L.ackedStreams = S.advStreams
                           /\ L.wantStreams = S.wantStreams /\ Changes(L, R)
<1>1. PICK D : D = Swept(S)
  OBVIOUS
<1>2. GoodEnd(D) /\ Begins(S, D) /\ SameLimit(S, D) /\ D.rd = S.rd
  BY <1>1, SweptLives
<1>3. PICK R : R = OnFrame(D, f)
  OBVIOUS
<1>4. /\ Deaf(D, R)
      /\ \A i \in New(D, R) : R.out[i].t # "ack"
      /\ \/ /\ ~D.settingsAcked /\ R.settingsAcked /\ R.chgInflight = D.chgInflight
            /\ R.advStreams = D.advStreams /\ R.ackedStreams = D.ackedStreams
            /\ R.wantStreams = D.wantStreams /\ R.out = D.out
         \/ D.settingsAcked /\ ~D.chgInflight /\ R = D
         \/ /\ D.settingsAcked /\ D.chgInflight
            /\ \E L : /\ ~L.chgInflight /\ L.settingsAcked /\ L.out = D.out
                      /\ L.advStreams = D.advStreams /\ L.ackedStreams = D.advStreams
                      /\ L.wantStreams = D.wantStreams /\ Changes(L, R)
  BY <1>2, <1>3, FrameIs, OnAckReading
<1>5. D.out = S.out /\ New(D, R) = New(S, R) /\ D.peerStreams = S.peerStreams
      /\ D.gotSettings = S.gotSettings
  BY <1>2 DEF Begins, New, SameLimit
<1>6. SameNumbers(S, D)
  BY <1>2 DEF SameLimit
<1> QED
  BY <1>1, <1>3, <1>4, <1>5, <1>6 DEF Deaf, SameNumbers

---------------------------------------------------------------------------
(* A new request.                                                          *)

(* S has read a request it did not know.                                   *)
Meets(S, R, f) ==
    /\ GoodEnd(R) /\ R.server = S.server /\ R.nextId = S.nextId /\ R.lastPeerId = f.id
    /\ R.blind = S.blind /\ SameLimit(S, R) /\ R.rd = S.rd
    /\ S.goawaySent => R.goawaySent
    /\ S.closed => R.closed
    /\ Len(S.out) <= Len(R.out) /\ \A i \in 1 .. Len(S.out) : R.out[i] = S.out[i]
    /\ \A i \in New(S, R) : Murmur(R.out[i]) \/ R.out[i] = Rst(f.id, "refused")
    /\ \A i \in New(S, R) : R.out[i].t = "goaway" => R.goawaySent /\ R.out[i].last = S.lastActed
    /\ Open(S) \subseteq Open(R)
    /\ \A j \in Open(S) : R.streams[j].flags = S.streams[j].flags

(* It is refused, because of a goodbye or because there are enough.        *)
Refuses(S, R, f) ==
    /\ Open(R) = Open(S) /\ R.acted = S.acted /\ R.lastActed = S.lastActed
    /\ \/ R.overLimit = S.overLimit
       \/ R.overLimit = S.overLimit \cup {f.id} /\ Cardinality(Open(S)) >= StreamLimit(S)

(* It is handed to the application.                                        *)
Accepts(S, R, f) ==
    /\ Open(R) = Open(S) \cup {f.id} /\ R.acted = S.acted \cup {f.id} /\ R.lastActed = f.id
    /\ R.overLimit = S.overLimit /\ ~S.goawaySent /\ R.out = S.out
    /\ ~Has(R, f.id, "LOCAL_END") /\ (f.fin => Has(R, f.id, "REMOTE_END"))

LEMMA RequestIs ==
    ASSUME H2Assumption, NEW S, GoodEnd(S), NEW f \in FrameType, NewRequest(S, f)
    PROVE  LET T == [S EXCEPT !.lastPeerId = f.id] IN
           /\ GoodEnd(T) /\ Open(T) = Open(S) /\ T.streams = S.streams /\ T.closed = S.closed
           /\ T.server /\ T.lastPeerId = f.id /\ T.nextId = S.nextId /\ T.out = S.out
           /\ T.lastActed = S.lastActed /\ T.acted = S.acted /\ T.overLimit = S.overLimit
           /\ T.blind = S.blind /\ SameLimit(S, T) /\ T.rd = S.rd
           /\ T.goawaySent = S.goawaySent /\ T.goawayRecv = S.goawayRecv
           /\ T.server = S.server /\ f.id \notin Open(S) /\ f.id <= Known(T) /\ f.id \in Ids
<1> DEFINE T == [S EXCEPT !.lastPeerId = f.id]
<1>1. S.server /\ f.t = "headers" /\ f.id > S.lastPeerId
  BY DEF NewRequest
<1>2. /\ GoodEnd(T) /\ Open(T) = Open(S) /\ T.streams = S.streams /\ T.closed = S.closed
      /\ T.server /\ T.lastPeerId = f.id /\ T.nextId = S.nextId /\ T.out = S.out
  BY <1>1, LaterRequest
<1>3. /\ T.lastActed = S.lastActed /\ T.acted = S.acted /\ T.overLimit = S.overLimit
      /\ T.blind = S.blind /\ SameLimit(S, T) /\ T.rd = S.rd
      /\ T.goawaySent = S.goawaySent /\ T.goawayRecv = S.goawayRecv /\ T.server = S.server
  <2> HIDE DEF FrameType, StreamType
  <2> QED
    BY ZenonT(60) DEF GoodEnd, IsEnd, EndType, SameLimit, SameNumbers
<1>4. f.id \in Ids /\ f.id \in Nat /\ S.lastPeerId \in Nat
  <2>1. f.id \in Ids /\ S.lastPeerId \in Nat
    BY <1>1, FrameTypes, EndFields DEF GoodEnd
  <2> QED
    BY <2>1 DEF Ids
<1>5. f.id \notin Open(S)
  <2>1. \A j \in Open(S) : j <= S.lastPeerId
    BY <1>1 DEF GoodEnd, OfKnown, Known
  <2> QED
    BY <1>1, <1>4, <2>1
<1> HIDE DEF T
<1>6. f.id <= Known(T)
  BY <1>2, <1>4 DEF Known
<1> QED
  BY <1>2, <1>3, <1>4, <1>5, <1>6 DEF T

SameFlags(S, R) == \A j \in Open(S) : R.streams[j].flags = S.streams[j].flags

LEMMA RefuseMeets ==
    ASSUME H2Assumption, NEW S, GoodEnd(S), NEW f \in FrameType, NewRequest(S, f),
           NEW T, T = [S EXCEPT !.lastPeerId = f.id],
           NEW W, Goes(T, W), Settled(T, W), Open(W) = Open(T),
           SameFlags(T, W),
           \A i \in New(T, W) : Murmur(W.out[i]) \/ W.out[i] = Rst(f.id, "refused")
    PROVE  Meets(S, W, f) /\ Refuses(S, W, f) /\ W.overLimit = S.overLimit
<1>1. /\ GoodEnd(T) /\ Open(T) = Open(S) /\ T.streams = S.streams /\ T.closed = S.closed
      /\ T.server /\ T.lastPeerId = f.id /\ T.nextId = S.nextId /\ T.out = S.out
      /\ T.lastActed = S.lastActed /\ T.acted = S.acted /\ T.overLimit = S.overLimit
      /\ T.blind = S.blind /\ SameLimit(S, T) /\ T.rd = S.rd
      /\ T.goawaySent = S.goawaySent /\ T.goawayRecv = S.goawayRecv /\ T.server = S.server
  BY RequestIs
<1>2. New(S, W) = New(T, W)
  BY <1>1 DEF New
<1>3. SameLimit(S, W) /\ W.rd = S.rd
  BY <1>1 DEF Settled, SameLimit, SameNumbers
<1>4. \A i \in New(S, W) : W.out[i].t = "goaway" => W.goawaySent /\ W.out[i].last = S.lastActed
  BY <1>1, <1>2 DEF Goes, Fits
<1>5. /\ GoodEnd(W) /\ W.server = S.server /\ W.nextId = S.nextId /\ W.lastPeerId = f.id
      /\ W.blind = S.blind /\ W.overLimit = S.overLimit
      /\ W.acted = S.acted /\ W.lastActed = S.lastActed
      /\ (S.goawaySent => W.goawaySent) /\ (S.closed => W.closed)
  BY <1>1 DEF Goes, Same
<1>6. Len(S.out) <= Len(W.out) /\ \A i \in 1 .. Len(S.out) : W.out[i] = S.out[i]
  BY <1>1 DEF Goes
<1>7. /\ Open(W) = Open(S) /\ \A j \in Open(S) : W.streams[j].flags = S.streams[j].flags
      /\ \A i \in New(S, W) : Murmur(W.out[i]) \/ W.out[i] = Rst(f.id, "refused")
  BY <1>1, <1>2 DEF SameFlags
<1>8. Meets(S, W, f)
  BY <1>3, <1>4, <1>5, <1>6, <1>7 DEF Meets
<1> QED
  BY <1>5, <1>7, <1>8 DEF Refuses

Handed(T, ss, id) == [T EXCEPT !.streams = ss, !.lastActed = id, !.acted = @ \cup {id}]

LEMMA HandedIs ==
    ASSUME NEW T, IsEnd(T), NEW ss, NEW id, NEW V, V = Handed(T, ss, id)
    PROVE  /\ V.streams = ss /\ V.lastActed = id /\ V.acted = T.acted \cup {id}
           /\ V.closed = T.closed /\ V.server = T.server /\ V.lastPeerId = T.lastPeerId
           /\ V.nextId = T.nextId /\ V.out = T.out /\ V.overLimit = T.overLimit /\ V.blind = T.blind
           /\ SameLimit(T, V) /\ V.rd = T.rd /\ V.goawaySent = T.goawaySent
<1> HIDE DEF FrameType, StreamType
<1> QED
  BY ZenonT(60) DEF Handed, IsEnd, EndType, SameLimit, SameNumbers

LEMMA AcceptMeets ==
    ASSUME H2Assumption, NEW S, GoodEnd(S), NEW f \in FrameType, NewRequest(S, f), ~S.goawaySent,
           NEW T, T = [S EXCEPT !.lastPeerId = f.id],
           NEW ss, DOMAIN ss = Open(S) \cup {f.id}, "LOCAL_END" \notin ss[f.id].flags,
           f.fin => "REMOTE_END" \in ss[f.id].flags,
           \A j \in Open(S) : ss[j].flags = S.streams[j].flags,
           NEW V, V = Handed(T, ss, f.id), GoodEnd(V)
    PROVE  Meets(S, V, f) /\ Accepts(S, V, f)
<1>1. /\ GoodEnd(T) /\ Open(T) = Open(S) /\ T.streams = S.streams /\ T.closed = S.closed
      /\ T.server /\ T.lastPeerId = f.id /\ T.nextId = S.nextId /\ T.out = S.out
      /\ T.lastActed = S.lastActed /\ T.acted = S.acted /\ T.overLimit = S.overLimit
      /\ T.blind = S.blind /\ SameLimit(S, T) /\ T.rd = S.rd
      /\ T.goawaySent = S.goawaySent /\ T.goawayRecv = S.goawayRecv /\ T.server = S.server
  BY RequestIs
<1>2. /\ V.streams = ss /\ V.lastActed = f.id /\ V.acted = T.acted \cup {f.id}
      /\ V.closed = T.closed /\ V.server = T.server /\ V.lastPeerId = T.lastPeerId
      /\ V.nextId = T.nextId /\ V.out = T.out /\ V.overLimit = T.overLimit /\ V.blind = T.blind
      /\ SameLimit(T, V) /\ V.rd = T.rd /\ V.goawaySent = T.goawaySent
  <2>1. IsEnd(T)
    BY <1>1 DEF GoodEnd
  <2>2. V = Handed(T, ss, f.id)
    OBVIOUS
  <2> QED
    BY ONLY <2>1, <2>2, HandedIs
<1>3. /\ Open(V) = Open(S) \cup {f.id} /\ ~Has(V, f.id, "LOCAL_END")
      /\ f.fin => Has(V, f.id, "REMOTE_END")
      /\ \A j \in Open(S) : V.streams[j].flags = S.streams[j].flags
  BY <1>2 DEF Open, Has
<1>4. New(S, V) = {} /\ Len(S.out) \in Nat
  BY SMTT(20), <1>1, <1>2, OutIs DEF New
<1>5. SameLimit(S, V)
  BY <1>1, <1>2 DEF SameLimit, SameNumbers
<1>6. Len(S.out) <= Len(V.out) /\ \A i \in 1 .. Len(S.out) : V.out[i] = S.out[i]
  <2>1. V.out = S.out
    BY <1>1, <1>2
  <2> QED
    BY ONLY <1>4, <2>1
<1>7. Meets(S, V, f)
  BY <1>1, <1>2, <1>3, <1>4, <1>5, <1>6 DEF Meets
<1>8. Accepts(S, V, f)
  BY <1>1, <1>2, <1>3 DEF Accepts
<1> QED
  BY <1>7, <1>8

LEMMA RequestReading ==
    ASSUME H2Assumption, NEW S, GoodEnd(S), ~S.closed, NEW f \in FrameType, NewRequest(S, f)
    PROVE  LET R == ServerBlock(S, f) IN
           Meets(S, R, f) /\ (Refuses(S, R, f) \/ Accepts(S, R, f))
<1> DEFINE T == [S EXCEPT !.lastPeerId = f.id]
           Q == Answer(T, Rst(f.id, "refused"))
           A == RingAdd(Q, f.id, "ours")
           full == Cardinality(Open(S)) >= StreamLimit(S)
           F == StreamFault(T, f.id, "refused", ~f.fin)
           G == [F EXCEPT !.overLimit = @ \cup {f.id}]
           s == [NewStream(T, f.tunnel) EXCEPT !.flags = @ \cup (IF f.fin THEN {"REMOTE_END"} ELSE {})]
           ss == [i \in Open(T) \cup {f.id} |-> IF i = f.id THEN s ELSE T.streams[i]]
           V == [T EXCEPT !.streams = ss, !.lastActed = f.id, !.acted = @ \cup {f.id}]
           R == ServerBlock(S, f)
<1>1. /\ GoodEnd(T) /\ Open(T) = Open(S) /\ T.out = S.out
      /\ f.id \notin Open(S) /\ f.id <= Known(T) /\ f.id \in Ids
  BY RequestIs
<1>2. S.server /\ f.t = "headers" /\ f.id > S.lastPeerId /\ f.fin \in BOOLEAN
      /\ f.id \in Nat /\ S.lastPeerId \in Nat /\ "refused" \in Codes /\ "ours" \in Endings
  <2>1. f.fin \in BOOLEAN /\ S.lastPeerId \in Nat
    BY FrameTypes, EndFields DEF GoodEnd, NewRequest
  <2> QED
    BY <1>1, <2>1 DEF NewRequest, Ids, Codes, Endings
<1>3. \/ R \in {Q, A}
      \/ R = G /\ full
      \/ R = V /\ ~S.goawaySent
  <2> DEFINE open == f.id \in Open(S)
             past == f.id <= S.lastPeerId
             new == f.id > S.lastPeerId
             bye == S.goawaySent
             r1 == IF Has(S, f.id, "REMOTE_END") THEN StreamFault(S, f.id, "closed", FALSE)
                   ELSE IF ~f.fin THEN StreamFault(S, f.id, "protocol", TRUE)
                   ELSE RemoteEnd(S, f.id)
             r2 == ClosedFrame(S, f.id)
             r3 == IF f.fin THEN Q ELSE A
  <2>1. R = CASE open -> r1 [] ~open /\ past -> r2 [] new /\ bye -> r3
              [] new /\ ~bye /\ full -> G [] OTHER -> V
    BY DEF ServerBlock
  <2>2. ~past /\ new /\ ~open
    BY <1>1, <1>2
  <2>3. r3 \in {Q, A}
    OBVIOUS
  <2> HIDE DEF R, open, past, new, full, r1, r2, r3, Q, A, G, V
  <2>4. \/ R = r3
        \/ R = G /\ full
        \/ R = V /\ ~bye
    BY <2>1, <2>2
  <2> QED
    BY <2>3, <2>4
<1>4. GoodEnd(R)
  BY <1>2, ServerBlockReads DEF Reads
<1>12. /\ T = [S EXCEPT !.lastPeerId = f.id]
       /\ s = [NewStream(T, f.tunnel) EXCEPT !.flags = @ \cup (IF f.fin THEN {"REMOTE_END"} ELSE {})]
       /\ ss = [i \in Open(T) \cup {f.id} |-> IF i = f.id THEN s ELSE T.streams[i]]
       /\ V = Handed(T, ss, f.id)
  BY DEF Handed
<1>13. /\ DOMAIN ss = Open(S) \cup {f.id} /\ "LOCAL_END" \notin ss[f.id].flags
       /\ f.fin => "REMOTE_END" \in ss[f.id].flags
       /\ \A j \in Open(S) : ss[j].flags = S.streams[j].flags
  <2>1. T.streams = S.streams /\ Open(T) = Open(S)
    BY RequestIs
  <2>2. "LOCAL_END" \notin s.flags /\ (f.fin => "REMOTE_END" \in s.flags)
    BY DEF NewStream
  <2> HIDE DEF T, s
  <2> QED
    BY <1>1, <2>1, <2>2
<1> HIDE DEF R, T, s, ss, V
<1>5. PICK g : g = Rst(f.id, "refused")
  OBVIOUS
<1>6. Tells(T, Q, g) /\ g.t = "rst"
  <2>1. Due(T, g) /\ Fits(T, T, g) /\ g.t = "rst"
    BY <1>1, <1>2, <1>5 DEF Due, Fits, Rst, FrameType
  <2> QED
    BY <1>1, <1>5, <2>1, AnswerTells
<1> HIDE DEF Q
<1>7. /\ Goes(T, Q) /\ Settled(T, Q) /\ Open(Q) = Open(T) /\ SameFlags(T, Q)
      /\ Q.streams = T.streams
      /\ \A i \in New(T, Q) : Murmur(Q.out[i]) \/ Q.out[i] = g
  BY <1>6 DEF Tells, Settled, Murmur, Open, SameFlags
<1>8. Meets(S, Q, f) /\ Refuses(S, Q, f)
  BY <1>5, <1>7, <1>12, RefuseMeets
<1>9. Meets(S, A, f) /\ Refuses(S, A, f)
  <2>1. Parts(Q, A, {}) /\ A.streams = Q.streams
    BY <1>1, <1>2, <1>7, RingAddParts DEF Goes
  <2> HIDE DEF A
  <2>2. /\ Goes(T, A) /\ \A i \in New(T, Q) : A.out[i] = Q.out[i]
        /\ New(T, A) = New(T, Q) \cup New(Q, A)
    BY <1>1, <1>7, <2>1, GoesTrans DEF Parts
  <2>3. Settled(T, A)
    BY <1>1, <1>7, <2>1, SettledTrans DEF Parts
  <2>4. \A i \in New(T, A) : Murmur(A.out[i]) \/ A.out[i] = g
    BY <1>7, <2>1, <2>2 DEF Parts
  <2>5. Open(A) = Open(T) /\ SameFlags(T, A)
    BY <1>7, <2>1 DEF Open, SameFlags
  <2> QED
    BY <1>5, <1>12, <2>2, <2>3, <2>4, <2>5, RefuseMeets
<1>10. CASE R = G /\ full
  <2>1. PICK b \in BOOLEAN : b = ~f.fin
    BY <1>2
  <2>2. PICK E : E = StreamFault(T, f.id, "refused", b)
    OBVIOUS
  <2>3. F = E
    BY <2>1, <2>2
  <2>4. /\ Goes(T, E) /\ Settled(T, E) /\ Open(E) = Open(T) \ {f.id}
        /\ \A j \in Open(E) : E.streams[j].flags = T.streams[j].flags
        /\ \A i \in New(T, E) : Murmur(E.out[i]) \/ E.out[i] = Rst(f.id, "refused")
    BY <1>1, <1>2, <2>2, StreamFaultFares
  <2>5. Open(E) = Open(T)
    BY <1>1, <2>4
  <2>6. Meets(S, E, f) /\ Refuses(S, E, f) /\ E.overLimit = S.overLimit
    <3>1. SameFlags(T, E)
      BY <2>4, <2>5 DEF SameFlags
    <3>2. \A i \in New(T, E) : Murmur(E.out[i]) \/ E.out[i] = g
      BY <1>5, <2>4
    <3>3. Goes(T, E) /\ Settled(T, E)
      BY <2>4
    <3> QED
      BY <1>5, <1>12, <2>5, <3>1, <3>2, <3>3, RefuseMeets
  <2>7. R = [E EXCEPT !.overLimit = @ \cup {f.id}]
    BY <1>10, <2>3
  <2>8. IsEnd(E)
    BY <2>6 DEF Meets, GoodEnd
  <2>9. /\ SameLimit(E, R) /\ R.rd = E.rd /\ R.goawaySent = E.goawaySent /\ R.closed = E.closed
        /\ R.out = E.out /\ R.streams = E.streams /\ R.server = E.server /\ R.nextId = E.nextId
        /\ R.lastPeerId = E.lastPeerId /\ R.blind = E.blind /\ R.acted = E.acted
        /\ R.lastActed = E.lastActed /\ R.overLimit = E.overLimit \cup {f.id}
    <3> HIDE DEF FrameType, StreamType
    <3> QED
      BY <2>7, <2>8, ZenonT(60) DEF IsEnd, EndType, SameLimit, SameNumbers
  <2>10. Open(R) = Open(E) /\ New(S, R) = New(S, E) /\ SameLimit(S, R)
    BY <2>6, <2>9 DEF Open, New, SameLimit, SameNumbers, Meets
  <2>11. Meets(S, R, f)
    BY <1>4, <2>6, <2>9, <2>10 DEF Meets
  <2>12. Refuses(S, R, f)
    BY <1>10, <2>6, <2>9, <2>10 DEF Refuses
  <2> QED
    BY <2>11, <2>12 DEF R
<1>11. CASE R = V /\ ~S.goawaySent
  <2>1. Meets(S, V, f) /\ Accepts(S, V, f)
    BY <1>4, <1>11, <1>12, <1>13, AcceptMeets
  <2> QED
    BY <1>11, <2>1 DEF R
<1> QED
  BY <1>3, <1>8, <1>9, <1>10, <1>11 DEF R

(* The call of feed that reads a new request.                              *)
LEMMA NewReading ==
    ASSUME H2Assumption, NEW S, GoodEnd(S), ~S.closed, NEW f \in FrameType, NewRequest(S, f)
    PROVE  LET R == OnFrame(Swept(S), f) IN
           Meets(S, R, f) /\ (Refuses(S, R, f) \/ Accepts(S, R, f))
<1> DEFINE D == Swept(S)
           R == OnFrame(D, f)
           Q == ServerBlock(D, f)
<1>1. GoodEnd(D) /\ Begins(S, D) /\ SameLimit(S, D) /\ D.rd = S.rd
  BY SweptLives
<1>2. Same(S, D) /\ D.streams = S.streams /\ D.out = S.out /\ D.goawaySent = S.goawaySent
      /\ D.closed = S.closed
  BY <1>1 DEF Begins
<1>3. NewRequest(D, f) /\ f.t = "headers" /\ D.server
  BY <1>2 DEF NewRequest, Same
<1>4. R = Q
  BY <1>3, FrameIs
<1>5. Meets(D, Q, f) /\ (Refuses(D, Q, f) \/ Accepts(D, Q, f))
  <2> HIDE DEF D
  <2> QED
    BY <1>1, <1>2, <1>3, RequestReading
<1> HIDE DEF D, Q, R
<1>6. Open(D) = Open(S) /\ New(D, Q) = New(S, Q) /\ StreamLimit(D) = StreamLimit(S)
  BY <1>1, <1>2 DEF Open, New, StreamLimit, SameLimit, SameNumbers
<1>7. SameLimit(S, Q)
  BY <1>1, <1>5 DEF Meets, SameLimit, SameNumbers
<1>8. Meets(S, Q, f)
  BY <1>1, <1>2, <1>5, <1>6, <1>7 DEF Meets, Same
<1>9. Refuses(S, Q, f) \/ Accepts(S, Q, f)
  BY <1>2, <1>5, <1>6 DEF Refuses, Accepts, Same
<1> QED
  BY <1>4, <1>8, <1>9 DEF R, D

---------------------------------------------------------------------------
(* What the applications call.                                             *)

(* R is S after frames of stream id, the last of them perhaps the end.     *)
Speaks(S, R, id, fin) ==
    /\ Goes(S, R) /\ Settled(S, R) /\ Polite(S, R) /\ id \in Open(R)
    /\ \A j \in Ids \ {id} : Fares(S, R, j, FALSE, FALSE)
    /\ \A i \in New(S, R) : ~IsRst(R.out[i], id) /\ (Ended(R.out[i], id) => fin)
    /\ fin => \E i \in New(S, R) : Ended(R.out[i], id)
    /\ Has(R, id, "REMOTE_END") <=> Has(S, id, "REMOTE_END")
    /\ Has(R, id, "LOCAL_END") <=> Has(S, id, "LOCAL_END")

LEMMA SpeaksFlag ==
    ASSUME NEW S, GoodEnd(S), NEW R, NEW id, NEW fin, Speaks(S, R, id, fin),
           NEW flags, flags \in SUBSET StreamFlags,
           "LOCAL_END" \in flags <=> Has(R, id, "LOCAL_END"),
           "REMOTE_END" \in flags <=> Has(R, id, "REMOTE_END"),
           NEW U, U = WithFlags(R, id, flags)
    PROVE  Speaks(S, U, id, fin)
<1>1. GoodEnd(R) /\ Goes(S, R) /\ id \in Open(R)
  BY DEF Speaks, Goes
<1>2. /\ Settled(R, U) /\ Goes(R, U) /\ Polite(R, U) /\ New(R, U) = {} /\ id \in Open(U)
      /\ \A j \in Ids : Fares(R, U, j, FALSE, FALSE)
      /\ Has(U, id, "REMOTE_END") <=> Has(R, id, "REMOTE_END")
      /\ Has(U, id, "LOCAL_END") <=> Has(R, id, "LOCAL_END")
  BY <1>1, FlagLives
<1>3. Goes(S, U) /\ New(S, U) = New(S, R) /\ \A i \in New(S, R) : U.out[i] = R.out[i]
  BY <1>1, <1>2, GoesTrans
<1>4. Settled(S, U) /\ Polite(S, U)
  BY <1>1, <1>2, SettledTrans, PoliteTrans DEF Speaks
<1>5. ASSUME NEW j \in Ids \ {id} PROVE Fares(S, U, j, FALSE, FALSE)
  <2>1. PICK n \in BOOLEAN : n = FALSE
    OBVIOUS
  <2>2. Fares(S, R, j, n, n) /\ Fares(R, U, j, n, n)
    BY <1>2, <2>1 DEF Speaks
  <2>3. Fares(S, U, j, n \/ n, n \/ n)
    BY <1>1, <1>2, <2>2, FaresTrans
  <2>4. (n \/ n) = FALSE
    BY <2>1
  <2> QED
    BY <2>3, <2>4
<1> QED
  BY <1>2, <1>3, <1>4, <1>5 DEF Speaks

LEMMA SpeaksEnd ==
    ASSUME H2Assumption, NEW S, GoodEnd(S), NEW R, NEW id, Speaks(S, R, id, TRUE)
    PROVE  Lives(S, LocalEnd(R, id), {}) /\ Settled(S, LocalEnd(R, id))
  BY LocalEndLives DEF Speaks

LEMMA SpeaksOn ==
    ASSUME NEW S, GoodEnd(S), NEW R, NEW id, Speaks(S, R, id, FALSE)
    PROVE  Lives(S, R, {}) /\ Settled(S, R)
<1>1. Fares(S, R, id, FALSE, FALSE)
  BY DEF Speaks, Fares
<1>2. \A j \in Ids \ {} : Fares(S, R, j, FALSE, FALSE)
  BY <1>1 DEF Speaks
<1> QED
  BY <1>2 DEF Speaks, Lives

LEMMA SpeaksHeaders ==
    ASSUME NEW S, GoodEnd(S), ~S.closed, NEW id, id \in Open(S), NEW fin \in BOOLEAN
    PROVE  Speaks(S, Put(S, Headers(id, fin, FALSE)), id, fin)
<1> DEFINE R == Put(S, Headers(id, fin, FALSE))
<1>1. PICK f : f = Headers(id, fin, FALSE)
  OBVIOUS
<1>2. Due(S, f) /\ f.t = "headers" /\ f.id = id /\ f.fin = fin
  BY <1>1, HeadersDue DEF Headers
<1>3. Fits(S, S, f)
  BY <1>2 DEF Fits
<1>4. Tells(S, R, f)
  BY <1>1, <1>2, <1>3, PutTells
<1>5. R.closed = S.closed
  BY <1>1, <1>2, PutRest DEF GoodEnd, Due
<1> HIDE DEF R
<1>6. Goes(S, R) /\ SameLimit(S, R) /\ R.rd = S.rd /\ R.streams = S.streams
      /\ (\A i \in New(S, R) : R.out[i] = f \/ Murmur(R.out[i]))
      /\ \E i \in New(S, R) : R.out[i] = f
  BY <1>4, <1>5 DEF Tells
<1>7. Settled(S, R) /\ Polite(S, R)
  BY <1>2, <1>6 DEF Settled, Polite, Murmur
<1>8. \A j \in Ids \ {id} : Fares(S, R, j, FALSE, FALSE)
  BY <1>2, <1>4, TellsFares DEF IsRst, Ended
<1>9. \A i \in New(S, R) : ~IsRst(R.out[i], id) /\ (Ended(R.out[i], id) => fin)
  BY <1>2, <1>6 DEF IsRst, Ended, Murmur
<1>10. fin => \E i \in New(S, R) : Ended(R.out[i], id)
  BY <1>2, <1>6 DEF Ended
<1>11. id \in Open(R) /\ (Has(R, id, "REMOTE_END") <=> Has(S, id, "REMOTE_END"))
       /\ (Has(R, id, "LOCAL_END") <=> Has(S, id, "LOCAL_END"))
  BY <1>6 DEF Open, Has
<1> QED
  BY <1>6, <1>7, <1>8, <1>9, <1>10, <1>11 DEF Speaks, R

(* Flags of one stream, added and taken away.                              *)
LEMMA FlagsOf ==
    ASSUME NEW S, GoodEnd(S), NEW id, id \in Open(S), NEW set \in SUBSET StreamFlags, NEW less
    PROVE  /\ S.streams[id].flags \subseteq StreamFlags
           /\ Flag(S, id, set) = WithFlags(S, id, S.streams[id].flags \cup set)
           /\ [S EXCEPT !.streams[id].flags = @ \ less] = WithFlags(S, id, S.streams[id].flags \ less)
           /\ S.streams[id].flags \cup set \in SUBSET StreamFlags
           /\ S.streams[id].flags \ less \in SUBSET StreamFlags
<1>1. S.streams[id] \in StreamType
  BY EndFields DEF GoodEnd
<1>2. S.streams[id].flags \subseteq StreamFlags
  BY <1>1 DEF StreamType
<1> QED
  BY <1>2 DEF Flag, WithFlags

LEMMA FlagSpeaks ==
    ASSUME NEW S, GoodEnd(S), NEW R, NEW id, NEW fin, Speaks(S, R, id, fin),
           NEW set \in SUBSET (StreamFlags \ {"LOCAL_END", "REMOTE_END"}),
           NEW less, less \cap {"LOCAL_END", "REMOTE_END"} = {}
    PROVE  /\ Speaks(S, Flag(R, id, set), id, fin)
           /\ Speaks(S, [R EXCEPT !.streams[id].flags = @ \ less], id, fin)
<1>1. GoodEnd(R) /\ id \in Open(R) /\ set \in SUBSET StreamFlags
  BY DEF Speaks, Goes
<1>2. PICK more \in SUBSET StreamFlags : more = R.streams[id].flags \cup set
  BY <1>1, FlagsOf
<1>3. PICK rest \in SUBSET StreamFlags : rest = R.streams[id].flags \ less
  BY <1>1, FlagsOf
<1>4. /\ "LOCAL_END" \in more <=> Has(R, id, "LOCAL_END")
      /\ "REMOTE_END" \in more <=> Has(R, id, "REMOTE_END")
      /\ "LOCAL_END" \in rest <=> Has(R, id, "LOCAL_END")
      /\ "REMOTE_END" \in rest <=> Has(R, id, "REMOTE_END")
  BY <1>2, <1>3 DEF Has
<1>5. Speaks(S, WithFlags(R, id, more), id, fin) /\ Speaks(S, WithFlags(R, id, rest), id, fin)
  BY <1>4, SpeaksFlag
<1>6. Flag(R, id, set) = WithFlags(R, id, more)
  BY <1>2 DEF Flag, WithFlags
<1>7. [R EXCEPT !.streams[id].flags = @ \ less] = WithFlags(R, id, rest)
  BY <1>3 DEF WithFlags
<1> QED
  BY <1>5, <1>6, <1>7

(* An end that says nothing of the stream.                                 *)
LEMMA SpeaksNot ==
    ASSUME NEW S, GoodEnd(S), NEW id, id \in Open(S)
    PROVE  Speaks(S, S, id, FALSE)
<1>1. Parts(S, S, {})
  BY GoesItself
<1>2. Goes(S, S) /\ Settled(S, S) /\ Polite(S, S) /\ New(S, S) = {}
      /\ \A j \in Ids \ {id} : Fares(S, S, j, FALSE, FALSE)
  <2>1. New(S, S) = {}
    <3>1. Len(S.out) \in Nat
      BY OutIs
    <3> QED
      BY <3>1 DEF New
  <2> QED
    BY <1>1, <2>1, PartsFares DEF Parts
<1> QED
  BY <1>2 DEF Speaks

(* R is S after a step of its own that no frame told it.                   *)
Own(S, R) == Lives(S, R, {}) /\ Settled(S, R)

LEMMA ResponseOwn ==
    ASSUME H2Assumption, NEW S, GoodEnd(S), ~S.closed, NEW id, id \in Open(S),
           NEW fin \in BOOLEAN, NEW plain
    PROVE  LET Q == Flag(Put(S, Headers(id, fin, FALSE)), id, {"HEAD_SENT"})
               T == IF plain THEN [Q EXCEPT !.streams[id].flags = @ \ {"TUNNEL"}] ELSE Q
           IN  Own(S, IF fin THEN LocalEnd(T, id) ELSE T)
<1> DEFINE P == Put(S, Headers(id, fin, FALSE))
           Q == Flag(P, id, {"HEAD_SENT"})
           U == [Q EXCEPT !.streams[id].flags = @ \ {"TUNNEL"}]
           T == IF plain THEN U ELSE Q
<1>1. Speaks(S, P, id, fin)
  BY SpeaksHeaders
<1>2. {"HEAD_SENT"} \in SUBSET (StreamFlags \ {"LOCAL_END", "REMOTE_END"})
  BY DEF StreamFlags
<1>3. Speaks(S, Q, id, fin)
  <2> HIDE DEF P
  <2> QED
    BY <1>1, <1>2, FlagSpeaks
<1> HIDE DEF Q
<1>4. Speaks(S, U, id, fin)
  <2>1. {"TUNNEL"} \cap {"LOCAL_END", "REMOTE_END"} = {}
    OBVIOUS
  <2>2. {} \in SUBSET (StreamFlags \ {"LOCAL_END", "REMOTE_END"})
    OBVIOUS
  <2> QED
    BY <1>3, <2>1, <2>2, FlagSpeaks
<1> HIDE DEF U
<1>5. Speaks(S, T, id, fin)
  BY <1>3, <1>4
<1> HIDE DEF T
<1>6. Own(S, IF fin THEN LocalEnd(T, id) ELSE T)
  <2>1. CASE fin = TRUE
    <3>1. Speaks(S, T, id, TRUE)
      BY <1>5, <2>1
    <3> QED
      BY <2>1, <3>1, SpeaksEnd DEF Own
  <2>2. CASE fin = FALSE
    <3>1. Speaks(S, T, id, FALSE)
      BY <1>5, <2>2
    <3> QED
      BY <2>2, <3>1, SpeaksOn DEF Own
  <2> QED
    BY <2>1, <2>2
<1> QED
  BY <1>6 DEF T, U, Q, P

LEMMA TrailersOwn ==
    ASSUME H2Assumption, NEW S, GoodEnd(S), ~S.closed, NEW id, id \in Open(S)
    PROVE  Own(S, LocalEnd(Put(S, Headers(id, TRUE, FALSE)), id))
<1>1. PICK fin \in BOOLEAN : fin = TRUE
  OBVIOUS
<1>2. Speaks(S, Put(S, Headers(id, fin, FALSE)), id, fin)
  BY SpeaksHeaders
<1>3. Speaks(S, Put(S, Headers(id, TRUE, FALSE)), id, TRUE)
  BY <1>1, <1>2
<1> QED
  BY <1>3, SpeaksEnd DEF Own

(* A flag that waits for room, and flags that waited for it.               *)
LEMMA WaitOwn ==
    ASSUME NEW S, GoodEnd(S), NEW id, id \in Open(S),
           NEW set \in SUBSET (StreamFlags \ {"LOCAL_END", "REMOTE_END"}),
           NEW less, less \cap {"LOCAL_END", "REMOTE_END"} = {}
    PROVE  Own(S, Flag(S, id, set)) /\ Own(S, [S EXCEPT !.streams[id].flags = @ \ less])
<1>1. PICK fin \in BOOLEAN : fin = FALSE
  OBVIOUS
<1>2. Speaks(S, S, id, fin)
  BY <1>1, SpeaksNot
<1>3. Speaks(S, Flag(S, id, set), id, fin)
      /\ Speaks(S, [S EXCEPT !.streams[id].flags = @ \ less], id, fin)
  BY <1>2, FlagSpeaks
<1> QED
  BY <1>1, <1>3, SpeaksOn DEF Own

(* The DATA frames of one call: only the last may be the end.              *)
LEMMA FramesEnd ==
    ASSUME H2Assumption, NEW id \in Ids, NEW take \in Nat, NEW last \in BOOLEAN
    PROVE  LET d == IF take > 0 \/ last THEN DataFrames(id, take, last) ELSE << >> IN
           /\ \A i \in DOMAIN d : d[i].t = "data" /\ d[i].id = id /\ (d[i].fin => last)
           /\ last => \E i \in DOMAIN d : d[i].fin
<1> DEFINE q == (take + Frame - 1) \div Frame
           count == Larger(1, q)
           d == DataFrames(id, take, last)
           n(i) == IF i < count THEN Frame ELSE take - (count - 1) * Frame
<1>1. Frame \in Nat \ {0} /\ take + Frame - 1 \in Nat
  BY DEF H2Assumption
<1>2. q \in Nat
  BY <1>1
<1>3. count \in Nat /\ count >= 1
  BY <1>2 DEF Larger
<1>4. d = [i \in 1 .. count |-> Data(id, n(i), last /\ i = count)]
  BY DEF DataFrames
<1> HIDE DEF count, d, n
<1>5. \A i \in 1 .. count : d[i].t = "data" /\ d[i].id = id /\ d[i].fin = (last /\ i = count)
  BY <1>4 DEF Data
<1>6. DOMAIN d = 1 .. count /\ count \in 1 .. count
  BY <1>3, <1>4
<1>7. (\A i \in DOMAIN d : d[i].t = "data" /\ d[i].id = id /\ (d[i].fin => last))
      /\ (last => \E i \in DOMAIN d : d[i].fin)
  BY <1>5, <1>6
<1>8. PICK e : e = IF take > 0 \/ last THEN d ELSE << >>
  OBVIOUS
<1>9. (\A i \in DOMAIN e : e[i].t = "data" /\ e[i].id = id /\ (e[i].fin => last))
      /\ (last => \E i \in DOMAIN e : e[i].fin)
  BY <1>7, <1>8
<1> QED
  BY <1>8, <1>9 DEF d

(* With what has been sent of a stream.                                    *)
WithSent(S, out, pending, ss, win) ==
    [S EXCEPT !.out = out, !.pending = pending, !.streams = ss, !.sendWin = win]

LEMMA SentIs ==
    ASSUME NEW S, IsEnd(S), NEW out, NEW pending, NEW ss, NEW win,
           NEW T, T = WithSent(S, out, pending, ss, win)
    PROVE  /\ Same(S, T) /\ SameLimit(S, T) /\ T.rd = S.rd /\ T.streams = ss /\ T.out = out
           /\ T.closed = S.closed /\ T.goawaySent = S.goawaySent
<1> HIDE DEF FrameType, StreamType
<1> QED
  BY ZenonT(60) DEF WithSent, IsEnd, EndType, Same, SameLimit, SameNumbers

LEMMA SentSpeaks ==
    ASSUME NEW S, GoodEnd(S), NEW T, NEW id, NEW take, NEW frames, Spends(S, T, id, take, frames),
           NEW last,
           \A i \in DOMAIN frames : frames[i].fin => last,
           last => \E i \in DOMAIN frames : frames[i].fin
    PROVE  Speaks(S, T, id, last)
<1>1. GoodEnd(T) /\ Open(T) = Open(S) /\ id \in Open(S) /\ Bears(frames, id, take)
  <2>1. Keeps(S, T) /\ Open(T) = Open(S)
    BY SentKeeps
  <2> QED
    BY <2>1 DEF Spends, Keeps
<1>2. PICK pending, out, ss, win :
        /\ T = WithSent(S, out, pending, ss, win)
        /\ out = S.out \o frames /\ ss = [S.streams EXCEPT ![id].send = @ - take]
  BY DEF Spends, WithSent
<1>3. Same(S, T) /\ SameLimit(S, T) /\ T.rd = S.rd /\ T.streams = ss /\ T.out = out
      /\ T.closed = S.closed /\ T.goawaySent = S.goawaySent
  <2>1. IsEnd(S)
    BY DEF GoodEnd
  <2>2. T = WithSent(S, out, pending, ss, win)
    BY <1>2
  <2> QED
    BY <2>1, <2>2, SentIs
<1>4. S.out \in Seq(FrameType) /\ frames \in Seq(FrameType)
  BY <1>1, OutIs DEF Bears
<1>5. /\ Len(T.out) = Len(S.out) + Len(frames) /\ Len(S.out) \in Nat /\ Len(frames) \in Nat
      /\ \A i \in 1 .. Len(S.out) : T.out[i] = S.out[i]
      /\ \A i \in DOMAIN frames : Len(S.out) + i \in New(S, T) /\ T.out[Len(S.out) + i] = frames[i]
      /\ \A i \in New(S, T) : i - Len(S.out) \in DOMAIN frames /\ T.out[i] = frames[i - Len(S.out)]
  <2>1. PICK a \in Seq(FrameType), b \in Seq(FrameType) : a = S.out /\ b = frames
    BY <1>4
  <2>2. T.out = a \o b
    BY <1>2, <1>3, <2>1
  <2> HIDE DEF FrameType
  <2>3. /\ Len(a \o b) = Len(a) + Len(b) /\ Len(a) \in Nat /\ Len(b) \in Nat
        /\ \A i \in 1 .. Len(a) : (a \o b)[i] = a[i]
        /\ \A i \in DOMAIN b : Len(a) + i \in Len(a) + 1 .. Len(a) + Len(b) /\ (a \o b)[Len(a) + i] = b[i]
        /\ \A i \in Len(a) + 1 .. Len(a) + Len(b) : i - Len(a) \in DOMAIN b /\ (a \o b)[i] = b[i - Len(a)]
    BY SMTT(30)
  <2> QED
    BY <2>1, <2>2, <2>3 DEF New
<1>6. \A j \in Open(S) : T.streams[j].flags = S.streams[j].flags
  <2>1. S.streams \in [Open(S) -> StreamType]
    BY EndFields DEF GoodEnd
  <2>2. ss \in [Open(S) -> [send : Int, recv : Int, unacked : Nat, held : Nat, win : Nat,
                            flags : SUBSET StreamFlags]] \/ TRUE
    OBVIOUS
  <2>3. ASSUME NEW j \in Open(S) PROVE ss[j].flags = S.streams[j].flags
    <3>1. S.streams[j] \in StreamType
      BY <2>1
    <3>2. CASE j = id
      BY <1>2, <2>1, <3>1, <3>2 DEF StreamType
    <3>3. CASE j # id
      BY <1>2, <2>1, <3>3
    <3> QED
      BY <3>2, <3>3
  <2> QED
    BY <1>3, <2>3
<1>7. \A i \in New(S, T) : T.out[i].t = "data" /\ T.out[i].id = id /\ (T.out[i].fin => last)
  BY <1>1, <1>5 DEF Bears
<1>8. last => \E i \in New(S, T) : Ended(T.out[i], id)
  <2>1. ASSUME last PROVE \E i \in New(S, T) : Ended(T.out[i], id)
    <3>1. PICK i \in DOMAIN frames : frames[i].fin
      BY <2>1
    <3>2. Len(S.out) + i \in New(S, T) /\ T.out[Len(S.out) + i] = frames[i]
      BY <1>5
    <3>3. frames[i].t = "data" /\ frames[i].id = id
      BY <1>1 DEF Bears
    <3> QED
      BY <3>1, <3>2, <3>3 DEF Ended
  <2> QED
    BY <2>1
<1>9. Goes(S, T)
  <2>1. \A i \in New(S, T) : Fits(S, T, T.out[i])
    BY <1>7 DEF Fits
  <2>2. S.goawayRecv => T.goawayRecv
    BY <1>3 DEF SameLimit
  <2> QED
    BY <1>1, <1>3, <1>5, <2>1, <2>2 DEF Goes
<1>10. Settled(S, T) /\ Polite(S, T)
  BY <1>3, <1>7 DEF Settled, Polite
<1>11. \A j \in Ids \ {id} : Fares(S, T, j, FALSE, FALSE)
  <2>1. ASSUME NEW j \in Ids \ {id} PROVE Fares(S, T, j, FALSE, FALSE)
    <3>1. \A i \in New(S, T) : ~IsRst(T.out[i], j) /\ ~Ended(T.out[i], j)
      BY <1>7 DEF IsRst, Ended
    <3> QED
      BY <1>1, <1>6, <3>1 DEF Fares, Has
  <2> QED
    BY <2>1
<1>12. \A i \in New(S, T) : ~IsRst(T.out[i], id) /\ (Ended(T.out[i], id) => last)
  BY <1>7 DEF IsRst, Ended
<1> QED
  BY <1>1, <1>6, <1>8, <1>9, <1>10, <1>11, <1>12 DEF Speaks, Has

LEMMA SentOwn ==
    ASSUME H2Assumption, NEW S, GoodEnd(S), ~S.closed, NEW id \in Open(S), NEW n \in Nat,
           NEW fin \in BOOLEAN
    PROVE  Own(S, Sent(S, id, n, fin))
<1>1. PICK take \in Nat : take = Taken(S, id, n)
  BY TakenIs DEF GoodEnd
<1>2. PICK last \in BOOLEAN : last = (take = n /\ fin)
  OBVIOUS
<1>3. PICK frames : frames = IF take > 0 \/ last THEN DataFrames(id, take, last) ELSE << >>
  OBVIOUS
<1>4. id \in Ids
  BY EndFields DEF GoodEnd
<1>5. Bears(frames, id, take)
  BY <1>3, <1>4, FramesBear
<1>6. (\A i \in DOMAIN frames : frames[i].fin => last) /\ (last => \E i \in DOMAIN frames : frames[i].fin)
  BY <1>3, <1>4, FramesEnd
<1>7. PICK pending \in Int :
        pending = S.pending + (IF frames = << >> THEN 0 ELSE Larger(take, 1))
  <2>1. PICK k \in Int : k = S.pending
    BY EndFields DEF GoodEnd
  <2>2. Larger(take, 1) \in Int
    BY DEF Larger
  <2>3. PICK x \in Int : x = IF frames = << >> THEN 0 ELSE Larger(take, 1)
    BY <2>2
  <2>4. k + x \in Int
    OBVIOUS
  <2> QED
    BY <2>1, <2>3, <2>4
<1>10. PICK T : T = [S EXCEPT !.out = S.out \o frames, !.pending = pending,
                              !.streams = [S.streams EXCEPT ![id].send = @ - take],
                              !.sendWin = S.sendWin - take]
  OBVIOUS
<1>11. Speaks(S, T, id, last)
  <2>1. Spends(S, T, id, take, frames)
    BY <1>5, <1>10 DEF Spends
  <2> QED
    BY <1>6, <2>1, SentSpeaks
<1>12. Speaks(S, Flag(T, id, {"BLOCKED"}), id, last)
  <2>1. {"BLOCKED"} \in SUBSET (StreamFlags \ {"LOCAL_END", "REMOTE_END"})
    BY DEF StreamFlags
  <2> QED
    BY <1>11, <2>1, FlagSpeaks
<1>13. PICK R : R = IF take < n THEN Flag(T, id, {"BLOCKED"})
                    ELSE IF fin THEN LocalEnd(T, id) ELSE T
  OBVIOUS
<1>14. take <= n
  BY <1>1, TakenIs DEF GoodEnd
<1>15. Own(S, R)
  <2>1. CASE take < n
    <3>0. take # n
      BY <1>1, <2>1
    <3>1. last = FALSE
      BY <1>2, <3>0, Zenon
    <3>2. Speaks(S, R, id, FALSE)
      BY <1>12, <1>13, <2>1, <3>1
    <3> QED
      BY <3>2, SpeaksOn DEF Own
  <2>2. CASE take = n /\ fin
    <3>0. ~(take < n)
      BY <1>1, <2>2
    <3>1. last = TRUE /\ ~(take < n)
      BY <1>2, <2>2, <3>0, Zenon
    <3>2. Speaks(S, T, id, TRUE) /\ R = LocalEnd(T, id)
      BY <1>11, <1>13, <2>2, <3>1
    <3> QED
      BY <3>2, SpeaksEnd DEF Own
  <2>3. CASE take = n /\ ~fin
    <3>1. last = FALSE /\ ~(take < n)
      BY <1>1, <1>2, <2>3
    <3>2. Speaks(S, R, id, FALSE)
      BY <1>11, <1>13, <2>3, <3>1
    <3> QED
      BY <3>2, SpeaksOn DEF Own
  <2> QED
    BY <1>14, <2>1, <2>2, <2>3
<1>17. R = Sent(S, id, n, fin)
  <2>1. T = [S EXCEPT !.out = @ \o frames,
                      !.pending = @ + (IF frames = << >> THEN 0 ELSE Larger(take, 1)),
                      !.streams[id].send = @ - take, !.sendWin = @ - take]
    BY <1>7, <1>10
  <2>2. DataFrames(id, take, last) = DataFrames(id, take, take = n /\ fin)
    BY <1>2
  <2>3. frames = IF take > 0 \/ (take = n /\ fin)
                   THEN DataFrames(id, take, take = n /\ fin) ELSE << >>
    BY <1>2, <1>3, <2>2
  <2> QED
    BY <1>1, <1>13, <2>1, <2>3 DEF Sent
<1> QED
  BY <1>15, <1>17

LEMMA PartsOwn ==
    ASSUME NEW S, NEW R, Parts(S, R, {})
    PROVE  Own(S, R)
  BY PartsLives DEF Own

LEMMA ResetOwn ==
    ASSUME H2Assumption, NEW S, GoodEnd(S), ~S.closed, NEW id, id \in Open(S),
           NEW code \in Codes \ {"refused"}, NEW properly \in BOOLEAN, NEW how \in Endings
    PROVE  Own(S, RemoveStream(Queue(S, Rst(id, code)), id, properly, how))
<1>1. PICK f : f = Rst(id, code)
  OBVIOUS
<1>2. PICK Q : Q = Queue(S, f)
  OBVIOUS
<1>3. PICK B : B = RemoveStream(Q, id, properly, how)
  OBVIOUS
<1>4. id \in Ids /\ id <= Known(S)
  BY OpenKnown
<1>5. Due(S, f) /\ Fits(S, S, f) /\ f.t = "rst" /\ f.id = id /\ f.code = code
  BY <1>1, <1>4 DEF Due, Fits, Rst, FrameType
<1>6. Tells(S, Q, f)
  BY <1>2, <1>5, QueueTells
<1>7. GoodEnd(Q) /\ Open(Q) = Open(S)
  BY <1>6 DEF Tells, Goes, Open
<1>8. Parts(Q, B, {id})
  <2>1. id \in Open(Q)
    BY <1>7
  <2> QED
    BY <1>3, <1>7, <2>1, RemoveStreamParts
<1>9. /\ Goes(S, B) /\ New(S, Q) \subseteq New(S, B)
      /\ \A i \in New(S, Q) : B.out[i] = Q.out[i]
      /\ New(S, B) = New(S, Q) \cup New(Q, B)
  BY <1>6, <1>8, GoesTrans DEF Tells, Parts
<1>10. Settled(S, B)
  <2>1. Settled(S, Q)
    BY <1>5, <1>6 DEF Tells, Settled, Murmur
  <2> QED
    BY <1>6, <1>8, <2>1, SettledTrans DEF Tells, Parts
<1>11. \A i \in New(S, B) : Murmur(B.out[i]) \/ B.out[i] = f
  BY <1>6, <1>8, <1>9 DEF Tells, Parts
<1>12. Polite(S, B)
  BY <1>5, <1>11 DEF Polite, Murmur
<1>13. Open(B) = Open(S) \ {id}
  BY <1>7, <1>8 DEF Parts
<1>14. ASSUME NEW j \in Ids \ {id} PROVE Fares(S, B, j, FALSE, FALSE)
  <2>1. \A i \in New(S, B) : ~IsRst(B.out[i], j) /\ ~Ended(B.out[i], j)
    BY <1>5, <1>11 DEF Murmur, IsRst, Ended
  <2>2. j \in Open(B) => B.streams[j].flags = S.streams[j].flags
    BY <1>6, <1>8 DEF Tells, Parts
  <2>3. j \notin Open(S) \ Open(B)
    BY <1>13
  <2> QED
    BY <1>13, <2>1, <2>2, <2>3 DEF Fares, Has
<1>15. ASSUME ~B.closed PROVE Fares(S, B, id, FALSE, FALSE)
  <2>1. Q.closed => B.closed
    BY <1>8 DEF Parts, Goes
  <2>2. \E i \in New(S, Q) : Q.out[i] = f
    BY <1>6, <1>15, <2>1 DEF Tells
  <2>3. \E i \in New(S, B) : IsRst(B.out[i], id)
    BY <1>5, <1>9, <2>2 DEF IsRst
  <2>4. id \notin Open(B)
    BY <1>13
  <2> QED
    BY <2>3, <2>4, OverFares
<1>16. Lives(S, B, {})
  <2>1. B.closed \/ \A j \in Ids \ {} : Fares(S, B, j, FALSE, FALSE)
    BY <1>14, <1>15
  <2> QED
    BY <1>9, <1>12, <2>1 DEF Lives
<1> QED
  BY <1>1, <1>2, <1>3, <1>10, <1>16 DEF Own

LEMMA ConsumedOwn ==
    ASSUME H2Assumption, NEW S, GoodEnd(S), NEW id, id \in Open(S), NEW n \in Nat,
           n <= S.streams[id].held, NEW fast \in BOOLEAN
    PROVE  Own(S, ConnCredit(StreamCredit([S EXCEPT !.streams[id].held = @ - n], id, n, fast), n))
<1> DEFINE s == [S.streams[id] EXCEPT !.held = @ - n]
           T == [S EXCEPT !.streams[id] = s]
           C == StreamCredit(T, id, n, fast)
<1>1. S.streams[id] \in StreamType /\ S.streams[id].held \in Nat
  BY EndFields DEF GoodEnd, StreamType
<1>2. S.streams[id].held - n \in Nat
  BY <1>1
<1>3. s \in StreamType /\ s.flags = S.streams[id].flags
  BY <1>1, <1>2 DEF StreamType
<1>4. [S EXCEPT !.streams[id].held = @ - n] = T
  OBVIOUS
<1> HIDE DEF s
<1>5. Parts(S, T, {})
  BY <1>3, StreamParts
<1> HIDE DEF T
<1>6. GoodEnd(T) /\ id \in Open(T)
  BY <1>5 DEF Parts, Goes
<1>7. Parts(T, C, {})
  BY <1>6, StreamCreditParts
<1> HIDE DEF C
<1>8. Parts(S, C, {}) /\ GoodEnd(C)
  <2>1. Parts(S, C, {})
    BY <1>5, <1>7, PartsOn
  <2> QED
    BY <2>1 DEF Parts, Goes
<1>9. Parts(C, ConnCredit(C, n), {})
  BY <1>8, ConnCreditParts
<1>10. Parts(S, ConnCredit(C, n), {})
  BY <1>8, <1>9, PartsOn
<1> QED
  BY <1>4, <1>10, PartsOwn DEF C

LEMMA PingOwn ==
    ASSUME NEW S, GoodEnd(S)
    PROVE  Own(S, Put(S, Ping))
<1>1. PICK f : f = Ping
  OBVIOUS
<1>2. Due(S, f) /\ Fits(S, S, f) /\ Murmur(f) /\ f.t # "goaway"
  BY <1>1 DEF Due, Fits, Murmur, Ping, FrameType
<1>3. Tells(S, Put(S, f), f)
  BY <1>2, PutTells
<1> QED
  BY <1>1, <1>2, <1>3, TellsParts, PartsOwn

LEMMA ShutdownOwn ==
    ASSUME NEW S, GoodEnd(S)
    PROVE  Own(S, [Put(S, Goaway(S.lastActed, "none")) EXCEPT !.goawaySent = TRUE])
<1> DEFINE f == Goaway(S.lastActed, "none")
           P == Put(S, f)
           R == [P EXCEPT !.goawaySent = TRUE]
<1>1. Due(S, f) /\ f \in FrameType /\ f.t = "goaway" /\ f.last = S.lastActed
  <2>1. PICK k \in Nat : k = S.lastActed
    BY EndFields DEF GoodEnd
  <2> QED
    BY <2>1 DEF Due, Goaway, FrameType, Codes
<1>2. GoodEnd(P) /\ Rest(S, P) /\ P.out = Append(S.out, f) /\ IsEnd(P) /\ P.closed = S.closed
  BY <1>1, PutGood, PutRest DEF GoodEnd
<1> HIDE DEF P, f
<1>3. Rest(P, R) /\ R.out = P.out /\ R.goawaySent /\ R.closed = P.closed
  <2> HIDE DEF FrameType, StreamType
  <2> QED
    BY <1>2, ZenonT(60) DEF IsEnd, EndType, Rest, Same, SameLimit, SameNumbers
<1>4. IsEnd(R)
  <2> HIDE DEF FrameType, StreamType
  <2> QED
    BY <1>2, ZenonT(60) DEF IsEnd, EndType, Open
<1> HIDE DEF R
<1>5. GoodEnd(R)
  <2>1. R.server = P.server /\ R.nextId = P.nextId /\ R.lastPeerId = P.lastPeerId /\ Open(R) = Open(P)
    BY <1>3 DEF Rest, Same, Open
  <2>2. Known(R) = Known(P)
    BY <2>1 DEF Known
  <2> QED
    BY <1>2, <1>3, <1>4, <2>1, <2>2 DEF GoodEnd, OfKnown
<1>6. Rest(S, R) /\ R.out = Append(S.out, f)
  BY <1>2, <1>3, RestTrans
<1>7. Fits(S, R, f)
  BY <1>1, <1>3 DEF Fits
<1>8. S.closed => R.closed
  BY <1>2, <1>3
<1>9. /\ Goes(S, R) /\ SameLimit(S, R) /\ R.rd = S.rd
      /\ Open(R) = Open(S) /\ R.streams = S.streams
      /\ New(S, R) = {Len(S.out) + 1} /\ R.out[Len(S.out) + 1] = f
  BY <1>1, <1>3, <1>5, <1>6, <1>7, <1>8, RestMore
<1>10. Parts(S, R, {})
  BY <1>1, <1>9 DEF Parts, Settled, Murmur
<1> QED
  BY <1>10, PartsOwn DEF R, P, f

LEMMA WritableOwn ==
    ASSUME NEW S, GoodEnd(S), NEW id, id \in Open(S)
    PROVE  Own(S, [S EXCEPT !.sweepGoaway = FALSE,
                            !.streams[id].flags = @ \ {"BLOCKED", "HBLOCKED"}])
<1>1. PICK less : less = {"BLOCKED", "HBLOCKED"}
  OBVIOUS
<1>2. PICK Q : Q = [S EXCEPT !.streams[id].flags = @ \ less]
  OBVIOUS
<1>3. PICK R : R = [Q EXCEPT !.sweepGoaway = FALSE]
  OBVIOUS
<1>4. Own(S, Q)
  <2>1. less \cap {"LOCAL_END", "REMOTE_END"} = {}
    BY <1>1
  <2>2. {} \in SUBSET (StreamFlags \ {"LOCAL_END", "REMOTE_END"})
    OBVIOUS
  <2> QED
    BY <1>2, <2>1, <2>2, WaitOwn
<1>5. GoodEnd(Q) /\ IsEnd(Q)
  BY <1>4 DEF Own, Lives, Goes, GoodEnd
<1>6. /\ IsEnd(R) /\ Same(Q, R) /\ SameLimit(Q, R) /\ R.rd = Q.rd /\ R.out = Q.out
      /\ R.closed = Q.closed /\ R.goawaySent = Q.goawaySent /\ R.streams = Q.streams
      /\ R.goawayRecv = Q.goawayRecv
  <2> HIDE DEF FrameType, StreamType
  <2> QED
    BY <1>3, <1>5, ZenonT(60) DEF IsEnd, EndType, Open, Same, SameLimit, SameNumbers
<1>7. GoodEnd(R) /\ Open(R) = Open(Q)
  <2>1. Known(R) = Known(Q) /\ Open(R) = Open(Q)
    BY <1>6 DEF Known, Same, Open
  <2> QED
    BY <1>5, <1>6, <2>1 DEF GoodEnd, OfKnown
<1>8. Lives(Q, R, {}) /\ New(Q, R) = {}
  BY <1>5, <1>6, <1>7, StillLives
<1>9. Settled(Q, R)
  BY <1>6, <1>8 DEF Settled
<1>10. Own(S, R)
  <2>1. Lives(S, R, {})
    BY <1>4, <1>8, LivesTrans DEF Own
  <2>2. Settled(S, R)
    BY <1>4, <1>8, <1>9, SettledTrans DEF Own, Lives
  <2> QED
    BY <2>1, <2>2 DEF Own
<1>11. R = [S EXCEPT !.sweepGoaway = FALSE,
                     !.streams[id].flags = @ \ {"BLOCKED", "HBLOCKED"}]
  <2> HIDE DEF FrameType, StreamType
  <2> QED
    BY <1>1, <1>2, <1>3 DEF GoodEnd, IsEnd, EndType
<1> QED
  BY <1>10, <1>11

LEMMA SweptOwn ==
    ASSUME NEW S, GoodEnd(S)
    PROVE  Own(S, Swept(S)) /\ Own(S, [Swept(S) EXCEPT !.closed = TRUE])
<1>1. PICK Q : Q = Swept(S)
  OBVIOUS
<1>2. PICK R : R = [Q EXCEPT !.closed = TRUE]
  OBVIOUS
<1>3. Own(S, Q) /\ GoodEnd(Q) /\ IsEnd(Q)
  BY <1>1, SweptLives DEF Own, GoodEnd
<1>4. /\ IsEnd(R) /\ Same(Q, R) /\ SameLimit(Q, R) /\ R.rd = Q.rd /\ R.out = Q.out
      /\ R.closed /\ R.goawaySent = Q.goawaySent /\ R.streams = Q.streams
      /\ R.goawayRecv = Q.goawayRecv
  <2> HIDE DEF FrameType, StreamType
  <2> QED
    BY <1>2, <1>3, ZenonT(60) DEF IsEnd, EndType, Open, Same, SameLimit, SameNumbers
<1>5. GoodEnd(R) /\ Open(R) = Open(Q)
  <2>1. Known(R) = Known(Q) /\ Open(R) = Open(Q)
    BY <1>4 DEF Known, Same, Open
  <2> QED
    BY <1>3, <1>4, <2>1 DEF GoodEnd, OfKnown
<1>6. Lives(Q, R, {}) /\ New(Q, R) = {}
  BY <1>3, <1>4, <1>5, StillLives
<1>7. Settled(Q, R)
  BY <1>4, <1>6 DEF Settled
<1>8. Lives(S, R, {}) /\ Settled(S, R)
  BY <1>3, <1>6, <1>7, LivesTrans, SettledTrans DEF Own, Lives
<1> QED
  BY <1>1, <1>2, <1>3, <1>8 DEF Own

(* A piece of the frame under way, read.                                   *)
Piece(S, R) ==
    /\ Goes(S, R) /\ Polite(S, R) /\ SameLimit(S, R) /\ Still(S, R)
    /\ \A j \in Ids : \E heard \in BOOLEAN :
         Fares(S, R, j, heard, FALSE) /\ (heard => S.rd.fin /\ j = S.rd.id)
    /\ R.rd.fin => S.rd.fin /\ R.rd.id = S.rd.id
    /\ \A j \in Ids : j <= Known(S) /\ Coming(S, j) => Over(R, j)

LEMMA PieceIs ==
    ASSUME H2Assumption, NEW S, GoodEnd(S), NEW n \in Nat, n <= S.rd.left
    PROVE  Piece(S, OnPiece(Swept(S), n))
<1>1. PICK D : D = Swept(S)
  OBVIOUS
<1>2. PICK R : R = OnPiece(D, n)
  OBVIOUS
<1>3. GoodEnd(D) /\ Begins(S, D) /\ SameLimit(S, D) /\ D.rd = S.rd
  BY <1>1, SweptLives
<1>4. /\ Goes(D, R) /\ Polite(D, R) /\ SameLimit(D, R) /\ Still(D, R)
      /\ \A j \in Ids : \E heard \in BOOLEAN :
           Fares(D, R, j, heard, FALSE) /\ (heard => D.rd.fin /\ j = D.rd.id)
      /\ R.rd.fin => D.rd.fin /\ R.rd.id = D.rd.id
      /\ \A j \in Ids : j <= Known(D) /\ Coming(D, j) => Over(R, j)
  <2>1. n <= D.rd.left
    BY <1>3
  <2> QED
    BY ZenonT(40), <1>2, <1>3, <2>1, OnPieceGoes
<1>5. /\ Goes(S, R) /\ New(S, R) = New(D, R) /\ Polite(S, R)
      /\ \A j, heard, lost : Fares(D, R, j, heard, lost) => Fares(S, R, j, heard, lost)
  BY <1>3, <1>4, BeginsOn
<1>6. SameLimit(S, R)
  BY <1>3, <1>4 DEF SameLimit, SameNumbers
<1>7. Still(S, R)
  BY <1>3, <1>4, <1>5, <1>6 DEF Still, SameLimit
<1>8. Known(D) = Known(S) /\ \A j : Coming(D, j) <=> Coming(S, j)
  BY <1>3, KnownIs DEF Begins, Coming
<1>9. ASSUME NEW j \in Ids
      PROVE  \E heard \in BOOLEAN :
               Fares(S, R, j, heard, FALSE) /\ (heard => S.rd.fin /\ j = S.rd.id)
  <2>1. PICK heard \in BOOLEAN : Fares(D, R, j, heard, FALSE) /\ (heard => D.rd.fin /\ j = D.rd.id)
    BY <1>4
  <2>2. Fares(S, R, j, heard, FALSE)
    BY <1>5, <2>1
  <2> QED
    BY <1>3, <2>1, <2>2
<1>10. Piece(S, R)
  BY <1>3, <1>4, <1>5, <1>6, <1>7, <1>8, <1>9 DEF Piece
<1> QED
  BY <1>1, <1>2, <1>10

(* A stream that the peer's goodbye left out is over.                      *)
Leaves(S, R, id) ==
    /\ Lives(S, R, {id}) /\ Still(S, R) /\ R.rd = S.rd
    /\ id \in Open(S) \ Open(R) /\ id > S.goawayLast /\ S.sweepGoaway /\ ~S.server
    /\ R.refused = S.refused \cup {id}
    /\ R.goawayRecv = S.goawayRecv /\ R.goawayLast = S.goawayLast
    /\ R.sweepGoaway => S.sweepGoaway

LEMMA LeavesIs ==
    ASSUME H2Assumption, NEW S, GoodEnd(S), NEW id \in LeftOut(S)
    PROVE  Leaves(S, [RemoveStream(S, id, FALSE, "peer") EXCEPT !.refused = @ \cup {id}], id)
<1>1. PICK Q : Q = RemoveStream(S, id, FALSE, "peer")
  OBVIOUS
<1>2. PICK R : R = [Q EXCEPT !.refused = @ \cup {id}]
  OBVIOUS
<1>3. id \in Open(S) /\ id \in Ids /\ id > S.goawayLast /\ S.sweepGoaway /\ ~S.server
  BY EndFields DEF LeftOut, BeyondLast, GoodEnd
<1>4. Parts(S, Q, {id})
  <2>1. PICK how \in Endings : how = "peer"
    BY DEF Endings
  <2>2. Parts(S, RemoveStream(S, id, FALSE, how), {id})
    BY <1>3, RemoveStreamParts
  <2> QED
    BY <1>1, <2>1, <2>2
<1>5. GoodEnd(Q) /\ IsEnd(Q)
  BY <1>4 DEF Parts, Goes, GoodEnd
<1>6. /\ IsEnd(R) /\ Same(Q, R) /\ SameNumbers(Q, R) /\ R.gotSettings = Q.gotSettings
      /\ R.peerStreams = Q.peerStreams /\ R.refused = Q.refused \cup {id}
      /\ R.goawayRecv = Q.goawayRecv /\ R.goawayLast = Q.goawayLast
      /\ R.sweepGoaway = Q.sweepGoaway
      /\ R.rd = Q.rd /\ R.out = Q.out /\ R.closed = Q.closed /\ R.goawaySent = Q.goawaySent
      /\ R.streams = Q.streams
  <2> HIDE DEF FrameType, StreamType
  <2> QED
    <3>1. Q \in EndType(Open(Q)) /\ Open(Q) \subseteq Ids
      BY <1>5 DEF IsEnd
    <3>2. Q.refused \cup {id} \in SUBSET Ids
      BY <1>3, <3>1 DEF EndType
    <3>3. R = [Q EXCEPT !.refused = Q.refused \cup {id}]
      BY <1>2
    <3>4. R \in EndType(Open(Q))
      BY <3>1, <3>2, <3>3, ZenonT(60) DEF EndType
    <3>5. /\ Same(Q, R) /\ SameNumbers(Q, R) /\ R.gotSettings = Q.gotSettings
          /\ R.peerStreams = Q.peerStreams /\ R.refused = Q.refused \cup {id}
          /\ R.goawayRecv = Q.goawayRecv /\ R.goawayLast = Q.goawayLast
          /\ R.sweepGoaway = Q.sweepGoaway
          /\ R.rd = Q.rd /\ R.out = Q.out /\ R.closed = Q.closed /\ R.goawaySent = Q.goawaySent
          /\ R.streams = Q.streams
      BY <3>1, <3>3, ZenonT(60) DEF EndType, Same, SameNumbers
    <3> QED
      BY <3>1, <3>4, <3>5 DEF IsEnd, Open
<1>7. GoodEnd(R) /\ Open(R) = Open(Q)
  <2>1. Known(R) = Known(Q) /\ Open(R) = Open(Q)
    BY <1>6 DEF Known, Same, Open
  <2> QED
    BY <1>5, <1>6, <2>1 DEF GoodEnd, OfKnown
<1>8. Lives(Q, R, {}) /\ New(Q, R) = {}
  BY <1>5, <1>6, <1>7, StillLives
<1>9. Lives(S, R, {id})
  <2>1. Lives(S, Q, {id})
    BY <1>4, PartsFares
  <2>2. Lives(Q, R, {id})
    BY <1>8 DEF Lives
  <2> QED
    BY <2>1, <2>2, LivesTrans
<1>10. New(S, R) = New(S, Q) /\ \A i \in New(S, Q) : R.out[i] = Q.out[i]
  <2>1. Goes(S, Q) /\ Goes(Q, R)
    BY <1>4, <1>8 DEF Parts, Lives
  <2> QED
    BY <1>8, <2>1, GoesTrans
<1>11. Settled(S, Q) /\ Open(Q) = Open(S) \ {id}
  BY <1>4 DEF Parts
<1>12. Still(S, R)
  <2>1. SameNumbers(S, R) /\ R.gotSettings = S.gotSettings /\ R.peerStreams = S.peerStreams
    BY <1>6, <1>11 DEF Settled, SameLimit, SameNumbers
  <2>2. \A i \in New(S, R) : R.out[i].t \notin {"settings", "ack"}
    BY <1>10, <1>11 DEF Settled
  <2> QED
    BY <2>1, <2>2 DEF Still
<1>13. /\ R.rd = S.rd /\ R.refused = S.refused \cup {id}
       /\ R.goawayRecv = S.goawayRecv /\ R.goawayLast = S.goawayLast
       /\ R.sweepGoaway => S.sweepGoaway
  BY <1>6, <1>11 DEF Settled, SameLimit
<1>14. Leaves(S, R, id)
  BY <1>3, <1>7, <1>9, <1>11, <1>12, <1>13 DEF Leaves
<1> QED
  BY <1>1, <1>2, <1>14

(* A request: a stream of the next number, and its frame.                  *)
Asks(S, R, f) ==
    /\ GoodEnd(R) /\ f.t = "headers" /\ f.id = S.nextId /\ f.id \in Ids
    /\ R.nextId = S.nextId + 2 /\ R.server = S.server /\ R.closed = S.closed
    /\ R.out = Append(S.out, f) /\ SameLimit(S, R) /\ R.rd = S.rd
    /\ Open(R) = Open(S) \cup {f.id}
    /\ \A j \in Open(S) : R.streams[j].flags = S.streams[j].flags
    /\ ~Has(R, f.id, "REMOTE_END") /\ (Has(R, f.id, "LOCAL_END") <=> f.fin)
    /\ R.blind = S.blind \/ (~S.gotSettings /\ R.blind = S.blind \cup {f.id})
    /\ f.id \notin R.blind => S.gotSettings

LEMMA IdsFinite ==
    ASSUME H2Assumption
    PROVE  /\ IsFiniteSet(Ids)
           /\ \A A \in SUBSET Ids : IsFiniteSet(A) /\ Cardinality(A) \in Nat
<1>1. 1 \in Int /\ MaxId \in Int
  BY DEF H2Assumption
<1>2. IsFiniteSet(1 .. MaxId)
  BY <1>1, FS_Interval
<1>3. Ids \subseteq 1 .. MaxId
  BY DEF Ids
<1>4. IsFiniteSet(Ids)
  BY <1>2, <1>3, FS_Subset
<1> QED
  BY <1>4, FS_Subset, FS_CardinalityType

(* An end, and what its request is made of.                                *)
Asked(S, f, ss, next, blind) ==
    [Put(S, f) EXCEPT !.streams = ss, !.nextId = next, !.blind = blind]

LEMMA AskedIs ==
    ASSUME NEW S, IsEnd(S), NEW f \in FrameType, NEW ss, NEW next, NEW blind,
           NEW R, R = Asked(S, f, ss, next, blind)
    PROVE  /\ R.streams = ss /\ R.nextId = next /\ R.blind = blind /\ R.server = S.server
           /\ R.closed = S.closed /\ R.out = Append(S.out, f) /\ SameLimit(S, R) /\ R.rd = S.rd
<1>1. PICK P : P = Put(S, f)
  OBVIOUS
<1>2. IsEnd(P) /\ Rest(S, P) /\ P.out = Append(S.out, f) /\ P.closed = S.closed
  BY <1>1, PutIs, PutRest
<1>3. R = [P EXCEPT !.streams = ss, !.nextId = next, !.blind = blind]
  BY <1>1 DEF Asked
<1>4. /\ R.streams = ss /\ R.nextId = next /\ R.blind = blind /\ R.server = P.server
      /\ R.closed = P.closed /\ R.out = P.out /\ SameLimit(P, R) /\ R.rd = P.rd
  <2> HIDE DEF FrameType, StreamType
  <2> QED
    BY <1>2, <1>3, ZenonT(60) DEF IsEnd, EndType, SameLimit, SameNumbers
<1> QED
  BY <1>2, <1>4 DEF Rest, Same, SameLimit, SameNumbers

LEMMA RequestAsks ==
    ASSUME H2Assumption, WindowInv, SubmitRequest
    PROVE  /\ \E f \in FrameType : Asks(end["client"], end'["client"], f)
           /\ end'["server"] = end["server"]
           /\ Cardinality(Open(end["client"])) < end["client"].peerStreams
           /\ ~end["client"].closed /\ ~end["client"].goawayRecv
<1> DEFINE S == end["client"]
           id == S.nextId
<1>1. /\ DOMAIN end = Ends /\ plan \in PlanType /\ GoodEnd(S) /\ S.server = FALSE /\ IsEnd(S)
      /\ S.nextId % 2 = 1
  BY InvParts DEF Joined, GoodEnd
<1>2. plan.tunnel \in BOOLEAN
  BY <1>1 DEF PlanType
<1>3. PICK fin \in BOOLEAN :
        LET n == NewStream(S, FALSE)
            flags == {"HEAD_SENT"} \cup (IF fin THEN {"LOCAL_END"} ELSE {})
        IN  Step("client",
              [Put(S, Headers(id, fin, plan.tunnel)) EXCEPT
                 !.streams = [i \in Open(S) \cup {id} |->
                                IF i = id THEN [n EXCEPT !.flags = flags] ELSE @[i]],
                 !.nextId = id + 2,
                 !.blind = IF S.gotSettings THEN @ ELSE @ \cup {id}])
  BY DEF SubmitRequest
<1> DEFINE f == Headers(id, fin, plan.tunnel)
           P == Put(S, f)
           flags == {"HEAD_SENT"} \cup (IF fin THEN {"LOCAL_END"} ELSE {})
           n == [NewStream(S, FALSE) EXCEPT !.flags = flags]
           A == Open(S) \cup {id}
           ss == [i \in A |-> IF i = id THEN n ELSE P.streams[i]]
           blind == IF S.gotSettings THEN P.blind ELSE P.blind \cup {id}
           R == end'["client"]
<1>5. S.nextId \in Nat /\ Open(S) \subseteq Ids
  BY <1>1, EndFields
<1>6. id \in Ids /\ Known(S) = id - 1
  <2>1. id <= MaxId
    BY DEF SubmitRequest
  <2>2. id % 2 = 1
    BY <1>1
  <2>3. id # 0
    BY <2>2
  <2>4. MaxId \in Nat
    BY DEF H2Assumption
  <2>5. PICK k \in Nat : k = id
    BY <1>5
  <2>6. k \in 1 .. MaxId
    BY <2>1, <2>3, <2>4, <2>5
  <2>7. id \in Ids
    BY <2>2, <2>5, <2>6 DEF Ids
  <2> QED
    BY <1>1, <1>5, <2>7 DEF Known
<1>7. f \in FrameType /\ f.t = "headers" /\ f.id = id /\ f.fin = fin
  BY <1>2, <1>6 DEF Headers, FrameType
<1>8. IsEnd(P)
  BY <1>1, <1>7, PutIs
<1>8a. P.streams = S.streams /\ P.blind = S.blind
  BY <1>1, <1>7, PutRest DEF Rest, Same
<1>9. n.flags = flags
  BY DEF NewStream
<1>10. R = Asked(S, f, ss, id + 2, blind) /\ end'["server"] = end["server"]
  <2>0. Asked(S, f, ss, id + 2, blind)
          = [P EXCEPT !.streams = ss, !.nextId = id + 2, !.blind = blind]
    BY DEF Asked
  <2>1. [P EXCEPT !.streams = ss, !.nextId = id + 2, !.blind = blind]
          = [Put(S, Headers(id, fin, plan.tunnel)) EXCEPT
                 !.streams = [i \in Open(S) \cup {id} |->
                                IF i = id THEN [NewStream(S, FALSE) EXCEPT !.flags =
                                                  {"HEAD_SENT"} \cup (IF fin THEN {"LOCAL_END"} ELSE {})]
                                ELSE @[i]],
                 !.nextId = id + 2,
                 !.blind = IF S.gotSettings THEN @ ELSE @ \cup {id}]
    <3> HIDE DEF f, n
    <3>1. n = [NewStream(S, FALSE) EXCEPT !.flags =
                 {"HEAD_SENT"} \cup (IF fin THEN {"LOCAL_END"} ELSE {})]
      BY DEF n
    <3>2. f = Headers(id, fin, plan.tunnel)
      BY DEF f
    <3>3. P.blind = [P EXCEPT !.streams = ss, !.nextId = id + 2].blind
      <4> HIDE DEF P, ss, FrameType, StreamType
      <4> QED
        BY <1>8 DEF IsEnd, EndType
    <3> HIDE DEF FrameType, StreamType, NewStream
    <3> QED
      BY <1>8, <3>1, <3>2, <3>3 DEF IsEnd, EndType
  <2>2. Step("client", Asked(S, f, ss, id + 2, blind))
    BY <1>3, <2>0, <2>1
  <2> HIDE DEF f, ss, blind
  <2> QED
    BY <1>1, <2>2 DEF Step, Ends
<1> HIDE DEF n, f, P, flags
<1>11. DOMAIN ss = A /\ ss[id] = n /\ \A i \in Open(S) : i # id => ss[i] = S.streams[i]
  BY <1>8a
<1>12. id \notin Open(S)
  <2>1. \A i \in Open(S) : i <= id - 1
    BY <1>1, <1>6 DEF GoodEnd, OfKnown
  <2>2. ~(id <= id - 1)
    BY <1>5
  <2> QED
    BY <2>1, <2>2
<1> HIDE DEF ss
<1>13. blind = S.blind \/ (~S.gotSettings /\ blind = S.blind \cup {id})
  <2>1. CASE S.gotSettings
    <3>1. blind = P.blind
      BY <2>1
    <3> HIDE DEF blind, S
    <3> QED
      BY <1>8a, <3>1
  <2>2. CASE ~S.gotSettings
    BY <1>8a, <2>2
  <2> QED
    BY <2>1, <2>2
<1>14. id \notin blind => S.gotSettings
  BY <1>8a
<1> HIDE DEF blind
<1>15. /\ R.streams = ss /\ R.nextId = id + 2 /\ R.blind = blind /\ R.server = S.server
       /\ R.closed = S.closed /\ R.out = Append(S.out, f) /\ SameLimit(S, R) /\ R.rd = S.rd
  <2>1. PICK m : m = id + 2
    OBVIOUS
  <2>2. R = Asked(S, f, ss, m, blind)
    BY <1>10, <2>1
  <2>3. IsEnd(S) /\ f \in FrameType
    BY <1>1, <1>7
  <2> HIDE DEF R, id, S
  <2>4. /\ R.streams = ss /\ R.nextId = m /\ R.blind = blind /\ R.server = S.server
        /\ R.closed = S.closed /\ R.out = Append(S.out, f) /\ SameLimit(S, R) /\ R.rd = S.rd
    BY ONLY <2>2, <2>3, AskedIs
  <2> QED
    BY <2>1, <2>4
<1>16. Open(R) = Open(S) \cup {id}
  BY <1>11, <1>15 DEF Open
<1>17. \A j \in Open(S) : R.streams[j].flags = S.streams[j].flags
  BY <1>11, <1>12, <1>15
<1>18. ~Has(R, id, "REMOTE_END") /\ (Has(R, id, "LOCAL_END") <=> fin)
  <2>1. R.streams[id].flags = flags
    BY <1>9, <1>11, <1>15
  <2>2. "REMOTE_END" \notin flags /\ ("LOCAL_END" \in flags <=> fin)
    BY DEF flags
  <2> QED
    BY <2>1, <2>2 DEF Has
<1>19. GoodEnd(R)
  <2>1. WindowInv'
    BY RequestStep
  <2>2. IsEnd(R) /\ OfKnown(R)
    BY <2>1 DEF WindowInv, EndsTyped, StreamsInOrder, Ends
  <2>3. Known(R) \in Nat
    <3>1. R.server = FALSE /\ R.nextId = id + 2
      BY <1>1, <1>15
    <3>2. PICK k \in Nat : k = id
      BY <1>5
    <3>3. Known(R) = (k + 2) - 1
      BY <3>1, <3>2 DEF Known
    <3> QED
      BY <3>3
  <2> QED
    BY <2>2, <2>3 DEF GoodEnd
<1>20. Asks(S, R, f)
  <2> HIDE DEF R
  <2> QED
    BY <1>6, <1>7, <1>13, <1>14, <1>15, <1>16, <1>17, <1>18, <1>19 DEF Asks
<1>21. Cardinality(Open(S)) < S.peerStreams /\ ~S.closed /\ ~S.goawayRecv
  <2>1. Cardinality(Open(S)) < Smaller(S.wantStreams, S.peerStreams)
    BY DEF SubmitRequest
  <2>2. S.wantStreams \in Int /\ S.peerStreams \in Int
    BY <1>1, EndFields
  <2>3. Cardinality(Open(S)) \in Nat
    BY <1>5, IdsFinite
  <2>4. Smaller(S.wantStreams, S.peerStreams) <= S.peerStreams /\ Smaller(S.wantStreams, S.peerStreams) \in Int
    BY <2>2 DEF Smaller
  <2>5. Cardinality(Open(S)) < S.peerStreams
    BY <2>1, <2>2, <2>3, <2>4
  <2> QED
    BY <2>5 DEF SubmitRequest
<1> QED
  BY <1>7, <1>10, <1>20, <1>21

---------------------------------------------------------------------------
(* The steps, as what they do to the end that takes them.                  *)

Resets(S, R) ==
    /\ S.server /\ Lives(S, R, {}) /\ Deaf(S, R)
    /\ \E n \in Nat \cup {S.wantStreams} : Sets(S, R, n)
Moves(S, R) == Own(S, R) \/ Piece(S, R) \/ (\E id \in Ids : Leaves(S, R, id)) \/ Resets(S, R)

Acts(e) == ~end[e].closed /\ \E R : Step(e, R) /\ Moves(end[e], R)

LEMMA OwnActs ==
    ASSUME NEW e, ~end[e].closed, NEW R, Step(e, R), Own(end[e], R)
    PROVE  Acts(e)
  BY DEF Acts, Moves

LEMMA ResponseActs ==
    ASSUME H2Assumption, WindowInv, NEW id \in Ids, SubmitResponse(id)
    PROVE  Acts("server")
<1>1. PICK S : S = end["server"]
  OBVIOUS
<1>2. GoodEnd(S)
  BY <1>1, InvParts DEF Ends
<1>3. id \in Open(S) /\ ~S.closed /\ ~end["server"].closed
  BY <1>1 DEF SubmitResponse
<1>4. CASE S.pending >= CfgOut
  <2>1. {"HBLOCKED"} \in SUBSET (StreamFlags \ {"LOCAL_END", "REMOTE_END"})
    BY DEF StreamFlags
  <2>2. {} \cap {"LOCAL_END", "REMOTE_END"} = {}
    OBVIOUS
  <2>3. Own(S, Flag(S, id, {"HBLOCKED"}))
    BY <1>2, <1>3, <2>1, <2>2, WaitOwn
  <2>4. Step("server", Flag(S, id, {"HBLOCKED"}))
    BY <1>1, <1>4 DEF SubmitResponse
  <2> QED
    BY <1>1, <1>3, <2>3, <2>4, OwnActs
<1>5. CASE ~(S.pending >= CfgOut)
  <2>1. PICK fin \in BOOLEAN, plain \in {FALSE, plan.tunnel} :
          LET Q == Flag(Put(S, Headers(id, fin, FALSE)), id, {"HEAD_SENT"})
              T == IF plain THEN [Q EXCEPT !.streams[id].flags = @ \ {"TUNNEL"}] ELSE Q
          IN  Step("server", IF fin THEN LocalEnd(T, id) ELSE T)
    BY <1>1, <1>5 DEF SubmitResponse
  <2>2. PICK R :
          LET Q == Flag(Put(S, Headers(id, fin, FALSE)), id, {"HEAD_SENT"})
              T == IF plain THEN [Q EXCEPT !.streams[id].flags = @ \ {"TUNNEL"}] ELSE Q
          IN  R = (IF fin THEN LocalEnd(T, id) ELSE T)
    OBVIOUS
  <2>3. Own(S, R)
    BY <1>2, <1>3, <2>2, ResponseOwn
  <2> QED
    BY <1>1, <1>3, <2>1, <2>2, <2>3, OwnActs
<1> QED
  BY <1>4, <1>5

LEMMA TrailersActs ==
    ASSUME H2Assumption, WindowInv, NEW e \in Ends, NEW id \in Ids, SendTrailers(e, id)
    PROVE  Acts(e)
<1>1. PICK S : S = end[e]
  OBVIOUS
<1>2. GoodEnd(S)
  BY <1>1, InvParts
<1>3. id \in Open(S) /\ ~S.closed /\ ~end[e].closed
  BY <1>1 DEF SendTrailers
<1>4. Own(S, Flag(S, id, {"HBLOCKED"}))
  <2>1. {"HBLOCKED"} \in SUBSET (StreamFlags \ {"LOCAL_END", "REMOTE_END"})
    BY DEF StreamFlags
  <2>2. {} \cap {"LOCAL_END", "REMOTE_END"} = {}
    OBVIOUS
  <2> QED
    BY <1>2, <1>3, <2>1, <2>2, WaitOwn
<1>5. Own(S, LocalEnd(Put(S, Headers(id, TRUE, FALSE)), id))
  BY <1>2, <1>3, TrailersOwn
<1>6. Step(e, IF S.pending >= CfgOut THEN Flag(S, id, {"HBLOCKED"})
              ELSE LocalEnd(Put(S, Headers(id, TRUE, FALSE)), id))
  BY <1>1 DEF SendTrailers
<1>7. PICK R : R = IF S.pending >= CfgOut THEN Flag(S, id, {"HBLOCKED"})
                   ELSE LocalEnd(Put(S, Headers(id, TRUE, FALSE)), id)
  OBVIOUS
<1>8. Own(S, R)
  BY <1>4, <1>5, <1>7
<1> QED
  BY <1>1, <1>3, <1>6, <1>7, <1>8, OwnActs

LEMMA DataActs ==
    ASSUME H2Assumption, WindowInv, NEW e \in Ends, NEW id \in Ids, SendData(e, id)
    PROVE  Acts(e)
<1>1. PICK S : S = end[e]
  OBVIOUS
<1>2. GoodEnd(S) /\ plan \in PlanType
  BY <1>1, InvParts
<1>3. id \in Open(S) /\ ~S.closed /\ ~end[e].closed
  BY <1>1 DEF SendData
<1>4. PICK n \in 0 .. plan.body[e], fin \in BOOLEAN : Step(e, Sent(S, id, n, fin))
  BY <1>1 DEF SendData
<1>5. n \in Nat
  BY <1>2 DEF PlanType
<1>6. Own(S, Sent(S, id, n, fin))
  BY <1>2, <1>3, <1>5, SentOwn
<1> QED
  BY <1>1, <1>3, <1>4, <1>6, OwnActs

LEMMA ResetActs ==
    ASSUME H2Assumption, WindowInv, NEW e \in Ends, NEW id \in Ids, Reset(e, id)
    PROVE  Acts(e)
<1>1. PICK S : S = end[e]
  OBVIOUS
<1>2. GoodEnd(S)
  BY <1>1, InvParts
<1>3. id \in Open(S) /\ ~S.closed /\ ~end[e].closed
  BY <1>1 DEF Reset
<1>4. PICK how \in Endings : how = IF Has(S, id, "REMOTE_END") THEN "done" ELSE "ours"
  BY DEF Endings
<1>5. PICK code \in Codes \ {"refused"} : code = "cancel"
  BY DEF Codes
<1>6. Step(e, RemoveStream(Queue(S, Rst(id, code)), id, FALSE, how))
  BY <1>1, <1>4, <1>5 DEF Reset
<1>7. Own(S, RemoveStream(Queue(S, Rst(id, code)), id, FALSE, how))
  BY <1>2, <1>3, ResetOwn
<1> QED
  BY <1>1, <1>3, <1>6, <1>7, OwnActs

LEMMA ConsumedActs ==
    ASSUME H2Assumption, WindowInv, NEW e \in Ends, NEW id \in Ids, Consumed(e, id)
    PROVE  Acts(e)
<1>1. PICK S : S = end[e]
  OBVIOUS
<1>2. GoodEnd(S)
  BY <1>1, InvParts
<1>3. id \in Open(S) /\ ~S.closed /\ ~end[e].closed
  BY <1>1 DEF Consumed
<1>4. PICK n \in 1 .. S.streams[id].held, fast \in BOOLEAN :
        Step(e, ConnCredit(StreamCredit([S EXCEPT !.streams[id].held = @ - n], id, n, fast), n))
  BY <1>1 DEF Consumed
<1>5. n \in Nat /\ n <= S.streams[id].held
  OBVIOUS
<1>6. Own(S, ConnCredit(StreamCredit([S EXCEPT !.streams[id].held = @ - n], id, n, fast), n))
  BY <1>2, <1>3, <1>5, ConsumedOwn
<1> QED
  BY <1>1, <1>3, <1>4, <1>6, OwnActs

LEMMA OtherActs ==
    ASSUME H2Assumption, WindowInv, NEW e \in Ends,
           \/ SendPing(e) \/ Shutdown(e) \/ DueWritable(e) \/ DueClose(e) \/ FeedNothing(e)
    PROVE  Acts(e)
<1>1. PICK S : S = end[e]
  OBVIOUS
<1>2. GoodEnd(S)
  BY <1>1, InvParts
<1>3. ~end[e].closed
  BY DEF SendPing, Shutdown, DueWritable, DueClose, FeedNothing
<1>4. CASE SendPing(e)
  <2>1. Step(e, Put(S, Ping))
    BY <1>1, <1>4 DEF SendPing
  <2>2. Own(S, Put(S, Ping))
    BY <1>2, PingOwn
  <2> QED
    BY <1>1, <1>3, <2>1, <2>2, OwnActs
<1>5. CASE Shutdown(e)
  <2>1. PICK R : R = [Put(S, Goaway(S.lastActed, "none")) EXCEPT !.goawaySent = TRUE]
    OBVIOUS
  <2>2. Step(e, R)
    BY <1>1, <1>5, <2>1 DEF Shutdown
  <2>3. Own(S, R)
    BY <1>2, <2>1, ShutdownOwn
  <2> QED
    BY <1>1, <1>3, <2>2, <2>3, OwnActs
<1>6. CASE DueWritable(e)
  <2>1. PICK id \in Writable(S) :
          Step(e, [S EXCEPT !.sweepGoaway = FALSE,
                            !.streams[id].flags = @ \ {"BLOCKED", "HBLOCKED"}])
    BY <1>1, <1>6 DEF DueWritable
  <2>2. id \in Open(S)
    BY <2>1 DEF Writable
  <2>3. Own(S, [S EXCEPT !.sweepGoaway = FALSE,
                         !.streams[id].flags = @ \ {"BLOCKED", "HBLOCKED"}])
    BY <1>2, <2>2, WritableOwn
  <2> QED
    BY <1>1, <1>3, <2>1, <2>3, OwnActs
<1>7. CASE DueClose(e)
  <2>1. PICK R : R = [Swept(S) EXCEPT !.closed = TRUE]
    OBVIOUS
  <2>2. Step(e, R)
    BY <1>1, <1>7, <2>1 DEF DueClose
  <2>3. Own(S, R)
    BY <1>2, <2>1, SweptOwn
  <2> QED
    BY <1>1, <1>3, <2>2, <2>3, OwnActs
<1>8. CASE FeedNothing(e)
  <2>1. Step(e, Swept(S))
    BY <1>1, <1>8 DEF FeedNothing
  <2>2. Own(S, Swept(S))
    BY <1>2, SweptOwn
  <2> QED
    BY <1>1, <1>3, <2>1, <2>2, OwnActs
<1> QED
  BY <1>4, <1>5, <1>6, <1>7, <1>8

LEMMA ChangeActs ==
    ASSUME H2Assumption, WindowInv, Change
    PROVE  Acts("server")
<1>1. PICK S : S = end["server"]
  OBVIOUS
<1>2. GoodEnd(S) /\ plan \in PlanType /\ S.server
  BY <1>1, InvParts DEF Ends
<1> DEFINE C == [call : {"streams", "window", "cap"}, n : Nat]
<1>3. plan.changes \in Seq(C) /\ plan.changes # << >>
  BY <1>2 DEF Change, PlanType
<1>4. PICK q \in Seq(C) : q = plan.changes
  BY <1>3
<1>5. Head(q) \in C
  <2>1. q # << >>
    BY <1>3, <1>4
  <2> HIDE DEF C
  <2> QED
    BY <2>1
<1>7. PICK ch \in C : ch = Head(q)
  BY <1>5
<1>8. PICK R : R = CASE ch.call = "streams" -> Set(S, ch.n, S.wantWindow)
                     [] ch.call = "window" -> Set(S, S.wantStreams, ch.n)
                     [] ch.call = "cap" -> CapWindow(S, ch.n)
  OBVIOUS
<1>9. Step("server", R) /\ ~end["server"].closed
  BY <1>1, <1>4, <1>7, <1>8 DEF Change
<1>10. ch.n \in Nat /\ ch.n \in Int /\ ch.call \in {"streams", "window", "cap"}
  OBVIOUS
<1>11. S.wantWindow \in Int /\ S.wantStreams \in Int
  BY <1>2, EndFields DEF GoodEnd
<1>12. Resets(S, R)
  <2>1. CASE ch.call = "streams"
    <3>1. R = Set(S, ch.n, S.wantWindow)
      BY <1>8, <2>1
    <3>2. Lives(S, R, {}) /\ Deaf(S, R) /\ Sets(S, R, ch.n)
      BY <1>2, <1>10, <1>11, <3>1, SetLives
    <3> QED
      BY <1>2, <1>10, <3>2 DEF Resets
  <2>2. CASE ch.call = "window"
    <3>1. R = Set(S, S.wantStreams, ch.n)
      BY <1>8, <2>2
    <3>2. Lives(S, R, {}) /\ Deaf(S, R) /\ Sets(S, R, S.wantStreams)
      BY <1>2, <1>10, <1>11, <3>1, SetLives
    <3> QED
      BY <1>2, <3>2 DEF Resets
  <2>3. CASE ch.call = "cap"
    <3>1. R = CapWindow(S, ch.n)
      BY <1>8, <2>3
    <3>2. Lives(S, R, {}) /\ Deaf(S, R) /\ Sets(S, R, S.wantStreams)
      BY <1>2, <1>10, <3>1, CapWindowLives
    <3> QED
      BY <1>2, <3>2 DEF Resets
  <2> QED
    BY <1>10, <2>1, <2>2, <2>3
<1> QED
  BY <1>1, <1>9, <1>12 DEF Acts, Moves

LEMMA RefusedActs ==
    ASSUME H2Assumption, WindowInv, NEW e \in Ends, DueRefused(e)
    PROVE  Acts(e)
<1>1. PICK S : S = end[e]
  OBVIOUS
<1>2. GoodEnd(S)
  BY <1>1, InvParts
<1>3. ~end[e].closed
  BY DEF DueRefused
<1>4. PICK id \in LeftOut(S) :
        Step(e, [RemoveStream(S, id, FALSE, "peer") EXCEPT !.refused = @ \cup {id}])
  BY <1>1 DEF DueRefused
<1>5. Leaves(S, [RemoveStream(S, id, FALSE, "peer") EXCEPT !.refused = @ \cup {id}], id)
  BY <1>2, LeavesIs
<1>6. id \in Ids
  BY <1>2, <1>4, EndFields DEF LeftOut, BeyondLast, GoodEnd
<1>7. Moves(S, [RemoveStream(S, id, FALSE, "peer") EXCEPT !.refused = @ \cup {id}])
  BY <1>5, <1>6 DEF Moves
<1> QED
  BY <1>1, <1>3, <1>4, <1>7 DEF Acts

LEMMA PieceActs ==
    ASSUME H2Assumption, WindowInv, NEW e \in Ends, ReadPiece(e)
    PROVE  Acts(e)
<1>1. PICK S : S = end[e]
  OBVIOUS
<1>2. GoodEnd(S)
  BY <1>1, InvParts
<1>3. ~end[e].closed
  BY DEF ReadPiece
<1>4. PICK n \in Smaller(1, S.rd.left) .. S.rd.left : Step(e, OnPiece(Swept(S), n))
  BY <1>1 DEF ReadPiece
<1>5. n \in Nat /\ n <= S.rd.left
  <2>1. S.rd.left \in Nat
    <3>1. S.rd \in [id : Ids \cup {0}, left : Nat, fin : BOOLEAN, drop : BOOLEAN]
      <4> HIDE DEF FrameType, StreamType
      <4> QED
        BY <1>2 DEF GoodEnd, IsEnd, EndType
    <3> QED
      BY <3>1
  <2>2. PICK k \in Nat : k = S.rd.left
    BY <2>1
  <2>3. n \in Smaller(1, k) .. k
    BY <2>2
  <2> QED
    BY <2>2, <2>3 DEF Smaller
<1>6. Piece(S, OnPiece(Swept(S), n))
  BY <1>2, <1>5, PieceIs
<1> QED
  BY <1>1, <1>3, <1>4, <1>6 DEF Acts, Moves

(* A step is one of an end's own, a request, or the reading of a frame.    *)
LEMMA NextMoves ==
    ASSUME H2Assumption, WindowInv, Next
    PROVE  \/ Acts("client") \/ Acts("server") \/ SubmitRequest
           \/ ReadFrame("client") \/ ReadFrame("server")
<1>1. CASE SubmitRequest
  BY <1>1
<1>2. CASE Change
  BY <1>2, ChangeActs
<1>3. ASSUME NEW id \in Ids, SubmitResponse(id) PROVE Acts("server")
  BY <1>3, ResponseActs
<1>4. ASSUME NEW e \in Ends, NEW id \in Ids,
             SendData(e, id) \/ SendTrailers(e, id) \/ Reset(e, id) \/ Consumed(e, id)
      PROVE  Acts(e)
  BY <1>4, DataActs, TrailersActs, ResetActs, ConsumedActs
<1>5. ASSUME NEW e \in Ends,
             \/ DueRefused(e) \/ DueWritable(e) \/ DueClose(e) \/ FeedNothing(e)
             \/ ReadPiece(e) \/ SendPing(e) \/ Shutdown(e)
      PROVE  Acts(e)
  BY <1>5, RefusedActs, PieceActs, OtherActs
<1>6. \A e \in Ends : e = "client" \/ e = "server"
  BY DEF Ends
<1> QED
  BY <1>1, <1>2, <1>3, <1>4, <1>5, <1>6 DEF Next

---------------------------------------------------------------------------
(* What is refused was never acted on.                                     *)

(* A frame has left the output, and nothing else has changed that counts.  *)
LEMMA LeftIs ==
    ASSUME NEW S, GoodEnd(S), S.out # << >>
    PROVE  LET R == OutputSent(S) IN
           /\ GoodEnd(R) /\ Same(S, R) /\ SameLimit(S, R) /\ R.sweepGoaway = S.sweepGoaway
           /\ R.rd = S.rd /\ R.streams = S.streams /\ R.closed = S.closed
           /\ R.goawaySent = S.goawaySent /\ R.out = Tail(S.out)
           /\ Head(S.out) \in FrameType /\ Tail(S.out) \in Seq(FrameType)
           /\ Len(Tail(S.out)) = Len(S.out) - 1 /\ Len(S.out) >= 1
           /\ \A i \in 1 .. Len(S.out) - 1 : Tail(S.out)[i] = S.out[i + 1]
<1>1. GoodEnd(OutputSent(S)) /\ Head(S.out) \in FrameType
  BY OutputSentIs
<1>2. S.out \in Seq(FrameType)
  BY OutIs
<1>3. /\ Tail(S.out) \in Seq(FrameType) /\ Len(Tail(S.out)) = Len(S.out) - 1 /\ Len(S.out) >= 1
      /\ \A i \in 1 .. Len(S.out) - 1 : Tail(S.out)[i] = S.out[i + 1]
  <2>1. PICK o \in Seq(FrameType) : o = S.out
    BY <1>2
  <2> HIDE DEF FrameType
  <2>2. o # << >>
    BY <2>1
  <2>3. /\ Tail(o) \in Seq(FrameType) /\ Len(Tail(o)) = Len(o) - 1 /\ Len(o) >= 1
        /\ \A i \in 1 .. Len(o) - 1 : Tail(o)[i] = o[i + 1]
    BY <2>2, SMTT(30)
  <2> QED
    BY <2>1, <2>3
<1>4. PICK pending, queued :
        OutputSent(S) = [S EXCEPT !.out = Tail(S.out), !.pending = pending,
                                  !.ctlQueued = queued, !.sweepWritable = TRUE]
  BY DEF OutputSent
<1>5. LET R == OutputSent(S) IN
      /\ Same(S, R) /\ SameLimit(S, R) /\ R.sweepGoaway = S.sweepGoaway
      /\ R.rd = S.rd /\ R.streams = S.streams /\ R.closed = S.closed
      /\ R.goawaySent = S.goawaySent /\ R.out = Tail(S.out)
  <2> HIDE DEF FrameType, StreamType
  <2>1. IsEnd(S)
    BY DEF GoodEnd
  <2> QED
    BY <1>4, <2>1, ZenonT(60) DEF IsEnd, EndType, Same, SameLimit, SameNumbers
<1> QED
  BY <1>1, <1>3, <1>5

(* What the server has said of what it refused and what it left out is     *)
(* true of what it acted on, and what the client was told of it is too.    *)
Honest(c, s) ==
    /\ \A j \in s.acted : j <= s.lastActed
    /\ s.lastActed <= s.lastPeerId
    /\ \A i \in DOMAIN s.out :
         /\ s.out[i].t = "rst" /\ s.out[i].code = "refused" =>
              s.out[i].id \notin s.acted /\ s.out[i].id <= s.lastPeerId
         /\ s.out[i].t = "goaway" => s.goawaySent /\ s.out[i].last >= s.lastActed
    /\ c.goawayRecv => s.goawaySent /\ c.goawayLast >= s.lastActed
    /\ c.sweepGoaway => c.goawayRecv
    /\ \A j \in c.refused : j \notin s.acted /\ (s.goawaySent \/ j <= s.lastPeerId)

LEMMA HistoryTypes ==
    ASSUME NEW S, GoodEnd(S)
    PROVE  /\ S.acted \subseteq Ids /\ S.overLimit \subseteq Ids /\ S.refused \subseteq Ids
           /\ S.blind \subseteq Ids /\ S.lastActed \in Nat /\ S.lastPeerId \in Nat
           /\ S.goawayLast \in Int /\ S.goawaySent \in BOOLEAN /\ S.rd \in RdType
           /\ S.gotSettings \in BOOLEAN /\ S.chgInflight \in BOOLEAN /\ S.settingsAcked \in BOOLEAN
           /\ S.nextId \in Nat /\ S.out \in Seq(FrameType) /\ Len(S.out) \in Nat
           /\ DOMAIN S.out = 1 .. Len(S.out) /\ \A i \in 1 .. Len(S.out) : S.out[i] \in FrameType
<1> HIDE DEF FrameType, StreamType
<1>1. IsEnd(S) /\ S.out \in Seq(FrameType)
  BY OutIs DEF GoodEnd
<1>2. /\ S.acted \subseteq Ids /\ S.overLimit \subseteq Ids /\ S.refused \subseteq Ids
      /\ S.blind \subseteq Ids /\ S.goawaySent \in BOOLEAN /\ S.rd \in RdType
      /\ S.gotSettings \in BOOLEAN /\ S.chgInflight \in BOOLEAN /\ S.settingsAcked \in BOOLEAN
  BY <1>1 DEF IsEnd, EndType, RdType
<1>3. S.lastActed \in Nat /\ S.lastPeerId \in Nat /\ S.goawayLast \in Int /\ S.nextId \in Nat
  BY <1>1, EndFields
<1>4. Len(S.out) \in Nat /\ DOMAIN S.out = 1 .. Len(S.out)
      /\ \A i \in 1 .. Len(S.out) : S.out[i] \in FrameType
  BY <1>1
<1> QED
  BY <1>1, <1>2, <1>3, <1>4

(* The server goes on.                                                     *)
LEMMA ServerHonest ==
    ASSUME NEW c, NEW s, GoodEnd(c), GoodEnd(s), Honest(c, s), NEW R, Goes(s, R), Polite(s, R)
    PROVE  Honest(c, R)
<1>1. /\ R.acted = s.acted /\ R.lastActed = s.lastActed /\ R.lastPeerId = s.lastPeerId
      /\ s.goawaySent => R.goawaySent
      /\ GoodEnd(R)
  BY DEF Goes, Same
<1>2. s.lastActed \in Nat /\ DOMAIN R.out = 1 .. Len(R.out) /\ DOMAIN s.out = 1 .. Len(s.out)
      /\ Len(s.out) \in Nat /\ Len(R.out) \in Nat
  BY <1>1, HistoryTypes
<1>3. ASSUME NEW i \in DOMAIN R.out
      PROVE  /\ R.out[i].t = "rst" /\ R.out[i].code = "refused" =>
                  R.out[i].id \notin R.acted /\ R.out[i].id <= R.lastPeerId
             /\ R.out[i].t = "goaway" => R.goawaySent /\ R.out[i].last >= R.lastActed
  <2>1. CASE i \in 1 .. Len(s.out)
    <3>1. R.out[i] = s.out[i] /\ i \in DOMAIN s.out
      BY <1>2, <2>1 DEF Goes
    <3> QED
      BY <1>1, <3>1 DEF Honest
  <2>2. CASE i \in New(s, R)
    <3>1. Fits(s, R, R.out[i]) /\ (R.out[i].t = "rst" => R.out[i].code # "refused")
      BY <2>2 DEF Goes, Polite
    <3>2. R.out[i].t = "goaway" => R.goawaySent /\ R.out[i].last = s.lastActed
      BY <3>1 DEF Fits
    <3> QED
      BY <1>1, <1>2, <3>1, <3>2
  <2> QED
    BY <1>2, <2>1, <2>2 DEF New
<1> QED
  BY <1>1, <1>3 DEF Honest

(* So does the client; it may have been told of a refusal.                 *)
LEMMA ClientHonest ==
    ASSUME NEW c, NEW s, GoodEnd(c), GoodEnd(s), Honest(c, s), NEW C, GoodEnd(C),
           \A j \in C.refused : j \in c.refused \/ (j \notin s.acted /\ (s.goawaySent \/ j <= s.lastPeerId)),
           C.goawayRecv => \/ c.goawayRecv /\ C.goawayLast = c.goawayLast
                           \/ s.goawaySent /\ C.goawayLast >= s.lastActed,
           C.sweepGoaway => c.sweepGoaway \/ C.goawayRecv,
           c.goawayRecv => C.goawayRecv
    PROVE  Honest(C, s)
  BY DEF Honest

LEMMA LeavesHonest ==
    ASSUME NEW c, NEW s, GoodEnd(c), GoodEnd(s), Honest(c, s), NEW C, NEW id \in Ids, Leaves(c, C, id)
    PROVE  Honest(C, s)
<1>1. GoodEnd(C) /\ C.refused = c.refused \cup {id} /\ id > c.goawayLast /\ c.sweepGoaway
      /\ C.goawayRecv = c.goawayRecv /\ C.goawayLast = c.goawayLast
      /\ (C.sweepGoaway => c.sweepGoaway)
  BY DEF Leaves, Lives, Goes
<1>2. s.goawaySent /\ c.goawayLast >= s.lastActed
  BY <1>1 DEF Honest
<1>3. id \notin s.acted
  <2>1. ASSUME id \in s.acted PROVE FALSE
    <3>1. id <= s.lastActed
      BY <2>1 DEF Honest
    <3>2. id \in Nat /\ c.goawayLast \in Int /\ s.lastActed \in Nat
      BY HistoryTypes DEF Ids
    <3> QED
      BY <1>1, <1>2, <3>1, <3>2
  <2> QED
    BY <2>1
<1> QED
  BY <1>1, <1>2, <1>3, ClientHonest

(* The client reads what the server said.                                  *)
LEMMA ToldHonest ==
    ASSUME NEW c, NEW s, GoodEnd(c), GoodEnd(s), Honest(c, s), s.out # << >>,
           NEW C, Reading(c, C, Head(s.out))
    PROVE  Honest(C, OutputSent(s))
<1>1. PICK R : R = OutputSent(s)
  OBVIOUS
<1>2. PICK f : f = Head(s.out)
  OBVIOUS
<1>3. /\ GoodEnd(R) /\ Same(s, R) /\ R.goawaySent = s.goawaySent /\ R.out = Tail(s.out)
      /\ Len(Tail(s.out)) = Len(s.out) - 1 /\ Len(s.out) >= 1
      /\ \A i \in 1 .. Len(s.out) - 1 : Tail(s.out)[i] = s.out[i + 1]
  BY <1>1, LeftIs
<1>4. DOMAIN R.out = 1 .. Len(R.out) /\ DOMAIN s.out = 1 .. Len(s.out) /\ Len(s.out) \in Nat
  BY <1>3, HistoryTypes
<1>5. f = s.out[1] /\ 1 \in DOMAIN s.out
  <2>1. s.out \in Seq(FrameType)
    BY OutIs
  <2>2. PICK o \in Seq(FrameType) : o = s.out
    BY <2>1
  <2> HIDE DEF FrameType
  <2> QED
    BY <1>2, <1>3, <1>4, <2>2
<1>6. Honest(c, R)
  <2>1. ASSUME NEW i \in DOMAIN R.out PROVE R.out[i] = s.out[i + 1] /\ i + 1 \in DOMAIN s.out
    BY <1>3, <1>4, <2>1
  <2> QED
    BY <1>3, <2>1 DEF Honest, Same
<1>7. GoodEnd(C) /\ Told(c, C, f) /\ (c.goawayRecv => C.goawayRecv)
  BY <1>2 DEF Reading, Goes
<1>8. ASSUME NEW j \in C.refused
      PROVE  j \in c.refused \/ (j \notin R.acted /\ (R.goawaySent \/ j <= R.lastPeerId))
  <2>1. j \in c.refused \/ (f.t = "rst" /\ f.id = j /\ f.code = "refused")
    BY <1>7, <1>8 DEF Told, IsRst
  <2>2. f.t = "rst" /\ f.code = "refused" => f.id \notin s.acted /\ f.id <= s.lastPeerId
    BY <1>5 DEF Honest
  <2> QED
    BY <1>3, <2>1, <2>2 DEF Same
<1>9. C.goawayRecv => \/ c.goawayRecv /\ C.goawayLast = c.goawayLast
                      \/ R.goawaySent /\ C.goawayLast >= R.lastActed
  <2>1. f.t = "goaway" => s.goawaySent /\ f.last >= s.lastActed
    BY <1>5 DEF Honest
  <2> QED
    BY <1>3, <1>7, <2>1 DEF Told, Same
<1>10. C.sweepGoaway => c.sweepGoaway \/ C.goawayRecv
  BY <1>7 DEF Told
<1> QED
  BY <1>1, <1>3, <1>6, <1>7, <1>8, <1>9, <1>10, ClientHonest

(* The server reads a new request.                                         *)
LEMMA MetHonest ==
    ASSUME NEW c, NEW s, GoodEnd(c), GoodEnd(s), Honest(c, s), NEW f \in FrameType,
           NewRequest(s, f), NEW R, Meets(s, R, f), Refuses(s, R, f) \/ Accepts(s, R, f)
    PROVE  Honest(c, R)
<1>1. GoodEnd(R) /\ R.lastPeerId = f.id /\ f.id > s.lastPeerId /\ (s.goawaySent => R.goawaySent)
  BY DEF Meets, NewRequest
<1>2. s.lastActed \in Nat /\ s.lastPeerId \in Nat /\ DOMAIN R.out = 1 .. Len(R.out)
      /\ DOMAIN s.out = 1 .. Len(s.out) /\ Len(s.out) \in Nat /\ Len(R.out) \in Nat
      /\ s.acted \subseteq Ids /\ c.refused \subseteq Ids /\ c.goawayLast \in Int
      /\ \A i \in 1 .. Len(s.out) : s.out[i] \in FrameType
  BY <1>1, HistoryTypes
<1>3. f.id \in Nat
  BY FrameTypes DEF NewRequest, Ids
<1>4. \A j \in Ids : j \in Nat
  BY DEF Ids
<1>5. (f.id \notin s.acted /\ f.id \notin c.refused) \/ s.goawaySent
  <2>1. ASSUME f.id \in s.acted PROVE FALSE
    BY <1>1, <1>2, <1>3, <2>1 DEF Honest
  <2>2. ASSUME f.id \in c.refused, ~s.goawaySent PROVE FALSE
    BY <1>1, <1>2, <1>3, <2>2 DEF Honest
  <2> QED
    BY <2>1, <2>2
<1>6. f.id \notin s.acted
  BY <1>1, <1>2, <1>3 DEF Honest
<1>7. CASE Refuses(s, R, f)
  <2>1. R.acted = s.acted /\ R.lastActed = s.lastActed
    BY <1>7 DEF Refuses
  <2>2. ASSUME NEW i \in DOMAIN R.out
        PROVE  /\ R.out[i].t = "rst" /\ R.out[i].code = "refused" =>
                    R.out[i].id \notin R.acted /\ R.out[i].id <= R.lastPeerId
               /\ R.out[i].t = "goaway" => R.goawaySent /\ R.out[i].last >= R.lastActed
    <3>1. CASE i \in 1 .. Len(s.out)
      <4>1. R.out[i] = s.out[i] /\ i \in DOMAIN s.out
        BY <1>2, <3>1 DEF Meets
      <4>2. R.out[i].t = "rst" => R.out[i].id \in Nat
        BY <1>2, <4>1, FrameTypes DEF Ids
      <4> QED
        BY <1>1, <1>2, <1>3, <2>1, <4>1, <4>2 DEF Honest
    <3>2. CASE i \in New(s, R)
      <4>1. Murmur(R.out[i]) \/ R.out[i] = Rst(f.id, "refused")
        BY <3>2 DEF Meets
      <4>2. R.out[i].t = "rst" => R.out[i].id = f.id
        BY <4>1 DEF Murmur, Rst
      <4>3. R.out[i].t = "goaway" => R.goawaySent /\ R.out[i].last = s.lastActed
        BY <3>2 DEF Meets
      <4> QED
        BY <1>1, <1>2, <1>3, <1>6, <2>1, <4>2, <4>3
    <3> QED
      BY <1>2, <2>2, <3>1, <3>2 DEF New
  <2>3. \A j \in s.acted : j <= R.lastActed
    BY <2>1 DEF Honest
  <2>4. R.lastActed <= R.lastPeerId
    BY <1>1, <1>2, <1>3, <2>1 DEF Honest
  <2>5. ASSUME NEW j \in c.refused PROVE j \notin R.acted /\ (R.goawaySent \/ j <= R.lastPeerId)
    BY <1>1, <1>2, <1>3, <1>4, <2>1, <2>5 DEF Honest
  <2> QED
    BY <1>1, <2>1, <2>2, <2>3, <2>4, <2>5 DEF Honest
<1>8. CASE Accepts(s, R, f)
  <2>1. R.acted = s.acted \cup {f.id} /\ R.lastActed = f.id /\ ~s.goawaySent /\ R.out = s.out
    BY <1>8 DEF Accepts
  <2>2. ~c.goawayRecv /\ \A i \in DOMAIN s.out : s.out[i].t # "goaway"
    BY <2>1 DEF Honest
  <2>3. ASSUME NEW i \in DOMAIN R.out
        PROVE  R.out[i].t = "rst" /\ R.out[i].code = "refused" =>
                 R.out[i].id \notin R.acted /\ R.out[i].id <= R.lastPeerId
    <3>1. R.out[i].t = "rst" => R.out[i].id \in Nat
      BY <1>2, <2>1, <2>3, FrameTypes DEF Ids
    <3> QED
      BY <1>1, <1>2, <1>3, <2>1, <2>3, <3>1 DEF Honest
  <2>4. \A j \in R.acted : j <= R.lastActed
    <3>1. ASSUME NEW j \in s.acted PROVE j <= f.id
      BY <1>1, <1>2, <1>3, <1>4, <3>1 DEF Honest
    <3> QED
      BY <1>3, <2>1, <3>1
  <2>5. R.lastActed <= R.lastPeerId
    BY <1>1, <1>3, <2>1
  <2>6. ASSUME NEW j \in c.refused PROVE j \notin R.acted /\ j <= R.lastPeerId
    <3>1. j \notin s.acted /\ j <= s.lastPeerId /\ j \in Nat
      BY <1>2, <1>4, <2>1, <2>6 DEF Honest
    <3> QED
      BY <1>1, <1>2, <1>3, <2>1, <3>1
  <2> QED
    BY <1>1, <2>1, <2>2, <2>3, <2>4, <2>5, <2>6 DEF Honest
<1> QED
  BY <1>7, <1>8

LEMMA ClientMovesHonest ==
    ASSUME NEW c, NEW s, GoodEnd(c), GoodEnd(s), ~c.server, Honest(c, s), NEW C, Moves(c, C)
    PROVE  Honest(C, s)
<1>1. CASE Own(c, C) \/ Piece(c, C)
  <2>1. GoodEnd(C) /\ SameLimit(c, C)
    BY <1>1 DEF Own, Piece, Lives, Settled, Goes
  <2>2. /\ C.refused = c.refused /\ C.goawayRecv = c.goawayRecv /\ C.goawayLast = c.goawayLast
        /\ C.sweepGoaway => c.sweepGoaway
    BY <2>1 DEF SameLimit
  <2> QED
    BY <2>1, <2>2, ClientHonest
<1>2. CASE \E id \in Ids : Leaves(c, C, id)
  BY <1>2, LeavesHonest
<1>3. CASE Resets(c, C)
  BY <1>3 DEF Resets
<1> QED
  BY <1>1, <1>2, <1>3 DEF Moves

LEMMA ServerMovesHonest ==
    ASSUME NEW c, NEW s, GoodEnd(c), GoodEnd(s), s.server, Honest(c, s), NEW R, Moves(s, R)
    PROVE  Honest(c, R)
<1>1. CASE Own(s, R) \/ Piece(s, R) \/ Resets(s, R)
  <2>1. Goes(s, R) /\ Polite(s, R)
    BY <1>1 DEF Own, Piece, Resets, Lives
  <2> QED
    BY <2>1, ServerHonest
<1>2. CASE \E id \in Ids : Leaves(s, R, id)
  BY <1>2 DEF Leaves
<1> QED
  BY <1>1, <1>2 DEF Moves

LEMMA SentHonest ==
    ASSUME NEW c, NEW s, GoodEnd(c), GoodEnd(s), Honest(c, s), c.out # << >>
    PROVE  Honest(OutputSent(c), s)
<1>1. PICK C : C = OutputSent(c)
  OBVIOUS
<1>2. GoodEnd(C) /\ SameLimit(c, C)
  BY <1>1, LeftIs
<1>3. /\ C.refused = c.refused /\ C.goawayRecv = c.goawayRecv /\ C.goawayLast = c.goawayLast
      /\ C.sweepGoaway => c.sweepGoaway
  BY <1>2 DEF SameLimit
<1> QED
  BY <1>1, <1>2, <1>3, ClientHonest

LEMMA AsksHonest ==
    ASSUME NEW c, NEW s, GoodEnd(c), GoodEnd(s), Honest(c, s), NEW C, NEW f, Asks(c, C, f)
    PROVE  Honest(C, s)
<1>1. GoodEnd(C) /\ SameLimit(c, C)
  BY DEF Asks
<1>2. /\ C.refused = c.refused /\ C.goawayRecv = c.goawayRecv /\ C.goawayLast = c.goawayLast
      /\ C.sweepGoaway => c.sweepGoaway
  BY <1>1 DEF SameLimit
<1> QED
  BY <1>1, <1>2, ClientHonest

(* What a step does to the two ends.                                       *)
LEMMA Stepped ==
    ASSUME WindowInv, NEW e \in Ends, NEW R, Step(e, R)
    PROVE  end'[e] = R /\ end'[Other(e)] = end[Other(e)]
<1>1. DOMAIN end = Ends
  BY InvParts
<1> QED
  BY <1>1 DEF Step, Other, Ends

LEMMA ReadIs ==
    ASSUME WindowInv, NEW e \in Ends, ReadFrame(e)
    PROVE  LET o == Other(e) IN
           /\ ~end[e].closed /\ end[e].rd = NoData /\ end[o].out # << >>
           /\ Head(end[o].out) \in FrameType
           /\ end'[e] = OnFrame(Swept(end[e]), Head(end[o].out))
           /\ end'[o] = OutputSent(end[o])
<1> DEFINE o == Other(e)
           R == OnFrame(Swept(end[e]), Head(end[o].out))
           Q == OutputSent(end[o])
<1>1. DOMAIN end = Ends /\ o \in Ends /\ o # e
  BY InvParts DEF Other, Ends
<1>2. /\ ~end[e].closed /\ end[e].rd = NoData /\ end[o].out # << >>
      /\ end' = [end EXCEPT ![e] = R, ![o] = Q]
  BY <1>1 DEF ReadFrame
<1>3. Head(end[o].out) \in FrameType
  BY <1>1, <1>2, InvParts, OutputSentIs
<1>4. end'[e] = R /\ end'[o] = Q
  <2> HIDE DEF R, Q, o
  <2> QED
    BY <1>1, <1>2
<1> QED
  BY <1>2, <1>3, <1>4

RefusalsHonest == Honest(end["client"], end["server"])

LEMMA HonestStep ==
    ASSUME H2Assumption, WindowInv, RefusalsHonest, Next
    PROVE  RefusalsHonest'
<1>1. PICK c, s : c = end["client"] /\ s = end["server"]
  OBVIOUS
<1>2. GoodEnd(c) /\ GoodEnd(s) /\ ~c.server /\ s.server /\ Honest(c, s)
  BY <1>1, InvParts DEF Ends, RefusalsHonest
<1>3. "client" \in Ends /\ "server" \in Ends /\ Other("client") = "server" /\ Other("server") = "client"
  BY DEF Ends, Other
<1>4. CASE Acts("client")
  <2>1. PICK C : Step("client", C) /\ Moves(c, C)
    BY <1>1, <1>4 DEF Acts
  <2>2. Honest(C, s)
    BY <1>2, <2>1, ClientMovesHonest
  <2>3. end'["client"] = C /\ end'["server"] = s
    BY <1>1, <1>3, <2>1, Stepped
  <2> QED
    BY <2>2, <2>3 DEF RefusalsHonest
<1>5. CASE Acts("server")
  <2>1. PICK R : Step("server", R) /\ Moves(s, R)
    BY <1>1, <1>5 DEF Acts
  <2>2. Honest(c, R)
    BY <1>2, <2>1, ServerMovesHonest
  <2>3. end'["server"] = R /\ end'["client"] = c
    BY <1>1, <1>3, <2>1, Stepped
  <2> QED
    BY <2>2, <2>3 DEF RefusalsHonest
<1>6. CASE SubmitRequest
  <2>1. (\E f \in FrameType : Asks(c, end'["client"], f)) /\ end'["server"] = s
    BY <1>1, <1>6, RequestAsks
  <2>2. Honest(end'["client"], s)
    BY <1>2, <2>1, AsksHonest
  <2> QED
    BY <2>1, <2>2 DEF RefusalsHonest
<1>7. CASE ReadFrame("client")
  <2>1. /\ ~c.closed /\ c.rd = NoData /\ s.out # << >> /\ Head(s.out) \in FrameType
        /\ end'["client"] = OnFrame(Swept(c), Head(s.out)) /\ end'["server"] = OutputSent(s)
    BY <1>1, <1>3, <1>7, ReadIs
  <2>2. ~NewRequest(c, Head(s.out))
    BY <1>2 DEF NewRequest
  <2>3. Reading(c, end'["client"], Head(s.out))
    BY <1>2, <2>1, <2>2, FrameReading
  <2>4. Honest(end'["client"], OutputSent(s))
    BY <1>2, <2>1, <2>3, ToldHonest
  <2> QED
    BY <2>1, <2>4 DEF RefusalsHonest
<1>8. CASE ReadFrame("server")
  <2>1. /\ ~s.closed /\ s.rd = NoData /\ c.out # << >> /\ Head(c.out) \in FrameType
        /\ end'["server"] = OnFrame(Swept(s), Head(c.out)) /\ end'["client"] = OutputSent(c)
    BY <1>1, <1>3, <1>8, ReadIs
  <2>2. PICK R : R = OnFrame(Swept(s), Head(c.out))
    OBVIOUS
  <2>3. Honest(c, R) /\ GoodEnd(R)
    <3>1. CASE NewRequest(s, Head(c.out))
      <4>1. Meets(s, R, Head(c.out)) /\ (Refuses(s, R, Head(c.out)) \/ Accepts(s, R, Head(c.out)))
        BY <1>2, <2>1, <2>2, <3>1, NewReading
      <4> QED
        BY <1>2, <2>1, <3>1, <4>1, MetHonest DEF Meets
    <3>2. CASE ~NewRequest(s, Head(c.out))
      <4>1. Reading(s, R, Head(c.out))
        BY <1>2, <2>1, <2>2, <3>2, FrameReading
      <4> QED
        BY <1>2, <4>1, ServerHonest DEF Reading, Goes
    <3> QED
      BY <3>1, <3>2
  <2>4. Honest(OutputSent(c), R)
    BY <1>2, <2>1, <2>3, SentHonest
  <2> QED
    BY <2>1, <2>2, <2>4 DEF RefusalsHonest
<1> QED
  BY <1>4, <1>5, <1>6, <1>7, <1>8, NextMoves

LEMMA HonestInit ==
    ASSUME H2Assumption, Init
    PROVE  RefusalsHonest
<1>1. PICK c, s : c = end["client"] /\ s = end["server"]
  OBVIOUS
<1>2. c = Created(FALSE) /\ s = Created(TRUE)
  BY <1>1 DEF Init, Ends
<1>3. /\ s.acted = {} /\ s.lastActed = 0 /\ s.lastPeerId = 0
      /\ c.refused = {} /\ c.goawayRecv = FALSE /\ c.sweepGoaway = FALSE
  BY <1>2 DEF Created
<1>4. \A i \in DOMAIN s.out : s.out[i].t \in {"settings", "window"}
  BY <1>2, SMTT(30) DEF Created, Settings, Window
<1> QED
  BY <1>1, <1>3, <1>4 DEF RefusalsHonest, Honest

RefusedInv == WindowInv /\ RefusalsHonest

(* What the client's application is told was refused, by a reset with      *)
(* REFUSED_STREAM or by the last number of a GOAWAY (h2c_due), the         *)
(* server's never saw: sending it again elsewhere does nothing twice,      *)
(* also when the goodbye crosses new requests.                             *)
THEOREM RefusedNeverActedOn ==
    Spec => [](end["client"].refused \cap end["server"].acted = {})
<1>1. Init => RefusedInv
  BY H2Assumption, InvInit, HonestInit DEF RefusedInv
<1>2. RefusedInv /\ [Next]_vars => RefusedInv'
  <2>1. CASE Next
    BY <2>1, H2Assumption, InvStep, HonestStep DEF RefusedInv
  <2>2. CASE UNCHANGED vars
    BY <2>2, H2Assumption, InvStep DEF RefusedInv, RefusalsHonest, vars
  <2> QED
    BY <2>1, <2>2
<1>3. RefusedInv => end["client"].refused \cap end["server"].acted = {}
  BY DEF RefusedInv, RefusalsHonest, Honest
<1> QED
  BY <1>1, <1>2, <1>3, PTL DEF Spec
=============================================================================
