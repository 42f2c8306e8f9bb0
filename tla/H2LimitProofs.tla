--------------------------- MODULE H2LimitProofs ---------------------------
(***************************************************************************)
(* The limit on the streams of an HTTP/2 connection, for all               *)
(* configurations and plans: a client that has read the server's settings  *)
(* is never refused for the number of its streams, however often the limit *)
(* changes (RefusalsCorrect).  The two ends are joined by what is under    *)
(* way between them: for each request under way the proof counts the       *)
(* streams that can still be open at the server when it is read (Counted), *)
(* and holds them against the limit in force by then (Allowed), which the  *)
(* settings and acknowledgements under way determine (Limits).             *)
(***************************************************************************)
EXTENDS H2RefusalProofs

(* How many of the first k frames are of a kind.                           *)
OfKind(out, k, kind) == {i \in 1 .. k : out[i].t = kind}
Count(out, k, kind) == Cardinality(OfKind(out, k, kind))

LEMMA CountIs ==
    ASSUME NEW out, NEW k \in Nat, NEW kind
    PROVE  /\ IsFiniteSet(OfKind(out, k, kind))
           /\ Count(out, k, kind) \in Nat
           /\ k = 0 => Count(out, k, kind) = 0
<1> DEFINE A == {i \in 1 .. k : out[i].t = kind}
<1>1. IsFiniteSet(1 .. k)
  <2>1. 1 \in Int /\ k \in Int
    OBVIOUS
  <2> QED
    BY <2>1, FS_Interval
<1>2. A \subseteq 1 .. k
  OBVIOUS
<1>3. IsFiniteSet(A)
  BY <1>1, <1>2, FS_Subset
<1>4. Cardinality(A) \in Nat
  BY <1>3, FS_CardinalityType
<1>5. k = 0 => A = {}
  OBVIOUS
<1>6. k = 0 => Cardinality(A) = 0
  BY <1>5, FS_EmptySet
<1> QED
  BY <1>3, <1>4, <1>6 DEF Count, OfKind

LEMMA CountMore ==
    ASSUME NEW out, NEW k \in Nat, NEW l \in Nat, k <= l, NEW kind
    PROVE  /\ Count(out, k, kind) <= Count(out, l, kind)
           /\ (\A i \in k + 1 .. l : out[i].t # kind) => Count(out, l, kind) = Count(out, k, kind)
<1> DEFINE A == {i \in 1 .. k : out[i].t = kind}
           B == {i \in 1 .. l : out[i].t = kind}
<1>1. A \in SUBSET B
  OBVIOUS
<1>2. IsFiniteSet(B)
  <2>1. IsFiniteSet(OfKind(out, l, kind))
    BY CountIs
  <2> QED
    BY <2>1 DEF OfKind
<1>3. Cardinality(A) <= Cardinality(B)
  <2> HIDE DEF A, B
  <2> QED
    BY <1>1, <1>2, FS_Subset
<1>4. (\A i \in k + 1 .. l : out[i].t # kind) => A = B
  OBVIOUS
<1>5. (\A i \in k + 1 .. l : out[i].t # kind) => Cardinality(B) = Cardinality(A)
  BY <1>4
<1> QED
  BY <1>3, <1>5 DEF Count, OfKind

LEMMA CountOne ==
    ASSUME NEW out, NEW k \in Nat, NEW kind, out[k + 1].t = kind
    PROVE  Count(out, k + 1, kind) = Count(out, k, kind) + 1
<1> DEFINE A == {i \in 1 .. k : out[i].t = kind}
           B == {i \in 1 .. k + 1 : out[i].t = kind}
<1>1. B = A \cup {k + 1} /\ k + 1 \notin A
  OBVIOUS
<1>2. IsFiniteSet(A)
  <2>1. IsFiniteSet(OfKind(out, k, kind))
    BY CountIs
  <2> QED
    BY <2>1 DEF OfKind
<1>3. Cardinality(A \cup {k + 1}) = Cardinality(A) + 1
  <2> HIDE DEF A, B
  <2>1. PICK x : x = k + 1
    OBVIOUS
  <2>2. Cardinality(A \cup {x}) = Cardinality(A) + 1
    BY <1>1, <1>2, <2>1, FS_AddElement
  <2> QED
    BY <2>1, <2>2
<1> QED
  BY <1>1, <1>3 DEF Count, OfKind

LEMMA CountSame ==
    ASSUME NEW out, NEW other, NEW k \in Nat, \A i \in 1 .. k : other[i] = out[i], NEW kind
    PROVE  Count(other, k, kind) = Count(out, k, kind)
<1>1. {i \in 1 .. k : other[i].t = kind} = {i \in 1 .. k : out[i].t = kind}
  OBVIOUS
<1> QED
  BY <1>1 DEF Count, OfKind

(* Without the first.                                                      *)
Shifted(out, rest, k) == \A i \in 1 .. k : rest[i] = out[i + 1]

LEMMA CountTail ==
    ASSUME NEW out, NEW rest, NEW k \in Nat, Shifted(out, rest, k), NEW kind
    PROVE  Count(rest, k, kind) = Count(out, k + 1, kind) - (IF out[1].t = kind THEN 1 ELSE 0)
<1> DEFINE A == {i \in 1 .. k : rest[i].t = kind}
           B == {i \in 2 .. k + 1 : out[i].t = kind}
           C == {i \in 1 .. k + 1 : out[i].t = kind}
           g == [i \in A |-> i + 1]
<1>1. IsFiniteSet(A)
  <2>1. IsFiniteSet(OfKind(rest, k, kind))
    BY CountIs
  <2> QED
    BY <2>1 DEF OfKind
<1>2. g \in Bijection(A, B)
  <2>1. \A i \in A : g[i] = i + 1 /\ g[i] \in B
    BY DEF Shifted
  <2>2. \A x, y \in A : g[x] = g[y] => x = y
    BY <2>1
  <2>3. ASSUME NEW q \in B PROVE \E x \in A : g[x] = q
    <3>1. q - 1 \in A
      BY DEF Shifted
    <3> QED
      BY <3>1
  <2>4. g \in [A -> B]
    BY <2>1
  <2> HIDE DEF g, A, B
  <2>5. g \in Injection(A, B)
    BY <2>2, <2>4 DEF Injection, IsInjective
  <2>6. g \in Surjection(A, B)
    BY <2>3, <2>4 DEF Surjection
  <2> QED
    BY <2>5, <2>6 DEF Bijection
<1>3. IsFiniteSet(B) /\ Cardinality(B) = Cardinality(A)
  <2>1. ExistsBijection(A, B)
    BY <1>2 DEF ExistsBijection
  <2> QED
    BY <1>1, <2>1, FS_Bijection
<1>4. C = IF out[1].t = kind THEN B \cup {1} ELSE B
  OBVIOUS
<1>5. 1 \notin B
  OBVIOUS
<1>6. Cardinality(A) \in Nat
  BY <1>1, FS_CardinalityType
<1> HIDE DEF A, B, C, g
<1>7. Cardinality(B \cup {1}) = Cardinality(B) + 1
  BY <1>3, <1>5, FS_AddElement
<1>8. Cardinality(A) = Cardinality(C) - (IF out[1].t = kind THEN 1 ELSE 0)
  BY <1>3, <1>4, <1>6, <1>7
<1> QED
  BY <1>8 DEF Count, OfKind, A, C

---------------------------------------------------------------------------
(* The streams that a request under way will find open.                    *)

(* Stream j at the server: over, over or said to be at its end, and open   *)
(* or still to come.                                                       *)
Gone(S, j) == j <= S.lastPeerId /\ j \notin Open(S)
Done(S, j) == j <= S.lastPeerId /\ (j \in Open(S) => Has(S, j, "LOCAL_END"))
Alive(S, j) == j \in Open(S) \/ j > S.lastPeerId
OneSided(S) == \A j \in Open(S) : ~(Has(S, j, "LOCAL_END") /\ Has(S, j, "REMOTE_END"))

(* The first k frames to the server end stream j.                          *)
EndSent(out, S, j, k) == (\E i \in 1 .. k : Ended(out[i], j)) \/ Coming(S, j)
Stopped(out, S, j, k) ==
    \/ \E i \in 1 .. k : IsRst(out[i], j)
    \/ Done(S, j) /\ EndSent(out, S, j, k)

(* The streams before id that can be open at the server behind them.       *)
Counted(out, S, id, k) ==
    {j \in Ids : j < id /\ Alive(S, j) /\ ~Stopped(out, S, j, k)}

(* What the server has said is true, and what it is told of is known.      *)
ServerDone(S) ==
    /\ OneSided(S)
    /\ \A i \in DOMAIN S.out : \A j \in Ids :
         (Ended(S.out[i], j) => Done(S, j)) /\ (IsRst(S.out[i], j) => Gone(S, j))
    /\ S.rd.fin => S.rd.id \in Ids /\ S.rd.id <= S.lastPeerId

(* The server goes from S to R: it knows more streams, and what is over,   *)
(* ended or behind stays so.                                               *)
Follows(S, R) ==
    /\ GoodEnd(R) /\ R.server /\ S.lastPeerId <= R.lastPeerId
    /\ \A j \in Ids :
         /\ Alive(R, j) => Alive(S, j)
         /\ Done(S, j) => Done(R, j)
         /\ Gone(S, j) => Gone(R, j)
         /\ j <= S.lastPeerId /\ Coming(S, j) => Over(R, j)
         /\ j \in Open(S) /\ Has(S, j, "REMOTE_END") => j \notin Open(R) \/ Has(R, j, "REMOTE_END")
    /\ ServerDone(R)

(* What the server knows of f once it has read it.                         *)
Marked(R, f) ==
    /\ \A j \in Ids : (Ended(f, j) => Over(R, j)) /\ (IsRst(f, j) => Gone(R, j))
    /\ f.t = "headers" => f.id <= R.lastPeerId

LEMMA FaresFollows ==
    ASSUME NEW S, GoodEnd(S), S.server, ServerDone(S), NEW R, Goes(S, R),
           \A j \in Ids : \E heard, lost \in BOOLEAN : Fares(S, R, j, heard, lost),
           \A j \in Ids : j <= S.lastPeerId /\ Coming(S, j) => Over(R, j),
           R.rd.fin => R.rd.id \in Ids /\ R.rd.id <= R.lastPeerId
    PROVE  Follows(S, R)
<1>1. /\ GoodEnd(R) /\ R.server /\ R.lastPeerId = S.lastPeerId /\ Open(R) \subseteq Open(S)
      /\ S.lastPeerId \in Nat /\ Known(R) = R.lastPeerId /\ Known(S) = S.lastPeerId
      /\ DOMAIN R.out = 1 .. Len(R.out) /\ DOMAIN S.out = 1 .. Len(S.out)
      /\ Len(S.out) \in Nat /\ Len(R.out) \in Nat
  BY HistoryTypes DEF Goes, Same, Known
<1>2. ASSUME NEW j \in Ids
      PROVE  /\ Alive(R, j) => Alive(S, j)
             /\ Done(S, j) => Done(R, j)
             /\ Gone(S, j) => Gone(R, j)
             /\ j \in Open(S) /\ Has(S, j, "REMOTE_END") => j \notin Open(R) \/ Has(R, j, "REMOTE_END")
             /\ j \in Open(R) => ~(Has(R, j, "LOCAL_END") /\ Has(R, j, "REMOTE_END"))
             /\ \A i \in New(S, R) : Ended(R.out[i], j) => j \notin Open(R) \/ Has(R, j, "LOCAL_END")
             /\ \A i \in New(S, R) : IsRst(R.out[i], j) => j \notin Open(R)
  <2>1. PICK heard, lost \in BOOLEAN : Fares(S, R, j, heard, lost)
    OBVIOUS
  <2>2. j \in Open(R) =>
          /\ Has(S, j, "REMOTE_END") => Has(R, j, "REMOTE_END")
          /\ Has(S, j, "LOCAL_END") => Has(R, j, "LOCAL_END")
          /\ Has(R, j, "LOCAL_END") /\ Has(R, j, "REMOTE_END") =>
               Has(S, j, "LOCAL_END") /\ Has(S, j, "REMOTE_END")
    BY <2>1 DEF Fares
  <2>3. /\ \A i \in New(S, R) : Ended(R.out[i], j) => j \notin Open(R) \/ Has(R, j, "LOCAL_END")
        /\ \A i \in New(S, R) : IsRst(R.out[i], j) => j \notin Open(R)
    BY <2>1 DEF Fares
  <2>4. j \in Open(S) => ~(Has(S, j, "LOCAL_END") /\ Has(S, j, "REMOTE_END"))
    BY DEF ServerDone, OneSided
  <2> HIDE DEF Has
  <2> QED
    BY <1>1, <2>2, <2>3, <2>4 DEF Alive, Done, Gone
<1>3. ASSUME NEW i \in DOMAIN R.out, NEW j \in Ids
      PROVE  (Ended(R.out[i], j) => Done(R, j)) /\ (IsRst(R.out[i], j) => Gone(R, j))
  <2>1. CASE i \in 1 .. Len(S.out)
    <3>1. R.out[i] = S.out[i]
      BY <2>1 DEF Goes
    <3>2. (Ended(S.out[i], j) => Done(S, j)) /\ (IsRst(S.out[i], j) => Gone(S, j))
      BY <1>1, <2>1 DEF ServerDone
    <3> QED
      BY <1>2, <3>1, <3>2
  <2>2. CASE i \in New(S, R)
    <3>1. Ended(R.out[i], j) => j <= R.lastPeerId
      BY <1>1 DEF GoodEnd, OfKnown, Ended
    <3>2. IsRst(R.out[i], j) => j <= R.lastPeerId
      BY <1>1, <2>2 DEF Goes, Fits, IsRst
    <3> QED
      BY <1>2, <2>2, <3>1, <3>2 DEF Done, Gone
  <2> QED
    BY <1>1, <2>1, <2>2 DEF New
<1>4. OneSided(R)
  <2>1. \A j \in Open(R) : j \in Ids
    BY <1>1 DEF GoodEnd, IsEnd
  <2> QED
    BY <1>2, <2>1 DEF OneSided
<1>5. ServerDone(R)
  BY <1>3, <1>4 DEF ServerDone
<1> QED
  BY <1>1, <1>2, <1>5 DEF Follows

LEMMA MeetsFollows ==
    ASSUME NEW S, GoodEnd(S), S.server, S.rd = NoData, ServerDone(S),
           NEW f \in FrameType, NewRequest(S, f), NEW R, Meets(S, R, f),
           Refuses(S, R, f) \/ Accepts(S, R, f)
    PROVE  Follows(S, R) /\ Marked(R, f)
<1>1. /\ GoodEnd(R) /\ R.server /\ R.lastPeerId = f.id /\ f.id > S.lastPeerId
      /\ S.lastPeerId \in Nat /\ f.id \in Nat /\ f.id \in Ids /\ f.t = "headers"
      /\ Known(S) = S.lastPeerId /\ Known(R) = f.id
      /\ DOMAIN R.out = 1 .. Len(R.out) /\ DOMAIN S.out = 1 .. Len(S.out)
      /\ Len(S.out) \in Nat /\ Len(R.out) \in Nat
  <2>1. GoodEnd(R) /\ R.server /\ R.lastPeerId = f.id /\ f.id > S.lastPeerId /\ f.t = "headers"
    BY DEF Meets, NewRequest
  <2>2. f.id \in Ids
    BY <2>1, FrameTypes
  <2> QED
    BY <2>1, <2>2, HistoryTypes DEF Ids, Known
<1>2. \A j \in Ids : j \in Nat
  BY DEF Ids
<1>3. \A j \in Open(S) : j <= S.lastPeerId /\ j \in Ids
  BY <1>1 DEF GoodEnd, OfKnown, IsEnd
<1>4. ~S.rd.fin /\ ~R.rd.fin
  BY DEF NoData, Meets, SameLimit
<1>5. /\ Open(S) \subseteq Open(R) /\ Open(R) \subseteq Open(S) \cup {f.id}
      /\ \A j \in Open(S) : \A flag : Has(R, j, flag) <=> Has(S, j, flag)
  BY DEF Meets, Refuses, Accepts, Has
<1>6. f.id \in Open(R) => ~Has(R, f.id, "LOCAL_END") /\ (f.fin => Has(R, f.id, "REMOTE_END"))
  BY <1>1, <1>3 DEF Refuses, Accepts
<1>7. ASSUME NEW j \in Ids
      PROVE  /\ Alive(R, j) => Alive(S, j)
             /\ Done(S, j) => Done(R, j)
             /\ Gone(S, j) => Gone(R, j)
             /\ ~Coming(S, j)
             /\ j \in Open(S) /\ Has(S, j, "REMOTE_END") => j \notin Open(R) \/ Has(R, j, "REMOTE_END")
  <2> HIDE DEF Has
  <2>1. Alive(R, j) => Alive(S, j)
    BY <1>1, <1>2, <1>5 DEF Alive
  <2>2. j <= S.lastPeerId => j # f.id /\ j <= R.lastPeerId
    BY <1>1, <1>2
  <2>3. Done(S, j) => Done(R, j)
    BY <1>5, <2>2 DEF Done
  <2>4. Gone(S, j) => Gone(R, j)
    BY <1>5, <2>2 DEF Gone
  <2>5. ~Coming(S, j)
    BY <1>4 DEF Coming
  <2> QED
    BY <1>5, <2>1, <2>3, <2>4, <2>5
<1>8. OneSided(R)
  <2> HIDE DEF Has
  <2> QED
    BY <1>5, <1>6 DEF OneSided, ServerDone
<1>9. ASSUME NEW i \in DOMAIN R.out, NEW j \in Ids
      PROVE  (Ended(R.out[i], j) => Done(R, j)) /\ (IsRst(R.out[i], j) => Gone(R, j))
  <2>1. CASE i \in 1 .. Len(S.out)
    <3>1. R.out[i] = S.out[i]
      BY <2>1 DEF Meets
    <3>2. (Ended(S.out[i], j) => Done(S, j)) /\ (IsRst(S.out[i], j) => Gone(S, j))
      BY <1>1, <2>1 DEF ServerDone
    <3> QED
      BY <1>7, <3>1, <3>2
  <2>2. CASE i \in New(S, R)
    <3>1. Refuses(S, R, f)
      <4>1. CASE Accepts(S, R, f)
        BY <1>1, <2>2, <4>1 DEF New, Accepts
      <4> QED
        BY <4>1
    <3>2. Murmur(R.out[i]) \/ R.out[i] = Rst(f.id, "refused")
      BY <2>2 DEF Meets
    <3>3. ~Ended(R.out[i], j) /\ (IsRst(R.out[i], j) => j = f.id)
      BY <3>2 DEF Murmur, Rst, Ended, IsRst
    <3>4. Gone(R, f.id)
      BY <1>1, <1>3, <3>1 DEF Gone, Refuses
    <3> QED
      BY <3>3, <3>4
  <2> QED
    BY <1>1, <2>1, <2>2 DEF New
<1>10. Follows(S, R)
  BY <1>1, <1>4, <1>7, <1>8, <1>9 DEF Follows, ServerDone
<1>11. ASSUME NEW j \in Ids PROVE (Ended(f, j) => Over(R, j)) /\ (IsRst(f, j) => Gone(R, j))
  <2>1. ~IsRst(f, j)
    BY <1>1 DEF IsRst
  <2>2. Ended(f, j) => j = f.id /\ f.fin
    BY DEF Ended
  <2>3. f.fin => Over(R, f.id)
    BY <1>1, <1>6 DEF Over
  <2> QED
    BY <2>1, <2>2, <2>3
<1>12. f.id <= R.lastPeerId
  BY <1>1
<1> QED
  BY <1>10, <1>11, <1>12 DEF Marked
(* What is over for the server is over; and what it knows to be at its end *)
(* and has itself said to be, is.                                          *)
LEMMA OverAlive ==
    ASSUME NEW R, GoodEnd(R), R.server, OneSided(R), NEW j \in Ids, Over(R, j), Done(R, j), Alive(R, j)
    PROVE  Coming(R, j)
<1>1. Known(R) = R.lastPeerId /\ R.lastPeerId \in Nat /\ j \in Nat
  BY HistoryTypes DEF Known, Ids
<1>2. j <= R.lastPeerId /\ j \in Open(R) /\ Has(R, j, "LOCAL_END")
  BY <1>1 DEF Done, Alive
<1> QED
  BY <1>1, <1>2 DEF Over, OneSided

LEMMA StoppedOn ==
    ASSUME NEW S, NEW R, ServerDone(S), Follows(S, R), NEW j \in Ids, Alive(R, j),
           NEW out, NEW k, Stopped(out, S, j, k)
    PROVE  Stopped(out, R, j, k)
<1>1. CASE \E i \in 1 .. k : IsRst(out[i], j)
  BY <1>1 DEF Stopped
<1>2. CASE Done(S, j) /\ EndSent(out, S, j, k)
  <2>1. Done(R, j)
    BY <1>2 DEF Follows
  <2>2. CASE Coming(S, j)
    <3>1. j <= S.lastPeerId
      BY <2>2 DEF ServerDone, Coming
    <3>2. Over(R, j)
      BY <2>2, <3>1 DEF Follows
    <3>3. Coming(R, j)
      BY <2>1, <3>2, OverAlive DEF Follows, ServerDone
    <3> QED
      BY <2>1, <3>3 DEF Stopped, EndSent
  <2> QED
    BY <1>2, <2>1, <2>2 DEF Stopped, EndSent
<1> QED
  BY <1>1, <1>2 DEF Stopped

LEMMA StoppedRead ==
    ASSUME NEW S, NEW R, ServerDone(S), Follows(S, R), S.rd = NoData,
           NEW out, NEW rest, NEW k \in Nat, \A i \in 1 .. k : rest[i] = out[i + 1],
           Marked(R, out[1]), NEW j \in Ids, Alive(R, j), Stopped(out, S, j, k + 1)
    PROVE  Stopped(rest, R, j, k)
<1>1. ~Gone(R, j)
  <2>1. R.lastPeerId \in Nat /\ j \in Nat
    BY HistoryTypes DEF Follows, Ids
  <2> QED
    BY <2>1 DEF Alive, Gone
<1>2. \A i \in 1 .. k + 1 : i # 1 => i - 1 \in 1 .. k /\ rest[i - 1] = out[i]
  <2>1. ASSUME NEW i \in 1 .. k + 1, i # 1 PROVE i - 1 \in 1 .. k /\ (i - 1) + 1 = i
    BY <2>1
  <2> QED
    BY <2>1
<1>3. CASE \E i \in 1 .. k + 1 : IsRst(out[i], j)
  <2>1. PICK i \in 1 .. k + 1 : IsRst(out[i], j)
    BY <1>3
  <2>2. i # 1
    BY <1>1, <2>1 DEF Marked
  <2>3. i - 1 \in 1 .. k /\ IsRst(rest[i - 1], j)
    BY <1>2, <2>1, <2>2
  <2> QED
    BY <2>3 DEF Stopped
<1>4. CASE Done(S, j) /\ EndSent(out, S, j, k + 1)
  <2>1. Done(R, j)
    BY <1>4 DEF Follows
  <2>2. ~Coming(S, j)
    BY DEF Coming, NoData
  <2>3. PICK i \in 1 .. k + 1 : Ended(out[i], j)
    BY <1>4, <2>2 DEF EndSent
  <2>4. CASE i = 1
    <3>1. Over(R, j)
      BY <2>3, <2>4 DEF Marked
    <3>2. Coming(R, j)
      BY <2>1, <3>1, OverAlive DEF Follows, ServerDone
    <3> QED
      BY <2>1, <3>2 DEF Stopped, EndSent
  <2>5. CASE i # 1
    <3>1. i - 1 \in 1 .. k /\ Ended(rest[i - 1], j)
      BY <1>2, <2>3, <2>5
    <3> QED
      BY <2>1, <3>1 DEF Stopped, EndSent
  <2> QED
    BY <2>4, <2>5
<1> QED
  BY <1>3, <1>4 DEF Stopped

(* Fewer frames stop less.                                                 *)
LEMMA StoppedMore ==
    ASSUME NEW S, NEW out, NEW other, NEW k \in Nat, NEW l \in Nat, k <= l,
           \A i \in 1 .. k : other[i] = out[i], NEW j, Stopped(out, S, j, k)
    PROVE  Stopped(other, S, j, l)
<1>1. \A i \in 1 .. k : i \in 1 .. l
  OBVIOUS
<1> QED
  BY <1>1 DEF Stopped, EndSent

LEMMA CountedFewer ==
    ASSUME H2Assumption, NEW S, NEW R, NEW out, NEW rest, NEW id, NEW k, NEW l,
           \A j \in Ids : Alive(R, j) =>
             Alive(S, j) /\ (Stopped(out, S, j, l) => Stopped(rest, R, j, k))
    PROVE  /\ Cardinality(Counted(rest, R, id, k)) <= Cardinality(Counted(out, S, id, l))
           /\ Cardinality(Counted(rest, R, id, k)) \in Nat
           /\ Cardinality(Counted(out, S, id, l)) \in Nat
<1>1. PICK A : A = Counted(rest, R, id, k)
  OBVIOUS
<1>2. PICK B : B = Counted(out, S, id, l)
  OBVIOUS
<1>3. A \subseteq B /\ B \in SUBSET Ids /\ A \in SUBSET Ids
  BY <1>1, <1>2 DEF Counted
<1>4. IsFiniteSet(B) /\ Cardinality(B) \in Nat /\ Cardinality(A) \in Nat
  BY <1>3, IdsFinite
<1>5. Cardinality(A) <= Cardinality(B)
  BY <1>3, <1>4, FS_Subset
<1> QED
  BY <1>1, <1>2, <1>4, <1>5

---------------------------------------------------------------------------
(* Both ends, and what is under way between them.                          *)

(* The limit that holds for a request behind k frames of the client.       *)
Outstanding(S) == (IF S.settingsAcked THEN 0 ELSE 1) + (IF S.chgInflight THEN 1 ELSE 0)
Allowed(out, S, k) ==
    IF Count(out, k, "ack") = Outstanding(S) THEN S.advStreams ELSE S.ackedStreams
First(out, i) == \A k \in 1 .. i - 1 : ~(out[k].t = "headers" /\ out[k].id = out[i].id)

(* A request under way of a client that knew the settings finds room.      *)
Requests(c, s) ==
    \A i \in DOMAIN c.out :
      c.out[i].t = "headers" /\ c.out[i].id > s.lastPeerId /\ c.out[i].id \notin c.blind
        /\ First(c.out, i)
      => Cardinality(Counted(c.out, s, c.out[i].id, i - 1)) < Allowed(c.out, s, i - 1)

(* What the server can still have open, the client has.                    *)
StillOpen(c, s) ==
    c.closed \/ c.goawayRecv \/
    \A j \in Ids :
      j < c.nextId /\ Alive(s, j) /\ ~Stopped(c.out, s, j, Len(c.out)) => j \in Open(c)

(* A request that the server has not read is under way.                    *)
Unread(c, s) ==
    \A j \in Ids : s.lastPeerId < j /\ j < c.nextId =>
      \E i \in DOMAIN c.out : c.out[i].t = "headers" /\ c.out[i].id = j

(* What the client has heard, the server has done; what the client has     *)
(* said, the server knows or it is under way.                              *)
ClientHeard(c, s) ==
    c.closed \/
    /\ c.rd.fin => c.rd.id \in Ids /\ Done(s, c.rd.id)
    /\ \A j \in Open(c) :
         /\ Has(c, j, "REMOTE_END") => Done(s, j)
         /\ Has(c, j, "LOCAL_END") =>
              \/ EndSent(c.out, s, j, Len(c.out))
              \/ Gone(s, j)
              \/ j \in Open(s) /\ Has(s, j, "REMOTE_END")

InStep(c, s) ==
    /\ Requests(c, s) /\ StillOpen(c, s) /\ Unread(c, s) /\ ServerDone(s) /\ ClientHeard(c, s)

LEMMA AllowedIs ==
    ASSUME NEW S, GoodEnd(S), NEW out, NEW k
    PROVE  Allowed(out, S, k) \in Int
<1>1. IsEnd(S)
  BY DEF GoodEnd
<1>2. S.advStreams \in Int /\ S.ackedStreams \in Int
  BY <1>1, EndFields
<1> QED
  BY <1>2 DEF Allowed

(* What the server knows of what it was told.                              *)
Knows(S, j) == Gone(S, j) \/ Coming(S, j) \/ (j \in Open(S) /\ Has(S, j, "REMOTE_END"))

LEMMA OverKnows ==
    ASSUME NEW S, GoodEnd(S), S.server, NEW j
    PROVE  Over(S, j) <=> Knows(S, j)
  BY DEF Over, Knows, Known, Gone

LEMMA KnowsOn ==
    ASSUME NEW S, NEW R, GoodEnd(S), S.server, ServerDone(S), Follows(S, R), NEW j \in Ids, Knows(S, j)
    PROVE  Knows(R, j)
<1>1. CASE Gone(S, j)
  BY <1>1 DEF Follows, Knows
<1>2. CASE Coming(S, j)
  <2>1. j <= S.lastPeerId
    BY <1>2 DEF ServerDone, Coming
  <2> QED
    BY <1>2, <2>1, OverKnows DEF Follows
<1>3. CASE j \in Open(S) /\ Has(S, j, "REMOTE_END")
  <2>1. j <= R.lastPeerId
    <3>1. j <= S.lastPeerId
      BY <1>3 DEF GoodEnd, OfKnown, Known
    <3>2. j \in Nat /\ S.lastPeerId \in Nat /\ R.lastPeerId \in Nat
      BY HistoryTypes DEF Follows, Ids
    <3> QED
      BY <3>1, <3>2 DEF Follows
  <2>2. j \notin Open(R) \/ Has(R, j, "REMOTE_END")
    BY <1>3 DEF Follows
  <2> QED
    BY <2>1, <2>2 DEF Knows, Gone
<1> QED
  BY <1>1, <1>2, <1>3 DEF Knows

(* The server goes on by itself.                                           *)
LEMMA ServerInStep ==
    ASSUME H2Assumption, NEW c, NEW s, GoodEnd(c), GoodEnd(s), s.server, InStep(c, s),
           NEW R, Follows(s, R),
           \A k \in 0 .. Len(c.out) : Allowed(c.out, s, k) <= Allowed(c.out, R, k)
    PROVE  InStep(c, R)
<1>1. /\ GoodEnd(R) /\ s.lastPeerId <= R.lastPeerId /\ ServerDone(s) /\ ServerDone(R)
      /\ \A j \in Ids : /\ Alive(R, j) => Alive(s, j)
                        /\ Done(s, j) => Done(R, j)
                        /\ Gone(s, j) => Gone(R, j)
  BY DEF Follows, InStep
<1>2. /\ s.lastPeerId \in Nat /\ R.lastPeerId \in Nat /\ Len(c.out) \in Nat
      /\ DOMAIN c.out = 1 .. Len(c.out) /\ c.nextId \in Nat
      /\ \A i \in 1 .. Len(c.out) : c.out[i] \in FrameType
      /\ \A j \in Ids : j \in Nat
  BY <1>1, HistoryTypes DEF Ids
<1>3. \A j \in Ids : \A k : Alive(R, j) /\ Stopped(c.out, s, j, k) => Stopped(c.out, R, j, k)
  BY <1>1, StoppedOn
<1>4. Requests(c, R)
  <2>1. SUFFICES ASSUME NEW i \in DOMAIN c.out, c.out[i].t = "headers",
                        c.out[i].id > R.lastPeerId, c.out[i].id \notin c.blind, First(c.out, i)
                 PROVE  Cardinality(Counted(c.out, R, c.out[i].id, i - 1)) < Allowed(c.out, R, i - 1)
    BY DEF Requests
  <2>2. c.out[i].id \in Nat
    BY <1>2, <2>1, FrameTypes
  <2>3. Cardinality(Counted(c.out, s, c.out[i].id, i - 1)) < Allowed(c.out, s, i - 1)
    <3>1. c.out[i].id > s.lastPeerId
      <4>1. s.lastPeerId <= R.lastPeerId /\ s.lastPeerId \in Nat /\ R.lastPeerId \in Nat
        BY <1>1, <1>2
      <4> QED
        BY ONLY <2>1, <2>2, <4>1
    <3>2. Requests(c, s)
      BY DEF InStep
    <3> QED
      BY ONLY <2>1, <3>1, <3>2 DEF Requests
  <2>4. PICK k \in 0 .. Len(c.out) : k = i - 1
    BY SMTT(20), <1>2
  <2>5. Allowed(c.out, s, k) <= Allowed(c.out, R, k)
        /\ Allowed(c.out, s, k) \in Int /\ Allowed(c.out, R, k) \in Int
    BY <1>1, AllowedIs
  <2>6. PICK id : id = c.out[i].id
    OBVIOUS
  <2>7. /\ Cardinality(Counted(c.out, R, id, k)) <= Cardinality(Counted(c.out, s, id, k))
        /\ Cardinality(Counted(c.out, R, id, k)) \in Nat
        /\ Cardinality(Counted(c.out, s, id, k)) \in Nat
    BY <1>1, <1>3, CountedFewer
  <2> QED
    BY SMTT(20), <2>3, <2>4, <2>5, <2>6, <2>7
<1>5. StillOpen(c, R)
  BY <1>1, <1>3 DEF InStep, StillOpen
<1>6. Unread(c, R)
  BY SMTT(20), <1>1, <1>2 DEF InStep, Unread
<1>7. ClientHeard(c, R)
  <2>1. SUFFICES ASSUME ~c.closed
                 PROVE  /\ c.rd.fin => c.rd.id \in Ids /\ Done(R, c.rd.id)
                        /\ \A j \in Open(c) :
                             /\ Has(c, j, "REMOTE_END") => Done(R, j)
                             /\ Has(c, j, "LOCAL_END") =>
                                  \/ EndSent(c.out, R, j, Len(c.out))
                                  \/ Gone(R, j)
                                  \/ j \in Open(R) /\ Has(R, j, "REMOTE_END")
    BY DEF ClientHeard
  <2>2. \A j \in Open(c) : j \in Ids
    BY DEF GoodEnd, IsEnd
  <2>3. ClientHeard(c, s)
    BY DEF InStep
  <2>4. ASSUME NEW j \in Open(c), Has(c, j, "LOCAL_END")
        PROVE  \/ EndSent(c.out, R, j, Len(c.out))
               \/ Gone(R, j)
               \/ j \in Open(R) /\ Has(R, j, "REMOTE_END")
    <3>1. (\E i \in 1 .. Len(c.out) : Ended(c.out[i], j)) \/ Knows(s, j)
      BY <2>1, <2>3, <2>4 DEF ClientHeard, Knows, EndSent
    <3>2. Knows(s, j) => Knows(R, j)
      BY <1>1, <2>2, KnowsOn
    <3> QED
      BY <3>1, <3>2 DEF Knows, EndSent
  <2> QED
    BY <1>1, <2>1, <2>2, <2>3, <2>4 DEF ClientHeard
<1> QED
  BY <1>1, <1>4, <1>5, <1>6, <1>7 DEF InStep
(* The server has read the first frame of the client.                      *)
LEMMA ReadInStep ==
    ASSUME H2Assumption, NEW c, NEW s, GoodEnd(c), GoodEnd(s), s.server, InStep(c, s),
           c.out # << >>, s.rd = NoData,
           NEW R, Follows(s, R), Marked(R, Head(c.out)),
           \A k \in 0 .. Len(c.out) - 1 :
             Allowed(c.out, s, k + 1) <= Allowed(Tail(c.out), R, k)
    PROVE  InStep(OutputSent(c), R)
<1> DEFINE C == OutputSent(c)
           o == c.out
           p == Tail(c.out)
           n == Len(c.out) - 1
<1>1. /\ GoodEnd(R) /\ s.lastPeerId <= R.lastPeerId /\ ServerDone(s) /\ ServerDone(R)
      /\ \A j \in Ids : /\ Alive(R, j) => Alive(s, j)
                        /\ Done(s, j) => Done(R, j)
                        /\ Gone(s, j) => Gone(R, j)
  BY DEF Follows, InStep
<1>2. /\ GoodEnd(C) /\ Same(c, C) /\ SameLimit(c, C) /\ C.rd = c.rd /\ C.streams = c.streams
      /\ C.closed = c.closed /\ C.out = p /\ Len(p) = n /\ Len(o) >= 1
      /\ Head(o) \in FrameType /\ \A i \in 1 .. n : p[i] = o[i + 1]
  BY LeftIs
<1>3. /\ s.lastPeerId \in Nat /\ R.lastPeerId \in Nat /\ Len(o) \in Nat /\ n \in Nat
      /\ DOMAIN o = 1 .. Len(o) /\ DOMAIN p = 1 .. n /\ c.nextId \in Nat
      /\ \A i \in 1 .. Len(o) : o[i] \in FrameType
      /\ \A j \in Ids : j \in Nat
  <2>1. DOMAIN p = 1 .. n
    <3>1. DOMAIN C.out = 1 .. Len(C.out)
      BY <1>2, HistoryTypes
    <3> HIDE DEF C, p, n
    <3> QED
      BY <1>2, <3>1
  <2>2. Len(o) \in Nat
    BY HistoryTypes
  <2>3. n \in Nat
    BY <1>2, <2>2
  <2>4. /\ s.lastPeerId \in Nat /\ R.lastPeerId \in Nat /\ DOMAIN o = 1 .. Len(o)
        /\ c.nextId \in Nat /\ \A i \in 1 .. Len(o) : o[i] \in FrameType
    BY <1>1, HistoryTypes
  <2>5. \A j \in Ids : j \in Nat
    BY DEF Ids
  <2> HIDE DEF C, p, n, o
  <2> QED
    BY <2>1, <2>2, <2>3, <2>4, <2>5
<1>12. /\ s.lastPeerId <= R.lastPeerId /\ s.lastPeerId \in Nat /\ R.lastPeerId \in Nat
       /\ n \in Nat /\ n + 1 = Len(o) /\ Len(o) \in Nat
  BY <1>1, <1>3
<1>13. /\ \A i \in 1 .. n : i + 1 \in 1 .. Len(o) /\ (i + 1) - 1 = i
       /\ \A i \in 1 .. Len(o) : i # 1 => i - 1 \in 1 .. n /\ (i - 1) + 1 = i
  <2> HIDE DEF o, n
  <2>1. PICK m \in Nat : m = Len(o)
    BY <1>12
  <2>2. PICK l \in Nat : l = n
    BY <1>12
  <2>3. l + 1 = m
    BY <1>12, <2>1, <2>2
  <2>4. /\ \A i \in 1 .. l : i + 1 \in 1 .. m /\ (i + 1) - 1 = i
        /\ \A i \in 1 .. m : i # 1 => i - 1 \in 1 .. l /\ (i - 1) + 1 = i
    BY ONLY <2>3
  <2> QED
    BY ONLY <2>1, <2>2, <2>4
<1>4. Head(o) = o[1]
  <2>1. o \in Seq(FrameType)
    BY OutIs
  <2>2. PICK q \in Seq(FrameType) : q = o
    BY <2>1
  <2> HIDE DEF FrameType
  <2> QED
    BY <1>2, <2>2
<1>5. C.nextId = c.nextId /\ C.blind = c.blind /\ Open(C) = Open(c)
      /\ C.goawayRecv = c.goawayRecv /\ \A j, flag : Has(C, j, flag) <=> Has(c, j, flag)
  BY <1>2 DEF Same, SameLimit, Open, Has
<1>6. Marked(R, o[1])
  BY <1>4
<1> HIDE DEF C, o, p, n
<1>7. \A k \in 0 .. n : \A j \in Ids :
        Alive(R, j) /\ Stopped(o, s, j, k + 1) => Stopped(p, R, j, k)
  <2>1. SUFFICES ASSUME NEW k \in 0 .. n, NEW j \in Ids, Alive(R, j), Stopped(o, s, j, k + 1)
                 PROVE  Stopped(p, R, j, k)
    OBVIOUS
  <2>2. k \in Nat /\ \A i \in 1 .. k : p[i] = o[i + 1]
    BY SMTT(20), <1>2, <1>3
  <2> QED
    BY <1>1, <1>6, <2>1, <2>2, StoppedRead
<1>8. Requests(C, R)
  <2>1. SUFFICES ASSUME NEW i \in 1 .. n, p[i].t = "headers", p[i].id > R.lastPeerId,
                        p[i].id \notin c.blind, First(p, i)
                 PROVE  Cardinality(Counted(p, R, p[i].id, i - 1)) < Allowed(p, R, i - 1)
    BY <1>2, <1>3, <1>5 DEF Requests
  <2>2. p[i] = o[i + 1] /\ i + 1 \in 1 .. Len(o) /\ (i + 1) - 1 = i
    <3>1. i + 1 \in 1 .. Len(o) /\ (i + 1) - 1 = i
      BY <1>13
    <3> QED
      BY <1>2, <3>1
  <2>3. p[i].id \in Nat
    BY <1>3, <2>1, <2>2, FrameTypes
  <2>4. First(o, i + 1)
    <3>1. SUFFICES ASSUME NEW k \in 1 .. i, o[k].t = "headers", o[k].id = o[i + 1].id PROVE FALSE
      BY <2>2 DEF First
    <3>2. k # 1
      <4>1. ASSUME k = 1 PROVE o[1].id <= R.lastPeerId
        BY <1>6, <3>1, <4>1 DEF Marked
      <4> QED
        BY ONLY <1>12, <2>1, <2>2, <2>3, <3>1, <4>1
    <3>3. k - 1 \in 1 .. i - 1 /\ k - 1 \in 1 .. n /\ (k - 1) + 1 = k
      <4>1. n \in Nat
        BY <1>3
      <4> QED
        BY ONLY <2>1, <3>1, <3>2, <4>1
    <3>4. p[k - 1] = o[k]
      BY <1>2, <3>3
    <3> QED
      BY <2>1, <2>2, <3>1, <3>3, <3>4 DEF First
  <2>5. Cardinality(Counted(o, s, p[i].id, i)) < Allowed(o, s, i)
    <3>1. o[i + 1].id > s.lastPeerId
      BY ONLY <1>12, <2>1, <2>2, <2>3
    <3>2. Requests(c, s)
      BY DEF InStep
    <3> QED
      BY <1>3, <2>1, <2>2, <2>4, <3>1, <3>2 DEF Requests, o
  <2>6. PICK k \in 0 .. n : k = i - 1
    BY SMTT(20), <1>3
  <2>7. k + 1 = i
    BY <1>3, <2>6
  <2>8. Allowed(o, s, k + 1) <= Allowed(p, R, k)
        /\ Allowed(o, s, k + 1) \in Int /\ Allowed(p, R, k) \in Int
    BY <1>1, AllowedIs DEF n, o, p
  <2>9. PICK id : id = p[i].id
    OBVIOUS
  <2>10. /\ Cardinality(Counted(p, R, id, k)) <= Cardinality(Counted(o, s, id, k + 1))
         /\ Cardinality(Counted(p, R, id, k)) \in Nat
         /\ Cardinality(Counted(o, s, id, k + 1)) \in Nat
    <3>1. \A j \in Ids : Alive(R, j) =>
            Alive(s, j) /\ (Stopped(o, s, j, k + 1) => Stopped(p, R, j, k))
      BY <1>1, <1>7
    <3> QED
      BY <3>1, CountedFewer
  <2> QED
    BY ONLY <2>5, <2>6, <2>7, <2>8, <2>9, <2>10
<1>9. StillOpen(C, R)
  <2>1. SUFFICES ASSUME ~c.closed, ~c.goawayRecv, NEW j \in Ids, j < c.nextId, Alive(R, j),
                        ~Stopped(p, R, j, n)
                 PROVE  j \in Open(c)
    BY <1>2, <1>5 DEF StillOpen
  <2>2. n \in 0 .. n /\ n + 1 = Len(o)
    BY <1>12
  <2>3. Alive(s, j) /\ ~Stopped(o, s, j, Len(o))
    BY <1>1, <1>7, <2>1, <2>2
  <2>4. StillOpen(c, s)
    BY DEF InStep
  <2> QED
    BY <2>1, <2>3, <2>4 DEF StillOpen, o
<1>10. Unread(C, R)
  <2>1. SUFFICES ASSUME NEW j \in Ids, R.lastPeerId < j, j < c.nextId
                 PROVE  \E i \in 1 .. n : p[i].t = "headers" /\ p[i].id = j
    BY <1>2, <1>3, <1>5 DEF Unread
  <2>2. s.lastPeerId < j
    BY SMTT(20), <1>1, <1>3, <2>1
  <2>3. PICK i \in 1 .. Len(o) : o[i].t = "headers" /\ o[i].id = j
    BY <1>3, <2>1, <2>2 DEF InStep, Unread, o
  <2>4. i # 1
    <3>1. ASSUME i = 1 PROVE j <= R.lastPeerId
      BY <1>6, <2>3, <3>1 DEF Marked
    <3> QED
      BY SMTT(20), <1>3, <2>1, <3>1
  <2>5. i - 1 \in 1 .. n /\ (i - 1) + 1 = i
    BY <1>13, <2>4
  <2>6. p[i - 1] = o[i]
    BY <1>2, <2>5
  <2> QED
    BY <2>3, <2>5, <2>6
<1>11. ClientHeard(C, R)
  <2>1. SUFFICES ASSUME ~c.closed
                 PROVE  /\ c.rd.fin => c.rd.id \in Ids /\ Done(R, c.rd.id)
                        /\ \A j \in Open(c) :
                             /\ Has(c, j, "REMOTE_END") => Done(R, j)
                             /\ Has(c, j, "LOCAL_END") =>
                                  \/ EndSent(p, R, j, n)
                                  \/ Gone(R, j)
                                  \/ j \in Open(R) /\ Has(R, j, "REMOTE_END")
    BY <1>2, <1>5 DEF ClientHeard
  <2>2. \A j \in Open(c) : j \in Ids
    BY DEF GoodEnd, IsEnd
  <2>3. ClientHeard(c, s)
    BY DEF InStep
  <2>4. ASSUME NEW j \in Open(c), Has(c, j, "LOCAL_END")
        PROVE  \/ EndSent(p, R, j, n)
               \/ Gone(R, j)
               \/ j \in Open(R) /\ Has(R, j, "REMOTE_END")
    <3>1. (\E i \in 1 .. Len(o) : Ended(o[i], j)) \/ Knows(s, j)
      BY <2>1, <2>3, <2>4 DEF ClientHeard, Knows, EndSent, o
    <3>2. Knows(s, j) => Knows(R, j)
      BY <1>1, <2>2, KnowsOn
    <3>3. ASSUME NEW i \in 1 .. Len(o), Ended(o[i], j), i = 1 PROVE Knows(R, j)
      <4>1. Over(R, j)
        BY <1>6, <2>2, <3>3 DEF Marked
      <4> QED
        BY <1>1, <4>1, OverKnows DEF Follows
    <3>4. ASSUME NEW i \in 1 .. Len(o), Ended(o[i], j), i # 1 PROVE EndSent(p, R, j, n)
      <4>1. i - 1 \in 1 .. n /\ (i - 1) + 1 = i
        BY <1>13, <3>4
      <4>2. p[i - 1] = o[i]
        BY <1>2, <4>1
      <4> QED
        BY <3>4, <4>1, <4>2 DEF EndSent
    <3>5. Knows(R, j) => \/ EndSent(p, R, j, n)
                         \/ Gone(R, j)
                         \/ j \in Open(R) /\ Has(R, j, "REMOTE_END")
      BY DEF Knows, EndSent
    <3> QED
      BY <3>1, <3>2, <3>3, <3>4, <3>5
  <2> QED
    BY <1>1, <2>1, <2>2, <2>3, <2>4 DEF ClientHeard
<1> QED
  BY <1>1, <1>8, <1>9, <1>10, <1>11 DEF InStep, C
(* Only the frames before count.                                           *)
LEMMA SameBefore ==
    ASSUME NEW s, NEW o, NEW p, NEW k \in Nat, \A l \in 1 .. k : p[l] = o[l]
    PROVE  /\ \A j : Stopped(p, s, j, k) <=> Stopped(o, s, j, k)
           /\ \A id : Counted(p, s, id, k) = Counted(o, s, id, k)
           /\ Allowed(p, s, k) = Allowed(o, s, k)
<1>1. \A j : Stopped(p, s, j, k) <=> Stopped(o, s, j, k)
  BY DEF Stopped, EndSent
<1>2. \A id : Counted(p, s, id, k) = Counted(o, s, id, k)
  BY <1>1 DEF Counted
<1>3. \A kind : Count(p, k, kind) = Count(o, k, kind)
  BY CountSame
<1>4. Allowed(p, s, k) = Allowed(o, s, k)
  BY <1>3 DEF Allowed
<1> QED
  BY <1>1, <1>2, <1>4

(* The client goes on; what it hears is true.                              *)
LEMMA ClientInStep ==
    ASSUME H2Assumption, NEW c, NEW s, GoodEnd(c), GoodEnd(s), InStep(c, s), ~c.server,
           NEW C, Goes(c, C),
           C.closed \/ \A j \in Ids : \E heard, lost \in BOOLEAN :
             /\ Fares(c, C, j, heard, lost)
             /\ heard => Done(s, j)
             /\ lost => Gone(s, j) \/ C.goawayRecv,
           C.closed \/ (C.rd.fin => C.rd.id \in Ids /\ Done(s, C.rd.id))
    PROVE  InStep(C, s)
<1> DEFINE n == Len(c.out)
           m == Len(C.out)
<1>1. /\ GoodEnd(C) /\ C.nextId = c.nextId /\ C.blind = c.blind /\ Open(C) \subseteq Open(c)
      /\ (c.goawayRecv => C.goawayRecv) /\ (c.closed => C.closed)
      /\ n <= m /\ \A i \in 1 .. n : C.out[i] = c.out[i]
  BY DEF Goes, Same
<1>2. /\ n \in Nat /\ m \in Nat /\ DOMAIN c.out = 1 .. n /\ DOMAIN C.out = 1 .. m
      /\ c.nextId \in Nat /\ Known(c) = c.nextId - 1 /\ s.lastPeerId \in Nat
      /\ \A j \in Ids : j \in Nat
  BY <1>1, HistoryTypes DEF Ids, Known
<1>3. /\ 1 .. n \subseteq 1 .. m /\ New(c, C) \subseteq 1 .. m
      /\ 1 .. m = 1 .. n \cup New(c, C)
      /\ \A i \in 1 .. n : \A k \in 1 .. i - 1 : k \in 1 .. n
  <2>1. PICK a, b : a = n /\ b = m
    OBVIOUS
  <2>2. a \in Nat /\ b \in Nat /\ a <= b
    BY <1>1, <1>2, <2>1
  <2>3. /\ 1 .. a \subseteq 1 .. b /\ a + 1 .. b \subseteq 1 .. b
        /\ 1 .. b = 1 .. a \cup (a + 1 .. b)
        /\ \A i \in 1 .. a : \A k \in 1 .. i - 1 : k \in 1 .. a
    BY ONLY <2>2
  <2>4. New(c, C) = a + 1 .. b
    BY <2>1 DEF New
  <2> QED
    BY ONLY <2>1, <2>3, <2>4
<1>4. Unread(C, s)
  <2>1. SUFFICES ASSUME NEW j \in Ids, s.lastPeerId < j, j < C.nextId
                 PROVE  \E i \in DOMAIN C.out : C.out[i].t = "headers" /\ C.out[i].id = j
    BY DEF Unread
  <2>2. PICK i \in DOMAIN c.out : c.out[i].t = "headers" /\ c.out[i].id = j
    BY <1>1, <2>1 DEF InStep, Unread
  <2>3. i \in 1 .. n /\ i \in DOMAIN C.out
    BY <1>2, <1>3, <2>2
  <2>4. C.out[i] = c.out[i]
    BY <1>1, <2>3
  <2> QED
    BY <2>2, <2>3, <2>4
<1>14. ASSUME NEW k \in Nat, \A l \in 1 .. k : C.out[l] = c.out[l]
       PROVE  /\ \A id : Counted(C.out, s, id, k) = Counted(c.out, s, id, k)
              /\ Allowed(C.out, s, k) = Allowed(c.out, s, k)
  <2>1. PICK o, p : o = c.out /\ p = C.out
    OBVIOUS
  <2>2. \A l \in 1 .. k : p[l] = o[l]
    BY <1>14, <2>1
  <2>3. /\ \A id : Counted(p, s, id, k) = Counted(o, s, id, k)
        /\ Allowed(p, s, k) = Allowed(o, s, k)
    BY ONLY <1>14, <2>2, SameBefore
  <2> QED
    BY <2>1, <2>3
<1>5. Requests(C, s)
  <2>1. SUFFICES ASSUME NEW i \in 1 .. m, C.out[i].t = "headers", C.out[i].id > s.lastPeerId,
                        C.out[i].id \notin c.blind, First(C.out, i)
                 PROVE  Cardinality(Counted(C.out, s, C.out[i].id, i - 1)) < Allowed(C.out, s, i - 1)
    BY <1>1, <1>2 DEF Requests
  <2>2. CASE i \in New(c, C)
    <3>1. C.out[i].id \in Open(c)
      BY <2>1, <2>2 DEF Goes, Fits
    <3>2. PICK j \in Ids : j = C.out[i].id /\ j <= c.nextId - 1
      BY <1>2, <3>1 DEF GoodEnd, IsEnd, OfKnown
    <3>3. s.lastPeerId < j /\ j < c.nextId
      <4>1. j \in Nat /\ c.nextId \in Nat /\ s.lastPeerId \in Nat
        BY <1>2
      <4> QED
        BY ONLY <2>1, <3>2, <4>1
    <3>4. PICK k \in 1 .. n : c.out[k].t = "headers" /\ c.out[k].id = j
      BY <1>2, <3>3 DEF InStep, Unread
    <3>5. k \in 1 .. i - 1
      BY <1>2, <2>2 DEF New
    <3>6. C.out[k].t = "headers" /\ C.out[k].id = C.out[i].id
      BY <1>1, <3>2, <3>4
    <3> QED
      BY <2>1, <3>5, <3>6 DEF First
  <2>3. CASE i \in 1 .. n
    <3>1. C.out[i] = c.out[i] /\ \A k \in 1 .. i - 1 : C.out[k] = c.out[k]
      <4>1. \A k \in 1 .. i - 1 : k \in 1 .. n
        BY <1>3, <2>3
      <4> QED
        BY <1>1, <2>3, <4>1
    <3>2. First(c.out, i)
      BY <2>1, <3>1 DEF First
    <3>3. Cardinality(Counted(c.out, s, c.out[i].id, i - 1)) < Allowed(c.out, s, i - 1)
      BY <1>2, <2>1, <2>3, <3>1, <3>2 DEF InStep, Requests
    <3>4. PICK k \in Nat : k = i - 1
      BY <2>3
    <3>5. \A l \in 1 .. k : C.out[l] = c.out[l]
      BY <3>1, <3>4
    <3>6. /\ \A id : Counted(C.out, s, id, k) = Counted(c.out, s, id, k)
          /\ Allowed(C.out, s, k) = Allowed(c.out, s, k)
      BY <1>14, <3>4, <3>5
    <3> QED
      BY <3>1, <3>3, <3>4, <3>6
  <2> QED
    BY <1>3, <2>2, <2>3
<1>6. SUFFICES ASSUME ~C.closed, ~c.closed
               PROVE  StillOpen(C, s) /\ ClientHeard(C, s)
  <2>1. C.closed => StillOpen(C, s) /\ ClientHeard(C, s)
    BY DEF StillOpen, ClientHeard
  <2> QED
    BY <1>1, <1>4, <1>5, <1>6, <2>1 DEF InStep
<1>7. ASSUME NEW j \in Ids, NEW heard \in BOOLEAN, NEW lost \in BOOLEAN,
             Fares(c, C, j, heard, lost), heard => Done(s, j), j \in Open(c),
             ClientHeard(c, s)
      PROVE  /\ Has(c, j, "REMOTE_END") \/ heard => Done(s, j)
             /\ Has(c, j, "LOCAL_END") \/ (\E i \in New(c, C) : Ended(C.out[i], j)) =>
                  (\E i \in 1 .. m : Ended(C.out[i], j)) \/ Knows(s, j)
  <2>1. Has(c, j, "REMOTE_END") => Done(s, j)
    BY <1>6, <1>7 DEF ClientHeard
  <2>2. Has(c, j, "LOCAL_END") => (\E i \in 1 .. n : Ended(c.out[i], j)) \/ Knows(s, j)
    BY <1>6, <1>7 DEF ClientHeard, Knows, EndSent
  <2>3. (\E i \in 1 .. n : Ended(c.out[i], j)) => \E i \in 1 .. m : Ended(C.out[i], j)
    BY <1>1, <1>3
  <2> QED
    BY <1>3, <1>7, <2>1, <2>2, <2>3
<1>8. ClientHeard(c, s) /\ ServerDone(s)
  BY DEF InStep
<1>9. StillOpen(C, s)
  <2>1. SUFFICES ASSUME ~C.goawayRecv, NEW j \in Ids, j < c.nextId, Alive(s, j),
                        ~Stopped(C.out, s, j, m), j \notin Open(C)
                 PROVE  FALSE
    BY <1>1 DEF StillOpen
  <2>2. ~Stopped(c.out, s, j, n)
    BY <1>1, <1>2, <2>1, StoppedMore
  <2>3. j \in Open(c)
    BY <1>1, <1>6, <2>1, <2>2 DEF InStep, StillOpen
  <2>4. PICK heard, lost \in BOOLEAN :
          Fares(c, C, j, heard, lost) /\ (heard => Done(s, j)) /\ (lost => Gone(s, j) \/ C.goawayRecv)
    BY <1>6
  <2>5. ~Gone(s, j)
    BY <1>2, <2>1 DEF Alive, Gone
  <2>6. ~lost
    BY <2>1, <2>4, <2>5
  <2>7. ~(\E i \in New(c, C) : IsRst(C.out[i], j))
    BY <1>3, <2>1 DEF Stopped
  <2>8. /\ Has(c, j, "REMOTE_END") \/ heard
        /\ Has(c, j, "LOCAL_END") \/ \E i \in New(c, C) : Ended(C.out[i], j)
    BY <2>1, <2>3, <2>4, <2>6, <2>7 DEF Fares
  <2>9. Done(s, j) /\ ((\E i \in 1 .. m : Ended(C.out[i], j)) \/ Knows(s, j))
    BY <1>7, <1>8, <2>3, <2>4, <2>8
  <2>10. ~(j \in Open(s) /\ Has(s, j, "REMOTE_END"))
    BY <1>8, <2>9 DEF ServerDone, OneSided, Done
  <2>11. EndSent(C.out, s, j, m)
    BY <2>5, <2>9, <2>10 DEF Knows, EndSent
  <2> QED
    BY <2>1, <2>9, <2>11 DEF Stopped
<1>10. ClientHeard(C, s)
  <2>1. ASSUME NEW j \in Open(C)
        PROVE  /\ Has(C, j, "REMOTE_END") => Done(s, j)
               /\ Has(C, j, "LOCAL_END") =>
                    \/ EndSent(C.out, s, j, m)
                    \/ Gone(s, j)
                    \/ j \in Open(s) /\ Has(s, j, "REMOTE_END")
    <3>1. j \in Ids /\ j \in Open(c)
      BY <1>1 DEF GoodEnd, IsEnd
    <3>2. PICK heard, lost \in BOOLEAN : Fares(c, C, j, heard, lost) /\ (heard => Done(s, j))
      BY <1>6, <3>1
    <3>3. /\ Has(C, j, "REMOTE_END") => Has(c, j, "REMOTE_END") \/ heard
          /\ Has(C, j, "LOCAL_END") =>
               Has(c, j, "LOCAL_END") \/ \E i \in New(c, C) : Ended(C.out[i], j)
      BY <3>2 DEF Fares
    <3>4. /\ Has(C, j, "REMOTE_END") => Done(s, j)
          /\ Has(C, j, "LOCAL_END") => (\E i \in 1 .. m : Ended(C.out[i], j)) \/ Knows(s, j)
      BY <1>7, <1>8, <3>1, <3>2, <3>3
    <3> QED
      BY <3>4 DEF Knows, EndSent
  <2> QED
    BY <1>6, <2>1 DEF ClientHeard
<1> QED
  BY <1>9, <1>10
(* The client opens a stream: it has fewer open than the server allows.    *)
LEMMA AskInStep ==
    ASSUME H2Assumption, NEW c, NEW s, GoodEnd(c), GoodEnd(s), InStep(c, s), ~c.server,
           c.nextId % 2 = 1, s.lastPeerId < c.nextId, ~c.closed, ~c.goawayRecv,
           Cardinality(Open(c)) < c.peerStreams,
           c.gotSettings => c.peerStreams = Allowed(c.out, s, Len(c.out)),
           NEW f \in FrameType, NEW C, Asks(c, C, f)
    PROVE  InStep(C, s)
<1>1. PICK o, p, n : o = c.out /\ p = C.out /\ n = Len(c.out)
  OBVIOUS
<1>2. /\ GoodEnd(C) /\ f.t = "headers" /\ f.id = c.nextId /\ f.id \in Ids /\ C.nextId = c.nextId + 2
      /\ C.closed = c.closed /\ p = Append(o, f) /\ C.goawayRecv = c.goawayRecv
      /\ Open(C) = Open(c) \cup {f.id} /\ c.blind \subseteq C.blind
      /\ f.id \notin C.blind => c.gotSettings
  BY <1>1 DEF Asks, SameLimit
<1>3. /\ n \in Nat /\ DOMAIN c.out = 1 .. n /\ c.nextId \in Nat /\ s.lastPeerId \in Nat
      /\ o \in Seq(FrameType) /\ \A j \in Ids : j \in Nat
      /\ \A i \in 1 .. n : o[i] \in FrameType
  BY SMTT(20), <1>1, HistoryTypes DEF Ids
<1>4. /\ DOMAIN C.out = 1 .. n + 1 /\ Len(C.out) = n + 1 /\ p[n + 1] = f
      /\ \A i \in 1 .. n : p[i] = o[i]
  <2>1. PICK q \in Seq(FrameType) : q = o
    BY <1>3
  <2> HIDE DEF FrameType
  <2>2. /\ DOMAIN Append(q, f) = 1 .. Len(q) + 1 /\ Len(Append(q, f)) = Len(q) + 1
        /\ Append(q, f)[Len(q) + 1] = f
        /\ \A i \in 1 .. Len(q) : Append(q, f)[i] = q[i]
    OBVIOUS
  <2> QED
    BY <1>1, <1>2, <2>1, <2>2
<1>5. /\ \A i \in 1 .. n : i \in 1 .. n + 1 /\ \A k \in 1 .. i - 1 : k \in 1 .. n
      /\ \A i \in 1 .. n + 1 : i \in 1 .. n \/ i = n + 1
      /\ n + 1 \in 1 .. n + 1 /\ (n + 1) - 1 = n
  <2>1. n \in Nat
    BY <1>3
  <2> QED
    BY ONLY <2>1
<1>6. \A j \in Ids : j < C.nextId => j < c.nextId \/ j = f.id
  <2>1. SUFFICES ASSUME NEW j \in Ids, j < c.nextId + 2 PROVE j <= c.nextId
    BY SMTT(20), <1>2, <1>3
  <2>2. j \in Nat /\ j % 2 = 1
    BY DEF Ids
  <2>3. PICK x \in Nat : x = c.nextId
    BY <1>3
  <2>4. j # x + 1
    BY ONLY <2>2, <2>3, c.nextId % 2 = 1
  <2> QED
    BY ONLY <2>1, <2>2, <2>3, <2>4
<1>7. f.id \notin Open(c)
  <2>1. Known(c) = c.nextId - 1 /\ \A j \in Open(c) : j <= Known(c)
    BY DEF GoodEnd, OfKnown, Known
  <2>2. ~(c.nextId <= c.nextId - 1)
    BY SMTT(20), <1>3
  <2> QED
    BY <1>2, <2>1, <2>2
<1>8. StillOpen(c, s) /\ Unread(c, s) /\ ClientHeard(c, s) /\ ServerDone(s) /\ Requests(c, s)
  BY DEF InStep
<1>9. ASSUME NEW k \in Nat, \A l \in 1 .. k : l \in 1 .. n
      PROVE  /\ \A id : Counted(p, s, id, k) = Counted(o, s, id, k)
             /\ \A j : Stopped(p, s, j, k) <=> Stopped(o, s, j, k)
             /\ Allowed(p, s, k) = Allowed(o, s, k)
  <2>1. \A l \in 1 .. k : p[l] = o[l]
    BY <1>4, <1>9
  <2> QED
    BY ONLY SMTT(20), <1>9, <2>1, SameBefore
<1>10. Requests(C, s)
  <2>1. SUFFICES ASSUME NEW i \in 1 .. n + 1, p[i].t = "headers", p[i].id > s.lastPeerId,
                        p[i].id \notin C.blind, First(p, i)
                 PROVE  Cardinality(Counted(p, s, p[i].id, i - 1)) < Allowed(p, s, i - 1)
    BY <1>1, <1>4 DEF Requests
  <2>2. CASE i \in 1 .. n
    <3>1. p[i] = o[i] /\ \A k \in 1 .. i - 1 : p[k] = o[k]
      BY <1>4, <1>5, <2>2
    <3>2. First(o, i)
      BY <2>1, <3>1 DEF First
    <3>3. Cardinality(Counted(o, s, o[i].id, i - 1)) < Allowed(o, s, i - 1)
      <4>1. p[i].id \notin c.blind
        BY <1>2, <2>1
      <4> QED
        BY <1>1, <1>3, <1>8, <2>1, <2>2, <3>1, <3>2, <4>1 DEF Requests
    <3>4. PICK k \in Nat : k = i - 1
      BY <2>2
    <3>5. \A l \in 1 .. k : l \in 1 .. n
      BY <1>5, <2>2, <3>4
    <3> QED
      BY <1>9, <3>1, <3>3, <3>4, <3>5
  <2>3. CASE i = n + 1
    <3>1. p[i] = f /\ i - 1 = n
      BY <1>4, <1>5, <2>3
    <3>2. c.gotSettings
      BY <1>2, <2>1, <3>1
    <3>3. /\ Counted(p, s, f.id, n) = Counted(o, s, f.id, n)
          /\ Allowed(p, s, n) = Allowed(o, s, n)
      BY <1>3, <1>9
    <3>4. PICK A : A = Counted(o, s, f.id, n)
      OBVIOUS
    <3>5. A \subseteq Open(c)
      BY <1>1, <1>2, <1>8, <3>4 DEF Counted, StillOpen
    <3>6. PICK B : B = Open(c)
      OBVIOUS
    <3>7. B \in SUBSET Ids /\ A \in SUBSET B
      BY <3>5, <3>6 DEF GoodEnd, IsEnd
    <3>8. IsFiniteSet(B) /\ Cardinality(B) \in Nat /\ Cardinality(A) \in Nat
      BY <3>7, IdsFinite
    <3>9. Cardinality(A) <= Cardinality(B)
      BY <3>7, <3>8, FS_Subset
    <3>10. Cardinality(B) < Allowed(o, s, n) /\ Allowed(o, s, n) \in Int
      BY <1>1, <3>2, <3>6, AllowedIs
    <3> QED
      BY SMTT(20), <3>1, <3>3, <3>4, <3>8, <3>9, <3>10
  <2> QED
    BY <1>5, <2>2, <2>3
<1>11. StillOpen(C, s)
  <2>1. SUFFICES ASSUME NEW j \in Ids, j < C.nextId, Alive(s, j), ~Stopped(p, s, j, n + 1)
                 PROVE  j \in Open(C)
    BY <1>1, <1>4 DEF StillOpen
  <2>2. CASE j = f.id
    BY <1>2, <2>2
  <2>3. CASE j < c.nextId
    <3>1. ~Stopped(o, s, j, n)
      <4>1. n <= n + 1 /\ n + 1 \in Nat
        BY <1>3
      <4> QED
        BY <1>3, <1>4, <2>1, <4>1, StoppedMore
    <3> QED
      BY <1>1, <1>2, <1>8, <2>1, <2>3, <3>1 DEF StillOpen
  <2> QED
    BY <1>6, <2>1, <2>2, <2>3
<1>12. Unread(C, s)
  <2>1. SUFFICES ASSUME NEW j \in Ids, s.lastPeerId < j, j < C.nextId
                 PROVE  \E i \in 1 .. n + 1 : p[i].t = "headers" /\ p[i].id = j
    BY <1>1, <1>4 DEF Unread
  <2>2. CASE j = f.id
    BY <1>2, <1>4, <1>5, <2>2
  <2>3. CASE j < c.nextId
    <3>1. PICK i \in 1 .. n : o[i].t = "headers" /\ o[i].id = j
      BY <1>1, <1>3, <1>8, <2>1, <2>3 DEF Unread
    <3> QED
      BY <1>4, <1>5, <3>1
  <2> QED
    BY <1>6, <2>1, <2>2, <2>3
<1>13. ClientHeard(C, s)
  <2>1. C.rd = c.rd /\ \A j \in Open(c) : \A flag : Has(C, j, flag) <=> Has(c, j, flag)
    BY DEF Asks, Has
  <2>2. ~Has(C, f.id, "REMOTE_END") /\ (Has(C, f.id, "LOCAL_END") => f.fin)
    BY DEF Asks
  <2>3. Has(C, f.id, "LOCAL_END") => EndSent(p, s, f.id, n + 1)
    BY <1>2, <1>4, <1>5, <2>2 DEF EndSent, Ended
  <2>4. \A j \in Open(c) : EndSent(o, s, j, n) => EndSent(p, s, j, n + 1)
    BY <1>4, <1>5 DEF EndSent
  <2>5. ASSUME NEW j \in Open(C)
        PROVE  /\ Has(C, j, "REMOTE_END") => Done(s, j)
               /\ Has(C, j, "LOCAL_END") =>
                    \/ EndSent(p, s, j, n + 1)
                    \/ Gone(s, j)
                    \/ j \in Open(s) /\ Has(s, j, "REMOTE_END")
    <3>1. CASE j = f.id
      BY <2>2, <2>3, <3>1
    <3>2. CASE j \in Open(c)
      <4>1. /\ Has(c, j, "REMOTE_END") => Done(s, j)
            /\ Has(c, j, "LOCAL_END") =>
                 \/ EndSent(o, s, j, n)
                 \/ Gone(s, j)
                 \/ j \in Open(s) /\ Has(s, j, "REMOTE_END")
        BY <1>1, <1>8, <3>2 DEF ClientHeard
      <4> QED
        BY <2>1, <2>4, <3>2, <4>1
    <3> QED
      BY <1>2, <3>1, <3>2
  <2>6. c.rd.fin => c.rd.id \in Ids /\ Done(s, c.rd.id)
    BY <1>8 DEF ClientHeard
  <2> QED
    BY <1>1, <1>4, <2>1, <2>5, <2>6 DEF ClientHeard
<1> QED
  BY <1>8, <1>10, <1>11, <1>12, <1>13 DEF InStep

---------------------------------------------------------------------------
(* The limit, and what is under way of it.                                 *)

(* How many frames of a kind are under way.                                *)
All(out, kind) == Count(out, Len(out), kind)

LEMMA AllIs ==
    ASSUME NEW out, Len(out) \in Nat, NEW kind
    PROVE  /\ All(out, kind) \in Nat
           /\ All(out, kind) = 0 <=> \A i \in 1 .. Len(out) : out[i].t # kind
           /\ \A i, k \in 1 .. Len(out) :
                out[i].t = kind /\ out[k].t = kind /\ i # k => All(out, kind) >= 2
<1> DEFINE A == OfKind(out, Len(out), kind)
<1>1. IsFiniteSet(A) /\ All(out, kind) \in Nat
  BY CountIs DEF All
<1>2. All(out, kind) = Cardinality(A)
  BY DEF All, Count
<1>3. A = {} <=> \A i \in 1 .. Len(out) : out[i].t # kind
  BY DEF OfKind
<1>4. \A i \in 1 .. Len(out) : out[i].t = kind => i \in A
  BY DEF OfKind
<1> HIDE DEF A
<1>5. Cardinality(A) = 0 <=> A = {}
  BY <1>1, FS_EmptySet
<1>6. ASSUME NEW i \in 1 .. Len(out), NEW k \in 1 .. Len(out),
             out[i].t = kind, out[k].t = kind, i # k
      PROVE  All(out, kind) >= 2
  <2>1. i \in A /\ k \in A
    BY <1>4, <1>6
  <2>2. Cardinality(A) # 0
    BY <1>5, <2>1
  <2>3. Cardinality(A) # 1
    <3>1. ASSUME Cardinality(A) = 1 PROVE FALSE
      <4>1. PICK x : A = {x}
        BY <1>1, <3>1, FS_Singleton
      <4> QED
        BY <1>6, <2>1, <4>1
    <3> QED
      BY <3>1
  <2> QED
    BY <1>1, <1>2, <2>2, <2>3
<1> QED
  BY <1>1, <1>2, <1>3, <1>5, <1>6

LEMMA AllBehind ==
    ASSUME NEW o, NEW p, Len(o) \in Nat, Len(p) \in Nat, Len(o) <= Len(p),
           \A i \in 1 .. Len(o) : p[i] = o[i], NEW kind,
           \A i \in Len(o) + 1 .. Len(p) : p[i].t # kind
    PROVE  All(p, kind) = All(o, kind)
<1>1. PICK n \in Nat : n = Len(o)
  OBVIOUS
<1>2. PICK m \in Nat : m = Len(p)
  OBVIOUS
<1>3. /\ n <= m /\ \A i \in 1 .. n : p[i] = o[i]
      /\ \A i \in n + 1 .. m : p[i].t # kind
  BY <1>1, <1>2
<1>4. Count(p, n, kind) = Count(o, n, kind)
  BY ONLY SMTT(20), <1>1, <1>3, CountSame
<1>5. Count(p, m, kind) = Count(p, n, kind)
  BY ONLY <1>1, <1>2, <1>3, CountMore
<1> QED
  BY <1>1, <1>2, <1>4, <1>5 DEF All

LEMMA AllAppend ==
    ASSUME NEW o \in Seq(FrameType), NEW f \in FrameType, NEW kind
    PROVE  All(Append(o, f), kind) = All(o, kind) + (IF f.t = kind THEN 1 ELSE 0)
<1>1. PICK n \in Nat : n = Len(o)
  OBVIOUS
<1>2. PICK p : p = Append(o, f)
  OBVIOUS
<1>3. Len(p) = n + 1 /\ p[n + 1] = f /\ \A i \in 1 .. n : p[i] = o[i]
  <2> HIDE DEF FrameType
  <2> QED
    BY <1>1, <1>2
<1>4. Count(p, n, kind) = Count(o, n, kind)
  BY <1>3, CountSame
<1>5. CASE f.t = kind
  <2>1. Count(p, n + 1, kind) = Count(p, n, kind) + 1
    BY <1>3, <1>5, CountOne
  <2> QED
    BY <1>1, <1>2, <1>3, <1>4, <1>5, <2>1 DEF All
<1>6. CASE f.t # kind
  <2>1. n + 1 \in Nat /\ n <= n + 1 /\ \A i \in n + 1 .. n + 1 : i = n + 1
    OBVIOUS
  <2>2. \A i \in n + 1 .. n + 1 : p[i].t # kind
    BY <1>3, <1>6, <2>1
  <2>3. Count(p, n + 1, kind) = Count(p, n, kind)
    BY <2>1, <2>2, CountMore
  <2>4. Count(o, n, kind) \in Nat
    BY CountIs
  <2> QED
    BY <1>1, <1>2, <1>3, <1>4, <1>6, <2>3, <2>4 DEF All
<1> QED
  BY <1>5, <1>6

LEMMA AllTail ==
    ASSUME NEW S, GoodEnd(S), S.out # << >>, NEW kind
    PROVE  /\ All(Tail(S.out), kind) = All(S.out, kind) - (IF Head(S.out).t = kind THEN 1 ELSE 0)
           /\ \A k \in 0 .. Len(S.out) - 1 :
                Count(Tail(S.out), k, kind)
                  = Count(S.out, k + 1, kind) - (IF Head(S.out).t = kind THEN 1 ELSE 0)
<1>1. PICK o, p, n : o = S.out /\ p = Tail(S.out) /\ n = Len(Tail(S.out))
  OBVIOUS
<1>2. /\ Len(p) = n /\ n = Len(o) - 1 /\ Len(o) >= 1 /\ Len(o) \in Nat
      /\ \A i \in 1 .. n : p[i] = o[i + 1]
  <2>1. S.out \in Seq(FrameType) /\ Len(S.out) \in Nat
    BY OutIs
  <2> QED
    BY <1>1, <2>1, LeftIs
<1>3. Head(S.out) = o[1]
  <2>1. S.out \in Seq(FrameType)
    BY OutIs
  <2>2. PICK q \in Seq(FrameType) : q = o
    BY <1>1, <2>1
  <2> HIDE DEF FrameType
  <2> QED
    BY <1>1, <1>2, <2>2
<1>4. n \in Nat /\ n + 1 = Len(o) /\ n \in 0 .. n
  BY ONLY <1>2
<1>5. ASSUME NEW k \in 0 .. n
      PROVE  Count(p, k, kind) = Count(o, k + 1, kind) - (IF o[1].t = kind THEN 1 ELSE 0)
  <2>1. k \in Nat /\ Shifted(o, p, k)
    BY <1>2, <1>4 DEF Shifted
  <2> QED
    BY <2>1, CountTail
<1> QED
  BY <1>1, <1>2, <1>3, <1>4, <1>5 DEF All

(* Whether a change of settings awaits its acknowledgement.                *)
Changing(S) == IF S.chgInflight THEN 1 ELSE 0

Numbers(S) ==
    /\ S.advStreams \in Nat /\ S.ackedStreams \in Nat /\ S.wantStreams \in Nat
    /\ ~S.chgInflight => S.advStreams = S.ackedStreams

(* What the settings under way to the client say of the limit.             *)
Telling(out, got, S) ==
    \A i \in 1 .. Len(out) : out[i].t = "settings" =>
      IF ~got /\ Count(out, i - 1, "settings") = 0 THEN out[i].streams = S.ackedStreams
      ELSE \/ out[i].streams = S.advStreams
           \/ out[i].streams = -1 /\ S.advStreams = S.ackedStreams

(* Each of the server's settings is under way, or its acknowledgement is;  *)
(* the client keeps to the last that it has read.                          *)
Pledged(got, peer, acks, out, S) ==
    /\ All(out, "settings") + acks = Outstanding(S)
    /\ IF got
         THEN /\ All(out, "settings") <= Changing(S)
              /\ peer = IF All(out, "settings") = 0 THEN S.advStreams ELSE S.ackedStreams
         ELSE acks = 0 /\ All(out, "settings") = 1 + Changing(S)
    /\ Telling(out, got, S)

Limits(c, s) ==
    /\ Numbers(s) /\ All(c.out, "ack") <= Outstanding(s)
    /\ c.closed \/ Pledged(c.gotSettings, c.peerStreams, All(c.out, "ack"), s.out, s)

LEMMA NumbersAre ==
    ASSUME NEW S, GoodEnd(S)
    PROVE  /\ S.chgInflight \in BOOLEAN /\ S.settingsAcked \in BOOLEAN /\ S.gotSettings \in BOOLEAN
           /\ Changing(S) \in {0, 1} /\ (Changing(S) = 1 <=> S.chgInflight)
           /\ Outstanding(S) = (IF S.settingsAcked THEN 0 ELSE 1) + Changing(S)
           /\ Outstanding(S) \in Nat
BY HistoryTypes DEF Changing, Outstanding

(* What the client keeps to is what holds behind all it has said.          *)
LEMMA LimitsAllow ==
    ASSUME NEW c, NEW s, GoodEnd(c), GoodEnd(s), Limits(c, s), ~c.closed, c.gotSettings
    PROVE  c.peerStreams = Allowed(c.out, s, Len(c.out))
<1>1. PICK n \in Nat, m \in Nat, g \in Nat : n = All(s.out, "settings") /\ m = All(c.out, "ack") /\ g = Outstanding(s)
  <2>1. Len(s.out) \in Nat /\ Len(c.out) \in Nat
    BY OutIs
  <2> QED
    BY <2>1, AllIs, NumbersAre
<1>2. n + m = g /\ c.peerStreams = IF n = 0 THEN s.advStreams ELSE s.ackedStreams
  BY <1>1 DEF Limits, Pledged
<1>3. Allowed(c.out, s, Len(c.out)) = IF m = g THEN s.advStreams ELSE s.ackedStreams
  BY <1>1 DEF Allowed, All
<1>4. n = 0 <=> m = g
  BY ONLY <1>2, n \in Nat, m \in Nat, g \in Nat
<1> QED
  BY <1>2, <1>3, <1>4

(* The output goes on, or has been read from; no settings among it.        *)
LEMMA TellingOn ==
    ASSUME NEW o, NEW p, Len(o) \in Nat, Len(p) \in Nat, Len(o) <= Len(p),
           \A i \in 1 .. Len(o) : p[i] = o[i],
           \A i \in Len(o) + 1 .. Len(p) : p[i].t # "settings",
           NEW got, NEW S, Telling(o, got, S)
    PROVE  Telling(p, got, S)
<1> SUFFICES ASSUME NEW i \in 1 .. Len(p), p[i].t = "settings"
             PROVE  IF ~got /\ Count(p, i - 1, "settings") = 0 THEN p[i].streams = S.ackedStreams
                    ELSE \/ p[i].streams = S.advStreams
                         \/ p[i].streams = -1 /\ S.advStreams = S.ackedStreams
  BY DEF Telling
<1>1. i \in 1 .. Len(o) /\ p[i] = o[i]
  <2>1. i \in 1 .. Len(o) \/ i \in Len(o) + 1 .. Len(p)
    BY ONLY Len(o) \in Nat, Len(p) \in Nat, i \in 1 .. Len(p)
  <2> QED
    BY <2>1
<1>2. i - 1 \in Nat /\ \A l \in 1 .. i - 1 : p[l] = o[l]
  BY <1>1
<1>3. Count(p, i - 1, "settings") = Count(o, i - 1, "settings")
  BY <1>2, CountSame
<1> QED
  BY <1>1, <1>3 DEF Telling

LEMMA TellingTail ==
    ASSUME NEW S, GoodEnd(S), S.out # << >>, NEW got, NEW now,
           Head(S.out).t # "settings" \/ now, Head(S.out).t # "settings" => now = got, NEW U, Telling(S.out, got, U)
    PROVE  Telling(Tail(S.out), now, U)
<1>1. PICK o, p, n : o = S.out /\ p = Tail(S.out) /\ n = Len(Tail(S.out))
  OBVIOUS
<1>2. Len(p) = n /\ n \in Nat /\ Len(o) = n + 1 /\ \A i \in 1 .. n : p[i] = o[i + 1]
  <2>1. Len(S.out) \in Nat
    BY OutIs
  <2> QED
    BY <1>1, <2>1, LeftIs
<1>3. Head(S.out) = o[1]
  <2>1. S.out \in Seq(FrameType)
    BY OutIs
  <2>2. PICK q \in Seq(FrameType) : q = o
    BY <1>1, <2>1
  <2> HIDE DEF FrameType
  <2> QED
    BY <1>1, <1>2, <2>2
<1> SUFFICES ASSUME NEW i \in 1 .. n, p[i].t = "settings"
             PROVE  IF ~now /\ Count(p, i - 1, "settings") = 0 THEN p[i].streams = U.ackedStreams
                    ELSE \/ p[i].streams = U.advStreams
                         \/ p[i].streams = -1 /\ U.advStreams = U.ackedStreams
  BY <1>1, <1>2 DEF Telling
<1>4. i + 1 \in 1 .. Len(o) /\ p[i] = o[i + 1] /\ i \in Nat /\ i - 1 \in Nat /\ (i - 1) + 1 = i /\ (i + 1) - 1 = i
  BY ONLY <1>2, i \in 1 .. n
<1>5. Count(p, i - 1, "settings") = Count(o, i, "settings") - (IF o[1].t = "settings" THEN 1 ELSE 0)
  <2>1. Shifted(o, p, i - 1)
    BY <1>2, <1>4 DEF Shifted
  <2> QED
    BY <1>4, <2>1, CountTail
<1>6. IF ~got /\ Count(o, i, "settings") = 0 THEN o[i + 1].streams = U.ackedStreams
      ELSE \/ o[i + 1].streams = U.advStreams
           \/ o[i + 1].streams = -1 /\ U.advStreams = U.ackedStreams
  BY <1>1, <1>4 DEF Telling
<1>7. Count(o, i, "settings") \in Nat /\ Count(o, i, "settings") >= (IF o[1].t = "settings" THEN 1 ELSE 0)
  <2>1. Count(o, i, "settings") \in Nat /\ Count(p, i - 1, "settings") \in Nat
    BY <1>4, CountIs
  <2> QED
    BY <1>5, <2>1
<1>8. CASE o[1].t # "settings"
  <2>1. Count(p, i - 1, "settings") = Count(o, i, "settings")
    BY <1>5, <1>7, <1>8
  <2>2. now = got
    BY <1>1, <1>3, <1>8
  <2> QED
    BY <1>4, <1>6, <2>1, <2>2
<1>9. CASE o[1].t = "settings"
  <2>1. Count(o, i, "settings") # 0
    BY <1>7, <1>9
  <2>2. now
    BY <1>1, <1>3, <1>9
  <2> QED
    BY <1>4, <1>6, <2>1, <2>2
<1> QED
  BY <1>8, <1>9

(* What the limit and the client's settings tell is the same, and as much  *)
(* of it is under way.                                                     *)
LEMMA LimitsSame ==
    ASSUME NEW c, NEW s, GoodEnd(s), Limits(c, s), NEW C, NEW R, SameNumbers(s, R),
           All(C.out, "ack") = All(c.out, "ack"), All(R.out, "settings") = All(s.out, "settings"),
           c.closed => C.closed,
           C.closed \/ (C.gotSettings = c.gotSettings /\ C.peerStreams = c.peerStreams),
           Telling(s.out, c.gotSettings, s) => Telling(R.out, c.gotSettings, s)
    PROVE  Limits(C, R)
<1>1. /\ Numbers(R) /\ Outstanding(R) = Outstanding(s) /\ Changing(R) = Changing(s)
      /\ R.advStreams = s.advStreams /\ R.ackedStreams = s.ackedStreams
  BY DEF Limits, Numbers, SameNumbers, Outstanding, Changing
<1>2. \A out, got : Telling(out, got, s) <=> Telling(out, got, R)
  BY <1>1 DEF Telling
<1>3. ASSUME ~C.closed PROVE Pledged(C.gotSettings, C.peerStreams, All(C.out, "ack"), R.out, R)
  <2>1. Pledged(c.gotSettings, c.peerStreams, All(c.out, "ack"), s.out, s)
    BY <1>3 DEF Limits
  <2>2. Telling(R.out, c.gotSettings, R)
    BY <1>2, <2>1 DEF Pledged
  <2> QED
    BY <1>1, <1>3, <2>1, <2>2 DEF Pledged
<1>4. All(C.out, "ack") <= Outstanding(R)
  BY <1>1 DEF Limits
<1> QED
  BY <1>1, <1>3, <1>4 DEF Limits

LEMMA LimitsServer ==
    ASSUME NEW c, NEW s, GoodEnd(s), Limits(c, s), NEW R, GoodEnd(R), SameNumbers(s, R),
           Len(s.out) <= Len(R.out), \A i \in 1 .. Len(s.out) : R.out[i] = s.out[i],
           \A i \in New(s, R) : R.out[i].t # "settings"
    PROVE  Limits(c, R)
<1>1. PICK o, p : o = s.out /\ p = R.out
  OBVIOUS
<1>2. /\ Len(o) \in Nat /\ Len(p) \in Nat /\ Len(o) <= Len(p) /\ \A i \in 1 .. Len(o) : p[i] = o[i]
      /\ \A i \in Len(o) + 1 .. Len(p) : p[i].t # "settings"
  BY <1>1, OutIs DEF New
<1>3. All(p, "settings") = All(o, "settings")
  BY <1>2, AllBehind
<1>4. Telling(o, c.gotSettings, s) => Telling(p, c.gotSettings, s)
  BY <1>2, TellingOn
<1> QED
  BY <1>1, <1>3, <1>4, LimitsSame

LEMMA LimitsClient ==
    ASSUME NEW c, NEW s, GoodEnd(c), GoodEnd(s), Limits(c, s), NEW C, GoodEnd(C),
           Len(c.out) <= Len(C.out), \A i \in 1 .. Len(c.out) : C.out[i] = c.out[i],
           \A i \in New(c, C) : C.out[i].t # "ack",
           c.closed => C.closed,
           C.closed \/ (C.gotSettings = c.gotSettings /\ C.peerStreams = c.peerStreams)
    PROVE  Limits(C, s)
<1>1. PICK o, p : o = c.out /\ p = C.out
  OBVIOUS
<1>2. /\ Len(o) \in Nat /\ Len(p) \in Nat /\ Len(o) <= Len(p) /\ \A i \in 1 .. Len(o) : p[i] = o[i]
      /\ \A i \in Len(o) + 1 .. Len(p) : p[i].t # "ack"
  BY <1>1, OutIs DEF New
<1>3. All(p, "ack") = All(o, "ack")
  BY <1>2, AllBehind
<1>4. SameNumbers(s, s)
  BY DEF SameNumbers
<1> QED
  BY <1>1, <1>3, <1>4, LimitsSame

(* A frame that is neither settings nor their acknowledgement is read.     *)
LEMMA LimitsSent ==
    ASSUME NEW c, NEW s, GoodEnd(c), GoodEnd(s), Limits(c, s)
    PROVE  /\ c.out # << >> /\ Head(c.out).t # "ack" => Limits(OutputSent(c), s)
           /\ s.out # << >> /\ Head(s.out).t # "settings" => Limits(c, OutputSent(s))
<1>1. SameNumbers(s, s)
  BY DEF SameNumbers
<1>2. ASSUME c.out # << >>, Head(c.out).t # "ack" PROVE Limits(OutputSent(c), s)
  <2>1. PICK C : C = OutputSent(c)
    OBVIOUS
  <2>2. SameLimit(c, C) /\ C.closed = c.closed /\ C.out = Tail(c.out)
    BY <1>2, <2>1, LeftIs
  <2>3. PICK n \in Nat : n = All(c.out, "ack")
    BY OutIs, AllIs
  <2>4. All(C.out, "ack") = n
    <3>1. All(Tail(c.out), "ack") = n - (IF Head(c.out).t = "ack" THEN 1 ELSE 0)
      BY <1>2, <2>3, AllTail
    <3>2. (IF Head(c.out).t = "ack" THEN 1 ELSE 0) = 0 /\ n - 0 = n
      BY <1>2
    <3> QED
      BY <2>2, <3>1, <3>2
  <2>5. Limits(C, s)
    BY <1>1, <2>2, <2>3, <2>4, LimitsSame DEF SameLimit
  <2> QED
    BY <2>1, <2>5
<1>3. ASSUME s.out # << >>, Head(s.out).t # "settings" PROVE Limits(c, OutputSent(s))
  <2>1. PICK R : R = OutputSent(s)
    OBVIOUS
  <2>2. SameLimit(s, R) /\ R.out = Tail(s.out)
    BY <1>3, <2>1, LeftIs
  <2>3. PICK n \in Nat : n = All(s.out, "settings")
    BY OutIs, AllIs
  <2>4. All(R.out, "settings") = n
    <3>1. All(Tail(s.out), "settings") = n - (IF Head(s.out).t = "settings" THEN 1 ELSE 0)
      BY <1>3, <2>3, AllTail
    <3>2. (IF Head(s.out).t = "settings" THEN 1 ELSE 0) = 0 /\ n - 0 = n
      BY <1>3
    <3> QED
      BY <2>2, <3>1, <3>2
  <2>5. Telling(s.out, c.gotSettings, s) => Telling(R.out, c.gotSettings, s)
    BY <1>3, <2>2, TellingTail
  <2>6. Limits(c, R)
    BY <2>2, <2>3, <2>4, <2>5, LimitsSame DEF SameLimit
  <2> QED
    BY <2>1, <2>6
<1> QED
  BY <1>2, <1>3

(* One more frame of settings; none before awaits its acknowledgement.     *)
LEMMA PledgedMore ==
    ASSUME NEW L, Numbers(L), ~L.chgInflight, NEW o \in Seq(FrameType), NEW f \in FrameType,
           f.t = "settings", NEW got \in BOOLEAN, NEW peer, NEW acks \in Nat, Pledged(got, peer, acks, o, L),
           NEW R, R.ackedStreams = L.ackedStreams, R.settingsAcked = L.settingsAcked, R.chgInflight,
           f.streams = IF R.advStreams # L.advStreams THEN R.advStreams ELSE -1
    PROVE  Pledged(got, peer, acks, Append(o, f), R)
<1>1. PICK p, m, n : p = Append(o, f) /\ m = Len(o) /\ n = All(o, "settings")
  OBVIOUS
<1>2. m \in Nat /\ Len(p) = m + 1 /\ p[m + 1] = f /\ \A i \in 1 .. m : p[i] = o[i]
  <2> HIDE DEF FrameType
  <2> QED
    BY <1>1
<1>3. n \in Nat /\ All(p, "settings") = n + 1
  <2>1. n \in Nat
    BY <1>1, <1>2, AllIs
  <2>2. All(Append(o, f), "settings") = All(o, "settings") + (IF f.t = "settings" THEN 1 ELSE 0)
    BY AllAppend
  <2> QED
    BY <1>1, <2>1, <2>2
<1>4. /\ n + acks = Outstanding(L) /\ L.advStreams = L.ackedStreams
      /\ got => n <= 0 /\ peer = L.ackedStreams
      /\ ~got => acks = 0 /\ n = 1 + 0
      /\ Telling(o, got, L)
  <2>1. Changing(L) = 0 /\ L.advStreams = L.ackedStreams
    BY DEF Changing, Numbers
  <2> QED
    BY <1>1, <2>1 DEF Pledged
<1>5. Changing(R) = 1 /\ Outstanding(R) = Outstanding(L) + 1
  BY DEF Changing, Outstanding
<1>6. (n + 1) + acks = Outstanding(R)
  <2>1. PICK g \in Nat : g = Outstanding(L)
    BY DEF Outstanding
  <2> QED
    <3>1. n \in Nat /\ n + acks = g /\ Outstanding(R) = g + 1
      BY <1>3, <1>4, <1>5, <2>1
    <3> QED
      BY ONLY acks \in Nat, g \in Nat, <3>1
<1>7. IF got THEN /\ All(p, "settings") <= Changing(R)
                  /\ peer = IF All(p, "settings") = 0 THEN R.advStreams ELSE R.ackedStreams
             ELSE acks = 0 /\ All(p, "settings") = 1 + Changing(R)
  BY <1>3, <1>4, <1>5
<1>8. Telling(p, got, R)
  <2> SUFFICES ASSUME NEW i \in 1 .. m + 1, p[i].t = "settings"
               PROVE  IF ~got /\ Count(p, i - 1, "settings") = 0 THEN p[i].streams = R.ackedStreams
                      ELSE \/ p[i].streams = R.advStreams
                           \/ p[i].streams = -1 /\ R.advStreams = R.ackedStreams
    BY <1>2 DEF Telling
  <2>1. CASE i = m + 1
    <3>1. Count(p, m, "settings") = n
      <4>1. Count(p, m, "settings") = Count(o, m, "settings")
        BY <1>2, CountSame
      <4> QED
        BY <1>1, <4>1 DEF All
    <3>2. p[i].streams = IF R.advStreams # L.advStreams THEN R.advStreams ELSE -1
      BY <1>2, <2>1
    <3>3. i - 1 = m
      BY <1>2, <2>1
    <3>4. ~(~got /\ Count(p, i - 1, "settings") = 0)
      BY <1>4, <3>1, <3>3
    <3> QED
      BY <1>4, <3>2, <3>4
  <2>2. CASE i # m + 1
    <3>1. i \in 1 .. m /\ i - 1 \in Nat /\ i \in Nat /\ i <= m /\ (i - 1) + 1 = i /\ \A l \in 1 .. i - 1 : p[l] = o[l]
      BY <1>2, <2>2
    <3>2. o[i].t = "settings" /\ p[i] = o[i]
      BY <1>2, <3>1
    <3>3. n >= Count(o, i, "settings") /\ Count(o, i, "settings") = Count(o, i - 1, "settings") + 1
      <4>1. Count(o, i, "settings") <= Count(o, m, "settings")
        BY <1>2, <3>1, CountMore
      <4>2. Count(o, (i - 1) + 1, "settings") = Count(o, i - 1, "settings") + 1
        BY <3>1, <3>2, CountOne
      <4>3. Count(o, m, "settings") = n /\ Count(o, i, "settings") \in Nat
        BY <1>1, <3>1, CountIs DEF All
      <4> QED
        BY <1>3, <3>1, <4>1, <4>2, <4>3
    <3>4. Count(p, i - 1, "settings") = Count(o, i - 1, "settings") /\ Count(o, i - 1, "settings") \in Nat
      BY <3>1, CountSame, CountIs
    <3>5. ~got /\ Count(o, i - 1, "settings") = 0
      BY <1>3, <1>4, <3>3, <3>4
    <3>6. o[i].streams = L.ackedStreams
      <4>1. i \in 1 .. Len(o)
        BY <1>1, <3>1
      <4> QED
        BY <1>4, <3>2, <3>5, <4>1 DEF Telling
    <3> QED
      BY <3>2, <3>4, <3>5, <3>6
  <2> QED
    BY <2>1, <2>2
<1> QED
  BY <1>1, <1>3, <1>6, <1>7, <1>8 DEF Pledged

(* The owner's call changes the limit.                                     *)
LEMMA LimitsReset ==
    ASSUME NEW c, NEW s, GoodEnd(c), GoodEnd(s), Limits(c, s), NEW R, GoodEnd(R),
           NEW n \in Nat \cup {s.wantStreams}, Sets(s, R, n)
    PROVE  /\ Limits(c, R)
           /\ \A k \in 0 .. Len(c.out) : Allowed(c.out, s, k) = Allowed(c.out, R, k)
<1>1. PICK a \in Nat : a = All(c.out, "ack")
  BY OutIs, AllIs
<1>2. /\ R.ackedStreams = s.ackedStreams /\ R.settingsAcked = s.settingsAcked
      /\ R.wantStreams \in Nat /\ s.advStreams \in Nat /\ s.ackedStreams \in Nat
  BY DEF Sets, Limits, Numbers
<1>3. CASE R.advStreams = s.advStreams /\ R.chgInflight = s.chgInflight /\ R.out = s.out
  <2>1. Numbers(R) /\ Outstanding(R) = Outstanding(s) /\ Changing(R) = Changing(s)
    BY <1>2, <1>3 DEF Limits, Numbers, Outstanding, Changing
  <2>2. Telling(s.out, c.gotSettings, s) => Telling(R.out, c.gotSettings, R)
    BY <1>2, <1>3 DEF Telling
  <2>3. ASSUME ~c.closed PROVE Pledged(c.gotSettings, c.peerStreams, a, R.out, R)
    BY <1>1, <1>2, <1>3, <2>1, <2>2, <2>3 DEF Limits, Pledged
  <2>4. Limits(c, R)
    BY <1>1, <2>1, <2>3 DEF Limits
  <2>5. \A k : Allowed(c.out, s, k) = Allowed(c.out, R, k)
    BY <1>2, <1>3, <2>1 DEF Allowed
  <2> QED
    BY <2>4, <2>5
<1>4. CASE /\ ~s.chgInflight /\ R.chgInflight /\ R.advStreams = R.wantStreams
           /\ \E f \in FrameType :
                /\ R.out = Append(s.out, f) /\ f.t = "settings"
                /\ f.streams = IF R.wantStreams # s.advStreams THEN R.wantStreams ELSE -1
  <2>1. s.advStreams = s.ackedStreams /\ Numbers(s) /\ Numbers(R)
    BY <1>2, <1>4 DEF Limits, Numbers
  <2>2. Outstanding(R) = Outstanding(s) + 1
    BY <1>2, <1>4 DEF Outstanding
  <2>3. PICK g \in Nat : g = Outstanding(s)
    BY NumbersAre
  <2>4. a <= g
    BY <1>1, <2>3 DEF Limits
  <2>5. ASSUME ~c.closed PROVE Pledged(c.gotSettings, c.peerStreams, a, R.out, R)
    <3>1. PICK f \in FrameType :
                /\ R.out = Append(s.out, f) /\ f.t = "settings"
                /\ f.streams = IF R.wantStreams # s.advStreams THEN R.wantStreams ELSE -1
      BY <1>4
    <3>2. Pledged(c.gotSettings, c.peerStreams, a, s.out, s)
      BY <1>1, <2>5 DEF Limits
    <3>3. s.out \in Seq(FrameType) /\ c.gotSettings \in BOOLEAN
      BY OutIs, NumbersAre
    <3>4. f.streams = IF R.advStreams # s.advStreams THEN R.advStreams ELSE -1
      BY <1>4, <3>1
    <3>5. Pledged(c.gotSettings, c.peerStreams, a, Append(s.out, f), R)
      BY <1>2, <1>4, <2>1, <3>1, <3>2, <3>3, <3>4, PledgedMore
    <3> QED
      BY <3>1, <3>5
  <2>6. a <= Outstanding(R)
    BY ONLY a \in Nat, g \in Nat, <2>2, <2>3, <2>4
  <2>7. Limits(c, R)
    BY <1>1, <2>1, <2>5, <2>6 DEF Limits
  <2>8. ASSUME NEW k \in 0 .. Len(c.out) PROVE Allowed(c.out, s, k) = Allowed(c.out, R, k)
    <3>1. Len(c.out) \in Nat
      BY OutIs
    <3>2. k \in Nat /\ k <= Len(c.out)
      BY <3>1
    <3>3. PICK b \in Nat : b = Count(c.out, k, "ack")
      BY <3>2, CountIs
    <3>4. b <= a
      BY <1>1, <3>1, <3>2, <3>3, CountMore DEF All
    <3>5. b # Outstanding(R)
      BY ONLY a \in Nat, b \in Nat, g \in Nat, <2>2, <2>3, <2>4, <3>4
    <3> QED
      BY <1>2, <2>1, <3>3, <3>5 DEF Allowed
  <2> QED
    BY <2>7, <2>8
<1> QED
  BY <1>3, <1>4 DEF Sets

(* The acknowledgement of the client is read.                              *)
LEMMA LimitsAck ==
    ASSUME H2Assumption, NEW c, NEW s, GoodEnd(c), GoodEnd(s), Limits(c, s), s.rd = NoData,
           c.out # << >>, Head(c.out).t = "ack", NEW R, GoodEnd(R),
           R = OnFrame(Swept(s), Head(c.out))
    PROVE  /\ Limits(OutputSent(c), R)
           /\ \A k \in 0 .. Len(c.out) - 1 : Allowed(c.out, s, k + 1) = Allowed(Tail(c.out), R, k)
<1>1. PICK f, C : f \in FrameType /\ f = Head(c.out) /\ C = OutputSent(c)
  BY LeftIs
<1>2. PICK a \in Nat, g \in Nat : a = All(c.out, "ack") /\ g = Outstanding(s)
  BY OutIs, AllIs, NumbersAre
<1>3. /\ C.out = Tail(c.out) /\ C.closed = c.closed /\ C.gotSettings = c.gotSettings
      /\ C.peerStreams = c.peerStreams
  BY <1>1, LeftIs DEF SameLimit
<1>4. /\ All(C.out, "ack") = a - 1
      /\ \A k \in 0 .. Len(c.out) - 1 :
           Count(Tail(c.out), k, "ack") = Count(c.out, k + 1, "ack") - 1
  <2>1. (IF Head(c.out).t = "ack" THEN 1 ELSE 0) = 1
    OBVIOUS
  <2> QED
    BY <1>2, <1>3, <2>1, AllTail
<1>5. a - 1 \in Nat /\ a >= 1 /\ a <= g
  <2>1. C.out \in Seq(FrameType) /\ Len(C.out) \in Nat
    BY <1>3, LeftIs
  <2>2. All(C.out, "ack") \in Nat
    BY <2>1, AllIs
  <2>3. a - 1 \in Nat
    BY <1>4, <2>2
  <2>4. a <= g
    BY <1>2 DEF Limits
  <2> QED
    BY ONLY a \in Nat, g \in Nat, <2>3, <2>4
<1>6. /\ s.advStreams \in Nat /\ s.ackedStreams \in Nat /\ s.wantStreams \in Nat
      /\ s.chgInflight \in BOOLEAN /\ s.settingsAcked \in BOOLEAN
      /\ ~s.chgInflight => s.advStreams = s.ackedStreams
  BY NumbersAre DEF Limits, Numbers
<1>7. /\ \/ /\ ~s.settingsAcked /\ R.settingsAcked /\ R.chgInflight = s.chgInflight
            /\ R.advStreams = s.advStreams /\ R.ackedStreams = s.ackedStreams
            /\ R.wantStreams = s.wantStreams /\ R.out = s.out
         \/ s.settingsAcked /\ ~s.chgInflight
         \/ /\ s.settingsAcked /\ s.chgInflight
            /\ \E L : /\ ~L.chgInflight /\ L.settingsAcked /\ L.out = s.out
                      /\ L.advStreams = s.advStreams /\ L.ackedStreams = s.advStreams
                      /\ L.wantStreams = s.wantStreams /\ Changes(L, R)
  BY <1>1, AckReading
<1>8. \A k \in 0 .. Len(c.out) - 1 :
        /\ Count(c.out, k + 1, "ack") \in Nat /\ Count(Tail(c.out), k, "ack") \in Nat
        /\ Count(c.out, k + 1, "ack") <= a
  <2>1. Len(c.out) \in Nat
    BY OutIs
  <2> SUFFICES ASSUME NEW k \in 0 .. Len(c.out) - 1
               PROVE  /\ Count(c.out, k + 1, "ack") \in Nat /\ Count(Tail(c.out), k, "ack") \in Nat
                      /\ Count(c.out, k + 1, "ack") <= a
    OBVIOUS
  <2>2. k \in Nat /\ k + 1 \in Nat /\ k + 1 <= Len(c.out)
    BY <2>1
  <2> QED
    BY <1>2, <2>1, <2>2, CountIs, CountMore DEF All
<1>9. c.closed \/ Pledged(c.gotSettings, c.peerStreams, a, s.out, s)
  BY <1>2 DEF Limits
<1>10. CASE /\ ~s.settingsAcked /\ R.settingsAcked /\ R.chgInflight = s.chgInflight
            /\ R.advStreams = s.advStreams /\ R.ackedStreams = s.ackedStreams
            /\ R.wantStreams = s.wantStreams /\ R.out = s.out
  <2>1. Numbers(R) /\ Changing(R) = Changing(s) /\ Outstanding(R) = g - 1
    BY SMTT(20), <1>2, <1>6, <1>10, NumbersAre DEF Numbers, Changing, Outstanding
  <2>2. a - 1 <= g - 1
    BY ONLY a \in Nat, g \in Nat, <1>5
  <2>3. ASSUME ~c.closed PROVE Pledged(C.gotSettings, C.peerStreams, a - 1, R.out, R)
    <3>1. Pledged(c.gotSettings, c.peerStreams, a, s.out, s)
      BY <1>9, <2>3
    <3>2. PICK n \in Nat : n = All(s.out, "settings")
      BY OutIs, AllIs
    <3>3. n + a = g
      BY <1>2, <3>1, <3>2 DEF Pledged
    <3>4. n + (a - 1) = g - 1
      BY ONLY a \in Nat, g \in Nat, n \in Nat, <3>3
    <3>5. Telling(R.out, c.gotSettings, R)
      BY SMTT(20), <1>10, <3>1 DEF Pledged, Telling
    <3>6. c.gotSettings
      <4>1. a # 0
        BY <1>5
      <4> QED
        BY <3>1, <4>1 DEF Pledged
    <3> QED
      BY <1>3, <1>10, <2>1, <3>1, <3>2, <3>4, <3>5, <3>6 DEF Pledged
  <2>4. Limits(C, R)
    BY <1>3, <1>4, <2>1, <2>2, <2>3 DEF Limits
  <2>5. ASSUME NEW k \in 0 .. Len(c.out) - 1 PROVE Allowed(c.out, s, k + 1) = Allowed(Tail(c.out), R, k)
    <3>1. PICK b \in Nat : b = Count(c.out, k + 1, "ack")
      BY <1>8
    <3>2. Count(Tail(c.out), k, "ack") = b - 1
      BY <1>4, <3>1
    <3>3. b = g <=> b - 1 = g - 1
      BY ONLY b \in Nat, g \in Nat
    <3> QED
      BY <1>2, <1>10, <2>1, <3>1, <3>2, <3>3 DEF Allowed
  <2> QED
    BY <1>1, <2>4, <2>5
<1>11. CASE s.settingsAcked /\ ~s.chgInflight
  <2>1. Outstanding(s) = 0
    BY <1>11 DEF Outstanding
  <2> QED
    BY <1>2, <1>5, <2>1
<1>12. ASSUME s.settingsAcked, s.chgInflight, NEW L, ~L.chgInflight, L.settingsAcked, L.out = s.out,
              L.advStreams = s.advStreams, L.ackedStreams = s.advStreams,
              L.wantStreams = s.wantStreams, Changes(L, R)
       PROVE  /\ Limits(OutputSent(c), R)
              /\ \A k \in 0 .. Len(c.out) - 1 : Allowed(c.out, s, k + 1) = Allowed(Tail(c.out), R, k)
  <2>1. g = 1 /\ a = 1 /\ a - 1 = 0 /\ Outstanding(L) = 0 /\ Changing(L) = 0 /\ Numbers(L)
    <3>1. Outstanding(s) = 1 /\ Outstanding(L) = 0 /\ Changing(L) = 0
      BY <1>12 DEF Outstanding, Changing
    <3>2. Numbers(L)
      BY <1>6, <1>12 DEF Numbers
    <3> QED
      BY <1>2, <1>5, <3>1, <3>2
  <2>2. R.ackedStreams = s.advStreams /\ R.settingsAcked /\ R.wantStreams \in Nat
    BY <1>6, <1>12 DEF Changes
  <2>3. ASSUME ~c.closed PROVE Pledged(c.gotSettings, c.peerStreams, 0, s.out, L)
    <3>1. Pledged(c.gotSettings, c.peerStreams, a, s.out, s)
      BY <1>9, <2>3
    <3>2. PICK n \in Nat : n = All(s.out, "settings")
      BY OutIs, AllIs
    <3>3. n + a = g
      BY <1>2, <3>1, <3>2 DEF Pledged
    <3>4. n = 0
      BY ONLY n \in Nat, <2>1, <3>3
    <3>5. \A i \in 1 .. Len(s.out) : s.out[i].t # "settings"
      BY <3>2, <3>4, OutIs, AllIs
    <3>6. c.gotSettings
      BY <2>1, <3>1 DEF Pledged
    <3>7. c.peerStreams = s.advStreams
      BY <3>1, <3>2, <3>4, <3>6 DEF Pledged
    <3>8. Telling(s.out, c.gotSettings, L)
      BY <3>5 DEF Telling
    <3>9. n + 0 = 0 /\ n <= 0
      BY <3>4
    <3> QED
      BY <1>12, <2>1, <3>2, <3>4, <3>6, <3>7, <3>8, <3>9 DEF Pledged
  <2>4. ASSUME NEW k \in 0 .. Len(c.out) - 1
        PROVE  Allowed(c.out, s, k + 1) = s.advStreams /\ Count(Tail(c.out), k, "ack") = 0
    <3>1. PICK b \in Nat, d \in Nat : b = Count(c.out, k + 1, "ack") /\ d = Count(Tail(c.out), k, "ack")
      BY <1>8
    <3>2. d = b - 1 /\ b <= a
      BY <1>4, <1>8, <3>1
    <3>3. b = g /\ d = 0
      BY ONLY b \in Nat, d \in Nat, <2>1, <3>2
    <3> QED
      BY <1>2, <3>1, <3>3 DEF Allowed
  <2>5. CASE R.advStreams = L.advStreams /\ R.chgInflight = L.chgInflight /\ R.out = L.out
    <3>0. /\ R.advStreams = L.advStreams /\ R.ackedStreams = L.ackedStreams /\ R.out = s.out
          /\ R.advStreams \in Nat /\ R.ackedStreams = R.advStreams /\ R.wantStreams \in Nat
          /\ ~R.chgInflight /\ R.settingsAcked
      BY <1>6, <1>12, <2>2, <2>5
    <3>1. Numbers(R) /\ Outstanding(R) = 0 /\ Changing(R) = 0
      BY <3>0 DEF Numbers, Outstanding, Changing
    <3>2. Telling(s.out, c.gotSettings, L) => Telling(R.out, c.gotSettings, R)
      BY <3>0 DEF Telling
    <3>3. ASSUME ~c.closed PROVE Pledged(C.gotSettings, C.peerStreams, a - 1, R.out, R)
      <4>1. Pledged(c.gotSettings, c.peerStreams, 0, s.out, L)
        BY <2>3, <3>3
      <4> QED
        BY <1>3, <1>12, <2>1, <2>2, <2>5, <3>1, <3>2, <4>1 DEF Pledged
    <3>4. Limits(C, R)
      BY <1>3, <1>4, <2>1, <3>1, <3>3 DEF Limits
    <3>5. ASSUME NEW k \in 0 .. Len(c.out) - 1 PROVE Allowed(Tail(c.out), R, k) = s.advStreams
      BY <1>12, <2>2, <2>4, <2>5, <3>1, <3>5 DEF Allowed
    <3> QED
      BY <1>1, <2>4, <3>4, <3>5
  <2>6. ASSUME R.advStreams = L.wantStreams, R.chgInflight, NEW h \in FrameType,
               R.out = Append(L.out, h), h.t = "settings",
               h.streams = IF L.wantStreams # L.advStreams THEN L.wantStreams ELSE -1
        PROVE  /\ Limits(C, R)
               /\ \A k \in 0 .. Len(c.out) - 1 : Allowed(Tail(c.out), R, k) = s.advStreams
    <3>1. Numbers(R) /\ Outstanding(R) = 1 /\ Changing(R) = 1
      <4>1. R.advStreams \in Nat
        BY <1>6, <1>12, <2>6
      <4>2. R.ackedStreams \in Nat /\ R.wantStreams \in Nat /\ R.settingsAcked /\ R.chgInflight
        BY <1>6, <2>2, <2>6
      <4>3. Numbers(R)
        BY <4>1, <4>2 DEF Numbers
      <4> QED
        BY <4>2, <4>3 DEF Outstanding, Changing
    <3>2. s.out \in Seq(FrameType) /\ c.gotSettings \in BOOLEAN /\ 0 \in Nat
      BY OutIs, NumbersAre
    <3>3. /\ R.ackedStreams = L.ackedStreams /\ R.settingsAcked = L.settingsAcked
          /\ h.streams = IF R.advStreams # L.advStreams THEN R.advStreams ELSE -1
      BY <1>12, <2>6 DEF Changes
    <3>4. ASSUME ~c.closed PROVE Pledged(C.gotSettings, C.peerStreams, a - 1, R.out, R)
      <4>1. Pledged(c.gotSettings, c.peerStreams, 0, s.out, L)
        BY <2>3, <3>4
      <4>2. Pledged(c.gotSettings, c.peerStreams, 0, Append(s.out, h), R)
        <5>1. Numbers(L) /\ ~L.chgInflight /\ R.chgInflight /\ h \in FrameType /\ h.t = "settings"
          BY <1>12, <2>1, <2>6
        <5> QED
          BY SMTT(20), <3>2, <3>3, <4>1, <5>1, PledgedMore
      <4> QED
        BY <1>3, <1>12, <2>1, <2>6, <4>2
    <3>5. Limits(C, R)
      <4>1. a - 1 <= 1
        BY <2>1
      <4> QED
        BY <1>3, <1>4, <3>1, <3>4, <4>1 DEF Limits
    <3>6. ASSUME NEW k \in 0 .. Len(c.out) - 1 PROVE Allowed(Tail(c.out), R, k) = s.advStreams
      BY <2>2, <2>4, <3>1, <3>6 DEF Allowed
    <3> QED
      BY <3>5, <3>6
  <2> QED
    BY <1>1, <1>12, <2>4, <2>5, <2>6 DEF Changes
<1> QED
  BY <1>7, <1>10, <1>11, <1>12

LEMMA AllOneMore ==
    ASSUME NEW o, NEW p, Len(o) \in Nat, Len(p) \in Nat, Len(o) <= Len(p),
           \A i \in 1 .. Len(o) : p[i] = o[i], NEW kind,
           \A i \in Len(o) + 1 .. Len(p) : i = Len(o) + 1 \/ p[i].t # kind
    PROVE  All(p, kind) <= All(o, kind) + 1
<1>1. PICK m \in Nat, n \in Nat : m = Len(o) /\ n = Len(p)
  OBVIOUS
<1>2. Count(p, m, kind) = All(o, kind) /\ Count(p, m, kind) \in Nat
  <2>1. \A i \in 1 .. m : p[i] = o[i]
    BY <1>1
  <2>2. Count(p, m, kind) = Count(o, m, kind)
    BY <2>1, CountSame
  <2> QED
    BY <1>1, <2>2, CountIs DEF All
<1>3. CASE n = m
  BY <1>1, <1>2, <1>3 DEF All
<1>4. CASE n # m
  <2>1. m + 1 \in Nat /\ m + 1 <= n /\ m <= m + 1
    BY <1>1, <1>4
  <2>2. \A i \in (m + 1) + 1 .. n : p[i].t # kind
    <3>1. \A i \in (m + 1) + 1 .. n : i \in m + 1 .. n /\ i # m + 1
      BY ONLY m \in Nat, n \in Nat
    <3> QED
      BY <1>1, <3>1
  <2>3. Count(p, n, kind) = Count(p, m + 1, kind)
    BY <2>1, <2>2, CountMore
  <2>4. Count(p, m + 1, kind) <= Count(p, m, kind) + 1
    <3>1. CASE p[m + 1].t = kind
      BY SMTT(20), <1>2, <3>1, CountOne
    <3>2. CASE p[m + 1].t # kind
      <4>1. \A i \in m + 1 .. m + 1 : p[i].t # kind
        <5>1. \A i \in m + 1 .. m + 1 : i = m + 1
          OBVIOUS
        <5> QED
          BY <3>2, <5>1
      <4>2. Count(p, m + 1, kind) = Count(p, m, kind)
        BY <2>1, <4>1, CountMore
      <4> QED
        BY <1>2, <4>2
    <3> QED
      BY <3>1, <3>2
  <2> QED
    BY <1>1, <1>2, <2>3, <2>4 DEF All
<1> QED
  BY <1>3, <1>4

(* The server's settings are read.                                         *)
LEMMA LimitsSettings ==
    ASSUME H2Assumption, NEW c, NEW s, GoodEnd(c), GoodEnd(s), Limits(c, s), c.rd = NoData, ~c.closed,
           s.out # << >>, Head(s.out).t = "settings", NEW C, Goes(c, C),
           C = OnFrame(Swept(c), Head(s.out))
    PROVE  Limits(C, OutputSent(s))
<1>1. PICK f, S : f \in FrameType /\ f = Head(s.out) /\ S = OutputSent(s)
  BY LeftIs
<1>2. PICK a \in Nat, g \in Nat, n \in Nat :
        a = All(c.out, "ack") /\ g = Outstanding(s) /\ n = All(s.out, "settings")
  BY OutIs, AllIs, NumbersAre
<1>3. S.out = Tail(s.out) /\ SameNumbers(s, S)
  BY <1>1, LeftIs DEF SameLimit
<1>4. /\ S.advStreams = s.advStreams /\ S.ackedStreams = s.ackedStreams
      /\ Numbers(S) /\ Outstanding(S) = g /\ Changing(S) = Changing(s)
  BY <1>2, <1>3 DEF SameNumbers, Numbers, Outstanding, Changing, Limits
<1>5. All(S.out, "settings") = n - 1
  <2>1. (IF Head(s.out).t = "settings" THEN 1 ELSE 0) = 1
    OBVIOUS
  <2> QED
    BY <1>2, <1>3, <2>1, AllTail
<1>6. n >= 1
  <2>1. S.out \in Seq(FrameType) /\ Len(S.out) \in Nat
    BY <1>3, LeftIs
  <2>2. All(S.out, "settings") \in Nat
    BY <2>1, AllIs
  <2>3. n - 1 \in Nat
    BY <1>5, <2>2
  <2> QED
    BY ONLY n \in Nat, <2>3
<1>7. /\ n + a = g
      /\ c.gotSettings => n <= Changing(s) /\ c.peerStreams = (IF n = 0 THEN s.advStreams ELSE s.ackedStreams)
      /\ ~c.gotSettings => a = 0 /\ n = 1 + Changing(s)
      /\ Telling(s.out, c.gotSettings, s)
  BY <1>2 DEF Limits, Pledged
<1>8. /\ C.closed \/ /\ C.gotSettings /\ C.out = Append(c.out, Ack)
                     /\ C.peerStreams = IF f.streams = -1 THEN c.peerStreams ELSE f.streams
      /\ \A i \in New(c, C) : i = Len(c.out) + 1 \/ Murmur(C.out[i])
  BY <1>1, SettingsReading
<1>9. CASE C.closed
  <2>1. \A i \in New(c, C) : i = Len(c.out) + 1 \/ C.out[i].t # "ack"
    BY <1>8 DEF Murmur
  <2>2. PICK o, p : o = c.out /\ p = C.out
    OBVIOUS
  <2>3. /\ Len(o) \in Nat /\ Len(p) \in Nat /\ Len(o) <= Len(p) /\ \A i \in 1 .. Len(o) : p[i] = o[i]
        /\ \A i \in Len(o) + 1 .. Len(p) : i = Len(o) + 1 \/ p[i].t # "ack"
    BY <2>1, <2>2, OutIs DEF New, Goes
  <2>4. All(p, "ack") <= All(o, "ack") + 1 /\ All(p, "ack") \in Nat
    BY <2>3, AllOneMore, AllIs
  <2>5. PICK b \in Nat : b = All(C.out, "ack")
    BY <2>2, <2>4
  <2>6. b <= a + 1 /\ n + a = g
    BY <1>2, <1>7, <2>2, <2>4, <2>5
  <2>7. b <= g
    BY ONLY a \in Nat, b \in Nat, g \in Nat, n \in Nat, <1>6, <2>6
  <2> QED
    BY <1>1, <1>4, <1>9, <2>5, <2>7 DEF Limits
<1>10. CASE ~C.closed
  <2>1. /\ C.gotSettings /\ C.out = Append(c.out, Ack)
        /\ C.peerStreams = IF f.streams = -1 THEN c.peerStreams ELSE f.streams
    BY <1>8, <1>10
  <2>2. All(C.out, "ack") = a + 1
    <3>1. PICK h \in FrameType : h = Ack /\ h.t = "ack"
      <4>1. Ack \in FrameType /\ Ack.t = "ack"
        BY DEF FrameType, Ack
      <4> HIDE DEF FrameType
      <4> QED
        BY <4>1
    <3>2. All(Append(c.out, h), "ack") = a + 1
      <4>1. All(Append(c.out, h), "ack") = All(c.out, "ack") + (IF h.t = "ack" THEN 1 ELSE 0)
        BY OutIs, AllAppend
      <4> QED
        BY <1>2, <3>1, <4>1
    <3> QED
      BY <2>1, <3>1, <3>2
  <2>3. (n - 1) + (a + 1) = g /\ a + 1 <= g
    <3>1. n + a = g
      BY <1>7
    <3> QED
      BY ONLY a \in Nat, n \in Nat, g \in Nat, <1>6, <3>1
  <2>4. Telling(S.out, TRUE, S)
    <3>1. Telling(Tail(s.out), TRUE, s)
      BY <1>7, TellingTail
    <3> QED
      BY <1>3, <1>4, <3>1 DEF Telling
  <2>5. /\ IF ~c.gotSettings THEN f.streams = s.ackedStreams
           ELSE f.streams = s.advStreams \/ (f.streams = -1 /\ s.advStreams = s.ackedStreams)
    <3>1. 1 \in 1 .. Len(s.out) /\ f = s.out[1]
      <4>1. s.out \in Seq(FrameType)
        BY OutIs
      <4>2. PICK q \in Seq(FrameType) : q = s.out
        BY <4>1
      <4> HIDE DEF FrameType
      <4> QED
        BY <1>1, <4>2
    <3>2. Count(s.out, 1 - 1, "settings") = 0
      BY CountIs
    <3>3. f.t = "settings"
      BY <1>1
    <3>4. s.out[1].t = "settings" =>
            IF ~c.gotSettings /\ Count(s.out, 1 - 1, "settings") = 0 THEN s.out[1].streams = s.ackedStreams
            ELSE \/ s.out[1].streams = s.advStreams
                 \/ s.out[1].streams = -1 /\ s.advStreams = s.ackedStreams
      BY <1>7, <3>1 DEF Telling
    <3> QED
      BY <3>1, <3>2, <3>3, <3>4
  <2>6. /\ s.advStreams \in Nat /\ s.ackedStreams \in Nat
        /\ Changing(s) \in {0, 1} /\ (Changing(s) = 0 => s.advStreams = s.ackedStreams)
    BY NumbersAre DEF Limits, Numbers
  <2>7. /\ n - 1 <= Changing(s)
        /\ C.peerStreams = IF n - 1 = 0 THEN s.advStreams ELSE s.ackedStreams
    <3>1. PICK x \in {0, 1} : x = Changing(s)
      BY <2>6
    <3>2. CASE c.gotSettings
      <4>1. n <= x /\ n # 0
        BY <1>6, <1>7, <3>1, <3>2
      <4>2. n - 1 = 0 /\ n - 1 <= x
        BY ONLY n \in Nat, x \in {0, 1}, <4>1
      <4>3. c.peerStreams = s.ackedStreams
        BY <1>7, <3>2, <4>1
      <4>4. C.peerStreams = s.advStreams
        <5>1. f.streams = s.advStreams \/ (f.streams = -1 /\ s.advStreams = s.ackedStreams)
          BY <2>5, <3>2
        <5>2. s.advStreams # -1
          BY <2>6
        <5> QED
          BY <2>1, <4>3, <5>1, <5>2
      <4> QED
        BY <3>1, <4>2, <4>4
    <3>3. CASE ~c.gotSettings
      <4>1. n = 1 + x
        BY <1>7, <3>1, <3>3
      <4>2. n - 1 = x
        BY ONLY n \in Nat, x \in {0, 1}, <4>1
      <4>3. C.peerStreams = s.ackedStreams
        <5>1. f.streams = s.ackedStreams /\ s.ackedStreams # -1
          BY <2>5, <2>6, <3>3
        <5> QED
          BY <2>1, <5>1
      <4>4. n - 1 = 0 => s.advStreams = s.ackedStreams
        BY <2>6, <3>1, <4>2
      <4> QED
        BY <3>1, <4>2, <4>3, <4>4
    <3> QED
      BY <3>2, <3>3
  <2>8. Pledged(C.gotSettings, C.peerStreams, All(C.out, "ack"), S.out, S)
    BY <1>4, <1>5, <2>1, <2>2, <2>3, <2>4, <2>7 DEF Pledged
  <2>9. All(C.out, "ack") <= Outstanding(S)
    BY <1>4, <2>2, <2>3
  <2> QED
    BY <1>1, <1>4, <2>8, <2>9 DEF Limits
<1> QED
  BY <1>9, <1>10

(* No request of a client that knew the settings was refused for their     *)
(* number, and none that is under way will be.                             *)
Limited(c, s) ==
    /\ s.overLimit \subseteq c.blind
    /\ s.closed \/ (InStep(c, s) /\ Limits(c, s))

LEMMA AllowedSame ==
    ASSUME NEW s, NEW R, SameNumbers(s, R), NEW out, NEW k
    PROVE  Allowed(out, s, k) = Allowed(out, R, k)
BY DEF SameNumbers, Allowed, Outstanding

LEMMA AllowedOn ==
    ASSUME NEW s, NEW R, GoodEnd(s), GoodEnd(R), NEW out, NEW rest, NEW k, NEW l,
           Allowed(out, s, k) = Allowed(rest, R, l)
    PROVE  Allowed(out, s, k) <= Allowed(rest, R, l)
<1>1. PICK a \in Int : a = Allowed(out, s, k)
  BY AllowedIs
<1> QED
  BY <1>1

LEMMA AllowedTail ==
    ASSUME NEW c, GoodEnd(c), c.out # << >>, Head(c.out).t # "ack", NEW s, NEW R, SameNumbers(s, R)
    PROVE  \A k \in 0 .. Len(c.out) - 1 : Allowed(c.out, s, k + 1) = Allowed(Tail(c.out), R, k)
<1> SUFFICES ASSUME NEW k \in 0 .. Len(c.out) - 1
             PROVE  Allowed(c.out, s, k + 1) = Allowed(Tail(c.out), R, k)
  OBVIOUS
<1>1. Count(Tail(c.out), k, "ack") = Count(c.out, k + 1, "ack") - (IF Head(c.out).t = "ack" THEN 1 ELSE 0)
  BY AllTail
<1>2. Count(c.out, k + 1, "ack") \in Nat
  <2>1. Len(c.out) \in Nat
    BY OutIs
  <2>2. k + 1 \in Nat
    BY <2>1
  <2> QED
    BY <2>2, CountIs
<1>3. Count(Tail(c.out), k, "ack") = Count(c.out, k + 1, "ack")
  BY <1>1, <1>2
<1> QED
  BY <1>3 DEF SameNumbers, Allowed, Outstanding

---------------------------------------------------------------------------
(* The steps of one end.                                                   *)
(* The client goes from c to C; what it has heard is true of the server.   *)
Heard(c, C, s) ==
    /\ C.closed \/ \A j \in Ids : \E heard, lost \in BOOLEAN :
         /\ Fares(c, C, j, heard, lost)
         /\ heard => Done(s, j)
         /\ lost => Gone(s, j) \/ C.goawayRecv
    /\ C.rd.fin => C.rd.id \in Ids /\ Done(s, C.rd.id)

LEMMA ClientMovesLimited ==
    ASSUME H2Assumption, NEW c, NEW s, Joined(c, s), Honest(c, s), Limited(c, s), ~c.closed,
           NEW C, Moves(c, C)
    PROVE  Limited(C, s)
<1>1. GoodEnd(c) /\ GoodEnd(s) /\ ~c.server
  BY DEF Joined
<1>2. Goes(c, C) /\ \/ SameLimit(c, C) /\ \A i \in New(c, C) : C.out[i].t \notin {"settings", "ack"}
                    \/ SameNumbers(c, C) /\ C.gotSettings = c.gotSettings /\ C.peerStreams = c.peerStreams
                       /\ \A i \in New(c, C) : C.out[i].t \notin {"settings", "ack"}
  BY <1>1 DEF Moves, Own, Lives, Settled, Piece, Leaves, Resets, Still
<1>3. GoodEnd(C) /\ C.blind = c.blind /\ C.gotSettings = c.gotSettings /\ C.peerStreams = c.peerStreams
  BY <1>2 DEF Goes, Same, SameLimit
<1>4. CASE s.closed
  BY <1>3, <1>4 DEF Limited
<1>5. CASE ~s.closed
  <2>1. InStep(c, s) /\ Limits(c, s)
    BY <1>5 DEF Limited
  <2>2. /\ ServerDone(s)
        /\ c.rd.fin => c.rd.id \in Ids /\ Done(s, c.rd.id)
    BY <2>1 DEF InStep, ClientHeard
  <2>3. PICK n \in BOOLEAN, y \in BOOLEAN : n = FALSE /\ y = TRUE
    OBVIOUS
  <2>4. Heard(c, C, s)
    <3>1. CASE Own(c, C)
      <4>1. C.closed \/ \A j \in Ids : Fares(c, C, j, n, n)
        BY <2>3, <3>1 DEF Own, Lives
      <4>2. C.rd = c.rd
        BY <3>1 DEF Own, Settled
      <4> QED
        BY <2>2, <2>3, <4>1, <4>2 DEF Heard
    <3>2. CASE Piece(c, C)
      <4>1. C.rd.fin => c.rd.fin /\ C.rd.id = c.rd.id
        BY <3>2 DEF Piece
      <4>2. ASSUME NEW j \in Ids
            PROVE  \E heard, lost \in BOOLEAN :
                     Fares(c, C, j, heard, lost) /\ (heard => Done(s, j)) /\ (lost => Gone(s, j) \/ C.goawayRecv)
        <5>1. PICK heard \in BOOLEAN : Fares(c, C, j, heard, FALSE) /\ (heard => c.rd.fin /\ j = c.rd.id)
          BY <3>2 DEF Piece
        <5>2. Fares(c, C, j, heard, n) /\ (heard => Done(s, j)) /\ (n => Gone(s, j) \/ C.goawayRecv)
          BY <2>2, <2>3, <5>1
        <5> QED
          BY <5>2
      <4> QED
        BY <2>2, <4>1, <4>2 DEF Heard
    <3>3. ASSUME NEW id \in Ids, Leaves(c, C, id) PROVE Heard(c, C, s)
      <4>1. C.rd = c.rd /\ Lives(c, C, {id}) /\ id \in Open(c) \ Open(C)
        BY <3>3 DEF Leaves
      <4>2. C.goawayRecv
        BY <3>3 DEF Leaves, Honest
      <4>3. Fares(c, C, id, n, y)
        BY <2>3, <4>1, OverFares
      <4>4. C.closed \/ \A j \in Ids \ {id} : Fares(c, C, j, n, n)
        BY <2>3, <4>1 DEF Lives
      <4>5. (n => Done(s, id)) /\ (y => Gone(s, id) \/ C.goawayRecv)
            /\ \A j : (n => Done(s, j)) /\ (n => Gone(s, j) \/ C.goawayRecv)
        BY <2>3, <4>2
      <4>6. C.closed \/ \A j \in Ids : Fares(c, C, j, n, n) \/ (j = id /\ Fares(c, C, id, n, y))
        BY <4>3, <4>4
      <4> QED
        BY <2>2, <4>1, <4>5, <4>6 DEF Heard
    <3> QED
      BY <1>1, <3>1, <3>2, <3>3 DEF Moves, Resets
  <2>5. InStep(C, s)
    BY <1>1, <1>2, <2>1, <2>4, ClientInStep DEF Heard
  <2>6. Limits(C, s)
    <3>1. \A i \in New(c, C) : C.out[i].t # "ack"
      BY <1>2
    <3>2. Len(c.out) <= Len(C.out) /\ \A i \in 1 .. Len(c.out) : C.out[i] = c.out[i]
      BY <1>2 DEF Goes
    <3>3. c.closed => C.closed
      BY <1>2 DEF Goes
    <3> QED
      BY <1>1, <1>3, <2>1, <3>1, <3>2, <3>3, LimitsClient
  <2> QED
    BY <1>3, <2>5, <2>6 DEF Limited
<1> QED
  BY <1>4, <1>5

LEMMA ServerMovesLimited ==
    ASSUME H2Assumption, NEW c, NEW s, Joined(c, s), Limited(c, s), ~s.closed, NEW R, Moves(s, R)
    PROVE  Limited(c, R)
<1>1. GoodEnd(c) /\ GoodEnd(s) /\ s.server
  BY DEF Joined
<1>2. InStep(c, s) /\ Limits(c, s) /\ ServerDone(s)
  BY DEF Limited, InStep
<1>3. Own(s, R) \/ Piece(s, R) \/ Resets(s, R)
  BY <1>1 DEF Moves, Leaves
<1>4. Goes(s, R) /\ GoodEnd(R) /\ R.overLimit = s.overLimit
  BY <1>3 DEF Own, Piece, Resets, Lives, Goes, Same
<1>5. CASE R.closed
  BY <1>4, <1>5 DEF Limited
<1>6. CASE ~R.closed
  <2>1. PICK n \in BOOLEAN : n = FALSE
    OBVIOUS
  <2>2. \A j \in Ids : \E heard, lost \in BOOLEAN : Fares(s, R, j, heard, lost)
    <3>1. CASE Own(s, R) \/ Resets(s, R)
      <4>1. \A j \in Ids : Fares(s, R, j, n, n)
        BY <1>6, <2>1, <3>1 DEF Own, Resets, Lives
      <4> QED
        BY <4>1
    <3>2. CASE Piece(s, R)
      <4>1. \A j \in Ids : \E heard \in BOOLEAN : Fares(s, R, j, heard, n)
        BY <2>1, <3>2 DEF Piece
      <4> QED
        BY <4>1
    <3> QED
      BY <1>3, <3>1, <3>2
  <2>3. /\ \A j \in Ids : j <= s.lastPeerId /\ Coming(s, j) => Over(R, j)
        /\ R.rd.fin => R.rd.id \in Ids /\ R.rd.id <= R.lastPeerId
    <3>1. /\ s.rd.fin => s.rd.id \in Ids /\ s.rd.id <= s.lastPeerId
          /\ R.lastPeerId = s.lastPeerId
      BY <1>2, <1>4 DEF ServerDone, Goes, Same
    <3>2. CASE Own(s, R) \/ Resets(s, R)
      <4>1. R.rd = s.rd
        BY <3>2 DEF Own, Resets, Settled, Deaf
      <4> QED
        BY <3>1, <4>1 DEF Over, Coming
    <3>3. CASE Piece(s, R)
      <4>1. Known(s) = s.lastPeerId
        BY <1>1 DEF Known
      <4> QED
        BY <3>1, <3>3, <4>1 DEF Piece
    <3> QED
      BY <1>3, <3>2, <3>3
  <2>4. Follows(s, R)
    BY <1>1, <1>2, <1>4, <2>2, <2>3, FaresFollows
  <2>5. Limits(c, R) /\ \A k \in 0 .. Len(c.out) : Allowed(c.out, s, k) = Allowed(c.out, R, k)
    <3>1. CASE Own(s, R) \/ Piece(s, R)
      <4>1. SameNumbers(s, R) /\ \A i \in New(s, R) : R.out[i].t # "settings"
        BY <3>1 DEF Own, Piece, Settled, SameLimit, Still
      <4>2. Len(s.out) <= Len(R.out) /\ \A i \in 1 .. Len(s.out) : R.out[i] = s.out[i]
        BY <1>4 DEF Goes
      <4>3. Limits(c, R)
        BY <1>1, <1>2, <1>4, <4>1, <4>2, LimitsServer
      <4> QED
        BY <4>1, <4>3, AllowedSame
    <3>2. CASE Resets(s, R)
      <4>1. PICK m \in Nat \cup {s.wantStreams} : Sets(s, R, m)
        BY <3>2 DEF Resets
      <4> QED
        BY <1>1, <1>2, <1>4, <4>1, LimitsReset
    <3> QED
      BY <1>3, <3>1, <3>2
  <2>6. \A k \in 0 .. Len(c.out) : Allowed(c.out, s, k) <= Allowed(c.out, R, k)
    BY <1>1, <1>4, <2>5, AllowedOn
  <2>7. InStep(c, R)
    BY <1>1, <1>2, <2>4, <2>6, ServerInStep
  <2> QED
    BY <1>4, <2>5, <2>7 DEF Limited
<1> QED
  BY <1>5, <1>6

(* The client opens a stream.                                              *)
LEMMA AsksLimited ==
    ASSUME H2Assumption, NEW c, NEW s, Joined(c, s), Limited(c, s), ~c.closed, ~c.goawayRecv,
           Cardinality(Open(c)) < c.peerStreams, NEW f \in FrameType, NEW C, Asks(c, C, f)
    PROVE  Limited(C, s)
<1>1. GoodEnd(c) /\ GoodEnd(s) /\ ~c.server /\ c.nextId % 2 = 1 /\ s.lastPeerId < c.nextId
  BY DEF Joined
<1>2. /\ GoodEnd(C) /\ c.blind \subseteq C.blind /\ C.closed = c.closed /\ C.out = Append(c.out, f)
      /\ C.gotSettings = c.gotSettings /\ C.peerStreams = c.peerStreams /\ f.t = "headers"
  BY DEF Asks, SameLimit
<1>3. CASE s.closed
  BY <1>2, <1>3 DEF Limited
<1>4. CASE ~s.closed
  <2>1. InStep(c, s) /\ Limits(c, s)
    BY <1>4 DEF Limited
  <2>2. c.gotSettings => c.peerStreams = Allowed(c.out, s, Len(c.out))
    BY <1>1, <2>1, LimitsAllow
  <2>3. InStep(C, s)
    BY <1>1, <2>1, <2>2, AskInStep
  <2>4. PICK o, p : o \in Seq(FrameType) /\ o = c.out /\ p = C.out /\ p = Append(o, f)
    BY <1>1, <1>2, OutIs
  <2>5. Len(o) \in Nat /\ Len(p) = Len(o) + 1 /\ p[Len(o) + 1] = f /\ \A i \in 1 .. Len(o) : p[i] = o[i]
    <3>1. PICK q \in Seq(FrameType) : q = o
      BY <2>4
    <3>2. PICK h \in FrameType : h = f
      OBVIOUS
    <3> HIDE DEF FrameType
    <3>3. /\ Len(q) \in Nat /\ Len(Append(q, h)) = Len(q) + 1 /\ Append(q, h)[Len(q) + 1] = h
          /\ \A i \in 1 .. Len(q) : Append(q, h)[i] = q[i]
      OBVIOUS
    <3> QED
      BY <2>4, <3>1, <3>2, <3>3
  <2>6. /\ Len(c.out) <= Len(C.out) /\ \A i \in 1 .. Len(c.out) : C.out[i] = c.out[i]
        /\ \A i \in New(c, C) : C.out[i].t # "ack"
    <3>1. \A i \in Len(o) + 1 .. Len(p) : i = Len(o) + 1
      BY <2>5
    <3> QED
      BY SMTT(20), <1>2, <2>4, <2>5, <3>1 DEF New
  <2>7. Limits(C, s)
    BY <1>1, <1>2, <2>1, <2>6, LimitsClient
  <2> QED
    BY <1>2, <2>3, <2>7 DEF Limited
<1> QED
  BY <1>3, <1>4

---------------------------------------------------------------------------
(* A frame is read.                                                        *)
(* What the server has said leaves its output.                             *)
LEMMA SaidFollows ==
    ASSUME NEW s, GoodEnd(s), s.server, ServerDone(s), s.out # << >>
    PROVE  Follows(s, OutputSent(s))
<1>1. PICK R : R = OutputSent(s)
  OBVIOUS
<1>2. /\ GoodEnd(R) /\ R.server /\ R.lastPeerId = s.lastPeerId /\ R.streams = s.streams /\ R.rd = s.rd
      /\ R.out = Tail(s.out) /\ Len(R.out) = Len(s.out) - 1 /\ Len(s.out) \in Nat
      /\ \A i \in 1 .. Len(s.out) - 1 : R.out[i] = s.out[i + 1]
  BY <1>1, LeftIs, OutIs DEF Same
<1>3. /\ Open(R) = Open(s) /\ \A j, flag : Has(R, j, flag) <=> Has(s, j, flag)
  BY <1>2 DEF Open, Has
<1>4. \A j : /\ Alive(R, j) <=> Alive(s, j)
             /\ Done(R, j) <=> Done(s, j)
             /\ Gone(R, j) <=> Gone(s, j)
             /\ Coming(R, j) <=> Coming(s, j)
  BY <1>2, <1>3 DEF Alive, Done, Gone, Coming
<1>5. \A i \in DOMAIN R.out : i + 1 \in DOMAIN s.out /\ R.out[i] = s.out[i + 1]
  <2>1. DOMAIN R.out = 1 .. Len(R.out) /\ DOMAIN s.out = 1 .. Len(s.out)
    BY <1>2, HistoryTypes
  <2>2. PICK m \in Nat : m = Len(s.out)
    BY <1>2
  <2>3. \A i \in 1 .. m - 1 : i + 1 \in 1 .. m
    BY ONLY m \in Nat
  <2> QED
    BY <1>2, <2>1, <2>2, <2>3
<1>6. ServerDone(R)
  BY <1>2, <1>3, <1>4, <1>5 DEF ServerDone, OneSided
<1>7. \A j \in Ids : j <= s.lastPeerId /\ Coming(s, j) => Over(R, j)
  BY <1>4 DEF Over
<1>8. s.lastPeerId <= R.lastPeerId
  <2>1. s.lastPeerId \in Nat
    BY HistoryTypes
  <2> QED
    BY <1>2, <2>1
<1>9. \A j \in Ids : j \in Open(s) /\ Has(s, j, "REMOTE_END") => j \notin Open(R) \/ Has(R, j, "REMOTE_END")
  BY <1>3
<1>10. Follows(s, R)
  BY <1>2, <1>4, <1>6, <1>7, <1>8, <1>9 DEF Follows
<1> QED
  BY <1>1, <1>10

(* The client reads.                                                       *)
LEMMA ClientReadsLimited ==
    ASSUME H2Assumption, NEW c, NEW s, Joined(c, s), Limited(c, s), ~c.closed, c.rd = NoData,
           s.out # << >>, NEW C, C = OnFrame(Swept(c), Head(s.out))
    PROVE  Limited(C, OutputSent(s))
<1>1. GoodEnd(c) /\ GoodEnd(s) /\ ~c.server /\ s.server
  BY DEF Joined
<1>2. PICK f, S : f \in FrameType /\ f = Head(s.out) /\ S = OutputSent(s)
  BY <1>1, LeftIs
<1>3. Reading(c, C, f)
  BY <1>1, <1>2, FrameReading DEF NewRequest
<1>4. Goes(c, C) /\ GoodEnd(C) /\ C.blind = c.blind
  BY <1>3 DEF Reading, Goes, Same
<1>5. GoodEnd(S) /\ S.overLimit = s.overLimit /\ S.closed = s.closed /\ SameNumbers(s, S)
  BY <1>1, <1>2, LeftIs DEF Same, SameLimit
<1>6. CASE s.closed
  BY <1>2, <1>4, <1>5, <1>6 DEF Limited
<1>7. CASE ~s.closed
  <2>1. InStep(c, s) /\ Limits(c, s) /\ ServerDone(s)
    BY <1>7 DEF Limited, InStep
  <2>2. \A j \in Ids : (Ended(f, j) => Done(s, j)) /\ (IsRst(f, j) => Gone(s, j))
    <3>1. f = s.out[1] /\ 1 \in DOMAIN s.out
      <4>1. s.out \in Seq(FrameType)
        BY <1>1, OutIs
      <4>2. PICK q \in Seq(FrameType) : q = s.out
        BY <4>1
      <4> HIDE DEF FrameType
      <4> QED
        BY <1>2, <4>2
    <3> QED
      BY <2>1, <3>1 DEF ServerDone
  <2>3. C.closed \/ \A j \in Ids : \E heard, lost \in BOOLEAN :
             /\ Fares(c, C, j, heard, lost)
             /\ heard => Done(s, j)
             /\ lost => Gone(s, j) \/ C.goawayRecv
    <3>1. C.closed \/ \A j \in Ids : \E heard, lost \in BOOLEAN :
            Fares(c, C, j, heard, lost) /\ (heard => Ended(f, j)) /\ (lost => IsRst(f, j))
      BY <1>3 DEF Reading
    <3> QED
      BY <2>2, <3>1
  <2>4. C.closed \/ (C.rd.fin => C.rd.id \in Ids /\ Done(s, C.rd.id))
    <3>1. C.closed \/ (C.rd.fin => Ended(f, C.rd.id))
      BY <1>3 DEF Reading, Marks
    <3>2. Ended(f, C.rd.id) => C.rd.id \in Ids
      BY <1>2 DEF Ended, FrameType
    <3> QED
      BY <2>2, <3>1, <3>2
  <2>5. InStep(C, s)
    BY <1>1, <1>4, <2>1, <2>3, <2>4, ClientInStep
  <2>6. InStep(C, S)
    <3>1. Follows(s, S)
      BY <1>1, <1>2, <2>1, SaidFollows
    <3>2. \A k : Allowed(C.out, s, k) = Allowed(C.out, S, k)
      BY <1>5, AllowedSame
    <3>3. \A k \in 0 .. Len(C.out) : Allowed(C.out, s, k) <= Allowed(C.out, S, k)
      BY <1>1, <1>5, <3>2, AllowedOn
    <3> QED
      BY <1>1, <1>4, <2>5, <3>1, <3>3, ServerInStep
  <2>7. Limits(C, S)
    <3>1. CASE f.t = "settings"
      BY <1>1, <1>2, <1>4, <2>1, <3>1, LimitsSettings
    <3>2. CASE f.t # "settings"
      <4>1. Limits(c, S)
        BY <1>1, <1>2, <2>1, <3>2, LimitsSent
      <4>2. /\ C.gotSettings = c.gotSettings /\ C.peerStreams = c.peerStreams
            /\ \A i \in New(c, C) : C.out[i].t # "ack"
        <5>1. CASE f.t = "ack"
          BY <1>1, <1>2, <5>1, AckReading
        <5>2. CASE f.t # "ack"
          <6>1. Still(c, C)
            BY <1>3, <3>2, <5>2 DEF Reading
          <6> QED
            BY <6>1 DEF Still
        <5> QED
          BY <5>1, <5>2
      <4>3. Len(c.out) <= Len(C.out) /\ \A i \in 1 .. Len(c.out) : C.out[i] = c.out[i]
        BY <1>4 DEF Goes
      <4> QED
        BY <1>1, <1>4, <1>5, <4>1, <4>2, <4>3, LimitsClient
    <3> QED
      BY <3>1, <3>2
  <2> QED
    BY <1>2, <1>4, <1>5, <2>1, <2>6, <2>7 DEF Limited
<1> QED
  BY <1>6, <1>7

(* A request that the client made knowing the settings finds room.         *)
LEMMA FindsRoom ==
    ASSUME H2Assumption, NEW c, NEW s, GoodEnd(c), GoodEnd(s), s.server, Requests(c, s), s.rd = NoData,
           c.out # << >>, NEW f \in FrameType, f = Head(c.out), NewRequest(s, f), f.id \notin c.blind
    PROVE  Cardinality(Open(s)) < StreamLimit(s)
<1>1. 1 \in DOMAIN c.out /\ c.out[1] = f
  <2>1. c.out \in Seq(FrameType)
    BY OutIs
  <2>2. PICK q \in Seq(FrameType) : q = c.out
    BY <2>1
  <2> HIDE DEF FrameType
  <2> QED
    BY <2>2
<1>2. First(c.out, 1)
  BY DEF First
<1>3. Cardinality(Counted(c.out, s, f.id, 0)) < Allowed(c.out, s, 0)
  <2>1. Cardinality(Counted(c.out, s, f.id, 1 - 1)) < Allowed(c.out, s, 1 - 1)
    BY <1>1, <1>2 DEF Requests, NewRequest
  <2>2. 1 - 1 = 0
    OBVIOUS
  <2> QED
    BY <2>1, <2>2
<1>4. Open(s) \subseteq Counted(c.out, s, f.id, 0)
  <2> SUFFICES ASSUME NEW j \in Open(s) PROVE j \in Counted(c.out, s, f.id, 0)
    OBVIOUS
  <2>1. j \in Ids /\ j <= s.lastPeerId
    <3>1. Known(s) = s.lastPeerId
      BY DEF Known
    <3> QED
      BY <3>1, OpenKnown
  <2>2. j < f.id
    <3>1. j \in Nat /\ s.lastPeerId \in Nat /\ f.id \in Nat /\ f.id > s.lastPeerId
      <4>1. f.id \in Ids /\ f.id > s.lastPeerId
        BY RequestIs DEF NewRequest
      <4>2. \A i \in Ids : i \in Nat
        BY DEF Ids
      <4> QED
        BY <2>1, <4>1, <4>2, HistoryTypes
    <3> QED
      BY ONLY <2>1, <3>1
  <2>3. ~Stopped(c.out, s, j, 0)
    BY DEF Stopped, EndSent, Coming, NoData
  <2> QED
    BY <2>1, <2>2, <2>3 DEF Counted, Alive
<1>5. Cardinality(Open(s)) <= Cardinality(Counted(c.out, s, f.id, 0))
      /\ Cardinality(Open(s)) \in Nat /\ Cardinality(Counted(c.out, s, f.id, 0)) \in Nat
  <2>1. Counted(c.out, s, f.id, 0) \in SUBSET Ids /\ Open(s) \in SUBSET Ids
    BY <1>4 DEF Counted
  <2>2. IsFiniteSet(Counted(c.out, s, f.id, 0))
    BY <2>1, IdsFinite
  <2> QED
    BY <1>4, <2>1, <2>2, IdsFinite, FS_Subset
<1>6. Allowed(c.out, s, 0) <= StreamLimit(s) /\ StreamLimit(s) \in Int /\ Allowed(c.out, s, 0) \in Int
  <2>1. s.advStreams \in Int /\ s.ackedStreams \in Int
    BY EndFields DEF GoodEnd
  <2> QED
    BY <2>1 DEF Allowed, StreamLimit, Larger
<1>7. PICK x \in Int, y \in Int, z \in Int, w \in Int :
        /\ x = Cardinality(Open(s)) /\ y = Cardinality(Counted(c.out, s, f.id, 0))
        /\ z = Allowed(c.out, s, 0) /\ w = StreamLimit(s)
  BY <1>5, <1>6
<1>8. x <= y /\ y < z /\ z <= w
  BY <1>3, <1>5, <1>6, <1>7
<1>9. x < w
  BY ONLY x \in Int, y \in Int, z \in Int, w \in Int, <1>8
<1> QED
  BY <1>7, <1>9

(* The server reads.                                                       *)
LEMMA ServerReadsLimited ==
    ASSUME H2Assumption, NEW c, NEW s, Joined(c, s), Limited(c, s), ~s.closed, s.rd = NoData,
           c.out # << >>, NEW R, R = OnFrame(Swept(s), Head(c.out))
    PROVE  Limited(OutputSent(c), R)
<1>1. GoodEnd(c) /\ GoodEnd(s) /\ ~c.server /\ s.server
  BY DEF Joined
<1>2. PICK f, C : f \in FrameType /\ f = Head(c.out) /\ C = OutputSent(c)
  BY <1>1, LeftIs
<1>3. GoodEnd(C) /\ C.blind = c.blind
  BY <1>1, <1>2, LeftIs DEF Same
<1>4. InStep(c, s) /\ Limits(c, s) /\ ServerDone(s) /\ Requests(c, s) /\ s.overLimit \subseteq c.blind
  BY DEF Limited, InStep
<1>5. ASSUME GoodEnd(R), R.overLimit \subseteq c.blind, Follows(s, R), Marked(R, f),
             f.t # "ack" =>
               /\ SameNumbers(s, R) /\ Len(s.out) <= Len(R.out)
               /\ \A i \in 1 .. Len(s.out) : R.out[i] = s.out[i]
               /\ \A i \in New(s, R) : R.out[i].t # "settings"
      PROVE  Limited(C, R)
  <2>1. /\ Limits(C, R)
        /\ \A k \in 0 .. Len(c.out) - 1 : Allowed(c.out, s, k + 1) = Allowed(Tail(c.out), R, k)
    <3>1. CASE f.t = "ack"
      BY <1>1, <1>2, <1>4, <1>5, <3>1, LimitsAck
    <3>2. CASE f.t # "ack"
      <4>1. Limits(C, s)
        BY <1>1, <1>2, <1>4, <3>2, LimitsSent
      <4>2. Limits(C, R)
        BY <1>1, <1>5, <3>2, <4>1, LimitsServer
      <4> QED
        BY <1>1, <1>2, <1>5, <3>2, <4>2, AllowedTail
    <3> QED
      BY <3>1, <3>2
  <2>2. \A k \in 0 .. Len(c.out) - 1 : Allowed(c.out, s, k + 1) <= Allowed(Tail(c.out), R, k)
    BY <1>1, <1>5, <2>1, AllowedOn
  <2>3. InStep(C, R)
    BY <1>1, <1>2, <1>4, <1>5, <2>2, ReadInStep
  <2> QED
    BY <1>3, <1>5, <2>1, <2>3 DEF Limited
<1>6. ASSUME R.closed, R.overLimit \subseteq c.blind PROVE Limited(C, R)
  BY <1>3, <1>6 DEF Limited
<1>7. CASE NewRequest(s, f)
  <2>1. Meets(s, R, f) /\ (Refuses(s, R, f) \/ Accepts(s, R, f))
    BY <1>1, <1>2, <1>7, NewReading
  <2>2. Follows(s, R) /\ Marked(R, f)
    BY <1>1, <1>2, <1>4, <1>7, <2>1, MeetsFollows
  <2>3. R.overLimit \subseteq c.blind
    <3>1. CASE f.id \in c.blind
      BY <1>4, <2>1, <3>1 DEF Refuses, Accepts
    <3>2. CASE f.id \notin c.blind
      <4>1. Cardinality(Open(s)) < StreamLimit(s)
        BY <1>1, <1>2, <1>4, <1>7, <3>2, FindsRoom
      <4>2. ~(Cardinality(Open(s)) >= StreamLimit(s))
        <5>1. Cardinality(Open(s)) \in Nat /\ StreamLimit(s) \in Int
          <6>1. Open(s) \in SUBSET Ids /\ s.advStreams \in Int /\ s.ackedStreams \in Int
            BY <1>1, EndFields DEF GoodEnd
          <6> QED
            BY <6>1, IdsFinite DEF StreamLimit, Larger
        <5> QED
          BY <4>1, <5>1
      <4> QED
        BY <1>4, <2>1, <4>2 DEF Refuses, Accepts
    <3> QED
      BY <3>1, <3>2
  <2>4. /\ GoodEnd(R) /\ SameNumbers(s, R) /\ Len(s.out) <= Len(R.out)
        /\ \A i \in 1 .. Len(s.out) : R.out[i] = s.out[i]
    BY <2>1 DEF Meets, SameLimit
  <2>5. \A i \in New(s, R) : R.out[i].t # "settings"
    <3>1. \A i \in New(s, R) : Murmur(R.out[i]) \/ R.out[i] = Rst(f.id, "refused")
      BY <2>1 DEF Meets
    <3>2. Rst(f.id, "refused").t = "rst"
      BY DEF Rst
    <3> QED
      BY <3>1, <3>2 DEF Murmur
  <2> QED
    BY <1>2, <1>5, <2>2, <2>3, <2>4, <2>5
<1>8. CASE ~NewRequest(s, f)
  <2>1. Reading(s, R, f)
    BY <1>1, <1>2, <1>8, FrameReading
  <2>2. Goes(s, R) /\ GoodEnd(R) /\ R.overLimit \subseteq c.blind /\ R.lastPeerId = s.lastPeerId /\ R.server
    BY <1>1, <1>4, <2>1 DEF Reading, Goes, Same
  <2>3. CASE R.closed
    BY <1>2, <1>6, <2>2, <2>3
  <2>4. CASE ~R.closed
    <3>1. /\ \A j \in Ids : \E heard, lost \in BOOLEAN : Fares(s, R, j, heard, lost)
          /\ Marks(R, f)
      BY <2>1, <2>4 DEF Reading
    <3>2. Known(R) = R.lastPeerId
      BY <2>2 DEF Known
    <3>3. R.rd.fin => R.rd.id \in Ids /\ R.rd.id <= R.lastPeerId
      <4>1. R.rd.fin => Ended(f, R.rd.id) /\ R.rd.id <= R.lastPeerId
        BY <3>1, <3>2 DEF Marks
      <4>2. Ended(f, R.rd.id) => R.rd.id \in Ids
        BY <1>2 DEF Ended, FrameType
      <4> QED
        BY <4>1, <4>2
    <3>4. \A j : ~Coming(s, j)
      BY DEF Coming, NoData
    <3>5. Follows(s, R)
      BY <1>1, <1>4, <2>2, <3>1, <3>3, <3>4, FaresFollows
    <3>6. Marked(R, f)
      <4>1. f.t = "headers" => f.id <= R.lastPeerId
        <5>1. f.t = "headers" => f.id \in Nat
          <6>1. f.t = "headers" => f.id \in Ids
            BY <1>2 DEF FrameType
          <6>2. \A i \in Ids : i \in Nat
            BY DEF Ids
          <6> QED
            BY <6>1, <6>2
        <5>2. s.lastPeerId \in Nat
          BY <1>1, HistoryTypes
        <5> QED
          BY <1>1, <1>8, <2>2, <5>1, <5>2 DEF NewRequest
      <4> QED
        BY <3>1, <3>2, <4>1 DEF Marks, Marked, Gone
    <3>7. f.t # "ack" => SameNumbers(s, R) /\ \A i \in New(s, R) : R.out[i].t # "settings"
      <4>1. CASE f.t = "settings"
        BY <1>1, <1>2, <4>1, SettingsReading
      <4>2. CASE f.t \notin {"settings", "ack"}
        BY <2>1, <4>2 DEF Reading, Still
      <4> QED
        BY <4>1, <4>2
    <3>8. Len(s.out) <= Len(R.out) /\ \A i \in 1 .. Len(s.out) : R.out[i] = s.out[i]
      BY <2>2 DEF Goes
    <3> QED
      BY <1>2, <1>5, <2>2, <3>5, <3>6, <3>7, <3>8
  <2> QED
    BY <2>3, <2>4
<1> QED
  BY <1>7, <1>8

---------------------------------------------------------------------------
(* The invariant.                                                          *)
NoneRefused == Limited(end["client"], end["server"])

LEMMA LimitedStep ==
    ASSUME H2Assumption, WindowInv, RefusalsHonest, NoneRefused, Next
    PROVE  NoneRefused'
<1>1. PICK c, s : c = end["client"] /\ s = end["server"]
  OBVIOUS
<1>2. Joined(c, s) /\ Honest(c, s) /\ Limited(c, s)
  BY <1>1, InvParts DEF RefusalsHonest, NoneRefused
<1>3. "client" \in Ends /\ "server" \in Ends /\ Other("client") = "server" /\ Other("server") = "client"
  BY DEF Ends, Other
<1>4. CASE Acts("client")
  <2>1. PICK C : Step("client", C) /\ Moves(c, C) /\ ~c.closed
    BY <1>1, <1>4 DEF Acts
  <2>2. Limited(C, s)
    BY <1>2, <2>1, ClientMovesLimited
  <2>3. end'["client"] = C /\ end'["server"] = s
    BY <1>1, <1>3, <2>1, Stepped
  <2> QED
    BY <2>2, <2>3 DEF NoneRefused
<1>5. CASE Acts("server")
  <2>1. PICK R : Step("server", R) /\ Moves(s, R) /\ ~s.closed
    BY <1>1, <1>5 DEF Acts
  <2>2. Limited(c, R)
    BY <1>2, <2>1, ServerMovesLimited
  <2>3. end'["server"] = R /\ end'["client"] = c
    BY <1>1, <1>3, <2>1, Stepped
  <2> QED
    BY <2>2, <2>3 DEF NoneRefused
<1>6. CASE SubmitRequest
  <2>1. /\ \E f \in FrameType : Asks(c, end'["client"], f)
        /\ end'["server"] = s /\ Cardinality(Open(c)) < c.peerStreams /\ ~c.closed /\ ~c.goawayRecv
    BY <1>1, <1>6, RequestAsks
  <2>2. Limited(end'["client"], s)
    BY <1>2, <2>1, AsksLimited
  <2> QED
    BY <2>1, <2>2 DEF NoneRefused
<1>7. CASE ReadFrame("client")
  <2>1. /\ ~c.closed /\ c.rd = NoData /\ s.out # << >>
        /\ end'["client"] = OnFrame(Swept(c), Head(s.out)) /\ end'["server"] = OutputSent(s)
    BY <1>1, <1>3, <1>7, ReadIs
  <2>2. Limited(end'["client"], OutputSent(s))
    BY <1>2, <2>1, ClientReadsLimited
  <2> QED
    BY <2>1, <2>2 DEF NoneRefused
<1>8. CASE ReadFrame("server")
  <2>1. /\ ~s.closed /\ s.rd = NoData /\ c.out # << >>
        /\ end'["server"] = OnFrame(Swept(s), Head(c.out)) /\ end'["client"] = OutputSent(c)
    BY <1>1, <1>3, <1>8, ReadIs
  <2>2. Limited(OutputSent(c), end'["server"])
    BY <1>2, <2>1, ServerReadsLimited
  <2> QED
    BY <2>1, <2>2 DEF NoneRefused
<1> QED
  BY <1>4, <1>5, <1>6, <1>7, <1>8, NextMoves

(* What an end says first.                                                 *)
LEMMA FirstSaid ==
    ASSUME H2Assumption, NEW server \in BOOLEAN
    PROVE  LET S == Created(server) IN
           /\ Len(S.out) \in {1, 2} /\ S.out[1].t = "settings"
           /\ S.out[1].streams = (IF server THEN ServerStreams ELSE ClientStreams)
           /\ Len(S.out) = 2 => S.out[2].t = "window"
<1>1. PICK streams, window : /\ streams = IF server THEN ServerStreams ELSE ClientStreams
                             /\ window = IF server THEN ServerWindow ELSE DefaultWindow
  OBVIOUS
<1>2. PICK said : said = Settings(streams, IF window = DefaultWindow THEN -1 ELSE window)
  OBVIOUS
<1>3. Created(server).out = IF window > DefaultWindow
                              THEN <<said, Window(0, window - DefaultWindow)>> ELSE <<said>>
  BY <1>1, <1>2 DEF Created
<1>4. said.t = "settings" /\ said.streams = streams
  BY <1>2 DEF Settings
<1>5. PICK more : more = Window(0, window - DefaultWindow)
  OBVIOUS
<1>6. more.t = "window"
  BY <1>5 DEF Window
<1> QED
  BY <1>1, <1>3, <1>4, <1>5, <1>6

LEMMA LimitedInit ==
    ASSUME H2Assumption, Init
    PROVE  NoneRefused
<1>1. PICK c, s : c = end["client"] /\ s = end["server"]
  OBVIOUS
<1>2. c = Created(FALSE) /\ s = Created(TRUE)
  BY <1>1 DEF Init, Ends
<1>3. /\ s.overLimit = {} /\ s.streams = << >> /\ s.lastPeerId = 0 /\ s.rd = NoData
      /\ s.settingsAcked = FALSE /\ s.chgInflight = FALSE
      /\ s.advStreams = ServerStreams /\ s.ackedStreams = ServerStreams
      /\ s.wantStreams = ServerStreams
      /\ c.streams = << >> /\ c.rd = NoData /\ c.nextId = 1 /\ c.gotSettings = FALSE
  BY <1>2 DEF Created
<1>4. /\ Len(s.out) \in {1, 2} /\ s.out[1].t = "settings" /\ s.out[1].streams = ServerStreams
      /\ Len(s.out) = 2 => s.out[2].t = "window"
  BY <1>2, FirstSaid
<1>5. /\ Len(c.out) \in {1, 2} /\ c.out[1].t = "settings"
      /\ Len(c.out) = 2 => c.out[2].t = "window"
  BY <1>2, FirstSaid
<1>6. /\ \A i \in 1 .. Len(s.out) : i = 1 \/ s.out[i].t = "window"
      /\ \A i \in 1 .. Len(c.out) : c.out[i].t \in {"settings", "window"}
  <2>1. \A i \in 1 .. Len(s.out) : i = 1 \/ (i = 2 /\ Len(s.out) = 2)
    <3>1. PICK m \in {1, 2} : m = Len(s.out)
      BY <1>4
    <3>2. \A i \in 1 .. m : i = 1 \/ (i = 2 /\ m = 2)
      OBVIOUS
    <3> QED
      BY <3>1, <3>2
  <2>2. \A i \in 1 .. Len(c.out) : i = 1 \/ (i = 2 /\ Len(c.out) = 2)
    <3>1. PICK m \in {1, 2} : m = Len(c.out)
      BY <1>5
    <3>2. \A i \in 1 .. m : i = 1 \/ (i = 2 /\ m = 2)
      OBVIOUS
    <3> QED
      BY <3>1, <3>2
  <2> QED
    BY <1>4, <1>5, <2>1, <2>2
<1>7. DOMAIN s.out = 1 .. Len(s.out) /\ DOMAIN c.out = 1 .. Len(c.out)
  <2>1. GoodEnd(c) /\ GoodEnd(s)
    BY <1>1, InvInit, InvParts DEF Ends
  <2> QED
    BY <2>1, HistoryTypes
<1>8. Open(s) = {} /\ Open(c) = {}
  BY <1>3 DEF Open
<1>9. \A j \in Ids : ~(j < 1)
  BY DEF Ids
<1>10. All(s.out, "settings") = 1
  <2>0. PICK o : o = s.out
    OBVIOUS
  <2>1. PICK m \in {1, 2} : m = Len(o)
    BY <1>4, <2>0
  <2>2. Count(o, 0, "settings") = 0 /\ o[0 + 1].t = "settings" /\ 0 \in Nat /\ 0 + 1 = 1
    BY <1>4, <2>0, CountIs
  <2>3. Count(o, 1, "settings") = 1
    <3>1. Count(o, 0 + 1, "settings") = Count(o, 0, "settings") + 1
      BY <2>2, CountOne
    <3> QED
      BY <2>2, <3>1
  <2>4. \A i \in 1 + 1 .. m : o[i].t # "settings"
    <3>1. \A i \in 1 + 1 .. m : i \in 1 .. m /\ i # 1
      BY <2>1
    <3>2. \A i \in 1 .. m : i = 1 \/ o[i].t = "window"
      BY <1>6, <2>0, <2>1
    <3> QED
      BY <3>1, <3>2
  <2>5. Count(o, m, "settings") = 1
    <3>1. 1 \in Nat /\ m \in Nat /\ 1 <= m
      BY <2>1
    <3>2. Count(o, m, "settings") = Count(o, 1, "settings")
      BY <2>4, <3>1, CountMore
    <3> QED
      BY <2>3, <3>2
  <2> QED
    BY <2>0, <2>1, <2>5 DEF All
<1>11. All(c.out, "ack") = 0
  <2>1. \A i \in 1 .. Len(c.out) : c.out[i].t # "ack"
    BY <1>6
  <2>2. Len(c.out) \in Nat
    BY <1>5
  <2> QED
    BY <2>1, <2>2, AllIs
<1>12. Outstanding(s) = 1 /\ Changing(s) = 0
  BY <1>3 DEF Outstanding, Changing
<1>13. Numbers(s)
  BY <1>3, H2Assumption DEF H2Assumption, Numbers
<1>14. Telling(s.out, FALSE, s)
  BY <1>3, <1>4, <1>6, CountIs DEF Telling
<1>15. Limits(c, s)
  <2>1. 1 + 0 = 1 /\ 0 <= 1
    OBVIOUS
  <2>2. Pledged(FALSE, c.peerStreams, 0, s.out, s)
    BY <1>10, <1>12, <1>14, <2>1 DEF Pledged
  <2> QED
    BY <1>3, <1>11, <1>12, <1>13, <2>1, <2>2 DEF Limits
<1>16. ServerDone(s)
  <2>1. \A i \in DOMAIN s.out : s.out[i].t \in {"settings", "window"}
    BY <1>4, <1>6, <1>7
  <2> QED
    BY <1>3, <1>8, <2>1 DEF ServerDone, OneSided, Ended, IsRst, NoData
<1>17. Requests(c, s)
  BY <1>6, <1>7 DEF Requests
<1>18. StillOpen(c, s) /\ Unread(c, s) /\ ClientHeard(c, s)
  BY <1>3, <1>8, <1>9 DEF StillOpen, Unread, ClientHeard, NoData
<1> QED
  BY <1>1, <1>3, <1>15, <1>16, <1>17, <1>18 DEF NoneRefused, Limited, InStep

---------------------------------------------------------------------------
RefusalsInv == WindowInv /\ RefusalsHonest /\ NoneRefused

(* Refusals are right: a request is refused for the number of streams      *)
(* (h2c_on_block holds it against the larger of the limit advertised and   *)
(* the one acknowledged) only if it was made before the server's settings  *)
(* were read, however proven_h2_conn_set_max_streams moves the limit; and  *)
(* what the client's application is told was refused, the server's never   *)
(* saw.                                                                    *)
THEOREM RefusalsCorrect ==
    Spec => []RefusalsAreRight
<1>1. Init => RefusalsInv
  BY H2Assumption, InvInit, HonestInit, LimitedInit DEF RefusalsInv
<1>2. RefusalsInv /\ [Next]_vars => RefusalsInv'
  <2>1. CASE Next
    BY <2>1, H2Assumption, InvStep, HonestStep, LimitedStep DEF RefusalsInv
  <2>2. CASE UNCHANGED vars
    BY <2>2, H2Assumption, InvStep DEF RefusalsInv, RefusalsHonest, NoneRefused, vars
  <2> QED
    BY <2>1, <2>2
<1>3. RefusalsInv => RefusalsAreRight
  BY DEF RefusalsInv, RefusalsHonest, NoneRefused, Honest, Limited, RefusalsAreRight
<1> QED
  BY <1>1, <1>2, <1>3, PTL DEF Spec
=============================================================================
