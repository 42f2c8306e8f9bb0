---------------------------- MODULE H2ConnProofs ----------------------------
(***************************************************************************)
(* Flow control of an HTTP/2 connection, for all configurations and for    *)
(* every plan of the two applications: both ends always count the same.    *)
(* An end's own steps change neither side of the equations, whatever they  *)
(* do; reading a frame moves what it carries from one side to the other.   *)
(* And nobody waits for room that will never come, as long as ceilings     *)
(* only fall: what an end withholds from its peer is always less than the  *)
(* room the peer has (Solvent), and is settled with every unit consumed.   *)
(***************************************************************************)
EXTENDS H2Conn, SequenceTheorems, WellFoundedInduction, FiniteSetTheorems, TLAPS

---------------------------------------------------------------------------
(* Sums.                                                                   *)

Units(f) == UNION {{x} \X (1 .. f[x]) : x \in DOMAIN f}

LEMMA TotalType ==
    ASSUME NEW D, IsFiniteSet(D), NEW f \in [D -> Nat]
    PROVE  IsFiniteSet(Units(f)) /\ Total(f) = Cardinality(Units(f)) /\ Total(f) \in Nat
<1> DEFINE T == {{x} \X (1 .. f[x]) : x \in D}
           g == [x \in D |-> {x} \X (1 .. f[x])]
<1>1. g \in Surjection(D, T)
  BY DEF Surjection
<1>2. IsFiniteSet(T)
  BY <1>1, FS_Surjection
<1>3. ASSUME NEW x \in D PROVE IsFiniteSet({x} \X (1 .. f[x]))
  <2>0. f[x] \in Int /\ 1 \in Int
    OBVIOUS
  <2>1. IsFiniteSet({x}) /\ IsFiniteSet(1 .. f[x])
    BY <2>0, FS_Singleton, FS_Interval
  <2> QED
    BY <2>1, FS_Product
<1>4. \A U \in T : IsFiniteSet(U)
  BY <1>3
<1> HIDE DEF T
<1>5. IsFiniteSet(UNION T)
  BY <1>2, <1>4, FS_UNION
<1>6. Units(f) = UNION T
  BY DEF Units, T
<1>7. Cardinality(Units(f)) \in Nat
  BY <1>5, <1>6, FS_CardinalityType
<1> QED
  BY <1>5, <1>6, <1>7 DEF Total, Units

(* The units of a sequence of frames, as pairs of a place and a number.    *)
UnitsOf(out, kind, ids) == {p \in Nat \X Nat : p[1] \in Of(out, kind, ids) /\ p[2] \in 1 .. out[p[1]].n}

LEMMA CarriedIs ==
    ASSUME NEW out \in Seq(FrameType), NEW kind \in {"data", "window"}, NEW ids
    PROVE  /\ IsFiniteSet(UnitsOf(out, kind, ids))
           /\ Carried(out, kind, ids) = Cardinality(UnitsOf(out, kind, ids))
           /\ Carried(out, kind, ids) \in Nat
           /\ \A i \in Of(out, kind, ids) : i \in 1 .. Len(out) /\ out[i].n \in Nat
<1> DEFINE D == Of(out, kind, ids)
           f == [i \in D |-> out[i].n]
<1>1. D \subseteq 1 .. Len(out)
  BY DEF Of
<1>2. IsFiniteSet(D)
  <2>1. Len(out) \in Int /\ 1 \in Int
    OBVIOUS
  <2>2. IsFiniteSet(1 .. Len(out))
    BY <2>1, FS_Interval
  <2> QED
    BY <1>1, <2>2, FS_Subset
<1>3. ASSUME NEW i \in D PROVE out[i].n \in Nat
  <2>1. out[i] \in FrameType /\ out[i].t = kind
    BY <1>1 DEF Of
  <2> QED
    BY <2>1 DEF FrameType
<1>4. f \in [D -> Nat]
  BY <1>3
<1>5. IsFiniteSet(Units(f)) /\ Total(f) = Cardinality(Units(f)) /\ Total(f) \in Nat
  BY <1>2, <1>4, TotalType
<1>6. Units(f) = UnitsOf(out, kind, ids)
  <2>1. ASSUME NEW p \in Units(f) PROVE p \in UnitsOf(out, kind, ids)
    <3>1. PICK x \in D : p \in {x} \X (1 .. f[x])
      BY DEF Units
    <3>2. p = <<x, p[2]>> /\ p[2] \in 1 .. out[x].n /\ x \in Nat /\ out[x].n \in Nat
      BY <1>1, <1>3, <3>1
    <3> QED
      BY <3>2 DEF UnitsOf
  <2>2. ASSUME NEW p \in UnitsOf(out, kind, ids) PROVE p \in Units(f)
    <3>1. p = <<p[1], p[2]>> /\ p[1] \in D /\ p[2] \in 1 .. f[p[1]]
      BY DEF UnitsOf
    <3>2. p \in {p[1]} \X (1 .. f[p[1]])
      BY <3>1
    <3> QED
      BY <3>1, <3>2 DEF Units
  <2> QED
    BY <2>1, <2>2
<1>7. Carried(out, kind, ids) = Total(f)
  BY DEF Carried
<1> QED
  BY <1>1, <1>3, <1>5, <1>6, <1>7

(* Of frames of another kind, or for other streams, there is nothing.      *)
LEMMA CarriedNone ==
    ASSUME NEW out \in Seq(FrameType), NEW kind \in {"data", "window"}, NEW ids,
           \A i \in DOMAIN out : out[i].t = kind => out[i].id \notin ids
    PROVE  Carried(out, kind, ids) = 0
<1>1. Of(out, kind, ids) = {}
  BY DEF Of
<1>2. UnitsOf(out, kind, ids) = {}
  BY <1>1 DEF UnitsOf
<1> QED
  BY <1>2, CarriedIs, FS_EmptySet

LEMMA CarriedConcat ==
    ASSUME NEW a \in Seq(FrameType), NEW b \in Seq(FrameType),
           NEW kind \in {"data", "window"}, NEW ids
    PROVE  Carried(a \o b, kind, ids) = Carried(a, kind, ids) + Carried(b, kind, ids)
<1> DEFINE c == a \o b
           n == Len(a)
           A == UnitsOf(a, kind, ids)
           B == UnitsOf(b, kind, ids)
           C == UnitsOf(c, kind, ids)
           M == {p \in C : p[1] > n}
           g == [p \in B |-> <<p[1] + n, p[2]>>]
<1>1. /\ c \in Seq(FrameType) /\ n \in Nat /\ Len(b) \in Nat /\ Len(c) = n + Len(b)
      /\ \A i \in 1 .. n : c[i] = a[i]
      /\ \A i \in 1 .. Len(b) : c[i + n] = b[i]
  <2>1. c \in Seq(FrameType) /\ Len(c) = n + Len(b)
        /\ \A i \in 1 .. n + Len(b) : c[i] = IF i <= n THEN a[i] ELSE b[i - n]
    BY ConcatProperties, Zenon
  <2>2. n \in Nat /\ Len(b) \in Nat
    OBVIOUS
  <2> HIDE DEF c
  <2>3. \A i \in 1 .. Len(b) : i + n \in 1 .. n + Len(b) /\ ~(i + n <= n) /\ (i + n) - n = i
    BY <2>2
  <2>4. \A i \in 1 .. n : i \in 1 .. n + Len(b) /\ i <= n
    BY <2>2
  <2>5. \A i \in 1 .. n : c[i] = a[i]
    BY <2>1, <2>4
  <2>6. \A i \in 1 .. Len(b) : c[i + n] = b[i]
    BY <2>1, <2>3
  <2> QED
    BY <2>1, <2>2, <2>5, <2>6
<1> HIDE DEF c
<1>2. /\ IsFiniteSet(A) /\ IsFiniteSet(B) /\ IsFiniteSet(C)
      /\ Carried(a, kind, ids) = Cardinality(A)
      /\ Carried(b, kind, ids) = Cardinality(B)
      /\ Carried(c, kind, ids) = Cardinality(C)
  BY <1>1, CarriedIs
<1>3. \A i \in Nat : i \in Of(a, kind, ids) <=> i <= n /\ i \in Of(c, kind, ids)
  <2>1. ASSUME NEW i \in Nat PROVE i \in DOMAIN a <=> i <= n /\ i \in DOMAIN c
    BY <1>1
  <2> QED
    BY <1>1, <2>1 DEF Of
<1>4. \A i \in Nat : i \in Of(b, kind, ids) <=> i + n \in Of(c, kind, ids) /\ i + n > n
  <2>1. ASSUME NEW i \in Nat PROVE i \in DOMAIN b <=> i + n \in DOMAIN c /\ i + n > n
    BY <1>1
  <2>2. \A i \in DOMAIN b : c[i + n] = b[i]
    BY <1>1
  <2>3. \A i \in DOMAIN b : i \in Nat
    BY <1>1
  <2> QED
    BY <2>1, <2>2, <2>3 DEF Of
<1>5. \A i \in Of(a, kind, ids) : c[i] = a[i]
  BY <1>1 DEF Of
<1>6. \A i \in Of(b, kind, ids) : c[i + n] = b[i]
  BY <1>1 DEF Of
<1>7. A = {p \in C : ~(p[1] > n)}
  <2>1. \A p \in Nat \X Nat : p \in A <=> p \in C /\ ~(p[1] > n)
    BY <1>1, <1>3, <1>5 DEF UnitsOf
  <2> QED
    BY <2>1 DEF UnitsOf
<1>8. g \in Bijection(B, M)
  <2>1. ASSUME NEW p \in B PROVE g[p] \in M /\ g[p][1] = p[1] + n /\ g[p][2] = p[2]
    <3>1. p[1] \in Nat /\ p[2] \in Nat /\ p[1] \in Of(b, kind, ids) /\ p[2] \in 1 .. b[p[1]].n
      BY DEF UnitsOf
    <3>2. p[1] + n \in Of(c, kind, ids) /\ p[1] + n > n /\ c[p[1] + n] = b[p[1]] /\ p[1] + n \in Nat
      BY <1>1, <1>4, <1>6, <3>1
    <3>3. g[p] = <<p[1] + n, p[2]>>
      OBVIOUS
    <3> HIDE DEF g
    <3>4. g[p] \in C
      BY <3>1, <3>2, <3>3 DEF UnitsOf
    <3> QED
      BY <3>2, <3>3, <3>4
  <2>2. ASSUME NEW p \in B, NEW q \in B, g[p] = g[q] PROVE p = q
    <3>1. p[1] + n = q[1] + n /\ p[2] = q[2]
      BY <2>1, <2>2
    <3>2. p = <<p[1], p[2]>> /\ q = <<q[1], q[2]>> /\ p[1] \in Nat /\ q[1] \in Nat
      BY DEF UnitsOf
    <3>3. p[1] = q[1]
      BY <1>1, <3>1, <3>2
    <3> QED
      BY <3>1, <3>2, <3>3
  <2>3. ASSUME NEW q \in M PROVE \E p \in B : g[p] = q
    <3>1. /\ q = <<q[1], q[2]>> /\ q[1] \in Nat /\ q[2] \in Nat /\ q[1] > n
          /\ q[1] \in Of(c, kind, ids) /\ q[2] \in 1 .. c[q[1]].n
      BY DEF UnitsOf
    <3>2. PICK i \in Nat : i + n = q[1]
      <4>1. PICK r \in Nat : r = q[1] /\ r > n
        BY <3>1
      <4>2. r - n \in Nat /\ (r - n) + n = r
        BY <1>1, <4>1
      <4> QED
        BY <4>1, <4>2
    <3>3. i \in Of(b, kind, ids) /\ c[q[1]] = b[i]
      BY <1>4, <1>6, <3>1, <3>2
    <3>4. <<i, q[2]>> \in B
      BY <3>1, <3>2, <3>3 DEF UnitsOf
    <3>5. g[<<i, q[2]>>] = q
      BY <3>1, <3>2, <3>4
    <3> QED
      BY <3>4, <3>5
  <2>4. g \in [B -> M]
    BY <2>1
  <2> HIDE DEF g, M, B
  <2>5. g \in Injection(B, M)
    BY <2>2, <2>4 DEF Injection, IsInjective
  <2>6. g \in Surjection(B, M)
    BY <2>3, <2>4 DEF Surjection
  <2> QED
    BY <2>5, <2>6 DEF Bijection
<1>9. IsFiniteSet(M) /\ Cardinality(M) = Cardinality(B)
  <2>1. ExistsBijection(B, M)
    BY <1>8 DEF ExistsBijection
  <2> QED
    BY <1>2, <2>1, FS_Bijection
<1>10. C = A \cup M /\ A \cap M = {}
  BY <1>7
<1> HIDE DEF A, B, C, M
<1>11. Cardinality(A \cup M) = Cardinality(A) + Cardinality(M) - Cardinality(A \cap M)
  BY <1>2, <1>9, FS_Union
<1>12. Cardinality(A) \in Nat /\ Cardinality(M) \in Nat /\ Cardinality(A \cap M) = 0
  BY <1>2, <1>9, <1>10, FS_CardinalityType, FS_EmptySet
<1> QED
  BY <1>2, <1>9, <1>10, <1>11, <1>12 DEF c

(* What one frame carries.                                                 *)
Carries(f, kind, ids) == IF f.t = kind /\ f.id \in ids THEN f.n ELSE 0

LEMMA CarriedOne ==
    ASSUME NEW f \in FrameType, NEW kind \in {"data", "window"}, NEW ids
    PROVE  /\ <<f>> \in Seq(FrameType)
           /\ Carried(<<f>>, kind, ids) = Carries(f, kind, ids)
           /\ Carries(f, kind, ids) \in Nat
<1>1. <<f>> \in Seq(FrameType) /\ DOMAIN <<f>> = {1} /\ <<f>>[1] = f
  OBVIOUS
<1>2. CASE f.t = kind /\ f.id \in ids
  <2>1. f.n \in Nat
    BY <1>2 DEF FrameType
  <2>2. Of(<<f>>, kind, ids) = {1}
    BY <1>1, <1>2 DEF Of
  <2>3. UnitsOf(<<f>>, kind, ids) = {1} \X (1 .. f.n)
    <3>1. \A p \in Nat \X Nat : p \in UnitsOf(<<f>>, kind, ids) <=> p[1] = 1 /\ p[2] \in 1 .. f.n
      BY <1>1, <2>2 DEF UnitsOf
    <3>2. \A p \in {1} \X (1 .. f.n) : p \in Nat \X Nat /\ p[1] = 1 /\ p[2] \in 1 .. f.n
      BY <2>1
    <3>3. \A p \in Nat \X Nat : p[1] = 1 /\ p[2] \in 1 .. f.n => p \in {1} \X (1 .. f.n)
      OBVIOUS
    <3>4. UnitsOf(<<f>>, kind, ids) \subseteq Nat \X Nat
      BY DEF UnitsOf
    <3> QED
      BY <3>1, <3>2, <3>3, <3>4
  <2>4. IsFiniteSet({1}) /\ Cardinality({1}) = 1
    BY FS_Singleton
  <2>5. IsFiniteSet(1 .. f.n) /\ Cardinality(1 .. f.n) = f.n
    <3>1. 1 \in Int /\ f.n \in Int
      BY <2>1
    <3>2. IsFiniteSet(1 .. f.n) /\ Cardinality(1 .. f.n) = IF 1 > f.n THEN 0 ELSE f.n - 1 + 1
      BY <3>1, FS_Interval
    <3> QED
      BY <2>1, <3>2
  <2>6. Cardinality({1} \X (1 .. f.n)) = f.n
    <3>1. Cardinality({1} \X (1 .. f.n)) = Cardinality({1}) * Cardinality(1 .. f.n)
      BY <2>4, <2>5, FS_Product
    <3> QED
      BY <2>1, <2>4, <2>5, <3>1
  <2>7. Carried(<<f>>, kind, ids) = Cardinality(UnitsOf(<<f>>, kind, ids))
    BY <1>1, CarriedIs
  <2>8. Carries(f, kind, ids) = f.n
    BY <1>2 DEF Carries
  <2> QED
    BY <1>1, <2>1, <2>3, <2>6, <2>7, <2>8
<1>3. CASE ~(f.t = kind /\ f.id \in ids)
  <2>1. Carried(<<f>>, kind, ids) = 0
    BY <1>1, <1>3, CarriedNone
  <2> QED
    BY <1>1, <1>3, <2>1 DEF Carries
<1> QED
  BY <1>2, <1>3

LEMMA CarriedAppend ==
    ASSUME NEW out \in Seq(FrameType), NEW f \in FrameType, NEW kind \in {"data", "window"}, NEW ids
    PROVE  /\ Append(out, f) \in Seq(FrameType)
           /\ Carried(Append(out, f), kind, ids) = Carried(out, kind, ids) + Carries(f, kind, ids)
<1>1. Append(out, f) = out \o <<f>>
  OBVIOUS
<1>2. /\ <<f>> \in Seq(FrameType)
      /\ Carried(<<f>>, kind, ids) = Carries(f, kind, ids)
  BY CarriedOne
<1>3. Carried(out \o <<f>>, kind, ids) = Carried(out, kind, ids) + Carried(<<f>>, kind, ids)
  BY <1>2, CarriedConcat
<1> QED
  BY <1>1, <1>2, <1>3

LEMMA CarriedTail ==
    ASSUME NEW out \in Seq(FrameType), out # << >>, NEW kind \in {"data", "window"}, NEW ids
    PROVE  /\ Head(out) \in FrameType /\ Tail(out) \in Seq(FrameType)
           /\ Carried(Tail(out), kind, ids) = Carried(out, kind, ids) - Carries(Head(out), kind, ids)
<1>1. Head(out) \in FrameType /\ Tail(out) \in Seq(FrameType) /\ out = <<Head(out)>> \o Tail(out)
  BY HeadTailProperties
<1>2. PICK f \in FrameType : f = Head(out)
  BY <1>1
<1>3. PICK r \in Seq(FrameType) : r = Tail(out)
  BY <1>1
<1>4. /\ <<f>> \in Seq(FrameType)
      /\ Carried(<<f>>, kind, ids) = Carries(f, kind, ids) /\ Carries(f, kind, ids) \in Nat
  BY CarriedOne
<1>5. Carried(<<f>> \o r, kind, ids) = Carried(<<f>>, kind, ids) + Carried(r, kind, ids)
  <2>1. PICK h \in Seq(FrameType) : h = <<f>>
    BY <1>4
  <2>2. Carried(h \o r, kind, ids) = Carried(h, kind, ids) + Carried(r, kind, ids)
    BY CarriedConcat
  <2> QED
    BY <2>1, <2>2
<1>6. Carried(r, kind, ids) \in Nat
  BY CarriedIs
<1>7. out = <<f>> \o r
  BY <1>1, <1>2, <1>3
<1>8. Carried(out, kind, ids) = Carries(f, kind, ids) + Carried(r, kind, ids)
  BY <1>4, <1>5, <1>7
<1>9. Carried(r, kind, ids) = Carried(out, kind, ids) - Carries(f, kind, ids)
  BY <1>4, <1>6, <1>8
<1> QED
  BY <1>1, <1>2, <1>3, <1>9

(* The DATA frames of one call carry what it takes.                        *)
LEMMA CarriedData ==
    ASSUME H2Assumption, NEW id \in Ids, NEW take \in Nat, NEW fin \in BOOLEAN, NEW ids
    PROVE  LET d == DataFrames(id, take, fin) IN
           /\ d \in Seq(FrameType)
           /\ \A i \in DOMAIN d : d[i].t = "data" /\ d[i].id = id
           /\ id \in ids => Carried(d, "data", ids) = take
           /\ id \notin ids => Carried(d, "data", ids) = 0
           /\ Carried(d, "window", ids) = 0
<1> DEFINE d == DataFrames(id, take, fin)
           q == (take + Frame - 1) \div Frame
           count == Larger(1, q)
           rest == take - (count - 1) * Frame
<1>1. Frame \in Nat \ {0} /\ take + Frame - 1 \in Nat
  BY DEF H2Assumption
<1>2. q \in Nat /\ q * Frame <= take + Frame - 1
  BY <1>1
<1>3. count \in Nat \ {0} /\ (count = q \/ count = 1)
  BY <1>2 DEF Larger
<1>4. (count - 1) * Frame <= take
  <2>1. CASE count = 1
    BY <1>1, <2>1
  <2>2. CASE count = q
    <3>1. PICK c \in Nat : c = q
      BY <1>2
    <3>2. (c - 1) * Frame = c * Frame - Frame /\ c * Frame \in Nat
      BY <1>1
    <3> QED
      BY <1>1, <1>2, <2>2, <3>1, <3>2
  <2> QED
    BY <1>3, <2>1, <2>2
<1>5. rest \in Nat
  <2>1. (count - 1) * Frame \in Int
    BY <1>1, <1>3
  <2> QED
    BY <1>4, <2>1
<1> DEFINE n(i) == IF i < count THEN Frame ELSE rest
<1>6. d = [i \in 1 .. count |-> Data(id, n(i), fin /\ i = count)]
  BY DEF DataFrames
<1> HIDE DEF q, count, rest, d
<1>7. \A i \in 1 .. count : /\ Data(id, n(i), fin /\ i = count) \in FrameType
                            /\ Data(id, n(i), fin /\ i = count).t = "data"
                            /\ Data(id, n(i), fin /\ i = count).id = id
                            /\ Data(id, n(i), fin /\ i = count).n = n(i)
  <2>1. \A i \in 1 .. count : n(i) \in Nat
    BY <1>1, <1>5
  <2>2. \A i \in 1 .. count : (fin /\ i = count) \in BOOLEAN
    OBVIOUS
  <2> QED
    BY <2>1, <2>2 DEF Data, FrameType
<1>8. d \in Seq(FrameType) /\ DOMAIN d = 1 .. count
  <2>1. d \in [1 .. count -> FrameType] /\ count \in Nat
    BY <1>3, <1>6, <1>7
  <2> QED
    BY <2>1
<1>9. \A i \in 1 .. count : d[i].t = "data" /\ d[i].id = id /\ d[i].n = n(i)
  BY <1>6, <1>7
<1>10. Carried(d, "window", ids) = 0
  BY <1>8, <1>9, CarriedNone
<1>11. Carried(d, "data", ids) = IF id \in ids THEN take ELSE 0
  <2>1. CASE id \notin ids
    <3>1. Carried(d, "data", ids) = 0
      BY <1>8, <1>9, <2>1, CarriedNone
    <3> QED
      BY <2>1, <3>1
  <2>2. CASE id \in ids
    <3>1. Of(d, "data", ids) = 1 .. count
      BY <1>8, <1>9, <2>2 DEF Of
    <3> DEFINE A == (1 .. count - 1) \X (1 .. Frame)
               B == {count} \X (1 .. rest)
    <3>2. UnitsOf(d, "data", ids) = A \cup B
      <4>1. \A p \in Nat \X Nat : p \in UnitsOf(d, "data", ids) <=>
                p[1] \in 1 .. count /\ p[2] \in 1 .. n(p[1])
        BY <1>9, <3>1 DEF UnitsOf
      <4>2. \A p \in Nat \X Nat : p[1] \in 1 .. count /\ p[2] \in 1 .. n(p[1]) <=> p \in A \cup B
        <5>1. ASSUME NEW x \in Nat, NEW y \in Nat
              PROVE  x \in 1 .. count /\ y \in 1 .. n(x) <=> <<x, y>> \in A \cup B
          BY <1>1, <1>3, <1>5
        <5>2. \A p \in Nat \X Nat : p = <<p[1], p[2]>> /\ p[1] \in Nat /\ p[2] \in Nat
          OBVIOUS
        <5> HIDE DEF A, B
        <5> QED
          BY <5>1, <5>2
      <4>3. A \cup B \subseteq Nat \X Nat
        BY <1>1, <1>3, <1>5
      <4>4. UnitsOf(d, "data", ids) \subseteq Nat \X Nat
        BY DEF UnitsOf
      <4> HIDE DEF A, B
      <4> QED
        BY <4>1, <4>2, <4>3, <4>4
    <3>3. IsFiniteSet(A) /\ Cardinality(A) = (count - 1) * Frame
      <4>1. 1 \in Int /\ count - 1 \in Int /\ Frame \in Int
        BY <1>1, <1>3
      <4>2. IsFiniteSet(1 .. count - 1) /\ Cardinality(1 .. count - 1) = count - 1
        <5>1. PICK m \in Nat : m = count - 1 /\ m \in Int /\ 1 \in Int
          BY <1>3
        <5>2. IsFiniteSet(1 .. m) /\ Cardinality(1 .. m) = IF 1 > m THEN 0 ELSE m - 1 + 1
          BY <5>1, FS_Interval
        <5> QED
          BY <5>1, <5>2
      <4>3. IsFiniteSet(1 .. Frame) /\ Cardinality(1 .. Frame) = Frame
        <5>1. IsFiniteSet(1 .. Frame) /\ Cardinality(1 .. Frame) = IF 1 > Frame THEN 0 ELSE Frame - 1 + 1
          BY <4>1, FS_Interval
        <5> QED
          BY <1>1, <5>1
      <4> QED
        BY <4>2, <4>3, FS_Product
    <3>4. IsFiniteSet(B) /\ Cardinality(B) = rest
      <4>1. IsFiniteSet({count}) /\ Cardinality({count}) = 1
        BY FS_Singleton
      <4>2. IsFiniteSet(1 .. rest) /\ Cardinality(1 .. rest) = rest
        <5>0. rest \in Int /\ 1 \in Int
          BY <1>5
        <5>1. IsFiniteSet(1 .. rest) /\ Cardinality(1 .. rest) = IF 1 > rest THEN 0 ELSE rest - 1 + 1
          BY <5>0, FS_Interval
        <5> QED
          BY <1>5, <5>1
      <4>3. IsFiniteSet(B) /\ Cardinality(B) = Cardinality({count}) * Cardinality(1 .. rest)
        BY <4>1, <4>2, FS_Product
      <4> QED
        BY <1>5, <4>1, <4>2, <4>3
    <3>5. A \cap B = {}
      BY <1>3
    <3> HIDE DEF A, B
    <3>6. Cardinality(A \cup B) = Cardinality(A) + Cardinality(B) - Cardinality(A \cap B)
      BY <3>3, <3>4, FS_Union
    <3>7. Cardinality(A \cap B) = 0
      BY <3>5, FS_EmptySet
    <3>8. (count - 1) * Frame \in Int /\ rest = take - (count - 1) * Frame
      BY <1>1, <1>3 DEF rest
    <3>9. Carried(d, "data", ids) = Cardinality(A \cup B)
      BY <1>8, <3>2, CarriedIs
    <3>10. Cardinality(A) + Cardinality(B) - Cardinality(A \cap B) = take
      <4>1. PICK k \in Int : k = (count - 1) * Frame
        BY <3>8
      <4> QED
        BY <1>5, <3>3, <3>4, <3>7, <3>8, <4>1
    <3> QED
      BY <2>2, <3>6, <3>9, <3>10
  <2> QED
    BY <2>1, <2>2
<1>12. \A i \in DOMAIN d : d[i].t = "data" /\ d[i].id = id
  BY <1>8, <1>9
<1> QED
  BY <1>8, <1>10, <1>11, <1>12 DEF d

---------------------------------------------------------------------------
(* An end's own steps.                                                     *)

GoodEnd(S) == IsEnd(S) /\ Known(S) \in Nat /\ OfKnown(S)

(* R is S after a step that neither makes nor loses a unit.                *)
Keeps(S, R) ==
    /\ GoodEnd(R)
    /\ R.server = S.server /\ R.nextId = S.nextId /\ R.lastPeerId = S.lastPeerId
    /\ Open(R) \subseteq Open(S)
    /\ \/ R.closed
       \/ /\ ~S.closed
          /\ ConnSends(R) = ConnSends(S) /\ ConnTakes(R) = ConnTakes(S)
          /\ \A id \in Open(R) : Sends(R, id) = Sends(S, id) /\ Takes(R, id) = Takes(S, id)

LEMMA KeepsItself ==
    ASSUME NEW S, GoodEnd(S)
    PROVE  Keeps(S, S)
<1>1. S.closed \in BOOLEAN
  BY DEF GoodEnd, IsEnd, EndType
<1> QED
  BY <1>1 DEF Keeps

LEMMA KeepsTrans ==
    ASSUME NEW S, NEW R, NEW T, Keeps(S, R), Keeps(R, T)
    PROVE  Keeps(S, T)
<1>1. CASE T.closed
  BY <1>1 DEF Keeps
<1>2. CASE ~T.closed
  <2>1. ~R.closed /\ ~S.closed
    BY <1>2 DEF Keeps
  <2> QED
    BY <1>2, <2>1 DEF Keeps
<1> QED
  BY <1>1, <1>2

(* Nothing that counts is touched.                                         *)
LEMMA SameCounts ==
    ASSUME NEW S, GoodEnd(S), NEW R, IsEnd(R),
           R.server = S.server, R.nextId = S.nextId, R.lastPeerId = S.lastPeerId,
           R.out = S.out, R.sendWin = S.sendWin, R.recvWin = S.recvWin,
           R.localWindow = S.localWindow, R.peerWindow = S.peerWindow,
           S.closed => R.closed, Open(R) \subseteq Open(S),
           \A id \in Open(R) : /\ R.streams[id].send = S.streams[id].send
                               /\ R.streams[id].recv = S.streams[id].recv
    PROVE  Keeps(S, R)
<1>1. Known(R) = Known(S)
  BY DEF Known
<1>2. OfKnown(R)
  BY <1>1 DEF GoodEnd, OfKnown
<1>3. ConnSends(R) = ConnSends(S) /\ ConnTakes(R) = ConnTakes(S)
  BY DEF ConnSends, ConnTakes
<1>4. \A id \in Open(R) : Sends(R, id) = Sends(S, id) /\ Takes(R, id) = Takes(S, id)
  BY DEF Sends, Takes
<1> QED
  BY <1>1, <1>2, <1>3, <1>4 DEF Keeps, GoodEnd

(* An end with the fields of another, one frame more in its output and     *)
(* perhaps windows moved.                                                  *)
LEMMA OneMore ==
    ASSUME NEW S, GoodEnd(S), NEW f \in FrameType, NEW R, IsEnd(R),
           R.server = S.server, R.nextId = S.nextId, R.lastPeerId = S.lastPeerId,
           R.out = Append(S.out, f), Open(R) \subseteq Open(S),
           f.t \in {"headers", "data", "window"} => f.id <= Known(S)
    PROVE  GoodEnd(R)
<1>1. Known(R) = Known(S)
  BY DEF Known
<1>2. S.out \in Seq(FrameType)
  BY DEF GoodEnd, IsEnd, EndType
<1>3. \A i \in DOMAIN R.out : R.out[i] = f \/ (i \in DOMAIN S.out /\ R.out[i] = S.out[i])
  BY <1>2
<1>4. OfKnown(R)
  BY <1>1, <1>3 DEF GoodEnd, OfKnown
<1> QED
  BY <1>1, <1>4 DEF GoodEnd

(* The fields that count, but for the output.                              *)
Alike(S, R) ==
    /\ R.server = S.server /\ R.nextId = S.nextId /\ R.lastPeerId = S.lastPeerId
    /\ R.streams = S.streams /\ R.sendWin = S.sendWin /\ R.recvWin = S.recvWin
    /\ R.localWindow = S.localWindow /\ R.peerWindow = S.peerWindow

LEMMA AlikeKeeps ==
    ASSUME NEW S, GoodEnd(S), NEW R, IsEnd(R), Alike(S, R), R.out = S.out, S.closed => R.closed
    PROVE  Keeps(S, R)
<1>1. Open(R) = Open(S)
  BY DEF Alike, Open
<1> QED
  BY <1>1, SameCounts DEF Alike

(* A frame whose stream is known may go out.                               *)
Due(S, f) == f \in FrameType /\ (f.t \in {"headers", "data", "window"} => f.id <= Known(S))

LEMMA PutIs ==
    ASSUME NEW S, IsEnd(S), NEW f \in FrameType
    PROVE  /\ IsEnd(Put(S, f)) /\ Alike(S, Put(S, f)) /\ Put(S, f).out = Append(S.out, f)
           /\ Put(S, f).closed = S.closed
<1>1. Size(f) \in Int
  BY DEF Size, Larger, FrameType
<1> HIDE DEF FrameType, StreamType
<1>2. S.out \in Seq(FrameType) /\ S.pending \in Int
  BY DEF IsEnd, EndType
<1>3. Append(S.out, f) \in Seq(FrameType) /\ S.pending + Size(f) \in Int
  BY <1>1, <1>2
<1> QED
  BY <1>3, ZenonT(60) DEF Put, IsEnd, EndType, Open, Alike

LEMMA PutGood ==
    ASSUME NEW S, GoodEnd(S), NEW f, Due(S, f)
    PROVE  GoodEnd(Put(S, f))
<1>1. f \in FrameType
  BY DEF Due
<1>2. IsEnd(Put(S, f)) /\ Alike(S, Put(S, f)) /\ Put(S, f).out = Append(S.out, f)
  BY <1>1, PutIs DEF GoodEnd
<1> QED
  BY <1>1, <1>2, OneMore DEF Alike, Due, Open

LEMMA FailIs ==
    ASSUME NEW S, GoodEnd(S), NEW code \in Codes
    PROVE  /\ GoodEnd(Fail(S, code)) /\ Alike(S, Fail(S, code)) /\ Fail(S, code).closed
           /\ Keeps(S, Fail(S, code))
<1> DEFINE f == Goaway(S.lastActed, code)
           P == Put(S, f)
           R == [P EXCEPT !.goawaySent = TRUE, !.closed = TRUE, !.blamed = @ \cup {code}]
<1>1. Due(S, f)
  BY DEF GoodEnd, IsEnd, EndType, Goaway, Due, FrameType
<1>2. GoodEnd(P) /\ Alike(S, P)
  BY <1>1, PutGood, PutIs DEF Due, GoodEnd
<1> HIDE DEF P, f
<1>3. P.blamed \cup {code} \subseteq Codes
  BY <1>2 DEF GoodEnd, IsEnd, EndType
<1>4. IsEnd(R) /\ Alike(P, R) /\ R.out = P.out /\ R.closed
  <2> HIDE DEF FrameType, StreamType
  <2> QED
    BY <1>2, <1>3, ZenonT(60) DEF GoodEnd, IsEnd, EndType, Open, Alike
<1> HIDE DEF R
<1>5. GoodEnd(R)
  BY <1>2, <1>4, AlikeKeeps DEF Keeps
<1>6. CASE ~S.closed
  <2>1. Fail(S, code) = R
    BY <1>6 DEF Fail, R, P, f
  <2>2. Open(R) = Open(S)
    BY <1>2, <1>4 DEF Alike, Open
  <2> QED
    BY <1>2, <1>4, <1>5, <2>1, <2>2 DEF Alike, Keeps
<1>7. CASE S.closed
  <2>1. Fail(S, code) = S
    BY <1>7 DEF Fail
  <2> QED
    BY <1>7, <2>1 DEF Alike, Keeps
<1> QED
  BY <1>6, <1>7

LEMMA CtlIs ==
    ASSUME NEW S, GoodEnd(S)
    PROVE  /\ GoodEnd(Ctl(S)) /\ Alike(S, Ctl(S)) /\ (S.closed => Ctl(S).closed)
           /\ Ctl(S).closed \/ Ctl(S).out = S.out
<1> DEFINE T == [S EXCEPT !.ctlQueued = @ + 1]
<1>1. S.ctlQueued + 1 \in Int
  <2> HIDE DEF FrameType, StreamType
  <2>1. S.ctlQueued \in Int
    BY DEF GoodEnd, IsEnd, EndType
  <2> QED
    BY <2>1
<1>2. IsEnd(T) /\ Alike(S, T) /\ T.out = S.out /\ T.closed = S.closed
  <2> HIDE DEF FrameType, StreamType
  <2> QED
    BY <1>1, ZenonT(60) DEF GoodEnd, IsEnd, EndType, Open, Alike
<1>3. Ctl(S) = IF T.ctlQueued > CfgOut THEN Fail(T, "calm") ELSE T
  BY DEF Ctl
<1> HIDE DEF T
<1>4. GoodEnd(T)
  BY <1>2, AlikeKeeps DEF Keeps
<1>5. GoodEnd(Fail(T, "calm")) /\ Alike(T, Fail(T, "calm")) /\ Fail(T, "calm").closed
  <2>1. "calm" \in Codes
    BY DEF Codes
  <2> QED
    BY <1>4, <2>1, FailIs
<1> QED
  BY <1>2, <1>3, <1>4, <1>5 DEF Alike

(* What Queue and Answer do to the fields that count.                      *)
Says(S, R, f) ==
    /\ GoodEnd(R) /\ Alike(S, R) /\ (S.closed => R.closed)
    /\ R.closed \/ R.out = Append(S.out, f)

LEMMA QueueIs ==
    ASSUME NEW S, GoodEnd(S), NEW f, Due(S, f)
    PROVE  Says(S, Queue(S, f), f)
<1>1. IsEnd(Put(S, f)) /\ Alike(S, Put(S, f)) /\ Put(S, f).out = Append(S.out, f)
      /\ Put(S, f).closed = S.closed
  BY PutIs DEF Due, GoodEnd
<1>2. GoodEnd(Put(S, f))
  BY PutGood
<1>3. CASE S.closed
  BY <1>3 DEF Queue, Says, Alike
<1>4. CASE ~S.closed
  BY <1>1, <1>2, <1>4 DEF Queue, Says
<1> QED
  BY <1>3, <1>4

LEMMA AnswerIs ==
    ASSUME NEW S, GoodEnd(S), NEW f, Due(S, f)
    PROVE  Says(S, Answer(S, f), f)
<1>1. IsEnd(Put(S, f)) /\ Alike(S, Put(S, f)) /\ Put(S, f).out = Append(S.out, f)
      /\ Put(S, f).closed = S.closed
  BY PutIs DEF Due, GoodEnd
<1>2. GoodEnd(Put(S, f))
  BY PutGood
<1>3. CASE S.closed
  BY <1>3 DEF Answer, Says, Alike
<1>4. CASE ~S.closed
  <2>1. PICK P : P = Put(S, f)
    OBVIOUS
  <2>2. GoodEnd(Ctl(P)) /\ Alike(P, Ctl(P)) /\ (Ctl(P).closed \/ Ctl(P).out = P.out)
    BY <1>2, <2>1, CtlIs
  <2>3. Answer(S, f) = Ctl(P)
    BY <1>4, <2>1 DEF Answer
  <2> QED
    BY <1>1, <1>4, <2>1, <2>2, <2>3 DEF Says, Alike
<1> QED
  BY <1>3, <1>4

(* A frame that carries nothing.                                           *)
LEMMA SaysNothing ==
    ASSUME NEW S, GoodEnd(S), NEW R, NEW f, Due(S, f), f.t \notin {"data", "window"}, Says(S, R, f)
    PROVE  Keeps(S, R)
<1>1. Open(R) = Open(S) /\ GoodEnd(R) /\ Alike(S, R)
  BY DEF Says, Alike, Open
<1>2. CASE R.closed
  BY <1>1, <1>2 DEF Keeps, Alike
<1>3. CASE ~R.closed
  <2>1. R.out = Append(S.out, f) /\ ~S.closed
    BY <1>3 DEF Says
  <2>2. \A kind \in {"data", "window"} : \A ids : Carries(f, kind, ids) = 0
    BY DEF Carries
  <2>3. \A kind \in {"data", "window"} : \A ids :
          Carried(R.out, kind, ids) = Carried(S.out, kind, ids) + Carries(f, kind, ids)
    <3>1. S.out \in Seq(FrameType) /\ f \in FrameType
      BY DEF GoodEnd, IsEnd, EndType, Due
    <3> QED
      BY <2>1, <3>1, CarriedAppend
  <2>4. \A kind \in {"data", "window"} : \A ids : Carried(S.out, kind, ids) \in Nat
    BY CarriedIs DEF GoodEnd, IsEnd, EndType
  <2>5. \A kind \in {"data", "window"} : \A ids : Carried(R.out, kind, ids) = Carried(S.out, kind, ids)
    BY <2>2, <2>3, <2>4
  <2>6. ConnSends(R) = ConnSends(S) /\ ConnTakes(R) = ConnTakes(S)
    BY <1>1, <2>5 DEF Alike, ConnSends, ConnTakes
  <2>7. \A id \in Open(R) : Sends(R, id) = Sends(S, id) /\ Takes(R, id) = Takes(S, id)
    BY <1>1, <2>5 DEF Alike, Sends, Takes
  <2> QED
    BY <1>1, <2>1, <2>6, <2>7 DEF Keeps, Alike
<1> QED
  BY <1>2, <1>3
(* Credit: what the windows grow by is in the frame.                       *)
Credited(S, U, f) ==
    /\ f.t = "window"
    /\ U.server = S.server /\ U.nextId = S.nextId /\ U.lastPeerId = S.lastPeerId
    /\ U.out = S.out /\ U.closed = S.closed /\ Open(U) = Open(S)
    /\ U.sendWin = S.sendWin /\ U.peerWindow = S.peerWindow /\ U.localWindow = S.localWindow
    /\ U.recvWin = S.recvWin + Carries(f, "window", {0})
    /\ \A id \in Open(S) :
         /\ U.streams[id].send = S.streams[id].send
         /\ U.streams[id].recv = S.streams[id].recv + Carries(f, "window", {id})

LEMMA SaysCredit ==
    ASSUME NEW S, GoodEnd(S), NEW U, GoodEnd(U), NEW f, Due(U, f), Credited(S, U, f),
           NEW R, Says(U, R, f)
    PROVE  Keeps(S, R)
<1> USE DEF Credited
<1>1. Open(R) = Open(U) /\ GoodEnd(R) /\ Alike(U, R)
  BY DEF Says, Alike, Open
<1>2. CASE R.closed
  BY <1>1, <1>2 DEF Keeps, Alike
<1>3. CASE ~R.closed
  <2>1. R.out = Append(S.out, f) /\ ~S.closed
    BY <1>3 DEF Says
  <2>2. \A ids : Carries(f, "data", ids) = 0
    BY DEF Carries
  <2>3. \A kind \in {"data", "window"} : \A ids :
          Carried(R.out, kind, ids) = Carried(S.out, kind, ids) + Carries(f, kind, ids)
    <3>1. Known(U) = Known(S)
      BY DEF Known
    <3>2. /\ R.server = S.server /\ R.nextId = S.nextId /\ R.lastPeerId = S.lastPeerId
          /\ Open(R) \subseteq Open(S) /\ IsEnd(R)
      BY <1>1 DEF Alike, GoodEnd
    <3>3. f \in FrameType /\ (f.t \in {"headers", "data", "window"} => f.id <= Known(S))
      BY <3>1 DEF Due
    <3>4. S.out \in Seq(FrameType)
      BY DEF GoodEnd, IsEnd, EndType
    <3> QED
      BY <2>1, <3>3, <3>4, CarriedAppend
  <2>4. /\ \A kind \in {"data", "window"} : \A ids : Carried(S.out, kind, ids) \in Nat
        /\ \A kind \in {"data", "window"} : \A ids : Carries(f, kind, ids) \in Nat
    BY CarriedIs, CarriedOne DEF GoodEnd, IsEnd, EndType, Due
  <2>5. /\ S.recvWin \in Int /\ S.localWindow \in Int
        /\ \A id \in Open(S) : S.streams[id].recv \in Int
    <3> HIDE DEF FrameType
    <3> QED
      BY DEF GoodEnd, IsEnd, EndType, StreamType, Open
  <2>6. ConnSends(R) = ConnSends(S)
    BY <1>1, <2>2, <2>3, <2>4 DEF Alike, ConnSends
  <2>7. ConnTakes(R) = ConnTakes(S)
    <3>1. R.recvWin = S.recvWin + Carries(f, "window", {0})
      BY <1>1 DEF Alike
    <3> QED
      BY <2>3, <2>4, <2>5, <3>1 DEF ConnTakes
  <2>8. ASSUME NEW id \in Open(R) PROVE Sends(R, id) = Sends(S, id)
    <3>1. Carried(R.out, "data", {id}) = Carried(S.out, "data", {id})
      BY <2>2, <2>3, <2>4
    <3>2. R.streams[id].send = S.streams[id].send /\ R.peerWindow = S.peerWindow
      BY <1>1 DEF Alike
    <3> QED
      BY <3>1, <3>2 DEF Sends
  <2>9. ASSUME NEW id \in Open(R) PROVE Takes(R, id) = Takes(S, id)
    <3>1. /\ R.streams[id].recv = S.streams[id].recv + Carries(f, "window", {id})
          /\ R.localWindow = S.localWindow /\ id \in Open(S)
      BY <1>1 DEF Alike
    <3>2. Carried(R.out, "window", {id}) = Carried(S.out, "window", {id}) + Carries(f, "window", {id})
      BY <2>3
    <3>3. /\ Carried(S.out, "window", {id}) \in Int /\ Carries(f, "window", {id}) \in Int
          /\ S.streams[id].recv \in Int /\ S.localWindow \in Int
      BY <2>4, <2>5, <3>1
    <3> QED
      BY <3>1, <3>2, <3>3 DEF Takes
  <2> QED
    BY <1>1, <2>1, <2>6, <2>7, <2>8, <2>9 DEF Keeps, Alike
<1> QED
  BY <1>2, <1>3

LEMMA ConnMore ==
    ASSUME NEW S, GoodEnd(S), NEW n \in Nat
    PROVE  LET R == Answer([S EXCEPT !.recvWin = @ + n], Window(0, n)) IN
           Keeps(S, R) /\ R.streams = S.streams
<1> DEFINE U == [S EXCEPT !.recvWin = @ + n]
           f == Window(0, n)
<1>0. S.recvWin \in Int
  <2> HIDE DEF FrameType, StreamType
  <2> QED
    BY DEF GoodEnd, IsEnd, EndType
<1>1. /\ IsEnd(U) /\ U.recvWin = S.recvWin + n /\ U.streams = S.streams /\ U.closed = S.closed
      /\ U.server = S.server /\ U.nextId = S.nextId /\ U.lastPeerId = S.lastPeerId
      /\ U.out = S.out /\ U.sendWin = S.sendWin /\ U.peerWindow = S.peerWindow
      /\ U.localWindow = S.localWindow
  <2> HIDE DEF FrameType, StreamType
  <2>1. S.recvWin + n \in Int
    BY <1>0
  <2> QED
    BY <2>1, ZenonT(60) DEF GoodEnd, IsEnd, EndType, Open
<1>2. /\ f \in FrameType /\ f.t = "window" /\ f.id = 0 /\ f.n = n
      /\ Carries(f, "window", {0}) = n
      /\ \A id \in Ids : Carries(f, "window", {id}) = 0
  BY DEF Window, FrameType, Carries, Ids
<1> HIDE DEF U, f
<1>3. Known(U) = Known(S) /\ Open(U) = Open(S)
  BY <1>1 DEF Known, Open
<1>4. GoodEnd(U)
  BY <1>1, <1>3 DEF GoodEnd, OfKnown
<1>5. Due(U, f)
  BY <1>2, <1>4 DEF Due, GoodEnd
<1>6. PICK R : R = Answer(U, f)
  OBVIOUS
<1>7. Says(U, R, f)
  BY <1>4, <1>5, <1>6, AnswerIs
<1>8. \A id \in Open(S) :
        /\ U.streams[id].send = S.streams[id].send
        /\ U.streams[id].recv = S.streams[id].recv + Carries(f, "window", {id})
  <2>1. ASSUME NEW id \in Open(S) PROVE id \in Ids /\ S.streams[id].recv \in Int
    <3> HIDE DEF FrameType
    <3> QED
      BY DEF GoodEnd, IsEnd, EndType, StreamType
  <2> QED
    BY <1>1, <1>2, <2>1
<1>9. Keeps(S, R)
  <2>1. Credited(S, U, f)
    BY <1>1, <1>2, <1>3, <1>8 DEF Credited
  <2> QED
    BY <1>4, <1>5, <1>7, <2>1, SaysCredit
<1>10. R.streams = S.streams
  BY <1>1, <1>7 DEF Says, Alike
<1> QED
  BY <1>6, <1>9, <1>10 DEF U, f
LEMMA EndFields ==
    ASSUME NEW S, IsEnd(S)
    PROVE  /\ {S.unacked, S.target, S.cap, S.nextId, S.lastPeerId, S.lastActed} \subseteq Nat
           /\ {S.pending, S.ctlQueued, S.sendWin, S.recvWin, S.debt, S.goawayLast,
               S.localWindow, S.advWindow, S.wantWindow, S.peerWindow,
               S.advStreams, S.ackedStreams, S.wantStreams, S.peerStreams} \subseteq Int
           /\ S.out \in Seq(FrameType) /\ S.ring \in Seq([id : Ids, how : Endings])
           /\ {S.server, S.closed} \subseteq BOOLEAN
           /\ S.blamed \subseteq Codes
           /\ S.streams \in [Open(S) -> StreamType]
           /\ Open(S) \subseteq Ids
           /\ \A id \in Open(S) :
                /\ S.streams[id] \in StreamType
                /\ {S.streams[id].unacked, S.streams[id].held, S.streams[id].win} \subseteq Nat
                /\ {S.streams[id].send, S.streams[id].recv} \subseteq Int
                /\ S.streams[id].flags \subseteq StreamFlags
<1> HIDE DEF FrameType
<1>1. \A s \in StreamType : /\ {s.unacked, s.held, s.win} \subseteq Nat /\ {s.send, s.recv} \subseteq Int
                            /\ s.flags \subseteq StreamFlags
  BY DEF StreamType
<1> HIDE DEF StreamType
<1>2. S \in EndType(Open(S)) /\ Open(S) \subseteq Ids
  BY DEF IsEnd
<1>3. S.streams \in [Open(S) -> StreamType]
  BY <1>2 DEF EndType
<1>4. \A id \in Open(S) : S.streams[id] \in StreamType
  BY <1>3
<1>5. /\ S.out \in Seq(FrameType) /\ S.ring \in Seq([id : Ids, how : Endings])
      /\ S.server \in BOOLEAN /\ S.closed \in BOOLEAN /\ S.blamed \subseteq Codes
  BY <1>2 DEF EndType
<1>6. {S.unacked, S.target, S.cap, S.nextId, S.lastPeerId, S.lastActed} \subseteq Nat
  BY <1>2 DEF EndType
<1>7. {S.pending, S.ctlQueued, S.sendWin, S.recvWin, S.debt, S.goawayLast,
       S.localWindow, S.advWindow, S.wantWindow, S.peerWindow,
       S.advStreams, S.ackedStreams, S.wantStreams, S.peerStreams} \subseteq Int
  BY <1>2 DEF EndType
<1> QED
  BY <1>1, <1>2, <1>3, <1>4, <1>5, <1>6, <1>7

LEMMA HeldType ==
    ASSUME H2Assumption, NEW S, IsEnd(S)
    PROVE  Held(S) \in Nat
<1> DEFINE f == [id \in Open(S) |-> S.streams[id].held]
<1>1. f \in [Open(S) -> Nat] /\ Open(S) \subseteq Ids
  BY EndFields
<1>2. IsFiniteSet(Open(S))
  <2>1. 1 \in Int /\ MaxId \in Int
    BY DEF H2Assumption
  <2>2. IsFiniteSet(1 .. MaxId)
    BY <2>1, FS_Interval
  <2>3. Open(S) \subseteq 1 .. MaxId
    BY <1>1 DEF Ids
  <2> QED
    BY <2>2, <2>3, FS_Subset
<1>3. Total(f) \in Nat
  BY <1>1, <1>2, TotalType
<1> QED
  BY <1>3 DEF Held

LEMMA ConnCreditKeeps ==
    ASSUME H2Assumption, NEW S, GoodEnd(S), NEW n \in Nat
    PROVE  Keeps(S, ConnCredit(S, n)) /\ ConnCredit(S, n).streams = S.streams
<1> DEFINE owed == S.unacked + n
           room == S.cap - (S.recvWin + Held(S))
           inc == IF S.cap # 0 THEN Smaller(owed, room) ELSE owed
           A == [S EXCEPT !.unacked = owed]
           T == [S EXCEPT !.unacked = 0]
           R == Answer([T EXCEPT !.recvWin = @ + inc], Window(0, inc))
<1>1. owed \in Nat /\ inc \in Int
  <2>1. S.unacked \in Nat /\ S.cap \in Nat /\ S.recvWin \in Int /\ Held(S) \in Nat
    BY EndFields, HeldType DEF GoodEnd
  <2> QED
    BY <2>1 DEF Smaller
<1>2. \/ ConnCredit(S, n) = S
      \/ ConnCredit(S, n) = A
      \/ inc <= 0 /\ ConnCredit(S, n) = T
      \/ inc > 0 /\ ConnCredit(S, n) = R
  <2> DEFINE due == n # 0 /\ ~S.closed /\ 2 * owed < ConnTarget(S)
             nothing == n = 0 \/ S.closed
  <2>1. ~(nothing /\ due)
    OBVIOUS
  <2>2. ConnCredit(S, n) = CASE nothing -> S
                             [] due -> A
                             [] OTHER -> IF inc <= 0 THEN T ELSE R
    BY DEF ConnCredit
  <2>3. ~(inc <= 0) => inc > 0
    BY <1>1
  <2> HIDE DEF due, nothing, A, T, R, inc
  <2> QED
    BY <2>1, <2>2, <2>3
<1>3. IsEnd(A) /\ Alike(S, A) /\ A.out = S.out /\ A.closed = S.closed
  <2> HIDE DEF FrameType, StreamType, owed
  <2> QED
    BY <1>1, ZenonT(60) DEF GoodEnd, IsEnd, EndType, Open, Alike
<1>4. IsEnd(T) /\ Alike(S, T) /\ T.out = S.out /\ T.closed = S.closed
  <2> HIDE DEF FrameType, StreamType
  <2> QED
    BY ZenonT(60) DEF GoodEnd, IsEnd, EndType, Open, Alike
<1> HIDE DEF A, T, owed, inc
<1>5. Keeps(S, A) /\ A.streams = S.streams
  BY <1>3, AlikeKeeps DEF Alike
<1>6. Keeps(S, T) /\ T.streams = S.streams
  BY <1>4, AlikeKeeps DEF Alike
<1>7. CASE inc > 0 /\ ConnCredit(S, n) = R
  <2>1. inc \in Nat
    BY <1>1, <1>7
  <2>2. GoodEnd(T)
    BY <1>6 DEF Keeps
  <2>3. Keeps(T, R) /\ R.streams = T.streams
    BY <2>1, <2>2, ConnMore
  <2> QED
    BY <1>6, <1>7, <2>3, KeepsTrans
<1> QED
  BY <1>2, <1>5, <1>6, <1>7, KeepsItself

LEMMA ConnFollowKeeps ==
    ASSUME H2Assumption, NEW S, GoodEnd(S), NEW window \in Nat
    PROVE  Keeps(S, ConnFollow(S, window)) /\ ConnFollow(S, window).streams = S.streams
<1> DEFINE cap == IF S.cap # 0 THEN Smaller(S.cap, GrowConn) ELSE GrowConn
           want == Smaller(window + window \div 2, cap)
           add == want - S.target
           T == [S EXCEPT !.target = want]
           R == Answer([S EXCEPT !.target = want, !.recvWin = @ + add], Window(0, add))
<1>1. want \in Nat /\ add \in Int
  <2>1. S.cap \in Nat /\ S.target \in Nat /\ GrowConn \in Nat
    BY EndFields DEF GoodEnd, H2Assumption
  <2>2. window + window \div 2 \in Nat
    OBVIOUS
  <2> QED
    BY <2>1, <2>2 DEF Smaller
<1>2. ConnFollow(S, window) = IF add <= 0 THEN S ELSE R
  BY DEF ConnFollow
<1>3. IsEnd(T) /\ Alike(S, T) /\ T.out = S.out /\ T.closed = S.closed
  <2> HIDE DEF FrameType, StreamType, want
  <2> QED
    BY <1>1, ZenonT(60) DEF GoodEnd, IsEnd, EndType, Open, Alike
<1>4. R = Answer([T EXCEPT !.recvWin = @ + add], Window(0, add))
  <2> HIDE DEF want, add
  <2>1. [S EXCEPT !.target = want, !.recvWin = @ + add] = [T EXCEPT !.recvWin = @ + add]
    OBVIOUS
  <2> QED
    BY <2>1
<1> HIDE DEF T, R, add, want
<1>5. Keeps(S, T) /\ T.streams = S.streams
  BY <1>3, AlikeKeeps DEF Alike
<1>6. CASE add > 0
  <2>1. add \in Nat /\ ~(add <= 0)
    BY <1>1, <1>6
  <2>2. GoodEnd(T)
    BY <1>5 DEF Keeps
  <2>3. Keeps(T, R) /\ R.streams = T.streams
    BY <1>4, <2>1, <2>2, ConnMore
  <2> QED
    BY <1>2, <1>5, <2>1, <2>3, KeepsTrans
<1>7. CASE add <= 0
  BY <1>2, <1>7, KeepsItself
<1> QED
  BY <1>1, <1>6, <1>7
(* Other streams, and the rest as it was.                                  *)
LEMMA OtherStreams ==
    ASSUME NEW S, IsEnd(S), NEW D \in SUBSET Ids, NEW ss \in [D -> StreamType]
    PROVE  LET R == [S EXCEPT !.streams = ss] IN
           /\ IsEnd(R) /\ Open(R) = D /\ R.streams = ss
           /\ R.server = S.server /\ R.nextId = S.nextId /\ R.lastPeerId = S.lastPeerId
           /\ R.sendWin = S.sendWin /\ R.recvWin = S.recvWin
           /\ R.localWindow = S.localWindow /\ R.peerWindow = S.peerWindow
           /\ R.out = S.out /\ R.closed = S.closed
<1> DEFINE R == [S EXCEPT !.streams = ss]
<1> HIDE DEF FrameType, StreamType
<1>1. R.streams = ss /\ DOMAIN ss = D
  BY DEF IsEnd, EndType
<1>2. Open(R) = D
  BY <1>1 DEF Open
<1>3. R \in EndType(D)
  <2>1. S \in EndType(Open(S))
    BY DEF IsEnd
  <2> QED
    BY <2>1, ZenonT(60) DEF EndType
<1>4. /\ R.server = S.server /\ R.nextId = S.nextId /\ R.lastPeerId = S.lastPeerId
      /\ R.sendWin = S.sendWin /\ R.recvWin = S.recvWin
      /\ R.localWindow = S.localWindow /\ R.peerWindow = S.peerWindow
      /\ R.out = S.out /\ R.closed = S.closed
  BY DEF IsEnd, EndType
<1> HIDE DEF R
<1>5. IsEnd(R)
  BY <1>2, <1>3 DEF IsEnd
<1> QED
  BY <1>1, <1>2, <1>4, <1>5 DEF R

(* One stream that differs in what is not counted.                         *)
LEMMA StreamKeeps ==
    ASSUME NEW S, GoodEnd(S), NEW id \in Open(S), NEW s \in StreamType,
           s.send = S.streams[id].send, s.recv = S.streams[id].recv
    PROVE  LET R == [S EXCEPT !.streams[id] = s] IN
           /\ Keeps(S, R) /\ Open(R) = Open(S) /\ R.streams = [S.streams EXCEPT ![id] = s]
           /\ R.closed = S.closed
<1> DEFINE ss == [S.streams EXCEPT ![id] = s]
           R == [S EXCEPT !.streams = ss]
<1>0. IsEnd(S)
  BY DEF GoodEnd
<1>1. S.streams \in [Open(S) -> StreamType] /\ Open(S) \in SUBSET Ids
  BY <1>0, EndFields
<1> HIDE DEF StreamType
<1>2. ss \in [Open(S) -> StreamType]
  BY <1>1
<1>3. \A i \in Open(S) : ss[i].send = S.streams[i].send /\ ss[i].recv = S.streams[i].recv
  BY <1>1
<1>4. [S EXCEPT !.streams[id] = s] = R
  OBVIOUS
<1>5. ss = [S.streams EXCEPT ![id] = s]
  OBVIOUS
<1> HIDE DEF ss
<1>6. /\ IsEnd(R) /\ Open(R) = Open(S) /\ R.streams = ss
      /\ R.server = S.server /\ R.nextId = S.nextId /\ R.lastPeerId = S.lastPeerId
      /\ R.sendWin = S.sendWin /\ R.recvWin = S.recvWin
      /\ R.localWindow = S.localWindow /\ R.peerWindow = S.peerWindow
      /\ R.out = S.out /\ R.closed = S.closed
  BY <1>0, <1>1, <1>2, OtherStreams
<1> HIDE DEF R
<1>7. Keeps(S, R)
  BY <1>3, <1>6, SameCounts
<1> QED
  BY <1>4, <1>5, <1>6, <1>7

LEMMA StreamMore ==
    ASSUME NEW S, GoodEnd(S), NEW id \in Open(S), NEW n \in Nat
    PROVE  LET R == Answer([S EXCEPT !.streams[id].recv = @ + n], Window(id, n)) IN
           Keeps(S, R) /\ Open(R) = Open(S)
<1> DEFINE s == [S.streams[id] EXCEPT !.recv = @ + n]
           ss == [S.streams EXCEPT ![id] = s]
           U == [S EXCEPT !.streams = ss]
           f == Window(id, n)
<1>0. IsEnd(S)
  BY DEF GoodEnd
<1>1. /\ S.streams \in [Open(S) -> StreamType] /\ Open(S) \in SUBSET Ids
      /\ \A i \in Open(S) : i \in Ids /\ S.streams[i].recv \in Int /\ S.streams[i] \in StreamType
      /\ S.recvWin \in Int
  BY <1>0, EndFields
<1>2. s \in StreamType /\ s.recv = S.streams[id].recv + n /\ s.send = S.streams[id].send
  BY <1>1 DEF StreamType
<1>3. f \in FrameType /\ f.t = "window" /\ f.id = id /\ f.n = n
  BY <1>1 DEF Window, FrameType
<1>4. [S EXCEPT !.streams[id].recv = @ + n] = U
  OBVIOUS
<1> HIDE DEF StreamType, s
<1>5. ss \in [Open(S) -> StreamType]
  BY <1>1, <1>2
<1>6. \A i \in Open(S) : ss[i].send = S.streams[i].send
                         /\ ss[i].recv = IF i = id THEN S.streams[i].recv + n ELSE S.streams[i].recv
  BY <1>1, <1>2
<1> HIDE DEF ss, f
<1>7. /\ IsEnd(U) /\ Open(U) = Open(S) /\ U.streams = ss
      /\ U.server = S.server /\ U.nextId = S.nextId /\ U.lastPeerId = S.lastPeerId
      /\ U.sendWin = S.sendWin /\ U.recvWin = S.recvWin
      /\ U.localWindow = S.localWindow /\ U.peerWindow = S.peerWindow
      /\ U.out = S.out /\ U.closed = S.closed
  BY <1>0, <1>1, <1>5, OtherStreams
<1> HIDE DEF U
<1>8. Known(U) = Known(S)
  BY <1>7 DEF Known
<1>9. GoodEnd(U)
  BY <1>7, <1>8 DEF GoodEnd, OfKnown
<1>10. Due(U, f)
  BY <1>3, <1>7, <1>9 DEF Due, GoodEnd, OfKnown
<1>11. Credited(S, U, f)
  <2>1. Carries(f, "window", {0}) = 0
    BY <1>1, <1>3 DEF Carries, Ids
  <2>2. \A i \in Open(S) : Carries(f, "window", {i}) = IF i = id THEN n ELSE 0
    BY <1>3 DEF Carries
  <2>3. U.recvWin = S.recvWin + Carries(f, "window", {0})
    BY <1>1, <1>7, <2>1
  <2>4. \A i \in Open(S) : /\ U.streams[i].send = S.streams[i].send
                           /\ U.streams[i].recv = S.streams[i].recv + Carries(f, "window", {i})
    BY <1>1, <1>6, <1>7, <2>2
  <2> QED
    BY <1>3, <1>7, <2>3, <2>4 DEF Credited
<1>12. PICK R : R = Answer(U, f)
  OBVIOUS
<1>13. Says(U, R, f)
  BY <1>9, <1>10, <1>12, AnswerIs
<1>14. Keeps(S, R) /\ Open(R) = Open(S)
  BY <1>7, <1>9, <1>10, <1>11, <1>13, SaysCredit DEF Says, Alike, Open
<1> QED
  BY <1>4, <1>12, <1>14 DEF f
LEMMA StreamCreditKeeps ==
    ASSUME H2Assumption, NEW S, GoodEnd(S), NEW id \in Open(S), NEW n \in Nat, NEW fast \in BOOLEAN
    PROVE  Keeps(S, StreamCredit(S, id, n, fast)) /\ Open(StreamCredit(S, id, n, fast)) = Open(S)
<1> DEFINE owed == S.streams[id].unacked + n
           window == CreditWindow(S, id)
           growCap == IF S.cap # 0 THEN Smaller(S.cap, GrowStream) ELSE GrowStream
           grows == fast /\ S.server /\ GrowStream # 0 /\ S.settingsAcked /\ window < growCap
           next == Smaller(2 * window, growCap)
           win == IF S.cap # 0 THEN Smaller(S.streams[id].win, S.cap) ELSE S.streams[id].win
           w == IF grows THEN next ELSE win
           A == [S EXCEPT !.streams[id].unacked = owed]
           T == [S EXCEPT !.streams[id].unacked = 0, !.streams[id].win = w]
           F == IF grows THEN ConnFollow(T, next) ELSE T
           asked == IF grows THEN owed + (next - window) ELSE owed
           lowering == Larger(S.localWindow - S.advWindow, 0)
           room == S.cap - (S.streams[id].recv - lowering + S.streams[id].held)
           inc == IF S.cap # 0 THEN Smaller(asked, room) ELSE asked
           R == Answer([F EXCEPT !.streams[id].recv = @ + inc], Window(id, inc))
<1>0. IsEnd(S)
  BY DEF GoodEnd
<1>1. /\ S.cap \in Nat /\ S.localWindow \in Int /\ S.advWindow \in Int
      /\ S.streams[id].win \in Nat /\ S.streams[id].recv \in Int /\ S.streams[id].held \in Nat
      /\ S.streams[id].unacked \in Nat /\ S.streams[id] \in StreamType
      /\ GrowStream \in Nat
  BY <1>0, EndFields DEF H2Assumption
<1>2. window \in Nat
  BY <1>1 DEF CreditWindow, Larger, Smaller
<1>3. owed \in Nat
  BY <1>1
<1>4. growCap \in Nat
  BY <1>1 DEF Smaller
<1> HIDE DEF window, owed, growCap, grows
<1>5. next \in Nat
  BY <1>2, <1>4 DEF Smaller
<1>6. win \in Nat
  BY <1>1 DEF Smaller
<1> HIDE DEF next, win
<1>7. w \in Nat
  BY <1>5, <1>6
<1>8. asked \in Int
  BY <1>2, <1>3, <1>5
<1>9. room \in Int
  BY <1>1 DEF Larger
<1> HIDE DEF asked, lowering, room
<1>10. inc \in Int
  BY <1>8, <1>9 DEF Smaller
<1>11. \/ StreamCredit(S, id, n, fast) = S
       \/ StreamCredit(S, id, n, fast) = A
       \/ inc <= 0 /\ StreamCredit(S, id, n, fast) = F
       \/ inc > 0 /\ StreamCredit(S, id, n, fast) = R
  <2> DEFINE nothing == n = 0 \/ S.closed
             later == n # 0 /\ ~S.closed /\ (Has(S, id, "REMOTE_END") \/ 2 * owed < window)
  <2>1. ~(nothing /\ later)
    OBVIOUS
  <2>2. StreamCredit(S, id, n, fast) = CASE nothing -> S
                                         [] later -> A
                                         [] OTHER -> IF inc <= 0 THEN F ELSE R
    BY DEF StreamCredit, owed, window, growCap, grows, next, win, asked, lowering, room
  <2>3. ~(inc <= 0) => inc > 0
    BY <1>10
  <2> HIDE DEF nothing, later, A, T, F, R, inc
  <2> QED
    BY <2>1, <2>2, <2>3
<1>12. Keeps(S, A) /\ Open(A) = Open(S)
  <2> DEFINE s == [S.streams[id] EXCEPT !.unacked = owed]
  <2>1. A = [S EXCEPT !.streams[id] = s]
    OBVIOUS
  <2>2. s \in StreamType /\ s.send = S.streams[id].send /\ s.recv = S.streams[id].recv
    BY <1>1, <1>3 DEF StreamType
  <2> HIDE DEF s, A
  <2> QED
    BY <2>1, <2>2, StreamKeeps
<1>13. Keeps(S, T) /\ Open(T) = Open(S)
  <2> HIDE DEF w
  <2> DEFINE s == [S.streams[id] EXCEPT !.unacked = 0, !.win = w]
  <2>1. T = [S EXCEPT !.streams[id] = s]
    <3>1. S \in EndType(Open(S)) /\ S.streams \in [Open(S) -> StreamType]
      BY <1>0, EndFields DEF IsEnd
    <3> HIDE DEF StreamType, FrameType
    <3>2. [S.streams EXCEPT ![id] = s]
            = [[S.streams EXCEPT ![id].unacked = 0] EXCEPT ![id].win = w]
      BY <3>1
    <3>3. [S EXCEPT !.streams[id] = s] = [S EXCEPT !.streams = [S.streams EXCEPT ![id] = s]]
      OBVIOUS
    <3> QED
      BY <3>1, <3>2, <3>3 DEF EndType
  <2>2. s \in StreamType /\ s.send = S.streams[id].send /\ s.recv = S.streams[id].recv
    BY <1>1, <1>7 DEF StreamType
  <2> HIDE DEF s, T
  <2> QED
    BY <2>1, <2>2, StreamKeeps
<1> HIDE DEF A, T, w
<1>14. GoodEnd(T)
  BY <1>13 DEF Keeps
<1>15. Keeps(S, F) /\ Open(F) = Open(S)
  <2>1. CASE grows
    <3>1. Keeps(T, ConnFollow(T, next)) /\ ConnFollow(T, next).streams = T.streams
      BY <1>5, <1>14, ConnFollowKeeps
    <3> QED
      BY <1>13, <2>1, <3>1, KeepsTrans DEF Open
  <2>2. CASE ~grows
    BY <1>13, <2>2
  <2> QED
    BY <2>1, <2>2
<1> HIDE DEF F, inc
<1>16. CASE inc > 0 /\ StreamCredit(S, id, n, fast) = R
  <2>1. inc \in Nat /\ GoodEnd(F) /\ id \in Open(F)
    BY <1>10, <1>15, <1>16 DEF Keeps
  <2>2. Keeps(F, R) /\ Open(R) = Open(F)
    BY <2>1, StreamMore
  <2> QED
    BY <1>15, <1>16, <2>2, KeepsTrans
<1> QED
  BY <1>11, <1>12, <1>15, <1>16, KeepsItself
(* The life of streams.                                                    *)
LEMMA RingAddKeeps ==
    ASSUME H2Assumption, NEW S, GoodEnd(S), NEW id \in Ids, NEW how \in Endings
    PROVE  Keeps(S, RingAdd(S, id, how)) /\ RingAdd(S, id, how).streams = S.streams
<1> DEFINE entry == [id |-> id, how |-> how]
           ring == IF Len(S.ring) = CfgStreams(S) THEN Append(Tail(S.ring), entry)
                                                 ELSE Append(S.ring, entry)
           R == [S EXCEPT !.ring = ring]
<1>0. IsEnd(S) /\ S.ring \in Seq([id : Ids, how : Endings]) /\ CfgStreams(S) \in Nat \ {0}
  BY EndFields DEF GoodEnd, CfgStreams, H2Assumption
<1>1. RingAdd(S, id, how) = R
  BY DEF RingAdd
<1>2. entry \in [id : Ids, how : Endings]
  OBVIOUS
<1>3. ring \in Seq([id : Ids, how : Endings])
  <2> DEFINE E == [id : Ids, how : Endings]
  <2> HIDE DEF entry, E
  <2>1. S.ring \in Seq(E) /\ entry \in E
    BY <1>0, <1>2 DEF E
  <2>2. Len(S.ring) = CfgStreams(S) => Tail(S.ring) \in Seq(E)
    BY <1>0, <2>1
  <2>3. ring \in Seq(E)
    BY <2>1, <2>2
  <2> QED
    BY <2>3 DEF E
<1>4. IsEnd(R) /\ Alike(S, R) /\ R.out = S.out /\ R.closed = S.closed
  <2> HIDE DEF FrameType, StreamType, ring
  <2> QED
    BY <1>0, <1>3, ZenonT(60) DEF IsEnd, EndType, Open, Alike
<1> HIDE DEF R
<1> QED
  BY <1>1, <1>4, AlikeKeeps DEF Alike

LEMMA RemoveStreamKeeps ==
    ASSUME H2Assumption, NEW S, GoodEnd(S), NEW id \in Open(S), NEW properly \in BOOLEAN,
           NEW how \in Endings
    PROVE  LET R == RemoveStream(S, id, properly, how) IN
           Keeps(S, R) /\ Open(R) = Open(S) \ {id}
<1> DEFINE D == Open(S) \ {id}
           ss == Restrict(S.streams, DOMAIN S.streams \ {id})
           debt == IF properly /\ S.debt > 0 THEN S.debt - 1 ELSE S.debt
           T0 == [S EXCEPT !.streams = ss]
           T == [S EXCEPT !.streams = ss, !.debt = debt]
           Q == RingAdd(T, id, how)
           R == ConnCredit(Q, S.streams[id].held)
<1>0. IsEnd(S)
  BY DEF GoodEnd
<1>1. /\ Open(S) \in SUBSET Ids /\ S.streams \in [Open(S) -> StreamType] /\ S.debt \in Int
      /\ S.streams[id].held \in Nat /\ id \in Ids
  BY <1>0, EndFields
<1>2. D \in SUBSET Ids /\ ss \in [D -> StreamType] /\ \A i \in D : ss[i] = S.streams[i]
  <2> HIDE DEF StreamType
  <2> QED
    BY <1>1 DEF Restrict, Open
<1>3. debt \in Int
  BY <1>1
<1>4. RemoveStream(S, id, properly, how) = R
  BY DEF RemoveStream
<1> HIDE DEF D, ss, debt
<1>5. /\ IsEnd(T0) /\ Open(T0) = D /\ T0.streams = ss
      /\ T0.server = S.server /\ T0.nextId = S.nextId /\ T0.lastPeerId = S.lastPeerId
      /\ T0.sendWin = S.sendWin /\ T0.recvWin = S.recvWin
      /\ T0.localWindow = S.localWindow /\ T0.peerWindow = S.peerWindow
      /\ T0.out = S.out /\ T0.closed = S.closed
  BY <1>0, <1>2, OtherStreams
<1>6. T = [T0 EXCEPT !.debt = debt]
  OBVIOUS
<1> HIDE DEF T0, T
<1>7. IsEnd(T) /\ Alike(T0, T) /\ T.out = T0.out /\ T.closed = T0.closed
  <2> HIDE DEF FrameType, StreamType
  <2> QED
    BY <1>3, <1>5, <1>6, ZenonT(60) DEF IsEnd, EndType, Open, Alike
<1>8. Keeps(S, T) /\ Open(T) = D
  <2>1. Open(T) = D
    BY <1>5, <1>7 DEF Alike, Open
  <2>2. Open(T) \subseteq Open(S)
    BY <2>1 DEF D
  <2>3. \A i \in Open(T) : /\ T.streams[i].send = S.streams[i].send
                           /\ T.streams[i].recv = S.streams[i].recv
    BY <1>2, <1>5, <1>7, <2>1 DEF Alike
  <2> QED
    BY <1>5, <1>7, <2>1, <2>2, <2>3, SameCounts DEF Alike
<1>9. Keeps(T, Q) /\ Q.streams = T.streams
  BY <1>1, <1>8, RingAddKeeps DEF Keeps
<1>10. Keeps(Q, R) /\ R.streams = Q.streams
  <2> HIDE DEF Q
  <2>1. GoodEnd(Q)
    BY <1>9 DEF Keeps
  <2> QED
    BY <1>1, <2>1, ConnCreditKeeps
<1> HIDE DEF Q, R
<1>11. Keeps(S, R) /\ Open(R) = D
  BY <1>8, <1>9, <1>10, KeepsTrans DEF Open
<1> QED
  BY <1>4, <1>11 DEF D

LEMMA DebtKeeps ==
    ASSUME NEW S, GoodEnd(S)
    PROVE  Keeps(S, Debt(S)) /\ Debt(S).streams = S.streams
<1> DEFINE T == [S EXCEPT !.debt = @ + 1]
<1>1. S.debt + 1 \in Int
  BY EndFields DEF GoodEnd
<1>2. IsEnd(T) /\ Alike(S, T) /\ T.out = S.out /\ T.closed = S.closed
  <2> HIDE DEF FrameType, StreamType
  <2> QED
    BY <1>1, ZenonT(60) DEF GoodEnd, IsEnd, EndType, Open, Alike
<1>3. Debt(S) = IF T.debt > CfgDebt THEN Fail(T, "calm") ELSE T
  BY DEF Debt
<1> HIDE DEF T
<1>4. Keeps(S, T) /\ T.streams = S.streams /\ GoodEnd(T)
  BY <1>2, AlikeKeeps DEF Alike, Keeps
<1>5. Keeps(T, Fail(T, "calm")) /\ Fail(T, "calm").streams = T.streams
  <2>1. "calm" \in Codes
    BY DEF Codes
  <2> QED
    BY <1>4, <2>1, FailIs DEF Alike
<1> QED
  BY <1>3, <1>4, <1>5, KeepsTrans

LEMMA RstIs ==
    ASSUME NEW S, NEW id \in Ids, NEW code \in Codes
    PROVE  Due(S, Rst(id, code)) /\ Rst(id, code).t = "rst"
BY DEF Due, Rst, FrameType

LEMMA StreamFaultKeeps ==
    ASSUME H2Assumption, NEW S, GoodEnd(S), NEW id \in Ids, NEW code \in Codes, NEW forgive \in BOOLEAN
    PROVE  LET R == StreamFault(S, id, code, forgive) IN
           Keeps(S, R) /\ id \notin Open(R)
<1> DEFINE P == Answer(S, Rst(id, code))
           Q == [P EXCEPT !.blamed = @ \cup {code}]
           V == IF id \in Open(Q) THEN RemoveStream(Q, id, FALSE, IF forgive THEN "ours" ELSE "done")
                ELSE IF forgive THEN RingAdd(Q, id, "ours") ELSE Q
<1>1. Keeps(S, P) /\ P.streams = S.streams /\ GoodEnd(P)
  <2>1. Due(S, Rst(id, code)) /\ Rst(id, code).t = "rst"
    BY RstIs
  <2>2. Says(S, P, Rst(id, code))
    BY <2>1, AnswerIs
  <2>3. Keeps(S, P)
    BY <2>1, <2>2, SaysNothing
  <2> HIDE DEF P
  <2> QED
    BY <2>2, <2>3 DEF Says, Alike
<1>2. StreamFault(S, id, code, forgive) = Debt(V)
  BY DEF StreamFault
<1> HIDE DEF P
<1>3. P.blamed \cup {code} \subseteq Codes /\ IsEnd(P)
  BY <1>1, EndFields DEF GoodEnd
<1>4. IsEnd(Q) /\ Alike(P, Q) /\ Q.out = P.out /\ Q.closed = P.closed
  <2> HIDE DEF FrameType, StreamType, Codes
  <2> QED
    BY <1>3, ZenonT(60) DEF IsEnd, EndType, Open, Alike
<1> HIDE DEF Q
<1>5. Keeps(S, Q) /\ GoodEnd(Q)
  <2>1. Keeps(P, Q)
    BY <1>1, <1>4, AlikeKeeps
  <2> QED
    BY <1>1, <2>1, KeepsTrans DEF Keeps
<1>6. Keeps(Q, V) /\ id \notin Open(V)
  <2>1. CASE id \in Open(Q)
    <3>1. PICK how \in Endings : how = IF forgive THEN "ours" ELSE "done"
      BY DEF Endings
    <3>2. PICK W : W = RemoveStream(Q, id, FALSE, how)
      OBVIOUS
    <3>3. Keeps(Q, W) /\ Open(W) = Open(Q) \ {id}
      BY <1>5, <2>1, <3>2, RemoveStreamKeeps
    <3>4. V = W
      BY <2>1, <3>1, <3>2
    <3> QED
      BY <3>3, <3>4
  <2>2. CASE id \notin Open(Q) /\ forgive
    <3>1. "ours" \in Endings
      BY DEF Endings
    <3>2. Keeps(Q, RingAdd(Q, id, "ours")) /\ RingAdd(Q, id, "ours").streams = Q.streams
      BY <1>5, <3>1, RingAddKeeps
    <3> QED
      BY <2>2, <3>2 DEF Open
  <2>3. CASE id \notin Open(Q) /\ ~forgive
    BY <1>5, <2>3, KeepsItself
  <2> QED
    BY <2>1, <2>2, <2>3
<1> HIDE DEF V
<1>7. Keeps(V, Debt(V)) /\ Debt(V).streams = V.streams
  BY <1>6, DebtKeeps DEF Keeps
<1> QED
  BY <1>2, <1>5, <1>6, <1>7, KeepsTrans DEF Open
LEMMA Least ==
    ASSUME NEW I \in SUBSET Nat, I # {}
    PROVE  \E m \in I : \A k \in I : m <= k
<1>1. PICK m \in I : \A k \in I : ~ (<<k, m>> \in OpToRel(<, Nat))
  BY NatLessThanWellFounded, WFMin, Zenon
<1>2. \A k \in I : ~(k < m)
  BY <1>1 DEF OpToRel
<1>3. \A k \in I : m <= k
  BY <1>2
<1> QED
  BY <1>3

LEMMA RingFindType ==
    ASSUME NEW S, IsEnd(S), NEW id
    PROVE  RingFind(S, id) \in Endings \cup {"unknown"}
<1> DEFINE I == {i \in 1 .. Len(S.ring) : S.ring[i].id = id}
           i == SelectInSeq(S.ring, LAMBDA entry : entry.id = id)
<1>1. S.ring \in Seq([id : Ids, how : Endings])
  BY EndFields
<1>2. i = IF I # {} THEN Min(I) ELSE 0
  BY DEF SelectInSeq
<1>3. ASSUME I # {} PROVE Min(I) \in I
  <2>1. I \subseteq Nat
    BY <1>1
  <2>2. PICK m \in I : \A k \in I : m <= k
    BY <1>3, <2>1, Least
  <2> HIDE DEF I
  <2>3. Min(I) = CHOOSE x \in I : \A k \in I : x <= k
    BY DEF Min
  <2> QED
    BY <2>2, <2>3
<1>4. RingFind(S, id) = IF i = 0 THEN "unknown" ELSE S.ring[i].how
  BY DEF RingFind
<1> HIDE DEF i
<1>5. CASE I = {}
  BY <1>2, <1>4, <1>5
<1>6. CASE I # {}
  <2>1. i \in 1 .. Len(S.ring)
    BY <1>2, <1>3, <1>6
  <2>2. \A e \in [id : Ids, how : Endings] : e.how \in Endings
    OBVIOUS
  <2> DEFINE E == [id : Ids, how : Endings]
  <2> HIDE DEF E
  <2>3. S.ring \in Seq(E)
    BY <1>1 DEF E
  <2>4. i # 0 /\ S.ring[i] \in E
    BY <2>1, <2>3
  <2>5. S.ring[i].how \in Endings
    BY <2>2, <2>4 DEF E
  <2> QED
    BY <1>4, <2>4, <2>5
<1> QED
  BY <1>5, <1>6

LEMMA ClosedFrameKeeps ==
    ASSUME H2Assumption, NEW S, GoodEnd(S), NEW id \in Ids, id \notin Open(S)
    PROVE  Keeps(S, ClosedFrame(S, id)) /\ id \notin Open(ClosedFrame(S, id))
<1> DEFINE code == IF Len(S.ring) = CfgStreams(S) THEN "forgotten" ELSE "unknown"
           R == ClosedFrame(S, id)
<1>1. code \in Codes /\ "closed" \in Codes
  BY DEF Codes
<1>2. RingFind(S, id) \in {"ours", "peer", "done", "unknown"}
  BY RingFindType DEF GoodEnd, Endings
<1>3. \/ R = S
      \/ R = StreamFault(S, id, "closed", FALSE)
      \/ R = Fail(S, "closed")
      \/ R = Fail(S, code)
  <2> DEFINE how == RingFind(S, id)
  <2>1. R = CASE how = "ours" -> S
              [] how = "peer" -> StreamFault(S, id, "closed", FALSE)
              [] how = "done" -> Fail(S, "closed")
              [] how = "unknown" -> Fail(S, code)
    BY DEF ClosedFrame
  <2> HIDE DEF R, how, code
  <2>2. how \in {"ours", "peer", "done", "unknown"}
    BY <1>2 DEF how
  <2> QED
    BY <2>1, <2>2
<1> HIDE DEF R, code
<1>4. CASE R = S
  BY <1>4, KeepsItself DEF R
<1>5. CASE R = StreamFault(S, id, "closed", FALSE)
  BY <1>1, <1>5, StreamFaultKeeps DEF R
<1>6. ASSUME NEW c \in Codes, R = Fail(S, c) PROVE Keeps(S, R) /\ id \notin Open(R)
  BY <1>6, FailIs DEF Alike, Open
<1>7. Keeps(S, R) /\ id \notin Open(R)
  BY <1>1, <1>3, <1>4, <1>5, <1>6 DEF R
<1> QED
  BY <1>7 DEF R

(* Setting flags of a stream that are flags of streams.                    *)
LEMMA FlagKeeps ==
    ASSUME NEW S, GoodEnd(S), NEW id \in Open(S), NEW set \in SUBSET StreamFlags
    PROVE  Keeps(S, Flag(S, id, set)) /\ Open(Flag(S, id, set)) = Open(S)
<1> DEFINE s == [S.streams[id] EXCEPT !.flags = @ \cup set]
<1>1. S.streams[id] \in StreamType
  BY EndFields DEF GoodEnd
<1>2. s \in StreamType /\ s.send = S.streams[id].send /\ s.recv = S.streams[id].recv
  <2> HIDE DEF StreamFlags
  <2> QED
    BY <1>1 DEF StreamType
<1>3. Flag(S, id, set) = [S EXCEPT !.streams[id] = s]
  BY DEF Flag
<1> HIDE DEF s
<1> QED
  BY <1>2, <1>3, StreamKeeps

LEMMA LocalEndKeeps ==
    ASSUME H2Assumption, NEW S, GoodEnd(S), NEW id \in Open(S)
    PROVE  Keeps(S, LocalEnd(S, id))
<1> DEFINE T == Flag(S, id, {"LOCAL_END"})
           Q == Queue(T, Rst(id, "none"))
           A == RemoveStream(T, id, TRUE, "done")
           B == RemoveStream(Q, id, TRUE, EndedEarly)
<1>0. {"done", EndedEarly} \subseteq Endings /\ "none" \in Codes /\ {"LOCAL_END"} \in SUBSET StreamFlags
      /\ id \in Ids
  BY EndFields DEF Endings, EndedEarly, Codes, StreamFlags, GoodEnd
<1>1. Keeps(S, T) /\ Open(T) = Open(S) /\ GoodEnd(T)
  BY <1>0, FlagKeeps DEF Keeps
<1>2. LocalEnd(S, id) \in {T, A, B}
  BY DEF LocalEnd
<1> HIDE DEF T
<1>3. Keeps(T, A)
  BY <1>0, <1>1, RemoveStreamKeeps
<1>4. Keeps(T, Q) /\ Q.streams = T.streams
  <2>1. PICK f : f = Rst(id, "none")
    OBVIOUS
  <2>2. Due(T, f) /\ f.t = "rst"
    BY <1>0, <2>1, RstIs
  <2>3. Says(T, Q, f)
    BY <1>1, <2>1, <2>2, QueueIs
  <2>4. Keeps(T, Q)
    BY <1>1, <2>2, <2>3, SaysNothing
  <2> QED
    BY <2>3, <2>4 DEF Says, Alike
<1> HIDE DEF Q
<1>5. Keeps(Q, B)
  <2>1. GoodEnd(Q) /\ id \in Open(Q)
    BY <1>1, <1>4 DEF Keeps, Open
  <2>2. PICK how \in Endings : how = EndedEarly
    BY <1>0
  <2>3. Keeps(Q, RemoveStream(Q, id, TRUE, how))
    BY <2>1, RemoveStreamKeeps
  <2> QED
    BY <2>2, <2>3
<1> HIDE DEF A, B
<1> QED
  BY <1>1, <1>2, <1>3, <1>4, <1>5, KeepsTrans

LEMMA RemoteEndKeeps ==
    ASSUME H2Assumption, NEW S, GoodEnd(S), NEW id \in Open(S)
    PROVE  Keeps(S, RemoteEnd(S, id))
<1> DEFINE T == Flag(S, id, {"REMOTE_END"})
           A == RemoveStream(T, id, TRUE, "done")
<1>0. "done" \in Endings /\ {"REMOTE_END"} \in SUBSET StreamFlags
  BY DEF Endings, StreamFlags
<1>1. Keeps(S, T) /\ Open(T) = Open(S) /\ GoodEnd(T)
  BY <1>0, FlagKeeps DEF Keeps
<1>2. RemoteEnd(S, id) \in {T, A}
  BY DEF RemoteEnd
<1> HIDE DEF T
<1>3. Keeps(T, A)
  BY <1>0, <1>1, RemoveStreamKeeps
<1> HIDE DEF A
<1> QED
  BY <1>1, <1>2, <1>3, KeepsTrans
(* Settings.                                                               *)
LEMMA LocalWindowKeeps ==
    ASSUME NEW S, GoodEnd(S), NEW window \in Int
    PROVE  Keeps(S, LocalWindow(S, window)) /\ Open(LocalWindow(S, window)) = Open(S)
<1> DEFINE ss == [id \in Open(S) |-> [S.streams[id] EXCEPT !.recv = @ + (window - S.localWindow)]]
           T == [S EXCEPT !.streams = ss]
           R == [T EXCEPT !.localWindow = window]
<1>0. IsEnd(S)
  BY DEF GoodEnd
<1>1. /\ Open(S) \in SUBSET Ids /\ S.localWindow \in Int
      /\ \A id \in Open(S) : S.streams[id] \in StreamType /\ S.streams[id].recv \in Int
  BY <1>0, EndFields
<1>2. ss \in [Open(S) -> StreamType]
  BY <1>1 DEF StreamType
<1>3. \A id \in Open(S) : /\ ss[id].send = S.streams[id].send
                          /\ ss[id].recv = S.streams[id].recv + (window - S.localWindow)
  BY <1>1 DEF StreamType
<1>4. LocalWindow(S, window) = [S EXCEPT !.localWindow = window, !.streams = ss]
  BY DEF LocalWindow
<1> HIDE DEF ss
<1>5. LocalWindow(S, window) = R
  BY <1>4
<1>6. /\ IsEnd(T) /\ Open(T) = Open(S) /\ T.streams = ss
      /\ T.server = S.server /\ T.nextId = S.nextId /\ T.lastPeerId = S.lastPeerId
      /\ T.sendWin = S.sendWin /\ T.recvWin = S.recvWin
      /\ T.localWindow = S.localWindow /\ T.peerWindow = S.peerWindow
      /\ T.out = S.out /\ T.closed = S.closed
  BY <1>0, <1>1, <1>2, OtherStreams
<1> HIDE DEF T
<1>7. /\ IsEnd(R) /\ R.streams = T.streams /\ R.localWindow = window
      /\ R.server = T.server /\ R.nextId = T.nextId /\ R.lastPeerId = T.lastPeerId
      /\ R.sendWin = T.sendWin /\ R.recvWin = T.recvWin /\ R.peerWindow = T.peerWindow
      /\ R.out = T.out /\ R.closed = T.closed
  <2> HIDE DEF FrameType, StreamType
  <2> QED
    BY <1>6, ZenonT(60) DEF IsEnd, EndType, Open
<1> HIDE DEF R
<1>8. Known(R) = Known(S) /\ Open(R) = Open(S)
  BY <1>6, <1>7 DEF Known, Open
<1>9. GoodEnd(R)
  BY <1>6, <1>7, <1>8 DEF GoodEnd, OfKnown
<1>10. ConnSends(R) = ConnSends(S) /\ ConnTakes(R) = ConnTakes(S)
  BY <1>6, <1>7 DEF ConnSends, ConnTakes
<1>11. ASSUME NEW id \in Open(S) PROVE Sends(R, id) = Sends(S, id) /\ Takes(R, id) = Takes(S, id)
  <2>1. R.out = S.out /\ R.streams = ss /\ R.peerWindow = S.peerWindow /\ R.localWindow = window
    BY <1>6, <1>7
  <2>2. Carried(S.out, "window", {id}) \in Nat
    BY <1>0, EndFields, CarriedIs
  <2>3. R.streams[id].recv - R.localWindow = S.streams[id].recv - S.localWindow
    BY <1>1, <1>3, <2>1
  <2>4. R.streams[id].send = S.streams[id].send
    BY <1>3, <2>1
  <2>5. Sends(R, id) = Sends(S, id)
    BY <2>1, <2>4 DEF Sends
  <2>6. Takes(R, id) = Takes(S, id)
    BY <2>1, <2>3 DEF Takes
  <2> QED
    BY <2>5, <2>6
<1>12. Keeps(S, R)
  <2>1. S.closed \in BOOLEAN
    BY <1>0, EndFields
  <2> QED
    BY <1>6, <1>7, <1>8, <1>9, <1>10, <1>11, <2>1 DEF Keeps
<1> QED
  BY <1>5, <1>8, <1>12

LEMMA SettingsIs ==
    ASSUME NEW S, NEW streams \in Int, NEW window \in Int
    PROVE  Due(S, Settings(streams, window)) /\ Settings(streams, window).t = "settings"
BY DEF Due, Settings, FrameType

LEMMA SettingsChangeKeeps ==
    ASSUME NEW S, GoodEnd(S)
    PROVE  Keeps(S, SettingsChange(S))
<1> DEFINE said == Settings(IF S.wantStreams # S.advStreams THEN S.wantStreams ELSE -1,
                            IF S.wantWindow # S.advWindow THEN S.wantWindow ELSE -1)
           P == Put(S, said)
           T == [P EXCEPT !.advStreams = S.wantStreams,
                          !.advWindow = S.wantWindow, !.chgInflight = TRUE]
<1>0. IsEnd(S)
  BY DEF GoodEnd
<1>1. S.wantStreams \in Int /\ S.wantWindow \in Int
  BY <1>0, EndFields
<1>2. Due(S, said) /\ said.t = "settings"
  <2>1. PICK a \in Int : a = IF S.wantStreams # S.advStreams THEN S.wantStreams ELSE -1
    BY <1>1
  <2>2. PICK b \in Int : b = IF S.wantWindow # S.advWindow THEN S.wantWindow ELSE -1
    BY <1>1
  <2>3. said = Settings(a, b)
    BY <2>1, <2>2
  <2> QED
    BY <2>3, SettingsIs
<1>3. SettingsChange(S) \in {S, T, LocalWindow(T, T.advWindow)}
  BY DEF SettingsChange
<1> HIDE DEF said, P
<1>4. Says(S, P, said) /\ IsEnd(P)
  <2>1. IsEnd(P) /\ Alike(S, P) /\ P.out = Append(S.out, said) /\ P.closed = S.closed
    BY <1>0, <1>2, PutIs DEF P, Due
  <2>2. GoodEnd(P)
    BY <1>2, PutGood DEF P
  <2> QED
    BY <2>1, <2>2 DEF Says
<1>5. Keeps(S, P)
  BY <1>2, <1>4, SaysNothing
<1>6. IsEnd(T) /\ Alike(P, T) /\ T.out = P.out /\ T.closed = P.closed
  <2> HIDE DEF FrameType, StreamType
  <2> QED
    BY <1>1, <1>4, ZenonT(60) DEF IsEnd, EndType, Open, Alike
<1> HIDE DEF T
<1>7. Keeps(S, T) /\ GoodEnd(T)
  <2>1. Keeps(P, T)
    BY <1>4, <1>6, AlikeKeeps DEF Says
  <2> QED
    BY <1>5, <2>1, KeepsTrans DEF Keeps
<1>8. Keeps(T, LocalWindow(T, T.advWindow))
  <2>1. T.advWindow \in Int
    BY <1>6, EndFields
  <2> QED
    BY <1>7, <2>1, LocalWindowKeeps
<1> QED
  BY <1>3, <1>7, <1>8, KeepsItself, KeepsTrans

LEMMA OnAckKeeps ==
    ASSUME H2Assumption, NEW S, GoodEnd(S)
    PROVE  Keeps(S, OnAck(S))
<1> DEFINE A == [S EXCEPT !.settingsAcked = TRUE]
           B == [S EXCEPT !.chgInflight = FALSE, !.ackedStreams = S.advStreams]
           L == LocalWindow(B, S.advWindow)
<1>0. IsEnd(S) /\ S.advStreams \in Int /\ S.advWindow \in Int /\ CfgWindow(S) \in Int
  BY EndFields DEF GoodEnd, CfgWindow, H2Assumption
<1>1. OnAck(S) \in {LocalWindow(A, CfgWindow(S)), S, SettingsChange(L)}
  <2> DEFINE first == ~S.settingsAcked
             none == S.settingsAcked /\ ~S.chgInflight
  <2>1. ~(first /\ none)
    OBVIOUS
  <2>2. OnAck(S) = CASE first -> LocalWindow(A, CfgWindow(S))
                     [] none -> S
                     [] OTHER -> SettingsChange(L)
    BY DEF OnAck
  <2> HIDE DEF first, none, A, L
  <2> QED
    BY <2>1, <2>2
<1>2. IsEnd(A) /\ Alike(S, A) /\ A.out = S.out /\ A.closed = S.closed
  <2> HIDE DEF FrameType, StreamType
  <2> QED
    BY <1>0, ZenonT(60) DEF IsEnd, EndType, Open, Alike
<1>3. IsEnd(B) /\ Alike(S, B) /\ B.out = S.out /\ B.closed = S.closed
  <2> HIDE DEF FrameType, StreamType
  <2> QED
    BY <1>0, ZenonT(60) DEF IsEnd, EndType, Open, Alike
<1> HIDE DEF A, B
<1>4. Keeps(S, A) /\ Keeps(S, B) /\ GoodEnd(A) /\ GoodEnd(B)
  BY <1>2, <1>3, AlikeKeeps DEF Keeps
<1>5. Keeps(A, LocalWindow(A, CfgWindow(S))) /\ Keeps(B, L) /\ GoodEnd(L)
  BY <1>0, <1>4, LocalWindowKeeps DEF Keeps
<1> HIDE DEF L
<1>6. Keeps(L, SettingsChange(L))
  BY <1>5, SettingsChangeKeeps
<1> QED
  BY <1>1, <1>4, <1>5, <1>6, KeepsItself, KeepsTrans

LEMMA SetKeeps ==
    ASSUME NEW S, GoodEnd(S), NEW streams \in Int, NEW window \in Int
    PROVE  Keeps(S, Set(S, streams, window))
<1> DEFINE T == [S EXCEPT !.wantStreams = streams, !.wantWindow = window]
<1>1. Set(S, streams, window) \in {S, T, SettingsChange(T)}
  BY DEF Set
<1>2. IsEnd(T) /\ Alike(S, T) /\ T.out = S.out /\ T.closed = S.closed
  <2> HIDE DEF FrameType, StreamType
  <2> QED
    BY ZenonT(60) DEF GoodEnd, IsEnd, EndType, Open, Alike
<1> HIDE DEF T
<1>3. Keeps(S, T) /\ GoodEnd(T)
  BY <1>2, AlikeKeeps DEF Keeps
<1>4. Keeps(T, SettingsChange(T))
  BY <1>3, SettingsChangeKeeps
<1> QED
  BY <1>1, <1>3, <1>4, KeepsItself, KeepsTrans

LEMMA CapWindowKeeps ==
    ASSUME H2Assumption, NEW S, GoodEnd(S), NEW n \in Nat
    PROVE  Keeps(S, CapWindow(S, n))
<1> DEFINE T == [S EXCEPT !.cap = n]
           initial == IF n # 0 THEN Smaller(n, CfgWindow(S)) ELSE CfgWindow(S)
<1>0. CfgWindow(S) \in Int
  BY DEF CfgWindow, H2Assumption
<1>1. CapWindow(S, n) \in {T, Set(T, T.wantStreams, initial)}
  BY DEF CapWindow
<1>2. initial \in Int
  BY <1>0 DEF Smaller
<1>3. IsEnd(T) /\ Alike(S, T) /\ T.out = S.out /\ T.closed = S.closed
  <2> HIDE DEF FrameType, StreamType
  <2> QED
    BY ZenonT(60) DEF GoodEnd, IsEnd, EndType, Open, Alike
<1> HIDE DEF T, initial
<1>4. Keeps(S, T) /\ GoodEnd(T)
  BY <1>3, AlikeKeeps DEF Keeps
<1>5. T.wantStreams \in Int
  BY <1>3, EndFields
<1>6. Keeps(T, Set(T, T.wantStreams, initial))
  BY <1>2, <1>4, <1>5, SetKeeps
<1> QED
  BY <1>1, <1>4, <1>6, KeepsTrans
---------------------------------------------------------------------------
(* Frames, arriving.                                                       *)

(* What S becomes when it has read f: what f carries has moved; a stream   *)
(* that is new is a server's, of a later request; and a frame for a stream *)
(* that the server does not know yet is a fault.                           *)
Reads(S, R, f) ==
    /\ GoodEnd(R) /\ R.server = S.server /\ R.nextId = S.nextId
    /\ \/ R.lastPeerId = S.lastPeerId
       \/ S.server /\ f.t = "headers" /\ R.lastPeerId = f.id /\ f.id > S.lastPeerId
    /\ \/ R.closed
       \/ /\ ~S.closed
          /\ S.server /\ f.t \in {"data", "window"} => f.id <= S.lastPeerId
          /\ ConnSends(R) = ConnSends(S) + Carries(f, "window", {0})
          /\ ConnTakes(R) = ConnTakes(S) - Carries(f, "data", Ids)
          /\ \A id \in Open(R) :
               \/ /\ id \in Open(S)
                  /\ Sends(R, id) = Sends(S, id) + Carries(f, "window", {id})
                  /\ Takes(R, id) = Takes(S, id) - Carries(f, "data", {id})
               \/ /\ S.server /\ f.t = "headers" /\ id = f.id /\ id > S.lastPeerId
                  /\ Sends(R, id) = 0 /\ Takes(R, id) = 0

LEMMA CountTypes ==
    ASSUME NEW S, IsEnd(S)
    PROVE  /\ ConnSends(S) \in Int /\ ConnTakes(S) \in Int
           /\ \A id \in Open(S) : Sends(S, id) \in Int /\ Takes(S, id) \in Int
<1>1. S.out \in Seq(FrameType) /\ S.sendWin \in Int /\ S.recvWin \in Int
      /\ S.peerWindow \in Int /\ S.localWindow \in Int
      /\ \A id \in Open(S) : S.streams[id].send \in Int /\ S.streams[id].recv \in Int
  BY EndFields
<1>2. \A kind \in {"data", "window"} : \A ids : Carried(S.out, kind, ids) \in Nat
  BY <1>1, CarriedIs
<1>3. ConnSends(S) \in Int
  BY <1>1, <1>2 DEF ConnSends
<1>4. ConnTakes(S) \in Int
  BY <1>1, <1>2 DEF ConnTakes
<1>5. ASSUME NEW id \in Open(S) PROVE Sends(S, id) \in Int
  BY <1>1, <1>2 DEF Sends
<1>6. ASSUME NEW id \in Open(S) PROVE Takes(S, id) \in Int
  BY <1>1, <1>2 DEF Takes
<1> QED
  BY <1>3, <1>4, <1>5, <1>6

LEMMA FrameTypes ==
    ASSUME NEW f \in FrameType
    PROVE  /\ f.t = "headers" => f.id \in Ids /\ f.fin \in BOOLEAN /\ f.tunnel \in BOOLEAN
           /\ f.t = "data" => f.id \in Ids /\ f.n \in Nat /\ f.fin \in BOOLEAN
           /\ f.t = "window" => f.id \in Ids \cup {0} /\ f.n \in Nat
           /\ f.t = "rst" => f.id \in Ids /\ f.code \in Codes
           /\ f.t = "goaway" => f.last \in Nat
           /\ f.t = "settings" => f.streams \in Int /\ f.window \in Int
           /\ f.t \in {"settings", "ack", "headers", "data", "window", "rst", "goaway", "ping", "pong"}
<1> HIDE DEF Codes
<1>1. CASE f.t = "headers"
  BY <1>1 DEF FrameType
<1>2. CASE f.t = "data"
  BY <1>2 DEF FrameType
<1>3. CASE f.t = "window"
  BY <1>3 DEF FrameType
<1>4. CASE f.t = "rst"
  BY <1>4 DEF FrameType
<1>5. CASE f.t = "goaway"
  BY <1>5 DEF FrameType
<1>6. CASE f.t = "settings"
  BY <1>6 DEF FrameType
<1>7. f.t \in {"settings", "ack", "headers", "data", "window", "rst", "goaway", "ping", "pong"}
  BY DEF FrameType
<1> QED
  BY <1>1, <1>2, <1>3, <1>4, <1>5, <1>6, <1>7

(* A frame that carries nothing to what is left of the streams.            *)
LEMMA KeepsReads ==
    ASSUME NEW S, GoodEnd(S), NEW R, Keeps(S, R), NEW f,
           f.t # "data",
           f.t = "window" => /\ f.id # 0 /\ f.id \notin Open(R)
                             /\ (R.closed \/ ~S.server \/ f.id <= S.lastPeerId)
    PROVE  Reads(S, R, f)
<1>1. R.server = S.server /\ R.nextId = S.nextId /\ R.lastPeerId = S.lastPeerId /\ GoodEnd(R)
      /\ Open(R) \subseteq Open(S)
  BY DEF Keeps
<1>2. CASE R.closed
  BY <1>1, <1>2 DEF Reads
<1>3. CASE ~R.closed
  <2>1. /\ ~S.closed /\ ConnSends(R) = ConnSends(S) /\ ConnTakes(R) = ConnTakes(S)
        /\ \A id \in Open(R) : Sends(R, id) = Sends(S, id) /\ Takes(R, id) = Takes(S, id)
    BY <1>3 DEF Keeps
  <2>2. Open(R) \subseteq Ids
    BY <1>1, EndFields DEF GoodEnd
  <2>3. Carries(f, "window", {0}) = 0 /\ Carries(f, "data", Ids) = 0
    BY DEF Carries
  <2>4. \A id \in Open(R) : Carries(f, "window", {id}) = 0 /\ Carries(f, "data", {id}) = 0
    BY <2>2 DEF Carries
  <2>5. /\ ConnSends(S) \in Int /\ ConnTakes(S) \in Int
        /\ \A id \in Open(S) : Sends(S, id) \in Int /\ Takes(S, id) \in Int
    BY CountTypes DEF GoodEnd
  <2>6. ConnSends(R) = ConnSends(S) + Carries(f, "window", {0})
        /\ ConnTakes(R) = ConnTakes(S) - Carries(f, "data", Ids)
    BY <2>1, <2>3, <2>5
  <2>7. \A id \in Open(R) : /\ id \in Open(S)
                            /\ Sends(R, id) = Sends(S, id) + Carries(f, "window", {id})
                            /\ Takes(R, id) = Takes(S, id) - Carries(f, "data", {id})
    BY <1>1, <2>1, <2>4, <2>5
  <2>8. S.server /\ f.t \in {"data", "window"} => f.id <= S.lastPeerId
    BY <1>3
  <2> QED
    BY <1>1, <2>1, <2>6, <2>7, <2>8 DEF Reads
<1> QED
  BY <1>2, <1>3

LEMMA FailReads ==
    ASSUME NEW S, GoodEnd(S), NEW code \in Codes, NEW f
    PROVE  Reads(S, Fail(S, code), f)
BY FailIs DEF Reads, Alike

(* What carries nothing reads as what keeps the counts.                    *)
LEMMA OnSettingsReads ==
    ASSUME H2Assumption, NEW S, GoodEnd(S), NEW f \in FrameType, f.t = "settings"
    PROVE  Reads(S, OnSettings(S, f), f)
<1> DEFINE streams == IF f.streams = -1 THEN S.peerStreams ELSE f.streams
           G == [S EXCEPT !.gotSettings = TRUE, !.peerStreams = streams]
           delta == f.window - S.peerWindow
           tooMuch == \E id \in Open(S) : S.streams[id].send + delta > MaxWindow
           ss == [id \in Open(S) |-> [S.streams[id] EXCEPT !.send = @ + delta]]
           sweep == S.sweepWritable \/ delta > 0
           M == [G EXCEPT !.streams = ss, !.peerWindow = f.window, !.sweepWritable = sweep]
           T == [S EXCEPT !.streams = ss]
           M2 == [T EXCEPT !.gotSettings = TRUE, !.peerStreams = streams,
                           !.peerWindow = f.window, !.sweepWritable = sweep]
           R == OnSettings(S, f)
<1>0. IsEnd(S) /\ f.streams \in Int /\ f.window \in Int
  BY FrameTypes DEF GoodEnd
<1>1. /\ Open(S) \in SUBSET Ids /\ S.peerWindow \in Int /\ S.peerStreams \in Int
      /\ \A id \in Open(S) : S.streams[id] \in StreamType /\ S.streams[id].send \in Int
  BY <1>0, EndFields
<1>2. streams \in Int /\ delta \in Int /\ sweep \in BOOLEAN
  <2>1. S.sweepWritable \in BOOLEAN
    <3> HIDE DEF FrameType, StreamType
    <3> QED
      BY <1>0 DEF IsEnd, EndType
  <2> QED
    BY <1>0, <1>1, <2>1
<1>3. R \in {Answer(G, Ack), Fail(G, "flow"), Answer(M, Ack)}
  <2> DEFINE none == f.window = -1
             much == f.window # -1 /\ tooMuch
  <2>1. R = CASE none -> Answer(G, Ack)
              [] much -> Fail(G, "flow")
              [] OTHER -> Answer(M, Ack)
    <3>1. [S EXCEPT !.gotSettings = TRUE, !.peerStreams = IF f.streams = -1 THEN @ ELSE f.streams] = G
      <4> HIDE DEF FrameType, StreamType
      <4> QED
        BY <1>0 DEF IsEnd, EndType
    <3>2. [G EXCEPT !.streams = ss, !.peerWindow = f.window, !.sweepWritable = @ \/ delta > 0] = M
      <4> HIDE DEF FrameType, StreamType, ss, delta, streams
      <4> QED
        BY <1>0 DEF IsEnd, EndType
    <3> QED
      BY <3>1, <3>2 DEF OnSettings
  <2>2. ~(none /\ much)
    OBVIOUS
  <2> HIDE DEF none, much, R, G, M
  <2> QED
    BY <2>1, <2>2
<1>4. IsEnd(G) /\ Alike(S, G) /\ G.out = S.out /\ G.closed = S.closed
  <2> HIDE DEF FrameType, StreamType, streams
  <2> QED
    BY <1>0, <1>2, ZenonT(60) DEF IsEnd, EndType, Open, Alike
<1>5. M = M2
  <2> HIDE DEF streams, ss, sweep
  <2> QED
    OBVIOUS
<1>6. ss \in [Open(S) -> StreamType]
  BY <1>1, <1>2 DEF StreamType
<1>7. \A id \in Open(S) : ss[id].recv = S.streams[id].recv /\ ss[id].send = S.streams[id].send + delta
  BY <1>1 DEF StreamType
<1> HIDE DEF ss, streams, sweep
<1>8. /\ IsEnd(T) /\ Open(T) = Open(S) /\ T.streams = ss
      /\ T.server = S.server /\ T.nextId = S.nextId /\ T.lastPeerId = S.lastPeerId
      /\ T.sendWin = S.sendWin /\ T.recvWin = S.recvWin
      /\ T.localWindow = S.localWindow /\ T.peerWindow = S.peerWindow
      /\ T.out = S.out /\ T.closed = S.closed
  BY <1>0, <1>1, <1>6, OtherStreams
<1> HIDE DEF T
<1>9. /\ IsEnd(M2) /\ M2.streams = T.streams /\ M2.peerWindow = f.window
      /\ M2.server = T.server /\ M2.nextId = T.nextId /\ M2.lastPeerId = T.lastPeerId
      /\ M2.sendWin = T.sendWin /\ M2.recvWin = T.recvWin /\ M2.localWindow = T.localWindow
      /\ M2.out = T.out /\ M2.closed = T.closed
  <2> HIDE DEF FrameType, StreamType
  <2>1. T \in EndType(Open(T)) /\ Open(T) \subseteq Ids
    BY <1>8 DEF IsEnd
  <2>2. M2 \in EndType(Open(T))
    BY <1>0, <1>2, <2>1, ZenonT(60) DEF EndType
  <2>3. /\ M2.streams = T.streams /\ M2.peerWindow = f.window
        /\ M2.server = T.server /\ M2.nextId = T.nextId /\ M2.lastPeerId = T.lastPeerId
        /\ M2.sendWin = T.sendWin /\ M2.recvWin = T.recvWin /\ M2.localWindow = T.localWindow
        /\ M2.out = T.out /\ M2.closed = T.closed
    BY <2>1 DEF EndType
  <2>4. Open(M2) = Open(T)
    BY <2>3 DEF Open
  <2> QED
    BY <2>1, <2>2, <2>3, <2>4 DEF IsEnd
<1> HIDE DEF G, M, M2
<1>10. Keeps(S, G) /\ GoodEnd(G)
  BY <1>4, AlikeKeeps DEF Keeps
<1>11. Keeps(S, M) /\ GoodEnd(M)
  <2>1. Known(M) = Known(S) /\ Open(M) = Open(S)
    BY <1>5, <1>8, <1>9 DEF Known, Open
  <2>2. GoodEnd(M)
    BY <1>5, <1>8, <1>9, <2>1 DEF GoodEnd, OfKnown
  <2>3. M.out = S.out /\ M.streams = ss /\ M.peerWindow = f.window /\ M.localWindow = S.localWindow
        /\ M.sendWin = S.sendWin /\ M.recvWin = S.recvWin /\ M.closed = S.closed
    BY <1>5, <1>8, <1>9
  <2>4. ConnSends(M) = ConnSends(S) /\ ConnTakes(M) = ConnTakes(S)
    BY <2>3 DEF ConnSends, ConnTakes
  <2>5. ASSUME NEW id \in Open(S) PROVE Sends(M, id) = Sends(S, id) /\ Takes(M, id) = Takes(S, id)
    <3>1. M.streams[id].send - M.peerWindow = S.streams[id].send - S.peerWindow
      BY <1>0, <1>1, <1>7, <2>3
    <3>2. M.streams[id].recv = S.streams[id].recv
      BY <1>7, <2>3
    <3>3. Sends(M, id) = Sends(S, id)
      BY <2>3, <3>1 DEF Sends
    <3>4. Takes(M, id) = Takes(S, id)
      BY <2>3, <3>2 DEF Takes
    <3> QED
      BY <3>3, <3>4
  <2>6. S.closed \in BOOLEAN
    BY <1>0, EndFields
  <2> QED
    BY <1>5, <1>8, <1>9, <2>1, <2>2, <2>3, <2>4, <2>5, <2>6 DEF Keeps
<1>12. \A U : GoodEnd(U) => Keeps(U, Answer(U, Ack))
  <2>1. \A U : Due(U, Ack) /\ Ack.t = "ack"
    BY DEF Due, Ack, FrameType
  <2> QED
    BY <2>1, AnswerIs, SaysNothing
<1>13. Keeps(G, Fail(G, "flow"))
  <2>1. "flow" \in Codes
    BY DEF Codes
  <2> QED
    BY <1>10, <2>1, FailIs
<1>14. Keeps(S, R)
  <2> HIDE DEF R
  <2> QED
    BY <1>3, <1>10, <1>11, <1>12, <1>13, KeepsTrans
<1> QED
  BY <1>14, KeepsReads

(* A DATA frame has taken its part of the connection's window, and its     *)
(* stream is gone, or it was not there.                                    *)
LEMMA OnDataReads ==
    ASSUME H2Assumption, NEW S, GoodEnd(S), ~S.closed, NEW f \in FrameType, f.t = "data"
    PROVE  Reads(S, OnData(S, f), f)
<1> DEFINE T == [S EXCEPT !.recvWin = @ - f.n,
                          !.rd = [id |-> f.id, left |-> f.n, fin |-> f.fin, drop |-> FALSE]]
           D == [T EXCEPT !.rd.drop = TRUE]
           open == f.id \in Open(S)
           V == [T EXCEPT !.streams[f.id].recv = @ - f.n]
           R == OnData(S, f)
<1>0. IsEnd(S) /\ f.id \in Ids /\ f.n \in Nat /\ f.fin \in BOOLEAN
  BY FrameTypes DEF GoodEnd
<1>1. /\ Open(S) \in SUBSET Ids /\ S.recvWin \in Int
      /\ \A id \in Open(S) : S.streams[id] \in StreamType /\ S.streams[id].recv \in Int
      /\ S.streams \in [Open(S) -> StreamType]
  BY <1>0, EndFields
<1>2. /\ IsEnd(T) /\ T.streams = S.streams /\ T.recvWin = S.recvWin - f.n
      /\ T.server = S.server /\ T.nextId = S.nextId /\ T.lastPeerId = S.lastPeerId
      /\ T.sendWin = S.sendWin /\ T.localWindow = S.localWindow /\ T.peerWindow = S.peerWindow
      /\ T.out = S.out /\ T.closed = S.closed
      /\ T.rd = [id |-> f.id, left |-> f.n, fin |-> f.fin, drop |-> FALSE]
  <2>1. S.recvWin - f.n \in Int
    BY <1>0, <1>1
  <2>2. [id |-> f.id, left |-> f.n, fin |-> f.fin, drop |-> FALSE]
          \in [id : Ids \cup {0}, left : Nat, fin : BOOLEAN, drop : BOOLEAN]
    BY <1>0
  <2> HIDE DEF FrameType, StreamType
  <2>3. S \in EndType(Open(S)) /\ Open(S) \subseteq Ids
    BY <1>0 DEF IsEnd
  <2>4. T \in EndType(Open(S))
    BY <2>1, <2>2, <2>3, ZenonT(60) DEF EndType
  <2>5. /\ T.streams = S.streams /\ T.recvWin = S.recvWin - f.n
        /\ T.server = S.server /\ T.nextId = S.nextId /\ T.lastPeerId = S.lastPeerId
        /\ T.sendWin = S.sendWin /\ T.localWindow = S.localWindow /\ T.peerWindow = S.peerWindow
        /\ T.out = S.out /\ T.closed = S.closed
        /\ T.rd = [id |-> f.id, left |-> f.n, fin |-> f.fin, drop |-> FALSE]
    BY <2>3 DEF EndType
  <2>6. Open(T) = Open(S)
    BY <2>5 DEF Open
  <2> QED
    BY <2>3, <2>4, <2>5, <2>6 DEF IsEnd
<1> HIDE DEF T
<1>3. IsEnd(D) /\ Alike(T, D) /\ D.out = T.out /\ D.closed = T.closed
  <2> DEFINE rd == [T.rd EXCEPT !.drop = TRUE]
  <2>1. T.rd \in [id : Ids \cup {0}, left : Nat, fin : BOOLEAN, drop : BOOLEAN]
    BY <1>0, <1>2
  <2>2. rd \in [id : Ids \cup {0}, left : Nat, fin : BOOLEAN, drop : BOOLEAN]
    BY <2>1
  <2>3. D = [T EXCEPT !.rd = rd]
    OBVIOUS
  <2> HIDE DEF FrameType, StreamType, rd, D
  <2> QED
    BY <1>2, <2>2, <2>3, ZenonT(60) DEF IsEnd, EndType, Open, Alike
<1> HIDE DEF D
<1>4. GoodEnd(T) /\ Open(T) = Open(S)
  <2>1. Known(T) = Known(S) /\ Open(T) = Open(S)
    BY <1>2 DEF Known, Open
  <2> QED
    BY <1>2, <2>1 DEF GoodEnd, OfKnown
<1>5. Keeps(T, D) /\ GoodEnd(D) /\ Open(D) = Open(S)
  BY <1>2, <1>3, <1>4, AlikeKeeps DEF Keeps, Alike, Open
<1>6. /\ ConnSends(T) = ConnSends(S) /\ ConnTakes(T) = ConnTakes(S) - f.n
      /\ \A id \in Open(S) : Sends(T, id) = Sends(S, id) /\ Takes(T, id) = Takes(S, id)
  <2>1. Carried(S.out, "window", {0}) \in Nat
    BY <1>0, EndFields, CarriedIs
  <2>2. ConnTakes(T) = ConnTakes(S) - f.n
    BY <1>0, <1>1, <1>2, <2>1 DEF ConnTakes
  <2>3. ConnSends(T) = ConnSends(S)
    BY <1>2 DEF ConnSends
  <2>4. \A id \in Open(S) : Sends(T, id) = Sends(S, id) /\ Takes(T, id) = Takes(S, id)
    BY <1>2 DEF Sends, Takes
  <2> QED
    BY <2>2, <2>3, <2>4
<1>7. /\ Carries(f, "window", {0}) = 0 /\ Carries(f, "data", Ids) = f.n
      /\ \A id : Carries(f, "window", {id}) = 0
                 /\ Carries(f, "data", {id}) = IF id = f.id THEN f.n ELSE 0
  BY <1>0 DEF Carries
<1>8. /\ ConnSends(S) \in Int /\ ConnTakes(S) \in Int
      /\ \A id \in Open(S) : Sends(S, id) \in Int /\ Takes(S, id) \in Int
  BY <1>0, CountTypes
<1>9. ASSUME NEW U, Keeps(T, U), f.id \notin Open(U), U.closed \/ ~S.server \/ f.id <= S.lastPeerId
      PROVE  Reads(S, U, f)
  <2>1. /\ GoodEnd(U) /\ U.server = S.server /\ U.nextId = S.nextId /\ U.lastPeerId = S.lastPeerId
        /\ Open(U) \subseteq Open(S)
    BY <1>2, <1>4, <1>9 DEF Keeps
  <2>2. CASE U.closed
    BY <2>1, <2>2 DEF Reads
  <2>3. CASE ~U.closed
    <3>1. /\ ConnSends(U) = ConnSends(T) /\ ConnTakes(U) = ConnTakes(T)
          /\ \A id \in Open(U) : Sends(U, id) = Sends(T, id) /\ Takes(U, id) = Takes(T, id)
      BY <1>9, <2>3 DEF Keeps
    <3>2. ConnSends(U) = ConnSends(S) + Carries(f, "window", {0})
          /\ ConnTakes(U) = ConnTakes(S) - Carries(f, "data", Ids)
      BY <1>6, <1>7, <1>8, <3>1
    <3>3. ASSUME NEW id \in Open(U)
          PROVE  /\ id \in Open(S)
                 /\ Sends(U, id) = Sends(S, id) + Carries(f, "window", {id})
                 /\ Takes(U, id) = Takes(S, id) - Carries(f, "data", {id})
      <4>1. id \in Open(S) /\ id # f.id
        BY <1>9, <2>1
      <4>2. Carries(f, "window", {id}) = 0 /\ Carries(f, "data", {id}) = 0
        BY <1>7, <4>1
      <4> QED
        BY <1>6, <1>8, <3>1, <4>1, <4>2
    <3>4. S.server => f.id <= S.lastPeerId
      BY <1>9, <2>3
    <3> QED
      BY <2>1, <3>2, <3>3, <3>4 DEF Reads
  <2> QED
    BY <2>2, <2>3
<1>10. f.id \in Open(S) => f.id <= Known(S)
  BY DEF GoodEnd, OfKnown
<1> DEFINE codes == {"closed", "protocol", "empty", "flow"}
<1>12. \/ R = Fail(S, "flow")
       \/ ~open /\ IsIdle(S, f.id) /\ R = Fail(T, "protocol")
       \/ ~open /\ ~IsIdle(S, f.id) /\ R = ClosedFrame(D, f.id)
       \/ open /\ \E c \in codes, forgive \in BOOLEAN : R = StreamFault(D, f.id, c, forgive)
       \/ open /\ R = V
  <2> DEFINE much == f.n > S.recvWin
             c1 == f.n <= S.recvWin /\ ~open
             c2 == f.n <= S.recvWin /\ open /\ Has(S, f.id, "REMOTE_END")
             c3 == f.n <= S.recvWin /\ open /\ ~Has(S, f.id, "REMOTE_END")
                   /\ ~S.server /\ ~Has(S, f.id, "HEAD_RECV")
             code == IF f.n = 0 THEN "empty" ELSE "flow"
             r1 == IF IsIdle(S, f.id) THEN Fail(T, "protocol") ELSE ClosedFrame(D, f.id)
             r2 == StreamFault(D, f.id, "closed", FALSE)
             r3 == StreamFault(D, f.id, "protocol", TRUE)
             r4 == IF f.n > S.streams[f.id].recv THEN StreamFault(D, f.id, code, TRUE) ELSE V
  <2>1. R = CASE much -> Fail(S, "flow") [] c1 -> r1 [] c2 -> r2 [] c3 -> r3 [] OTHER -> r4
    BY DEF OnData, T, D
  <2>2. /\ ~(much /\ c1) /\ ~(much /\ c2) /\ ~(much /\ c3)
        /\ ~(c1 /\ c2) /\ ~(c1 /\ c3) /\ ~(c2 /\ c3)
        /\ (~much => f.n <= S.recvWin) /\ (f.n <= S.recvWin => ~much)
        /\ (c2 => open) /\ (c3 => open) /\ (c1 => ~open)
        /\ (~much /\ ~c1 => open)
    BY <1>0, <1>1
  <2> DEFINE o == open
  <2> HIDE DEF R, much, c1, c2, c3, r1, r2, r3, r4, o
  <2>3. R \in {Fail(S, "flow"), r1, r2, r3, r4} /\ (R = Fail(S, "flow") \/ (R = r1 /\ ~open) \/ (open /\ R \in {r2, r3, r4}))
    BY <2>1, <2>2
  <2>4. code \in codes /\ "closed" \in codes /\ "protocol" \in codes
    OBVIOUS
  <2> HIDE DEF code, codes
  <2>5. r2 = StreamFault(D, f.id, "closed", FALSE) /\ r3 = StreamFault(D, f.id, "protocol", TRUE)
    BY DEF r2, r3
  <2>6. r4 \in {StreamFault(D, f.id, code, TRUE), V}
    BY DEF r4
  <2>7. r1 = IF IsIdle(S, f.id) THEN Fail(T, "protocol") ELSE ClosedFrame(D, f.id)
    BY DEF r1
  <2>8. CASE R = Fail(S, "flow")
    BY <2>8
  <2>9. CASE R = r1 /\ ~open
    BY <2>7, <2>9
  <2>10. CASE open /\ R \in {r2, r3, r4}
    <3>1. TRUE \in BOOLEAN /\ FALSE \in BOOLEAN
      OBVIOUS
    <3>2. CASE R = r2
      BY <2>4, <2>5, <2>10, <3>1, <3>2
    <3>3. CASE R = r3
      BY <2>4, <2>5, <2>10, <3>1, <3>3
    <3>4. CASE R = r4
      BY <2>4, <2>6, <2>10, <3>1, <3>4
    <3> QED
      BY <2>10, <3>2, <3>3, <3>4
  <2> QED
    BY <2>3, <2>8, <2>9, <2>10
<1> HIDE DEF R
<1>13. codes \subseteq Codes
  BY DEF Codes
<1>14. S.server => Known(S) = S.lastPeerId /\ (~IsIdle(S, f.id) => f.id <= S.lastPeerId)
  <2>1. S.lastPeerId \in Nat /\ f.id \in Nat
    <3>1. S.lastPeerId \in Nat
      BY <1>0, EndFields
    <3>2. f.id \in Nat
      BY <1>0 DEF Ids
    <3> QED
      BY <3>1, <3>2
  <2> QED
    BY <2>1 DEF Known, IsIdle
<1>15. CASE R = Fail(S, "flow")
  BY <1>13, <1>15, FailReads DEF R
<1>16. CASE ~open /\ IsIdle(S, f.id) /\ R = Fail(T, "protocol")
  <2>1. Keeps(T, R) /\ R.closed /\ Alike(T, R)
    BY <1>4, <1>13, <1>16, FailIs
  <2>2. f.id \notin Open(R)
    BY <1>2, <1>16, <2>1 DEF Alike, Open
  <2> QED
    BY <1>9, <2>1, <2>2 DEF R
<1>17. CASE ~open /\ ~IsIdle(S, f.id) /\ R = ClosedFrame(D, f.id)
  <2>1. Keeps(D, R) /\ f.id \notin Open(R)
    BY <1>0, <1>5, <1>17, ClosedFrameKeeps
  <2>2. Keeps(T, R)
    BY <1>5, <2>1, KeepsTrans
  <2> QED
    BY <1>9, <1>14, <1>17, <2>1, <2>2 DEF R
<1>18. ASSUME open, NEW c \in codes, NEW forgive \in BOOLEAN, R = StreamFault(D, f.id, c, forgive)
       PROVE  Reads(S, R, f)
  <2>1. Keeps(D, R) /\ f.id \notin Open(R)
    BY <1>0, <1>5, <1>13, <1>18, StreamFaultKeeps
  <2>2. Keeps(T, R)
    BY <1>5, <2>1, KeepsTrans
  <2>3. ~S.server \/ f.id <= S.lastPeerId
    BY <1>10, <1>14, <1>18
  <2> QED
    BY <1>9, <2>1, <2>2, <2>3
<1>19. CASE open /\ R = V
  <2> DEFINE s == [S.streams[f.id] EXCEPT !.recv = @ - f.n]
             ss == [S.streams EXCEPT ![f.id] = s]
  <2>1. /\ s \in StreamType /\ s.send = S.streams[f.id].send
        /\ s.recv = S.streams[f.id].recv - f.n
    BY <1>0, <1>1, <1>19 DEF StreamType
  <2>2. V = [T EXCEPT !.streams = ss]
    BY <1>2
  <2> HIDE DEF s, V
  <2>3. ss \in [Open(S) -> StreamType]
    BY <1>1, <1>19, <2>1
  <2>4. \A id \in Open(S) : ss[id] = IF id = f.id THEN s ELSE S.streams[id]
    BY <1>1
  <2> HIDE DEF ss
  <2>5. /\ IsEnd(V) /\ Open(V) = Open(S) /\ V.streams = ss
        /\ V.server = T.server /\ V.nextId = T.nextId /\ V.lastPeerId = T.lastPeerId
        /\ V.sendWin = T.sendWin /\ V.recvWin = T.recvWin
        /\ V.localWindow = T.localWindow /\ V.peerWindow = T.peerWindow
        /\ V.out = T.out /\ V.closed = T.closed
    <3>1. PICK d \in SUBSET Ids : d = Open(S)
      BY <1>1
    <3>2. ss \in [d -> StreamType] /\ IsEnd(T)
      BY <1>2, <2>3, <3>1
    <3> HIDE DEF open, codes
    <3> QED
      BY <2>2, <3>1, <3>2, OtherStreams
  <2>6. Known(V) = Known(S)
    BY <1>2, <2>5 DEF Known
  <2>7. GoodEnd(V)
    BY <1>2, <2>5, <2>6 DEF GoodEnd, OfKnown
  <2>8. ConnSends(V) = ConnSends(T) /\ ConnTakes(V) = ConnTakes(T)
    BY <2>5 DEF ConnSends, ConnTakes
  <2>9. ASSUME NEW id \in Open(S)
        PROVE  /\ Sends(V, id) = Sends(S, id) + Carries(f, "window", {id})
               /\ Takes(V, id) = Takes(S, id) - Carries(f, "data", {id})
    <3>1. V.out = S.out /\ V.peerWindow = S.peerWindow /\ V.localWindow = S.localWindow
      BY <1>2, <2>5
    <3>2. V.streams[id].send = S.streams[id].send
      BY <2>1, <2>4, <2>5
    <3>3. V.streams[id].recv = S.streams[id].recv - Carries(f, "data", {id})
      <4>1. CASE id = f.id
        BY <1>7, <2>1, <2>4, <2>5, <4>1
      <4>2. CASE id # f.id
        <5>1. S.streams[id].recv \in Int /\ Carries(f, "data", {id}) = 0
          BY <1>1, <1>7, <4>2
        <5>2. V.streams[id] = S.streams[id]
          BY <2>4, <2>5, <4>2
        <5> QED
          BY <5>1, <5>2
      <4> QED
        BY <4>1, <4>2
    <3>4. Sends(V, id) = Sends(S, id)
      BY <3>1, <3>2 DEF Sends
    <3>5. S.localWindow \in Int /\ Carried(S.out, "window", {id}) \in Int /\ S.streams[id].recv \in Int
          /\ Carries(f, "data", {id}) \in Int
      <4>1. S.localWindow \in Int /\ S.out \in Seq(FrameType) /\ S.streams[id].recv \in Int
        BY <1>0, EndFields
      <4>2. Carried(S.out, "window", {id}) \in Nat
        BY <4>1, CarriedIs
      <4>3. Carries(f, "data", {id}) \in Nat
        BY <1>0, <1>7
      <4> QED
        BY <4>1, <4>2, <4>3
    <3>6. Takes(V, id) = Takes(S, id) - Carries(f, "data", {id})
      BY <3>1, <3>3, <3>5 DEF Takes
    <3>7. Carries(f, "window", {id}) = 0 /\ Sends(S, id) \in Int
      BY <1>7, <1>8
    <3> QED
      BY <3>4, <3>6, <3>7
  <2>10. ConnSends(V) = ConnSends(S) + Carries(f, "window", {0})
         /\ ConnTakes(V) = ConnTakes(S) - Carries(f, "data", Ids)
    BY <1>6, <1>7, <1>8, <2>8
  <2>11. S.server => f.id <= S.lastPeerId
    BY <1>10, <1>14, <1>19
  <2>12. V.server = S.server /\ V.nextId = S.nextId /\ V.lastPeerId = S.lastPeerId
    BY <1>2, <2>5
  <2>13. Reads(S, V, f)
    BY <2>5, <2>7, <2>9, <2>10, <2>11, <2>12 DEF Reads
  <2> QED
    BY <1>19, <2>13 DEF R
<1> QED
  BY <1>12, <1>15, <1>16, <1>17, <1>18, <1>19 DEF R

LEMMA OnWindowReads ==
    ASSUME H2Assumption, NEW S, GoodEnd(S), ~S.closed, NEW f \in FrameType, f.t = "window"
    PROVE  Reads(S, OnWindow(S, f), f)
<1> DEFINE U == [S EXCEPT !.sendWin = @ + f.n, !.sweepWritable = TRUE]
           V == [S EXCEPT !.streams[f.id].send = @ + f.n, !.sweepWritable = TRUE]
           R == OnWindow(S, f)
<1>0. IsEnd(S) /\ f.id \in Ids \cup {0} /\ f.n \in Nat
  BY FrameTypes DEF GoodEnd
<1>1. /\ Open(S) \in SUBSET Ids /\ S.sendWin \in Int /\ S.peerWindow \in Int
      /\ S.out \in Seq(FrameType) /\ S.lastPeerId \in Nat
      /\ \A id \in Open(S) : S.streams[id] \in StreamType /\ S.streams[id].send \in Int
      /\ S.streams \in [Open(S) -> StreamType]
  BY <1>0, EndFields
<1>2. /\ "flow" \in Codes /\ "protocol" \in Codes
  BY DEF Codes
<1>3. /\ ConnSends(S) \in Int /\ ConnTakes(S) \in Int
      /\ \A id \in Open(S) : Sends(S, id) \in Int /\ Takes(S, id) \in Int
  BY <1>0, CountTypes
<1>4. \A ids : Carries(f, "data", ids) = 0
  BY DEF Carries
<1>5. \A kind \in {"data", "window"} : \A ids : Carried(S.out, kind, ids) \in Nat
  BY <1>1, CarriedIs
<1>6. \/ f.id = 0 /\ R \in {Fail(S, "flow"), U}
      \/ f.id # 0 /\ f.id \notin Open(S) /\ IsIdle(S, f.id) /\ R = Fail(S, "protocol")
      \/ f.id # 0 /\ f.id \notin Open(S) /\ ~IsIdle(S, f.id) /\ R = S
      \/ f.id # 0 /\ f.id \in Open(S) /\ R \in {StreamFault(S, f.id, "flow", TRUE), V}
  <2> DEFINE c1 == f.id = 0
             c2 == f.id # 0 /\ f.id \notin Open(S)
             r1 == IF S.sendWin + f.n > MaxWindow THEN Fail(S, "flow") ELSE U
             r2 == IF IsIdle(S, f.id) THEN Fail(S, "protocol") ELSE S
             r3 == IF S.streams[f.id].send + f.n > MaxWindow
                     THEN StreamFault(S, f.id, "flow", TRUE) ELSE V
  <2>1. R = CASE c1 -> r1 [] c2 -> r2 [] OTHER -> r3
    BY DEF OnWindow
  <2>2. r1 \in {Fail(S, "flow"), U} /\ r3 \in {StreamFault(S, f.id, "flow", TRUE), V}
    OBVIOUS
  <2> HIDE DEF R, r1, r3, U, V
  <2>3. CASE c1
    BY <2>1, <2>2, <2>3
  <2>4. CASE c2
    BY <2>1, <2>4
  <2>5. CASE ~c1 /\ ~c2
    BY <2>1, <2>2, <2>5
  <2> QED
    BY <2>3, <2>4, <2>5
<1> HIDE DEF R
<1>7. ASSUME NEW c \in Codes, R = Fail(S, c) PROVE Reads(S, R, f)
  BY <1>7, FailReads
<1>8. CASE f.id = 0 /\ R = U
  <2>1. S.sendWin + f.n \in Int
    <3> HIDE DEF U, V
    <3>1. S.sendWin \in Int /\ f.n \in Int
      BY <1>0, <1>1
    <3> QED
      BY <3>1
  <2>2. /\ IsEnd(U) /\ U.streams = S.streams /\ U.sendWin = S.sendWin + f.n
        /\ U.server = S.server /\ U.nextId = S.nextId /\ U.lastPeerId = S.lastPeerId
        /\ U.recvWin = S.recvWin /\ U.localWindow = S.localWindow /\ U.peerWindow = S.peerWindow
        /\ U.out = S.out /\ U.closed = S.closed
    <3> HIDE DEF FrameType, StreamType
    <3> QED
      BY <1>0, <2>1, ZenonT(60) DEF IsEnd, EndType, Open
  <2> HIDE DEF U
  <2>3. Known(U) = Known(S) /\ Open(U) = Open(S)
    BY <2>2 DEF Known, Open
  <2>4. GoodEnd(U)
    BY <2>2, <2>3 DEF GoodEnd, OfKnown
  <2>5. Carries(f, "window", {0}) = f.n
    BY <1>8 DEF Carries
  <2>6. \A id \in Open(S) : Carries(f, "window", {id}) = 0
    BY <1>1, <1>8 DEF Carries, Ids
  <2>7. ConnSends(U) = ConnSends(S) + Carries(f, "window", {0})
    <3>1. Carried(S.out, "data", Ids) \in Nat
      BY <1>5
    <3>2. U.sendWin = S.sendWin + f.n /\ U.out = S.out
      BY <2>2
    <3>3. S.sendWin \in Int /\ f.n \in Nat
      BY <1>0, <1>1
    <3> QED
      BY <2>5, <3>1, <3>2, <3>3 DEF ConnSends
  <2>8. ConnTakes(U) = ConnTakes(S) - Carries(f, "data", Ids)
    <3>1. ConnTakes(U) = ConnTakes(S)
      BY <2>2 DEF ConnTakes
    <3> QED
      BY <1>3, <1>4, <3>1
  <2>9. \A id \in Open(S) : /\ Sends(U, id) = Sends(S, id) + Carries(f, "window", {id})
                            /\ Takes(U, id) = Takes(S, id) - Carries(f, "data", {id})
    <3>1. \A id \in Open(S) : Sends(U, id) = Sends(S, id) /\ Takes(U, id) = Takes(S, id)
      BY <2>2 DEF Sends, Takes
    <3> QED
      BY <1>3, <1>4, <2>6, <3>1
  <2>10. f.id <= S.lastPeerId
    BY <1>1, <1>8
  <2>11. Reads(S, U, f)
    BY <2>2, <2>3, <2>4, <2>7, <2>8, <2>9, <2>10 DEF Reads
  <2> QED
    BY <1>8, <2>11 DEF R
<1>9. CASE f.id # 0 /\ f.id \notin Open(S) /\ ~IsIdle(S, f.id) /\ R = S
  <2>1. ~S.server \/ f.id <= S.lastPeerId
    <3>1. f.id \in Nat
      BY <1>0 DEF Ids
    <3>2. ~IsIdle(S, f.id) /\ f.id # 0 /\ S.lastPeerId \in Nat
      BY <1>1, <1>9
    <3> QED
      BY <3>1, <3>2 DEF IsIdle
  <2> QED
    BY <1>9, <2>1, KeepsItself, KeepsReads DEF R
<1>10. f.id # 0 /\ f.id \in Open(S) => ~S.server \/ f.id <= S.lastPeerId
  BY DEF GoodEnd, OfKnown, Known
<1>11. CASE f.id # 0 /\ f.id \in Open(S) /\ R = StreamFault(S, f.id, "flow", TRUE)
  <2>1. f.id \in Ids /\ TRUE \in BOOLEAN
    BY <1>0, <1>11
  <2>2. Keeps(S, R) /\ f.id \notin Open(R)
    BY <1>2, <1>11, <2>1, StreamFaultKeeps
  <2> QED
    BY <1>10, <1>11, <2>2, KeepsReads DEF R
<1>12. CASE f.id # 0 /\ f.id \in Open(S) /\ R = V
  <2> DEFINE s == [S.streams[f.id] EXCEPT !.send = @ + f.n]
             ss == [S.streams EXCEPT ![f.id] = s]
             T == [S EXCEPT !.streams = ss]
  <2>1. /\ s \in StreamType /\ s.recv = S.streams[f.id].recv
        /\ s.send = S.streams[f.id].send + f.n
    <3>1. S.streams[f.id] \in StreamType
      BY <1>1, <1>12
    <3> QED
      BY <1>0, <3>1 DEF StreamType
  <2>2. V = [T EXCEPT !.sweepWritable = TRUE]
    OBVIOUS
  <2> HIDE DEF s, V
  <2>3. ss \in [Open(S) -> StreamType]
    BY <1>1, <1>12, <2>1
  <2>4. \A id \in Open(S) : ss[id] = IF id = f.id THEN s ELSE S.streams[id]
    BY <1>1
  <2> HIDE DEF ss
  <2>5. /\ IsEnd(T) /\ Open(T) = Open(S) /\ T.streams = ss
        /\ T.server = S.server /\ T.nextId = S.nextId /\ T.lastPeerId = S.lastPeerId
        /\ T.sendWin = S.sendWin /\ T.recvWin = S.recvWin
        /\ T.localWindow = S.localWindow /\ T.peerWindow = S.peerWindow
        /\ T.out = S.out /\ T.closed = S.closed
    <3>1. PICK d \in SUBSET Ids : d = Open(S)
      BY <1>1
    <3>2. ss \in [d -> StreamType]
      BY <2>3, <3>1
    <3> QED
      BY <1>0, <3>1, <3>2, OtherStreams
  <2> HIDE DEF T
  <2>6. IsEnd(V) /\ Alike(T, V) /\ V.out = T.out /\ V.closed = T.closed
    <3> HIDE DEF FrameType, StreamType
    <3> QED
      BY <2>2, <2>5, ZenonT(60) DEF IsEnd, EndType, Open, Alike
  <2>7. Known(V) = Known(S) /\ Open(V) = Open(S)
    BY <2>5, <2>6 DEF Known, Open, Alike
  <2>8. /\ V.server = S.server /\ V.nextId = S.nextId /\ V.lastPeerId = S.lastPeerId
        /\ V.sendWin = S.sendWin /\ V.recvWin = S.recvWin
        /\ V.localWindow = S.localWindow /\ V.peerWindow = S.peerWindow
        /\ V.out = S.out /\ V.closed = S.closed /\ V.streams = ss
    BY <2>5, <2>6 DEF Alike
  <2>9. GoodEnd(V)
    BY <2>6, <2>7, <2>8 DEF GoodEnd, OfKnown
  <2>10. /\ Carries(f, "window", {0}) = 0
         /\ \A id : Carries(f, "window", {id}) = IF id = f.id THEN f.n ELSE 0
    BY <1>12 DEF Carries
  <2>11. ConnSends(V) = ConnSends(S) + Carries(f, "window", {0})
         /\ ConnTakes(V) = ConnTakes(S) - Carries(f, "data", Ids)
    <3>1. ConnSends(V) = ConnSends(S) /\ ConnTakes(V) = ConnTakes(S)
      BY <2>8 DEF ConnSends, ConnTakes
    <3> QED
      BY <1>3, <1>4, <2>10, <3>1
  <2>12. ASSUME NEW id \in Open(S)
         PROVE  /\ Sends(V, id) = Sends(S, id) + Carries(f, "window", {id})
                /\ Takes(V, id) = Takes(S, id) - Carries(f, "data", {id})
    <3>1. V.streams[id].recv = S.streams[id].recv
      BY <2>1, <2>4, <2>8
    <3>2. V.streams[id].send = S.streams[id].send + Carries(f, "window", {id})
      <4>1. CASE id = f.id
        BY <2>1, <2>4, <2>8, <2>10, <4>1
      <4>2. CASE id # f.id
        <5>1. S.streams[id].send \in Int /\ Carries(f, "window", {id}) = 0
          BY <1>1, <2>10, <4>2
        <5>2. V.streams[id] = S.streams[id]
          BY <2>4, <2>8, <4>2
        <5> QED
          BY <5>1, <5>2
      <4> QED
        BY <4>1, <4>2
    <3>3. Takes(V, id) = Takes(S, id)
      BY <2>8, <3>1 DEF Takes
    <3>4. /\ S.peerWindow \in Int /\ S.streams[id].send \in Int
          /\ Carried(S.out, "data", {id}) \in Nat /\ Carries(f, "window", {id}) \in Nat
      <4>1. Carries(f, "window", {id}) \in Nat
        BY <1>0, <2>10
      <4> QED
        BY <1>1, <1>5, <4>1
    <3>5. Sends(V, id) = Sends(S, id) + Carries(f, "window", {id})
      BY <2>8, <3>2, <3>4 DEF Sends
    <3> QED
      BY <1>3, <1>4, <3>3, <3>5
  <2>13. S.server => f.id <= S.lastPeerId
    BY <1>10, <1>12
  <2>14. Reads(S, V, f)
    BY <2>7, <2>8, <2>9, <2>11, <2>12, <2>13 DEF Reads
  <2> QED
    BY <1>12, <2>14 DEF R
<1>13. Reads(S, R, f)
  <2> HIDE DEF U, V
  <2> QED
    BY <1>2, <1>6, <1>7, <1>8, <1>9, <1>11, <1>12 DEF R
<1> QED
  BY <1>13 DEF R

LEMMA OnRstReads ==
    ASSUME H2Assumption, NEW S, GoodEnd(S), NEW f \in FrameType, f.t = "rst"
    PROVE  Reads(S, OnRst(S, f), f)
<1> DEFINE polite == ~S.server /\ f.code = "none" /\ Has(S, f.id, "REMOTE_END")
           P == RemoveStream(S, f.id, polite, "peer")
           Q == [P EXCEPT !.refused = @ \cup {f.id}]
           T == IF f.code = "refused" THEN Q ELSE P
           R == OnRst(S, f)
<1>0. f.id \in Ids /\ "protocol" \in Codes
  BY FrameTypes DEF Codes
<1>1. \/ R = Fail(S, "protocol")
      \/ R = S
      \/ f.id \in Open(S) /\ R \in {T, Debt(T)}
  BY DEF OnRst
<1>2. CASE f.id \in Open(S)
  <2>1. PICK p \in BOOLEAN : p = polite
    <3>1. polite \in BOOLEAN
      BY <1>2
    <3> QED
      BY <3>1
  <2>2. "peer" \in Endings
    BY DEF Endings
  <2>3. Keeps(S, P)
    BY <1>2, <2>1, <2>2, RemoveStreamKeeps
  <2> HIDE DEF P, polite
  <2>4. IsEnd(Q) /\ Alike(P, Q) /\ Q.out = P.out /\ Q.closed = P.closed
    <3>1. IsEnd(P)
      BY <2>3 DEF Keeps, GoodEnd
    <3> HIDE DEF FrameType, StreamType
    <3>2. P.refused \cup {f.id} \in SUBSET Ids
      BY <1>0, <3>1 DEF IsEnd, EndType
    <3> QED
      BY <3>1, <3>2, ZenonT(60) DEF IsEnd, EndType, Open, Alike
  <2> HIDE DEF Q
  <2>5. Keeps(P, Q)
    BY <2>3, <2>4, AlikeKeeps DEF Keeps
  <2>6. Keeps(S, T) /\ GoodEnd(T)
    BY <2>3, <2>5, KeepsTrans DEF Keeps
  <2> HIDE DEF T
  <2>7. Keeps(S, Debt(T))
    BY <2>6, DebtKeeps, KeepsTrans
  <2> HIDE DEF R
  <2>8. CASE R = Fail(S, "protocol")
    BY <1>0, <2>8, FailReads DEF R
  <2>9. CASE R = S \/ R \in {T, Debt(T)}
    BY <2>6, <2>7, <2>9, KeepsItself, KeepsReads DEF R
  <2> QED
    BY <1>1, <2>8, <2>9
<1>3. CASE f.id \notin Open(S)
  <2> HIDE DEF R
  <2>1. CASE R = Fail(S, "protocol")
    BY <1>0, <2>1, FailReads DEF R
  <2>2. CASE R = S
    BY <2>2, KeepsItself, KeepsReads DEF R
  <2> QED
    BY <1>1, <1>3, <2>1, <2>2
<1> QED
  BY <1>2, <1>3

LEMMA OnGoawayReads ==
    ASSUME NEW S, GoodEnd(S), NEW f \in FrameType, f.t = "goaway"
    PROVE  Reads(S, OnGoaway(S, f), f)
<1> DEFINE T == [S EXCEPT !.goawayLast = f.last, !.goawayRecv = TRUE, !.sweepGoaway = TRUE]
           R == OnGoaway(S, f)
<1>0. f.last \in Int /\ "protocol" \in Codes
  BY FrameTypes DEF Codes
<1>1. R \in {Fail(S, "protocol"), T}
  BY DEF OnGoaway
<1>2. IsEnd(T) /\ Alike(S, T) /\ T.out = S.out /\ T.closed = S.closed
  <2> HIDE DEF FrameType, StreamType
  <2> QED
    BY <1>0, ZenonT(60) DEF GoodEnd, IsEnd, EndType, Open, Alike
<1> HIDE DEF T
<1>3. Keeps(S, T)
  BY <1>2, AlikeKeeps
<1>4. Reads(S, T, f)
  BY <1>3, KeepsReads
<1>5. Reads(S, Fail(S, "protocol"), f)
  BY <1>0, FailReads
<1> QED
  BY <1>1, <1>4, <1>5

(* A request that is not the next one of those read so far.                *)
LEMMA LaterRequest ==
    ASSUME NEW S, GoodEnd(S), S.server, NEW f \in FrameType, f.t = "headers", f.id > S.lastPeerId
    PROVE  LET T == [S EXCEPT !.lastPeerId = f.id] IN
           /\ GoodEnd(T) /\ Open(T) = Open(S) /\ T.streams = S.streams /\ T.closed = S.closed
           /\ T.server /\ T.lastPeerId = f.id /\ T.nextId = S.nextId
           /\ T.out = S.out /\ T.sendWin = S.sendWin /\ T.recvWin = S.recvWin
           /\ T.localWindow = S.localWindow /\ T.peerWindow = S.peerWindow
           /\ \A R : Keeps(T, R) => Reads(S, R, f)
           /\ Carried(S.out, "data", {f.id}) = 0 /\ Carried(S.out, "window", {f.id}) = 0
<1> DEFINE T == [S EXCEPT !.lastPeerId = f.id]
<1>0. IsEnd(S) /\ f.id \in Ids /\ f.id \in Nat
  BY FrameTypes DEF GoodEnd, Ids
<1>1. S.lastPeerId \in Nat /\ S.out \in Seq(FrameType) /\ Open(S) \subseteq Ids
  BY <1>0, EndFields
<1>2. /\ IsEnd(T) /\ Open(T) = Open(S) /\ T.streams = S.streams /\ T.closed = S.closed
      /\ T.server = S.server /\ T.lastPeerId = f.id /\ T.nextId = S.nextId
      /\ T.out = S.out /\ T.sendWin = S.sendWin /\ T.recvWin = S.recvWin
      /\ T.localWindow = S.localWindow /\ T.peerWindow = S.peerWindow
  <2> HIDE DEF FrameType, StreamType
  <2> QED
    BY <1>0, ZenonT(60) DEF IsEnd, EndType, Open
<1> HIDE DEF T
<1>3. Known(S) = S.lastPeerId /\ Known(T) = f.id
  BY <1>2 DEF Known
<1>4. OfKnown(T)
  <2>1. \A id \in Open(S) : id <= S.lastPeerId /\ id \in Nat
    BY <1>1, <1>3 DEF GoodEnd, OfKnown, Ids
  <2>2. ASSUME NEW i \in DOMAIN S.out, S.out[i].t \in {"headers", "data", "window"}
        PROVE  S.out[i].id <= f.id
    <3>1. S.out[i] \in FrameType
      BY <1>1
    <3>2. S.out[i].id <= S.lastPeerId
      BY <1>3, <2>2 DEF GoodEnd, OfKnown
    <3>3. S.out[i].id \in Nat
      BY <2>2, <3>1, FrameTypes DEF Ids
    <3> QED
      BY <1>0, <1>1, <3>2, <3>3
  <2>3. \A id \in Open(T) : id <= f.id
    BY <1>0, <1>1, <1>2, <2>1
  <2> QED
    BY <1>2, <1>3, <2>2, <2>3 DEF OfKnown
<1>5. GoodEnd(T)
  BY <1>0, <1>2, <1>3, <1>4 DEF GoodEnd
<1>6. /\ ConnSends(S) \in Int /\ ConnTakes(S) \in Int
      /\ \A id \in Open(S) : Sends(S, id) \in Int /\ Takes(S, id) \in Int
  BY <1>0, CountTypes
<1>7. ConnSends(T) = ConnSends(S) /\ ConnTakes(T) = ConnTakes(S)
  BY <1>2 DEF ConnSends, ConnTakes
<1>8. \A id \in Open(S) : Sends(T, id) = Sends(S, id) /\ Takes(T, id) = Takes(S, id)
  BY <1>2 DEF Sends, Takes
<1>9. \A ids : Carries(f, "data", ids) = 0 /\ Carries(f, "window", ids) = 0
  BY DEF Carries
<1>10. ASSUME NEW R, Keeps(T, R) PROVE Reads(S, R, f)
  <2>1. GoodEnd(R) /\ R.server = S.server /\ R.nextId = S.nextId /\ R.lastPeerId = f.id
        /\ Open(R) \subseteq Open(S)
    BY <1>2, <1>10 DEF Keeps
  <2>2. CASE R.closed
    BY <2>1, <2>2 DEF Reads
  <2>3. CASE ~R.closed
    <3>1. /\ ~S.closed /\ ConnSends(R) = ConnSends(T) /\ ConnTakes(R) = ConnTakes(T)
          /\ \A id \in Open(R) : Sends(R, id) = Sends(T, id) /\ Takes(R, id) = Takes(T, id)
      BY <1>2, <1>10, <2>3 DEF Keeps
    <3>2. ConnSends(R) = ConnSends(S) + Carries(f, "window", {0})
          /\ ConnTakes(R) = ConnTakes(S) - Carries(f, "data", Ids)
      BY <1>6, <1>7, <1>9, <3>1
    <3>3. \A id \in Open(R) : /\ id \in Open(S)
                              /\ Sends(R, id) = Sends(S, id) + Carries(f, "window", {id})
                              /\ Takes(R, id) = Takes(S, id) - Carries(f, "data", {id})
      BY <1>6, <1>8, <1>9, <2>1, <3>1
    <3> QED
      BY <2>1, <3>1, <3>2, <3>3 DEF Reads
  <2> QED
    BY <2>2, <2>3
<1>11. ASSUME NEW kind \in {"data", "window"} PROVE Carried(S.out, kind, {f.id}) = 0
  <2>1. ASSUME NEW i \in DOMAIN S.out, S.out[i].t = kind PROVE S.out[i].id \notin {f.id}
    <3>1. S.out[i].id <= S.lastPeerId
      BY <1>3, <2>1 DEF GoodEnd, OfKnown
    <3> QED
      BY <1>0, <1>1, <3>1
  <2> QED
    BY <1>1, <2>1, CarriedNone
<1> QED
  BY <1>2, <1>5, <1>10, <1>11 DEF T

LEMMA ServerBlockReads ==
    ASSUME H2Assumption, NEW S, GoodEnd(S), ~S.closed, S.server,
           NEW f \in FrameType, f.t = "headers"
    PROVE  Reads(S, ServerBlock(S, f), f)
<1> DEFINE T == [S EXCEPT !.lastPeerId = f.id]
           Q == Answer(T, Rst(f.id, "refused"))
           F == StreamFault(T, f.id, "refused", ~f.fin)
           G == [F EXCEPT !.overLimit = @ \cup {f.id}]
           s == NewStream(T, f.tunnel)
           n == [s EXCEPT !.flags = @ \cup (IF f.fin THEN {"REMOTE_END"} ELSE {})]
           ss == [i \in Open(T) \cup {f.id} |-> IF i = f.id THEN n ELSE T.streams[i]]
           V == [T EXCEPT !.streams = ss, !.lastActed = f.id, !.acted = @ \cup {f.id}]
           R == ServerBlock(S, f)
<1>0. IsEnd(S) /\ f.id \in Ids /\ f.fin \in BOOLEAN /\ f.tunnel \in BOOLEAN
  BY FrameTypes DEF GoodEnd
<1>1. S.lastPeerId \in Nat /\ f.id \in Nat
  <2>1. S.lastPeerId \in Nat
    BY <1>0, EndFields
  <2> QED
    BY <1>0, <2>1 DEF Ids
<1>2. /\ {"refused", "closed", "protocol"} \subseteq Codes /\ "ours" \in Endings
  BY DEF Codes, Endings
<1>3. \/ f.id \in Open(S) /\ R \in {StreamFault(S, f.id, "closed", FALSE),
                                    StreamFault(S, f.id, "protocol", TRUE), RemoteEnd(S, f.id)}
      \/ f.id \notin Open(S) /\ R = ClosedFrame(S, f.id)
      \/ f.id > S.lastPeerId /\ R \in {Q, RingAdd(Q, f.id, "ours"), G, V}
  <2> DEFINE c1 == f.id \in Open(S)
             c2 == f.id \notin Open(S) /\ f.id <= S.lastPeerId
             c3 == f.id > S.lastPeerId /\ S.goawaySent
             c4 == f.id > S.lastPeerId /\ ~S.goawaySent
                   /\ Cardinality(Open(S)) >= StreamLimit(S)
             r1 == IF Has(S, f.id, "REMOTE_END") THEN StreamFault(S, f.id, "closed", FALSE)
                   ELSE IF ~f.fin THEN StreamFault(S, f.id, "protocol", TRUE)
                   ELSE RemoteEnd(S, f.id)
             r2 == ClosedFrame(S, f.id)
             r3 == IF f.fin THEN Q ELSE RingAdd(Q, f.id, "ours")
  <2>1. R = CASE c1 -> r1 [] c2 -> r2 [] c3 -> r3 [] c4 -> G [] OTHER -> V
    BY DEF ServerBlock
  <2>2. r1 \in {StreamFault(S, f.id, "closed", FALSE),
                StreamFault(S, f.id, "protocol", TRUE), RemoteEnd(S, f.id)}
    OBVIOUS
  <2>3. r3 \in {Q, RingAdd(Q, f.id, "ours")}
    OBVIOUS
  <2>4. c1 => f.id <= S.lastPeerId
    BY DEF GoodEnd, OfKnown, Known
  <2>5. ~(c1 /\ c2) /\ ~(c1 /\ c3) /\ ~(c1 /\ c4) /\ ~(c2 /\ c3) /\ ~(c2 /\ c4) /\ ~(c3 /\ c4)
        /\ (~c1 /\ ~c2 => f.id > S.lastPeerId)
    BY <1>1, <2>4
  <2> DEFINE o == f.id \in Open(S)
             p == f.id > S.lastPeerId
  <2>6. c1 => o
    OBVIOUS
  <2>7. c2 => ~o
    OBVIOUS
  <2>8. ~c1 /\ ~c2 => p
    BY <2>5
  <2> HIDE DEF R, c1, c2, c3, c4, r1, r2, r3, Q, G, V, o, p
  <2>9. \/ o /\ R = r1
        \/ ~o /\ R = r2
        \/ p /\ R \in {r3, G, V}
    <3>1. CASE c1
      BY <2>1, <2>5, <2>6, <3>1
    <3>2. CASE c2
      BY <2>1, <2>5, <2>7, <3>2
    <3>3. CASE ~c1 /\ ~c2
      BY <2>1, <2>5, <2>8, <3>3
    <3> QED
      BY <3>1, <3>2, <3>3
  <2>10. r2 = ClosedFrame(S, f.id)
    BY DEF r2
  <2>11. (o <=> f.id \in Open(S)) /\ (p <=> f.id > S.lastPeerId)
    BY DEF o, p
  <2> QED
    BY <2>2, <2>3, <2>9, <2>10, <2>11
<1> HIDE DEF R
<1>4. CASE f.id \in Open(S) /\ R \in {StreamFault(S, f.id, "closed", FALSE),
                                      StreamFault(S, f.id, "protocol", TRUE), RemoteEnd(S, f.id)}
  <2>1. Keeps(S, StreamFault(S, f.id, "closed", FALSE))
    BY <1>0, <1>2, StreamFaultKeeps
  <2>2. Keeps(S, StreamFault(S, f.id, "protocol", TRUE))
    BY <1>0, <1>2, StreamFaultKeeps
  <2>3. Keeps(S, RemoteEnd(S, f.id))
    BY <1>4, RemoteEndKeeps
  <2>4. Keeps(S, R)
    BY <1>4, <2>1, <2>2, <2>3
  <2> QED
    BY <2>4, KeepsReads DEF R
<1>5. CASE f.id \notin Open(S) /\ R = ClosedFrame(S, f.id)
  <2>1. Keeps(S, R)
    BY <1>0, <1>5, ClosedFrameKeeps
  <2> QED
    BY <2>1, KeepsReads DEF R
<1>6. CASE f.id > S.lastPeerId /\ R \in {Q, RingAdd(Q, f.id, "ours"), G, V}
  <2>1. /\ GoodEnd(T) /\ Open(T) = Open(S) /\ T.streams = S.streams /\ T.closed = S.closed
        /\ T.server /\ T.lastPeerId = f.id /\ T.nextId = S.nextId
        /\ T.out = S.out /\ T.sendWin = S.sendWin /\ T.recvWin = S.recvWin
        /\ T.localWindow = S.localWindow /\ T.peerWindow = S.peerWindow
        /\ \A U : Keeps(T, U) => Reads(S, U, f)
        /\ Carried(S.out, "data", {f.id}) = 0 /\ Carried(S.out, "window", {f.id}) = 0
    BY <1>6, LaterRequest
  <2> HIDE DEF T
  <2>2. Keeps(T, Q) /\ GoodEnd(Q)
    <3>1. PICK g : g = Rst(f.id, "refused")
      OBVIOUS
    <3>2. Due(T, g) /\ g.t = "rst"
      BY <1>0, <1>2, <3>1, RstIs
    <3>3. Says(T, Q, g)
      BY <2>1, <3>1, <3>2, AnswerIs
    <3> QED
      <4>1. Keeps(T, Q)
        BY <2>1, <3>2, <3>3, SaysNothing
      <4> QED
        BY <4>1 DEF Keeps
  <2> HIDE DEF Q
  <2>3. Keeps(T, RingAdd(Q, f.id, "ours"))
    <3>1. Keeps(Q, RingAdd(Q, f.id, "ours"))
      BY <1>0, <1>2, <2>2, RingAddKeeps
    <3> QED
      BY <2>2, <3>1, KeepsTrans
  <2>4. Keeps(T, G)
    <3>1. PICK b \in BOOLEAN : b = ~f.fin
      BY <1>0
    <3>2. Keeps(T, F) /\ IsEnd(F) /\ GoodEnd(F)
      <4>1. "refused" \in Codes
        BY <1>2
      <4>2. Keeps(T, StreamFault(T, f.id, "refused", b))
        BY <1>0, <2>1, <4>1, StreamFaultKeeps
      <4>3. F = StreamFault(T, f.id, "refused", b)
        BY <3>1
      <4> HIDE DEF F
      <4> QED
        BY <4>2, <4>3 DEF Keeps, GoodEnd
    <3> HIDE DEF F
    <3>3. IsEnd(G) /\ Alike(F, G) /\ G.out = F.out /\ G.closed = F.closed
      <4> HIDE DEF FrameType, StreamType
      <4>1. F.overLimit \cup {f.id} \in SUBSET Ids
        BY <1>0, <3>2 DEF IsEnd, EndType
      <4> QED
        BY <3>2, <4>1, ZenonT(60) DEF IsEnd, EndType, Open, Alike
    <3> HIDE DEF G
    <3>4. Keeps(F, G)
      BY <3>2, <3>3, AlikeKeeps
    <3> QED
      BY <3>2, <3>4, KeepsTrans
  <2>5. Reads(S, V, f)
    <3> DEFINE U == [T EXCEPT !.streams = ss]
               A == Open(S) \cup {f.id}
    <3>0. IsEnd(T)
      BY <2>1 DEF GoodEnd
    <3>1. /\ T.peerWindow \in Int /\ T.localWindow \in Int
          /\ Open(S) \subseteq Ids /\ S.streams \in [Open(S) -> StreamType]
          /\ S.out \in Seq(FrameType)
      BY <1>0, <3>0, EndFields
    <3>2. n \in StreamType /\ n.send = T.peerWindow /\ n.recv = T.localWindow
      <4>1. s = [send |-> T.peerWindow, recv |-> T.localWindow, unacked |-> 0, held |-> 0,
                 win |-> 0, flags |-> IF f.tunnel THEN {"TUNNEL"} ELSE {}]
        BY DEF NewStream
      <4> HIDE DEF s
      <4>2. s \in StreamType /\ s.send = T.peerWindow /\ s.recv = T.localWindow
        BY <3>1, <4>1 DEF StreamType, StreamFlags
      <4>3. (IF f.fin THEN {"REMOTE_END"} ELSE {}) \subseteq StreamFlags
        BY DEF StreamFlags
      <4> HIDE DEF StreamFlags
      <4> QED
        BY <4>2, <4>3 DEF StreamType
    <3> HIDE DEF n
    <3>3. A \in SUBSET Ids /\ ss \in [A -> StreamType]
      BY <1>0, <2>1, <3>1, <3>2
    <3>4. \A id \in A : ss[id] = IF id = f.id THEN n ELSE S.streams[id]
      BY <2>1
    <3>5. V = [U EXCEPT !.lastActed = f.id, !.acted = U.acted \cup {f.id}]
      <4> HIDE DEF ss, FrameType, StreamType
      <4>1. U.acted = T.acted
        BY <3>0 DEF IsEnd, EndType
      <4>2. V = [U EXCEPT !.lastActed = f.id, !.acted = T.acted \cup {f.id}]
        BY <3>0 DEF IsEnd, EndType
      <4> QED
        BY <4>1, <4>2
    <3> HIDE DEF ss, A
    <3>6. /\ IsEnd(U) /\ Open(U) = A /\ U.streams = ss
          /\ U.server = T.server /\ U.nextId = T.nextId /\ U.lastPeerId = T.lastPeerId
          /\ U.sendWin = T.sendWin /\ U.recvWin = T.recvWin
          /\ U.localWindow = T.localWindow /\ U.peerWindow = T.peerWindow
          /\ U.out = T.out /\ U.closed = T.closed
      BY <3>0, <3>3, OtherStreams
    <3> HIDE DEF U, V
    <3>7. IsEnd(V) /\ Alike(U, V) /\ V.out = U.out /\ V.closed = U.closed
      <4> HIDE DEF FrameType, StreamType
      <4>1. U.acted \cup {f.id} \in SUBSET Ids
        BY <1>0, <3>6 DEF IsEnd, EndType
      <4> QED
        BY <1>1, <3>5, <3>6, <4>1, ZenonT(60) DEF IsEnd, EndType, Open, Alike
    <3>8. Known(V) = f.id /\ Open(V) = A /\ Known(T) = f.id
      BY <2>1, <3>6, <3>7 DEF Known, Open, Alike
    <3>9. /\ V.server = S.server /\ V.nextId = S.nextId /\ V.lastPeerId = f.id
          /\ V.sendWin = S.sendWin /\ V.recvWin = S.recvWin
          /\ V.localWindow = S.localWindow /\ V.peerWindow = S.peerWindow
          /\ V.out = S.out /\ V.closed = S.closed /\ V.streams = ss
      BY <2>1, <3>6, <3>7 DEF Alike
    <3>10. GoodEnd(V)
      <4>1. \A id \in A : id <= f.id
        BY <1>1, <2>1, <3>8 DEF GoodEnd, OfKnown, A
      <4>2. OfKnown(V)
        BY <2>1, <3>8, <3>9, <4>1 DEF GoodEnd, OfKnown
      <4> QED
        BY <1>1, <3>7, <3>8, <4>2 DEF GoodEnd
    <3>11. \A ids : Carries(f, "data", ids) = 0 /\ Carries(f, "window", ids) = 0
      BY DEF Carries
    <3>12. /\ ConnSends(S) \in Int /\ ConnTakes(S) \in Int
           /\ \A id \in Open(S) : Sends(S, id) \in Int /\ Takes(S, id) \in Int
      BY <1>0, CountTypes
    <3>13. ConnSends(V) = ConnSends(S) + Carries(f, "window", {0})
           /\ ConnTakes(V) = ConnTakes(S) - Carries(f, "data", Ids)
      <4>1. ConnSends(V) = ConnSends(S) /\ ConnTakes(V) = ConnTakes(S)
        BY <3>9 DEF ConnSends, ConnTakes
      <4> QED
        BY <3>11, <3>12, <4>1
    <3>14. ASSUME NEW id \in Open(S), id # f.id
           PROVE  /\ Sends(V, id) = Sends(S, id) + Carries(f, "window", {id})
                  /\ Takes(V, id) = Takes(S, id) - Carries(f, "data", {id})
      <4>1. V.streams[id] = S.streams[id]
        BY <3>4, <3>9, <3>14 DEF A
      <4>2. Sends(V, id) = Sends(S, id) /\ Takes(V, id) = Takes(S, id)
        BY <3>9, <4>1 DEF Sends, Takes
      <4> QED
        BY <3>11, <3>12, <4>2
    <3>15. Sends(V, f.id) = 0 /\ Takes(V, f.id) = 0
      <4>1. V.streams[f.id].send = V.peerWindow /\ V.streams[f.id].recv = V.localWindow
        BY <2>1, <3>2, <3>4, <3>9 DEF A
      <4>2. V.peerWindow \in Int /\ V.localWindow \in Int
        BY <2>1, <3>1, <3>9
      <4>3. Carried(V.out, "data", {f.id}) = 0 /\ Carried(V.out, "window", {f.id}) = 0
        BY <2>1, <3>9
      <4>4. Sends(V, f.id) = 0
        BY <4>1, <4>2, <4>3 DEF Sends
      <4>5. Takes(V, f.id) = 0
        BY <4>1, <4>2, <4>3 DEF Takes
      <4> QED
        BY <4>4, <4>5
    <3>16. \A id \in Open(V) : id = f.id \/ (id \in Open(S) /\ id # f.id)
      BY <3>8 DEF A
    <3> QED
      BY <1>6, <3>9, <3>10, <3>13, <3>14, <3>15, <3>16 DEF Reads
  <2> HIDE DEF G, V
  <2>6. Reads(S, R, f)
    BY <1>6, <2>1, <2>2, <2>3, <2>4, <2>5
  <2> QED
    BY <2>6 DEF R
<1> QED
  BY <1>3, <1>4, <1>5, <1>6

LEMMA ClientBlockReads ==
    ASSUME H2Assumption, NEW S, GoodEnd(S), NEW f \in FrameType, f.t = "headers"
    PROVE  Reads(S, ClientBlock(S, f), f)
<1> DEFINE T == Flag(S, f.id, {"HEAD_RECV"})
           R == ClientBlock(S, f)
<1>0. f.id \in Ids /\ {"protocol", "closed"} \subseteq Codes /\ {"HEAD_RECV"} \in SUBSET StreamFlags
  BY FrameTypes DEF Codes, StreamFlags
<1>1. \/ f.id \notin Open(S) /\ R \in {ClosedFrame(S, f.id), Fail(S, "protocol")}
      \/ f.id \in Open(S) /\ R \in {StreamFault(S, f.id, "closed", FALSE), RemoteEnd(T, f.id), T,
                                    RemoteEnd(S, f.id), StreamFault(S, f.id, "protocol", TRUE)}
  <2> DEFINE o == f.id \in Open(S)
             c2 == f.id \in Open(S) /\ Has(S, f.id, "REMOTE_END")
             c3 == f.id \in Open(S) /\ ~Has(S, f.id, "REMOTE_END") /\ ~Has(S, f.id, "HEAD_RECV")
             r1 == IF f.id < S.nextId THEN ClosedFrame(S, f.id) ELSE Fail(S, "protocol")
             r2 == StreamFault(S, f.id, "closed", FALSE)
             r3 == IF f.fin THEN RemoteEnd(T, f.id) ELSE T
             r4 == IF f.fin THEN RemoteEnd(S, f.id) ELSE StreamFault(S, f.id, "protocol", TRUE)
  <2>1. R = CASE ~o -> r1 [] c2 -> r2 [] c3 -> r3 [] OTHER -> r4
    BY DEF ClientBlock
  <2>2. (c2 => o) /\ (c3 => o) /\ ~(c2 /\ c3)
    OBVIOUS
  <2>3. r1 \in {ClosedFrame(S, f.id), Fail(S, "protocol")}
    OBVIOUS
  <2>4. r3 \in {RemoteEnd(T, f.id), T}
    OBVIOUS
  <2>5. r4 \in {RemoteEnd(S, f.id), StreamFault(S, f.id, "protocol", TRUE)}
    OBVIOUS
  <2>6. r2 = StreamFault(S, f.id, "closed", FALSE) /\ (o <=> f.id \in Open(S))
    OBVIOUS
  <2> HIDE DEF R, T, o, c2, c3, r1, r2, r3, r4
  <2>7. (~o /\ R = r1) \/ (o /\ R \in {r2, r3, r4})
    BY <2>1, <2>2
  <2> QED
    BY <2>3, <2>4, <2>5, <2>6, <2>7
<1> HIDE DEF R
<1>2. CASE f.id \notin Open(S) /\ R \in {ClosedFrame(S, f.id), Fail(S, "protocol")}
  <2>1. Keeps(S, ClosedFrame(S, f.id)) /\ Keeps(S, Fail(S, "protocol"))
    BY <1>0, <1>2, ClosedFrameKeeps, FailIs
  <2>2. Keeps(S, R)
    BY <1>2, <2>1
  <2> QED
    BY <2>2, KeepsReads DEF R
<1>3. CASE f.id \in Open(S) /\ R \in {StreamFault(S, f.id, "closed", FALSE), RemoteEnd(T, f.id), T,
                                      RemoteEnd(S, f.id), StreamFault(S, f.id, "protocol", TRUE)}
  <2>1. Keeps(S, StreamFault(S, f.id, "closed", FALSE))
    BY <1>0, StreamFaultKeeps
  <2>2. Keeps(S, StreamFault(S, f.id, "protocol", TRUE))
    BY <1>0, StreamFaultKeeps
  <2>3. Keeps(S, RemoteEnd(S, f.id))
    BY <1>3, RemoteEndKeeps
  <2>4. Keeps(S, T) /\ Open(T) = Open(S) /\ GoodEnd(T)
    BY <1>0, <1>3, FlagKeeps DEF Keeps
  <2> HIDE DEF T
  <2>5. Keeps(S, RemoteEnd(T, f.id))
    <3>1. Keeps(T, RemoteEnd(T, f.id))
      BY <1>3, <2>4, RemoteEndKeeps
    <3> QED
      BY <2>4, <3>1, KeepsTrans
  <2>6. Keeps(S, R)
    BY <1>3, <2>1, <2>2, <2>3, <2>4, <2>5
  <2> QED
    BY <2>6, KeepsReads DEF R
<1> QED
  BY <1>1, <1>2, <1>3

LEMMA OnFrameReads ==
    ASSUME H2Assumption, NEW S, GoodEnd(S), ~S.closed, NEW f \in FrameType
    PROVE  Reads(S, OnFrame(S, f), f)
<1>1. f.t \in {"settings", "ack", "headers", "data", "window", "rst", "goaway", "ping", "pong"}
  BY FrameTypes
<1>2. CASE f.t = "settings"
  <2>1. OnFrame(S, f) = OnSettings(S, f)
    BY <1>2 DEF OnFrame
  <2> QED
    BY <1>2, <2>1, OnSettingsReads
<1>3. CASE f.t = "ack"
  <2>1. OnFrame(S, f) = OnAck(S)
    BY <1>3 DEF OnFrame
  <2> QED
    BY <1>3, <2>1, OnAckKeeps, KeepsReads
<1>4. CASE f.t = "headers"
  <2>1. OnFrame(S, f) = IF S.server THEN ServerBlock(S, f) ELSE ClientBlock(S, f)
    BY <1>4 DEF OnFrame
  <2>2. S.server => Reads(S, ServerBlock(S, f), f)
    BY <1>4, ServerBlockReads
  <2>3. Reads(S, ClientBlock(S, f), f)
    BY <1>4, ClientBlockReads
  <2> QED
    BY <2>1, <2>2, <2>3
<1>5. CASE f.t = "data"
  <2>1. OnFrame(S, f) = OnData(S, f)
    BY <1>5 DEF OnFrame
  <2> QED
    BY <1>5, <2>1, OnDataReads
<1>6. CASE f.t = "window"
  <2>1. OnFrame(S, f) = OnWindow(S, f)
    BY <1>6 DEF OnFrame
  <2> QED
    BY <1>6, <2>1, OnWindowReads
<1>7. CASE f.t = "rst"
  <2>1. OnFrame(S, f) = OnRst(S, f)
    BY <1>7 DEF OnFrame
  <2> QED
    BY <1>7, <2>1, OnRstReads
<1>8. CASE f.t = "goaway"
  <2>1. OnFrame(S, f) = OnGoaway(S, f)
    BY <1>8 DEF OnFrame
  <2> QED
    BY <1>8, <2>1, OnGoawayReads
<1>9. CASE f.t = "ping"
  <2>1. OnFrame(S, f) = Answer(S, Pong)
    BY <1>9 DEF OnFrame
  <2>2. Due(S, Pong) /\ Pong.t = "pong"
    BY DEF Due, Pong, FrameType
  <2>3. Keeps(S, Answer(S, Pong))
    BY <2>2, AnswerIs, SaysNothing
  <2> QED
    BY <1>9, <2>1, <2>3, KeepsReads
<1>10. CASE f.t = "pong"
  <2>1. OnFrame(S, f) = S
    BY <1>10 DEF OnFrame
  <2> QED
    BY <1>10, <2>1, KeepsItself, KeepsReads
<1> QED
  BY <1>1, <1>2, <1>3, <1>4, <1>5, <1>6, <1>7, <1>8, <1>9, <1>10

LEMMA SweptKeeps ==
    ASSUME NEW S, GoodEnd(S)
    PROVE  /\ Keeps(S, Swept(S)) /\ GoodEnd(Swept(S)) /\ Swept(S).closed = S.closed
           /\ Alike(S, Swept(S)) /\ Swept(S).rd = S.rd /\ Swept(S).out = S.out
<1> DEFINE T == [S EXCEPT !.sweepGoaway = FALSE, !.sweepWritable = FALSE]
<1>1. IsEnd(T) /\ Alike(S, T) /\ T.out = S.out /\ T.closed = S.closed /\ T.rd = S.rd
  <2> HIDE DEF FrameType, StreamType
  <2> QED
    BY ZenonT(60) DEF GoodEnd, IsEnd, EndType, Open, Alike
<1>2. T = Swept(S)
  BY DEF Swept
<1> HIDE DEF T
<1>3. Keeps(S, T)
  BY <1>1, AlikeKeeps
<1> QED
  BY <1>1, <1>2, <1>3 DEF Keeps

LEMMA FrameReads ==
    ASSUME H2Assumption, NEW S, GoodEnd(S), ~S.closed, NEW f \in FrameType
    PROVE  Reads(S, OnFrame(Swept(S), f), f)
<1>1. PICK T : T = Swept(S)
  OBVIOUS
<1>2. /\ GoodEnd(T) /\ ~T.closed /\ Alike(S, T) /\ T.out = S.out
  BY <1>1, SweptKeeps
<1>3. PICK R : R = OnFrame(T, f)
  OBVIOUS
<1>4. Reads(T, R, f)
  BY <1>2, <1>3, OnFrameReads
<1>5. /\ T.server = S.server /\ T.nextId = S.nextId /\ T.lastPeerId = S.lastPeerId
      /\ Open(T) = Open(S) /\ T.closed = S.closed
  BY <1>1, <1>2, SweptKeeps DEF Alike, Open
<1>6. ConnSends(T) = ConnSends(S) /\ ConnTakes(T) = ConnTakes(S)
  BY <1>2 DEF Alike, ConnSends, ConnTakes
<1>7. \A id : Sends(T, id) = Sends(S, id) /\ Takes(T, id) = Takes(S, id)
  BY <1>2 DEF Alike, Sends, Takes
<1>8. Reads(S, R, f)
  BY <1>4, <1>5, <1>6, <1>7 DEF Reads
<1> QED
  BY <1>1, <1>3, <1>8

LEMMA OnPieceKeeps ==
    ASSUME H2Assumption, NEW S, GoodEnd(S), NEW n \in Nat, n <= S.rd.left
    PROVE  Keeps(S, OnPiece(S, n))
<1> DEFINE id == S.rd.id
           left == S.rd.left - n
           rd == IF left = 0 THEN NoData ELSE [S.rd EXCEPT !.left = left]
           T == [S EXCEPT !.rd = rd]
           H == [T EXCEPT !.streams[id].held = @ + n]
           R == OnPiece(S, n)
<1>1. S.rd \in [id : Ids \cup {0}, left : Nat, fin : BOOLEAN, drop : BOOLEAN]
  <2> HIDE DEF FrameType, StreamType
  <2> QED
    BY DEF GoodEnd, IsEnd, EndType
<1>2. left \in Nat
  BY <1>1
<1>3. rd \in [id : Ids \cup {0}, left : Nat, fin : BOOLEAN, drop : BOOLEAN]
  <2> HIDE DEF left
  <2> QED
    BY <1>1, <1>2 DEF NoData
<1>4. R \in {ConnCredit(T, n), RemoteEnd(H, id), H} /\ (R # ConnCredit(T, n) => id \in Open(S))
  BY DEF OnPiece
<1> HIDE DEF R, rd
<1>5. IsEnd(T) /\ Alike(S, T) /\ T.out = S.out /\ T.closed = S.closed
  <2> HIDE DEF FrameType, StreamType
  <2> QED
    BY <1>3, ZenonT(60) DEF GoodEnd, IsEnd, EndType, Open, Alike
<1> HIDE DEF T
<1>6. Keeps(S, T) /\ GoodEnd(T) /\ Open(T) = Open(S)
  BY <1>5, AlikeKeeps DEF Keeps, Alike, Open
<1>7. CASE R = ConnCredit(T, n)
  <2>1. Keeps(T, R)
    BY <1>6, <1>7, ConnCreditKeeps
  <2> QED
    BY <1>6, <2>1, KeepsTrans DEF R
<1>8. CASE id \in Open(S) /\ R \in {RemoteEnd(H, id), H}
  <2> DEFINE s == [T.streams[id] EXCEPT !.held = @ + n]
  <2>1. T.streams[id] \in StreamType /\ id \in Open(T)
    BY <1>6, <1>8, EndFields DEF GoodEnd
  <2>2. s \in StreamType /\ s.send = T.streams[id].send /\ s.recv = T.streams[id].recv
    BY <2>1 DEF StreamType
  <2>3. H = [T EXCEPT !.streams[id] = s]
    OBVIOUS
  <2> HIDE DEF s, H
  <2>4. Keeps(T, H) /\ Open(H) = Open(T)
    BY <1>6, <2>1, <2>2, <2>3, StreamKeeps
  <2>5. GoodEnd(H) /\ id \in Open(H) /\ Keeps(S, H)
    BY <1>6, <2>1, <2>4, KeepsTrans DEF Keeps
  <2>6. Keeps(H, RemoteEnd(H, id))
    BY <2>5, RemoteEndKeeps
  <2>7. Keeps(S, R)
    BY <1>8, <2>5, <2>6, KeepsTrans
  <2> QED
    BY <2>7 DEF R
<1> QED
  BY <1>4, <1>7, <1>8

(* The other end begins to read a frame.                                   *)
LEMMA OutputSentIs ==
    ASSUME NEW S, GoodEnd(S), S.out # << >>
    PROVE  LET R == OutputSent(S)
               f == Head(S.out)
           IN /\ GoodEnd(R) /\ Alike(S, R) /\ R.closed = S.closed /\ f \in FrameType
              /\ f.t \in {"headers", "data", "window"} => f.id <= Known(S)
              /\ ConnSends(R) = ConnSends(S) - Carries(f, "data", Ids)
              /\ ConnTakes(R) = ConnTakes(S) + Carries(f, "window", {0})
              /\ \A id \in Open(S) : /\ Sends(R, id) = Sends(S, id) - Carries(f, "data", {id})
                                     /\ Takes(R, id) = Takes(S, id) + Carries(f, "window", {id})
<1> DEFINE f == Head(S.out)
           n == Size(f)
           R == [S EXCEPT !.out = Tail(@), !.pending = @ - n, !.ctlQueued = Larger(@ - n, 0),
                          !.sweepWritable = TRUE]
<1>0. IsEnd(S)
  BY DEF GoodEnd
<1>1. /\ S.out \in Seq(FrameType) /\ S.pending \in Int /\ S.ctlQueued \in Int
      /\ S.sendWin \in Int /\ S.recvWin \in Int /\ S.peerWindow \in Int /\ S.localWindow \in Int
      /\ \A id \in Open(S) : S.streams[id].send \in Int /\ S.streams[id].recv \in Int
  BY <1>0, EndFields
<1>2. /\ f \in FrameType /\ Tail(S.out) \in Seq(FrameType)
      /\ \A kind \in {"data", "window"} : \A ids :
           Carried(Tail(S.out), kind, ids) = Carried(S.out, kind, ids) - Carries(f, kind, ids)
  BY <1>1, CarriedTail
<1>3. /\ \A kind \in {"data", "window"} : \A ids : Carried(S.out, kind, ids) \in Nat
      /\ \A kind \in {"data", "window"} : \A ids : Carries(f, kind, ids) \in Nat
  BY <1>1, <1>2, CarriedIs, CarriedOne
<1>4. OutputSent(S) = R
  BY DEF OutputSent
<1>5. n \in Int
  <2> HIDE DEF f
  <2>1. f.t = "data" => f.n \in Nat
    BY <1>2, FrameTypes
  <2> QED
    BY <2>1 DEF Size, Larger
<1> HIDE DEF n
<1>6. S.pending - n \in Int /\ Larger(S.ctlQueued - n, 0) \in Int
  BY <1>1, <1>5 DEF Larger
<1>7. /\ IsEnd(R) /\ Alike(S, R) /\ R.out = Tail(S.out) /\ R.closed = S.closed
  <2> HIDE DEF FrameType, StreamType
  <2> QED
    BY <1>0, <1>2, <1>6, ZenonT(60) DEF IsEnd, EndType, Open, Alike
<1> HIDE DEF R
<1>8. Known(R) = Known(S) /\ Open(R) = Open(S)
  BY <1>7 DEF Known, Open, Alike
<1>9. \A i \in DOMAIN R.out : i + 1 \in DOMAIN S.out /\ R.out[i] = S.out[i + 1]
  BY <1>1, <1>7
<1>10. GoodEnd(R)
  BY <1>7, <1>8, <1>9 DEF GoodEnd, OfKnown
<1>11. f.t \in {"headers", "data", "window"} => f.id <= Known(S)
  <2>1. 1 \in DOMAIN S.out /\ f = S.out[1]
    BY <1>1
  <2> HIDE DEF f
  <2> QED
    BY <2>1 DEF GoodEnd, OfKnown
<1> HIDE DEF f
<1>12. ConnSends(R) = ConnSends(S) - Carries(f, "data", Ids)
  BY <1>1, <1>2, <1>3, <1>7 DEF ConnSends, Alike
<1>13. ConnTakes(R) = ConnTakes(S) + Carries(f, "window", {0})
  BY <1>1, <1>2, <1>3, <1>7 DEF ConnTakes, Alike
<1>14. ASSUME NEW id \in Open(S)
       PROVE  /\ Sends(R, id) = Sends(S, id) - Carries(f, "data", {id})
              /\ Takes(R, id) = Takes(S, id) + Carries(f, "window", {id})
  <2>1. /\ Carried(R.out, "data", {id}) = Carried(S.out, "data", {id}) - Carries(f, "data", {id})
        /\ Carried(R.out, "window", {id}) = Carried(S.out, "window", {id}) - Carries(f, "window", {id})
    BY <1>2, <1>7
  <2>2. /\ R.streams = S.streams /\ R.peerWindow = S.peerWindow /\ R.localWindow = S.localWindow
    BY <1>7 DEF Alike
  <2>3. /\ Carried(S.out, "data", {id}) \in Int /\ Carried(S.out, "window", {id}) \in Int
        /\ Carries(f, "data", {id}) \in Int /\ Carries(f, "window", {id}) \in Int
        /\ S.streams[id].send \in Int /\ S.streams[id].recv \in Int
        /\ S.peerWindow \in Int /\ S.localWindow \in Int
    BY <1>1, <1>3
  <2>4. Sends(R, id) = Sends(S, id) - Carries(f, "data", {id})
    BY <2>1, <2>2, <2>3 DEF Sends
  <2>5. Takes(R, id) = Takes(S, id) + Carries(f, "window", {id})
    BY <2>1, <2>2, <2>3 DEF Takes
  <2> QED
    BY <2>4, <2>5
<1> QED
  BY <1>2, <1>4, <1>7, <1>10, <1>11, <1>12, <1>13, <1>14 DEF f

---------------------------------------------------------------------------
(* Both ends.                                                              *)

(* CountsAgree and StreamsInOrder, of two ends.                            *)
Joined(c, s) ==
    /\ GoodEnd(c) /\ GoodEnd(s) /\ c.server = FALSE /\ s.server = TRUE
    /\ c.nextId % 2 = 1 /\ s.lastPeerId < c.nextId
    /\ c.closed \/ s.closed \/
       /\ ConnTakes(s) = ConnSends(c) /\ ConnTakes(c) = ConnSends(s)
       /\ \A id \in Open(c) \cap Open(s) :
            Takes(s, id) = Sends(c, id) /\ Takes(c, id) = Sends(s, id)
       /\ \A id \in Open(c) : id > s.lastPeerId => Sends(c, id) = 0 /\ Takes(c, id) = 0

LEMMA InvIs ==
    WindowInv <=> /\ DOMAIN end = Ends /\ plan \in PlanType
                  /\ Joined(end["client"], end["server"])
<1>0. Ends = {"client", "server"} /\ Other("client") = "server" /\ Other("server") = "client"
      /\ ("client" = "server") = FALSE
  BY DEF Ends, Other
<1>1. EndsTyped <=> /\ DOMAIN end = Ends /\ plan \in PlanType
                    /\ IsEnd(end["client"]) /\ end["client"].server = FALSE
                    /\ IsEnd(end["server"]) /\ end["server"].server = TRUE
  BY <1>0 DEF EndsTyped
<1>2. CountsAgree <=>
        \/ end["client"].closed \/ end["server"].closed
        \/ /\ ConnTakes(end["server"]) = ConnSends(end["client"])
           /\ ConnTakes(end["client"]) = ConnSends(end["server"])
           /\ \A id \in Open(end["client"]) \cap Open(end["server"]) :
                /\ Takes(end["server"], id) = Sends(end["client"], id)
                /\ Takes(end["client"], id) = Sends(end["server"], id)
           /\ \A id \in Open(end["client"]) : id > end["server"].lastPeerId =>
                Sends(end["client"], id) = 0 /\ Takes(end["client"], id) = 0
  BY <1>0 DEF CountsAgree
<1>3. StreamsInOrder <=> /\ OfKnown(end["client"]) /\ OfKnown(end["server"])
                         /\ end["client"].nextId % 2 = 1
                         /\ end["server"].lastPeerId < end["client"].nextId
  BY <1>0 DEF StreamsInOrder
<1>4. ASSUME NEW c, NEW s, IsEnd(c), IsEnd(s), c.server = FALSE, s.server = TRUE, c.nextId % 2 = 1
      PROVE  Known(c) \in Nat /\ Known(s) \in Nat
  <2>1. c.nextId \in Nat /\ s.lastPeerId \in Nat
    BY <1>4, EndFields
  <2>2. c.nextId # 0
    BY <1>4
  <2> QED
    BY <1>4, <2>1, <2>2 DEF Known
<1> DEFINE c == end["client"]
           s == end["server"]
<1> HIDE DEF c, s
<1>5. WindowInv <=> EndsTyped /\ StreamsInOrder /\ CountsAgree
  BY DEF WindowInv
<1>6. EndsTyped <=> /\ DOMAIN end = Ends /\ plan \in PlanType
                    /\ IsEnd(c) /\ c.server = FALSE /\ IsEnd(s) /\ s.server = TRUE
  BY <1>1 DEF c, s
<1>7. StreamsInOrder <=> OfKnown(c) /\ OfKnown(s) /\ c.nextId % 2 = 1 /\ s.lastPeerId < c.nextId
  BY <1>3 DEF c, s
<1>8. CountsAgree <=>
        \/ c.closed \/ s.closed
        \/ /\ ConnTakes(s) = ConnSends(c) /\ ConnTakes(c) = ConnSends(s)
           /\ \A id \in Open(c) \cap Open(s) :
                Takes(s, id) = Sends(c, id) /\ Takes(c, id) = Sends(s, id)
           /\ \A id \in Open(c) : id > s.lastPeerId => Sends(c, id) = 0 /\ Takes(c, id) = 0
  BY <1>2 DEF c, s
<1>9. WindowInv <=> DOMAIN end = Ends /\ plan \in PlanType /\ Joined(c, s)
  BY <1>4, <1>5, <1>6, <1>7, <1>8 DEF Joined, GoodEnd
<1> QED
  BY <1>9 DEF c, s

LEMMA ClientKeeps ==
    ASSUME NEW c, NEW s, Joined(c, s), NEW R, Keeps(c, R)
    PROVE  Joined(R, s)
<1>1. /\ GoodEnd(R) /\ R.server = FALSE /\ R.nextId = c.nextId /\ Open(R) \subseteq Open(c)
  BY DEF Keeps, Joined
<1>2. CASE R.closed \/ s.closed
  BY <1>1, <1>2 DEF Joined
<1>3. CASE ~R.closed /\ ~s.closed
  <2>1. /\ ~c.closed /\ ConnSends(R) = ConnSends(c) /\ ConnTakes(R) = ConnTakes(c)
        /\ \A id \in Open(R) : Sends(R, id) = Sends(c, id) /\ Takes(R, id) = Takes(c, id)
    BY <1>3 DEF Keeps
  <2> QED
    BY <1>1, <1>3, <2>1 DEF Joined
<1> QED
  BY <1>2, <1>3

LEMMA ServerKeeps ==
    ASSUME NEW c, NEW s, Joined(c, s), NEW R, Keeps(s, R)
    PROVE  Joined(c, R)
<1>1. /\ GoodEnd(R) /\ R.server = TRUE /\ R.lastPeerId = s.lastPeerId /\ Open(R) \subseteq Open(s)
  BY DEF Keeps, Joined
<1>2. CASE R.closed \/ c.closed
  BY <1>1, <1>2 DEF Joined
<1>3. CASE ~R.closed /\ ~c.closed
  <2>1. /\ ~s.closed /\ ConnSends(R) = ConnSends(s) /\ ConnTakes(R) = ConnTakes(s)
        /\ \A id \in Open(R) : Sends(R, id) = Sends(s, id) /\ Takes(R, id) = Takes(s, id)
    BY <1>3 DEF Keeps
  <2> QED
    BY <1>1, <1>3, <2>1 DEF Joined
<1> QED
  BY <1>2, <1>3

LEMMA ClientReads ==
    ASSUME NEW c, NEW s, Joined(c, s), s.out # << >>, NEW R, Reads(c, R, Head(s.out))
    PROVE  Joined(R, OutputSent(s))
<1>1. PICK f : f = Head(s.out)
  OBVIOUS
<1>2. PICK Q : Q = OutputSent(s)
  OBVIOUS
<1>3. /\ GoodEnd(Q) /\ Alike(s, Q) /\ Q.closed = s.closed /\ f \in FrameType
      /\ f.t \in {"headers", "data", "window"} => f.id <= Known(s)
      /\ ConnSends(Q) = ConnSends(s) - Carries(f, "data", Ids)
      /\ ConnTakes(Q) = ConnTakes(s) + Carries(f, "window", {0})
      /\ \A id \in Open(s) : /\ Sends(Q, id) = Sends(s, id) - Carries(f, "data", {id})
                             /\ Takes(Q, id) = Takes(s, id) + Carries(f, "window", {id})
  BY <1>1, <1>2, OutputSentIs DEF Joined
<1>4. Open(Q) = Open(s) /\ Q.lastPeerId = s.lastPeerId /\ Q.server = TRUE /\ Known(s) = s.lastPeerId
  BY <1>3 DEF Alike, Open, Joined, Known
<1>5. /\ GoodEnd(R) /\ R.server = FALSE /\ R.nextId = c.nextId
  BY <1>1 DEF Reads, Joined
<1>6. R.nextId % 2 = 1 /\ Q.lastPeerId < R.nextId
  BY <1>4, <1>5 DEF Joined
<1>7. CASE R.closed \/ Q.closed
  BY <1>2, <1>3, <1>4, <1>5, <1>6, <1>7 DEF Joined
<1>8. CASE ~R.closed /\ ~Q.closed
  <2>1. /\ ~c.closed /\ ~s.closed
        /\ ConnSends(R) = ConnSends(c) + Carries(f, "window", {0})
        /\ ConnTakes(R) = ConnTakes(c) - Carries(f, "data", Ids)
    BY <1>1, <1>3, <1>8 DEF Reads
  <2>2. \A id \in Open(R) : /\ id \in Open(c)
                            /\ Sends(R, id) = Sends(c, id) + Carries(f, "window", {id})
                            /\ Takes(R, id) = Takes(c, id) - Carries(f, "data", {id})
    BY <1>1, <1>8 DEF Reads, Joined
  <2>3. /\ ConnTakes(s) = ConnSends(c) /\ ConnTakes(c) = ConnSends(s)
        /\ \A id \in Open(c) \cap Open(s) :
             Takes(s, id) = Sends(c, id) /\ Takes(c, id) = Sends(s, id)
        /\ \A id \in Open(c) : id > s.lastPeerId => Sends(c, id) = 0 /\ Takes(c, id) = 0
    BY <2>1 DEF Joined
  <2>4. ConnTakes(Q) = ConnSends(R) /\ ConnTakes(R) = ConnSends(Q)
    BY <1>3, <2>1, <2>3
  <2>5. \A id \in Open(R) \cap Open(Q) :
          Takes(Q, id) = Sends(R, id) /\ Takes(R, id) = Sends(Q, id)
    BY <1>3, <1>4, <2>2, <2>3
  <2>6. ASSUME NEW id \in Open(R), id > Q.lastPeerId PROVE Sends(R, id) = 0 /\ Takes(R, id) = 0
    <3>1. Sends(c, id) = 0 /\ Takes(c, id) = 0 /\ id \in Open(c)
      BY <1>4, <2>2, <2>3, <2>6
    <3>2. id \in Nat /\ s.lastPeerId \in Nat
      <4>1. s.lastPeerId \in Nat /\ Open(c) \subseteq Ids
        BY EndFields DEF Joined, GoodEnd
      <4> QED
        BY <3>1, <4>1 DEF Ids
    <3>3. Carries(f, "window", {id}) = 0 /\ Carries(f, "data", {id}) = 0
      BY <1>3, <1>4, <2>6, <3>2 DEF Carries
    <3> QED
      BY <2>2, <3>1, <3>3
  <2>7. Joined(R, Q)
    BY <1>3, <1>4, <1>5, <1>6, <2>4, <2>5, <2>6 DEF Joined
  <2> QED
    BY <1>2, <2>7
<1> QED
  BY <1>7, <1>8

LEMMA ServerReads ==
    ASSUME NEW c, NEW s, Joined(c, s), c.out # << >>, NEW R, Reads(s, R, Head(c.out))
    PROVE  Joined(OutputSent(c), R)
<1>1. PICK f : f = Head(c.out)
  OBVIOUS
<1>2. PICK Q : Q = OutputSent(c)
  OBVIOUS
<1>3. /\ GoodEnd(Q) /\ Alike(c, Q) /\ Q.closed = c.closed /\ f \in FrameType
      /\ f.t \in {"headers", "data", "window"} => f.id <= Known(c)
      /\ ConnSends(Q) = ConnSends(c) - Carries(f, "data", Ids)
      /\ ConnTakes(Q) = ConnTakes(c) + Carries(f, "window", {0})
      /\ \A id \in Open(c) : /\ Sends(Q, id) = Sends(c, id) - Carries(f, "data", {id})
                             /\ Takes(Q, id) = Takes(c, id) + Carries(f, "window", {id})
  BY <1>1, <1>2, OutputSentIs DEF Joined
<1>4. Open(Q) = Open(c) /\ Q.nextId = c.nextId /\ Q.server = FALSE /\ Known(c) = c.nextId - 1
  BY <1>3 DEF Alike, Open, Joined, Known
<1>5. GoodEnd(R) /\ R.server = TRUE
  BY DEF Reads, Joined
<1>6. c.nextId \in Nat /\ s.lastPeerId \in Nat /\ R.lastPeerId \in Nat /\ Open(c) \subseteq Ids
      /\ Open(s) \subseteq Ids
  BY <1>5, EndFields DEF Joined, GoodEnd
<1>7. R.lastPeerId = s.lastPeerId
      \/ (f.t = "headers" /\ R.lastPeerId = f.id /\ f.id > s.lastPeerId)
  BY <1>1 DEF Reads
<1>8. Q.nextId % 2 = 1 /\ R.lastPeerId < Q.nextId /\ s.lastPeerId <= R.lastPeerId
  <2>1. CASE R.lastPeerId = s.lastPeerId
    BY <1>4, <1>6, <2>1 DEF Joined
  <2>2. CASE f.t = "headers" /\ R.lastPeerId = f.id /\ f.id > s.lastPeerId
    BY <1>3, <1>4, <1>6, <2>2 DEF Joined
  <2> QED
    BY <1>7, <2>1, <2>2
<1>9. CASE R.closed \/ Q.closed
  BY <1>2, <1>3, <1>4, <1>5, <1>8, <1>9 DEF Joined
<1>10. CASE ~R.closed /\ ~Q.closed
  <2>1. /\ ~s.closed /\ ~c.closed
        /\ f.t \in {"data", "window"} => f.id <= s.lastPeerId
        /\ ConnSends(R) = ConnSends(s) + Carries(f, "window", {0})
        /\ ConnTakes(R) = ConnTakes(s) - Carries(f, "data", Ids)
    BY <1>1, <1>3, <1>10 DEF Reads, Joined
  <2>2. \A id \in Open(R) :
               \/ /\ id \in Open(s)
                  /\ Sends(R, id) = Sends(s, id) + Carries(f, "window", {id})
                  /\ Takes(R, id) = Takes(s, id) - Carries(f, "data", {id})
               \/ /\ f.t = "headers" /\ id = f.id /\ id > s.lastPeerId
                  /\ Sends(R, id) = 0 /\ Takes(R, id) = 0
    BY <1>1, <1>10 DEF Reads
  <2>3. /\ ConnTakes(s) = ConnSends(c) /\ ConnTakes(c) = ConnSends(s)
        /\ \A id \in Open(c) \cap Open(s) :
             Takes(s, id) = Sends(c, id) /\ Takes(c, id) = Sends(s, id)
        /\ \A id \in Open(c) : id > s.lastPeerId => Sends(c, id) = 0 /\ Takes(c, id) = 0
    BY <2>1 DEF Joined
  <2>4. ConnTakes(R) = ConnSends(Q) /\ ConnTakes(Q) = ConnSends(R)
    BY <1>3, <2>1, <2>3
  <2>5. ASSUME NEW id \in Open(c), id > s.lastPeerId PROVE Sends(Q, id) = 0 /\ Takes(Q, id) = 0
    <3>1. Sends(c, id) = 0 /\ Takes(c, id) = 0
      BY <2>3, <2>5
    <3>2. id \in Nat
      BY <1>6 DEF Ids
    <3>3. Carries(f, "window", {id}) = 0 /\ Carries(f, "data", {id}) = 0
      BY <1>6, <2>1, <2>5, <3>2 DEF Carries
    <3> QED
      BY <1>3, <3>1, <3>3
  <2>6. ASSUME NEW id \in Open(Q), id \in Open(R)
        PROVE  Takes(R, id) = Sends(Q, id) /\ Takes(Q, id) = Sends(R, id)
    <3>1. id \in Open(c)
      BY <1>4
    <3>2. CASE /\ id \in Open(s)
               /\ Sends(R, id) = Sends(s, id) + Carries(f, "window", {id})
               /\ Takes(R, id) = Takes(s, id) - Carries(f, "data", {id})
      BY <1>3, <2>3, <3>1, <3>2
    <3>3. CASE id > s.lastPeerId /\ Sends(R, id) = 0 /\ Takes(R, id) = 0
      BY <2>5, <3>1, <3>3
    <3> QED
      BY <2>2, <2>6, <3>2, <3>3
  <2>7. ASSUME NEW id \in Open(Q), id > R.lastPeerId PROVE Sends(Q, id) = 0 /\ Takes(Q, id) = 0
    <3>1. id \in Nat /\ id \in Open(c)
      BY <1>4, <1>6 DEF Ids
    <3>2. id > s.lastPeerId
      BY <1>6, <1>8, <2>7, <3>1
    <3> QED
      BY <2>5, <3>1, <3>2
  <2>8. Joined(Q, R)
    BY <1>3, <1>4, <1>5, <1>8, <2>4, <2>6, <2>7 DEF Joined
  <2> QED
    BY <1>2, <2>8
<1> QED
  BY <1>9, <1>10

---------------------------------------------------------------------------
(* The steps.                                                              *)

LEMMA InvNext ==
    ASSUME DOMAIN end' = Ends, plan' \in PlanType, Joined(end'["client"], end'["server"])
    PROVE  WindowInv'
<1>1. (DOMAIN end = Ends /\ plan \in PlanType /\ Joined(end["client"], end["server"]))' => WindowInv'
  BY InvIs, PTL
<1>2. (DOMAIN end = Ends /\ plan \in PlanType /\ Joined(end["client"], end["server"]))'
  OBVIOUS
<1> QED
  BY <1>1, <1>2

LEMMA InvParts ==
    ASSUME WindowInv
    PROVE  /\ DOMAIN end = Ends /\ plan \in PlanType /\ Joined(end["client"], end["server"])
           /\ \A e \in Ends : GoodEnd(end[e]) /\ end[e].server = (e = "server")
<1>1. DOMAIN end = Ends /\ plan \in PlanType /\ Joined(end["client"], end["server"])
  BY InvIs
<1>2. \A e \in Ends : GoodEnd(end[e])
  BY <1>1 DEF Joined, Ends
<1>3. \A e \in Ends : end[e].server = (e = "server")
  BY <1>1 DEF Joined, Ends
<1> QED
  BY <1>1, <1>2, <1>3

(* A step of one end that neither makes nor loses a unit.                  *)
LEMMA OwnStep ==
    ASSUME WindowInv, NEW e \in Ends, NEW R, Keeps(end[e], R), Step(e, R), plan' \in PlanType
    PROVE  WindowInv'
<1>1. DOMAIN end = Ends /\ Joined(end["client"], end["server"])
  BY InvParts
<1>2. end' = [end EXCEPT ![e] = R]
  BY DEF Step
<1>3. DOMAIN end' = Ends
  BY <1>1, <1>2
<1>4. CASE e = "client"
  <2>1. end'["client"] = R /\ end'["server"] = end["server"]
    BY <1>1, <1>2, <1>4 DEF Ends
  <2>2. Joined(R, end["server"])
    BY <1>1, <1>4, ClientKeeps
  <2> QED
    BY <1>3, <2>1, <2>2, InvNext
<1>5. CASE e = "server"
  <2>1. end'["server"] = R /\ end'["client"] = end["client"]
    BY <1>1, <1>2, <1>5 DEF Ends
  <2>2. Joined(end["client"], R)
    BY <1>1, <1>5, ServerKeeps
  <2> QED
    BY <1>3, <2>1, <2>2, InvNext
<1> QED
  BY <1>4, <1>5 DEF Ends

LEMMA ReadStep ==
    ASSUME H2Assumption, WindowInv, NEW e \in Ends, ReadFrame(e)
    PROVE  WindowInv'
<1> DEFINE o == Other(e)
           R == OnFrame(Swept(end[e]), Head(end[o].out))
           Q == OutputSent(end[o])
<1>1. /\ DOMAIN end = Ends /\ plan \in PlanType /\ Joined(end["client"], end["server"])
      /\ \A x \in Ends : GoodEnd(end[x])
  BY InvParts
<1>2. ~end[e].closed /\ end[o].out # << >> /\ end' = [end EXCEPT ![e] = R, ![o] = Q]
      /\ plan' = plan /\ o \in Ends /\ o # e
  BY DEF ReadFrame, Other, Ends
<1>3. Head(end[o].out) \in FrameType
  BY <1>1, <1>2, OutputSentIs
<1>4. Reads(end[e], R, Head(end[o].out))
  BY <1>1, <1>2, <1>3, FrameReads
<1>5. DOMAIN end' = Ends /\ end'[e] = R /\ end'[o] = Q /\ plan' \in PlanType
  <2> HIDE DEF o, R, Q
  <2> QED
    BY <1>1, <1>2
<1>6. CASE e = "client"
  <2>1. o = "server"
    BY <1>6 DEF Other
  <2> HIDE DEF o, R, Q
  <2>2. Joined(R, OutputSent(end["server"]))
    BY <1>1, <1>2, <1>4, <1>6, <2>1, ClientReads
  <2>3. Q = OutputSent(end["server"])
    BY <2>1 DEF Q
  <2>4. Joined(end'["client"], end'["server"])
    BY <1>5, <1>6, <2>1, <2>2, <2>3
  <2> QED
    BY <1>5, <2>4, InvNext
<1>7. CASE e = "server"
  <2>1. o = "client"
    BY <1>7 DEF Other
  <2> HIDE DEF o, R, Q
  <2>2. Joined(OutputSent(end["client"]), R)
    BY <1>1, <1>2, <1>4, <1>7, <2>1, ServerReads
  <2>3. Q = OutputSent(end["client"])
    BY <2>1 DEF Q
  <2>4. Joined(end'["client"], end'["server"])
    BY <1>5, <1>7, <2>1, <2>2, <2>3
  <2> QED
    BY <1>5, <2>4, InvNext
<1> QED
  BY <1>6, <1>7 DEF Ends

(* What calls are left stays a plan.                                       *)
LEMMA CallLeft ==
    ASSUME plan \in PlanType,
           NEW kind \in {"requests", "responses", "trailers", "resets", "pings"}, Call(kind)
    PROVE  plan' \in PlanType
<1>1. plan[kind] > 0 /\ plan' = [plan EXCEPT ![kind] = @ - 1]
  BY DEF Call
<1>2. /\ plan["requests"] \in Nat /\ plan["responses"] \in Nat /\ plan["trailers"] \in Nat
      /\ plan["resets"] \in Nat /\ plan["pings"] \in Nat
  BY DEF PlanType
<1>3. plan[kind] - 1 \in Nat
  BY <1>1, <1>2
<1>4. CASE kind = "requests"
  BY <1>1, <1>3, <1>4 DEF PlanType
<1>5. CASE kind = "responses"
  BY <1>1, <1>3, <1>5 DEF PlanType
<1>6. CASE kind = "trailers"
  BY <1>1, <1>3, <1>6 DEF PlanType
<1>7. CASE kind = "resets"
  BY <1>1, <1>3, <1>7 DEF PlanType
<1>8. CASE kind = "pings"
  BY <1>1, <1>3, <1>8 DEF PlanType
<1> QED
  BY <1>4, <1>5, <1>6, <1>7, <1>8

(* A frame that the application asks for.                                  *)
LEMMA PutKeeps ==
    ASSUME NEW S, GoodEnd(S), NEW f, Due(S, f), f.t \notin {"data", "window"}
    PROVE  /\ Keeps(S, Put(S, f)) /\ GoodEnd(Put(S, f)) /\ Open(Put(S, f)) = Open(S)
           /\ Put(S, f).streams = S.streams
<1>1. IsEnd(Put(S, f)) /\ Alike(S, Put(S, f)) /\ Put(S, f).out = Append(S.out, f)
      /\ Put(S, f).closed = S.closed
  BY PutIs DEF Due, GoodEnd
<1>2. GoodEnd(Put(S, f))
  BY PutGood
<1>3. Says(S, Put(S, f), f)
  BY <1>1, <1>2 DEF Says
<1>4. Keeps(S, Put(S, f))
  BY <1>3, SaysNothing
<1> QED
  BY <1>1, <1>2, <1>4 DEF Alike, Open

LEMMA HeadersDue ==
    ASSUME NEW S, GoodEnd(S), NEW id \in Open(S), NEW fin \in BOOLEAN, NEW tunnel \in BOOLEAN
    PROVE  Due(S, Headers(id, fin, tunnel)) /\ Headers(id, fin, tunnel).t = "headers"
<1>1. id \in Ids /\ id <= Known(S)
  BY EndFields DEF GoodEnd, OfKnown
<1> QED
  BY <1>1 DEF Due, Headers, FrameType

LEMMA RequestStep ==
    ASSUME H2Assumption, WindowInv, SubmitRequest
    PROVE  WindowInv'
<1> DEFINE S == end["client"]
           s == end["server"]
           id == S.nextId
<1>1. /\ DOMAIN end = Ends /\ plan \in PlanType /\ Joined(S, s) /\ GoodEnd(S) /\ S.server = FALSE
      /\ IsEnd(S)
  BY InvParts DEF Joined, GoodEnd
<1>2. plan.tunnel \in BOOLEAN
  BY <1>1 DEF PlanType
<1>3. plan' \in PlanType
  <2>1. Call("requests")
    BY DEF SubmitRequest
  <2> QED
    BY <1>1, <2>1, CallLeft
<1>4. PICK fin \in BOOLEAN :
        LET n == NewStream(S, FALSE)
            flags == {"HEAD_SENT"} \cup (IF fin THEN {"LOCAL_END"} ELSE {})
        IN  Step("client",
              [Put(S, Headers(id, fin, plan.tunnel)) EXCEPT
                 !.streams = [i \in Open(S) \cup {id} |->
                                IF i = id THEN [n EXCEPT !.flags = flags] ELSE @[i]],
                 !.nextId = id + 2,
                 !.blind = IF S.gotSettings THEN @ ELSE @ \cup {id}])
  BY DEF SubmitRequest
<1> DEFINE f == Headers(id, fin, plan.tunnel)
           P == Put(S, f)
           flags == {"HEAD_SENT"} \cup (IF fin THEN {"LOCAL_END"} ELSE {})
           n == [NewStream(S, FALSE) EXCEPT !.flags = flags]
           A == Open(S) \cup {id}
           ss == [i \in A |-> IF i = id THEN n ELSE P.streams[i]]
           blind == IF S.gotSettings THEN P.blind ELSE P.blind \cup {id}
           U == [P EXCEPT !.streams = ss]
           R == [P EXCEPT !.streams = ss, !.nextId = id + 2, !.blind = blind]
<1>5. /\ S.nextId \in Nat /\ S.localWindow \in Int /\ S.peerWindow \in Int
      /\ S.out \in Seq(FrameType) /\ S.streams \in [Open(S) -> StreamType] /\ Open(S) \subseteq Ids
  BY <1>1, EndFields
<1>6. id \in Ids /\ id \in Nat /\ Known(S) = id - 1
  <2>1. id <= MaxId
    BY DEF SubmitRequest
  <2>2. id % 2 = 1
    BY <1>1 DEF Joined
  <2>3. id # 0
    BY <2>2
  <2>4. MaxId \in Nat
    BY DEF H2Assumption
  <2>5. PICK k \in Nat : k = id
    BY <1>5
  <2>6. k \in 1 .. MaxId
    BY <2>1, <2>3, <2>4, <2>5
  <2>7. id \in Ids
    BY <2>2, <2>5, <2>6 DEF Ids
  <2> QED
    BY <1>1, <1>5, <2>7 DEF Known
<1>7. f \in FrameType /\ f.t = "headers" /\ f.id = id
  BY <1>2, <1>6 DEF Headers, FrameType
<1>8. /\ IsEnd(P) /\ Alike(S, P) /\ P.out = Append(S.out, f) /\ P.closed = S.closed
  BY <1>1, <1>7, PutIs
<1>9. end' = [end EXCEPT !["client"] = R]
  <2>1. R = [Put(S, Headers(id, fin, plan.tunnel)) EXCEPT
                 !.streams = [i \in Open(S) \cup {id} |->
                                IF i = id THEN [NewStream(S, FALSE) EXCEPT !.flags =
                                                  {"HEAD_SENT"} \cup (IF fin THEN {"LOCAL_END"} ELSE {})]
                                ELSE @[i]],
                 !.nextId = id + 2,
                 !.blind = IF S.gotSettings THEN @ ELSE @ \cup {id}]
    <3> HIDE DEF f, n
    <3>1. n = [NewStream(S, FALSE) EXCEPT !.flags =
                 {"HEAD_SENT"} \cup (IF fin THEN {"LOCAL_END"} ELSE {})]
      BY DEF n
    <3>2. f = Headers(id, fin, plan.tunnel)
      BY DEF f
    <3>3. P.blind = [P EXCEPT !.streams = ss, !.nextId = id + 2].blind
      <4> HIDE DEF P, ss, FrameType, StreamType
      <4> QED
        BY <1>8 DEF IsEnd, EndType
    <3> HIDE DEF FrameType, StreamType, NewStream
    <3> QED
      BY <1>8, <3>1, <3>2, <3>3 DEF IsEnd, EndType
  <2> QED
    BY <1>4, <2>1 DEF Step
<1>10. n \in StreamType /\ n.send = S.peerWindow /\ n.recv = S.localWindow
  <2>1. NewStream(S, FALSE) = [send |-> S.peerWindow, recv |-> S.localWindow, unacked |-> 0,
                               held |-> 0, win |-> 0, flags |-> {}]
    BY DEF NewStream
  <2>2. NewStream(S, FALSE) \in StreamType /\ NewStream(S, FALSE).send = S.peerWindow
        /\ NewStream(S, FALSE).recv = S.localWindow
    <3>1. PICK a \in Int : a = S.peerWindow
      BY <1>5
    <3>2. PICK b \in Int : b = S.localWindow
      BY <1>5
    <3>3. {} \in SUBSET StreamFlags
      OBVIOUS
    <3>4. [send |-> a, recv |-> b, unacked |-> 0, held |-> 0, win |-> 0, flags |-> {}] \in StreamType
      BY <3>3 DEF StreamType
    <3>5. NewStream(S, FALSE)
            = [send |-> a, recv |-> b, unacked |-> 0, held |-> 0, win |-> 0, flags |-> {}]
      BY <2>1, <3>1, <3>2
    <3>6. PICK m : m = NewStream(S, FALSE)
      OBVIOUS
    <3>7. m \in StreamType /\ m.send = a /\ m.recv = b
      <4>1. m = [send |-> a, recv |-> b, unacked |-> 0, held |-> 0, win |-> 0, flags |-> {}]
        BY <3>5, <3>6
      <4> QED
        BY <3>4, <4>1
    <3> HIDE DEF S, StreamType, NewStream
    <3> QED
      BY <3>1, <3>2, <3>6, <3>7
  <2>3. flags \subseteq StreamFlags
    BY DEF StreamFlags
  <2> HIDE DEF flags, StreamFlags
  <2> QED
    BY <2>2, <2>3 DEF StreamType
<1> HIDE DEF n, f, P
<1>11. A \in SUBSET Ids /\ ss \in [A -> StreamType]
       /\ \A i \in A : ss[i] = IF i = id THEN n ELSE S.streams[i]
  BY <1>5, <1>6, <1>8, <1>10 DEF Alike
<1>12. blind \in SUBSET Ids
  <2>1. P.blind \in SUBSET Ids
    <3> HIDE DEF FrameType, StreamType
    <3> QED
      BY <1>8 DEF IsEnd, EndType
  <2> QED
    BY <1>6, <2>1
<1> HIDE DEF blind
<1>13. R = [U EXCEPT !.nextId = id + 2, !.blind = blind]
  <2> HIDE DEF ss
  <2> QED
    OBVIOUS
<1> HIDE DEF ss, A
<1>14. /\ IsEnd(U) /\ Open(U) = A /\ U.streams = ss
       /\ U.server = P.server /\ U.nextId = P.nextId /\ U.lastPeerId = P.lastPeerId
       /\ U.sendWin = P.sendWin /\ U.recvWin = P.recvWin
       /\ U.localWindow = P.localWindow /\ U.peerWindow = P.peerWindow
       /\ U.out = P.out /\ U.closed = P.closed
  <2>1. PICK d \in SUBSET Ids : d = A
    BY <1>11
  <2>2. PICK q \in [d -> StreamType] : q = ss
    BY <1>11, <2>1
  <2>3. PICK p : p = P
    OBVIOUS
  <2>4. IsEnd(p)
    BY <1>8, <2>3
  <2>6. [p EXCEPT !.streams = q] = U
    BY <2>2, <2>3
  <2>5. LET r == [p EXCEPT !.streams = q] IN
        /\ IsEnd(r) /\ Open(r) = d /\ r.streams = q
        /\ r.server = p.server /\ r.nextId = p.nextId /\ r.lastPeerId = p.lastPeerId
        /\ r.sendWin = p.sendWin /\ r.recvWin = p.recvWin
        /\ r.localWindow = p.localWindow /\ r.peerWindow = p.peerWindow
        /\ r.out = p.out /\ r.closed = p.closed
    BY <2>4, OtherStreams
  <2> HIDE DEF U
  <2> QED
    BY <2>1, <2>2, <2>3, <2>5, <2>6
<1> HIDE DEF U
<1>15. id + 2 \in Nat
  BY <1>6
<1> HIDE DEF id
<1>16. /\ IsEnd(R) /\ R.streams = U.streams /\ R.nextId = id + 2
       /\ R.server = U.server /\ R.lastPeerId = U.lastPeerId
       /\ R.sendWin = U.sendWin /\ R.recvWin = U.recvWin
       /\ R.localWindow = U.localWindow /\ R.peerWindow = U.peerWindow
       /\ R.out = U.out /\ R.closed = U.closed
  <2> HIDE DEF FrameType, StreamType, R, S
  <2>1. U \in EndType(Open(U)) /\ Open(U) \subseteq Ids
    BY <1>14 DEF IsEnd
  <2>2. R \in EndType(Open(U))
    BY <1>12, <1>13, <1>15, <2>1, ZenonT(60) DEF EndType
  <2>3. /\ R.streams = U.streams /\ R.nextId = id + 2
        /\ R.server = U.server /\ R.lastPeerId = U.lastPeerId
        /\ R.sendWin = U.sendWin /\ R.recvWin = U.recvWin
        /\ R.localWindow = U.localWindow /\ R.peerWindow = U.peerWindow
        /\ R.out = U.out /\ R.closed = U.closed
    BY <1>13, <2>1 DEF EndType
  <2>4. Open(R) = Open(U)
    BY <2>3 DEF Open
  <2> QED
    BY <2>1, <2>2, <2>3, <2>4 DEF IsEnd
<1> HIDE DEF R
<1>17. /\ R.streams = ss /\ Open(R) = A /\ R.server = FALSE /\ R.lastPeerId = S.lastPeerId
       /\ R.sendWin = S.sendWin /\ R.recvWin = S.recvWin
       /\ R.localWindow = S.localWindow /\ R.peerWindow = S.peerWindow
       /\ R.out = Append(S.out, f) /\ R.closed = S.closed
  BY <1>1, <1>8, <1>14, <1>16 DEF Alike, Open
<1>18. Known(R) = id + 1 /\ id \in Nat
  <2>1. id \in Nat /\ R.nextId = id + 2 /\ R.server = FALSE
    BY <1>6, <1>16, <1>17
  <2> QED
    BY <2>1 DEF Known
<1>19. GoodEnd(R)
  <2>1. ASSUME NEW i \in Open(R) PROVE i <= id + 1
    <3>1. CASE i = id
      BY <1>18, <3>1
    <3>2. CASE i \in Open(S)
      <4>1. i <= Known(S) /\ i \in Nat
        BY <1>1, <1>5, <3>2 DEF GoodEnd, OfKnown, Ids
      <4> QED
        BY <1>6, <1>18, <4>1
    <3> QED
      BY <1>17, <2>1, <3>1, <3>2 DEF A
  <2>2. ASSUME NEW i \in DOMAIN R.out, R.out[i].t \in {"headers", "data", "window"}
        PROVE  R.out[i].id <= id + 1
    <3>1. R.out[i] = f \/ (i \in DOMAIN S.out /\ R.out[i] = S.out[i])
      <4>1. PICK o \in Seq(FrameType) : o = S.out
        BY <1>5
      <4>2. PICK x \in FrameType : x = f
        BY <1>7
      <4>3. R.out = Append(o, x)
        BY <1>17, <4>1, <4>2
      <4> HIDE DEF FrameType
      <4>4. \A j \in DOMAIN Append(o, x) :
              Append(o, x)[j] = x \/ (j \in DOMAIN o /\ Append(o, x)[j] = o[j])
        BY SMTT(30)
      <4>5. R.out[i] = x \/ (i \in DOMAIN o /\ R.out[i] = o[i])
        BY <2>2, <4>3, <4>4
      <4> QED
        BY <4>1, <4>2, <4>5
    <3>2. CASE R.out[i] = f
      BY <1>7, <1>18, <3>2
    <3>3. CASE i \in DOMAIN S.out /\ R.out[i] = S.out[i]
      <4>1. S.out[i].id <= Known(S)
        BY <1>1, <2>2, <3>3 DEF GoodEnd, OfKnown
      <4>2. S.out[i] \in FrameType
        BY <1>5, <3>3
      <4>3. S.out[i].id \in Nat
        BY <2>2, <3>3, <4>2, FrameTypes DEF Ids
      <4> QED
        BY <1>6, <1>18, <3>3, <4>1, <4>3
    <3> QED
      BY <3>1, <3>2, <3>3
  <2>3. OfKnown(R)
    BY <1>18, <2>1, <2>2 DEF OfKnown
  <2> QED
    BY <1>16, <1>18, <2>3 DEF GoodEnd
<1>20. \A kind \in {"data", "window"} : \A ids :
         Carried(R.out, kind, ids) = Carried(S.out, kind, ids)
  <2>1. \A kind \in {"data", "window"} : \A ids : Carries(f, kind, ids) = 0
    BY <1>7 DEF Carries
  <2>2. \A kind \in {"data", "window"} : \A ids : Carried(S.out, kind, ids) \in Nat
    BY <1>5, CarriedIs
  <2>3. \A kind \in {"data", "window"} : \A ids :
          Carried(Append(S.out, f), kind, ids) = Carried(S.out, kind, ids) + Carries(f, kind, ids)
    BY <1>5, <1>7, CarriedAppend
  <2> QED
    BY <1>17, <2>1, <2>2, <2>3
<1>21. ConnSends(R) = ConnSends(S) /\ ConnTakes(R) = ConnTakes(S)
  BY <1>17, <1>20 DEF ConnSends, ConnTakes
<1>22. \A i \in Open(S) : i # id => Sends(R, i) = Sends(S, i) /\ Takes(R, i) = Takes(S, i)
  <2>1. ASSUME NEW i \in Open(S), i # id PROVE Sends(R, i) = Sends(S, i) /\ Takes(R, i) = Takes(S, i)
    <3>1. R.streams[i] = S.streams[i]
      BY <1>11, <1>17, <2>1 DEF A
    <3> QED
      BY <1>17, <1>20, <3>1 DEF Sends, Takes
  <2> QED
    BY <2>1
<1>23. Sends(R, id) = 0 /\ Takes(R, id) = 0
  <2>1. R.streams[id] = n
    BY <1>11, <1>17 DEF A
  <2>2. ASSUME NEW kind \in {"data", "window"} PROVE Carried(R.out, kind, {id}) = 0
    <3>1. ASSUME NEW i \in DOMAIN S.out, S.out[i].t = kind PROVE S.out[i].id \notin {id}
      <4>1. S.out[i].id <= Known(S)
        BY <1>1, <3>1 DEF GoodEnd, OfKnown
      <4> QED
        BY <1>6, <1>18, <4>1
    <3>2. Carried(S.out, kind, {id}) = 0
      BY <1>5, <3>1, CarriedNone
    <3> QED
      BY <1>20, <3>2
  <2>3. R.streams[id].send = R.peerWindow /\ R.peerWindow \in Int
    BY <1>5, <1>10, <1>17, <2>1
  <2>4. R.streams[id].recv = R.localWindow /\ R.localWindow \in Int
    BY <1>5, <1>10, <1>17, <2>1
  <2>5. Carried(R.out, "data", {id}) = 0 /\ Carried(R.out, "window", {id}) = 0
    BY <2>2
  <2>6. Sends(R, id) = 0
    BY <2>3, <2>5 DEF Sends
  <2>7. Takes(R, id) = 0
    BY <2>4, <2>5 DEF Takes
  <2> QED
    BY <2>6, <2>7
<1>24. s.lastPeerId < id /\ s.lastPeerId \in Nat /\ id \notin Open(S) /\ id \notin Open(s)
  <2>1. s.lastPeerId \in Nat /\ IsEnd(s) /\ s.lastPeerId < S.nextId /\ Known(s) = s.lastPeerId
    BY <1>1, EndFields DEF Joined, GoodEnd, Known
  <2>2. s.lastPeerId < id
    BY <2>1 DEF id
  <2>3. \A i \in Open(S) : i <= Known(S)
    BY <1>1 DEF GoodEnd, OfKnown
  <2>4. \A i \in Open(s) : i <= Known(s)
    BY <1>1 DEF Joined, GoodEnd, OfKnown
  <2>5. id \notin Open(S)
    BY <1>6, <1>18, <2>3
  <2>6. id \notin Open(s)
    BY <1>18, <2>1, <2>2, <2>4
  <2> QED
    BY <2>1, <2>2, <2>5, <2>6
<1>25. R.nextId % 2 = 1 /\ s.lastPeerId < R.nextId
  <2>1. id % 2 = 1
    BY <1>1 DEF Joined, id
  <2> QED
    BY <1>16, <1>18, <1>24, <2>1
<1>26. Joined(R, s)
  <2>1. GoodEnd(s) /\ s.server = TRUE
    BY <1>1 DEF Joined
  <2>2. CASE S.closed \/ s.closed
    BY <1>17, <1>19, <1>25, <2>1, <2>2 DEF Joined
  <2>3. CASE ~S.closed /\ ~s.closed
    <3>1. /\ ConnTakes(s) = ConnSends(S) /\ ConnTakes(S) = ConnSends(s)
          /\ \A i \in Open(S) \cap Open(s) : Takes(s, i) = Sends(S, i) /\ Takes(S, i) = Sends(s, i)
          /\ \A i \in Open(S) : i > s.lastPeerId => Sends(S, i) = 0 /\ Takes(S, i) = 0
      BY <1>1, <2>3 DEF Joined
    <3>2. \A i \in Open(R) : i = id \/ (i \in Open(S) /\ i # id)
      BY <1>17 DEF A
    <3>3. \A i \in Open(R) \cap Open(s) : Takes(s, i) = Sends(R, i) /\ Takes(R, i) = Sends(s, i)
      BY <1>22, <1>24, <3>1, <3>2
    <3>4. \A i \in Open(R) : i > s.lastPeerId => Sends(R, i) = 0 /\ Takes(R, i) = 0
      BY <1>22, <1>23, <3>1, <3>2
    <3> QED
      BY <1>17, <1>19, <1>21, <1>25, <2>1, <3>1, <3>3, <3>4 DEF Joined
  <2> QED
    BY <2>2, <2>3
<1>27. DOMAIN end' = Ends /\ end'["client"] = R /\ end'["server"] = s
  BY <1>1, <1>9 DEF Ends
<1> HIDE DEF S, s
<1> QED
  BY <1>3, <1>26, <1>27, InvNext

(* Flags taken from a stream.                                              *)
LEMMA UnflagKeeps ==
    ASSUME NEW S, GoodEnd(S), NEW id \in Open(S), NEW set
    PROVE  LET R == [S EXCEPT !.streams[id].flags = @ \ set] IN
           Keeps(S, R) /\ Open(R) = Open(S)
<1> DEFINE s == [S.streams[id] EXCEPT !.flags = @ \ set]
           R == [S EXCEPT !.streams[id].flags = @ \ set]
<1>1. S.streams[id] \in StreamType
  BY EndFields DEF GoodEnd
<1>2. s \in StreamType /\ s.send = S.streams[id].send /\ s.recv = S.streams[id].recv
  <2> HIDE DEF StreamFlags
  <2> QED
    BY <1>1 DEF StreamType
<1>3. R = [S EXCEPT !.streams[id] = s]
  OBVIOUS
<1> HIDE DEF s
<1>4. Keeps(S, R) /\ Open(R) = Open(S)
  <2> HIDE DEF R
  <2> QED
    BY <1>2, <1>3, StreamKeeps
<1> QED
  BY <1>4

(* A response, and the end of what the server sends on the stream.         *)
LEMMA ResponseKeeps ==
    ASSUME H2Assumption, NEW S, GoodEnd(S), NEW id \in Open(S), NEW fin \in BOOLEAN, NEW plain
    PROVE  LET Q == Flag(Put(S, Headers(id, fin, FALSE)), id, {"HEAD_SENT"})
               T == IF plain THEN [Q EXCEPT !.streams[id].flags = @ \ {"TUNNEL"}] ELSE Q
           IN  Keeps(S, IF fin THEN LocalEnd(T, id) ELSE T)
<1> DEFINE f == Headers(id, fin, FALSE)
           P == Put(S, f)
           Q == Flag(P, id, {"HEAD_SENT"})
           W == [Q EXCEPT !.streams[id].flags = @ \ {"TUNNEL"}]
           T == IF plain THEN W ELSE Q
           R == IF fin THEN LocalEnd(T, id) ELSE T
<1>1. Due(S, f) /\ f.t = "headers"
  BY HeadersDue
<1> HIDE DEF f
<1>2. Keeps(S, P) /\ GoodEnd(P) /\ Open(P) = Open(S)
  BY <1>1, PutKeeps
<1> HIDE DEF P
<1>3. {"HEAD_SENT"} \in SUBSET StreamFlags
  BY DEF StreamFlags
<1>4. Keeps(P, Q) /\ GoodEnd(Q) /\ Open(Q) = Open(S)
  BY <1>2, <1>3, FlagKeeps DEF Keeps
<1> HIDE DEF Q
<1>5. Keeps(Q, W) /\ GoodEnd(W) /\ Open(W) = Open(S)
  <2>1. id \in Open(Q)
    BY <1>4
  <2>2. Keeps(Q, W) /\ Open(W) = Open(Q)
    BY <1>4, <2>1, UnflagKeeps
  <2> HIDE DEF W
  <2> QED
    BY <1>4, <2>2 DEF Keeps
<1> HIDE DEF W
<1>6. Keeps(Q, T) /\ GoodEnd(T) /\ Open(T) = Open(S)
  BY <1>4, <1>5, KeepsItself
<1> HIDE DEF T
<1>7. Keeps(T, LocalEnd(T, id))
  BY <1>6, LocalEndKeeps
<1>8. Keeps(T, R)
  BY <1>6, <1>7, KeepsItself
<1>9. Keeps(S, R)
  BY <1>2, <1>4, <1>6, <1>8, KeepsTrans
<1> QED
  BY <1>9 DEF R, T, W, Q, P, f

LEMMA ResponseStep ==
    ASSUME H2Assumption, WindowInv, NEW id \in Ids, SubmitResponse(id)
    PROVE  WindowInv'
<1>1. PICK S : S = end["server"]
  OBVIOUS
<1>2. GoodEnd(S) /\ plan \in PlanType
  BY <1>1, InvParts DEF Ends
<1>3. id \in Open(S) /\ plan' \in PlanType
  BY <1>1, <1>2, CallLeft DEF SubmitResponse
<1>4. CASE S.pending >= CfgOut
  <2>1. Step("server", Flag(S, id, {"HBLOCKED"}))
    BY <1>1, <1>4 DEF SubmitResponse
  <2>2. {"HBLOCKED"} \in SUBSET StreamFlags
    BY DEF StreamFlags
  <2>3. PICK R : R = Flag(S, id, {"HBLOCKED"})
    OBVIOUS
  <2>4. Keeps(S, R)
    BY <1>2, <1>3, <2>2, <2>3, FlagKeeps
  <2> QED
    BY <1>1, <1>3, <2>1, <2>3, <2>4, OwnStep DEF Ends
<1>5. CASE ~(S.pending >= CfgOut)
  <2>1. PICK fin \in BOOLEAN, plain \in {FALSE, plan.tunnel} :
          LET Q == Flag(Put(S, Headers(id, fin, FALSE)), id, {"HEAD_SENT"})
              T == IF plain THEN [Q EXCEPT !.streams[id].flags = @ \ {"TUNNEL"}] ELSE Q
          IN  Step("server", IF fin THEN LocalEnd(T, id) ELSE T)
    BY <1>1, <1>5 DEF SubmitResponse
  <2> DEFINE Q == Flag(Put(S, Headers(id, fin, FALSE)), id, {"HEAD_SENT"})
             T == IF plain THEN [Q EXCEPT !.streams[id].flags = @ \ {"TUNNEL"}] ELSE Q
  <2>2. PICK R : R = IF fin THEN LocalEnd(T, id) ELSE T
    OBVIOUS
  <2>3. Step("server", R)
    BY <2>1, <2>2
  <2>4. Keeps(S, R)
    BY <1>2, <1>3, <2>2, ResponseKeeps
  <2> HIDE DEF T, Q
  <2> QED
    BY <1>1, <1>3, <2>3, <2>4, OwnStep DEF Ends
<1> QED
  BY <1>4, <1>5

LEMMA TrailersStep ==
    ASSUME H2Assumption, WindowInv, NEW e \in Ends, NEW id \in Ids, SendTrailers(e, id)
    PROVE  WindowInv'
<1>1. PICK S : S = end[e]
  OBVIOUS
<1>2. GoodEnd(S) /\ plan \in PlanType
  BY <1>1, InvParts
<1>3. id \in Open(S) /\ plan' \in PlanType
  BY <1>1, <1>2, CallLeft DEF SendTrailers
<1> DEFINE F == Flag(S, id, {"HBLOCKED"})
           P == Put(S, Headers(id, TRUE, FALSE))
           L == LocalEnd(P, id)
<1>4. PICK R : R = IF S.pending >= CfgOut THEN F ELSE L
  OBVIOUS
<1>5. Step(e, R)
  BY <1>1, <1>4 DEF SendTrailers
<1>6. Keeps(S, F)
  BY <1>2, <1>3, FlagKeeps DEF StreamFlags
<1>7. Keeps(S, L)
  <2>1. PICK f : f = Headers(id, TRUE, FALSE)
    OBVIOUS
  <2>2. Due(S, f) /\ f.t = "headers"
    BY <1>2, <1>3, <2>1, HeadersDue
  <2>3. PICK p : p = P
    OBVIOUS
  <2>4. Keeps(S, p) /\ GoodEnd(p) /\ Open(p) = Open(S)
    BY <1>2, <2>1, <2>2, <2>3, PutKeeps
  <2>5. Keeps(p, LocalEnd(p, id))
    BY <1>3, <2>4, LocalEndKeeps
  <2>6. Keeps(S, LocalEnd(p, id))
    BY <2>4, <2>5, KeepsTrans
  <2> QED
    BY <2>3, <2>6
<1> HIDE DEF F, L
<1>8. Keeps(S, R)
  BY <1>4, <1>6, <1>7
<1> QED
  BY <1>1, <1>3, <1>5, <1>8, OwnStep

LEMMA ResetStep ==
    ASSUME H2Assumption, WindowInv, NEW e \in Ends, NEW id \in Ids, Reset(e, id)
    PROVE  WindowInv'
<1>1. PICK S : S = end[e]
  OBVIOUS
<1>2. GoodEnd(S) /\ plan \in PlanType
  BY <1>1, InvParts
<1>3. id \in Open(S) /\ plan' \in PlanType
  BY <1>1, <1>2, CallLeft DEF Reset
<1>4. PICK how \in Endings : how = IF Has(S, id, "REMOTE_END") THEN "done" ELSE "ours"
  BY DEF Endings
<1>5. PICK f : f = Rst(id, "cancel")
  OBVIOUS
<1>6. PICK Q : Q = Queue(S, f)
  OBVIOUS
<1>7. PICK R : R = RemoveStream(Q, id, FALSE, how)
  OBVIOUS
<1>8. Step(e, R)
  BY <1>1, <1>4, <1>5, <1>6, <1>7 DEF Reset
<1>9. Due(S, f) /\ f.t = "rst"
  BY <1>5, RstIs DEF Codes
<1>10. Says(S, Q, f)
  BY <1>2, <1>6, <1>9, QueueIs
<1>11. Keeps(S, Q) /\ GoodEnd(Q) /\ Open(Q) = Open(S)
  BY <1>2, <1>9, <1>10, SaysNothing DEF Says, Alike, Open
<1>12. Keeps(Q, R)
  BY <1>3, <1>7, <1>11, RemoveStreamKeeps
<1>13. Keeps(S, R)
  BY <1>11, <1>12, KeepsTrans
<1> QED
  BY <1>1, <1>3, <1>8, <1>13, OwnStep

LEMMA PingStep ==
    ASSUME WindowInv, NEW e \in Ends, SendPing(e)
    PROVE  WindowInv'
<1>1. PICK S : S = end[e]
  OBVIOUS
<1>2. GoodEnd(S) /\ plan \in PlanType
  BY <1>1, InvParts
<1>3. plan' \in PlanType
  BY <1>2, CallLeft DEF SendPing
<1>4. Due(S, Ping) /\ Ping.t = "ping"
  BY DEF Due, Ping, FrameType
<1>5. PICK R : R = Put(S, Ping)
  OBVIOUS
<1>6. Keeps(S, R)
  BY <1>2, <1>4, <1>5, PutKeeps
<1>7. Step(e, R)
  BY <1>1, <1>5 DEF SendPing
<1> QED
  BY <1>1, <1>3, <1>6, <1>7, OwnStep

LEMMA ShutdownStep ==
    ASSUME WindowInv, NEW e \in Ends, Shutdown(e)
    PROVE  WindowInv'
<1>1. PICK S : S = end[e]
  OBVIOUS
<1>2. GoodEnd(S) /\ plan \in PlanType
  BY <1>1, InvParts
<1>3. plan' \in PlanType
  <2>1. plan' = [plan EXCEPT !.goodbyes = @ \ {e}]
    BY DEF Shutdown
  <2> QED
    BY <1>2, <2>1 DEF PlanType
<1>4. PICK f : f = Goaway(S.lastActed, "none")
  OBVIOUS
<1>5. Due(S, f) /\ f.t = "goaway"
  <2>1. PICK k \in Nat : k = S.lastActed
    BY <1>2, EndFields DEF GoodEnd
  <2> QED
    BY <1>4, <2>1 DEF Due, Goaway, FrameType, Codes
<1>6. PICK P : P = Put(S, f)
  OBVIOUS
<1>7. Keeps(S, P) /\ GoodEnd(P)
  BY <1>2, <1>5, <1>6, PutKeeps
<1>8. PICK R : R = [P EXCEPT !.goawaySent = TRUE]
  OBVIOUS
<1>9. IsEnd(R) /\ Alike(P, R) /\ R.out = P.out /\ R.closed = P.closed
  <2> HIDE DEF FrameType, StreamType
  <2> QED
    BY <1>7, <1>8, ZenonT(60) DEF GoodEnd, IsEnd, EndType, Open, Alike
<1>10. Keeps(S, R)
  BY <1>7, <1>9, AlikeKeeps, KeepsTrans
<1>11. Step(e, R)
  BY <1>1, <1>4, <1>6, <1>8 DEF Shutdown
<1> QED
  BY <1>1, <1>3, <1>10, <1>11, OwnStep

LEMMA ChangeStep ==
    ASSUME H2Assumption, WindowInv, Change
    PROVE  WindowInv'
<1>1. PICK S : S = end["server"]
  OBVIOUS
<1>2. GoodEnd(S) /\ plan \in PlanType
  BY <1>1, InvParts DEF Ends
<1> DEFINE C == [call : {"streams", "window", "cap"}, n : Nat]
<1>3. plan.changes \in Seq(C) /\ plan.changes # << >>
      /\ plan' = [plan EXCEPT !.changes = Tail(@)]
  BY <1>2 DEF Change, PlanType
<1>4. PICK q \in Seq(C) : q = plan.changes
  BY <1>3
<1>5. Head(q) \in C /\ Tail(q) \in Seq(C)
  <2>1. q # << >>
    BY <1>3, <1>4
  <2> HIDE DEF C
  <2> QED
    BY <2>1
<1>6. plan' \in PlanType
  <2>1. plan' = [plan EXCEPT !.changes = Tail(q)]
    BY <1>3, <1>4
  <2> QED
    BY <1>2, <1>5, <2>1 DEF PlanType
<1>7. PICK ch \in C : ch = Head(q)
  BY <1>5
<1>8. PICK R : R = CASE ch.call = "streams" -> Set(S, ch.n, S.wantWindow)
                     [] ch.call = "window" -> Set(S, S.wantStreams, ch.n)
                     [] ch.call = "cap" -> CapWindow(S, ch.n)
  OBVIOUS
<1>9. Step("server", R)
  BY <1>1, <1>4, <1>7, <1>8 DEF Change
<1>10. ch.n \in Nat /\ ch.call \in {"streams", "window", "cap"}
  OBVIOUS
<1>11. S.wantWindow \in Int /\ S.wantStreams \in Int
  BY <1>2, EndFields DEF GoodEnd
<1>12. Keeps(S, R)
  <2>1. CASE ch.call = "streams"
    <3>1. R = Set(S, ch.n, S.wantWindow)
      BY <1>8, <2>1
    <3> QED
      BY <1>2, <1>10, <1>11, <3>1, SetKeeps
  <2>2. CASE ch.call = "window"
    <3>1. R = Set(S, S.wantStreams, ch.n)
      BY <1>8, <2>2
    <3> QED
      BY <1>2, <1>10, <1>11, <3>1, SetKeeps
  <2>3. CASE ch.call = "cap"
    <3>1. R = CapWindow(S, ch.n)
      BY <1>8, <2>3
    <3> QED
      BY <1>2, <1>10, <3>1, CapWindowKeeps
  <2> QED
    BY <1>10, <2>1, <2>2, <2>3
<1> QED
  BY <1>1, <1>6, <1>9, <1>12, OwnStep DEF Ends

LEMMA RefusedStep ==
    ASSUME H2Assumption, WindowInv, NEW e \in Ends, DueRefused(e)
    PROVE  WindowInv'
<1>1. PICK S : S = end[e]
  OBVIOUS
<1>2. GoodEnd(S) /\ plan \in PlanType
  BY <1>1, InvParts
<1>3. plan' \in PlanType
  BY <1>2 DEF DueRefused
<1>4. PICK id \in LeftOut(S) :
        Step(e, [RemoveStream(S, id, FALSE, "peer") EXCEPT !.refused = @ \cup {id}])
  BY <1>1 DEF DueRefused
<1>5. id \in Open(S) /\ id \in Ids
  BY <1>2, <1>4, EndFields DEF LeftOut, BeyondLast, GoodEnd
<1>6. PICK Q : Q = RemoveStream(S, id, FALSE, "peer")
  OBVIOUS
<1>7. Keeps(S, Q) /\ GoodEnd(Q)
  <2>1. "peer" \in Endings
    BY DEF Endings
  <2>2. Keeps(S, Q)
    BY <1>2, <1>5, <1>6, <2>1, RemoveStreamKeeps
  <2> QED
    BY <2>2 DEF Keeps
<1>8. PICK R : R = [Q EXCEPT !.refused = @ \cup {id}]
  OBVIOUS
<1>9. IsEnd(R) /\ Alike(Q, R) /\ R.out = Q.out /\ R.closed = Q.closed
  <2> HIDE DEF FrameType, StreamType
  <2> QED
    <3>1. Q \in EndType(Open(Q)) /\ Open(Q) \subseteq Ids
      BY <1>7 DEF GoodEnd, IsEnd
    <3>2. Q.refused \cup {id} \in SUBSET Ids
      BY <1>5, <3>1 DEF EndType
    <3>3. R = [Q EXCEPT !.refused = Q.refused \cup {id}]
      BY <1>8
    <3>4. R \in EndType(Open(Q))
      BY <3>1, <3>2, <3>3, ZenonT(60) DEF EndType
    <3>5. Alike(Q, R) /\ R.out = Q.out /\ R.closed = Q.closed
      BY <3>1, <3>3 DEF EndType, Alike
    <3> QED
      BY <3>1, <3>4, <3>5 DEF IsEnd, Open, Alike
<1>10. Keeps(S, R)
  BY <1>7, <1>9, AlikeKeeps, KeepsTrans
<1>11. Step(e, R)
  BY <1>4, <1>6, <1>8
<1> QED
  BY <1>1, <1>3, <1>10, <1>11, OwnStep

LEMMA WritableStep ==
    ASSUME WindowInv, NEW e \in Ends, DueWritable(e)
    PROVE  WindowInv'
<1>1. PICK S : S = end[e]
  OBVIOUS
<1>2. GoodEnd(S) /\ plan \in PlanType
  BY <1>1, InvParts
<1>3. plan' \in PlanType
  BY <1>2 DEF DueWritable
<1>4. PICK id \in Writable(S) :
        Step(e, [S EXCEPT !.sweepGoaway = FALSE,
                          !.streams[id].flags = @ \ {"BLOCKED", "HBLOCKED"}])
  BY <1>1 DEF DueWritable
<1>5. id \in Open(S)
  BY <1>4 DEF Writable
<1>6. PICK Q : Q = [S EXCEPT !.sweepGoaway = FALSE]
  OBVIOUS
<1>7. IsEnd(Q) /\ Alike(S, Q) /\ Q.out = S.out /\ Q.closed = S.closed
  <2> HIDE DEF FrameType, StreamType
  <2> QED
    BY <1>2, <1>6, ZenonT(60) DEF GoodEnd, IsEnd, EndType, Open, Alike
<1>8. Keeps(S, Q) /\ GoodEnd(Q) /\ Open(Q) = Open(S)
  BY <1>2, <1>7, AlikeKeeps DEF Keeps, Alike, Open
<1>9. PICK R : R = [Q EXCEPT !.streams[id].flags = @ \ {"BLOCKED", "HBLOCKED"}]
  OBVIOUS
<1>10. Keeps(Q, R)
  BY <1>5, <1>8, <1>9, UnflagKeeps
<1>11. Keeps(S, R)
  BY <1>8, <1>10, KeepsTrans
<1>12. R = [S EXCEPT !.sweepGoaway = FALSE,
                     !.streams[id].flags = @ \ {"BLOCKED", "HBLOCKED"}]
  <2> HIDE DEF FrameType, StreamType
  <2> QED
    BY <1>2, <1>6, <1>9 DEF GoodEnd, IsEnd, EndType
<1> QED
  BY <1>1, <1>3, <1>4, <1>11, <1>12, OwnStep

LEMMA CloseStep ==
    ASSUME WindowInv, NEW e \in Ends, DueClose(e)
    PROVE  WindowInv'
<1>1. PICK S : S = end[e]
  OBVIOUS
<1>2. GoodEnd(S) /\ plan \in PlanType
  BY <1>1, InvParts
<1>3. plan' \in PlanType
  BY <1>2 DEF DueClose
<1>4. PICK Q : Q = Swept(S)
  OBVIOUS
<1>5. Keeps(S, Q) /\ GoodEnd(Q)
  BY <1>2, <1>4, SweptKeeps
<1>6. PICK R : R = [Q EXCEPT !.closed = TRUE]
  OBVIOUS
<1>7. IsEnd(R) /\ Alike(Q, R) /\ R.out = Q.out /\ R.closed
  <2> HIDE DEF FrameType, StreamType
  <2> QED
    BY <1>5, <1>6, ZenonT(60) DEF GoodEnd, IsEnd, EndType, Open, Alike
<1>8. Keeps(S, R)
  BY <1>5, <1>7, AlikeKeeps, KeepsTrans
<1>9. Step(e, R)
  BY <1>1, <1>4, <1>6 DEF DueClose
<1> QED
  BY <1>1, <1>3, <1>8, <1>9, OwnStep

LEMMA NothingStep ==
    ASSUME WindowInv, NEW e \in Ends, FeedNothing(e)
    PROVE  WindowInv'
<1>1. PICK S : S = end[e]
  OBVIOUS
<1>2. GoodEnd(S) /\ plan \in PlanType
  BY <1>1, InvParts
<1>3. plan' \in PlanType
  BY <1>2 DEF FeedNothing
<1>4. PICK R : R = Swept(S)
  OBVIOUS
<1>5. Keeps(S, R)
  BY <1>2, <1>4, SweptKeeps
<1>6. Step(e, R)
  BY <1>1, <1>4 DEF FeedNothing
<1> QED
  BY <1>1, <1>3, <1>5, <1>6, OwnStep

LEMMA PieceStep ==
    ASSUME H2Assumption, WindowInv, NEW e \in Ends, ReadPiece(e)
    PROVE  WindowInv'
<1>1. PICK S : S = end[e]
  OBVIOUS
<1>2. GoodEnd(S) /\ plan \in PlanType
  BY <1>1, InvParts
<1>3. plan' \in PlanType
  BY <1>2 DEF ReadPiece
<1>4. PICK n \in Smaller(1, S.rd.left)..S.rd.left : Step(e, OnPiece(Swept(S), n))
  BY <1>1 DEF ReadPiece
<1>5. PICK Q : Q = Swept(S)
  OBVIOUS
<1>6. Keeps(S, Q) /\ GoodEnd(Q) /\ Q.rd = S.rd
  BY <1>2, <1>5, SweptKeeps
<1>7. S.rd.left \in Nat
  <2>1. S.rd \in [id : Ids \cup {0}, left : Nat, fin : BOOLEAN, drop : BOOLEAN]
    <3> HIDE DEF FrameType, StreamType
    <3> QED
      BY <1>2 DEF GoodEnd, IsEnd, EndType
  <2> QED
    BY <2>1
<1>8. n \in Nat /\ n <= Q.rd.left
  <2>1. PICK k \in Nat : k = S.rd.left
    BY <1>7
  <2>2. n \in Smaller(1, k)..k
    BY <2>1
  <2>3. Smaller(1, k) \in Nat
    BY DEF Smaller
  <2>4. n \in Nat /\ n <= k
    BY <2>2, <2>3
  <2> QED
    BY <1>6, <2>1, <2>4
<1>9. PICK R : R = OnPiece(Q, n)
  OBVIOUS
<1>10. Keeps(Q, R)
  BY <1>6, <1>8, <1>9, OnPieceKeeps
<1>11. Keeps(S, R) /\ Step(e, R)
  BY <1>4, <1>5, <1>6, <1>9, <1>10, KeepsTrans
<1> QED
  BY <1>1, <1>3, <1>11, OwnStep

LEMMA ConsumedStep ==
    ASSUME H2Assumption, WindowInv, NEW e \in Ends, NEW id \in Ids, Consumed(e, id)
    PROVE  WindowInv'
<1>1. PICK S : S = end[e]
  OBVIOUS
<1>2. GoodEnd(S) /\ plan \in PlanType
  BY <1>1, InvParts
<1>3. plan' \in PlanType /\ id \in Open(S)
  BY <1>1, <1>2 DEF Consumed
<1>4. PICK n \in 1..S.streams[id].held, fast \in BOOLEAN :
        Step(e, ConnCredit(StreamCredit([S EXCEPT !.streams[id].held = @ - n], id, n, fast), n))
  BY <1>1 DEF Consumed
<1>5. S.streams[id] \in StreamType
  BY <1>2, <1>3, EndFields DEF GoodEnd
<1>6. n \in Nat /\ S.streams[id].held - n \in Nat
  <2>1. PICK k \in Nat : k = S.streams[id].held
    BY <1>5 DEF StreamType
  <2>2. n \in 1..k
    BY <2>1
  <2>3. n \in Nat /\ k - n \in Nat
    BY <2>2
  <2> QED
    BY <2>1, <2>3
<1>7. PICK s : s = [S.streams[id] EXCEPT !.held = @ - n]
  OBVIOUS
<1>8. s \in StreamType /\ s.send = S.streams[id].send /\ s.recv = S.streams[id].recv
  BY <1>5, <1>6, <1>7 DEF StreamType
<1>9. PICK T : T = [S EXCEPT !.streams[id].held = @ - n]
  OBVIOUS
<1>10. T = [S EXCEPT !.streams[id] = s]
  BY <1>7, <1>9
<1>11. Keeps(S, T) /\ GoodEnd(T) /\ Open(T) = Open(S)
  BY <1>2, <1>3, <1>8, <1>10, StreamKeeps DEF Keeps
<1>12. PICK C : C = StreamCredit(T, id, n, fast)
  OBVIOUS
<1>13. Keeps(T, C) /\ GoodEnd(C)
  <2>1. Keeps(T, C)
    BY <1>3, <1>6, <1>11, <1>12, StreamCreditKeeps
  <2> QED
    BY <2>1 DEF Keeps
<1>14. PICK R : R = ConnCredit(C, n)
  OBVIOUS
<1>15. Keeps(C, R)
  BY <1>6, <1>13, <1>14, ConnCreditKeeps
<1>16. Keeps(S, R)
  BY <1>11, <1>13, <1>15, KeepsTrans
<1>17. Step(e, R)
  BY <1>4, <1>9, <1>12, <1>14
<1> QED
  BY <1>1, <1>3, <1>16, <1>17, OwnStep

(* The DATA frames of one call: what they carry leaves both windows.       *)
Bears(frames, id, take) ==
    /\ frames \in Seq(FrameType)
    /\ \A i \in DOMAIN frames : frames[i].t = "data" /\ frames[i].id = id
    /\ \A ids : /\ id \in ids => Carried(frames, "data", ids) = take
                /\ id \notin ids => Carried(frames, "data", ids) = 0
    /\ \A ids : Carried(frames, "window", ids) = 0

Spends(S, T, id, take, frames) ==
    /\ ~S.closed /\ id \in Open(S) /\ take \in Nat /\ Bears(frames, id, take)
    /\ \E pending \in Int :
         T = [S EXCEPT !.out = S.out \o frames, !.pending = pending,
                       !.streams = [S.streams EXCEPT ![id].send = @ - take],
                       !.sendWin = S.sendWin - take]

LEMMA SentKeeps ==
    ASSUME NEW S, GoodEnd(S), NEW T, NEW id, NEW take, NEW frames, Spends(S, T, id, take, frames)
    PROVE  Keeps(S, T) /\ Open(T) = Open(S)
<1>x. ~S.closed /\ id \in Open(S) /\ take \in Nat /\ Bears(frames, id, take)
  BY DEF Spends
<1>y. PICK pending \in Int :
        T = [S EXCEPT !.out = S.out \o frames, !.pending = pending,
                      !.streams = [S.streams EXCEPT ![id].send = @ - take],
                      !.sendWin = S.sendWin - take]
  BY DEF Spends
<1> DEFINE s == [S.streams[id] EXCEPT !.send = @ - take]
           ss == [S.streams EXCEPT ![id].send = @ - take]
           out == S.out \o frames
           win == S.sendWin - take
           U == [S EXCEPT !.streams = ss]
           R == [U EXCEPT !.out = out, !.pending = pending, !.sendWin = win]
<1>0. IsEnd(S)
  BY DEF GoodEnd
<1>1. /\ S.streams \in [Open(S) -> StreamType] /\ Open(S) \in SUBSET Ids
      /\ \A i \in Open(S) : i \in Ids /\ S.streams[i] \in StreamType
      /\ \A i \in Open(S) : S.streams[i].send \in Int /\ S.streams[i].recv \in Int
      /\ S.sendWin \in Int /\ S.recvWin \in Int /\ S.pending \in Int /\ S.out \in Seq(FrameType)
      /\ S.peerWindow \in Int /\ S.localWindow \in Int
  BY <1>0, EndFields
<1>a. S.streams[id] \in StreamType
  BY <1>1, <1>x
<1>b. S.streams \in [Open(S) -> StreamType] /\ Open(S) \in SUBSET Ids
  BY <1>1
<1>c. S.out \in Seq(FrameType)
  BY <1>1
<1>d. frames \in Seq(FrameType)
  BY <1>x DEF Bears
<1>e. out = S.out \o frames
  OBVIOUS
<1>f. win = S.sendWin - take /\ win \in Int
  <2>1. PICK w \in Int : w = S.sendWin
    BY <1>1
  <2>2. w - take \in Int
    BY <1>x
  <2> QED
    BY <2>1, <2>2
<1>g. ss = [S.streams EXCEPT ![id] = s]
  OBVIOUS
<1>2. s \in StreamType /\ s.send = S.streams[id].send - take /\ s.recv = S.streams[id].recv
  BY <1>a, <1>x DEF StreamType
<1>3. R = T
  <2> HIDE DEF FrameType, StreamType, ss, out, win
  <2>1. T = [S EXCEPT !.out = out, !.pending = pending, !.streams = ss, !.sendWin = win]
    BY <1>y DEF ss, out, win
  <2> QED
    BY <1>0, <2>1 DEF IsEnd, EndType
<1> HIDE DEF StreamType, s, ss, out, win
<1>4. ss \in [Open(S) -> StreamType]
  BY <1>1, <1>2, <1>g
<1>5. \A i \in Open(S) : /\ ss[i].send = IF i = id THEN S.streams[i].send - take ELSE S.streams[i].send
                         /\ ss[i].recv = S.streams[i].recv
  BY <1>1, <1>2, <1>g
<1>6. out \in Seq(FrameType) /\ pending \in Int /\ win \in Int
  <2> HIDE DEF FrameType
  <2> QED
    BY <1>c, <1>d, <1>e, <1>f
<1>7. /\ IsEnd(U) /\ Open(U) = Open(S) /\ U.streams = ss
      /\ U.server = S.server /\ U.nextId = S.nextId /\ U.lastPeerId = S.lastPeerId
      /\ U.sendWin = S.sendWin /\ U.recvWin = S.recvWin
      /\ U.localWindow = S.localWindow /\ U.peerWindow = S.peerWindow
      /\ U.out = S.out /\ U.closed = S.closed
  BY <1>0, <1>b, <1>4, OtherStreams
<1> HIDE DEF U
<1>8. /\ IsEnd(R) /\ R.streams = U.streams
      /\ R.server = U.server /\ R.nextId = U.nextId /\ R.lastPeerId = U.lastPeerId
      /\ R.sendWin = win /\ R.recvWin = U.recvWin
      /\ R.localWindow = U.localWindow /\ R.peerWindow = U.peerWindow
      /\ R.out = out /\ R.closed = U.closed
  <2> HIDE DEF FrameType, StreamType, R
  <2>1. U \in EndType(Open(U)) /\ Open(U) \subseteq Ids
    BY <1>7 DEF IsEnd
  <2>2. R \in EndType(Open(U))
    BY <1>6, <2>1, ZenonT(60) DEF EndType, R
  <2>3. /\ R.streams = U.streams
        /\ R.server = U.server /\ R.nextId = U.nextId /\ R.lastPeerId = U.lastPeerId
        /\ R.sendWin = win /\ R.recvWin = U.recvWin
        /\ R.localWindow = U.localWindow /\ R.peerWindow = U.peerWindow
        /\ R.out = out /\ R.closed = U.closed
    BY <2>1 DEF EndType, R
  <2>4. Open(R) = Open(U)
    BY <2>3 DEF Open
  <2> QED
    BY <2>1, <2>2, <2>3, <2>4 DEF IsEnd
<1> HIDE DEF R
<1>9. Known(R) = Known(S) /\ Open(R) = Open(S) /\ Known(S) \in Nat
  BY <1>7, <1>8 DEF Known, Open, GoodEnd
<1>10. GoodEnd(R)
  <2>1. ASSUME NEW i \in DOMAIN R.out, R.out[i].t \in {"headers", "data", "window"}
        PROVE  R.out[i].id <= Known(S)
    <3>1. \/ i \in DOMAIN S.out /\ R.out[i] = S.out[i]
          \/ \E j \in DOMAIN frames : R.out[i] = frames[j]
      <4>1. Len(out) = Len(S.out) + Len(frames)
            /\ \A k \in 1 .. Len(out) :
                 out[k] = IF k <= Len(S.out) THEN S.out[k] ELSE frames[k - Len(S.out)]
        <5>1. PICK a \in Seq(FrameType) : a = S.out
          BY <1>c
        <5>2. Len(a \o frames) = Len(a) + Len(frames)
              /\ \A k \in 1 .. Len(a) + Len(frames) :
                   (a \o frames)[k] = IF k <= Len(a) THEN a[k] ELSE frames[k - Len(a)]
          BY <1>d, ConcatProperties, Zenon
        <5> QED
          BY <1>e, <5>1, <5>2
      <4>2. Len(S.out) \in Nat /\ Len(frames) \in Nat /\ DOMAIN S.out = 1 .. Len(S.out)
            /\ DOMAIN frames = 1 .. Len(frames) /\ DOMAIN R.out = 1 .. Len(out)
        <5>1. R.out = out
          BY <1>8
        <5> HIDE DEF FrameType
        <5> QED
          BY <1>c, <1>d, <1>6, <5>1
      <4>3. CASE i <= Len(S.out)
        BY <1>8, <2>1, <4>1, <4>2, <4>3
      <4>4. CASE ~(i <= Len(S.out))
        <5>1. i \in 1 .. Len(out)
          BY <2>1, <4>2
        <5>2. PICK j : j = i - Len(S.out)
          OBVIOUS
        <5>3. out[i] = frames[j]
          BY <4>1, <4>4, <5>1, <5>2
        <5>4. Len(out) = Len(S.out) + Len(frames) /\ Len(S.out) \in Nat /\ Len(frames) \in Nat
          BY <4>1, <4>2
        <5>5. j \in 1 .. Len(frames)
          <6>1. PICK a \in Nat : a = Len(S.out)
            BY <5>4
          <6>2. PICK b \in Nat : b = Len(frames)
            BY <5>4
          <6>3. i \in 1 .. a + b /\ ~(i <= a) /\ j = i - a
            BY <4>4, <5>1, <5>2, <5>4, <6>1, <6>2
          <6>4. j \in 1 .. b
            BY <6>3
          <6> QED
            BY <6>2, <6>4
        <5>6. R.out = out
          BY <1>8
        <5> QED
          BY <4>2, <5>3, <5>5, <5>6
      <4> QED
        BY <4>3, <4>4
    <3>2. CASE i \in DOMAIN S.out /\ R.out[i] = S.out[i]
      BY <2>1, <3>2 DEF GoodEnd, OfKnown
    <3>3. CASE \E j \in DOMAIN frames : R.out[i] = frames[j]
      <4>1. PICK j \in DOMAIN frames : R.out[i] = frames[j]
        BY <3>3
      <4>2. frames[j].id = id
        BY <1>x DEF Bears
      <4> QED
        BY <1>x, <4>1, <4>2 DEF GoodEnd, OfKnown
    <3> QED
      BY <3>1, <3>2, <3>3
  <2> QED
    BY <1>8, <1>9, <2>1 DEF GoodEnd, OfKnown
<1>11. \A ids : /\ Carried(R.out, "data", ids)
                     = Carried(S.out, "data", ids) + (IF id \in ids THEN take ELSE 0)
                /\ Carried(R.out, "window", ids) = Carried(S.out, "window", ids)
                /\ Carried(S.out, "data", ids) \in Nat
  <2>1. ASSUME NEW ids
        PROVE  /\ Carried(R.out, "data", ids)
                     = Carried(S.out, "data", ids) + (IF id \in ids THEN take ELSE 0)
               /\ Carried(R.out, "window", ids) = Carried(S.out, "window", ids)
               /\ Carried(S.out, "data", ids) \in Nat
    <3>1. Carried(S.out, "data", ids) \in Nat /\ Carried(S.out, "window", ids) \in Nat
      BY <1>1, CarriedIs
    <3>2. /\ Carried(out, "data", ids) = Carried(S.out, "data", ids) + Carried(frames, "data", ids)
          /\ Carried(out, "window", ids)
               = Carried(S.out, "window", ids) + Carried(frames, "window", ids)
      <4>1. PICK a \in Seq(FrameType) : a = S.out
        BY <1>c
      <4>2. /\ Carried(a \o frames, "data", ids) = Carried(a, "data", ids) + Carried(frames, "data", ids)
            /\ Carried(a \o frames, "window", ids)
                 = Carried(a, "window", ids) + Carried(frames, "window", ids)
        BY <1>d, CarriedConcat
      <4> QED
        BY <1>e, <4>1, <4>2
    <3>3. Carried(frames, "data", ids) = (IF id \in ids THEN take ELSE 0)
          /\ Carried(frames, "window", ids) = 0
      BY <1>x DEF Bears
    <3> QED
      BY <1>8, <3>1, <3>2, <3>3
  <2> QED
    BY <2>1
<1>12. ConnSends(R) = ConnSends(S) /\ ConnTakes(R) = ConnTakes(S)
  <2>1. id \in Ids
    BY <1>x, <1>1
  <2>2. Carried(R.out, "data", Ids) = Carried(S.out, "data", Ids) + take
        /\ Carried(S.out, "data", Ids) \in Nat
    BY <1>11, <2>1
  <2>3. ConnSends(R) = ConnSends(S)
    <3>1. PICK w \in Int : w = S.sendWin
      BY <1>1
    <3>2. PICK c \in Nat : c = Carried(S.out, "data", Ids)
      BY <2>2
    <3>3. R.sendWin = w - take /\ Carried(R.out, "data", Ids) = c + take
      BY <1>8, <1>f, <2>2, <3>1, <3>2
    <3>4. ConnSends(R) = w - take + (c + take) /\ ConnSends(S) = w + c
      BY <3>1, <3>2, <3>3 DEF ConnSends
    <3> QED
      BY <1>x, <3>4
  <2> QED
    BY <1>7, <1>8, <1>11, <2>3 DEF ConnTakes
<1>13. ASSUME NEW i \in Open(S)
       PROVE  Sends(R, i) = Sends(S, i) /\ Takes(R, i) = Takes(S, i)
  <2>1. R.streams[i].send = (IF i = id THEN S.streams[i].send - take ELSE S.streams[i].send)
        /\ R.streams[i].recv = S.streams[i].recv
    BY <1>5, <1>7, <1>8
  <2>2. Carried(R.out, "data", {i}) = Carried(S.out, "data", {i}) + (IF i = id THEN take ELSE 0)
        /\ Carried(R.out, "window", {i}) = Carried(S.out, "window", {i})
        /\ Carried(S.out, "data", {i}) \in Nat
    BY <1>11
  <2>3. Sends(R, i) = Sends(S, i)
    <3>1. S.streams[i].send \in Int /\ R.peerWindow = S.peerWindow /\ S.peerWindow \in Int
      BY <1>1, <1>7, <1>8
    <3>2. Sends(R, i) = R.streams[i].send - S.peerWindow + Carried(R.out, "data", {i})
          /\ Sends(S, i) = S.streams[i].send - S.peerWindow + Carried(S.out, "data", {i})
      BY <3>1 DEF Sends
    <3>3. PICK a \in Int : a = S.streams[i].send
      BY <3>1
    <3>4. PICK b \in Int : b = S.peerWindow
      BY <3>1
    <3>5. PICK c \in Nat : c = Carried(S.out, "data", {i})
      BY <2>2
    <3>6. CASE i = id
      <4>1. R.streams[i].send = a - take /\ Carried(R.out, "data", {i}) = c + take
        BY <2>1, <2>2, <3>3, <3>5, <3>6
      <4>2. Sends(R, i) = a - take - b + (c + take)
        BY <3>2, <3>4, <4>1
      <4>3. Sends(S, i) = a - b + c
        BY <3>2, <3>3, <3>4, <3>5
      <4> QED
        BY <1>x, <4>2, <4>3
    <3>7. CASE i # id
      <4>1. R.streams[i].send = a /\ Carried(R.out, "data", {i}) = c
        BY <2>1, <2>2, <3>3, <3>5, <3>7
      <4> QED
        BY <3>2, <3>3, <3>5, <4>1
    <3> QED
      BY <3>6, <3>7
  <2>4. Takes(R, i) = Takes(S, i)
    BY <1>7, <1>8, <2>1, <2>2 DEF Takes
  <2> QED
    BY <2>3, <2>4
<1>14. Keeps(S, R)
  BY <1>7, <1>8, <1>9, <1>10, <1>12, <1>13 DEF Keeps
<1> QED
  BY <1>3, <1>9, <1>14

LEMMA TakenIs ==
    ASSUME H2Assumption, NEW S, IsEnd(S), NEW id \in Open(S), NEW n \in Nat
    PROVE  Taken(S, id, n) \in Nat /\ Taken(S, id, n) <= n
<1>1. S.streams[id].send \in Int /\ S.sendWin \in Int /\ S.pending \in Int
  BY EndFields
<1>2. CfgOut \in Int
  BY DEF H2Assumption
<1>3. PICK a \in Nat : a = SendRoom(S, id)
  BY <1>1 DEF SendRoom, Larger, Smaller
<1>4. PICK b \in Nat : b = Larger(0, CfgOut - S.pending)
  BY <1>1, <1>2 DEF Larger
<1>5. Smaller(Smaller(n, a), b) \in Nat /\ Smaller(Smaller(n, a), b) <= n
  BY DEF Smaller
<1> QED
  BY <1>3, <1>4, <1>5 DEF Taken

LEMMA FramesBear ==
    ASSUME H2Assumption, NEW id \in Ids, NEW take \in Nat, NEW last \in BOOLEAN
    PROVE  Bears(IF take > 0 \/ last THEN DataFrames(id, take, last) ELSE << >>, id, take)
<1>1. CASE take > 0 \/ last
  <2>1. PICK d : d = DataFrames(id, take, last)
    OBVIOUS
  <2>2. \A ids : /\ d \in Seq(FrameType)
                 /\ \A i \in DOMAIN d : d[i].t = "data" /\ d[i].id = id
                 /\ id \in ids => Carried(d, "data", ids) = take
                 /\ id \notin ids => Carried(d, "data", ids) = 0
                 /\ Carried(d, "window", ids) = 0
    <3>1. ASSUME NEW ids PROVE DataFrames(id, take, last) \in Seq(FrameType)
      BY CarriedData
    <3>2. \A i \in DOMAIN DataFrames(id, take, last) :
            DataFrames(id, take, last)[i].t = "data" /\ DataFrames(id, take, last)[i].id = id
      BY CarriedData
    <3>3. ASSUME NEW ids, id \in ids PROVE Carried(DataFrames(id, take, last), "data", ids) = take
      BY <3>3, CarriedData
    <3>4. ASSUME NEW ids, id \notin ids PROVE Carried(DataFrames(id, take, last), "data", ids) = 0
      BY <3>4, CarriedData
    <3>5. ASSUME NEW ids PROVE Carried(DataFrames(id, take, last), "window", ids) = 0
      BY CarriedData
    <3> QED
      BY <2>1, <3>1, <3>2, <3>3, <3>4, <3>5
  <2>3. Bears(d, id, take)
    BY <2>2 DEF Bears
  <2> QED
    BY <1>1, <2>1, <2>3
<1>2. CASE ~(take > 0 \/ last)
  <2>1. PICK d : d = << >>
    OBVIOUS
  <2>2. d \in Seq(FrameType) /\ DOMAIN d = {}
    BY <2>1
  <2>3. \A kind \in {"data", "window"} : \A ids : Carried(d, kind, ids) = 0
    BY <2>2, CarriedNone
  <2>4. take = 0
    BY <1>2
  <2>5. Bears(d, id, take)
    BY <2>2, <2>3, <2>4 DEF Bears
  <2> QED
    BY <1>2, <2>1, <2>5
<1> QED
  BY <1>1, <1>2

LEMMA DataKeeps ==
    ASSUME H2Assumption, NEW S, GoodEnd(S), ~S.closed, NEW id \in Open(S), NEW n \in Nat,
           NEW fin \in BOOLEAN
    PROVE  Keeps(S, Sent(S, id, n, fin))
<1>1. PICK take \in Nat : take = Taken(S, id, n)
  BY TakenIs DEF GoodEnd
<1>2. PICK last \in BOOLEAN : last = (take = n /\ fin)
  OBVIOUS
<1>3. PICK frames : frames = IF take > 0 \/ last THEN DataFrames(id, take, last) ELSE << >>
  OBVIOUS
<1>4. id \in Ids
  BY EndFields DEF GoodEnd
<1>5. Bears(frames, id, take)
  BY <1>3, <1>4, FramesBear
<1>7. PICK pending \in Int :
        pending = S.pending + (IF frames = << >> THEN 0 ELSE Larger(take, 1))
  <2>1. PICK k \in Int : k = S.pending
    BY EndFields DEF GoodEnd
  <2>2. Larger(take, 1) \in Int
    BY DEF Larger
  <2>3. PICK x \in Int : x = IF frames = << >> THEN 0 ELSE Larger(take, 1)
    BY <2>2
  <2>4. k + x \in Int
    OBVIOUS
  <2> QED
    BY <2>1, <2>3, <2>4
<1>10. PICK T : T = [S EXCEPT !.out = S.out \o frames, !.pending = pending,
                              !.streams = [S.streams EXCEPT ![id].send = @ - take],
                              !.sendWin = S.sendWin - take]
  OBVIOUS
<1>11. Keeps(S, T) /\ Open(T) = Open(S)
  <2>1. Spends(S, T, id, take, frames)
    BY <1>5, <1>10 DEF Spends
  <2> QED
    BY <2>1, SentKeeps
<1>12. GoodEnd(T) /\ id \in Open(T)
  BY <1>11 DEF Keeps
<1>13. Keeps(T, Flag(T, id, {"BLOCKED"}))
  BY <1>12, FlagKeeps DEF StreamFlags
<1>14. Keeps(T, LocalEnd(T, id))
  BY <1>12, LocalEndKeeps
<1>15. PICK R : R = IF take < n THEN Flag(T, id, {"BLOCKED"})
                    ELSE IF fin THEN LocalEnd(T, id) ELSE T
  OBVIOUS
<1>16. Keeps(S, R)
  BY <1>11, <1>12, <1>13, <1>14, <1>15, KeepsItself, KeepsTrans
<1>17. R = Sent(S, id, n, fin)
  <2>1. T = [S EXCEPT !.out = @ \o frames,
                      !.pending = @ + (IF frames = << >> THEN 0 ELSE Larger(take, 1)),
                      !.streams[id].send = @ - take, !.sendWin = @ - take]
    BY <1>7, <1>10
  <2>2. DataFrames(id, take, last) = DataFrames(id, take, take = n /\ fin)
    BY <1>2
  <2>3. frames = IF take > 0 \/ (take = n /\ fin)
                   THEN DataFrames(id, take, take = n /\ fin) ELSE << >>
    BY <1>2, <1>3, <2>2
  <2> QED
    BY <1>1, <1>15, <2>1, <2>3 DEF Sent
<1> QED
  BY <1>16, <1>17

(* What is sent of a body is no longer left of it.                         *)
LEMMA BodyLeft ==
    ASSUME NEW p \in PlanType, NEW e \in Ends, NEW take \in Nat, take <= p.body[e]
    PROVE  [p EXCEPT !.body[e] = @ - take] \in PlanType
<1>1. p.body \in [Ends -> Nat]
  BY DEF PlanType
<1>2. PICK k \in Nat : k = p.body[e] - take
  BY <1>1
<1>3. PICK body \in [Ends -> Nat] : body = [p.body EXCEPT ![e] = k]
  BY <1>1
<1>4. [p EXCEPT !.body[e] = @ - take] = [p EXCEPT !.body = body]
  BY <1>2, <1>3
<1>5. [p EXCEPT !.body = body] \in PlanType
  BY DEF PlanType
<1> QED
  BY <1>4, <1>5

LEMMA DataStep ==
    ASSUME H2Assumption, WindowInv, NEW e \in Ends, NEW id \in Ids, SendData(e, id)
    PROVE  WindowInv'
<1>1. PICK S : S = end[e]
  OBVIOUS
<1>2. GoodEnd(S) /\ plan \in PlanType
  BY <1>1, InvParts
<1>3. id \in Open(S) /\ ~S.closed
  BY <1>1 DEF SendData
<1>4. PICK p \in PlanType : p = plan
  BY <1>2
<1>5. p.body[e] \in Nat
  BY DEF PlanType
<1>6. PICK n \in 0..p.body[e], fin \in BOOLEAN :
        Step(e, Sent(S, id, n, fin)) /\ plan' = [p EXCEPT !.body[e] = @ - Taken(S, id, n)]
  BY <1>1, <1>4 DEF SendData
<1>7. n \in Nat /\ n <= p.body[e]
  BY <1>5
<1>8. PICK take : take = Taken(S, id, n)
  OBVIOUS
<1>9. take \in Nat /\ take <= n
  BY <1>2, <1>3, <1>7, <1>8, TakenIs DEF GoodEnd
<1>10. Keeps(S, Sent(S, id, n, fin))
  BY <1>2, <1>3, <1>7, DataKeeps
<1>11. plan' \in PlanType
  <2>1. take <= p.body[e]
    BY <1>5, <1>7, <1>9
  <2> QED
    BY <1>6, <1>8, <1>9, <2>1, BodyLeft
<1> QED
  BY <1>1, <1>6, <1>10, <1>11, OwnStep

-----------------------------------------------------------------------------
(* The beginning: what the opening offers beyond the default window is     *)
(* under way.                                                              *)
LEMMA CreatedIs ==
    ASSUME H2Assumption, NEW server \in BOOLEAN
    PROVE  LET S == Created(server) IN
           /\ GoodEnd(S) /\ S.server = server /\ Open(S) = {}
           /\ S.nextId = 1 /\ S.lastPeerId = 0
           /\ ConnSends(S) = DefaultWindow /\ ConnTakes(S) = DefaultWindow
<1> DEFINE streams == IF server THEN ServerStreams ELSE ClientStreams
           window == IF server THEN ServerWindow ELSE DefaultWindow
           said == Settings(streams, IF window = DefaultWindow THEN -1 ELSE window)
           more == Window(0, window - DefaultWindow)
           first == IF window > DefaultWindow THEN <<said, more>> ELSE <<said>>
           S == Created(server)
<1>1. streams \in Nat /\ window \in Nat /\ DefaultWindow \in Nat /\ MaxId \in Nat /\ ClientStreams \in Nat
  BY DEF H2Assumption
<1> HIDE DEF streams, window
<1>2. said \in FrameType /\ said.t = "settings"
  BY <1>1 DEF Settings, FrameType
<1>3. more.t = "window" /\ more.id = 0 /\ more.n = window - DefaultWindow
      /\ (window > DefaultWindow => more \in FrameType)
  BY <1>1 DEF Window, FrameType
<1> HIDE DEF said, more
<1>4. /\ first \in Seq(FrameType) /\ Len(first) \in Nat
      /\ \A i \in DOMAIN first : first[i].t \in {"headers", "data", "window"} => first[i].id <= 0
      /\ \A i \in DOMAIN first : first[i].t # "data"
      /\ Carried(first, "window", {0}) = IF window > DefaultWindow THEN window - DefaultWindow ELSE 0
  <2> HIDE DEF FrameType
  <2>1. CASE window > DefaultWindow
    <3>1. more \in FrameType /\ said \in FrameType
      BY <1>2, <1>3, <2>1
    <3>2. first = <<said, more>>
      BY <2>1
    <3>3. first = Append(<<said>>, more)
      BY <3>1, <3>2
    <3>4. Carried(<<said>>, "window", {0}) = 0 /\ <<said>> \in Seq(FrameType)
      <4>1. Carries(said, "window", {0}) = 0
        BY <1>2 DEF Carries
      <4> QED
        BY <1>2, <4>1, CarriedOne
    <3>5. Carries(more, "window", {0}) = window - DefaultWindow
      BY <1>3 DEF Carries
    <3>6. Carried(first, "window", {0}) = Carried(<<said>>, "window", {0}) + Carries(more, "window", {0})
      <4>1. PICK a \in Seq(FrameType) : a = <<said>>
        BY <3>4
      <4>2. PICK f \in FrameType : f = more
        BY <3>1
      <4>3. "window" \in {"data", "window"}
        OBVIOUS
      <4>4. Carried(Append(a, f), "window", {0}) = Carried(a, "window", {0}) + Carries(f, "window", {0})
        BY <4>3, CarriedAppend
      <4> QED
        BY <3>3, <4>1, <4>2, <4>4
    <3>7. Carried(first, "window", {0}) = window - DefaultWindow
      BY <1>1, <3>4, <3>5, <3>6
    <3>8. first \in Seq(FrameType) /\ DOMAIN first = {1, 2} /\ first[1] = said /\ first[2] = more
          /\ Len(first) = 2
      BY <3>1, <3>2
    <3> QED
      BY <1>2, <1>3, <2>1, <3>7, <3>8
  <2>2. CASE ~(window > DefaultWindow)
    <3>1. first = <<said>>
      BY <2>2
    <3>2. first \in Seq(FrameType) /\ DOMAIN first = {1} /\ first[1] = said /\ Len(first) = 1
      BY <1>2, <3>1
    <3>3. Carries(said, "window", {0}) = 0
      BY <1>2 DEF Carries
    <3>4. Carried(first, "window", {0}) = 0
      BY <1>2, <3>1, <3>3, CarriedOne
    <3> QED
      BY <1>2, <2>2, <3>2, <3>4
  <2> QED
    BY <2>1, <2>2
<1> DEFINE wide == Larger(window, DefaultWindow)
<1>5. wide \in Nat /\ wide = IF window > DefaultWindow THEN window ELSE DefaultWindow
  BY <1>1 DEF Larger
<1>6. S = [server |-> server, streams |-> << >>, ring |-> << >>,
           out |-> first, pending |-> Len(first), ctlQueued |-> 0,
           sendWin |-> DefaultWindow, recvWin |-> wide,
           unacked |-> 0, target |-> wide, cap |-> 0,
           localWindow |-> DefaultWindow, advWindow |-> window, wantWindow |-> window,
           peerWindow |-> DefaultWindow,
           advStreams |-> streams, ackedStreams |-> streams, wantStreams |-> streams,
           peerStreams |-> Unlimited,
           chgInflight |-> FALSE, settingsAcked |-> FALSE, gotSettings |-> FALSE,
           nextId |-> 1, lastPeerId |-> 0, lastActed |-> 0,
           goawaySent |-> FALSE, goawayRecv |-> FALSE, goawayLast |-> 0,
           sweepGoaway |-> FALSE, sweepWritable |-> FALSE,
           debt |-> 0, closed |-> FALSE, rd |-> NoData,
           blamed |-> {}, acted |-> {}, overLimit |-> {}, refused |-> {}, blind |-> {}]
  BY DEF Created, said, more, streams, window
<1> HIDE DEF first, wide, S
<1>7. << >> \in [{} -> StreamType] /\ DOMAIN << >> = {}
  OBVIOUS
<1>8. << >> \in Seq([id : Ids, how : Endings])
  OBVIOUS
<1>9. Unlimited \in Int
  BY <1>1 DEF Unlimited
<1>10. NoData \in [id : Ids \cup {0}, left : Nat, fin : BOOLEAN, drop : BOOLEAN]
  BY DEF NoData
<1>11. /\ S.server = server /\ S.streams = << >> /\ S.nextId = 1 /\ S.lastPeerId = 0
       /\ S.out = first /\ S.sendWin = DefaultWindow /\ S.recvWin = wide
  BY <1>6
<1>12. Open(S) = {}
  BY <1>7, <1>11 DEF Open
<1>13. S \in EndType({})
  <2> HIDE DEF FrameType, StreamType
  <2> QED
    BY <1>1, <1>4, <1>5, <1>6, <1>7, <1>8, <1>9, <1>10 DEF EndType
<1>14. IsEnd(S)
  BY <1>12, <1>13 DEF IsEnd
<1>15. Known(S) = 0
  BY <1>11 DEF Known
<1>16. GoodEnd(S)
  BY <1>4, <1>11, <1>12, <1>14, <1>15 DEF GoodEnd, OfKnown
<1>17. ConnSends(S) = DefaultWindow
  <2>1. Carried(first, "data", Ids) = 0
    BY <1>4, CarriedNone
  <2> QED
    BY <1>1, <1>11, <2>1 DEF ConnSends
<1>18. ConnTakes(S) = DefaultWindow
  BY <1>1, <1>4, <1>5, <1>11 DEF ConnTakes
<1> QED
  BY <1>11, <1>12, <1>16, <1>17, <1>18 DEF S

LEMMA InvInit ==
    ASSUME H2Assumption, Init
    PROVE  WindowInv
<1>1. DOMAIN end = Ends /\ end["client"] = Created(FALSE) /\ end["server"] = Created(TRUE)
  BY DEF Init, Ends
<1>2. plan \in PlanType
  BY DEF Init, H2Assumption
<1>3. PICK c : c = Created(FALSE)
  OBVIOUS
<1>4. PICK s : s = Created(TRUE)
  OBVIOUS
<1>5. /\ GoodEnd(c) /\ c.server = FALSE /\ Open(c) = {} /\ c.nextId = 1 /\ c.lastPeerId = 0
      /\ ConnSends(c) = DefaultWindow /\ ConnTakes(c) = DefaultWindow
  BY <1>3, CreatedIs
<1>6. /\ GoodEnd(s) /\ s.server = TRUE /\ Open(s) = {} /\ s.nextId = 1 /\ s.lastPeerId = 0
      /\ ConnSends(s) = DefaultWindow /\ ConnTakes(s) = DefaultWindow
  BY <1>4, CreatedIs
<1>7. Joined(c, s)
  BY <1>5, <1>6 DEF Joined
<1> QED
  BY <1>1, <1>2, <1>3, <1>4, <1>7, InvIs

(* Every step keeps the invariant, one case for each action.               *)
LEMMA InvStep ==
    ASSUME H2Assumption, WindowInv, [Next]_vars
    PROVE  WindowInv'
<1>1. CASE UNCHANGED vars
  <2>1. end' = end /\ plan' = plan
    BY <1>1 DEF vars
  <2> QED
    BY <2>1, InvParts, InvNext
<1>2. CASE SubmitRequest
  BY <1>2, RequestStep
<1>3. CASE Change
  BY <1>3, ChangeStep
<1>4. CASE \E id \in Ids : SubmitResponse(id)
  BY <1>4, ResponseStep
<1>5. ASSUME NEW e \in Ends, NEW id \in Ids,
             SendData(e, id) \/ SendTrailers(e, id) \/ Reset(e, id) \/ Consumed(e, id)
      PROVE  WindowInv'
  BY <1>5, DataStep, TrailersStep, ResetStep, ConsumedStep
<1>6. ASSUME NEW e \in Ends,
             \/ DueRefused(e) \/ DueWritable(e) \/ DueClose(e) \/ FeedNothing(e)
             \/ ReadFrame(e) \/ ReadPiece(e)
             \/ SendPing(e) \/ Shutdown(e)
      PROVE  WindowInv'
  BY <1>6, RefusedStep, WritableStep, CloseStep, NothingStep, ReadStep, PieceStep, PingStep,
     ShutdownStep
<1> QED
  BY <1>1, <1>2, <1>3, <1>4, <1>5, <1>6 DEF Next

(* The invariant is more than the equations of WindowsAgree.               *)
LEMMA InvAgrees ==
    ASSUME WindowInv
    PROVE  WindowsAgree
<1> DEFINE c == end["client"]
           s == end["server"]
<1>1. Joined(c, s)
  BY InvParts
<1>2. IsEnd(c) /\ IsEnd(s)
  BY <1>1 DEF Joined, GoodEnd
<1> HIDE DEF c, s
<1>3. ASSUME NEW S, NEW R, IsEnd(S), IsEnd(R), ConnTakes(R) = ConnSends(S),
             \A id \in Open(S) \cap Open(R) : Takes(R, id) = Sends(S, id)
      PROVE  /\ R.recvWin = S.sendWin + Carried(S.out, "data", Ids) + Carried(R.out, "window", {0})
             /\ \A id \in Open(S) \cap Open(R) :
                  R.streams[id].recv - R.localWindow
                    = S.streams[id].send - S.peerWindow
                      + Carried(S.out, "data", {id}) + Carried(R.out, "window", {id})
  <2>1. \A ids : Carried(S.out, "data", ids) \in Nat /\ Carried(R.out, "window", ids) \in Nat
    BY <1>3, EndFields, CarriedIs
  <2>2. R.recvWin \in Int /\ S.sendWin \in Int /\ R.localWindow \in Int /\ S.peerWindow \in Int
    BY <1>3, EndFields
  <2>3. R.recvWin = S.sendWin + Carried(S.out, "data", Ids) + Carried(R.out, "window", {0})
    BY <1>3, <2>1, <2>2 DEF ConnTakes, ConnSends
  <2>4. ASSUME NEW id \in Open(S) \cap Open(R)
        PROVE  R.streams[id].recv - R.localWindow
                 = S.streams[id].send - S.peerWindow
                   + Carried(S.out, "data", {id}) + Carried(R.out, "window", {id})
    <3>1. R.streams[id].recv \in Int /\ S.streams[id].send \in Int
      BY <1>3, EndFields
    <3>2. Takes(R, id) = Sends(S, id)
      BY <1>3
    <3> QED
      BY <2>1, <2>2, <3>1, <3>2 DEF Takes, Sends
  <2> QED
    BY <2>3, <2>4
<1>4. CASE c.closed \/ s.closed
  BY <1>4 DEF WindowsAgree, Ends, Other, c, s
<1>5. CASE ~c.closed /\ ~s.closed
  <2>1. /\ ConnTakes(s) = ConnSends(c) /\ ConnTakes(c) = ConnSends(s)
        /\ \A id \in Open(c) \cap Open(s) :
             Takes(s, id) = Sends(c, id) /\ Takes(c, id) = Sends(s, id)
    BY <1>1, <1>5 DEF Joined
  <2>2. /\ s.recvWin = c.sendWin + Carried(c.out, "data", Ids) + Carried(s.out, "window", {0})
        /\ \A id \in Open(c) \cap Open(s) :
             s.streams[id].recv - s.localWindow
               = c.streams[id].send - c.peerWindow
                 + Carried(c.out, "data", {id}) + Carried(s.out, "window", {id})
    BY <1>2, <1>3, <2>1
  <2>3. /\ c.recvWin = s.sendWin + Carried(s.out, "data", Ids) + Carried(c.out, "window", {0})
        /\ \A id \in Open(s) \cap Open(c) :
             c.streams[id].recv - c.localWindow
               = s.streams[id].send - s.peerWindow
                 + Carried(s.out, "data", {id}) + Carried(c.out, "window", {id})
    BY <1>2, <1>3, <2>1
  <2> QED
    BY <2>2, <2>3 DEF WindowsAgree, InFlight, Ends, Other, c, s
<1> QED
  BY <1>4, <1>5

(* The bookkeeping of both ends, with what is under way between them, for  *)
(* any windows, limits, ceilings and plans of calls: every frame that      *)
(* h2c_read takes, every call of the applications and every sweep keeps    *)
(* both ends well typed, their streams in order, and what the receiver     *)
(* would take equal to what the sender counts as sent or still to send.    *)
THEOREM BookkeepingCorrect ==
    Spec => []WindowInv
<1>1. Init => WindowInv
  BY H2Assumption, InvInit
<1>2. WindowInv /\ [Next]_vars => WindowInv'
  BY H2Assumption, InvStep
<1> QED
  BY <1>1, <1>2, PTL DEF Spec

(* Flow control never drifts: the two ends' windows, of the connection and *)
(* of every stream open on both, differ by exactly what is under way,      *)
(* whatever settings, early responses, resets, refusals and credit cross.  *)
THEOREM WindowsNeverDrift ==
    Spec => []WindowsAgree
<1>1. WindowInv => WindowsAgree
  BY InvAgrees
<1> QED
  BY <1>1, BookkeepingCorrect, PTL

---------------------------------------------------------------------------
(* What is held, stream by stream.                                         *)

LEMMA TotalSplit ==
    ASSUME NEW D, IsFiniteSet(D), NEW f \in [D -> Nat], NEW x \in D,
           NEW E, E = D \ {x}, NEW g \in [E -> Nat], \A y \in E : g[y] = f[y]
    PROVE  Total(f) = Total(g) + f[x] /\ Total(f) \in Nat /\ Total(g) \in Nat
<1> DEFINE P == {x} \X (1 .. f[x])
<1>1. IsFiniteSet(E)
  BY FS_Subset
<1>2. /\ IsFiniteSet(Units(f)) /\ Total(f) = Cardinality(Units(f)) /\ Total(f) \in Nat
      /\ IsFiniteSet(Units(g)) /\ Total(g) = Cardinality(Units(g)) /\ Total(g) \in Nat
  BY <1>1, TotalType
<1>3. IsFiniteSet(P) /\ Cardinality(P) = f[x]
  <2>1. f[x] \in Nat /\ f[x] \in Int /\ 1 \in Int
    OBVIOUS
  <2>2. IsFiniteSet(1 .. f[x]) /\ Cardinality(1 .. f[x]) = f[x]
    BY <2>1, FS_Interval
  <2>3. IsFiniteSet({x}) /\ Cardinality({x}) = 1
    BY FS_Singleton
  <2>4. IsFiniteSet(P) /\ Cardinality(P) = 1 * f[x]
    <3>1. PICK A, B : A = {x} /\ B = 1 .. f[x]
      OBVIOUS
    <3>2. IsFiniteSet(A \X B) /\ Cardinality(A \X B) = Cardinality(A) * Cardinality(B)
      BY <2>2, <2>3, <3>1, FS_Product
    <3> QED
      BY <2>2, <2>3, <3>1, <3>2
  <2> QED
    BY <2>1, <2>4
<1>4. Units(f) = Units(g) \cup P
  <2>1. ASSUME NEW p \in Units(f) PROVE p \in Units(g) \cup P
    <3>1. PICK y \in D : p \in {y} \X (1 .. f[y])
      BY DEF Units
    <3>2. CASE y = x
      BY <3>1, <3>2
    <3>3. CASE y # x
      <4>1. y \in DOMAIN g /\ g[y] = f[y]
        BY <3>3
      <4> QED
        BY <3>1, <4>1 DEF Units
    <3> QED
      BY <3>2, <3>3
  <2>2. ASSUME NEW p \in Units(g) PROVE p \in Units(f)
    <3>1. PICK y \in DOMAIN g : p \in {y} \X (1 .. g[y])
      BY DEF Units
    <3>2. y \in D /\ g[y] = f[y]
      OBVIOUS
    <3> QED
      BY <3>1, <3>2 DEF Units
  <2>3. P \subseteq Units(f)
    BY DEF Units
  <2> QED
    BY <2>1, <2>2, <2>3
<1>5. Units(g) \cap P = {}
  <2>1. ASSUME NEW p \in Units(g), p \in P PROVE FALSE
    <3>1. PICK y \in DOMAIN g : p \in {y} \X (1 .. g[y])
      BY <2>1 DEF Units
    <3>2. p[1] = y /\ p[1] = x
      BY <2>1, <3>1
    <3> QED
      BY <3>2
  <2> QED
    BY <2>1
<1>6. Cardinality(Units(f)) = Cardinality(Units(g)) + Cardinality(P) - Cardinality({})
  BY <1>2, <1>3, <1>4, <1>5, FS_Union
<1>7. Cardinality({}) = 0
  BY FS_EmptySet
<1> QED
  BY <1>2, <1>3, <1>6, <1>7

HeldOf(S) == [id \in Open(S) |-> S.streams[id].held]

LEMMA HeldIs ==
    ASSUME H2Assumption, NEW S, IsEnd(S)
    PROVE  /\ IsFiniteSet(Open(S)) /\ HeldOf(S) \in [Open(S) -> Nat]
           /\ Held(S) = Total(HeldOf(S)) /\ Held(S) \in Nat
<1>1. Open(S) \subseteq Ids /\ \A id \in Open(S) : S.streams[id].held \in Nat
  BY EndFields
<1>2. IsFiniteSet(Open(S))
  <2>1. 1 \in Int /\ MaxId \in Int
    BY DEF H2Assumption
  <2>2. IsFiniteSet(1 .. MaxId)
    BY <2>1, FS_Interval
  <2>3. Open(S) \subseteq 1 .. MaxId
    BY <1>1 DEF Ids
  <2> QED
    BY <2>2, <2>3, FS_Subset
<1>3. HeldOf(S) \in [Open(S) -> Nat]
  BY <1>1 DEF HeldOf
<1>4. Held(S) = Total(HeldOf(S))
  BY DEF Held, HeldOf
<1> QED
  BY <1>2, <1>3, <1>4, HeldType

LEMMA HeldSame ==
    ASSUME NEW S, NEW R, Open(R) = Open(S), \A id \in Open(S) : R.streams[id].held = S.streams[id].held
    PROVE  Held(R) = Held(S)
<1>1. [id \in Open(R) |-> R.streams[id].held] = [id \in Open(S) |-> S.streams[id].held]
  OBVIOUS
<1> QED
  BY <1>1 DEF Held

LEMMA HeldLess ==
    ASSUME H2Assumption, NEW S, IsEnd(S), NEW R, NEW id \in Open(S), Open(R) = Open(S) \ {id},
           \A j \in Open(R) : R.streams[j].held = S.streams[j].held
    PROVE  Held(S) = Held(R) + S.streams[id].held /\ Held(R) \in Nat
<1>1. IsFiniteSet(Open(S)) /\ HeldOf(S) \in [Open(S) -> Nat] /\ Held(S) = Total(HeldOf(S))
  BY HeldIs
<1>2. \A y \in Open(R) : HeldOf(R)[y] = HeldOf(S)[y]
  BY DEF HeldOf
<1>3. HeldOf(R) \in [Open(R) -> Nat]
  <2>1. HeldOf(R) = [y \in Open(R) |-> HeldOf(S)[y]]
    BY DEF HeldOf
  <2> QED
    BY <1>1, <2>1
<1>4. HeldOf(S)[id] = S.streams[id].held
  BY DEF HeldOf
<1>5. Total(HeldOf(S)) = Total(HeldOf(R)) + HeldOf(S)[id]
  BY <1>1, <1>2, <1>3, TotalSplit
<1>6. Held(R) = Total(HeldOf(R))
  BY DEF Held, HeldOf
<1>7. IsFiniteSet(Open(R))
  BY <1>1, FS_Subset
<1>8. Total(HeldOf(R)) \in Nat
  BY <1>3, <1>7, TotalType
<1> QED
  BY <1>1, <1>4, <1>5, <1>6, <1>8

(* A stream with more or less, one that is new, ...                        *)
LEMMA HeldMoved ==
    ASSUME H2Assumption, NEW S, IsEnd(S), NEW R, IsEnd(R), NEW id \in Open(S), Open(R) = Open(S),
           \A j \in Open(S) \ {id} : R.streams[j].held = S.streams[j].held
    PROVE  Held(R) - R.streams[id].held = Held(S) - S.streams[id].held
<1>1. PICK W : W = [streams |-> [j \in Open(S) \ {id} |-> S.streams[j]]]
  OBVIOUS
<1>2. /\ Open(W) = Open(S) \ {id}
      /\ \A j \in Open(W) : W.streams[j].held = S.streams[j].held /\ W.streams[j].held = R.streams[j].held
  BY <1>1 DEF Open
<1>3. Held(S) = Held(W) + S.streams[id].held /\ Held(W) \in Nat
  BY <1>2, HeldLess
<1>4. Held(R) = Held(W) + R.streams[id].held
  BY <1>2, HeldLess
<1>5. S.streams[id].held \in Nat /\ R.streams[id].held \in Nat
  BY EndFields
<1> QED
  BY <1>3, <1>4, <1>5

---------------------------------------------------------------------------
(* What an end owes its peer.                                              *)

(* All that the peer may send, has sent or was not given back: what has    *)
(* arrived and was not consumed, and the frame being read.                 *)
Room(S) == S.recvWin + Held(S) + S.rd.left

(* With n units on their way to be given back: the window is whole but for *)
(* what waits for a batch, and less than half waits.                       *)
Solvent(S, n) ==
    /\ 0 < S.target /\ ConnTarget(S) <= S.unacked + Room(S) + n
    /\ S.unacked < Room(S) + n

(* A stream that could go on has a sweep due.                              *)
Woken(S) == S.sweepWritable \/ \A id \in Open(S) : ~CanWrite(S, id)

Fluent(S, n, c) == S.closed \/ (Solvent(S, n) /\ Woken(S) /\ S.cap = c)

Waiting == {"BLOCKED", "HBLOCKED"}
Waits(S, id) == S.streams[id].flags \cap Waiting

(* R is S with nothing earned or spent.                                    *)
Funds(S, R) ==
    /\ R.recvWin = S.recvWin /\ R.unacked = S.unacked
    /\ R.target = S.target /\ R.cap = S.cap /\ R.rd = S.rd

(* No stream has more to go on with.                                       *)
Quieter(S, R) ==
    /\ S.pending <= R.pending /\ R.sendWin <= S.sendWin
    /\ S.sweepWritable => R.sweepWritable
    /\ \A id \in Open(R) :
         \/ Waits(R, id) = {}
         \/ /\ id \in Open(S) /\ Waits(R, id) \subseteq Waits(S, id)
            /\ R.streams[id].send <= S.streams[id].send

Free(S, R) ==
    /\ Funds(S, R) /\ R.streams = S.streams
    /\ S.pending <= R.pending /\ R.sendWin = S.sendWin
    /\ R.sweepWritable = S.sweepWritable
    /\ S.closed => R.closed

LEMMA NumbersOf ==
    ASSUME H2Assumption, NEW S, GoodEnd(S)
    PROVE  /\ S.pending \in Int /\ S.sendWin \in Int /\ S.recvWin \in Int
           /\ S.unacked \in Nat /\ S.target \in Nat /\ S.cap \in Nat /\ S.rd.left \in Nat
           /\ Held(S) \in Nat /\ CfgOut \in Int /\ ConnTarget(S) \in Nat
           /\ S.closed \in BOOLEAN /\ S.sweepWritable \in BOOLEAN
<1>1. IsEnd(S)
  BY DEF GoodEnd
<1>2. /\ S.pending \in Int /\ S.sendWin \in Int /\ S.recvWin \in Int
      /\ S.unacked \in Nat /\ S.target \in Nat /\ S.cap \in Nat /\ S.closed \in BOOLEAN
  BY <1>1, EndFields
<1>3. S.rd \in [id : Ids \cup {0}, left : Nat, fin : BOOLEAN, drop : BOOLEAN]
      /\ S.sweepWritable \in BOOLEAN
  BY <1>1 DEF IsEnd, EndType
<1>4. S.rd.left \in Nat
  BY <1>3
<1>5. CfgOut \in Int
  BY DEF H2Assumption
<1> QED
  BY <1>1, <1>2, <1>3, <1>4, <1>5, HeldIs DEF ConnTarget

LEMMA CanWriteIs ==
    ASSUME NEW S, NEW id
    PROVE  CanWrite(S, id) <=>
             /\ S.pending < CfgOut
             /\ \/ "HBLOCKED" \in Waits(S, id)
                \/ "BLOCKED" \in Waits(S, id) /\ S.streams[id].send > 0 /\ S.sendWin > 0
BY DEF CanWrite, Has, Waits, Waiting

LEMMA QuieterWoken ==
    ASSUME H2Assumption, NEW S, GoodEnd(S), NEW R, GoodEnd(R), Quieter(S, R), Woken(S)
    PROVE  Woken(R)
<1>1. SUFFICES ASSUME ~R.sweepWritable, NEW id \in Open(R), CanWrite(R, id)
               PROVE  FALSE
  BY DEF Woken
<1>2. /\ R.pending < CfgOut
      /\ \/ "HBLOCKED" \in Waits(R, id)
         \/ "BLOCKED" \in Waits(R, id) /\ R.streams[id].send > 0 /\ R.sendWin > 0
  BY <1>1, CanWriteIs
<1>3. /\ id \in Open(S) /\ Waits(R, id) \subseteq Waits(S, id)
      /\ R.streams[id].send <= S.streams[id].send
      /\ S.pending <= R.pending /\ R.sendWin <= S.sendWin /\ ~S.sweepWritable
  BY <1>1, <1>2 DEF Quieter
<1>4. S.streams[id].send \in Int /\ R.streams[id].send \in Int
  BY <1>3, EndFields DEF GoodEnd
<1>5. CanWrite(S, id)
  <2>1. /\ S.pending \in Int /\ R.pending \in Int /\ S.sendWin \in Int /\ R.sendWin \in Int
        /\ CfgOut \in Int
    BY NumbersOf
  <2>2. S.pending < CfgOut
    BY <1>2, <1>3, <2>1
  <2>3. R.streams[id].send > 0 /\ R.sendWin > 0 => S.streams[id].send > 0 /\ S.sendWin > 0
    BY <1>3, <1>4, <2>1
  <2> QED
    BY <1>2, <1>3, <2>2, <2>3, CanWriteIs
<1> QED
  BY <1>3, <1>5 DEF Woken

LEMMA FluentOn ==
    ASSUME H2Assumption, NEW S, GoodEnd(S), NEW R, GoodEnd(R), Funds(S, R), Held(R) = Held(S),
           Quieter(S, R), S.closed => R.closed, NEW n, NEW c, Fluent(S, n, c)
    PROVE  Fluent(R, n, c)
<1>1. CASE S.closed
  BY <1>1 DEF Fluent
<1>2. CASE Solvent(S, n) /\ Woken(S) /\ S.cap = c
  <2>1. Woken(R)
    BY <1>2, QuieterWoken
  <2>2. Room(R) = Room(S) /\ ConnTarget(R) = ConnTarget(S)
    BY DEF Room, Funds, ConnTarget
  <2>3. Solvent(R, n)
    BY <1>2, <2>2 DEF Solvent, Funds
  <2> QED
    BY <1>2, <2>1, <2>3 DEF Fluent, Funds
<1> QED
  BY <1>1, <1>2 DEF Fluent

LEMMA FreeQuiet ==
    ASSUME H2Assumption, NEW S, GoodEnd(S), NEW R, Free(S, R)
    PROVE  /\ Funds(S, R) /\ Held(R) = Held(S) /\ Quieter(S, R) /\ (S.closed => R.closed)
           /\ Open(R) = Open(S)
<1>1. Open(R) = Open(S) /\ \A id \in Open(S) : R.streams[id] = S.streams[id]
  BY DEF Free, Open
<1>2. Held(R) = Held(S)
  BY <1>1, HeldSame
<1>3. Quieter(S, R)
  <2>1. \A id \in Open(S) : S.streams[id].send \in Int
    BY EndFields DEF GoodEnd
  <2>2. S.sendWin \in Int
    BY NumbersOf
  <2> QED
    BY <1>1, <2>1, <2>2 DEF Quieter, Free, Waits
<1> QED
  BY <1>1, <1>2, <1>3 DEF Free

LEMMA FreeFluent ==
    ASSUME H2Assumption, NEW S, GoodEnd(S), NEW R, GoodEnd(R), Free(S, R), NEW n, NEW c, Fluent(S, n, c)
    PROVE  Fluent(R, n, c)
BY FreeQuiet, FluentOn

LEMMA FreeTrans ==
    ASSUME H2Assumption, NEW S, GoodEnd(S), NEW R, GoodEnd(R), NEW T, GoodEnd(T), Free(S, R), Free(R, T)
    PROVE  Free(S, T)
<1>1. S.pending \in Int /\ R.pending \in Int /\ T.pending \in Int
  BY NumbersOf
<1> QED
  BY <1>1 DEF Free, Funds

---------------------------------------------------------------------------
(* Output and credit.                                                      *)

LEMMA SizeIs ==
    ASSUME NEW f \in FrameType
    PROVE  Size(f) \in Nat
<1>1. f.t = "data" => f.n \in Nat
  BY FrameTypes
<1> QED
  BY <1>1 DEF Size, Larger

LEMMA PutFree ==
    ASSUME NEW S, IsEnd(S), NEW f \in FrameType
    PROVE  Free(S, Put(S, f)) /\ Put(S, f).closed = S.closed
<1>1. /\ Funds(S, Put(S, f)) /\ Put(S, f).streams = S.streams
      /\ Put(S, f).pending = S.pending + Size(f) /\ Put(S, f).sendWin = S.sendWin
      /\ Put(S, f).sweepWritable = S.sweepWritable /\ Put(S, f).closed = S.closed
  <2> HIDE DEF FrameType, StreamType
  <2> QED
    BY ZenonT(60) DEF Put, IsEnd, EndType, Funds
<1>2. S.pending \in Int /\ Size(f) \in Nat
  BY EndFields, SizeIs
<1> QED
  BY <1>1, <1>2 DEF Free

LEMMA FreeItself ==
    ASSUME H2Assumption, NEW S, GoodEnd(S)
    PROVE  Free(S, S)
<1>1. S.pending \in Int
  BY NumbersOf
<1> QED
  BY <1>1 DEF Free, Funds

LEMMA FailFree ==
    ASSUME H2Assumption, NEW S, GoodEnd(S), NEW code \in Codes
    PROVE  Free(S, Fail(S, code)) /\ Fail(S, code).closed /\ GoodEnd(Fail(S, code))
<1> DEFINE f == Goaway(S.lastActed, code)
           P == Put(S, f)
           R == [P EXCEPT !.goawaySent = TRUE, !.closed = TRUE, !.blamed = @ \cup {code}]
<1>1. f \in FrameType
  BY EndFields DEF GoodEnd, Goaway, FrameType
<1>2. IsEnd(P) /\ Free(S, P) /\ P.pending \in Int
  <2>1. IsEnd(P) /\ Free(S, P)
    BY <1>1, PutIs, PutFree DEF GoodEnd
  <2> HIDE DEF P
  <2> QED
    BY <2>1, EndFields
<1> HIDE DEF P, f
<1>3. /\ Funds(P, R) /\ R.streams = P.streams /\ R.pending = P.pending /\ R.sendWin = P.sendWin
      /\ R.sweepWritable = P.sweepWritable /\ R.closed
  <2> HIDE DEF FrameType, StreamType
  <2> QED
    BY <1>2, ZenonT(60) DEF IsEnd, EndType, Funds
<1> HIDE DEF R
<1>4. Free(S, R)
  BY <1>2, <1>3 DEF Free, Funds
<1>5. GoodEnd(Fail(S, code)) /\ Fail(S, code).closed
  BY FailIs
<1>6. CASE S.closed
  BY <1>5, <1>6, FreeItself DEF Fail
<1>7. CASE ~S.closed
  BY <1>4, <1>5, <1>7 DEF Fail, R, P, f
<1> QED
  BY <1>6, <1>7

(* A field that does not matter here.                                      *)
LEMMA CtlFree ==
    ASSUME H2Assumption, NEW S, GoodEnd(S)
    PROVE  Free(S, Ctl(S)) /\ GoodEnd(Ctl(S))
<1> DEFINE T == [S EXCEPT !.ctlQueued = @ + 1]
<1>1. S.ctlQueued + 1 \in Int /\ S.pending \in Int
  BY EndFields DEF GoodEnd
<1>2. /\ IsEnd(T) /\ Alike(S, T) /\ T.out = S.out /\ T.closed = S.closed
  <2> HIDE DEF FrameType, StreamType
  <2> QED
    BY <1>1, ZenonT(60) DEF GoodEnd, IsEnd, EndType, Open, Alike
<1>3. /\ Funds(S, T) /\ T.streams = S.streams /\ T.pending = S.pending /\ T.sendWin = S.sendWin
      /\ T.sweepWritable = S.sweepWritable
  <2> HIDE DEF FrameType, StreamType
  <2> QED
    BY ZenonT(60) DEF GoodEnd, IsEnd, EndType, Funds
<1>4. Ctl(S) = IF T.ctlQueued > CfgOut THEN Fail(T, "calm") ELSE T
  BY DEF Ctl
<1> HIDE DEF T
<1>5. GoodEnd(T) /\ Free(S, T)
  BY <1>1, <1>2, <1>3, AlikeKeeps DEF Keeps, Free
<1>6. "calm" \in Codes
  BY DEF Codes
<1>7. GoodEnd(Fail(T, "calm")) /\ Free(T, Fail(T, "calm"))
  BY <1>5, <1>6, FailFree
<1> QED
  BY <1>4, <1>5, <1>7, FreeTrans

LEMMA AnswerFree ==
    ASSUME H2Assumption, NEW S, GoodEnd(S), NEW f, Due(S, f)
    PROVE  /\ Free(S, Answer(S, f)) /\ GoodEnd(Answer(S, f))
           /\ Free(S, Queue(S, f)) /\ GoodEnd(Queue(S, f))
           /\ Free(S, Put(S, f)) /\ GoodEnd(Put(S, f))
<1>1. GoodEnd(Answer(S, f)) /\ GoodEnd(Queue(S, f))
  BY QueueIs, AnswerIs DEF Says
<1>2. GoodEnd(Put(S, f)) /\ Free(S, Put(S, f))
  BY PutGood, PutFree DEF Due, GoodEnd
<1>3. GoodEnd(Ctl(Put(S, f))) /\ Free(Put(S, f), Ctl(Put(S, f)))
  BY <1>2, CtlFree
<1>4. Free(S, Ctl(Put(S, f)))
  BY <1>2, <1>3, FreeTrans
<1>5. Free(S, S)
  BY FreeItself
<1> QED
  BY <1>1, <1>2, <1>3, <1>4, <1>5 DEF Answer, Queue

(* Units given back: to the window of the connection ...                   *)
LEMMA ConnCreditFluent ==
    ASSUME H2Assumption, NEW S, GoodEnd(S), NEW n \in Nat, NEW k \in Nat, NEW c, Fluent(S, n + k, c)
    PROVE  Fluent(ConnCredit(S, n), k, c) /\ ConnCredit(S, n).streams = S.streams
<1> DEFINE owed == S.unacked + n
           room == S.cap - (S.recvWin + Held(S))
           inc == IF S.cap # 0 THEN Smaller(owed, room) ELSE owed
           A == [S EXCEPT !.unacked = owed]
           T == [S EXCEPT !.unacked = 0]
           B == [T EXCEPT !.recvWin = @ + inc]
           R == Answer(B, Window(0, inc))
<1>1. /\ S.recvWin \in Int /\ S.unacked \in Nat /\ S.target \in Nat /\ S.cap \in Nat
      /\ S.rd.left \in Nat /\ Held(S) \in Nat /\ ConnTarget(S) \in Nat /\ S.closed \in BOOLEAN
  BY NumbersOf
<1>2. owed \in Nat /\ inc \in Int
  BY <1>1 DEF Smaller
<1>3. ConnCredit(S, n).streams = S.streams
  BY ConnCreditKeeps
<1>4. CASE S.closed
  <2>1. ConnCredit(S, n) = S
    BY <1>4 DEF ConnCredit
  <2> QED
    BY <1>4, <2>1 DEF Fluent
<1>5. CASE n = 0
  <2>1. ConnCredit(S, n) = S
    BY <1>5 DEF ConnCredit
  <2>2. n + k = k
    BY <1>5
  <2> QED
    BY <2>1, <2>2
<1>6. ASSUME ~S.closed, n # 0
      PROVE  Fluent(ConnCredit(S, n), k, c)
  <2>1. /\ 0 < S.target /\ ConnTarget(S) <= S.unacked + Room(S) + (n + k)
        /\ S.unacked < Room(S) + (n + k) /\ Woken(S) /\ S.cap = c
    BY <1>6 DEF Fluent, Solvent
  <2>2. 0 < ConnTarget(S) /\ (S.cap # 0 => ConnTarget(S) <= S.cap)
    BY <1>1, <2>1 DEF ConnTarget
  <2>3. CASE 2 * owed < ConnTarget(S)
    <3>1. ConnCredit(S, n) = A
      BY <1>6, <2>3 DEF ConnCredit
    <3>2. /\ A.recvWin = S.recvWin /\ A.unacked = owed /\ A.target = S.target /\ A.cap = S.cap
          /\ A.rd = S.rd /\ A.streams = S.streams /\ A.pending = S.pending
          /\ A.sendWin = S.sendWin /\ A.sweepWritable = S.sweepWritable
      <4> HIDE DEF FrameType, StreamType, owed
      <4> QED
        BY ZenonT(60) DEF GoodEnd, IsEnd, EndType
    <3> HIDE DEF A
    <3>3. Held(A) = Held(S) /\ ConnTarget(A) = ConnTarget(S)
      BY <3>2 DEF Held, Open, ConnTarget
    <3>4. Solvent(A, k)
      BY <1>1, <2>1, <2>3, <3>2, <3>3 DEF Solvent, Room
    <3>5. Woken(A)
      BY <2>1, <3>2 DEF Woken, CanWrite, Has, Open
    <3> QED
      BY <2>1, <3>1, <3>2, <3>4, <3>5 DEF Fluent
  <2>4. CASE ~(2 * owed < ConnTarget(S))
    <3>1. ConnCredit(S, n) = IF inc <= 0 THEN T ELSE R
      BY <1>6, <2>4 DEF ConnCredit
    <3>2. /\ T.recvWin = S.recvWin /\ T.unacked = 0 /\ T.target = S.target /\ T.cap = S.cap
          /\ T.rd = S.rd /\ T.streams = S.streams /\ T.pending = S.pending
          /\ T.sendWin = S.sendWin /\ T.sweepWritable = S.sweepWritable
      <4> HIDE DEF FrameType, StreamType
      <4> QED
        BY ZenonT(60) DEF GoodEnd, IsEnd, EndType
    <3>3. Held(T) = Held(S) /\ ConnTarget(T) = ConnTarget(S)
      BY <3>2 DEF Held, Open, ConnTarget
    <3>4. Woken(T)
      BY <2>1, <3>2 DEF Woken, CanWrite, Has, Open
    <3>5. CASE inc <= 0
      <4>1. S.cap # 0 /\ room <= 0
        BY <1>1, <1>6, <3>5 DEF Smaller
      <4>2. Solvent(T, k)
        BY <1>1, <2>1, <2>2, <3>2, <3>3, <4>1 DEF Solvent, Room
      <4> QED
        BY <2>1, <3>1, <3>2, <3>4, <3>5, <4>2 DEF Fluent
    <3>6. CASE inc > 0
      <4>0. IsEnd(T)
        <5> HIDE DEF FrameType, StreamType
        <5> QED
          BY ZenonT(60) DEF GoodEnd, IsEnd, EndType, Open
      <4>1. /\ B.recvWin = S.recvWin + inc /\ B.unacked = 0 /\ B.target = S.target /\ B.cap = S.cap
            /\ B.rd = S.rd /\ B.streams = S.streams /\ B.pending = S.pending
            /\ B.sendWin = S.sendWin /\ B.sweepWritable = S.sweepWritable
        <5> HIDE DEF FrameType, StreamType, inc, T
        <5> QED
          BY <3>2, <4>0, ZenonT(60) DEF IsEnd, EndType
      <4>2. GoodEnd(B)
        <5>1. S.recvWin + inc \in Int
          BY <1>1, <1>2
        <5>2. IsEnd(B) /\ B.server = S.server /\ B.nextId = S.nextId /\ B.lastPeerId = S.lastPeerId
              /\ B.out = S.out
          <6> HIDE DEF FrameType, StreamType, inc
          <6> QED
            BY <5>1, ZenonT(60) DEF GoodEnd, IsEnd, EndType, Open
        <5> HIDE DEF B
        <5> QED
          BY <4>1, <5>2 DEF GoodEnd, OfKnown, Known, Open
      <4> HIDE DEF B
      <4>3. Held(B) = Held(S) /\ ConnTarget(B) = ConnTarget(S)
        BY <4>1 DEF Held, Open, ConnTarget
      <4>4. Woken(B)
        BY <2>1, <4>1 DEF Woken, CanWrite, Has, Open
      <4>5. inc = owed \/ (S.cap # 0 /\ inc = room)
        BY DEF Smaller
      <4>6. Solvent(B, k)
        <5>1. CASE inc = owed
          <6> HIDE DEF inc
          <6> QED
            BY <1>1, <2>1, <2>2, <4>1, <4>3, <5>1 DEF Solvent, Room
        <5>2. CASE S.cap # 0 /\ inc = room
          <6> HIDE DEF inc
          <6> QED
            BY <1>1, <2>1, <2>2, <4>1, <4>3, <5>2 DEF Solvent, Room
        <5> QED
          BY <4>5, <5>1, <5>2
      <4>7. Fluent(B, k, c)
        BY <2>1, <4>1, <4>4, <4>6 DEF Fluent
      <4>8. Due(B, Window(0, inc))
        <5>1. inc \in Nat
          BY <1>2, <3>6
        <5> HIDE DEF inc
        <5>2. 0 <= Known(B)
          BY <4>2 DEF GoodEnd
        <5> QED
          BY <5>1, <5>2 DEF Due, Window, FrameType
      <4>9. Fluent(R, k, c)
        BY <4>2, <4>7, <4>8, AnswerFree, FreeFluent
      <4> QED
        BY <1>2, <3>1, <3>6, <4>9
    <3> QED
      BY <1>2, <3>5, <3>6
  <2> QED
    BY <2>3, <2>4
<1> QED
  BY <1>3, <1>4, <1>5, <1>6

(* ... to that of a window of the connection that grows ...                *)
LEMMA ConnFollowFluent ==
    ASSUME H2Assumption, NEW S, GoodEnd(S), NEW window \in Nat, NEW k \in Nat, NEW c, Fluent(S, k, c)
    PROVE  Fluent(ConnFollow(S, window), k, c)
<1> DEFINE cap == IF S.cap # 0 THEN Smaller(S.cap, GrowConn) ELSE GrowConn
           want == Smaller(window + window \div 2, cap)
           add == want - S.target
           B == [S EXCEPT !.target = want, !.recvWin = @ + add]
           R == Answer(B, Window(0, add))
<1>1. /\ S.recvWin \in Int /\ S.unacked \in Nat /\ S.target \in Nat /\ S.cap \in Nat
      /\ S.rd.left \in Nat /\ Held(S) \in Nat /\ S.closed \in BOOLEAN
  BY NumbersOf
<1>2. want \in Nat
  <2>1. GrowConn \in Nat /\ window + window \div 2 \in Nat
    BY DEF H2Assumption
  <2> QED
    BY <1>1, <2>1 DEF Smaller
<1>3. ConnFollow(S, window) = IF add <= 0 THEN S ELSE R
  BY DEF ConnFollow
<1> HIDE DEF want
<1>4. add \in Int
  BY <1>1, <1>2
<1>5. CASE add <= 0
  BY <1>3, <1>5
<1>6. CASE ~(add <= 0)
  <2>0. add \in Nat /\ add > 0 /\ S.recvWin + add \in Int /\ IsEnd(S)
    BY <1>1, <1>4, <1>6 DEF GoodEnd
  <2> HIDE DEF add
  <2>1. /\ B.recvWin = S.recvWin + add /\ B.unacked = S.unacked /\ B.target = want /\ B.cap = S.cap
        /\ B.rd = S.rd /\ B.streams = S.streams /\ B.pending = S.pending /\ B.closed = S.closed
        /\ B.sendWin = S.sendWin /\ B.sweepWritable = S.sweepWritable
    <3> HIDE DEF FrameType, StreamType
    <3> QED
      BY <2>0, ZenonT(60) DEF IsEnd, EndType
  <2>2. IsEnd(B) /\ B.server = S.server /\ B.nextId = S.nextId /\ B.lastPeerId = S.lastPeerId
        /\ B.out = S.out
    <3> HIDE DEF FrameType, StreamType
    <3> QED
      BY <1>2, <2>0, ZenonT(60) DEF IsEnd, EndType, Open
  <2> HIDE DEF B
  <2>3. GoodEnd(B)
    BY <2>1, <2>2 DEF GoodEnd, OfKnown, Known, Open
  <2>4. Held(B) = Held(S)
    BY <2>1 DEF Held, Open
  <2>5. ASSUME Solvent(S, k)
        PROVE  Solvent(B, k)
    <3>1. 0 < S.target /\ ConnTarget(S) <= S.unacked + Room(S) + k /\ S.unacked < Room(S) + k
      BY <2>5 DEF Solvent
    <3>2. S.target + add = want
      BY <1>1, <1>2 DEF add
    <3>3. ConnTarget(B) <= ConnTarget(S) + add /\ ConnTarget(S) \in Nat /\ ConnTarget(B) \in Nat
      BY <1>1, <1>2, <2>0, <2>1, <3>2 DEF ConnTarget
    <3>4. Room(B) = Room(S) + add /\ Room(S) \in Int
      BY <1>1, <2>0, <2>1, <2>4 DEF Room
    <3> QED
      BY <1>1, <2>0, <2>1, <3>1, <3>2, <3>3, <3>4 DEF Solvent
  <2>6. Woken(S) => Woken(B)
    BY <2>1 DEF Woken, CanWrite, Has, Open
  <2>7. Fluent(B, k, c)
    BY <2>1, <2>5, <2>6 DEF Fluent
  <2>8. Due(B, Window(0, add))
    <3>1. 0 <= Known(B)
      BY <2>3 DEF GoodEnd
    <3> QED
      BY <2>0, <3>1 DEF Due, Window, FrameType
  <2>9. Fluent(R, k, c)
    BY <2>3, <2>7, <2>8, AnswerFree, FreeFluent
  <2> QED
    BY <1>3, <1>6, <2>9 DEF add
<1> QED
  BY <1>5, <1>6

(* Other streams, and the rest as it was.                                  *)
LEMMA OtherFunds ==
    ASSUME NEW S, IsEnd(S), NEW ss
    PROVE  LET R == [S EXCEPT !.streams = ss] IN
           /\ Funds(S, R) /\ R.streams = ss /\ R.pending = S.pending /\ R.sendWin = S.sendWin
           /\ R.sweepWritable = S.sweepWritable /\ R.closed = S.closed
<1> HIDE DEF FrameType, StreamType
<1> QED
  BY ZenonT(60) DEF IsEnd, EndType, Funds

LEMMA StreamsFluent ==
    ASSUME H2Assumption, NEW S, GoodEnd(S), NEW ss \in [Open(S) -> StreamType],
           \A id \in Open(S) :
             /\ ss[id].held = S.streams[id].held /\ ss[id].send <= S.streams[id].send
             /\ ss[id].flags \cap Waiting \subseteq Waits(S, id),
           NEW k, NEW c, Fluent(S, k, c)
    PROVE  LET R == [S EXCEPT !.streams = ss] IN
           Fluent(R, k, c) /\ GoodEnd(R) /\ Open(R) = Open(S) /\ R.streams = ss
<1> DEFINE R == [S EXCEPT !.streams = ss]
<1>1. IsEnd(S) /\ Open(S) \in SUBSET Ids
  BY EndFields DEF GoodEnd
<1>2. /\ IsEnd(R) /\ Open(R) = Open(S) /\ R.streams = ss
      /\ R.server = S.server /\ R.nextId = S.nextId /\ R.lastPeerId = S.lastPeerId
      /\ R.out = S.out
  BY <1>1, OtherStreams
<1>3. /\ Funds(S, R) /\ R.pending = S.pending /\ R.sendWin = S.sendWin
      /\ R.sweepWritable = S.sweepWritable /\ R.closed = S.closed
  BY <1>1, OtherFunds
<1> HIDE DEF R
<1>4. GoodEnd(R)
  BY <1>2 DEF GoodEnd, OfKnown, Known
<1>5. Held(R) = Held(S)
  BY <1>2, HeldSame
<1>6. Quieter(S, R)
  <2>1. S.pending \in Int /\ S.sendWin \in Int
    BY NumbersOf
  <2>2. \A id \in Open(R) : Waits(R, id) \subseteq Waits(S, id) /\ R.streams[id].send <= S.streams[id].send
    BY <1>2 DEF Waits
  <2> QED
    BY <1>2, <1>3, <2>1, <2>2 DEF Quieter
<1>7. Fluent(R, k, c)
  BY <1>3, <1>4, <1>5, <1>6, FluentOn
<1> QED
  BY <1>2, <1>4, <1>7 DEF R

LEMMA StreamFluent ==
    ASSUME H2Assumption, NEW S, GoodEnd(S), NEW id \in Open(S), NEW s \in StreamType,
           s.held = S.streams[id].held, s.send = S.streams[id].send,
           s.flags \cap Waiting \subseteq Waits(S, id), NEW k, NEW c, Fluent(S, k, c)
    PROVE  LET R == [S EXCEPT !.streams[id] = s] IN
           /\ Fluent(R, k, c) /\ GoodEnd(R) /\ Open(R) = Open(S)
           /\ R.streams = [S.streams EXCEPT ![id] = s]
<1> DEFINE ss == [S.streams EXCEPT ![id] = s]
<1>1. S.streams \in [Open(S) -> StreamType] /\ \A j \in Open(S) : S.streams[j].send \in Int
  BY EndFields DEF GoodEnd
<1>2. [S EXCEPT !.streams[id] = s] = [S EXCEPT !.streams = ss]
  OBVIOUS
<1>3. ss \in [Open(S) -> StreamType]
  <2> HIDE DEF StreamType
  <2> QED
    BY <1>1
<1>4. ss[id] = s /\ \A j \in Open(S) : j # id => ss[j] = S.streams[j]
  BY <1>1
<1>5. ss = [S.streams EXCEPT ![id] = s]
  OBVIOUS
<1> HIDE DEF ss
<1>6. \A j \in Open(S) :
        /\ ss[j].held = S.streams[j].held /\ ss[j].send <= S.streams[j].send
        /\ ss[j].flags \cap Waiting \subseteq Waits(S, j)
  <2>1. \A j \in Open(S) : S.streams[j].flags \cap Waiting = Waits(S, j) /\ S.streams[j].send <= S.streams[j].send
    BY <1>1 DEF Waits
  <2>2. TAKE j \in Open(S)
  <2>3. CASE j = id
    BY <1>4, <2>1, <2>3
  <2>4. CASE j # id
    BY <1>4, <2>1, <2>4
  <2> QED
    BY <2>3, <2>4
<1> QED
  BY <1>2, <1>3, <1>5, <1>6, StreamsFluent

(* A frame more, and a stream that counts otherwise.                       *)
LEMMA StreamMoreFluent ==
    ASSUME H2Assumption, NEW S, GoodEnd(S), NEW id \in Open(S), NEW n \in Nat, NEW k, NEW c, Fluent(S, k, c)
    PROVE  Fluent(Answer([S EXCEPT !.streams[id].recv = @ + n], Window(id, n)), k, c)
<1> DEFINE s == [S.streams[id] EXCEPT !.recv = @ + n]
           U == [S EXCEPT !.streams[id] = s]
           f == Window(id, n)
<1>1. /\ id \in Ids /\ S.streams[id].recv \in Int /\ S.streams[id] \in StreamType
      /\ S.streams \in [Open(S) -> StreamType]
  BY EndFields DEF GoodEnd
<1>2. s \in StreamType
  BY <1>1 DEF StreamType
<1>3. s.held = S.streams[id].held /\ s.send = S.streams[id].send /\ s.flags = S.streams[id].flags
  BY <1>1 DEF StreamType
<1>4. [S EXCEPT !.streams[id].recv = @ + n] = U
  OBVIOUS
<1>5. f \in FrameType /\ f.t = "window" /\ f.id = id
  BY <1>1 DEF Window, FrameType
<1>6. s.flags \cap Waiting \subseteq Waits(S, id)
  BY <1>3 DEF Waits
<1> HIDE DEF s, f
<1>7. Fluent(U, k, c) /\ GoodEnd(U) /\ Open(U) = Open(S)
  BY <1>2, <1>3, <1>6, StreamFluent
<1> HIDE DEF U
<1>8. Due(U, f)
  BY <1>5, <1>7 DEF Due, GoodEnd, OfKnown
<1>9. Fluent(Answer(U, f), k, c)
  BY <1>7, <1>8, AnswerFree, FreeFluent
<1> QED
  BY <1>4, <1>9 DEF f

LEMMA StreamCreditFluent ==
    ASSUME H2Assumption, NEW S, GoodEnd(S), NEW id \in Open(S), NEW n \in Nat, NEW fast \in BOOLEAN,
           NEW k \in Nat, NEW c, Fluent(S, k, c)
    PROVE  Fluent(StreamCredit(S, id, n, fast), k, c)
<1> DEFINE owed == S.streams[id].unacked + n
           window == CreditWindow(S, id)
           growCap == IF S.cap # 0 THEN Smaller(S.cap, GrowStream) ELSE GrowStream
           grows == fast /\ S.server /\ GrowStream # 0 /\ S.settingsAcked /\ window < growCap
           next == Smaller(2 * window, growCap)
           win == IF S.cap # 0 THEN Smaller(S.streams[id].win, S.cap) ELSE S.streams[id].win
           w == IF grows THEN next ELSE win
           A == [S EXCEPT !.streams[id].unacked = owed]
           T == [S EXCEPT !.streams[id].unacked = 0, !.streams[id].win = w]
           F == IF grows THEN ConnFollow(T, next) ELSE T
           asked == IF grows THEN owed + (next - window) ELSE owed
           lowering == Larger(S.localWindow - S.advWindow, 0)
           room == S.cap - (S.streams[id].recv - lowering + S.streams[id].held)
           inc == IF S.cap # 0 THEN Smaller(asked, room) ELSE asked
           R == Answer([F EXCEPT !.streams[id].recv = @ + inc], Window(id, inc))
<1>0. IsEnd(S)
  BY DEF GoodEnd
<1>1. /\ S.cap \in Nat /\ S.localWindow \in Int /\ S.advWindow \in Int
      /\ S.streams[id].win \in Nat /\ S.streams[id].recv \in Int /\ S.streams[id].held \in Nat
      /\ S.streams[id].unacked \in Nat /\ S.streams[id] \in StreamType
      /\ GrowStream \in Nat
  BY <1>0, EndFields DEF H2Assumption
<1>2. window \in Nat
  BY <1>1 DEF CreditWindow, Larger, Smaller
<1>3. owed \in Nat
  BY <1>1
<1>4. growCap \in Nat
  BY <1>1 DEF Smaller
<1> HIDE DEF window, owed, growCap, grows
<1>5. next \in Nat
  BY <1>2, <1>4 DEF Smaller
<1>6. win \in Nat
  BY <1>1 DEF Smaller
<1> HIDE DEF next, win
<1>7. w \in Nat
  BY <1>5, <1>6
<1>8. asked \in Int
  BY <1>2, <1>3, <1>5
<1>9. room \in Int
  BY <1>1 DEF Larger
<1> HIDE DEF asked, lowering, room
<1>10. inc \in Int
  BY <1>8, <1>9 DEF Smaller
<1>11. \/ StreamCredit(S, id, n, fast) \in {S, A, F}
       \/ inc > 0 /\ StreamCredit(S, id, n, fast) = R
  <2> DEFINE nothing == n = 0 \/ S.closed
             later == n # 0 /\ ~S.closed /\ (Has(S, id, "REMOTE_END") \/ 2 * owed < window)
  <2>1. ~(nothing /\ later)
    OBVIOUS
  <2>2. StreamCredit(S, id, n, fast) = CASE nothing -> S
                                         [] later -> A
                                         [] OTHER -> IF inc <= 0 THEN F ELSE R
    BY DEF StreamCredit, owed, window, growCap, grows, next, win, asked, lowering, room
  <2>3. ~(inc <= 0) => inc > 0
    BY <1>10
  <2> HIDE DEF nothing, later, A, T, F, R, inc
  <2> QED
    BY <2>1, <2>2, <2>3
<1>12. Fluent(A, k, c)
  <2> DEFINE s == [S.streams[id] EXCEPT !.unacked = owed]
  <2>1. A = [S EXCEPT !.streams[id] = s]
    OBVIOUS
  <2>2. /\ s \in StreamType /\ s.send = S.streams[id].send /\ s.held = S.streams[id].held
        /\ s.flags = S.streams[id].flags
    BY <1>1, <1>3 DEF StreamType
  <2>3. s.flags \cap Waiting \subseteq Waits(S, id)
    BY <2>2 DEF Waits
  <2> HIDE DEF s, A
  <2> QED
    BY <2>1, <2>2, <2>3, StreamFluent
<1>13. Fluent(T, k, c) /\ GoodEnd(T) /\ Open(T) = Open(S)
  <2> HIDE DEF w
  <2> DEFINE s == [S.streams[id] EXCEPT !.unacked = 0, !.win = w]
  <2>1. T = [S EXCEPT !.streams[id] = s]
    <3>1. S \in EndType(Open(S)) /\ S.streams \in [Open(S) -> StreamType]
      BY <1>0, EndFields DEF IsEnd
    <3> HIDE DEF StreamType, FrameType
    <3>2. [S.streams EXCEPT ![id] = s]
            = [[S.streams EXCEPT ![id].unacked = 0] EXCEPT ![id].win = w]
      BY <3>1
    <3>3. [S EXCEPT !.streams[id] = s] = [S EXCEPT !.streams = [S.streams EXCEPT ![id] = s]]
      OBVIOUS
    <3> QED
      BY <3>1, <3>2, <3>3 DEF EndType
  <2>2. /\ s \in StreamType /\ s.send = S.streams[id].send /\ s.held = S.streams[id].held
        /\ s.flags = S.streams[id].flags
    BY <1>1, <1>7 DEF StreamType
  <2>3. s.flags \cap Waiting \subseteq Waits(S, id)
    BY <2>2 DEF Waits
  <2> HIDE DEF s, T
  <2> QED
    BY <2>1, <2>2, <2>3, StreamFluent
<1> HIDE DEF A, T, w
<1>15. Fluent(F, k, c) /\ GoodEnd(F) /\ id \in Open(F)
  <2>1. CASE grows
    <3>1. GoodEnd(ConnFollow(T, next)) /\ ConnFollow(T, next).streams = T.streams
      BY <1>5, <1>13, ConnFollowKeeps DEF Keeps
    <3>2. Fluent(ConnFollow(T, next), k, c)
      BY <1>5, <1>13, ConnFollowFluent
    <3> QED
      BY <1>13, <2>1, <3>1, <3>2 DEF Open
  <2>2. CASE ~grows
    BY <1>13, <2>2
  <2> QED
    BY <2>1, <2>2
<1> HIDE DEF F, inc
<1>16. CASE inc > 0 /\ StreamCredit(S, id, n, fast) = R
  <2>1. inc \in Nat
    BY <1>10, <1>16
  <2> QED
    BY <1>15, <1>16, <2>1, StreamMoreFluent
<1> QED
  BY <1>11, <1>12, <1>15, <1>16

---------------------------------------------------------------------------
(* The life of streams.                                                    *)
LEMMA RingAddFree ==
    ASSUME H2Assumption, NEW S, GoodEnd(S), NEW id, NEW how
    PROVE  Free(S, RingAdd(S, id, how))
<1> DEFINE entry == [id |-> id, how |-> how]
           ring == IF Len(S.ring) = CfgStreams(S) THEN Append(Tail(S.ring), entry)
                                                 ELSE Append(S.ring, entry)
           R == [S EXCEPT !.ring = ring]
<1>1. RingAdd(S, id, how) = R
  BY DEF RingAdd
<1>2. /\ Funds(S, R) /\ R.streams = S.streams /\ R.pending = S.pending /\ R.sendWin = S.sendWin
      /\ R.sweepWritable = S.sweepWritable /\ R.closed = S.closed
  <2> HIDE DEF FrameType, StreamType, ring
  <2> QED
    BY ZenonT(60) DEF GoodEnd, IsEnd, EndType, Funds
<1>3. S.pending \in Int
  BY NumbersOf
<1> HIDE DEF R
<1> QED
  BY <1>1, <1>2, <1>3 DEF Free

LEMMA DebtFree ==
    ASSUME H2Assumption, NEW S, GoodEnd(S)
    PROVE  Free(S, Debt(S)) /\ GoodEnd(Debt(S))
<1> DEFINE T == [S EXCEPT !.debt = @ + 1]
<1>1. S.debt + 1 \in Int /\ S.pending \in Int
  BY EndFields DEF GoodEnd
<1>2. /\ IsEnd(T) /\ Alike(S, T) /\ T.out = S.out /\ T.closed = S.closed
  <2> HIDE DEF FrameType, StreamType
  <2> QED
    BY <1>1, ZenonT(60) DEF GoodEnd, IsEnd, EndType, Open, Alike
<1>3. /\ Funds(S, T) /\ T.streams = S.streams /\ T.pending = S.pending /\ T.sendWin = S.sendWin
      /\ T.sweepWritable = S.sweepWritable
  <2> HIDE DEF FrameType, StreamType
  <2> QED
    BY ZenonT(60) DEF GoodEnd, IsEnd, EndType, Funds
<1>4. Debt(S) = IF T.debt > CfgDebt THEN Fail(T, "calm") ELSE T
  BY DEF Debt
<1> HIDE DEF T
<1>5. GoodEnd(T) /\ Free(S, T)
  BY <1>1, <1>2, <1>3, AlikeKeeps DEF Keeps, Free
<1>6. "calm" \in Codes
  BY DEF Codes
<1>7. GoodEnd(Fail(T, "calm")) /\ Free(T, Fail(T, "calm"))
  BY <1>5, <1>6, FailFree
<1> QED
  BY <1>4, <1>5, <1>7, FreeTrans

LEMMA RemoveStreamFluent ==
    ASSUME H2Assumption, NEW S, GoodEnd(S), NEW id \in Open(S), NEW properly \in BOOLEAN,
           NEW how \in Endings, NEW c, Fluent(S, 0, c)
    PROVE  Fluent(RemoveStream(S, id, properly, how), 0, c)
<1> DEFINE D == Open(S) \ {id}
           ss == Restrict(S.streams, DOMAIN S.streams \ {id})
           debt == IF properly /\ S.debt > 0 THEN S.debt - 1 ELSE S.debt
           held == S.streams[id].held
           T0 == [S EXCEPT !.streams = ss]
           T == [S EXCEPT !.streams = ss, !.debt = debt]
           Q == RingAdd(T, id, how)
<1>0. IsEnd(S)
  BY DEF GoodEnd
<1>1. /\ Open(S) \in SUBSET Ids /\ S.streams \in [Open(S) -> StreamType] /\ S.debt \in Int
      /\ held \in Nat /\ id \in Ids /\ \A i \in Open(S) : S.streams[i].send \in Int
  BY <1>0, EndFields
<1>2. D \in SUBSET Ids /\ ss \in [D -> StreamType] /\ \A i \in D : ss[i] = S.streams[i]
  <2> HIDE DEF StreamType
  <2> QED
    BY <1>1 DEF Restrict, Open
<1>3. debt \in Int
  BY <1>1
<1>4. RemoveStream(S, id, properly, how) = ConnCredit(Q, held)
  BY DEF RemoveStream
<1>44. D = Open(S) \ {id}
  OBVIOUS
<1> HIDE DEF D, ss, debt
<1>5. /\ IsEnd(T0) /\ Open(T0) = D /\ T0.streams = ss
      /\ T0.server = S.server /\ T0.nextId = S.nextId /\ T0.lastPeerId = S.lastPeerId
      /\ T0.sendWin = S.sendWin /\ T0.recvWin = S.recvWin
      /\ T0.localWindow = S.localWindow /\ T0.peerWindow = S.peerWindow
      /\ T0.out = S.out /\ T0.closed = S.closed
  BY <1>0, <1>2, OtherStreams
<1>55. /\ Funds(S, T0) /\ T0.pending = S.pending /\ T0.sweepWritable = S.sweepWritable
  BY <1>0, OtherFunds
<1>6. T = [T0 EXCEPT !.debt = debt]
  OBVIOUS
<1> HIDE DEF T0, T
<1>7. /\ IsEnd(T) /\ Alike(T0, T) /\ T.out = T0.out /\ T.closed = T0.closed
  <2> HIDE DEF FrameType, StreamType
  <2> QED
    BY <1>3, <1>5, <1>6, ZenonT(60) DEF IsEnd, EndType, Open, Alike
<1>8. /\ Funds(T0, T) /\ T.pending = T0.pending /\ T.sweepWritable = T0.sweepWritable
  <2> HIDE DEF FrameType, StreamType
  <2> QED
    BY <1>5, <1>6, ZenonT(60) DEF IsEnd, EndType, Funds
<1>9. /\ Funds(S, T) /\ T.pending = S.pending /\ T.sweepWritable = S.sweepWritable
      /\ T.closed = S.closed /\ T.streams = ss /\ Open(T) = D /\ T.sendWin = S.sendWin
  BY <1>5, <1>55, <1>7, <1>8 DEF Funds, Alike, Open
<1>10. GoodEnd(T)
  <2>1. Known(T) = Known(S)
    BY <1>5, <1>7 DEF Known, Alike
  <2> QED
    BY <1>5, <1>7, <1>9, <1>44, <2>1 DEF GoodEnd, OfKnown
<1>11. Held(S) = Held(T) + held /\ Held(T) \in Nat
  BY <1>0, <1>2, <1>9, <1>44, HeldLess
<1>12. Fluent(T, held, c)
  <2>1. CASE S.closed
    BY <1>9, <2>1 DEF Fluent
  <2>2. CASE Solvent(S, 0) /\ Woken(S) /\ S.cap = c
    <3>1. Quieter(S, T)
      <4>1. S.pending \in Int /\ S.sendWin \in Int
        BY NumbersOf
      <4>2. \A i \in Open(T) : /\ i \in Open(S) /\ Waits(T, i) \subseteq Waits(S, i)
                               /\ T.streams[i].send <= S.streams[i].send
        BY <1>1, <1>2, <1>9, <1>44 DEF Waits
      <4> QED
        BY <1>9, <4>1, <4>2 DEF Quieter
    <3>2. Woken(T)
      BY <1>10, <2>2, <3>1, QuieterWoken
    <3>3. ConnTarget(T) = ConnTarget(S) /\ Room(S) + 0 = Room(T) + held /\ Room(S) \in Int
      <4>1. S.recvWin \in Int /\ S.rd.left \in Nat
        BY NumbersOf
      <4> HIDE DEF held
      <4> QED
        BY <1>1, <1>9, <1>11, <4>1 DEF Room, Funds, ConnTarget
    <3>4. /\ 0 < S.target /\ ConnTarget(S) <= S.unacked + Room(S) + 0
          /\ S.unacked < Room(S) + 0
      BY <2>2 DEF Solvent
    <3>5. T.target = S.target /\ T.unacked = S.unacked
      BY <1>9 DEF Funds
    <3>6. S.unacked \in Nat /\ Room(T) \in Int
      <4>1. S.unacked \in Nat
        BY NumbersOf
      <4>2. T.recvWin \in Int /\ T.rd.left \in Nat /\ Held(T) \in Nat
        BY <1>10, NumbersOf
      <4> QED
        BY <4>1, <4>2 DEF Room
    <3>7. Solvent(T, held)
      <4> HIDE DEF held
      <4> QED
        BY <1>1, <3>3, <3>4, <3>5, <3>6 DEF Solvent
    <3> QED
      BY <1>9, <2>2, <3>2, <3>7 DEF Fluent, Funds
  <2> QED
    BY <2>1, <2>2 DEF Fluent
<1>13. Fluent(Q, held, c) /\ GoodEnd(Q)
  <2>1. GoodEnd(Q) /\ Free(T, Q)
    BY <1>1, <1>10, RingAddKeeps, RingAddFree DEF Keeps
  <2> QED
    BY <1>10, <1>12, <2>1, FreeFluent
<1>14. held + 0 = held
  BY <1>1
<1> HIDE DEF Q, held
<1> QED
  BY <1>1, <1>4, <1>13, <1>14, ConnCreditFluent

(* Fields of S that do not matter here may differ.                         *)
SameFlow(S, R) ==
    /\ Funds(S, R) /\ R.streams = S.streams /\ R.pending = S.pending /\ R.sendWin = S.sendWin
    /\ R.sweepWritable = S.sweepWritable /\ R.closed = S.closed

LEMMA SameFluent ==
    ASSUME H2Assumption, NEW S, GoodEnd(S), NEW R, GoodEnd(R), SameFlow(S, R), NEW k, NEW c, Fluent(S, k, c)
    PROVE  Fluent(R, k, c)
<1>1. S.pending \in Int
  BY NumbersOf
<1>2. Free(S, R)
  BY <1>1 DEF SameFlow, Free
<1> QED
  BY <1>2, FreeFluent

LEMMA StreamFaultFluent ==
    ASSUME H2Assumption, NEW S, GoodEnd(S), NEW id \in Ids, NEW code \in Codes, NEW forgive \in BOOLEAN,
           NEW c, Fluent(S, 0, c)
    PROVE  Fluent(StreamFault(S, id, code, forgive), 0, c)
<1> DEFINE P == Answer(S, Rst(id, code))
           Q == [P EXCEPT !.blamed = @ \cup {code}]
           V == IF id \in Open(Q) THEN RemoveStream(Q, id, FALSE, IF forgive THEN "ours" ELSE "done")
                ELSE IF forgive THEN RingAdd(Q, id, "ours") ELSE Q
<1>1. GoodEnd(P) /\ Fluent(P, 0, c)
  <2>1. Due(S, Rst(id, code))
    BY RstIs
  <2> QED
    BY <2>1, AnswerFree, FreeFluent
<1>2. StreamFault(S, id, code, forgive) = Debt(V)
  BY DEF StreamFault
<1> HIDE DEF P
<1>3. P.blamed \cup {code} \subseteq Codes /\ IsEnd(P)
  BY <1>1, EndFields DEF GoodEnd
<1>4. IsEnd(Q) /\ Alike(P, Q) /\ Q.out = P.out /\ Q.closed = P.closed
  <2> HIDE DEF FrameType, StreamType, Codes
  <2> QED
    BY <1>3, ZenonT(60) DEF IsEnd, EndType, Open, Alike
<1>5. SameFlow(P, Q)
  <2> HIDE DEF FrameType, StreamType
  <2> QED
    BY <1>3, ZenonT(60) DEF IsEnd, EndType, SameFlow, Funds
<1> HIDE DEF Q
<1>6. GoodEnd(Q) /\ Fluent(Q, 0, c)
  BY <1>1, <1>4, <1>5, AlikeKeeps, SameFluent DEF Keeps
<1>7. GoodEnd(V) /\ Fluent(V, 0, c)
  <2>1. CASE id \in Open(Q)
    <3>1. PICK how \in Endings : how = IF forgive THEN "ours" ELSE "done"
      BY DEF Endings
    <3>2. PICK W : W = RemoveStream(Q, id, FALSE, how)
      OBVIOUS
    <3>3. GoodEnd(W) /\ Fluent(W, 0, c)
      BY <1>6, <2>1, <3>2, RemoveStreamKeeps, RemoveStreamFluent DEF Keeps
    <3>4. V = W
      BY <2>1, <3>1, <3>2
    <3> QED
      BY <3>3, <3>4
  <2>2. CASE id \notin Open(Q) /\ forgive
    <3>1. "ours" \in Endings
      BY DEF Endings
    <3>2. GoodEnd(RingAdd(Q, id, "ours")) /\ Free(Q, RingAdd(Q, id, "ours"))
      BY <1>6, <3>1, RingAddKeeps, RingAddFree DEF Keeps
    <3> QED
      BY <1>6, <2>2, <3>2, FreeFluent
  <2>3. CASE id \notin Open(Q) /\ ~forgive
    BY <1>6, <2>3
  <2> QED
    BY <2>1, <2>2, <2>3
<1> HIDE DEF V
<1>8. Free(V, Debt(V)) /\ GoodEnd(Debt(V))
  BY <1>7, DebtFree
<1> QED
  BY <1>2, <1>7, <1>8, FreeFluent

LEMMA ClosedFrameFluent ==
    ASSUME H2Assumption, NEW S, GoodEnd(S), NEW id \in Ids, NEW c, Fluent(S, 0, c)
    PROVE  Fluent(ClosedFrame(S, id), 0, c)
<1> DEFINE code == IF Len(S.ring) = CfgStreams(S) THEN "forgotten" ELSE "unknown"
           how == RingFind(S, id)
           R == ClosedFrame(S, id)
<1>1. code \in Codes /\ "closed" \in Codes
  BY DEF Codes
<1>2. how \in {"ours", "peer", "done", "unknown"}
  BY RingFindType DEF GoodEnd, Endings
<1>3. R = CASE how = "ours" -> S
            [] how = "peer" -> StreamFault(S, id, "closed", FALSE)
            [] how = "done" -> Fail(S, "closed")
            [] how = "unknown" -> Fail(S, code)
  BY DEF ClosedFrame
<1> HIDE DEF R, how, code
<1>4. \/ R = S \/ R = StreamFault(S, id, "closed", FALSE)
      \/ R = Fail(S, "closed") \/ R = Fail(S, code)
  BY <1>2, <1>3
<1>5. \A x \in Codes : Fluent(Fail(S, x), 0, c)
  BY FailFree, FreeFluent
<1>6. Fluent(StreamFault(S, id, "closed", FALSE), 0, c)
  BY <1>1, StreamFaultFluent
<1> QED
  BY <1>1, <1>4, <1>5, <1>6 DEF R

LEMMA FlagFluent ==
    ASSUME H2Assumption, NEW S, GoodEnd(S), NEW id \in Open(S), NEW set \in SUBSET StreamFlags,
           set \cap Waiting = {}, NEW k, NEW c, Fluent(S, k, c)
    PROVE  Fluent(Flag(S, id, set), k, c)
<1> DEFINE s == [S.streams[id] EXCEPT !.flags = @ \cup set]
<1>1. S.streams[id] \in StreamType
  BY EndFields DEF GoodEnd
<1>2. /\ s \in StreamType /\ s.send = S.streams[id].send /\ s.held = S.streams[id].held
      /\ s.flags = S.streams[id].flags \cup set
  <2> HIDE DEF StreamFlags
  <2> QED
    BY <1>1 DEF StreamType
<1>3. Flag(S, id, set) = [S EXCEPT !.streams[id] = s]
  BY DEF Flag
<1>4. s.flags \cap Waiting \subseteq Waits(S, id)
  BY <1>2 DEF Waits
<1> HIDE DEF s
<1> QED
  BY <1>2, <1>3, <1>4, StreamFluent

LEMMA LocalEndFluent ==
    ASSUME H2Assumption, NEW S, GoodEnd(S), NEW id \in Open(S), NEW c, Fluent(S, 0, c)
    PROVE  Fluent(LocalEnd(S, id), 0, c)
<1> DEFINE T == Flag(S, id, {"LOCAL_END"})
           Q == Queue(T, Rst(id, "none"))
           A == RemoveStream(T, id, TRUE, "done")
           B == RemoveStream(Q, id, TRUE, EndedEarly)
<1>0. {"done", EndedEarly} \subseteq Endings /\ "none" \in Codes /\ {"LOCAL_END"} \in SUBSET StreamFlags
      /\ id \in Ids /\ {"LOCAL_END"} \cap Waiting = {}
  BY EndFields DEF Endings, EndedEarly, Codes, StreamFlags, GoodEnd, Waiting
<1>1. Open(T) = Open(S) /\ GoodEnd(T) /\ Fluent(T, 0, c)
  BY <1>0, FlagKeeps, FlagFluent DEF Keeps
<1>2. LocalEnd(S, id) \in {T, A, B}
  BY DEF LocalEnd
<1> HIDE DEF T
<1>3. Fluent(A, 0, c)
  BY <1>0, <1>1, RemoveStreamFluent
<1>4. GoodEnd(Q) /\ Free(T, Q)
  <2>1. PICK f : f = Rst(id, "none")
    OBVIOUS
  <2>2. Due(T, f)
    BY <1>0, <2>1, RstIs
  <2> QED
    BY <1>1, <2>1, <2>2, AnswerFree
<1>5. Fluent(Q, 0, c) /\ id \in Open(Q)
  BY <1>1, <1>4, FreeFluent, FreeQuiet
<1> HIDE DEF Q
<1>6. Fluent(B, 0, c)
  <2>1. PICK how \in Endings : how = EndedEarly
    BY <1>0
  <2>2. Fluent(RemoveStream(Q, id, TRUE, how), 0, c)
    BY <1>4, <1>5, RemoveStreamFluent
  <2> QED
    BY <2>1, <2>2
<1> HIDE DEF A, B
<1> QED
  BY <1>1, <1>2, <1>3, <1>6

LEMMA RemoteEndFluent ==
    ASSUME H2Assumption, NEW S, GoodEnd(S), NEW id \in Open(S), NEW c, Fluent(S, 0, c)
    PROVE  Fluent(RemoteEnd(S, id), 0, c)
<1> DEFINE T == Flag(S, id, {"REMOTE_END"})
           A == RemoveStream(T, id, TRUE, "done")
<1>0. "done" \in Endings /\ {"REMOTE_END"} \in SUBSET StreamFlags /\ {"REMOTE_END"} \cap Waiting = {}
  BY DEF Endings, StreamFlags, Waiting
<1>1. Open(T) = Open(S) /\ GoodEnd(T) /\ Fluent(T, 0, c)
  BY <1>0, FlagKeeps, FlagFluent DEF Keeps
<1>2. RemoteEnd(S, id) \in {T, A}
  BY DEF RemoteEnd
<1> HIDE DEF T
<1>3. Fluent(A, 0, c)
  BY <1>0, <1>1, RemoveStreamFluent
<1> HIDE DEF A
<1> QED
  BY <1>1, <1>2, <1>3

---------------------------------------------------------------------------
(* Settings.                                                               *)
LEMMA LocalWindowFluent ==
    ASSUME H2Assumption, NEW S, GoodEnd(S), NEW window \in Int, NEW k, NEW c, Fluent(S, k, c)
    PROVE  Fluent(LocalWindow(S, window), k, c) /\ GoodEnd(LocalWindow(S, window))
<1> DEFINE ss == [id \in Open(S) |-> [S.streams[id] EXCEPT !.recv = @ + (window - S.localWindow)]]
           T == [S EXCEPT !.streams = ss]
           R == [T EXCEPT !.localWindow = window]
<1>1. /\ IsEnd(S) /\ S.localWindow \in Int
      /\ \A id \in Open(S) : /\ S.streams[id] \in StreamType /\ S.streams[id].recv \in Int
                             /\ S.streams[id].send \in Int
  BY EndFields DEF GoodEnd
<1>2. ss \in [Open(S) -> StreamType]
  BY <1>1 DEF StreamType
<1>3. \A id \in Open(S) : /\ ss[id].send = S.streams[id].send /\ ss[id].held = S.streams[id].held
                          /\ ss[id].flags = S.streams[id].flags
  BY <1>1 DEF StreamType
<1>4. LocalWindow(S, window) = [S EXCEPT !.localWindow = window, !.streams = ss]
  BY DEF LocalWindow
<1> HIDE DEF ss
<1>5. LocalWindow(S, window) = R
  BY <1>4
<1>6. \A id \in Open(S) :
        /\ ss[id].held = S.streams[id].held /\ ss[id].send <= S.streams[id].send
        /\ ss[id].flags \cap Waiting \subseteq Waits(S, id)
  BY <1>1, <1>3 DEF Waits
<1>7. Fluent(T, k, c) /\ GoodEnd(T)
  BY <1>2, <1>6, StreamsFluent
<1> HIDE DEF T
<1>8. SameFlow(T, R)
  <2> HIDE DEF FrameType, StreamType
  <2> QED
    BY <1>7, ZenonT(60) DEF GoodEnd, IsEnd, EndType, SameFlow, Funds
<1>9. GoodEnd(LocalWindow(S, window))
  BY LocalWindowKeeps DEF Keeps
<1> HIDE DEF R
<1> QED
  BY <1>5, <1>7, <1>8, <1>9, SameFluent

LEMMA SettingsChangeFluent ==
    ASSUME H2Assumption, NEW S, GoodEnd(S), NEW k, NEW c, Fluent(S, k, c)
    PROVE  Fluent(SettingsChange(S), k, c)
<1> DEFINE said == Settings(IF S.wantStreams # S.advStreams THEN S.wantStreams ELSE -1,
                            IF S.wantWindow # S.advWindow THEN S.wantWindow ELSE -1)
           P == Put(S, said)
           T == [P EXCEPT !.advStreams = S.wantStreams,
                          !.advWindow = S.wantWindow, !.chgInflight = TRUE]
<1>1. IsEnd(S) /\ S.wantStreams \in Int /\ S.wantWindow \in Int
  BY EndFields DEF GoodEnd
<1>2. Due(S, said)
  <2>1. PICK a \in Int : a = IF S.wantStreams # S.advStreams THEN S.wantStreams ELSE -1
    BY <1>1
  <2>2. PICK b \in Int : b = IF S.wantWindow # S.advWindow THEN S.wantWindow ELSE -1
    BY <1>1
  <2>3. said = Settings(a, b)
    BY <2>1, <2>2
  <2> QED
    BY <2>3, SettingsIs
<1>3. SettingsChange(S) \in {S, T, LocalWindow(T, T.advWindow)}
  BY DEF SettingsChange
<1> HIDE DEF said
<1>4. GoodEnd(P) /\ Fluent(P, k, c)
  BY <1>2, AnswerFree, FreeFluent
<1> HIDE DEF P
<1>5. IsEnd(P)
  BY <1>4 DEF GoodEnd
<1>6. IsEnd(T) /\ Alike(P, T) /\ T.out = P.out /\ T.closed = P.closed
  <2> HIDE DEF FrameType, StreamType
  <2> QED
    BY <1>1, <1>5, ZenonT(60) DEF IsEnd, EndType, Open, Alike
<1>7. SameFlow(P, T)
  <2> HIDE DEF FrameType, StreamType
  <2> QED
    BY <1>5, ZenonT(60) DEF IsEnd, EndType, SameFlow, Funds
<1> HIDE DEF T
<1>8. GoodEnd(T) /\ Fluent(T, k, c)
  BY <1>4, <1>6, <1>7, AlikeKeeps, SameFluent DEF Keeps
<1>9. T.advWindow \in Int
  BY <1>6, EndFields
<1>10. Fluent(LocalWindow(T, T.advWindow), k, c)
  BY <1>8, <1>9, LocalWindowFluent
<1> QED
  BY <1>3, <1>8, <1>10

LEMMA OnAckFluent ==
    ASSUME H2Assumption, NEW S, GoodEnd(S), NEW k, NEW c, Fluent(S, k, c)
    PROVE  Fluent(OnAck(S), k, c)
<1> DEFINE A == [S EXCEPT !.settingsAcked = TRUE]
           B == [S EXCEPT !.chgInflight = FALSE, !.ackedStreams = S.advStreams]
           L == LocalWindow(B, S.advWindow)
<1>0. IsEnd(S) /\ S.advStreams \in Int /\ S.advWindow \in Int /\ CfgWindow(S) \in Int
  BY EndFields DEF GoodEnd, CfgWindow, H2Assumption
<1>1. OnAck(S) \in {LocalWindow(A, CfgWindow(S)), S, SettingsChange(L)}
  <2> DEFINE first == ~S.settingsAcked
             none == S.settingsAcked /\ ~S.chgInflight
  <2>1. ~(first /\ none)
    OBVIOUS
  <2>2. OnAck(S) = CASE first -> LocalWindow(A, CfgWindow(S))
                     [] none -> S
                     [] OTHER -> SettingsChange(L)
    BY DEF OnAck
  <2> HIDE DEF first, none, A, L
  <2> QED
    BY <2>1, <2>2
<1>2. IsEnd(A) /\ Alike(S, A) /\ A.out = S.out /\ A.closed = S.closed
  <2> HIDE DEF FrameType, StreamType
  <2> QED
    BY <1>0, ZenonT(60) DEF IsEnd, EndType, Open, Alike
<1>3. IsEnd(B) /\ Alike(S, B) /\ B.out = S.out /\ B.closed = S.closed
  <2> HIDE DEF FrameType, StreamType
  <2> QED
    BY <1>0, ZenonT(60) DEF IsEnd, EndType, Open, Alike
<1>4. SameFlow(S, A)
  <2> HIDE DEF FrameType, StreamType
  <2> QED
    BY <1>0, ZenonT(60) DEF IsEnd, EndType, SameFlow, Funds
<1>5. SameFlow(S, B)
  <2> HIDE DEF FrameType, StreamType
  <2> QED
    BY <1>0, ZenonT(60) DEF IsEnd, EndType, SameFlow, Funds
<1> HIDE DEF A, B
<1>6. GoodEnd(A) /\ GoodEnd(B)
  BY <1>2, <1>3, AlikeKeeps DEF Keeps
<1>7. Fluent(A, k, c) /\ Fluent(B, k, c)
  BY <1>4, <1>5, <1>6, SameFluent
<1>8. Fluent(LocalWindow(A, CfgWindow(S)), k, c) /\ Fluent(L, k, c) /\ GoodEnd(L)
  BY <1>0, <1>6, <1>7, LocalWindowFluent
<1> HIDE DEF L
<1>9. Fluent(SettingsChange(L), k, c)
  BY <1>8, SettingsChangeFluent
<1> QED
  BY <1>1, <1>8, <1>9

LEMMA SetFluent ==
    ASSUME H2Assumption, NEW S, GoodEnd(S), NEW streams \in Int, NEW window \in Int, NEW k, NEW c, Fluent(S, k, c)
    PROVE  Fluent(Set(S, streams, window), k, c)
<1> DEFINE T == [S EXCEPT !.wantStreams = streams, !.wantWindow = window]
<1>1. Set(S, streams, window) \in {S, T, SettingsChange(T)}
  BY DEF Set
<1>2. IsEnd(T) /\ Alike(S, T) /\ T.out = S.out /\ T.closed = S.closed
  <2> HIDE DEF FrameType, StreamType
  <2> QED
    BY ZenonT(60) DEF GoodEnd, IsEnd, EndType, Open, Alike
<1>3. SameFlow(S, T)
  <2> HIDE DEF FrameType, StreamType
  <2> QED
    BY ZenonT(60) DEF GoodEnd, IsEnd, EndType, SameFlow, Funds
<1> HIDE DEF T
<1>4. GoodEnd(T) /\ Fluent(T, k, c)
  BY <1>2, <1>3, AlikeKeeps, SameFluent DEF Keeps
<1> QED
  BY <1>1, <1>4, SettingsChangeFluent

LEMMA CapWindowFluent ==
    ASSUME H2Assumption, NEW S, GoodEnd(S), NEW n \in Nat, NEW c \in Nat, Fluent(S, 0, c), Tightens(c, n)
    PROVE  Fluent(CapWindow(S, n), 0, n)
<1> DEFINE T == [S EXCEPT !.cap = n]
           initial == IF n # 0 THEN Smaller(n, CfgWindow(S)) ELSE CfgWindow(S)
<1>0. CfgWindow(S) \in Int /\ IsEnd(S)
  BY DEF CfgWindow, H2Assumption, GoodEnd
<1>1. CapWindow(S, n) \in {T, Set(T, T.wantStreams, initial)}
  BY DEF CapWindow
<1>2. initial \in Int
  BY <1>0 DEF Smaller
<1>3. IsEnd(T) /\ Alike(S, T) /\ T.out = S.out /\ T.closed = S.closed
  <2> HIDE DEF FrameType, StreamType
  <2> QED
    BY <1>0, ZenonT(60) DEF IsEnd, EndType, Open, Alike
<1>4. /\ T.cap = n /\ T.recvWin = S.recvWin /\ T.unacked = S.unacked /\ T.target = S.target
      /\ T.rd = S.rd /\ T.streams = S.streams /\ T.pending = S.pending
      /\ T.sendWin = S.sendWin /\ T.sweepWritable = S.sweepWritable
  <2> HIDE DEF FrameType, StreamType
  <2> QED
    BY <1>0, ZenonT(60) DEF IsEnd, EndType
<1> HIDE DEF T, initial
<1>5. GoodEnd(T)
  BY <1>3, AlikeKeeps DEF Keeps
<1>6. Fluent(T, 0, n)
  <2>1. CASE S.closed
    BY <1>3, <2>1 DEF Fluent
  <2>2. CASE Solvent(S, 0) /\ Woken(S) /\ S.cap = c
    <3>1. Woken(T)
      BY <1>4, <2>2 DEF Woken, CanWrite, Has, Open
    <3>2. Held(T) = Held(S)
      BY <1>4 DEF Held, Open
    <3>3. /\ S.recvWin \in Int /\ S.unacked \in Nat /\ S.target \in Nat /\ S.cap \in Nat
          /\ S.rd.left \in Nat /\ Held(S) \in Nat
      BY NumbersOf
    <3>4. ConnTarget(T) <= ConnTarget(S) /\ ConnTarget(T) \in Nat /\ ConnTarget(S) \in Nat
      BY <1>4, <2>2, <3>3 DEF ConnTarget, Tightens
    <3>5. Room(T) = Room(S) /\ Room(S) \in Int
      BY <1>4, <3>2, <3>3 DEF Room
    <3>6. 0 < S.target /\ ConnTarget(S) <= S.unacked + Room(S) + 0 /\ S.unacked < Room(S) + 0
      BY <2>2 DEF Solvent
    <3>7. Solvent(T, 0)
      BY <1>4, <3>3, <3>4, <3>5, <3>6 DEF Solvent
    <3> QED
      BY <1>4, <3>1, <3>7 DEF Fluent
  <2> QED
    BY <2>1, <2>2 DEF Fluent
<1>7. T.wantStreams \in Int
  BY <1>3, EndFields
<1>8. Fluent(Set(T, T.wantStreams, initial), 0, n)
  BY <1>2, <1>5, <1>6, <1>7, SetFluent
<1> QED
  BY <1>1, <1>6, <1>8

---------------------------------------------------------------------------
(* Frames, arriving.                                                       *)

(* R owes what S owes, and a sweep is due where one may be needed.         *)
LEMMA MoveFluent ==
    ASSUME H2Assumption, NEW S, GoodEnd(S), NEW R, GoodEnd(R), S.closed => R.closed,
           R.unacked = S.unacked, R.target = S.target, R.cap = S.cap, Room(R) = Room(S),
           R.sweepWritable \/ Quieter(S, R), NEW k, NEW c, Fluent(S, k, c)
    PROVE  Fluent(R, k, c)
<1>1. CASE S.closed
  BY <1>1 DEF Fluent
<1>2. CASE Solvent(S, k) /\ Woken(S) /\ S.cap = c
  <2>1. Woken(R)
    <3>1. CASE R.sweepWritable
      BY <3>1 DEF Woken
    <3>2. CASE Quieter(S, R)
      BY <1>2, <3>2, QuieterWoken
    <3> QED
      BY <3>1, <3>2
  <2>2. ConnTarget(R) = ConnTarget(S)
    BY DEF ConnTarget
  <2>3. Solvent(R, k)
    BY <1>2, <2>2 DEF Solvent
  <2> QED
    BY <1>2, <2>1, <2>3 DEF Fluent
<1> QED
  BY <1>1, <1>2 DEF Fluent

LEMMA OnSettingsFluent ==
    ASSUME H2Assumption, NEW S, GoodEnd(S), NEW f \in FrameType, f.t = "settings",
           NEW c, Fluent(S, 0, c)
    PROVE  Fluent(OnSettings(S, f), 0, c)
<1> DEFINE streams == IF f.streams = -1 THEN S.peerStreams ELSE f.streams
           G == [S EXCEPT !.gotSettings = TRUE, !.peerStreams = streams]
           delta == f.window - S.peerWindow
           tooMuch == \E id \in Open(S) : S.streams[id].send + delta > MaxWindow
           ss == [id \in Open(S) |-> [S.streams[id] EXCEPT !.send = @ + delta]]
           sweep == S.sweepWritable \/ delta > 0
           M == [G EXCEPT !.streams = ss, !.peerWindow = f.window, !.sweepWritable = sweep]
           T == [S EXCEPT !.streams = ss]
           M2 == [T EXCEPT !.gotSettings = TRUE, !.peerStreams = streams,
                           !.peerWindow = f.window, !.sweepWritable = sweep]
           R == OnSettings(S, f)
<1>0. IsEnd(S) /\ f.streams \in Int /\ f.window \in Int
  BY FrameTypes DEF GoodEnd
<1>1. /\ Open(S) \in SUBSET Ids /\ S.peerWindow \in Int /\ S.peerStreams \in Int
      /\ \A id \in Open(S) : S.streams[id] \in StreamType /\ S.streams[id].send \in Int
  BY <1>0, EndFields
<1>2. streams \in Int /\ delta \in Int /\ sweep \in BOOLEAN
  <2>1. S.sweepWritable \in BOOLEAN
    BY NumbersOf
  <2> QED
    BY <1>0, <1>1, <2>1
<1>3. R \in {Answer(G, Ack), Fail(G, "flow"), Answer(M, Ack)}
  <2> DEFINE none == f.window = -1
             much == f.window # -1 /\ tooMuch
  <2>1. R = CASE none -> Answer(G, Ack)
              [] much -> Fail(G, "flow")
              [] OTHER -> Answer(M, Ack)
    <3>1. [S EXCEPT !.gotSettings = TRUE, !.peerStreams = IF f.streams = -1 THEN @ ELSE f.streams] = G
      <4> HIDE DEF FrameType, StreamType
      <4> QED
        BY <1>0 DEF IsEnd, EndType
    <3>2. [G EXCEPT !.streams = ss, !.peerWindow = f.window, !.sweepWritable = @ \/ delta > 0] = M
      <4> HIDE DEF FrameType, StreamType, ss, delta, streams
      <4> QED
        BY <1>0 DEF IsEnd, EndType
    <3> QED
      BY <3>1, <3>2 DEF OnSettings
  <2>2. ~(none /\ much)
    OBVIOUS
  <2> HIDE DEF none, much, R, G, M
  <2> QED
    BY <2>1, <2>2
<1>4. IsEnd(G) /\ Alike(S, G) /\ G.out = S.out /\ G.closed = S.closed
  <2> HIDE DEF FrameType, StreamType, streams
  <2> QED
    BY <1>0, <1>2, ZenonT(60) DEF IsEnd, EndType, Open, Alike
<1>44. SameFlow(S, G)
  <2> HIDE DEF FrameType, StreamType, streams
  <2> QED
    BY <1>0, ZenonT(60) DEF IsEnd, EndType, SameFlow, Funds
<1>5. M = M2
  <2> HIDE DEF streams, ss, sweep
  <2> QED
    OBVIOUS
<1>6. ss \in [Open(S) -> StreamType]
  BY <1>1, <1>2 DEF StreamType
<1>7. \A id \in Open(S) : /\ ss[id].held = S.streams[id].held
                          /\ ss[id].send = S.streams[id].send + delta
                          /\ ss[id].flags = S.streams[id].flags
  BY <1>1 DEF StreamType
<1> HIDE DEF ss, streams
<1>8. /\ IsEnd(T) /\ Open(T) = Open(S) /\ T.streams = ss
      /\ T.server = S.server /\ T.nextId = S.nextId /\ T.lastPeerId = S.lastPeerId
      /\ T.sendWin = S.sendWin /\ T.recvWin = S.recvWin
      /\ T.localWindow = S.localWindow /\ T.peerWindow = S.peerWindow
      /\ T.out = S.out /\ T.closed = S.closed
  BY <1>0, <1>1, <1>6, OtherStreams
<1>88. Funds(S, T) /\ T.pending = S.pending /\ T.sendWin = S.sendWin
  BY <1>0, OtherFunds
<1> HIDE DEF T
<1>9. /\ IsEnd(M2) /\ M2.streams = T.streams
      /\ M2.server = T.server /\ M2.nextId = T.nextId /\ M2.lastPeerId = T.lastPeerId
      /\ M2.out = T.out /\ M2.closed = T.closed /\ M2.sweepWritable = sweep
      /\ Funds(T, M2) /\ M2.pending = T.pending /\ M2.sendWin = T.sendWin
  <2> HIDE DEF FrameType, StreamType, sweep
  <2>1. T \in EndType(Open(T)) /\ Open(T) \subseteq Ids
    BY <1>8 DEF IsEnd
  <2>2. M2 \in EndType(Open(T))
    BY <1>0, <1>2, <2>1, ZenonT(60) DEF EndType
  <2>3. /\ M2.streams = T.streams
        /\ M2.server = T.server /\ M2.nextId = T.nextId /\ M2.lastPeerId = T.lastPeerId
        /\ M2.out = T.out /\ M2.closed = T.closed /\ M2.sweepWritable = sweep
        /\ Funds(T, M2) /\ M2.pending = T.pending /\ M2.sendWin = T.sendWin
    BY <2>1 DEF EndType, Funds
  <2>4. Open(M2) = Open(T)
    BY <2>3 DEF Open
  <2> QED
    BY <2>1, <2>2, <2>3, <2>4 DEF IsEnd
<1> HIDE DEF G, M, M2
<1>10. GoodEnd(G) /\ Fluent(G, 0, c)
  <2>1. GoodEnd(G)
    BY <1>4, AlikeKeeps DEF Keeps
  <2> QED
    BY <1>44, <2>1, SameFluent
<1>11. GoodEnd(M) /\ Fluent(M, 0, c)
  <2>1. Known(M) = Known(S) /\ Open(M) = Open(S)
    BY <1>5, <1>8, <1>9 DEF Known, Open
  <2>2. GoodEnd(M)
    BY <1>5, <1>8, <1>9, <2>1 DEF GoodEnd, OfKnown
  <2>3. Funds(S, M) /\ M.pending = S.pending /\ M.sendWin = S.sendWin /\ M.streams = ss
        /\ M.closed = S.closed /\ M.sweepWritable = sweep
    BY <1>5, <1>8, <1>88, <1>9 DEF Funds
  <2>4. Held(M) = Held(S)
    BY <1>7, <2>1, <2>3, HeldSame
  <2>5. Room(M) = Room(S) /\ M.unacked = S.unacked /\ M.target = S.target /\ M.cap = S.cap
    BY <2>3, <2>4 DEF Room, Funds
  <2>6. M.sweepWritable \/ Quieter(S, M)
    <3>1. S.pending \in Int /\ S.sendWin \in Int
      BY NumbersOf
    <3>2. CASE ~(delta > 0)
      <4>1. \A id \in Open(S) : /\ M.streams[id].send <= S.streams[id].send
                                /\ Waits(M, id) \subseteq Waits(S, id)
        BY <1>1, <1>2, <1>7, <2>3, <3>2 DEF Waits
      <4>2. S.sweepWritable => M.sweepWritable
        BY <2>3
      <4>3. S.pending <= M.pending /\ M.sendWin <= S.sendWin
        BY <2>3, <3>1
      <4> QED
        BY <2>1, <4>1, <4>2, <4>3, Zenon DEF Quieter
    <3> QED
      BY <2>3, <3>2
  <2> QED
    BY <2>2, <2>3, <2>5, <2>6, MoveFluent
<1>12. \A U : GoodEnd(U) /\ Fluent(U, 0, c) => Fluent(Answer(U, Ack), 0, c)
  <2>1. \A U : Due(U, Ack)
    BY DEF Due, Ack, FrameType
  <2> QED
    BY <2>1, AnswerFree, FreeFluent
<1>13. Fluent(Fail(G, "flow"), 0, c)
  <2>1. "flow" \in Codes
    BY DEF Codes
  <2> QED
    BY <1>10, <2>1, FailFree, FreeFluent
<1>14. Fluent(R, 0, c)
  <2> HIDE DEF R
  <2> QED
    BY <1>3, <1>10, <1>11, <1>12, <1>13
<1> QED
  BY <1>14

LEMMA OnWindowFluent ==
    ASSUME H2Assumption, NEW S, GoodEnd(S), ~S.closed, NEW f \in FrameType, f.t = "window",
           NEW c, Fluent(S, 0, c)
    PROVE  Fluent(OnWindow(S, f), 0, c)
<1> DEFINE U == [S EXCEPT !.sendWin = @ + f.n, !.sweepWritable = TRUE]
           ss == [S.streams EXCEPT ![f.id].send = @ + f.n]
           V == [S EXCEPT !.streams[f.id].send = @ + f.n, !.sweepWritable = TRUE]
           V2 == [S EXCEPT !.streams = ss, !.sweepWritable = TRUE]
           R == OnWindow(S, f)
<1>0. IsEnd(S) /\ f.id \in Ids \cup {0} /\ f.n \in Nat /\ "flow" \in Codes /\ "protocol" \in Codes
  BY FrameTypes DEF GoodEnd, Codes
<1>1. S.streams \in [Open(S) -> StreamType]
  BY <1>0, EndFields
<1>2. \/ R \in {Fail(S, "flow"), Fail(S, "protocol"), S}
      \/ R = U
      \/ f.id # 0 /\ f.id \in Open(S) /\ R \in {StreamFault(S, f.id, "flow", TRUE), V}
  <2> DEFINE c1 == f.id = 0
             c2 == f.id # 0 /\ f.id \notin Open(S)
             r1 == IF S.sendWin + f.n > MaxWindow THEN Fail(S, "flow") ELSE U
             r2 == IF IsIdle(S, f.id) THEN Fail(S, "protocol") ELSE S
             r3 == IF S.streams[f.id].send + f.n > MaxWindow
                     THEN StreamFault(S, f.id, "flow", TRUE) ELSE V
  <2>1. R = CASE c1 -> r1 [] c2 -> r2 [] OTHER -> r3
    BY DEF OnWindow
  <2>2. r1 \in {Fail(S, "flow"), U} /\ r3 \in {StreamFault(S, f.id, "flow", TRUE), V}
        /\ r2 \in {Fail(S, "protocol"), S}
    OBVIOUS
  <2> HIDE DEF R, r1, r2, r3, U, V
  <2>3. CASE c1
    BY <2>1, <2>2, <2>3
  <2>4. CASE c2
    BY <2>1, <2>2, <2>4
  <2>5. CASE ~c1 /\ ~c2
    BY <2>1, <2>2, <2>5
  <2> QED
    BY <2>3, <2>4, <2>5
<1>3. GoodEnd(R)
  BY OnWindowReads DEF Reads
<1> HIDE DEF R
<1>4. CASE R \in {Fail(S, "flow"), Fail(S, "protocol"), S}
  BY <1>0, <1>4, FailFree, FreeFluent DEF R
<1>5. CASE R = U
  <2>1. /\ Funds(S, U) /\ U.streams = S.streams /\ U.closed = S.closed /\ U.sweepWritable
    <3> HIDE DEF FrameType, StreamType
    <3> QED
      BY <1>0, ZenonT(60) DEF IsEnd, EndType, Funds
  <2> HIDE DEF U
  <2>2. Held(U) = Held(S)
    BY <2>1 DEF Held, Open
  <2>3. Room(U) = Room(S) /\ U.unacked = S.unacked /\ U.target = S.target /\ U.cap = S.cap
    BY <2>1, <2>2 DEF Room, Funds
  <2> QED
    BY <1>3, <1>5, <2>1, <2>3, MoveFluent DEF R
<1>6. CASE f.id # 0 /\ f.id \in Open(S) /\ R = StreamFault(S, f.id, "flow", TRUE)
  <2>1. f.id \in Ids /\ TRUE \in BOOLEAN
    BY <1>0, <1>6
  <2> QED
    BY <1>0, <1>6, <2>1, StreamFaultFluent DEF R
<1>7. CASE f.id # 0 /\ f.id \in Open(S) /\ R = V
  <2>1. V = V2
    OBVIOUS
  <2>2. DOMAIN ss = Open(S) /\ \A id \in Open(S) : ss[id].held = S.streams[id].held
    <3> HIDE DEF FrameType, StreamType
    <3>1. DOMAIN ss = Open(S)
      BY DEF Open
    <3>2. \A id \in Open(S) : id # f.id => ss[id] = S.streams[id]
      BY <1>1
    <3>3. S.streams[f.id] \in StreamType
      BY <1>1, <1>7
    <3>4. ss[f.id] = [S.streams[f.id] EXCEPT !.send = @ + f.n]
      BY <1>1, <1>7
    <3>5. ss[f.id].held = S.streams[f.id].held
      BY <3>3, <3>4 DEF StreamType
    <3> QED
      BY <3>1, <3>2, <3>5
  <2> HIDE DEF ss, V
  <2>3. /\ Funds(S, V2) /\ V2.streams = ss /\ V2.closed = S.closed /\ V2.sweepWritable
    <3> HIDE DEF FrameType, StreamType
    <3> QED
      BY <1>0, ZenonT(60) DEF IsEnd, EndType, Funds
  <2> HIDE DEF V2
  <2>4. Open(V2) = Open(S)
    BY <2>2, <2>3 DEF Open
  <2>5. Held(V2) = Held(S)
    BY <2>2, <2>3, <2>4, HeldSame
  <2>6. Room(V2) = Room(S) /\ V2.unacked = S.unacked /\ V2.target = S.target /\ V2.cap = S.cap
    BY <2>3, <2>5 DEF Room, Funds
  <2>7. GoodEnd(V2)
    BY <1>3, <1>7, <2>1 DEF R
  <2> QED
    BY <1>7, <2>1, <2>3, <2>6, <2>7, MoveFluent DEF R
<1> HIDE DEF U, V
<1>8. Fluent(R, 0, c)
  BY <1>2, <1>4, <1>5, <1>6, <1>7 DEF R
<1> QED
  BY <1>8 DEF R

LEMMA OnDataFluent ==
    ASSUME H2Assumption, NEW S, GoodEnd(S), ~S.closed, S.rd = NoData,
           NEW f \in FrameType, f.t = "data", NEW c, Fluent(S, 0, c)
    PROVE  Fluent(OnData(S, f), 0, c)
<1> DEFINE T == [S EXCEPT !.recvWin = @ - f.n,
                          !.rd = [id |-> f.id, left |-> f.n, fin |-> f.fin, drop |-> FALSE]]
           D == [T EXCEPT !.rd.drop = TRUE]
           open == f.id \in Open(S)
           V == [T EXCEPT !.streams[f.id].recv = @ - f.n]
           R == OnData(S, f)
<1>0. IsEnd(S) /\ f.id \in Ids /\ f.n \in Nat /\ f.fin \in BOOLEAN
  BY FrameTypes DEF GoodEnd
<1>1. /\ S.recvWin \in Int /\ S.streams \in [Open(S) -> StreamType]
      /\ \A id \in Open(S) : S.streams[id] \in StreamType /\ S.streams[id].recv \in Int
      /\ {"flow", "protocol", "closed", "empty"} \subseteq Codes
  BY <1>0, EndFields DEF Codes
<1>2. /\ IsEnd(T) /\ T.streams = S.streams /\ T.recvWin = S.recvWin - f.n
      /\ T.server = S.server /\ T.nextId = S.nextId /\ T.lastPeerId = S.lastPeerId
      /\ T.sendWin = S.sendWin /\ T.out = S.out /\ T.closed = S.closed
      /\ T.rd = [id |-> f.id, left |-> f.n, fin |-> f.fin, drop |-> FALSE]
      /\ T.unacked = S.unacked /\ T.target = S.target /\ T.cap = S.cap
      /\ T.pending = S.pending /\ T.sweepWritable = S.sweepWritable
  <2>1. S.recvWin - f.n \in Int
    BY <1>0, <1>1
  <2>2. [id |-> f.id, left |-> f.n, fin |-> f.fin, drop |-> FALSE]
          \in [id : Ids \cup {0}, left : Nat, fin : BOOLEAN, drop : BOOLEAN]
    BY <1>0
  <2> HIDE DEF FrameType, StreamType
  <2>3. S \in EndType(Open(S)) /\ Open(S) \subseteq Ids
    BY <1>0 DEF IsEnd
  <2>4. T \in EndType(Open(S))
    BY <2>1, <2>2, <2>3, ZenonT(60) DEF EndType
  <2>5. /\ T.streams = S.streams /\ T.recvWin = S.recvWin - f.n
        /\ T.server = S.server /\ T.nextId = S.nextId /\ T.lastPeerId = S.lastPeerId
        /\ T.sendWin = S.sendWin /\ T.out = S.out /\ T.closed = S.closed
        /\ T.rd = [id |-> f.id, left |-> f.n, fin |-> f.fin, drop |-> FALSE]
        /\ T.unacked = S.unacked /\ T.target = S.target /\ T.cap = S.cap
        /\ T.pending = S.pending /\ T.sweepWritable = S.sweepWritable
    BY <2>3 DEF EndType
  <2>6. Open(T) = Open(S)
    BY <2>5 DEF Open
  <2> QED
    BY <2>3, <2>4, <2>5, <2>6 DEF IsEnd
<1> HIDE DEF T
<1>3. /\ IsEnd(D) /\ Alike(T, D) /\ D.out = T.out /\ D.closed = T.closed
      /\ D.unacked = T.unacked /\ D.target = T.target /\ D.cap = T.cap
      /\ D.pending = T.pending /\ D.sweepWritable = T.sweepWritable /\ D.rd.left = T.rd.left
  <2> DEFINE rd == [T.rd EXCEPT !.drop = TRUE]
  <2>1. T.rd \in [id : Ids \cup {0}, left : Nat, fin : BOOLEAN, drop : BOOLEAN]
    BY <1>0, <1>2
  <2>2. rd \in [id : Ids \cup {0}, left : Nat, fin : BOOLEAN, drop : BOOLEAN] /\ rd.left = T.rd.left
    BY <2>1
  <2>3. D = [T EXCEPT !.rd = rd]
    OBVIOUS
  <2> HIDE DEF FrameType, StreamType, rd, D
  <2>4. IsEnd(D) /\ Alike(T, D) /\ D.out = T.out /\ D.closed = T.closed
    BY <1>2, <2>2, <2>3, ZenonT(60) DEF IsEnd, EndType, Open, Alike
  <2>5. /\ D.unacked = T.unacked /\ D.target = T.target /\ D.cap = T.cap
        /\ D.pending = T.pending /\ D.sweepWritable = T.sweepWritable /\ D.rd = rd
    BY <1>2, <2>3, ZenonT(60) DEF IsEnd, EndType
  <2> QED
    BY <2>2, <2>4, <2>5
<1> HIDE DEF D
<1>4. GoodEnd(T) /\ Open(T) = Open(S) /\ GoodEnd(D)
  <2>1. Known(T) = Known(S) /\ Open(T) = Open(S)
    BY <1>2 DEF Known, Open
  <2>2. GoodEnd(T)
    BY <1>2, <2>1 DEF GoodEnd, OfKnown
  <2> QED
    BY <1>3, <2>1, <2>2, AlikeKeeps DEF Keeps
<1>5. Held(T) = Held(S) /\ Held(D) = Held(S) /\ D.streams = S.streams
  BY <1>2, <1>3 DEF Held, Open, Alike
<1>6. Room(T) = Room(S) /\ Room(D) = Room(S)
  <2>1. S.rd.left = 0 /\ Held(S) \in Nat /\ T.rd.left = f.n
    BY <1>2, NumbersOf DEF NoData
  <2>2. D.recvWin = T.recvWin
    BY <1>3 DEF Alike
  <2> QED
    BY <1>0, <1>1, <1>2, <1>3, <1>5, <2>1, <2>2 DEF Room
<1>7. Quieter(S, T) /\ Quieter(S, D)
  <2>1. S.pending \in Int /\ S.sendWin \in Int /\ \A id \in Open(S) : S.streams[id].send \in Int
    BY <1>0, NumbersOf, EndFields
  <2>2. ASSUME NEW X, X.streams = S.streams, X.pending = S.pending, X.sendWin = S.sendWin,
               X.sweepWritable = S.sweepWritable
        PROVE  Quieter(S, X)
    BY <2>1, <2>2 DEF Quieter, Waits, Open
  <2>3. D.sendWin = S.sendWin
    BY <1>2, <1>3 DEF Alike
  <2> QED
    BY <1>2, <1>3, <1>5, <2>2, <2>3
<1>8. Fluent(T, 0, c) /\ Fluent(D, 0, c)
  <2>1. D.closed = S.closed /\ D.unacked = S.unacked /\ D.target = S.target /\ D.cap = S.cap
    BY <1>2, <1>3
  <2> QED
    BY <1>2, <1>4, <1>6, <1>7, <2>1, MoveFluent
<1> DEFINE codes == {"closed", "protocol", "empty", "flow"}
<1>9. \/ R \in {Fail(S, "flow"), Fail(T, "protocol"), ClosedFrame(D, f.id)}
      \/ \E x \in codes, forgive \in BOOLEAN : R = StreamFault(D, f.id, x, forgive)
      \/ open /\ R = V
  <2> DEFINE much == f.n > S.recvWin
             c1 == f.n <= S.recvWin /\ ~open
             c2 == f.n <= S.recvWin /\ open /\ Has(S, f.id, "REMOTE_END")
             c3 == f.n <= S.recvWin /\ open /\ ~Has(S, f.id, "REMOTE_END")
                   /\ ~S.server /\ ~Has(S, f.id, "HEAD_RECV")
             code == IF f.n = 0 THEN "empty" ELSE "flow"
             r1 == IF IsIdle(S, f.id) THEN Fail(T, "protocol") ELSE ClosedFrame(D, f.id)
             r2 == StreamFault(D, f.id, "closed", FALSE)
             r3 == StreamFault(D, f.id, "protocol", TRUE)
             r4 == IF f.n > S.streams[f.id].recv THEN StreamFault(D, f.id, code, TRUE) ELSE V
             o == open
  <2>1. R = CASE much -> Fail(S, "flow") [] c1 -> r1 [] c2 -> r2 [] c3 -> r3 [] OTHER -> r4
    BY DEF OnData, T, D
  <2>2. /\ ~(much /\ c1) /\ ~(much /\ c2) /\ ~(much /\ c3)
        /\ ~(c1 /\ c2) /\ ~(c1 /\ c3) /\ ~(c2 /\ c3) /\ (~much /\ ~c1 => open)
    BY <1>0, <1>1
  <2> HIDE DEF R, much, c1, c2, c3, r1, r2, r3, r4, o
  <2>3. R \in {Fail(S, "flow"), r1, r2, r3} \/ (o /\ R = r4)
    BY <2>1, <2>2 DEF o
  <2>4. code \in codes /\ "closed" \in codes /\ "protocol" \in codes
    OBVIOUS
  <2> HIDE DEF code, codes
  <2>5. \E x \in codes, forgive \in BOOLEAN : r2 = StreamFault(D, f.id, x, forgive)
    BY <2>4 DEF r2
  <2>6. \E x \in codes, forgive \in BOOLEAN : r3 = StreamFault(D, f.id, x, forgive)
    BY <2>4 DEF r3
  <2>7. r4 \in {StreamFault(D, f.id, code, TRUE), V}
    BY DEF r4
  <2>8. r1 \in {Fail(T, "protocol"), ClosedFrame(D, f.id)}
    BY DEF r1
  <2>9. CASE R = r4 /\ o
    BY <2>4, <2>7, <2>9 DEF o
  <2>10. CASE R \in {Fail(S, "flow"), r1, r2, r3}
    BY <2>5, <2>6, <2>8, <2>10
  <2> QED
    BY <2>3, <2>9, <2>10
<1> HIDE DEF R
<1>10. CASE R \in {Fail(S, "flow"), Fail(T, "protocol"), ClosedFrame(D, f.id)}
  <2>1. Fluent(Fail(S, "flow"), 0, c) /\ Fluent(Fail(T, "protocol"), 0, c)
    BY <1>1, <1>4, <1>8, FailFree, FreeFluent
  <2>2. Fluent(ClosedFrame(D, f.id), 0, c)
    BY <1>0, <1>4, <1>8, ClosedFrameFluent
  <2> QED
    BY <1>10, <2>1, <2>2 DEF R
<1>11. ASSUME NEW x \in codes, NEW forgive \in BOOLEAN, R = StreamFault(D, f.id, x, forgive)
       PROVE  Fluent(R, 0, c)
  <2>1. x \in Codes
    BY <1>1
  <2> QED
    BY <1>0, <1>4, <1>8, <1>11, <2>1, StreamFaultFluent
<1>12. CASE open /\ R = V
  <2> DEFINE s == [S.streams[f.id] EXCEPT !.recv = @ - f.n]
  <2>1. /\ s \in StreamType /\ s.send = S.streams[f.id].send /\ s.held = S.streams[f.id].held
        /\ s.flags = S.streams[f.id].flags
    BY <1>0, <1>1, <1>12 DEF StreamType
  <2>2. V = [T EXCEPT !.streams[f.id] = s]
    BY <1>2
  <2> HIDE DEF s, V
  <2>3. s.flags \cap Waiting \subseteq Waits(T, f.id)
    BY <1>2, <2>1 DEF Waits
  <2>4. f.id \in Open(T) /\ s.send = T.streams[f.id].send /\ s.held = T.streams[f.id].held
    BY <1>2, <1>4, <1>12, <2>1
  <2>5. PICK id \in Open(T) : id = f.id
    BY <2>4
  <2>6. Fluent([T EXCEPT !.streams[id] = s], 0, c)
    BY <1>4, <1>8, <2>1, <2>3, <2>4, <2>5, StreamFluent
  <2> QED
    BY <1>12, <2>2, <2>5, <2>6 DEF R
<1> HIDE DEF V
<1>13. Fluent(R, 0, c)
  BY <1>9, <1>10, <1>11, <1>12 DEF R
<1> QED
  BY <1>13 DEF R

LEMMA OnRstFluent ==
    ASSUME H2Assumption, NEW S, GoodEnd(S), NEW f \in FrameType, f.t = "rst", NEW c, Fluent(S, 0, c)
    PROVE  Fluent(OnRst(S, f), 0, c)
<1> DEFINE polite == ~S.server /\ f.code = "none" /\ Has(S, f.id, "REMOTE_END")
           P == RemoveStream(S, f.id, polite, "peer")
           Q == [P EXCEPT !.refused = @ \cup {f.id}]
           T == IF f.code = "refused" THEN Q ELSE P
           R == OnRst(S, f)
<1>0. f.id \in Ids /\ "protocol" \in Codes
  BY FrameTypes DEF Codes
<1>1. \/ R = Fail(S, "protocol")
      \/ R = S
      \/ f.id \in Open(S) /\ R \in {T, Debt(T)}
  BY DEF OnRst
<1>2. Fluent(Fail(S, "protocol"), 0, c)
  BY <1>0, FailFree, FreeFluent
<1>3. CASE f.id \in Open(S)
  <2>1. PICK p \in BOOLEAN : p = polite
    <3>1. polite \in BOOLEAN
      BY <1>3
    <3> QED
      BY <3>1
  <2>2. "peer" \in Endings
    BY DEF Endings
  <2>3. GoodEnd(P) /\ Fluent(P, 0, c)
    BY <1>3, <2>1, <2>2, RemoveStreamKeeps, RemoveStreamFluent DEF Keeps
  <2> HIDE DEF P, polite
  <2>4. IsEnd(Q) /\ Alike(P, Q) /\ Q.out = P.out /\ Q.closed = P.closed
    <3>1. IsEnd(P)
      BY <2>3 DEF GoodEnd
    <3> HIDE DEF FrameType, StreamType
    <3>2. P.refused \cup {f.id} \in SUBSET Ids
      BY <1>0, <3>1 DEF IsEnd, EndType
    <3> QED
      BY <3>1, <3>2, ZenonT(60) DEF IsEnd, EndType, Open, Alike
  <2>5. SameFlow(P, Q)
    <3> HIDE DEF FrameType, StreamType
    <3> QED
      BY <2>3, ZenonT(60) DEF GoodEnd, IsEnd, EndType, SameFlow, Funds
  <2> HIDE DEF Q
  <2>6. GoodEnd(Q) /\ Fluent(Q, 0, c)
    BY <2>3, <2>4, <2>5, AlikeKeeps, SameFluent DEF Keeps
  <2>7. GoodEnd(T) /\ Fluent(T, 0, c)
    BY <2>3, <2>6
  <2> HIDE DEF T
  <2>8. Fluent(Debt(T), 0, c)
    BY <2>7, DebtFree, FreeFluent
  <2> HIDE DEF R
  <2> QED
    BY <1>1, <1>2, <2>7, <2>8 DEF R
<1>4. CASE f.id \notin Open(S)
  <2> HIDE DEF R
  <2> QED
    BY <1>1, <1>2, <1>4 DEF R
<1> QED
  BY <1>3, <1>4

LEMMA OnGoawayFluent ==
    ASSUME H2Assumption, NEW S, GoodEnd(S), NEW f \in FrameType, f.t = "goaway", NEW c, Fluent(S, 0, c)
    PROVE  Fluent(OnGoaway(S, f), 0, c)
<1> DEFINE T == [S EXCEPT !.goawayLast = f.last, !.goawayRecv = TRUE, !.sweepGoaway = TRUE]
<1>0. f.last \in Int /\ "protocol" \in Codes
  BY FrameTypes DEF Codes
<1>1. OnGoaway(S, f) \in {Fail(S, "protocol"), T}
  BY DEF OnGoaway
<1>2. IsEnd(T) /\ Alike(S, T) /\ T.out = S.out /\ T.closed = S.closed
  <2> HIDE DEF FrameType, StreamType
  <2> QED
    BY <1>0, ZenonT(60) DEF GoodEnd, IsEnd, EndType, Open, Alike
<1>3. SameFlow(S, T)
  <2> HIDE DEF FrameType, StreamType
  <2> QED
    BY ZenonT(60) DEF GoodEnd, IsEnd, EndType, SameFlow, Funds
<1> HIDE DEF T
<1>4. Fluent(T, 0, c)
  BY <1>2, <1>3, AlikeKeeps, SameFluent DEF Keeps
<1>5. Fluent(Fail(S, "protocol"), 0, c)
  BY <1>0, FailFree, FreeFluent
<1> QED
  BY <1>1, <1>4, <1>5

LEMMA ClientBlockFluent ==
    ASSUME H2Assumption, NEW S, GoodEnd(S), NEW f \in FrameType, f.t = "headers", NEW c, Fluent(S, 0, c)
    PROVE  Fluent(ClientBlock(S, f), 0, c)
<1> DEFINE T == Flag(S, f.id, {"HEAD_RECV"})
           R == ClientBlock(S, f)
<1>0. /\ f.id \in Ids /\ {"protocol", "closed"} \subseteq Codes /\ {"HEAD_RECV"} \in SUBSET StreamFlags
      /\ {"HEAD_RECV"} \cap Waiting = {}
  BY FrameTypes DEF Codes, StreamFlags, Waiting
<1>1. \/ R \in {ClosedFrame(S, f.id), Fail(S, "protocol")}
      \/ f.id \in Open(S) /\ R \in {StreamFault(S, f.id, "closed", FALSE), RemoteEnd(T, f.id), T,
                                    RemoteEnd(S, f.id), StreamFault(S, f.id, "protocol", TRUE)}
  <2> DEFINE o == f.id \in Open(S)
             c2 == f.id \in Open(S) /\ Has(S, f.id, "REMOTE_END")
             c3 == f.id \in Open(S) /\ ~Has(S, f.id, "REMOTE_END") /\ ~Has(S, f.id, "HEAD_RECV")
             r1 == IF f.id < S.nextId THEN ClosedFrame(S, f.id) ELSE Fail(S, "protocol")
             r2 == StreamFault(S, f.id, "closed", FALSE)
             r3 == IF f.fin THEN RemoteEnd(T, f.id) ELSE T
             r4 == IF f.fin THEN RemoteEnd(S, f.id) ELSE StreamFault(S, f.id, "protocol", TRUE)
  <2>1. R = CASE ~o -> r1 [] c2 -> r2 [] c3 -> r3 [] OTHER -> r4
    BY DEF ClientBlock
  <2>2. (c2 => o) /\ (c3 => o) /\ ~(c2 /\ c3)
    OBVIOUS
  <2>3. r1 \in {ClosedFrame(S, f.id), Fail(S, "protocol")}
    OBVIOUS
  <2>4. r3 \in {RemoteEnd(T, f.id), T}
    OBVIOUS
  <2>5. r4 \in {RemoteEnd(S, f.id), StreamFault(S, f.id, "protocol", TRUE)}
    OBVIOUS
  <2>6. r2 = StreamFault(S, f.id, "closed", FALSE) /\ (o <=> f.id \in Open(S))
    OBVIOUS
  <2> HIDE DEF R, T, o, c2, c3, r1, r2, r3, r4
  <2>7. (~o /\ R = r1) \/ (o /\ R \in {r2, r3, r4})
    BY <2>1, <2>2
  <2> QED
    BY <2>3, <2>4, <2>5, <2>6, <2>7
<1> HIDE DEF R
<1>2. CASE R \in {ClosedFrame(S, f.id), Fail(S, "protocol")}
  <2>1. Fluent(Fail(S, "protocol"), 0, c)
    BY <1>0, FailFree, FreeFluent
  <2>2. Fluent(ClosedFrame(S, f.id), 0, c)
    BY <1>0, ClosedFrameFluent
  <2> QED
    BY <1>2, <2>1, <2>2 DEF R
<1>3. CASE f.id \in Open(S) /\ R \in {StreamFault(S, f.id, "closed", FALSE), RemoteEnd(T, f.id), T,
                                      RemoteEnd(S, f.id), StreamFault(S, f.id, "protocol", TRUE)}
  <2>1. Fluent(StreamFault(S, f.id, "closed", FALSE), 0, c)
    BY <1>0, StreamFaultFluent
  <2>2. Fluent(StreamFault(S, f.id, "protocol", TRUE), 0, c)
    BY <1>0, StreamFaultFluent
  <2>3. Fluent(RemoteEnd(S, f.id), 0, c)
    BY <1>3, RemoteEndFluent
  <2>4. Fluent(T, 0, c) /\ Open(T) = Open(S) /\ GoodEnd(T)
    BY <1>0, <1>3, FlagKeeps, FlagFluent DEF Keeps
  <2> HIDE DEF T
  <2>5. Fluent(RemoteEnd(T, f.id), 0, c)
    BY <1>3, <2>4, RemoteEndFluent
  <2> QED
    BY <1>3, <2>1, <2>2, <2>3, <2>4, <2>5 DEF R
<1> QED
  BY <1>1, <1>2, <1>3 DEF R

(* A stream that is new holds nothing and waits for nothing.               *)
LEMMA BeginFluent ==
    ASSUME H2Assumption, NEW S, GoodEnd(S), NEW V, GoodEnd(V), NEW id, id \notin Open(S),
           Open(V) = Open(S) \cup {id}, \A i \in Open(S) : V.streams[i] = S.streams[i],
           V.streams[id].held = 0, Waits(V, id) = {}, Funds(S, V), S.pending <= V.pending,
           V.sendWin = S.sendWin, V.sweepWritable = S.sweepWritable, S.closed => V.closed,
           NEW k, NEW c, Fluent(S, k, c)
    PROVE  Fluent(V, k, c)
<1>1. /\ IsEnd(S) /\ IsEnd(V) /\ \A i \in Open(S) : S.streams[i].send \in Int
      /\ S.sendWin \in Int
  BY NumbersOf, EndFields DEF GoodEnd
<1>2. Held(V) = Held(S)
  <2>1. Open(S) = Open(V) \ {id}
    OBVIOUS
  <2>2. Held(V) = Held(S) + V.streams[id].held /\ Held(S) \in Nat
    BY <1>1, <2>1, HeldLess
  <2> QED
    BY <2>2
<1>3. Quieter(S, V)
  <2>1. ASSUME NEW i \in Open(S)
        PROVE  i \in Open(S) /\ Waits(V, i) \subseteq Waits(S, i)
               /\ V.streams[i].send <= S.streams[i].send
    BY <1>1 DEF Waits
  <2>2. V.sendWin <= S.sendWin
    BY <1>1
  <2> QED
    BY <2>1, <2>2 DEF Quieter
<1> QED
  BY <1>2, <1>3, FluentOn

LEMMA ServerBlockFluent ==
    ASSUME H2Assumption, NEW S, GoodEnd(S), ~S.closed, S.server,
           NEW f \in FrameType, f.t = "headers", NEW c, Fluent(S, 0, c)
    PROVE  Fluent(ServerBlock(S, f), 0, c)
<1> DEFINE T == [S EXCEPT !.lastPeerId = f.id]
           Q == Answer(T, Rst(f.id, "refused"))
           F == StreamFault(T, f.id, "refused", ~f.fin)
           G == [F EXCEPT !.overLimit = @ \cup {f.id}]
           s == NewStream(T, f.tunnel)
           n == [s EXCEPT !.flags = @ \cup (IF f.fin THEN {"REMOTE_END"} ELSE {})]
           ss == [i \in Open(T) \cup {f.id} |-> IF i = f.id THEN n ELSE T.streams[i]]
           V == [T EXCEPT !.streams = ss, !.lastActed = f.id, !.acted = @ \cup {f.id}]
           R == ServerBlock(S, f)
<1>0. IsEnd(S) /\ f.id \in Ids /\ f.fin \in BOOLEAN /\ f.tunnel \in BOOLEAN
  BY FrameTypes DEF GoodEnd
<1>1. S.lastPeerId \in Nat /\ f.id \in Nat
  <2>1. S.lastPeerId \in Nat
    BY <1>0, EndFields
  <2> QED
    BY <1>0, <2>1 DEF Ids
<1>2. /\ {"refused", "closed", "protocol"} \subseteq Codes /\ "ours" \in Endings
  BY DEF Codes, Endings
<1>3. \/ R \in {StreamFault(S, f.id, "closed", FALSE), StreamFault(S, f.id, "protocol", TRUE)}
      \/ f.id \in Open(S) /\ R = RemoteEnd(S, f.id)
      \/ R = ClosedFrame(S, f.id)
      \/ f.id > S.lastPeerId /\ R \in {Q, RingAdd(Q, f.id, "ours"), G, V}
  <2> DEFINE c1 == f.id \in Open(S)
             c2 == f.id \notin Open(S) /\ f.id <= S.lastPeerId
             c3 == f.id > S.lastPeerId /\ S.goawaySent
             c4 == f.id > S.lastPeerId /\ ~S.goawaySent
                   /\ Cardinality(Open(S)) >= StreamLimit(S)
             r1 == IF Has(S, f.id, "REMOTE_END") THEN StreamFault(S, f.id, "closed", FALSE)
                   ELSE IF ~f.fin THEN StreamFault(S, f.id, "protocol", TRUE)
                   ELSE RemoteEnd(S, f.id)
             r2 == ClosedFrame(S, f.id)
             r3 == IF f.fin THEN Q ELSE RingAdd(Q, f.id, "ours")
             p == f.id > S.lastPeerId
  <2>1. R = CASE c1 -> r1 [] c2 -> r2 [] c3 -> r3 [] c4 -> G [] OTHER -> V
    BY DEF ServerBlock
  <2>2. r1 \in {StreamFault(S, f.id, "closed", FALSE),
                StreamFault(S, f.id, "protocol", TRUE), RemoteEnd(S, f.id)}
    OBVIOUS
  <2>3. r3 \in {Q, RingAdd(Q, f.id, "ours")}
    OBVIOUS
  <2>4. c1 => f.id <= S.lastPeerId
    BY DEF GoodEnd, OfKnown, Known
  <2>5. ~(c1 /\ c2) /\ ~(c1 /\ c3) /\ ~(c1 /\ c4) /\ ~(c2 /\ c3) /\ ~(c2 /\ c4) /\ ~(c3 /\ c4)
        /\ (~c1 /\ ~c2 => p)
    BY <1>1, <2>4
  <2> HIDE DEF R, c1, c2, c3, c4, r1, r2, r3, Q, G, V, p
  <2>6. \/ c1 /\ R = r1
        \/ R = r2
        \/ p /\ R \in {r3, G, V}
    <3>1. CASE c1
      BY <2>1, <2>5, <3>1
    <3>2. CASE c2
      BY <2>1, <2>5, <3>2
    <3>3. CASE ~c1 /\ ~c2
      BY <2>1, <2>5, <3>3
    <3> QED
      BY <3>1, <3>2, <3>3
  <2>7. r2 = ClosedFrame(S, f.id)
    BY DEF r2
  <2>8. (c1 <=> f.id \in Open(S)) /\ (p <=> f.id > S.lastPeerId)
    BY DEF c1, p
  <2> QED
    BY <2>2, <2>3, <2>6, <2>7, <2>8
<1>4. GoodEnd(R)
  BY ServerBlockReads DEF Reads
<1> HIDE DEF R
<1>5. /\ Fluent(StreamFault(S, f.id, "closed", FALSE), 0, c)
      /\ Fluent(StreamFault(S, f.id, "protocol", TRUE), 0, c)
      /\ Fluent(ClosedFrame(S, f.id), 0, c)
      /\ f.id \in Open(S) => Fluent(RemoteEnd(S, f.id), 0, c)
  BY <1>0, <1>2, StreamFaultFluent, ClosedFrameFluent, RemoteEndFluent
<1>6. CASE f.id > S.lastPeerId /\ R \in {Q, RingAdd(Q, f.id, "ours"), G, V}
  <2>1. GoodEnd(T) /\ Open(T) = Open(S) /\ T.streams = S.streams
    BY <1>6, LaterRequest
  <2>2. SameFlow(S, T)
    <3> HIDE DEF FrameType, StreamType
    <3> QED
      BY <1>0, ZenonT(60) DEF IsEnd, EndType, SameFlow, Funds
  <2> HIDE DEF T
  <2>3. Fluent(T, 0, c)
    BY <2>1, <2>2, SameFluent
  <2>4. GoodEnd(Q) /\ Fluent(Q, 0, c)
    <3>1. PICK g : g = Rst(f.id, "refused")
      OBVIOUS
    <3>2. Due(T, g)
      BY <1>0, <1>2, <3>1, RstIs
    <3> QED
      BY <2>1, <2>3, <3>1, <3>2, AnswerFree, FreeFluent
  <2> HIDE DEF Q
  <2>5. Fluent(RingAdd(Q, f.id, "ours"), 0, c)
    BY <1>0, <1>2, <2>4, RingAddKeeps, RingAddFree, FreeFluent DEF Keeps
  <2>6. Fluent(G, 0, c)
    <3>1. PICK b \in BOOLEAN : b = ~f.fin
      BY <1>0
    <3>2. GoodEnd(F) /\ Fluent(F, 0, c)
      <4>1. "refused" \in Codes
        BY <1>2
      <4>2. GoodEnd(StreamFault(T, f.id, "refused", b)) /\ Fluent(StreamFault(T, f.id, "refused", b), 0, c)
        BY <1>0, <2>1, <2>3, <4>1, StreamFaultKeeps, StreamFaultFluent DEF Keeps
      <4>3. F = StreamFault(T, f.id, "refused", b)
        BY <3>1
      <4> HIDE DEF F
      <4> QED
        BY <4>2, <4>3
    <3> HIDE DEF F
    <3>3. IsEnd(F)
      BY <3>2 DEF GoodEnd
    <3>4. IsEnd(G) /\ Alike(F, G) /\ G.out = F.out /\ G.closed = F.closed
      <4> HIDE DEF FrameType, StreamType
      <4>1. F.overLimit \cup {f.id} \in SUBSET Ids
        BY <1>0, <3>3 DEF IsEnd, EndType
      <4> QED
        BY <3>3, <4>1, ZenonT(60) DEF IsEnd, EndType, Open, Alike
    <3>5. SameFlow(F, G)
      <4> HIDE DEF FrameType, StreamType
      <4> QED
        BY <3>3, ZenonT(60) DEF IsEnd, EndType, SameFlow, Funds
    <3> HIDE DEF G
    <3> QED
      BY <3>2, <3>4, <3>5, AlikeKeeps, SameFluent DEF Keeps
  <2>7. CASE R = V
    <3>1. GoodEnd(V) /\ IsEnd(T)
      BY <1>4, <2>1, <2>7 DEF R, GoodEnd
    <3>2. n.held = 0 /\ n.flags \cap Waiting = {}
      <4>1. s = [send |-> T.peerWindow, recv |-> T.localWindow, unacked |-> 0, held |-> 0,
                 win |-> 0, flags |-> IF f.tunnel THEN {"TUNNEL"} ELSE {}]
        BY DEF NewStream
      <4> HIDE DEF s
      <4>2. n.held = 0 /\ n.flags = (IF f.tunnel THEN {"TUNNEL"} ELSE {})
                                     \cup (IF f.fin THEN {"REMOTE_END"} ELSE {})
        BY <4>1
      <4> HIDE DEF n
      <4> QED
        BY <4>2 DEF Waiting
    <3> HIDE DEF n
    <3>3. /\ DOMAIN ss = Open(T) \cup {f.id} /\ ss[f.id] = n
          /\ \A i \in Open(T) : i # f.id => ss[i] = T.streams[i]
      OBVIOUS
    <3> HIDE DEF ss
    <3>4. /\ Funds(T, V) /\ V.streams = ss /\ V.pending = T.pending /\ V.sendWin = T.sendWin
          /\ V.sweepWritable = T.sweepWritable /\ V.closed = T.closed
      <4> HIDE DEF FrameType, StreamType
      <4> QED
        BY <3>1, ZenonT(60) DEF IsEnd, EndType, Funds
    <3> HIDE DEF V
    <3>5. f.id \notin Open(T)
      <4>1. f.id \in Open(S) => f.id <= S.lastPeerId
        BY DEF GoodEnd, OfKnown, Known
      <4> QED
        BY <1>1, <1>6, <2>1, <4>1
    <3>6. Open(V) = Open(T) \cup {f.id} /\ \A i \in Open(T) : V.streams[i] = T.streams[i]
      BY <3>3, <3>4, <3>5 DEF Open
    <3>7. V.streams[f.id].held = 0 /\ Waits(V, f.id) = {}
      BY <3>2, <3>3, <3>4 DEF Waits
    <3>8. T.pending <= V.pending
      <4>1. T.pending \in Int
        BY <2>1, NumbersOf
      <4> QED
        BY <3>4, <4>1
    <3>9. Fluent(V, 0, c)
      BY <2>1, <2>3, <3>1, <3>4, <3>5, <3>6, <3>7, <3>8, BeginFluent
    <3> QED
      BY <2>7, <3>9 DEF R
  <2> HIDE DEF G, V
  <2> QED
    BY <1>6, <2>4, <2>5, <2>6, <2>7 DEF R
<1> HIDE DEF Q, G, V
<1> QED
  BY <1>3, <1>5, <1>6 DEF R

LEMMA OnFrameFluent ==
    ASSUME H2Assumption, NEW S, GoodEnd(S), ~S.closed, S.rd = NoData, NEW f \in FrameType,
           NEW c, Fluent(S, 0, c)
    PROVE  Fluent(OnFrame(S, f), 0, c)
<1>1. f.t \in {"settings", "ack", "headers", "data", "window", "rst", "goaway", "ping", "pong"}
  BY FrameTypes
<1>2. CASE f.t = "settings"
  BY <1>2, OnSettingsFluent DEF OnFrame
<1>3. CASE f.t = "ack"
  BY <1>3, OnAckFluent DEF OnFrame
<1>4. CASE f.t = "headers"
  <2>1. OnFrame(S, f) = IF S.server THEN ServerBlock(S, f) ELSE ClientBlock(S, f)
    BY <1>4 DEF OnFrame
  <2>2. S.server => Fluent(ServerBlock(S, f), 0, c)
    BY <1>4, ServerBlockFluent
  <2>3. Fluent(ClientBlock(S, f), 0, c)
    BY <1>4, ClientBlockFluent
  <2> QED
    BY <2>1, <2>2, <2>3
<1>5. CASE f.t = "data"
  BY <1>5, OnDataFluent DEF OnFrame
<1>6. CASE f.t = "window"
  BY <1>6, OnWindowFluent DEF OnFrame
<1>7. CASE f.t = "rst"
  BY <1>7, OnRstFluent DEF OnFrame
<1>8. CASE f.t = "goaway"
  BY <1>8, OnGoawayFluent DEF OnFrame
<1>9. CASE f.t = "ping"
  <2>1. OnFrame(S, f) = Answer(S, Pong)
    BY <1>9 DEF OnFrame
  <2>2. Due(S, Pong)
    BY DEF Due, Pong, FrameType
  <2> QED
    BY <2>1, <2>2, AnswerFree, FreeFluent
<1>10. CASE f.t = "pong"
  BY <1>10 DEF OnFrame
<1> QED
  BY <1>1, <1>2, <1>3, <1>4, <1>5, <1>6, <1>7, <1>8, <1>9, <1>10

(* Nothing is due: no stream that could go on is forgotten by a sweep.     *)
LEMMA SweptFluent ==
    ASSUME H2Assumption, NEW S, GoodEnd(S), ~IsDue(S), NEW k, NEW c, Fluent(S, k, c)
    PROVE  Fluent(Swept(S), k, c)
<1>1. Swept(S) = [S EXCEPT !.sweepGoaway = FALSE, !.sweepWritable = FALSE]
  BY DEF Swept
<1>2. PICK T : T = Swept(S)
  OBVIOUS
<1>3. /\ Funds(S, T) /\ T.streams = S.streams /\ T.pending = S.pending /\ T.sendWin = S.sendWin
      /\ T.closed = S.closed
  <2> HIDE DEF FrameType, StreamType
  <2> QED
    BY <1>1, <1>2, ZenonT(60) DEF GoodEnd, IsEnd, EndType, Funds
<1>4. CASE S.closed
  BY <1>2, <1>3, <1>4 DEF Fluent
<1>5. CASE Solvent(S, k) /\ Woken(S) /\ S.cap = c
  <2>1. \A id \in Open(S) : ~CanWrite(S, id)
    <3>1. CASE S.sweepWritable
      BY <3>1 DEF IsDue, Writable
    <3>2. CASE ~S.sweepWritable
      BY <1>5, <3>2 DEF Woken
    <3> QED
      BY <3>1, <3>2
  <2>2. Woken(T)
    BY <1>3, <2>1 DEF Woken, CanWrite, Has, Open
  <2>3. Held(T) = Held(S)
    BY <1>3 DEF Held, Open
  <2>4. Room(T) = Room(S) /\ ConnTarget(T) = ConnTarget(S)
    BY <1>3, <2>3 DEF Room, Funds, ConnTarget
  <2>5. Solvent(T, k)
    BY <1>3, <1>5, <2>4 DEF Solvent, Funds
  <2> QED
    BY <1>2, <1>3, <1>5, <2>2, <2>5 DEF Fluent, Funds
<1> QED
  BY <1>4, <1>5 DEF Fluent

LEMMA OutputSentFluent ==
    ASSUME H2Assumption, NEW S, GoodEnd(S), S.out # << >>, NEW k, NEW c, Fluent(S, k, c)
    PROVE  Fluent(OutputSent(S), k, c)
<1> DEFINE n == Size(Head(S.out))
           T == [S EXCEPT !.out = Tail(@), !.pending = @ - n, !.ctlQueued = Larger(@ - n, 0),
                          !.sweepWritable = TRUE]
<1>1. OutputSent(S) = T
  BY DEF OutputSent
<1>2. GoodEnd(T)
  BY <1>1, OutputSentIs
<1> HIDE DEF n
<1>3. Funds(S, T) /\ T.streams = S.streams /\ T.closed = S.closed /\ T.sweepWritable
  <2> HIDE DEF FrameType, StreamType
  <2> QED
    BY ZenonT(60) DEF GoodEnd, IsEnd, EndType, Funds
<1> HIDE DEF T
<1>4. Held(T) = Held(S)
  BY <1>3 DEF Held, Open
<1>5. Room(T) = Room(S) /\ T.unacked = S.unacked /\ T.target = S.target /\ T.cap = S.cap
  BY <1>3, <1>4 DEF Room, Funds
<1> QED
  BY <1>1, <1>2, <1>3, <1>5, MoveFluent

LEMMA OnPieceFluent ==
    ASSUME H2Assumption, NEW S, GoodEnd(S), NEW n \in Nat, n <= S.rd.left, NEW c, Fluent(S, 0, c)
    PROVE  Fluent(OnPiece(S, n), 0, c)
<1> DEFINE id == S.rd.id
           left == S.rd.left - n
           rd == IF left = 0 THEN NoData ELSE [S.rd EXCEPT !.left = left]
           T == [S EXCEPT !.rd = rd]
           H == [T EXCEPT !.streams[id].held = @ + n]
           R == OnPiece(S, n)
<1>1. S.rd \in [id : Ids \cup {0}, left : Nat, fin : BOOLEAN, drop : BOOLEAN]
  <2> HIDE DEF FrameType, StreamType
  <2> QED
    BY DEF GoodEnd, IsEnd, EndType
<1>2. left \in Nat /\ S.rd.left = left + n
  BY <1>1
<1>3. /\ rd \in [id : Ids \cup {0}, left : Nat, fin : BOOLEAN, drop : BOOLEAN]
      /\ rd.left = left
  <2> HIDE DEF left
  <2> QED
    BY <1>1, <1>2 DEF NoData
<1>4. R \in {ConnCredit(T, n), RemoteEnd(H, id), H} /\ (R # ConnCredit(T, n) => id \in Open(S))
  BY DEF OnPiece
<1> HIDE DEF R, rd, left
<1>5. IsEnd(T) /\ Alike(S, T) /\ T.out = S.out /\ T.closed = S.closed
  <2> HIDE DEF FrameType, StreamType
  <2> QED
    BY <1>3, ZenonT(60) DEF GoodEnd, IsEnd, EndType, Open, Alike
<1>6. /\ T.rd = rd /\ T.recvWin = S.recvWin /\ T.unacked = S.unacked /\ T.target = S.target
      /\ T.cap = S.cap /\ T.streams = S.streams /\ T.pending = S.pending /\ T.sendWin = S.sendWin
      /\ T.sweepWritable = S.sweepWritable
  <2> HIDE DEF FrameType, StreamType
  <2> QED
    BY ZenonT(60) DEF GoodEnd, IsEnd, EndType
<1> HIDE DEF T
<1>7. GoodEnd(T) /\ Open(T) = Open(S)
  BY <1>5, AlikeKeeps DEF Keeps, Alike, Open
<1>8. Held(T) = Held(S) /\ ConnTarget(T) = ConnTarget(S)
  BY <1>6 DEF Held, Open, ConnTarget
<1>9. /\ S.recvWin \in Int /\ S.unacked \in Nat /\ Held(S) \in Nat /\ ConnTarget(S) \in Nat
  BY NumbersOf
<1>10. Room(T) + n = Room(S) /\ Room(T) \in Int
  BY <1>2, <1>3, <1>6, <1>8, <1>9 DEF Room
<1>11. Fluent(T, n, c)
  <2>1. CASE S.closed
    BY <1>5, <2>1 DEF Fluent
  <2>2. CASE Solvent(S, 0) /\ Woken(S) /\ S.cap = c
    <3>1. Woken(T)
      BY <1>6, <2>2 DEF Woken, CanWrite, Has, Open
    <3>2. 0 < S.target /\ ConnTarget(S) <= S.unacked + Room(S) + 0 /\ S.unacked < Room(S) + 0
      BY <2>2 DEF Solvent
    <3>3. Solvent(T, n)
      BY <1>6, <1>8, <1>9, <1>10, <3>2 DEF Solvent
    <3> QED
      BY <1>6, <2>2, <3>1, <3>3 DEF Fluent
  <2> QED
    BY <2>1, <2>2 DEF Fluent
<1>12. CASE R = ConnCredit(T, n)
  <2>1. n + 0 = n
    OBVIOUS
  <2>2. Fluent(ConnCredit(T, n), 0, c)
    BY <1>7, <1>11, <2>1, ConnCreditFluent
  <2> QED
    BY <1>12, <2>2 DEF R
<1>13. CASE id \in Open(S) /\ R \in {RemoteEnd(H, id), H}
  <2> DEFINE s == [T.streams[id] EXCEPT !.held = @ + n]
             ss == [T.streams EXCEPT ![id] = s]
  <2>1. /\ T.streams[id] \in StreamType /\ id \in Open(T) /\ IsEnd(T) /\ Open(T) \in SUBSET Ids
        /\ T.streams \in [Open(T) -> StreamType] /\ T.streams[id].held \in Nat
        /\ \A i \in Open(T) : T.streams[i].send \in Int
    BY <1>7, <1>13, EndFields DEF GoodEnd
  <2>2. /\ s \in StreamType /\ s.send = T.streams[id].send /\ s.held = T.streams[id].held + n
        /\ s.flags = T.streams[id].flags /\ s.recv = T.streams[id].recv
    BY <2>1 DEF StreamType
  <2>3. H = [T EXCEPT !.streams[id] = s]
    OBVIOUS
  <2>e. H = [T EXCEPT !.streams = ss]
    OBVIOUS
  <2> HIDE DEF s, H
  <2>g. ss[id] = s /\ \A i \in Open(T) : i # id => ss[i] = T.streams[i]
    BY <2>1
  <2> HIDE DEF ss
  <2>4. GoodEnd(H) /\ Open(H) = Open(T) /\ H.streams = ss
    <3>0. /\ GoodEnd(T) /\ id \in Open(T) /\ s \in StreamType
          /\ s.send = T.streams[id].send /\ s.recv = T.streams[id].recv
      BY <1>7, <2>1, <2>2
    <3>1. Keeps(T, H) /\ Open(H) = Open(T)
      BY <2>3, <3>0, StreamKeeps
    <3>2. H.streams = ss
      <4> HIDE DEF FrameType, StreamType
      <4> QED
        BY <2>1, <2>e DEF IsEnd, EndType
    <3> QED
      BY <3>1, <3>2 DEF Keeps
  <2>5. /\ Funds(T, H) /\ H.pending = T.pending /\ H.sendWin = T.sendWin
        /\ H.sweepWritable = T.sweepWritable /\ H.closed = T.closed
    BY <2>1, <2>e, OtherFunds
  <2>6. ss[id] = s /\ \A i \in Open(T) : i # id => ss[i] = T.streams[i]
    BY <2>g
  <2>7. Held(H) - H.streams[id].held = Held(T) - T.streams[id].held
    <3>1. IsEnd(H) /\ \A j \in Open(T) \ {id} : H.streams[j].held = T.streams[j].held
      BY <2>4, <2>6 DEF GoodEnd
    <3> QED
      BY <2>1, <2>4, <3>1, HeldMoved
  <2>8. Held(H) = Held(T) + n
    <3>1. Held(H) \in Nat /\ Held(T) \in Nat
      BY <1>7, <2>4, NumbersOf
    <3>2. H.streams[id].held = T.streams[id].held + n
      BY <2>2, <2>4, <2>6
    <3> QED
      BY <2>1, <2>7, <3>1, <3>2
  <2>9. Room(H) = Room(S)
    <3>1. H.recvWin = T.recvWin /\ H.rd = T.rd
      BY <2>5 DEF Funds
    <3>2. T.recvWin \in Int /\ T.rd.left \in Nat /\ Held(T) \in Nat
      BY <1>7, NumbersOf
    <3>3. Room(H) = Room(T) + n
      BY <2>8, <3>1, <3>2 DEF Room
    <3> QED
      BY <1>10, <3>3
  <2>10. Quieter(S, H)
    <3>1. S.pending \in Int /\ S.sendWin \in Int
      BY NumbersOf
    <3>2. ASSUME NEW i \in Open(S)
          PROVE  Waits(H, i) \subseteq Waits(S, i) /\ H.streams[i].send <= S.streams[i].send
      <4>1. H.streams[i].flags = S.streams[i].flags /\ H.streams[i].send = S.streams[i].send
        BY <1>6, <1>7, <2>2, <2>4, <2>6
      <4>2. S.streams[i].send \in Int
        BY <1>6, <1>7, <2>1
      <4> QED
        BY <4>1, <4>2 DEF Waits
    <3>3. S.pending <= H.pending /\ H.sendWin <= S.sendWin /\ (S.sweepWritable => H.sweepWritable)
          /\ Open(H) = Open(S)
      BY <1>6, <1>7, <2>4, <2>5, <3>1
    <3> QED
      BY <3>2, <3>3 DEF Quieter
  <2>11. Fluent(H, 0, c)
    <3>1. H.unacked = S.unacked /\ H.target = S.target /\ H.cap = S.cap /\ H.closed = S.closed
      BY <1>5, <1>6, <2>5 DEF Funds
    <3> QED
      BY <2>4, <2>9, <2>10, <3>1, MoveFluent
  <2>12. id \in Open(H)
    BY <2>1, <2>4
  <2>13. Fluent(RemoteEnd(H, id), 0, c)
    BY <2>4, <2>11, <2>12, RemoteEndFluent
  <2> QED
    BY <1>13, <2>11, <2>13 DEF R
<1> HIDE DEF H
<1> QED
  BY <1>4, <1>12, <1>13

---------------------------------------------------------------------------
(* What the applications call, and the sweeps.                             *)

(* A stream that has to wait is one that cannot go on.                     *)
LEMMA BlockedFluent ==
    ASSUME H2Assumption, NEW S, GoodEnd(S), NEW id \in Open(S), NEW set \in SUBSET StreamFlags,
           "HBLOCKED" \in set => ~(S.pending < CfgOut),
           "BLOCKED" \in set => ~(S.pending < CfgOut /\ S.streams[id].send > 0 /\ S.sendWin > 0),
           NEW k, NEW c, Fluent(S, k, c)
    PROVE  Fluent(Flag(S, id, set), k, c)
<1> DEFINE s == [S.streams[id] EXCEPT !.flags = @ \cup set]
           ss == [S.streams EXCEPT ![id] = s]
           R == Flag(S, id, set)
<1>1. /\ S.streams[id] \in StreamType /\ IsEnd(S) /\ S.streams \in [Open(S) -> StreamType]
      /\ \A i \in Open(S) : S.streams[i].send \in Int
  BY EndFields DEF GoodEnd
<1>2. /\ s \in StreamType /\ s.send = S.streams[id].send /\ s.held = S.streams[id].held
      /\ s.flags = S.streams[id].flags \cup set
  <2> HIDE DEF StreamFlags
  <2> QED
    BY <1>1 DEF StreamType
<1>3. R = [S EXCEPT !.streams = ss]
  BY DEF Flag
<1>4. GoodEnd(R) /\ Open(R) = Open(S)
  BY FlagKeeps DEF Keeps
<1> HIDE DEF s, R
<1>5. ss[id] = s /\ \A i \in Open(S) : i # id => ss[i] = S.streams[i]
  BY <1>1
<1> HIDE DEF ss
<1>6. /\ Funds(S, R) /\ R.streams = ss /\ R.pending = S.pending /\ R.sendWin = S.sendWin
      /\ R.sweepWritable = S.sweepWritable /\ R.closed = S.closed
  BY <1>1, <1>3, OtherFunds
<1>7. Held(R) = Held(S)
  <2>1. \A i \in Open(S) : R.streams[i].held = S.streams[i].held
    BY <1>2, <1>5, <1>6
  <2> QED
    BY <1>4, <2>1, HeldSame
<1>8. ASSUME NEW i \in Open(S), CanWrite(R, i)
      PROVE  CanWrite(S, i)
  <2>1. CASE i # id
    <3>1. R.streams[i] = S.streams[i]
      BY <1>5, <1>6, <2>1
    <3> QED
      BY <1>6, <1>8, <3>1 DEF CanWrite, Has
  <2>2. CASE i = id
    <3>1. R.streams[i].flags = S.streams[i].flags \cup set /\ R.streams[i].send = S.streams[i].send
      BY <1>2, <1>5, <1>6, <2>2
    <3> QED
      BY <1>6, <1>8, <2>2, <3>1 DEF CanWrite, Has
  <2> QED
    BY <2>1, <2>2
<1>9. CASE S.closed
  BY <1>6, <1>9 DEF Fluent, R
<1>10. CASE Solvent(S, k) /\ Woken(S) /\ S.cap = c
  <2>1. Woken(R)
    BY <1>4, <1>6, <1>8, <1>10 DEF Woken
  <2>2. Room(R) = Room(S) /\ ConnTarget(R) = ConnTarget(S)
    BY <1>6, <1>7 DEF Room, Funds, ConnTarget
  <2>3. Solvent(R, k)
    BY <1>6, <1>10, <2>2 DEF Solvent, Funds
  <2>4. Fluent(R, k, c)
    BY <1>6, <1>10, <2>1, <2>3 DEF Fluent, Funds
  <2> QED
    BY <2>4 DEF R
<1> QED
  BY <1>9, <1>10 DEF Fluent

LEMMA UnflagFluent ==
    ASSUME H2Assumption, NEW S, GoodEnd(S), NEW id \in Open(S), NEW set, NEW k, NEW c, Fluent(S, k, c)
    PROVE  LET R == [S EXCEPT !.streams[id].flags = @ \ set] IN
           Fluent(R, k, c) /\ GoodEnd(R) /\ Open(R) = Open(S)
<1> DEFINE s == [S.streams[id] EXCEPT !.flags = @ \ set]
           R == [S EXCEPT !.streams[id].flags = @ \ set]
<1>1. S.streams[id] \in StreamType
  BY EndFields DEF GoodEnd
<1>2. /\ s \in StreamType /\ s.send = S.streams[id].send /\ s.held = S.streams[id].held
      /\ s.flags = S.streams[id].flags \ set
  <2> HIDE DEF StreamFlags
  <2> QED
    BY <1>1 DEF StreamType
<1>3. R = [S EXCEPT !.streams[id] = s]
  OBVIOUS
<1>4. s.flags \cap Waiting \subseteq Waits(S, id)
  BY <1>2 DEF Waits
<1> HIDE DEF s
<1>5. Fluent(R, k, c) /\ GoodEnd(R) /\ Open(R) = Open(S)
  <2> HIDE DEF R
  <2> QED
    BY <1>2, <1>3, <1>4, StreamFluent
<1> QED
  BY <1>5

LEMMA ResponseFluent ==
    ASSUME H2Assumption, NEW S, GoodEnd(S), NEW id \in Open(S), NEW fin \in BOOLEAN, NEW plain,
           NEW c, Fluent(S, 0, c)
    PROVE  LET Q == Flag(Put(S, Headers(id, fin, FALSE)), id, {"HEAD_SENT"})
               T == IF plain THEN [Q EXCEPT !.streams[id].flags = @ \ {"TUNNEL"}] ELSE Q
           IN  Fluent(IF fin THEN LocalEnd(T, id) ELSE T, 0, c)
<1> DEFINE f == Headers(id, fin, FALSE)
           P == Put(S, f)
           Q == Flag(P, id, {"HEAD_SENT"})
           W == [Q EXCEPT !.streams[id].flags = @ \ {"TUNNEL"}]
           T == IF plain THEN W ELSE Q
           R == IF fin THEN LocalEnd(T, id) ELSE T
<1>1. Due(S, f) /\ f.t = "headers"
  BY HeadersDue
<1> HIDE DEF f
<1>2. GoodEnd(P) /\ Open(P) = Open(S) /\ Fluent(P, 0, c)
  BY <1>1, PutKeeps, AnswerFree, FreeFluent
<1> HIDE DEF P
<1>3. {"HEAD_SENT"} \in SUBSET StreamFlags /\ {"HEAD_SENT"} \cap Waiting = {}
  BY DEF StreamFlags, Waiting
<1>4. GoodEnd(Q) /\ Open(Q) = Open(S) /\ Fluent(Q, 0, c)
  BY <1>2, <1>3, FlagKeeps, FlagFluent DEF Keeps
<1> HIDE DEF Q
<1>5. GoodEnd(W) /\ Open(W) = Open(S) /\ Fluent(W, 0, c)
  <2>1. id \in Open(Q)
    BY <1>4
  <2> HIDE DEF W
  <2>2. W = [Q EXCEPT !.streams[id].flags = @ \ {"TUNNEL"}]
    BY DEF W
  <2> QED
    BY <1>4, <2>1, <2>2, UnflagFluent
<1> HIDE DEF W
<1>6. GoodEnd(T) /\ Open(T) = Open(S) /\ Fluent(T, 0, c)
  BY <1>4, <1>5
<1> HIDE DEF T
<1>7. Fluent(LocalEnd(T, id), 0, c)
  BY <1>6, LocalEndFluent
<1>8. Fluent(R, 0, c)
  BY <1>6, <1>7
<1> QED
  BY <1>8 DEF R, T, W, Q, P, f

(* Units sent leave both windows, and their frames wait in the output.     *)
Spent(S, id, take, frames, pending) ==
    [S EXCEPT !.out = S.out \o frames, !.pending = pending,
              !.streams = [S.streams EXCEPT ![id].send = @ - take],
              !.sendWin = S.sendWin - take]

LEMMA SpendsFluent ==
    ASSUME H2Assumption, NEW S, GoodEnd(S), NEW T, NEW id, NEW take, NEW frames, NEW pending \in Int,
           Spends(S, T, id, take, frames), S.pending <= pending,
           T = Spent(S, id, take, frames, pending), NEW k, NEW c, Fluent(S, k, c)
    PROVE  /\ Fluent(T, k, c) /\ T.pending = pending /\ T.sendWin = S.sendWin - take
           /\ T.streams[id].send = S.streams[id].send - take
<1> DEFINE s == [S.streams[id] EXCEPT !.send = @ - take]
           ss == [S.streams EXCEPT ![id].send = @ - take]
<1>0. id \in Open(S) /\ take \in Nat /\ GoodEnd(T) /\ Open(T) = Open(S) /\ IsEnd(S)
  <2>1. Keeps(S, T) /\ Open(T) = Open(S)
    BY SentKeeps
  <2>2. id \in Open(S) /\ take \in Nat
    BY DEF Spends
  <2> QED
    BY <2>1, <2>2 DEF Keeps, GoodEnd
<1>1. /\ S.streams[id] \in StreamType /\ S.streams \in [Open(S) -> StreamType]
      /\ \A i \in Open(S) : S.streams[i].send \in Int
  BY <1>0, EndFields
<1>2. /\ s.send = S.streams[id].send - take /\ s.held = S.streams[id].held
      /\ s.flags = S.streams[id].flags
  BY <1>1 DEF StreamType
<1>3. ss = [S.streams EXCEPT ![id] = s]
  OBVIOUS
<1> HIDE DEF s, ss
<1>4. ss[id] = s /\ \A i \in Open(S) : i # id => ss[i] = S.streams[i]
  BY <1>0, <1>1, <1>3
<1>5. /\ Funds(S, T) /\ T.streams = ss /\ T.pending = pending /\ T.sendWin = S.sendWin - take
      /\ T.sweepWritable = S.sweepWritable /\ T.closed = S.closed
  <2> HIDE DEF FrameType, StreamType
  <2>1. PICK out : out = S.out \o frames
    OBVIOUS
  <2>2. PICK win : win = S.sendWin - take
    OBVIOUS
  <2>3. T = [S EXCEPT !.out = out, !.pending = pending, !.streams = ss, !.sendWin = win]
    BY <2>1, <2>2 DEF ss, Spent
  <2> QED
    BY <1>0, <2>2, <2>3, ZenonT(60) DEF IsEnd, EndType, Funds
<1>6. \A i \in Open(S) : T.streams[i].held = S.streams[i].held
  BY <1>2, <1>4, <1>5
<1>7. Held(T) = Held(S)
  BY <1>0, <1>6, HeldSame
<1>8. Quieter(S, T)
  <2>1. ASSUME NEW i \in Open(S)
        PROVE  Waits(T, i) = Waits(S, i) /\ T.streams[i].send <= S.streams[i].send
    <3>1. CASE i = id
      <4>1. S.streams[id].send - take <= S.streams[id].send
        BY <1>0, <1>1
      <4> QED
        BY <1>2, <1>4, <1>5, <3>1, <4>1 DEF Waits
    <3>2. CASE i # id
      BY <1>1, <1>4, <1>5, <3>2 DEF Waits
    <3> QED
      BY <3>1, <3>2
  <2>2. S.sendWin - take <= S.sendWin
    BY <1>0, NumbersOf
  <2> QED
    BY <1>0, <1>5, <2>1, <2>2 DEF Quieter
<1>9. Fluent(T, k, c)
  BY <1>0, <1>5, <1>7, <1>8, FluentOn
<1> QED
  BY <1>2, <1>4, <1>5, <1>9

LEMMA SentFluent ==
    ASSUME H2Assumption, NEW S, GoodEnd(S), ~S.closed, NEW id \in Open(S), NEW n \in Nat,
           NEW fin \in BOOLEAN, NEW c, Fluent(S, 0, c)
    PROVE  Fluent(Sent(S, id, n, fin), 0, c)
<1>0. /\ S.streams[id].send \in Int /\ S.sendWin \in Int /\ S.pending \in Int /\ CfgOut \in Int
      /\ IsEnd(S) /\ id \in Ids
  BY NumbersOf, EndFields DEF GoodEnd
<1>1. PICK take \in Nat : take = Taken(S, id, n)
  BY <1>0, TakenIs
<1>2. PICK last \in BOOLEAN : last = (take = n /\ fin)
  OBVIOUS
<1>3. PICK frames : frames = IF take > 0 \/ last THEN DataFrames(id, take, last) ELSE << >>
  OBVIOUS
<1>4. Bears(frames, id, take)
  BY <1>0, <1>3, FramesBear
<1>5. take > 0 => frames # << >>
  <2>1. ASSUME take > 0, frames = << >> PROVE FALSE
    <3>1. Carried(frames, "data", {id}) = take
      BY <1>4 DEF Bears
    <3>2. Carried(frames, "data", {id}) = 0
      <4>1. DOMAIN frames = {}
        BY <2>1
      <4> QED
        BY <1>4, <4>1, CarriedNone DEF Bears
    <3> QED
      BY <2>1, <3>1, <3>2
  <2> QED
    BY <2>1
<1>6. PICK more \in Nat :
        /\ more = IF frames = << >> THEN 0 ELSE Larger(take, 1)
        /\ take > 0 => more >= take
  BY <1>5 DEF Larger
<1>7. PICK pending \in Int : pending = S.pending + more
  BY <1>0
<1>8. S.pending <= pending
  BY <1>0, <1>7
<1>9. PICK T : T = Spent(S, id, take, frames, pending)
  OBVIOUS
<1>10. Spends(S, T, id, take, frames)
  BY <1>4, <1>9 DEF Spends, Spent
<1>11. GoodEnd(T) /\ id \in Open(T)
  BY <1>10, SentKeeps DEF Keeps
<1>12. /\ Fluent(T, 0, c) /\ T.pending = pending /\ T.sendWin = S.sendWin - take
       /\ T.streams[id].send = S.streams[id].send - take
  BY <1>8, <1>9, <1>10, SpendsFluent
<1>13. ASSUME take < n
       PROVE  ~(T.pending < CfgOut /\ T.streams[id].send > 0 /\ T.sendWin > 0)
  <2>1. PICK a \in Nat : a = SendRoom(S, id)
    BY <1>0 DEF SendRoom, Larger, Smaller
  <2>2. PICK b \in Nat : b = Larger(0, CfgOut - S.pending)
    BY <1>0 DEF Larger
  <2>3. take = Smaller(Smaller(n, a), b)
    BY <1>1, <2>1, <2>2 DEF Taken
  <2>4. take = a \/ take = b
    BY <1>13, <2>3 DEF Smaller
  <2>5. CASE take = a
    <3>1. S.streams[id].send - take <= 0 \/ S.sendWin - take <= 0
      BY <1>0, <2>1, <2>5 DEF SendRoom, Larger, Smaller
    <3> QED
      BY <1>0, <1>12, <3>1
  <2>6. CASE take = b
    <3>1. CfgOut - S.pending <= take
      BY <1>0, <2>2, <2>6 DEF Larger
    <3>2. more >= take
      BY <1>6
    <3>3. pending >= CfgOut
      BY <1>0, <1>7, <3>1, <3>2
    <3> QED
      BY <1>0, <1>12, <3>3
  <2> QED
    BY <2>4, <2>5, <2>6
<1>15. Fluent(LocalEnd(T, id), 0, c)
  BY <1>11, <1>12, LocalEndFluent
<1>16. PICK R : R = IF take < n THEN Flag(T, id, {"BLOCKED"})
                    ELSE IF fin THEN LocalEnd(T, id) ELSE T
  OBVIOUS
<1>17. Fluent(R, 0, c)
  <2>1. CASE take < n
    <3>1. {"BLOCKED"} \in SUBSET StreamFlags /\ "HBLOCKED" \notin {"BLOCKED"}
      BY DEF StreamFlags
    <3>2. Fluent(Flag(T, id, {"BLOCKED"}), 0, c)
      BY <1>11, <1>12, <1>13, <2>1, <3>1, BlockedFluent
    <3> QED
      BY <1>16, <2>1, <3>2
  <2>2. CASE ~(take < n)
    BY <1>12, <1>15, <1>16, <2>2
  <2> QED
    BY <2>1, <2>2
<1>18. R = Sent(S, id, n, fin)
  <2>1. T = [S EXCEPT !.out = @ \o frames,
                      !.pending = @ + (IF frames = << >> THEN 0 ELSE Larger(take, 1)),
                      !.streams[id].send = @ - take, !.sendWin = @ - take]
    BY <1>6, <1>7, <1>9 DEF Spent
  <2>2. DataFrames(id, take, last) = DataFrames(id, take, take = n /\ fin)
    BY <1>2
  <2>3. frames = IF take > 0 \/ (take = n /\ fin)
                   THEN DataFrames(id, take, take = n /\ fin) ELSE << >>
    BY <1>2, <1>3, <2>2
  <2> QED
    BY <1>1, <1>16, <2>1, <2>3 DEF Sent
<1> QED
  BY <1>17, <1>18

LEMMA TrailersFluent ==
    ASSUME H2Assumption, NEW S, GoodEnd(S), NEW id \in Open(S), NEW c, Fluent(S, 0, c)
    PROVE  Fluent(IF S.pending >= CfgOut THEN Flag(S, id, {"HBLOCKED"})
                  ELSE LocalEnd(Put(S, Headers(id, TRUE, FALSE)), id), 0, c)
<1>1. CASE S.pending >= CfgOut
  <2>1. {"HBLOCKED"} \in SUBSET StreamFlags /\ "BLOCKED" \notin {"HBLOCKED"}
    BY DEF StreamFlags
  <2>2. ~(S.pending < CfgOut)
    BY <1>1, NumbersOf
  <2>3. Fluent(Flag(S, id, {"HBLOCKED"}), 0, c)
    BY <2>1, <2>2, BlockedFluent
  <2> QED
    BY <1>1, <2>3
<1>2. CASE ~(S.pending >= CfgOut)
  <2>1. PICK f : f = Headers(id, TRUE, FALSE)
    OBVIOUS
  <2>2. Due(S, f) /\ f.t = "headers"
    BY <2>1, HeadersDue
  <2>3. PICK P : P = Put(S, f)
    OBVIOUS
  <2>4. GoodEnd(P) /\ id \in Open(P) /\ Fluent(P, 0, c)
    BY <2>2, <2>3, PutKeeps, AnswerFree, FreeFluent
  <2>5. Fluent(LocalEnd(P, id), 0, c)
    BY <2>4, LocalEndFluent
  <2> QED
    BY <1>2, <2>1, <2>3, <2>5
<1> QED
  BY <1>1, <1>2

LEMMA ResetFluent ==
    ASSUME H2Assumption, NEW S, GoodEnd(S), NEW id \in Open(S), NEW how \in Endings,
           NEW c, Fluent(S, 0, c)
    PROVE  Fluent(RemoveStream(Queue(S, Rst(id, "cancel")), id, FALSE, how), 0, c)
<1>1. PICK f : f = Rst(id, "cancel")
  OBVIOUS
<1>2. Due(S, f)
  <2>1. id \in Ids /\ "cancel" \in Codes
    BY EndFields DEF GoodEnd, Codes
  <2> QED
    BY <1>1, <2>1, RstIs
<1>3. PICK Q : Q = Queue(S, f)
  OBVIOUS
<1>4. GoodEnd(Q) /\ id \in Open(Q) /\ Fluent(Q, 0, c)
  BY <1>2, <1>3, AnswerFree, FreeFluent, FreeQuiet
<1>5. Fluent(RemoveStream(Q, id, FALSE, how), 0, c)
  BY <1>4, RemoveStreamFluent
<1> QED
  BY <1>1, <1>3, <1>5

(* What was consumed is owed, until it is given back.                      *)
LEMMA ConsumedFluent ==
    ASSUME H2Assumption, NEW S, GoodEnd(S), NEW id \in Open(S), NEW n \in Nat,
           S.streams[id].held - n \in Nat, NEW fast \in BOOLEAN, NEW c, Fluent(S, 0, c)
    PROVE  Fluent(ConnCredit(StreamCredit([S EXCEPT !.streams[id].held = @ - n], id, n, fast), n), 0, c)
<1> DEFINE s == [S.streams[id] EXCEPT !.held = @ - n]
           ss == [S.streams EXCEPT ![id] = s]
<1>1. /\ S.streams[id] \in StreamType /\ IsEnd(S) /\ S.streams \in [Open(S) -> StreamType]
      /\ \A i \in Open(S) : S.streams[i].send \in Int
  BY EndFields DEF GoodEnd
<1>2. /\ s \in StreamType /\ s.send = S.streams[id].send /\ s.recv = S.streams[id].recv
      /\ s.held = S.streams[id].held - n /\ s.flags = S.streams[id].flags
  BY <1>1 DEF StreamType
<1>3. PICK T : T = [S EXCEPT !.streams[id].held = @ - n]
  OBVIOUS
<1>4. T = [S EXCEPT !.streams[id] = s]
  BY <1>3
<1>5. T = [S EXCEPT !.streams = ss]
  BY <1>3
<1> HIDE DEF s
<1>6. ss[id] = s /\ \A i \in Open(S) : i # id => ss[i] = S.streams[i]
  BY <1>1
<1> HIDE DEF ss
<1>7. GoodEnd(T) /\ Open(T) = Open(S)
  <2>1. Keeps(S, T) /\ Open(T) = Open(S)
    BY <1>2, <1>4, StreamKeeps
  <2> QED
    BY <2>1 DEF Keeps
<1>8. /\ Funds(S, T) /\ T.streams = ss /\ T.pending = S.pending /\ T.sendWin = S.sendWin
      /\ T.sweepWritable = S.sweepWritable /\ T.closed = S.closed
  BY <1>1, <1>5, OtherFunds
<1>9. Held(T) + n = Held(S)
  <2>1. IsEnd(T) /\ \A j \in Open(S) \ {id} : T.streams[j].held = S.streams[j].held
    BY <1>6, <1>7, <1>8 DEF GoodEnd
  <2>2. Held(T) - T.streams[id].held = Held(S) - S.streams[id].held
    BY <1>1, <1>7, <2>1, HeldMoved
  <2>3. Held(T) \in Nat /\ Held(S) \in Nat
    BY <1>7, NumbersOf
  <2>4. T.streams[id].held = S.streams[id].held - n /\ S.streams[id].held \in Nat
    BY <1>1, <1>2, <1>6, <1>8, EndFields
  <2> QED
    BY <2>2, <2>3, <2>4
<1>10. Fluent(T, n, c)
  <2>1. CASE S.closed
    BY <1>8, <2>1 DEF Fluent
  <2>2. CASE Solvent(S, 0) /\ Woken(S) /\ S.cap = c
    <3>1. Quieter(S, T)
      <4>1. \A i \in Open(S) : Waits(T, i) = Waits(S, i) /\ T.streams[i].send <= S.streams[i].send
        BY <1>1, <1>2, <1>6, <1>8 DEF Waits
      <4> QED
        BY <1>7, <1>8, <4>1, NumbersOf DEF Quieter
    <3>2. Woken(T)
      BY <1>7, <2>2, <3>1, QuieterWoken
    <3>3. /\ S.recvWin \in Int /\ S.unacked \in Nat /\ S.rd.left \in Nat /\ Held(S) \in Nat
          /\ Held(T) \in Nat /\ ConnTarget(S) \in Nat
      BY <1>7, NumbersOf
    <3>4. Room(T) + n = Room(S) /\ Room(T) \in Int
      BY <1>8, <1>9, <3>3 DEF Room, Funds
    <3>5. 0 < S.target /\ ConnTarget(S) <= S.unacked + Room(S) + 0 /\ S.unacked < Room(S) + 0
      BY <2>2 DEF Solvent
    <3>6. T.unacked = S.unacked /\ T.target = S.target /\ ConnTarget(T) = ConnTarget(S)
      BY <1>8 DEF Funds, ConnTarget
    <3>7. Solvent(T, n)
      BY <3>3, <3>4, <3>5, <3>6 DEF Solvent
    <3> QED
      BY <1>8, <2>2, <3>2, <3>7 DEF Fluent, Funds
  <2> QED
    BY <2>1, <2>2 DEF Fluent
<1>11. PICK C : C = StreamCredit(T, id, n, fast)
  OBVIOUS
<1>12. GoodEnd(C) /\ Fluent(C, n, c)
  <2>1. id \in Open(T)
    BY <1>7
  <2>2. Keeps(T, C)
    BY <1>7, <1>11, <2>1, StreamCreditKeeps
  <2>3. Fluent(C, n, c)
    BY <1>7, <1>10, <1>11, <2>1, StreamCreditFluent
  <2> QED
    BY <2>2, <2>3 DEF Keeps
<1>13. Fluent(ConnCredit(C, n), 0, c)
  <2>1. n + 0 = n
    OBVIOUS
  <2> QED
    BY <1>12, <2>1, ConnCreditFluent
<1> QED
  BY <1>3, <1>11, <1>13

---------------------------------------------------------------------------
(* Both ends, and the ceilings that the server's owner still asks for.     *)
Flows(S) == Fluent(S, 0, S.cap)
Tight(S, changes) ==
    /\ OnlyTightens(changes)
    /\ S.closed \/ \A i \in DOMAIN changes :
                     changes[i].call = "cap" => Tightens(S.cap, changes[i].n)

StallInv ==
    /\ WindowInv
    /\ \A e \in Ends : Flows(end[e])
    /\ Tight(end["server"], plan.changes)

LEMMA StallIs ==
    WindowInv /\ (\A e \in Ends : Flows(end[e])) /\ Tight(end["server"], plan.changes) => StallInv
BY DEF StallInv

LEMMA GoodEnds ==
    WindowInv => DOMAIN end = Ends /\ plan \in PlanType /\ \A e \in Ends : GoodEnd(end[e])
BY InvParts

LEMMA StallNext ==
    ASSUME WindowInv', \A e \in Ends : Flows(end'[e]), Tight(end'["server"], plan'.changes)
    PROVE  StallInv'
<1>1. (WindowInv /\ (\A e \in Ends : Flows(end[e])) /\ Tight(end["server"], plan.changes))'
      => StallInv'
  BY StallIs, PTL
<1>2. (WindowInv /\ (\A e \in Ends : Flows(end[e])) /\ Tight(end["server"], plan.changes))'
  OBVIOUS
<1> QED
  BY <1>1, <1>2

LEMMA GoodNext ==
    ASSUME WindowInv'
    PROVE  DOMAIN end' = Ends /\ plan' \in PlanType /\ \A e \in Ends : GoodEnd(end'[e])
<1>1. WindowInv'
      => (DOMAIN end = Ends /\ plan \in PlanType /\ \A e \in Ends : GoodEnd(end[e]))'
  BY GoodEnds, PTL
<1> QED
  BY <1>1

LEMMA FlowsOn ==
    ASSUME NEW R, NEW c, Fluent(R, 0, c)
    PROVE  Flows(R) /\ (R.closed \/ R.cap = c)
BY DEF Flows, Fluent

LEMMA TightOn ==
    ASSUME NEW S, NEW R, NEW changes, Tight(S, changes), S.closed => R.closed,
           R.closed \/ R.cap = S.cap
    PROVE  Tight(R, changes)
BY DEF Tight

(* A step of one end that leaves it fluent.                                *)
LEMMA OwnFlows ==
    ASSUME StallInv, WindowInv', plan'.changes = plan.changes, NEW e \in Ends, NEW R,
           ~end[e].closed, Step(e, R), Fluent(R, 0, end[e].cap)
    PROVE  StallInv'
<1>1. DOMAIN end = Ends /\ \A x \in Ends : Flows(end[x])
  BY InvParts DEF StallInv
<1>2. Tight(end["server"], plan.changes)
  BY DEF StallInv
<1>3. end' = [end EXCEPT ![e] = R]
  BY DEF Step
<1>4. end'[e] = R /\ \A x \in Ends : x # e => end'[x] = end[x]
  BY <1>1, <1>3
<1>5. Flows(R) /\ (R.closed \/ R.cap = end[e].cap)
  BY FlowsOn
<1>6. \A x \in Ends : Flows(end'[x])
  BY <1>1, <1>4, <1>5
<1>7. Tight(end'["server"], plan'.changes)
  <2>1. CASE e = "server"
    <3>1. PICK S : S = end[e]
      OBVIOUS
    <3>2. Tight(R, plan.changes)
      BY <1>2, <1>5, <2>1, <3>1, TightOn
    <3> QED
      BY <1>4, <2>1, <3>2
  <2>2. CASE e # "server"
    BY <1>2, <1>4, <2>2 DEF Ends
  <2> QED
    BY <2>1, <2>2
<1> QED
  BY <1>6, <1>7, StallNext

LEMMA StallParts ==
    ASSUME StallInv, NEW e \in Ends
    PROVE  /\ WindowInv /\ GoodEnd(end[e]) /\ Fluent(end[e], 0, end[e].cap)
           /\ plan \in PlanType
BY InvParts DEF StallInv, Flows

LEMMA CallKeeps ==
    ASSUME plan \in PlanType,
           NEW kind \in {"requests", "responses", "trailers", "resets", "pings"}, Call(kind)
    PROVE  plan'.changes = plan.changes
BY DEF PlanType, Call

LEMMA RequestFlows ==
    ASSUME H2Assumption, StallInv, WindowInv', SubmitRequest
    PROVE  StallInv'
<1> DEFINE S == end["client"]
           id == S.nextId
<1>1. GoodEnd(S) /\ plan \in PlanType /\ Fluent(S, 0, S.cap) /\ IsEnd(S) /\ ~S.closed
  BY StallParts DEF Ends, GoodEnd, SubmitRequest
<1>2. plan.tunnel \in BOOLEAN
  BY <1>1 DEF PlanType
<1>3. plan'.changes = plan.changes
  BY <1>1, CallKeeps DEF SubmitRequest
<1>4. PICK fin \in BOOLEAN :
        LET n == NewStream(S, FALSE)
            flags == {"HEAD_SENT"} \cup (IF fin THEN {"LOCAL_END"} ELSE {})
        IN  Step("client",
              [Put(S, Headers(id, fin, plan.tunnel)) EXCEPT
                 !.streams = [i \in Open(S) \cup {id} |->
                                IF i = id THEN [n EXCEPT !.flags = flags] ELSE @[i]],
                 !.nextId = id + 2,
                 !.blind = IF S.gotSettings THEN @ ELSE @ \cup {id}])
  BY DEF SubmitRequest
<1> DEFINE f == Headers(id, fin, plan.tunnel)
           P == Put(S, f)
           flags == {"HEAD_SENT"} \cup (IF fin THEN {"LOCAL_END"} ELSE {})
           n == [NewStream(S, FALSE) EXCEPT !.flags = flags]
           A == Open(S) \cup {id}
           ss == [i \in A |-> IF i = id THEN n ELSE P.streams[i]]
           R == [P EXCEPT !.streams = [i \in Open(S) \cup {id} |->
                                         IF i = id THEN n ELSE @[i]],
                          !.nextId = id + 2,
                          !.blind = IF S.gotSettings THEN @ ELSE @ \cup {id}]
<1>5. Step("client", R)
  BY <1>4
<1>6. id \in Ids /\ Known(S) = id - 1 /\ id \in Nat /\ S.server = FALSE
  <2>1. Joined(S, end["server"]) /\ S.server = FALSE
    BY <1>1, InvParts DEF StallInv, Joined
  <2>2. id <= MaxId /\ id % 2 = 1 /\ S.nextId \in Nat /\ MaxId \in Nat
    BY <1>1, <2>1, EndFields DEF SubmitRequest, Joined, H2Assumption
  <2>3. PICK k \in Nat : k = id
    BY <2>2
  <2>4. k # 0 /\ k <= MaxId
    BY <2>2, <2>3
  <2>5. k \in 1 .. MaxId
    BY <2>2, <2>4
  <2>6. id \in Ids
    BY <2>2, <2>3, <2>5 DEF Ids
  <2> QED
    BY <2>1, <2>2, <2>6 DEF Known
<1>7. id \notin Open(S)
  <2>1. \A i \in Open(S) : i <= id - 1
    BY <1>1, <1>6 DEF GoodEnd, OfKnown
  <2> QED
    BY <1>6, <2>1
<1>8. f \in FrameType
  BY <1>2, <1>6 DEF Headers, FrameType
<1>9. IsEnd(P) /\ Free(S, P) /\ P.closed = S.closed
  BY <1>1, <1>8, PutIs, PutFree
<1>10. n.held = 0 /\ n.flags = flags
  BY DEF NewStream
<1>11. flags \cap Waiting = {}
  BY DEF Waiting
<1>12. R.streams = ss /\ Funds(P, R) /\ R.pending = P.pending /\ R.sendWin = P.sendWin
       /\ R.sweepWritable = P.sweepWritable /\ R.closed = P.closed /\ R.cap = P.cap
  <2> HIDE DEF P, f, n, S, FrameType, StreamType
  <2> QED
    BY <1>9, ZenonT(60) DEF IsEnd, EndType, Funds
<1> HIDE DEF R
<1>13. GoodEnd(R)
  <2>1. end'["client"] = R
    <3>1. DOMAIN end = Ends
      BY InvParts DEF StallInv
    <3> QED
      BY <1>5, <3>1 DEF Step, Ends
  <2> QED
    BY <2>1, GoodNext DEF Ends
<1>14. Open(R) = Open(S) \cup {id} /\ (\A i \in Open(S) : R.streams[i] = S.streams[i])
       /\ R.streams[id] = n
  <2>1. P.streams = S.streams
    BY <1>9 DEF Free
  <2> HIDE DEF n, P, S
  <2> QED
    BY <1>7, <1>12, <2>1 DEF Open
<1> HIDE DEF n, P, flags, f
<1>15. /\ Funds(S, R) /\ S.pending <= R.pending /\ R.sendWin = S.sendWin
       /\ R.sweepWritable = S.sweepWritable /\ R.closed = S.closed
  BY <1>9, <1>12 DEF Free, Funds
<1>16. R.streams[id].held = 0 /\ Waits(R, id) = {}
  BY <1>10, <1>11, <1>14 DEF Waits
<1> HIDE DEF S, id
<1>17. Fluent(R, 0, S.cap)
  BY <1>1, <1>7, <1>13, <1>14, <1>15, <1>16, BeginFluent
<1> QED
  BY <1>1, <1>3, <1>5, <1>17, OwnFlows DEF S, Ends

LEMMA ResponseFlows ==
    ASSUME H2Assumption, StallInv, WindowInv', NEW id \in Ids, SubmitResponse(id)
    PROVE  StallInv'
<1>1. PICK S : S = end["server"]
  OBVIOUS
<1>2. GoodEnd(S) /\ plan \in PlanType /\ Fluent(S, 0, S.cap)
  BY <1>1, StallParts DEF Ends
<1>3. id \in Open(S) /\ ~S.closed /\ plan'.changes = plan.changes
  BY <1>1, <1>2, CallKeeps DEF SubmitResponse
<1>4. CASE S.pending >= CfgOut
  <2>1. Step("server", Flag(S, id, {"HBLOCKED"}))
    BY <1>1, <1>4 DEF SubmitResponse
  <2>2. {"HBLOCKED"} \in SUBSET StreamFlags /\ "BLOCKED" \notin {"HBLOCKED"}
    BY DEF StreamFlags
  <2>3. ~(S.pending < CfgOut)
    BY <1>2, <1>4, NumbersOf
  <2>4. PICK R : R = Flag(S, id, {"HBLOCKED"})
    OBVIOUS
  <2>5. Fluent(R, 0, S.cap)
    BY <1>2, <1>3, <2>2, <2>3, <2>4, BlockedFluent
  <2> QED
    BY <1>1, <1>3, <2>1, <2>4, <2>5, OwnFlows DEF Ends
<1>5. CASE ~(S.pending >= CfgOut)
  <2>1. PICK fin \in BOOLEAN, plain \in {FALSE, plan.tunnel} :
          LET Q == Flag(Put(S, Headers(id, fin, FALSE)), id, {"HEAD_SENT"})
              T == IF plain THEN [Q EXCEPT !.streams[id].flags = @ \ {"TUNNEL"}] ELSE Q
          IN  Step("server", IF fin THEN LocalEnd(T, id) ELSE T)
    BY <1>1, <1>5 DEF SubmitResponse
  <2> DEFINE Q == Flag(Put(S, Headers(id, fin, FALSE)), id, {"HEAD_SENT"})
             T == IF plain THEN [Q EXCEPT !.streams[id].flags = @ \ {"TUNNEL"}] ELSE Q
  <2>2. PICK R : R = IF fin THEN LocalEnd(T, id) ELSE T
    OBVIOUS
  <2>3. Step("server", R)
    BY <2>1, <2>2
  <2>4. Fluent(R, 0, S.cap)
    BY <1>2, <1>3, <2>2, ResponseFluent
  <2> HIDE DEF T, Q
  <2> QED
    BY <1>1, <1>3, <2>3, <2>4, OwnFlows DEF Ends
<1> QED
  BY <1>4, <1>5

LEMMA DataFlows ==
    ASSUME H2Assumption, StallInv, WindowInv', NEW e \in Ends, NEW id \in Ids, SendData(e, id)
    PROVE  StallInv'
<1>1. PICK S : S = end[e]
  OBVIOUS
<1>2. GoodEnd(S) /\ plan \in PlanType /\ Fluent(S, 0, S.cap)
  BY <1>1, StallParts
<1>3. id \in Open(S) /\ ~S.closed
  BY <1>1 DEF SendData
<1>4. PICK n \in 0..plan.body[e], fin \in BOOLEAN :
        Step(e, Sent(S, id, n, fin)) /\ plan' = [plan EXCEPT !.body[e] = @ - Taken(S, id, n)]
  BY <1>1 DEF SendData
<1>5. n \in Nat
  <2>1. plan.body[e] \in Nat
    BY <1>2 DEF PlanType
  <2> QED
    BY <2>1
<1>6. plan'.changes = plan.changes
  BY <1>2, <1>4 DEF PlanType
<1>7. Fluent(Sent(S, id, n, fin), 0, S.cap)
  BY <1>2, <1>3, <1>5, SentFluent
<1> QED
  BY <1>1, <1>3, <1>4, <1>6, <1>7, OwnFlows

LEMMA TrailersFlows ==
    ASSUME H2Assumption, StallInv, WindowInv', NEW e \in Ends, NEW id \in Ids, SendTrailers(e, id)
    PROVE  StallInv'
<1>1. PICK S : S = end[e]
  OBVIOUS
<1>2. GoodEnd(S) /\ plan \in PlanType /\ Fluent(S, 0, S.cap)
  BY <1>1, StallParts
<1>3. id \in Open(S) /\ ~S.closed /\ plan'.changes = plan.changes
  BY <1>1, <1>2, CallKeeps DEF SendTrailers
<1>4. PICK R : R = IF S.pending >= CfgOut THEN Flag(S, id, {"HBLOCKED"})
                   ELSE LocalEnd(Put(S, Headers(id, TRUE, FALSE)), id)
  OBVIOUS
<1>5. Step(e, R)
  BY <1>1, <1>4 DEF SendTrailers
<1>6. Fluent(R, 0, S.cap)
  BY <1>2, <1>3, <1>4, TrailersFluent
<1> QED
  BY <1>1, <1>3, <1>5, <1>6, OwnFlows

LEMMA ResetFlows ==
    ASSUME H2Assumption, StallInv, WindowInv', NEW e \in Ends, NEW id \in Ids, Reset(e, id)
    PROVE  StallInv'
<1>1. PICK S : S = end[e]
  OBVIOUS
<1>2. GoodEnd(S) /\ plan \in PlanType /\ Fluent(S, 0, S.cap)
  BY <1>1, StallParts
<1>3. id \in Open(S) /\ ~S.closed /\ plan'.changes = plan.changes
  BY <1>1, <1>2, CallKeeps DEF Reset
<1>4. PICK how \in Endings : how = IF Has(S, id, "REMOTE_END") THEN "done" ELSE "ours"
  BY DEF Endings
<1>5. PICK R : R = RemoveStream(Queue(S, Rst(id, "cancel")), id, FALSE, how)
  OBVIOUS
<1>6. Step(e, R)
  BY <1>1, <1>4, <1>5 DEF Reset
<1>7. Fluent(R, 0, S.cap)
  BY <1>2, <1>3, <1>5, ResetFluent
<1> QED
  BY <1>1, <1>3, <1>6, <1>7, OwnFlows

LEMMA ConsumedFlows ==
    ASSUME H2Assumption, StallInv, WindowInv', NEW e \in Ends, NEW id \in Ids, Consumed(e, id)
    PROVE  StallInv'
<1>1. PICK S : S = end[e]
  OBVIOUS
<1>2. GoodEnd(S) /\ plan \in PlanType /\ Fluent(S, 0, S.cap)
  BY <1>1, StallParts
<1>3. plan'.changes = plan.changes /\ id \in Open(S) /\ ~S.closed
  BY <1>1 DEF Consumed
<1>4. PICK n \in 1..S.streams[id].held, fast \in BOOLEAN :
        Step(e, ConnCredit(StreamCredit([S EXCEPT !.streams[id].held = @ - n], id, n, fast), n))
  BY <1>1 DEF Consumed
<1>5. n \in Nat /\ S.streams[id].held - n \in Nat
  <2>1. PICK k \in Nat : k = S.streams[id].held
    BY <1>2, <1>3, EndFields DEF GoodEnd
  <2>2. n \in 1..k
    BY <2>1
  <2>3. n \in Nat /\ k - n \in Nat
    BY <2>2
  <2> QED
    BY <2>1, <2>3
<1>6. PICK R : R = ConnCredit(StreamCredit([S EXCEPT !.streams[id].held = @ - n], id, n, fast), n)
  OBVIOUS
<1>7. Fluent(R, 0, S.cap)
  BY <1>2, <1>3, <1>5, <1>6, ConsumedFluent
<1> QED
  BY <1>1, <1>3, <1>4, <1>6, <1>7, OwnFlows

LEMMA PingFlows ==
    ASSUME H2Assumption, StallInv, WindowInv', NEW e \in Ends, SendPing(e)
    PROVE  StallInv'
<1>1. PICK S : S = end[e]
  OBVIOUS
<1>2. GoodEnd(S) /\ plan \in PlanType /\ Fluent(S, 0, S.cap)
  BY <1>1, StallParts
<1>3. plan'.changes = plan.changes /\ ~S.closed
  BY <1>1, <1>2, CallKeeps DEF SendPing
<1>4. Due(S, Ping)
  BY DEF Due, Ping, FrameType
<1>5. Fluent(Put(S, Ping), 0, S.cap)
  BY <1>2, <1>4, AnswerFree, FreeFluent
<1>6. Step(e, Put(S, Ping))
  BY <1>1 DEF SendPing
<1> QED
  BY <1>1, <1>3, <1>5, <1>6, OwnFlows

LEMMA ShutdownFlows ==
    ASSUME H2Assumption, StallInv, WindowInv', NEW e \in Ends, Shutdown(e)
    PROVE  StallInv'
<1>1. PICK S : S = end[e]
  OBVIOUS
<1>2. GoodEnd(S) /\ plan \in PlanType /\ Fluent(S, 0, S.cap)
  BY <1>1, StallParts
<1>3. plan'.changes = plan.changes /\ ~S.closed
  BY <1>1, <1>2 DEF Shutdown, PlanType
<1>4. PICK f : f = Goaway(S.lastActed, "none")
  OBVIOUS
<1>5. Due(S, f) /\ f.t = "goaway"
  <2>1. PICK k \in Nat : k = S.lastActed
    BY <1>2, EndFields DEF GoodEnd
  <2> QED
    BY <1>4, <2>1 DEF Due, Goaway, FrameType, Codes
<1>6. PICK P : P = Put(S, f)
  OBVIOUS
<1>7. GoodEnd(P) /\ Fluent(P, 0, S.cap)
  BY <1>2, <1>5, <1>6, AnswerFree, FreeFluent
<1>8. PICK R : R = [P EXCEPT !.goawaySent = TRUE]
  OBVIOUS
<1>9. IsEnd(R) /\ Alike(P, R) /\ R.out = P.out /\ R.closed = P.closed
  <2> HIDE DEF FrameType, StreamType
  <2> QED
    BY <1>7, <1>8, ZenonT(60) DEF GoodEnd, IsEnd, EndType, Open, Alike
<1>10. SameFlow(P, R)
  <2> HIDE DEF FrameType, StreamType
  <2> QED
    BY <1>7, <1>8, ZenonT(60) DEF GoodEnd, IsEnd, EndType, SameFlow, Funds
<1>11. Fluent(R, 0, S.cap)
  BY <1>7, <1>9, <1>10, AlikeKeeps, SameFluent DEF Keeps
<1>12. Step(e, R)
  BY <1>1, <1>4, <1>6, <1>8 DEF Shutdown
<1> QED
  BY <1>1, <1>3, <1>11, <1>12, OwnFlows

LEMMA ChangeFlows ==
    ASSUME H2Assumption, StallInv, WindowInv', Change
    PROVE  StallInv'
<1>1. PICK S : S = end["server"]
  OBVIOUS
<1>2. GoodEnd(S) /\ plan \in PlanType /\ Fluent(S, 0, S.cap) /\ IsEnd(S)
  BY <1>1, StallParts DEF Ends, GoodEnd
<1>3. DOMAIN end = Ends /\ (\A x \in Ends : Flows(end[x])) /\ Tight(S, plan.changes)
  BY <1>1, InvParts DEF StallInv
<1> DEFINE C == [call : {"streams", "window", "cap"}, n : Nat]
<1>4. plan.changes \in Seq(C) /\ plan.changes # << >> /\ ~S.closed
      /\ plan' = [plan EXCEPT !.changes = Tail(@)]
  BY <1>1, <1>2 DEF Change, PlanType
<1>5. PICK q \in Seq(C) : q = plan.changes
  BY <1>4
<1>6. /\ Head(q) \in C /\ Head(q) = q[1] /\ 1 \in DOMAIN q
      /\ \A i \in DOMAIN Tail(q) : i \in Nat /\ 1 <= i /\ i + 1 \in DOMAIN q /\ Tail(q)[i] = q[i + 1]
  <2>1. q # << >>
    BY <1>4, <1>5
  <2> HIDE DEF C
  <2> QED
    BY <2>1
<1>7. plan'.changes = Tail(q)
  BY <1>2, <1>4, <1>5 DEF PlanType
<1>8. PICK ch \in C : ch = Head(q)
  BY <1>6
<1>9. ch.n \in Nat /\ ch.call \in {"streams", "window", "cap"}
  OBVIOUS
<1> HIDE DEF C
<1>10. PICK R : R = CASE ch.call = "streams" -> Set(S, ch.n, S.wantWindow)
                      [] ch.call = "window" -> Set(S, S.wantStreams, ch.n)
                      [] ch.call = "cap" -> CapWindow(S, ch.n)
  OBVIOUS
<1>11. Step("server", R)
  BY <1>1, <1>5, <1>8, <1>10 DEF Change
<1>12. S.wantWindow \in Int /\ S.wantStreams \in Int /\ S.cap \in Nat
  BY <1>2, EndFields
<1>13. OnlyTightens(q)
  BY <1>3, <1>5 DEF Tight
<1>14. OnlyTightens(Tail(q))
  <2>1. ASSUME NEW i \in DOMAIN Tail(q), NEW j \in DOMAIN Tail(q), i <= j,
               Tail(q)[i].call = "cap", Tail(q)[j].call = "cap"
        PROVE  Tightens(Tail(q)[i].n, Tail(q)[j].n)
    <3>1. /\ i + 1 \in DOMAIN q /\ j + 1 \in DOMAIN q /\ i + 1 <= j + 1
          /\ Tail(q)[i] = q[i + 1] /\ Tail(q)[j] = q[j + 1]
      BY <1>6, <2>1
    <3> QED
      BY <1>13, <2>1, <3>1 DEF OnlyTightens
  <2> QED
    BY <2>1 DEF OnlyTightens
<1>15. Flows(R) /\ Tight(R, Tail(q))
  <2>1. CASE ch.call \in {"streams", "window"}
    <3>1. Fluent(R, 0, S.cap)
      <4>1. CASE ch.call = "streams"
        <5>1. R = Set(S, ch.n, S.wantWindow)
          BY <1>10, <4>1
        <5> QED
          BY <1>2, <1>9, <1>12, <5>1, SetFluent
      <4>2. CASE ch.call = "window"
        <5>1. R = Set(S, S.wantStreams, ch.n)
          BY <1>10, <4>2
        <5> QED
          BY <1>2, <1>9, <1>12, <5>1, SetFluent
      <4> QED
        BY <2>1, <4>1, <4>2
    <3>2. Flows(R) /\ (R.closed \/ R.cap = S.cap)
      BY <3>1, FlowsOn
    <3>3. \A i \in DOMAIN Tail(q) : Tail(q)[i].call = "cap" => Tightens(S.cap, Tail(q)[i].n)
      BY <1>3, <1>4, <1>5, <1>6 DEF Tight
    <3> QED
      BY <1>14, <3>2, <3>3 DEF Tight
  <2>2. CASE ch.call = "cap"
    <3>1. R = CapWindow(S, ch.n)
      BY <1>10, <2>2
    <3>2. Tightens(S.cap, ch.n)
      BY <1>3, <1>4, <1>5, <1>6, <1>8, <2>2 DEF Tight
    <3>3. Fluent(R, 0, ch.n)
      BY <1>2, <1>9, <1>12, <3>1, <3>2, CapWindowFluent
    <3>4. Flows(R) /\ (R.closed \/ R.cap = ch.n)
      BY <3>3, FlowsOn
    <3>5. ASSUME NEW i \in DOMAIN Tail(q), Tail(q)[i].call = "cap"
          PROVE  Tightens(ch.n, Tail(q)[i].n)
      <4>1. i + 1 \in DOMAIN q /\ 1 <= i + 1 /\ Tail(q)[i] = q[i + 1]
        BY <1>6
      <4>2. ch = q[1] /\ 1 \in DOMAIN q
        BY <1>6, <1>8
      <4> QED
        BY <1>13, <2>2, <3>5, <4>1, <4>2 DEF OnlyTightens
    <3> QED
      BY <1>14, <3>4, <3>5 DEF Tight
  <2> QED
    BY <1>9, <2>1, <2>2
<1>16. end'["server"] = R /\ end'["client"] = end["client"]
  BY <1>3, <1>11 DEF Step, Ends
<1>17. \A x \in Ends : Flows(end'[x])
  BY <1>3, <1>15, <1>16 DEF Ends
<1> QED
  BY <1>7, <1>15, <1>16, <1>17, StallNext

LEMMA RefusedFlows ==
    ASSUME H2Assumption, StallInv, WindowInv', NEW e \in Ends, DueRefused(e)
    PROVE  StallInv'
<1>1. PICK S : S = end[e]
  OBVIOUS
<1>2. GoodEnd(S) /\ Fluent(S, 0, S.cap) /\ ~S.closed /\ plan'.changes = plan.changes
  BY <1>1, StallParts DEF DueRefused
<1>3. PICK id \in LeftOut(S) :
        Step(e, [RemoveStream(S, id, FALSE, "peer") EXCEPT !.refused = @ \cup {id}])
  BY <1>1 DEF DueRefused
<1>4. id \in Open(S) /\ id \in Ids /\ "peer" \in Endings
  BY <1>2, <1>3, EndFields DEF LeftOut, BeyondLast, GoodEnd, Endings
<1>5. PICK Q : Q = RemoveStream(S, id, FALSE, "peer")
  OBVIOUS
<1>6. GoodEnd(Q) /\ Fluent(Q, 0, S.cap)
  BY <1>2, <1>4, <1>5, RemoveStreamKeeps, RemoveStreamFluent DEF Keeps
<1>7. PICK R : R = [Q EXCEPT !.refused = @ \cup {id}]
  OBVIOUS
<1>8. GoodEnd(R)
  <2>1. DOMAIN end = Ends
    BY InvParts DEF StallInv
  <2>2. end'[e] = R
    BY <1>3, <1>5, <1>7, <2>1 DEF Step
  <2> QED
    BY <2>2, GoodNext
<1>9. SameFlow(Q, R)
  <2> HIDE DEF FrameType, StreamType
  <2> QED
    BY <1>6, <1>7, ZenonT(60) DEF GoodEnd, IsEnd, EndType, SameFlow, Funds
<1>10. Fluent(R, 0, S.cap)
  BY <1>6, <1>8, <1>9, SameFluent
<1> QED
  BY <1>1, <1>2, <1>3, <1>5, <1>7, <1>10, OwnFlows

LEMMA WritableFlows ==
    ASSUME H2Assumption, StallInv, WindowInv', NEW e \in Ends, DueWritable(e)
    PROVE  StallInv'
<1>1. PICK S : S = end[e]
  OBVIOUS
<1>2. GoodEnd(S) /\ Fluent(S, 0, S.cap) /\ ~S.closed /\ plan'.changes = plan.changes
  BY <1>1, StallParts DEF DueWritable
<1>3. PICK id \in Writable(S) :
        Step(e, [S EXCEPT !.sweepGoaway = FALSE,
                          !.streams[id].flags = @ \ {"BLOCKED", "HBLOCKED"}])
  BY <1>1 DEF DueWritable
<1>4. id \in Open(S)
  BY <1>3 DEF Writable
<1>5. PICK Q : Q = [S EXCEPT !.sweepGoaway = FALSE]
  OBVIOUS
<1>6. IsEnd(Q) /\ Alike(S, Q) /\ Q.out = S.out /\ Q.closed = S.closed
  <2> HIDE DEF FrameType, StreamType
  <2> QED
    BY <1>2, <1>5, ZenonT(60) DEF GoodEnd, IsEnd, EndType, Open, Alike
<1>7. SameFlow(S, Q)
  <2> HIDE DEF FrameType, StreamType
  <2> QED
    BY <1>2, <1>5, ZenonT(60) DEF GoodEnd, IsEnd, EndType, SameFlow, Funds
<1>8. GoodEnd(Q) /\ id \in Open(Q) /\ Fluent(Q, 0, S.cap)
  BY <1>2, <1>4, <1>6, <1>7, AlikeKeeps, SameFluent DEF Keeps, Alike, Open
<1>9. PICK R : R = [Q EXCEPT !.streams[id].flags = @ \ {"BLOCKED", "HBLOCKED"}]
  OBVIOUS
<1>10. Fluent(R, 0, S.cap)
  BY <1>8, <1>9, UnflagFluent
<1>11. R = [S EXCEPT !.sweepGoaway = FALSE,
                     !.streams[id].flags = @ \ {"BLOCKED", "HBLOCKED"}]
  <2> HIDE DEF FrameType, StreamType
  <2> QED
    BY <1>2, <1>5, <1>9 DEF GoodEnd, IsEnd, EndType
<1> QED
  BY <1>1, <1>2, <1>3, <1>10, <1>11, OwnFlows

LEMMA CloseFlows ==
    ASSUME H2Assumption, StallInv, WindowInv', NEW e \in Ends, DueClose(e)
    PROVE  StallInv'
<1>1. PICK S : S = end[e]
  OBVIOUS
<1>2. GoodEnd(S) /\ ~S.closed /\ plan'.changes = plan.changes
  BY <1>1, StallParts DEF DueClose
<1>3. PICK Q : Q = Swept(S)
  OBVIOUS
<1>4. GoodEnd(Q)
  BY <1>2, <1>3, SweptKeeps
<1>5. PICK R : R = [Q EXCEPT !.closed = TRUE]
  OBVIOUS
<1>6. R.closed
  <2> HIDE DEF FrameType, StreamType
  <2> QED
    BY <1>4, <1>5, ZenonT(60) DEF GoodEnd, IsEnd, EndType
<1>7. Fluent(R, 0, S.cap)
  BY <1>6 DEF Fluent
<1>8. Step(e, R)
  BY <1>1, <1>3, <1>5 DEF DueClose
<1> QED
  BY <1>1, <1>2, <1>7, <1>8, OwnFlows

LEMMA NothingFlows ==
    ASSUME H2Assumption, StallInv, WindowInv', NEW e \in Ends, FeedNothing(e)
    PROVE  StallInv'
<1>1. PICK S : S = end[e]
  OBVIOUS
<1>2. GoodEnd(S) /\ Fluent(S, 0, S.cap) /\ ~S.closed /\ ~IsDue(S) /\ plan'.changes = plan.changes
  BY <1>1, StallParts DEF FeedNothing
<1>3. Fluent(Swept(S), 0, S.cap)
  BY <1>2, SweptFluent
<1>4. Step(e, Swept(S))
  BY <1>1 DEF FeedNothing
<1> QED
  BY <1>1, <1>2, <1>3, <1>4, OwnFlows

LEMMA PieceFlows ==
    ASSUME H2Assumption, StallInv, WindowInv', NEW e \in Ends, ReadPiece(e)
    PROVE  StallInv'
<1>1. PICK S : S = end[e]
  OBVIOUS
<1>2. GoodEnd(S) /\ Fluent(S, 0, S.cap) /\ ~S.closed /\ ~IsDue(S) /\ plan'.changes = plan.changes
  BY <1>1, StallParts DEF ReadPiece
<1>3. PICK n \in Smaller(1, S.rd.left)..S.rd.left : Step(e, OnPiece(Swept(S), n))
  BY <1>1 DEF ReadPiece
<1>4. PICK Q : Q = Swept(S)
  OBVIOUS
<1>5. GoodEnd(Q) /\ Q.rd = S.rd /\ Fluent(Q, 0, S.cap)
  BY <1>2, <1>4, SweptKeeps, SweptFluent
<1>6. n \in Nat /\ n <= Q.rd.left
  <2>1. PICK k \in Nat : k = S.rd.left
    BY <1>2, NumbersOf
  <2>2. n \in Smaller(1, k)..k
    BY <2>1
  <2>3. Smaller(1, k) \in Nat
    BY DEF Smaller
  <2>4. n \in Nat /\ n <= k
    BY <2>2, <2>3
  <2> QED
    BY <1>5, <2>1, <2>4
<1>7. Fluent(OnPiece(Q, n), 0, S.cap)
  BY <1>5, <1>6, OnPieceFluent
<1> QED
  BY <1>1, <1>2, <1>3, <1>4, <1>7, OwnFlows

LEMMA ReadFlows ==
    ASSUME H2Assumption, StallInv, WindowInv', NEW e \in Ends, ReadFrame(e)
    PROVE  StallInv'
<1>1. PICK S : S = end[e]
  OBVIOUS
<1>2. PICK o \in Ends : o = Other(e) /\ o # e
  BY DEF Other, Ends
<1>3. PICK T : T = end[o]
  OBVIOUS
<1>4. DOMAIN end = Ends /\ Tight(end["server"], plan.changes)
  BY InvParts DEF StallInv
<1>5. /\ GoodEnd(S) /\ Fluent(S, 0, S.cap) /\ GoodEnd(T) /\ Fluent(T, 0, T.cap)
      /\ ~S.closed /\ ~IsDue(S) /\ S.rd = NoData /\ T.out # << >> /\ plan' = plan
  BY <1>1, <1>2, <1>3, StallParts DEF ReadFrame
<1>6. PICK R : R = OnFrame(Swept(S), Head(T.out))
  OBVIOUS
<1>7. PICK Q : Q = OutputSent(T)
  OBVIOUS
<1>8. end' = [end EXCEPT ![e] = R, ![o] = Q]
  BY <1>1, <1>2, <1>3, <1>6, <1>7 DEF ReadFrame
<1>9. end'[e] = R /\ end'[o] = Q
  BY <1>2, <1>4, <1>8
<1>10. Fluent(R, 0, S.cap)
  <2>1. PICK W : W = Swept(S)
    OBVIOUS
  <2>2. GoodEnd(W) /\ ~W.closed /\ W.rd = NoData /\ Fluent(W, 0, S.cap)
    BY <1>5, <2>1, SweptKeeps, SweptFluent
  <2>3. PICK f : f = Head(T.out)
    OBVIOUS
  <2>4. f \in FrameType
    BY <1>5, <2>3, OutputSentIs
  <2>5. Fluent(OnFrame(W, f), 0, S.cap)
    BY <2>2, <2>4, OnFrameFluent
  <2> QED
    BY <1>6, <2>1, <2>3, <2>5
<1>11. Fluent(Q, 0, T.cap) /\ Q.closed = T.closed
  BY <1>5, <1>7, OutputSentFluent, OutputSentIs
<1>12. Flows(R) /\ (R.closed \/ R.cap = S.cap) /\ Flows(Q) /\ (Q.closed \/ Q.cap = T.cap)
  BY <1>10, <1>11, FlowsOn
<1>13. \A x \in Ends : Flows(end'[x])
  <2>1. \A x \in Ends : x = e \/ x = o
    BY <1>2 DEF Ends
  <2> QED
    BY <1>9, <1>12, <2>1
<1>14. Tight(end'["server"], plan'.changes)
  <2>1. CASE e = "server"
    <3>1. Tight(R, plan.changes)
      BY <1>1, <1>4, <1>5, <1>12, <2>1, TightOn
    <3> QED
      BY <1>5, <1>9, <2>1, <3>1
  <2>2. CASE o = "server"
    <3>1. Tight(Q, plan.changes)
      BY <1>3, <1>4, <1>11, <1>12, <2>2, TightOn
    <3> QED
      BY <1>5, <1>9, <2>2, <3>1
  <2> QED
    BY <1>2, <2>1, <2>2 DEF Ends
<1> QED
  BY <1>13, <1>14, StallNext

LEMMA HeldNone ==
    ASSUME NEW S, Open(S) = {}
    PROVE  Held(S) = 0
<1>1. UNION {{x} \X (1 .. HeldOf(S)[x]) : x \in DOMAIN HeldOf(S)} = {}
  BY DEF HeldOf
<1>2. Held(S) = Cardinality(UNION {{x} \X (1 .. HeldOf(S)[x]) : x \in DOMAIN HeldOf(S)})
  BY DEF Held, HeldOf, Total
<1> QED
  BY <1>1, <1>2, FS_EmptySet

LEMMA CreatedFlows ==
    ASSUME H2Assumption, NEW server \in BOOLEAN
    PROVE  Flows(Created(server)) /\ Created(server).cap = 0
<1> DEFINE window == IF server THEN ServerWindow ELSE DefaultWindow
           wide == Larger(window, DefaultWindow)
           S == Created(server)
<1>1. GoodEnd(S) /\ Open(S) = {}
  BY CreatedIs
<1>2. wide \in Nat /\ 0 < wide
  BY DEF Larger, H2Assumption
<1>3. /\ S.recvWin = wide /\ S.unacked = 0 /\ S.target = wide /\ S.cap = 0 /\ S.rd = NoData
  BY DEF Created
<1> HIDE DEF S, wide, window
<1>4. Held(S) = 0 /\ S.rd.left = 0
  BY <1>1, <1>3, HeldNone DEF NoData
<1>5. Room(S) = wide /\ ConnTarget(S) = wide
  BY <1>2, <1>3, <1>4 DEF Room, ConnTarget
<1>6. Solvent(S, 0)
  BY <1>2, <1>3, <1>5 DEF Solvent
<1>7. Woken(S)
  BY <1>1 DEF Woken
<1> QED
  BY <1>3, <1>6, <1>7 DEF Flows, Fluent, S

LEMMA StallInit ==
    ASSUME H2Assumption, CeilingsOnlyFall, Init
    PROVE  StallInv
<1>1. WindowInv
  BY InvInit
<1>2. end["client"] = Created(FALSE) /\ end["server"] = Created(TRUE) /\ plan \in Plans
  BY DEF Init, Ends
<1>3. \A e \in Ends : Flows(end[e])
  BY <1>2, CreatedFlows DEF Ends
<1>4. Tight(end["server"], plan.changes)
  <2>1. OnlyTightens(plan.changes)
    BY <1>2 DEF CeilingsOnlyFall
  <2>2. end["server"].cap = 0
    BY <1>2, CreatedFlows
  <2> QED
    BY <2>1, <2>2 DEF Tight, Tightens
<1> QED
  BY <1>1, <1>3, <1>4 DEF StallInv

LEMMA StallStep ==
    ASSUME H2Assumption, StallInv, [Next]_vars
    PROVE  StallInv'
<1>0. WindowInv'
  BY InvStep DEF StallInv
<1>1. CASE UNCHANGED vars
  <2>1. end' = end /\ plan' = plan
    BY <1>1 DEF vars
  <2>2. (\A e \in Ends : Flows(end[e])) /\ Tight(end["server"], plan.changes)
    BY DEF StallInv
  <2> QED
    BY <1>0, <2>1, <2>2, StallNext
<1>2. CASE SubmitRequest
  BY <1>0, <1>2, RequestFlows
<1>3. CASE Change
  BY <1>0, <1>3, ChangeFlows
<1>4. CASE \E id \in Ids : SubmitResponse(id)
  BY <1>0, <1>4, ResponseFlows
<1>5. ASSUME NEW e \in Ends, NEW id \in Ids,
             SendData(e, id) \/ SendTrailers(e, id) \/ Reset(e, id) \/ Consumed(e, id)
      PROVE  StallInv'
  BY <1>0, <1>5, DataFlows, TrailersFlows, ResetFlows, ConsumedFlows
<1>6. ASSUME NEW e \in Ends,
             \/ DueRefused(e) \/ DueWritable(e) \/ DueClose(e) \/ FeedNothing(e)
             \/ ReadFrame(e) \/ ReadPiece(e)
             \/ SendPing(e) \/ Shutdown(e)
      PROVE  StallInv'
  BY <1>0, <1>6, RefusedFlows, WritableFlows, CloseFlows, NothingFlows, ReadFlows, PieceFlows,
     PingFlows, ShutdownFlows
<1> QED
  BY <1>1, <1>2, <1>3, <1>4, <1>5, <1>6 DEF Next

(* What the invariant promises when nothing is under way.                  *)
LEMMA StallShows ==
    ASSUME H2Assumption, StallInv
    PROVE  NothingStalls
<1>1. \A e \in Ends : GoodEnd(end[e]) /\ Fluent(end[e], 0, end[e].cap)
  BY StallParts
<1>2. ASSUME NEW e \in Ends, NEW id \in Open(end[e]), ~end[e].closed, CanWrite(end[e], id)
      PROVE  end[e].sweepWritable
  BY <1>1, <1>2 DEF Fluent, Woken
<1>3. ASSUME Quiet, NEW e \in Ends, Held(end[Other(e)]) = 0
      PROVE  end[e].sendWin > 0
  <2>1. PICK o \in Ends : o = Other(e) /\ e = Other(o)
    BY DEF Other, Ends
  <2>2. PICK S : S = end[e]
    OBVIOUS
  <2>3. PICK R : R = end[o]
    OBVIOUS
  <2>4. /\ GoodEnd(S) /\ GoodEnd(R) /\ Fluent(R, 0, R.cap) /\ Held(R) = 0
        /\ ~S.closed /\ ~R.closed /\ R.rd = NoData /\ S.out = << >> /\ R.out = << >>
    BY <1>1, <1>3, <2>1, <2>2, <2>3 DEF Quiet
  <2>5. ConnTakes(R) = ConnSends(S)
    <3>1. CountsAgree
      BY DEF StallInv, WindowInv
    <3>2. ~end["client"].closed /\ ~end["server"].closed
      BY <1>3 DEF Quiet, Ends
    <3> QED
      BY <2>1, <2>2, <2>3, <3>1, <3>2 DEF CountsAgree
  <2>6. Carried(S.out, "data", Ids) = 0 /\ Carried(R.out, "window", {0}) = 0
    <3>1. << >> \in Seq(FrameType) /\ DOMAIN << >> = {}
      OBVIOUS
    <3> QED
      BY <2>4, <3>1, CarriedNone
  <2>7. R.recvWin = S.sendWin
    <3>1. R.recvWin \in Int /\ S.sendWin \in Int
      BY <2>4, NumbersOf
    <3> QED
      BY <2>5, <2>6, <3>1 DEF ConnTakes, ConnSends
  <2>8. R.unacked < Room(R) + 0
    BY <2>4 DEF Fluent, Solvent
  <2>9. R.unacked \in Nat /\ R.recvWin \in Int /\ R.rd.left = 0
    BY <2>4, NumbersOf DEF NoData
  <2>10. Room(R) = R.recvWin
    BY <2>4, <2>9 DEF Room
  <2>11. R.recvWin > 0
    BY <2>8, <2>9, <2>10
  <2> QED
    BY <2>2, <2>7, <2>11
<1> QED
  BY <1>2, <1>3 DEF NothingStalls

(* No end waits for what will never come.  Whatever lets a stream that was *)
(* cut short go on - credit, settings, or room in the output once          *)
(* proven_h2_conn_output_sent has emptied it - leaves a sweep due; and     *)
(* h2c_conn_credit, which says nothing until half a window has been        *)
(* consumed, never withholds the peer's last room.  This is so for every   *)
(* plan in which the server's owner makes the ceiling of                   *)
(* proven_h2_conn_cap_window_ only lower: once it is lifted, half of the   *)
(* target may be more than the room the peer has left.                     *)
THEOREM NobodyStalls ==
    ASSUME CeilingsOnlyFall
    PROVE  Spec => []NothingStalls
<1>1. Init => StallInv
  BY H2Assumption, StallInit
<1>2. StallInv /\ [Next]_vars => StallInv'
  BY H2Assumption, StallStep
<1>3. StallInv => NothingStalls
  BY H2Assumption, StallShows
<1> QED
  BY <1>1, <1>2, <1>3, PTL DEF Spec
=============================================================================
