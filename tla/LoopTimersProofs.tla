-------------------------- MODULE LoopTimersProofs --------------------------
(***************************************************************************)
(* The timer wheel, for every finite set of timers, every number of slots, *)
(* length of a tick, bound of the scan and set of delays: TimerInv is an   *)
(* invariant, and FiresOnTime and SleepIsRight follow.                     *)
(***************************************************************************)
EXTENDS LoopTimers, SequenceTheorems, WellFoundedInduction, FiniteSetTheorems, TLAPS

---------------------------------------------------------------------------
(* Numbers.                                                                *)

(* A set of natural numbers that is not empty has a least element.         *)
LEMMA LeastOf ==
    ASSUME NEW T \in SUBSET Nat, T # {}
    PROVE  /\ Min(T) \in T
           /\ \A k \in T : Min(T) <= k
<1>1. PICK m \in T : \A k \in T : ~ (<<k, m>> \in OpToRel(<, Nat))
  BY NatLessThanWellFounded, WFMin, Zenon
<1>2. \A k \in T : ~ (k < m)
  BY <1>1, Zenon DEF OpToRel
<1>3. \A k \in T : m =< k
  BY <1>2
<1> QED
  BY <1>3 DEF Min

(* A bounded one has a greatest.                                           *)
LEMMA GreatestOf ==
    ASSUME NEW n \in Nat, NEW T \in SUBSET (0 .. n), T # {}
    PROVE  /\ Max(T) \in T
           /\ \A k \in T : k <= Max(T)
<1> DEFINE U == {n - k : k \in T}
<1>1. U \in SUBSET Nat /\ U # {}
  <2>1. \A k \in T : n - k \in Nat
    OBVIOUS
  <2> QED
    BY <2>1
<1>2. Min(U) \in U /\ \A k \in U : Min(U) <= k
  BY <1>1, LeastOf
<1>3. PICK m \in T : Min(U) = n - m
  BY <1>2
<1>4. \A k \in T : n - m <= n - k
  BY <1>2, <1>3
<1>5. \A k \in T : m >= k
  BY <1>4
<1> QED
  BY <1>5 DEF Max

(* The tick a time falls in.                                               *)
LEMMA TickOf ==
    ASSUME NEW x \in Nat, NEW d \in Nat \ {0}
    PROVE  /\ x \div d \in Nat
           /\ (x \div d) * d <= x
           /\ x < (x \div d + 1) * d
  OBVIOUS

LEMMA TickAtLeast ==
    ASSUME NEW x \in Nat, NEW d \in Nat \ {0}, NEW q \in Nat
    PROVE  q <= x \div d <=> q * d <= x
<1> DEFINE k == x \div d
<1>1. k \in Nat /\ k * d <= x /\ x < (k + 1) * d
  BY TickOf
<1> HIDE DEF k
<1>2. ASSUME q <= k PROVE q * d <= x
  <2>1. q * d <= k * d
    BY <1>1, <1>2
  <2>2. q * d \in Int /\ k * d \in Int
    BY <1>1
  <2> QED
    BY <1>1, <2>1, <2>2
<1>3. ASSUME ~(q <= k) PROVE ~(q * d <= x)
  <2>1. (k + 1) * d <= q * d
    BY <1>1, <1>3
  <2>2. q * d \in Int /\ (k + 1) * d \in Int
    BY <1>1
  <2> QED
    BY <1>1, <2>1, <2>2
<1> QED
  BY <1>2, <1>3 DEF k

(* A residue is its number's only representative in the range.             *)
LEMMA ModUnique ==
    ASSUME NEW m \in Nat \ {0}, NEW k \in Int, NEW r \in 0 .. m - 1
    PROVE  (k * m + r) % m = r
  OBVIOUS

LEMMA ModSplit ==
    ASSUME NEW m \in Nat \ {0}, NEW x \in Int
    PROVE  /\ x = (x \div m) * m + (x % m)
           /\ x % m \in 0 .. m - 1
           /\ x \div m \in Int
  OBVIOUS

LEMMA SlotIn ==
    ASSUME NEW q \in Nat
    PROVE  q % Slots \in SlotIds
  BY TimerAssumption DEF SlotIds

(* Any turn of the wheel's length comes by every slot.                     *)
LEMMA TurnVisitsAll ==
    ASSUME NEW q \in Nat, NEW last \in Nat, q <= last,
           NEW first \in Nat, first <= last - Slots + 1
    PROVE  \E s \in first .. last : s % Slots = q % Slots
<1> DEFINE r == (last - q) % Slots
           j == (last - q) \div Slots
           s == last - r
<1>1. Slots \in Nat \ {0} /\ last - q \in Int
  BY TimerAssumption
<1>2. last - q = j * Slots + r /\ r \in 0 .. Slots - 1 /\ j \in Int
  BY <1>1, ModSplit
<1> HIDE DEF r, j
<1>3. q = (q \div Slots) * Slots + (q % Slots) /\ q % Slots \in 0 .. Slots - 1 /\ q \div Slots \in Int
  BY <1>1, ModSplit
<1> DEFINE a == q \div Slots
           b == q % Slots
<1>4. b \in 0 .. Slots - 1 /\ a \in Int /\ q = a * Slots + b
  BY <1>3
<1> HIDE DEF a, b
<1>5. s = (a + j) * Slots + b
  <2>1. (a + j) * Slots = a * Slots + j * Slots
    BY <1>1, <1>2, <1>4
  <2>2. a * Slots \in Int /\ j * Slots \in Int
    BY <1>1, <1>2, <1>4
  <2> QED
    BY <1>1, <1>2, <1>4, <2>1, <2>2
<1>6. s % Slots = b
  BY <1>1, <1>2, <1>4, <1>5, ModUnique, a + j \in Int
<1>7. s \in first .. last
  BY <1>1, <1>2
<1> QED
  BY <1>6, <1>7 DEF b

---------------------------------------------------------------------------
(* Lists of timers.                                                        *)

(* What a list without its i-th entry is.                                  *)
LEMMA RemoveAtIs ==
    ASSUME NEW S, NEW list \in Seq(S), NEW i \in DOMAIN list
    PROVE  /\ RemoveAt(list, i) \in Seq(S)
           /\ Len(RemoveAt(list, i)) = Len(list) - 1
           /\ \A k \in 1 .. Len(list) - 1 :
                RemoveAt(list, i)[k] = IF k < i THEN list[k] ELSE list[k + 1]
<1> DEFINE n == Len(list)
           a == SubSeq(list, 1, i - 1)
           b == SubSeq(list, i + 1, n)
           r == a \o b
<1>1. n \in Nat /\ i \in 1 .. n /\ \A j \in 1 .. n : list[j] \in S
  OBVIOUS
<1>2. a \in Seq(S) /\ Len(a) = i - 1 /\ \A k \in 1 .. i - 1 : a[k] = list[k]
  <2>1. \A j \in 1 .. i - 1 : list[j] \in S
    BY <1>1
  <2> QED
    BY <1>1, <2>1, SubSeqProperties
<1>3. b \in Seq(S) /\ Len(b) = n - i /\ \A k \in 1 .. n - i : b[k] = list[k + i]
  <2>1. \A j \in i + 1 .. n : list[j] \in S
    BY <1>1
  <2> QED
    BY <1>1, <2>1, SubSeqProperties
<1> HIDE DEF a, b
<1>4. /\ r \in Seq(S) /\ Len(r) = Len(a) + Len(b)
      /\ \A k \in 1 .. Len(a) + Len(b) : r[k] = IF k <= Len(a) THEN a[k] ELSE b[k - Len(a)]
  BY <1>2, <1>3, ConcatProperties, Zenon
<1> HIDE DEF r
<1>5. ASSUME NEW k \in 1 .. n - 1 PROVE r[k] = IF k < i THEN list[k] ELSE list[k + 1]
  <2>1. r[k] = IF k <= i - 1 THEN a[k] ELSE b[k - (i - 1)]
    <3>1. k \in 1 .. Len(a) + Len(b)
      BY <1>1, <1>2, <1>3
    <3> QED
      BY <1>2, <1>4, <3>1
  <2>2. CASE k < i
    BY <1>1, <1>2, <2>1, <2>2
  <2>3. CASE ~(k < i)
    <3>1. k - (i - 1) \in 1 .. n - i /\ (k - (i - 1)) + i = k + 1
      BY <1>1, <2>3
    <3> QED
      BY <1>1, <1>3, <2>1, <2>3, <3>1
  <2> QED
    BY <2>2, <2>3
<1>6. r \in Seq(S) /\ Len(r) = n - 1
  BY <1>1, <1>2, <1>3, <1>4
<1> QED
  BY <1>5, <1>6 DEF RemoveAt, r, a, b

(* What a list with an entry put in at position p is.                      *)
LEMMA InsertAtIs ==
    ASSUME NEW S, NEW list \in Seq(S), NEW p \in 1 .. Len(list) + 1, NEW t \in S
    PROVE  /\ InsertAt(list, p, t) \in Seq(S)
           /\ Len(InsertAt(list, p, t)) = Len(list) + 1
           /\ \A k \in 1 .. Len(list) + 1 :
                InsertAt(list, p, t)[k] =
                    IF k < p THEN list[k] ELSE IF k = p THEN t ELSE list[k - 1]
<1> DEFINE n == Len(list)
           a == SubSeq(list, 1, p - 1)
           b == SubSeq(list, p, n)
           c == a \o <<t>>
           r == c \o b
<1>1. n \in Nat /\ p \in 1 .. n + 1 /\ \A j \in 1 .. n : list[j] \in S
  OBVIOUS
<1>2. a \in Seq(S) /\ Len(a) = p - 1 /\ \A k \in 1 .. p - 1 : a[k] = list[k]
  <2>1. \A j \in 1 .. p - 1 : list[j] \in S
    BY <1>1
  <2> QED
    BY <1>1, <2>1, SubSeqProperties
<1>3. b \in Seq(S) /\ Len(b) = n - p + 1 /\ \A k \in 1 .. n - p + 1 : b[k] = list[k + p - 1]
  <2>1. \A j \in p .. n : list[j] \in S
    BY <1>1
  <2> QED
    BY <1>1, <2>1, SubSeqProperties
<1> HIDE DEF a, b
<1>4. /\ c \in Seq(S) /\ Len(c) = p /\ c[p] = t
      /\ \A k \in 1 .. p - 1 : c[k] = list[k]
  BY <1>1, <1>2
<1> HIDE DEF c
<1>5. /\ r \in Seq(S) /\ Len(r) = Len(c) + Len(b)
      /\ \A k \in 1 .. Len(c) + Len(b) : r[k] = IF k <= Len(c) THEN c[k] ELSE b[k - Len(c)]
  BY <1>3, <1>4, ConcatProperties, Zenon
<1> HIDE DEF r
<1>6. ASSUME NEW k \in 1 .. n + 1
      PROVE  r[k] = IF k < p THEN list[k] ELSE IF k = p THEN t ELSE list[k - 1]
  <2>1. r[k] = IF k <= p THEN c[k] ELSE b[k - p]
    BY <1>1, <1>3, <1>4, <1>5
  <2>2. CASE k <= p
    BY <1>1, <1>4, <2>1, <2>2
  <2>3. CASE ~(k <= p)
    <3>1. k - p \in 1 .. n - p + 1 /\ (k - p) + p - 1 = k - 1
      BY <1>1, <2>3
    <3> QED
      BY <1>1, <1>3, <2>1, <2>3, <3>1
  <2> QED
    BY <2>2, <2>3
<1>7. r \in Seq(S) /\ Len(r) = n + 1
  BY <1>1, <1>3, <1>4, <1>5
<1> QED
  BY <1>6, <1>7 DEF InsertAt, r, c, a, b

LEMMA HoldsWithout ==
    ASSUME NEW S, NEW list \in Seq(S), NEW set, Holds(list, set), NEW i \in DOMAIN list
    PROVE  RemoveAt(list, i) \in Seq(S) /\ Holds(RemoveAt(list, i), set \ {list[i]})
<1> DEFINE r == RemoveAt(list, i)
<1>1. /\ r \in Seq(S) /\ Len(r) = Len(list) - 1
      /\ \A k \in 1 .. Len(list) - 1 : r[k] = IF k < i THEN list[k] ELSE list[k + 1]
  BY RemoveAtIs
<1> HIDE DEF r
<1>2. /\ Len(list) \in Nat /\ DOMAIN list = 1 .. Len(list) /\ i \in 1 .. Len(list)
      /\ DOMAIN r = 1 .. Len(list) - 1
  BY <1>1
<1>3. \A j, k \in 1 .. Len(list) : list[j] = list[k] => j = k
  BY <1>2 DEF Holds
<1>4. \A j, k \in DOMAIN r : r[j] = r[k] => j = k
  <2>1. ASSUME NEW j \in DOMAIN r, NEW k \in DOMAIN r, r[j] = r[k] PROVE j = k
    <3> DEFINE jj == IF j < i THEN j ELSE j + 1
               kk == IF k < i THEN k ELSE k + 1
    <3>1. jj \in 1 .. Len(list) /\ kk \in 1 .. Len(list)
      BY <1>2
    <3>2. list[jj] = list[kk]
      BY <1>1, <1>2, <2>1
    <3>3. jj = kk
      BY <1>3, <3>1, <3>2
    <3> QED
      BY <1>2, <3>3
  <2> QED
    BY <2>1
<1>5. Range(r) = set \ {list[i]}
  <2>1. ASSUME NEW k \in DOMAIN r PROVE r[k] \in set /\ r[k] # list[i]
    <3> DEFINE kk == IF k < i THEN k ELSE k + 1
    <3>1. kk \in 1 .. Len(list) /\ kk # i
      BY <1>2
    <3>2. r[k] = list[kk]
      BY <1>1, <1>2
    <3>3. list[kk] # list[i]
      BY <1>2, <1>3, <3>1
    <3>4. list[kk] \in set
      BY <1>2, <3>1 DEF Holds, Range
    <3> QED
      BY <3>2, <3>3, <3>4
  <2>2. ASSUME NEW x \in set, x # list[i] PROVE \E k \in DOMAIN r : r[k] = x
    <3>1. PICK kk \in 1 .. Len(list) : list[kk] = x
      BY <1>2 DEF Holds, Range
    <3>2. CASE kk < i
      <4>1. kk \in DOMAIN r /\ r[kk] = x
        BY <1>1, <1>2, <3>1, <3>2
      <4> QED
        BY <4>1
    <3>3. CASE ~(kk < i)
      <4>1. kk # i
        BY <2>2, <3>1
      <4>2. kk - 1 \in DOMAIN r /\ (kk - 1) + 1 = kk /\ ~(kk - 1 < i)
        BY <1>2, <3>3, <4>1
      <4>3. r[kk - 1] = x
        BY <1>1, <1>2, <3>1, <4>2
      <4> QED
        BY <4>2, <4>3
    <3> QED
      BY <3>2, <3>3
  <2> QED
    BY <2>1, <2>2 DEF Range
<1> QED
  BY <1>1, <1>4, <1>5 DEF Holds, r

(* timer_unlink: a list that holds t, without it.                          *)
LEMMA WithoutHolds ==
    ASSUME NEW S, NEW list \in Seq(S), NEW set, Holds(list, set), NEW t \in set
    PROVE  Without(list, t) \in Seq(S) /\ Holds(Without(list, t), set \ {t})
<1> DEFINE i == CHOOSE j \in DOMAIN list : list[j] = t
<1>1. \E j \in DOMAIN list : list[j] = t
  BY DEF Holds, Range
<1>2. i \in DOMAIN list /\ list[i] = t
  BY <1>1
<1> HIDE DEF i
<1>3. RemoveAt(list, i) \in Seq(S) /\ Holds(RemoveAt(list, i), set \ {list[i]})
  BY <1>2, HoldsWithout
<1> QED
  BY <1>2, <1>3 DEF Without, i

LEMMA HoldsInserted ==
    ASSUME NEW S, NEW list \in Seq(S), NEW set, Holds(list, set), NEW t \in S, t \notin set,
           NEW p \in 1 .. Len(list) + 1
    PROVE  /\ InsertAt(list, p, t) \in Seq(S)
           /\ Holds(InsertAt(list, p, t), set \cup {t})
<1> DEFINE r == InsertAt(list, p, t)
<1>1. /\ r \in Seq(S) /\ Len(r) = Len(list) + 1
      /\ \A k \in 1 .. Len(list) + 1 :
            r[k] = IF k < p THEN list[k] ELSE IF k = p THEN t ELSE list[k - 1]
  BY InsertAtIs
<1> HIDE DEF r
<1>2. /\ Len(list) \in Nat /\ DOMAIN list = 1 .. Len(list) /\ p \in 1 .. Len(list) + 1
      /\ DOMAIN r = 1 .. Len(list) + 1
  BY <1>1
<1>3. /\ \A j, k \in 1 .. Len(list) : list[j] = list[k] => j = k
      /\ \A j \in 1 .. Len(list) : list[j] \in set /\ list[j] # t
  BY <1>2 DEF Holds, Range
<1>4. ASSUME NEW k \in DOMAIN r, k # p
      PROVE  \E j \in 1 .. Len(list) : r[k] = list[j] /\ j = IF k < p THEN k ELSE k - 1
  <2>1. CASE k < p
    BY <1>1, <1>2, <1>4, <2>1
  <2>2. CASE ~(k < p)
    <3>1. k - 1 \in 1 .. Len(list)
      BY <1>2, <1>4, <2>2
    <3>2. r[k] = list[k - 1]
      BY <1>1, <1>2, <1>4, <2>2
    <3> QED
      BY <2>2, <3>1, <3>2
  <2> QED
    BY <2>1, <2>2
<1>5. p \in DOMAIN r /\ r[p] = t
  BY <1>1, <1>2
<1>6. \A j, k \in DOMAIN r : r[j] = r[k] => j = k
  <2>1. ASSUME NEW j \in DOMAIN r, NEW k \in DOMAIN r, r[j] = r[k] PROVE j = k
    <3>1. CASE j = p \/ k = p
      BY <1>3, <1>4, <1>5, <2>1, <3>1
    <3>2. CASE j # p /\ k # p
      <4>1. PICK jj \in 1 .. Len(list) : r[j] = list[jj] /\ jj = IF j < p THEN j ELSE j - 1
        BY <1>4, <3>2
      <4>2. PICK kk \in 1 .. Len(list) : r[k] = list[kk] /\ kk = IF k < p THEN k ELSE k - 1
        BY <1>4, <3>2
      <4>3. jj = kk
        BY <1>3, <2>1, <4>1, <4>2
      <4> QED
        BY <1>2, <3>2, <4>1, <4>2, <4>3
    <3> QED
      BY <3>1, <3>2
  <2> QED
    BY <2>1
<1>7. Range(r) = set \cup {t}
  <2>1. \A k \in DOMAIN r : r[k] \in set \cup {t}
    BY <1>3, <1>4, <1>5
  <2>2. ASSUME NEW x \in set PROVE \E k \in DOMAIN r : r[k] = x
    <3>1. PICK j \in 1 .. Len(list) : list[j] = x
      BY <1>2 DEF Holds, Range
    <3>2. CASE j < p
      <4>1. j \in DOMAIN r /\ r[j] = x
        BY <1>1, <1>2, <3>1, <3>2
      <4> QED
        BY <4>1
    <3>3. CASE ~(j < p)
      <4>1. j + 1 \in DOMAIN r /\ ~(j + 1 < p) /\ j + 1 # p /\ (j + 1) - 1 = j
        BY <1>2, <3>3
      <4>2. r[j + 1] = x
        BY <1>1, <1>2, <3>1, <4>1
      <4> QED
        BY <4>1, <4>2
    <3> QED
      BY <3>2, <3>3
  <2> QED
    BY <1>5, <2>1, <2>2 DEF Range
<1> QED
  BY <1>1, <1>6, <1>7 DEF Holds, r

(* proven_loop_timer_set puts a timer at the head of its slot.             *)
LEMMA HoldsPrepended ==
    ASSUME NEW S, NEW list \in Seq(S), NEW set, Holds(list, set), NEW t \in S, t \notin set
    PROVE  <<t>> \o list \in Seq(S) /\ Holds(<<t>> \o list, set \cup {t})
<1>1. 1 \in 1 .. Len(list) + 1
  OBVIOUS
<1>2. InsertAt(list, 1, t) = <<t>> \o list
  <2>1. SubSeq(list, 1, 0) = <<>> /\ SubSeq(list, 1, Len(list)) = list
    OBVIOUS
  <2> QED
    BY <2>1 DEF InsertAt
<1>3. InsertAt(list, 1, t) \in Seq(S) /\ Holds(InsertAt(list, 1, t), set \cup {t})
  BY <1>1, HoldsInserted
<1> QED
  BY <1>2, <1>3

(* Walking back from the tail: the place where the order is kept.          *)
LEMMA InsertKeepsOrder ==
    ASSUME TimersTypeOK, NEW t \in Timers,
           \A i, j \in DOMAIN due : i < j => tick[due[i]] <= tick[due[j]]
    PROVE  \E p \in 1 .. Len(due) + 1 :
             /\ InsertDue(due, t) = InsertAt(due, p, t)
             /\ \A i \in DOMAIN due : i < p => tick[due[i]] <= tick[t]
             /\ \A i \in DOMAIN due : i >= p => tick[t] <= tick[due[i]]
<1> DEFINE B == {0} \cup NoLater(due, t)
           m == Max(B)
<1>1. /\ Len(due) \in Nat /\ DOMAIN due = 1 .. Len(due) /\ tick[t] \in Nat
      /\ \A i \in DOMAIN due : due[i] \in Timers /\ tick[due[i]] \in Nat
  BY DEF TimersTypeOK
<1>2. B \in SUBSET (0 .. Len(due)) /\ B # {}
  BY <1>1 DEF NoLater
<1>3. m \in B /\ \A k \in B : k <= m
  BY <1>1, <1>2, GreatestOf
<1> HIDE DEF m
<1>4. m \in 0 .. Len(due)
  BY <1>2, <1>3
<1>5. m + 1 \in 1 .. Len(due) + 1
  BY <1>1, <1>4
<1>6. ASSUME NEW i \in DOMAIN due, i < m + 1 PROVE tick[due[i]] <= tick[t]
  <2>1. m \in DOMAIN due /\ tick[due[m]] <= tick[t] /\ i <= m
    BY <1>1, <1>3, <1>4, <1>6 DEF NoLater
  <2>2. tick[due[i]] <= tick[due[m]]
    BY <1>1, <2>1
  <2> QED
    BY <1>1, <2>1, <2>2
<1>7. ASSUME NEW i \in DOMAIN due, i >= m + 1 PROVE tick[t] <= tick[due[i]]
  <2>1. i \notin NoLater(due, t)
    BY <1>1, <1>3, <1>4, <1>7
  <2> QED
    BY <1>1, <2>1 DEF NoLater
<1>8. InsertDue(due, t) = InsertAt(due, m + 1, t)
  BY DEF InsertDue, InsertByTime, m
<1> QED
  BY <1>5, <1>6, <1>7, <1>8

---------------------------------------------------------------------------
(* What the steps have in common.                                          *)

LEMMA Basics ==
    ASSUME TimersTypeOK
    PROVE  /\ Tick \in Nat \ {0} /\ Slots \in Nat \ {0}
           /\ now \in Nat /\ wheel_tick \in Nat
           /\ \A t \in Timers : tick[t] \in Nat /\ tick[t] \div Tick \in Nat
           /\ \A t \in Timers : Slot(tick[t]) \in SlotIds
           /\ IsFiniteSet(InState("wheel"))
<1>1. Tick \in Nat \ {0} /\ Slots \in Nat \ {0} /\ IsFiniteSet(Timers)
  BY TimerAssumption
<1>2. \A t \in Timers : tick[t] \in Nat /\ tick[t] \div Tick \in Nat
  BY <1>1, TickOf DEF TimersTypeOK
<1>3. \A t \in Timers : Slot(tick[t]) \in SlotIds
  BY <1>2, SlotIn DEF Slot
<1>4. IsFiniteSet(InState("wheel"))
  BY <1>1, FS_Subset DEF InState
<1> QED
  BY <1>1, <1>2, <1>3, <1>4 DEF TimersTypeOK

(* Target, and where the walk over the slots begins.                       *)
LEMMA Targets ==
    ASSUME TimersTypeOK
    PROVE  /\ Target \in Nat /\ Target >= wheel_tick /\ Target >= now \div Tick
           /\ Target > wheel_tick => Target = now \div Tick
           /\ From \in Nat /\ From >= wheel_tick /\ From <= Target
           /\ From = wheel_tick \/ From = Target - Slots + 1
<1>1. now \div Tick \in Nat /\ wheel_tick \in Nat /\ Slots \in Nat \ {0}
  BY Basics, TickOf
<1>2. Target = IF now \div Tick >= wheel_tick THEN now \div Tick ELSE wheel_tick
  <2>1. PICK q \in Nat : q = now \div Tick
    BY <1>1
  <2>2. CASE q >= wheel_tick
    <3>1. \A y \in {q, wheel_tick} : q >= y
      BY <1>1, <2>1, <2>2
    <3>2. \A x \in {q, wheel_tick} : (\A y \in {q, wheel_tick} : x >= y) => x = q
      BY <1>1, <2>1, <2>2
    <3> QED
      BY <2>1, <2>2, <3>1, <3>2 DEF Target, Max
  <2>3. CASE ~(q >= wheel_tick)
    <3>1. \A y \in {q, wheel_tick} : wheel_tick >= y
      BY <1>1, <2>1, <2>3
    <3>2. \A x \in {q, wheel_tick} : (\A y \in {q, wheel_tick} : x >= y) => x = wheel_tick
      BY <1>1, <2>1, <2>3
    <3> QED
      BY <2>1, <2>3, <3>1, <3>2 DEF Target, Max
  <2> QED
    BY <2>2, <2>3
<1> HIDE DEF Target
<1> QED
  BY <1>1, <1>2 DEF From, VisitFrom

(* A list's timers in order, without one of them.                          *)
LEMMA OrderWithout ==
    ASSUME TimersTypeOK, NEW i \in DOMAIN due,
           \A j, k \in DOMAIN due : j < k => tick[due[j]] <= tick[due[k]]
    PROVE  LET r == RemoveAt(due, i) IN
           \A j, k \in DOMAIN r : j < k => tick[r[j]] <= tick[r[k]]
<1> DEFINE r == RemoveAt(due, i)
<1>1. /\ Len(due) \in Nat /\ DOMAIN due = 1 .. Len(due) /\ i \in 1 .. Len(due)
      /\ due \in Seq(Timers)
  BY DEF TimersTypeOK
<1>2. /\ r \in Seq(Timers) /\ Len(r) = Len(due) - 1
      /\ \A k \in 1 .. Len(due) - 1 : r[k] = IF k < i THEN due[k] ELSE due[k + 1]
  BY <1>1, RemoveAtIs
<1> HIDE DEF r
<1>3. ASSUME NEW j \in DOMAIN r, NEW k \in DOMAIN r, j < k PROVE tick[r[j]] <= tick[r[k]]
  <2> DEFINE jj == IF j < i THEN j ELSE j + 1
             kk == IF k < i THEN k ELSE k + 1
  <2>1. jj \in DOMAIN due /\ kk \in DOMAIN due /\ jj < kk
    BY <1>1, <1>2, <1>3
  <2>2. r[j] = due[jj] /\ r[k] = due[kk]
    BY SMTT(20), <1>1, <1>2
  <2> QED
    BY <2>1, <2>2
<1> QED
  BY <1>3 DEF r

(* timer_unlink, whichever list the timer is on.                           *)
LEMMA Unlinking ==
    ASSUME ListsAgree, NEW t \in Timers,
           \A i, j \in DOMAIN due : i < j => tick[due[i]] <= tick[due[j]]
    PROVE  LET u == Unlinked(t) IN
           /\ u.wheel \in [SlotIds -> Seq(Timers)]
           /\ \A s \in SlotIds : Holds(u.wheel[s], InSlot(s) \ {t})
           /\ u.due \in Seq(Timers) /\ Holds(u.due, InState("due") \ {t})
           /\ \A i, j \in DOMAIN u.due : i < j => tick[u.due[i]] <= tick[u.due[j]]
           /\ u.count \in Nat /\ u.count = Cardinality(InState("wheel") \ {t})
<1> DEFINE u == Unlinked(t)
           slot == Slot(tick[t])
<1>1. TimersTypeOK /\ slot \in SlotIds /\ IsFiniteSet(InState("wheel"))
  BY Basics DEF ListsAgree
<1>2. /\ u.wheel = IF state[t] = "wheel"
                   THEN [wheel EXCEPT ![slot] = Without(@, t)] ELSE wheel
      /\ u.due = IF state[t] = "due" THEN Without(due, t) ELSE due
      /\ u.count = IF state[t] = "wheel" THEN timed_count - 1 ELSE timed_count
  BY DEF Unlinked
<1> HIDE DEF u
<1>3. /\ wheel \in [SlotIds -> Seq(Timers)] /\ due \in Seq(Timers)
      /\ \A s \in SlotIds : Holds(wheel[s], InSlot(s))
      /\ Holds(due, InState("due"))
  BY <1>1 DEF TimersTypeOK, ListsAgree
<1>4. u.wheel \in [SlotIds -> Seq(Timers)] /\ \A s \in SlotIds : Holds(u.wheel[s], InSlot(s) \ {t})
  <2>1. CASE state[t] = "wheel"
    <3>1. t \in InSlot(slot) /\ \A s \in SlotIds : s # slot => t \notin InSlot(s)
      BY <2>1 DEF InSlot, InState
    <3> HIDE DEF slot
    <3>2. Without(wheel[slot], t) \in Seq(Timers) /\ Holds(Without(wheel[slot], t), InSlot(slot) \ {t})
      BY <1>1, <1>3, <3>1, WithoutHolds
    <3>3. \A s \in SlotIds : s # slot => InSlot(s) \ {t} = InSlot(s)
      BY <3>1
    <3>4. u.wheel = [wheel EXCEPT ![slot] = Without(wheel[slot], t)]
      BY <1>2, <2>1
    <3> QED
      BY <1>1, <1>3, <3>2, <3>3, <3>4
  <2>2. CASE state[t] # "wheel"
    <3>1. \A s \in SlotIds : InSlot(s) \ {t} = InSlot(s)
      BY <2>2 DEF InSlot, InState
    <3> QED
      BY <1>2, <1>3, <2>2, <3>1
  <2> QED
    BY <2>1, <2>2
<1>5. /\ u.due \in Seq(Timers) /\ Holds(u.due, InState("due") \ {t})
      /\ \A i, j \in DOMAIN u.due : i < j => tick[u.due[i]] <= tick[u.due[j]]
  <2>1. CASE state[t] = "due"
    <3>1. t \in InState("due")
      BY <2>1 DEF InState
    <3>2. Without(due, t) \in Seq(Timers) /\ Holds(Without(due, t), InState("due") \ {t})
      BY <1>3, <3>1, WithoutHolds
    <3> DEFINE i == CHOOSE j \in DOMAIN due : due[j] = t
               r == RemoveAt(due, i)
    <3>3. i \in DOMAIN due
      BY <1>3, <3>1 DEF Holds, Range
    <3> HIDE DEF i
    <3>4. \A j, k \in DOMAIN r : j < k => tick[r[j]] <= tick[r[k]]
      BY <1>1, <3>3, OrderWithout
    <3>5. u.due = r
      BY <1>2, <2>1 DEF Without, i
    <3>6. u.due = Without(due, t)
      BY <1>2, <2>1
    <3> HIDE DEF r
    <3> QED
      BY <3>2, <3>4, <3>5, <3>6
  <2>2. CASE state[t] # "due"
    <3>1. InState("due") \ {t} = InState("due")
      BY <2>2 DEF InState
    <3> QED
      BY <1>2, <1>3, <2>2, <3>1
  <2> QED
    BY <2>1, <2>2
<1>6. u.count \in Nat /\ u.count = Cardinality(InState("wheel") \ {t})
  <2>1. timed_count = Cardinality(InState("wheel")) /\ timed_count \in Nat
    BY DEF ListsAgree, TimersTypeOK
  <2>2. CASE state[t] = "wheel"
    <3>1. t \in InState("wheel")
      BY <2>2 DEF InState
    <3>2. Cardinality(InState("wheel") \ {t}) = Cardinality(InState("wheel")) - 1
      BY <1>1, <3>1, FS_RemoveElement
    <3>3. Cardinality(InState("wheel") \ {t}) \in Nat
      BY <1>1, FS_RemoveElement, FS_CardinalityType
    <3> QED
      BY <1>2, <2>1, <2>2, <3>2, <3>3
  <2>3. CASE state[t] # "wheel"
    <3>1. InState("wheel") \ {t} = InState("wheel")
      BY <2>3 DEF InState
    <3> QED
      BY <1>2, <2>1, <2>3, <3>1
  <2> QED
    BY <2>2, <2>3
<1> QED
  BY <1>4, <1>5, <1>6 DEF u

(* Steps that move no timer.                                               *)
LEMMA ListsFrame ==
    ASSUME ListsAgree, UNCHANGED <<wheel, due, state, tick, timed_count>>, TimersTypeOK'
    PROVE  ListsAgree'
<1>1. InState("wheel")' = InState("wheel") /\ InState("due")' = InState("due")
  BY DEF InState
<1>2. \A s \in SlotIds : InSlot(s)' = InSlot(s)
  BY <1>1 DEF InSlot
<1> QED
  BY <1>1, <1>2 DEF ListsAgree, Holds

(* ... and do not touch what TimesInv speaks of, save for later times.     *)
LEMMA TimesFrame ==
    ASSUME TimersTypeOK, TimesInv, UNCHANGED <<due, state, tick, wheel_tick, early, asked>>,
           now' \in Nat, now <= now'
    PROVE  TimesInv'
<1>1. \A t \in Timers : tick[t] \in Nat /\ now \in Nat
  BY DEF TimersTypeOK
<1> QED
  BY <1>1 DEF TimesInv

(* The slot of a tick holds the timers of that tick among its own.         *)
LEMMA RingHolds ==
    ASSUME ListsAgree, NEW s \in Nat
    PROVE  /\ Ring(s) \in Seq(Timers)
           /\ \A i \in DOMAIN Ring(s) : Ring(s)[i] \in InState("wheel")
           /\ \A t \in InState("wheel") : Slot(tick[t]) = s % Slots =>
                \E i \in DOMAIN Ring(s) : Ring(s)[i] = t
<1>1. s % Slots \in SlotIds
  BY SlotIn
<1>2. wheel[s % Slots] \in Seq(Timers) /\ Holds(wheel[s % Slots], InSlot(s % Slots))
  BY <1>1 DEF ListsAgree, TimersTypeOK
<1> QED
  BY <1>2 DEF Ring, Holds, Range, InSlot

(* The scan gives up in the first slot exactly if that is Crowded.         *)
LEMMA LookedInFirst ==
    ASSUME ListsAgree
    PROVE  /\ PassedOver(wheel_tick) \in Nat
           /\ LookedUpTo(wheel_tick) = PassedOver(wheel_tick)
<1> DEFINE n == PassedOver(wheel_tick)
<1>1. wheel_tick \in Nat
  BY DEF ListsAgree, TimersTypeOK
<1>2. Ring(wheel_tick) \in Seq(Timers)
  <2>1. wheel_tick % Slots \in SlotIds
    BY <1>1, SlotIn
  <2> QED
    BY <2>1 DEF ListsAgree, TimersTypeOK, Ring
<1>3. n \in Nat
  <2>1. CASE OwnTurn(wheel_tick) = {}
    BY <1>2, <2>1 DEF PassedOver
  <2>2. CASE OwnTurn(wheel_tick) # {}
    <3>1. OwnTurn(wheel_tick) \in SUBSET Nat /\ \A i \in OwnTurn(wheel_tick) : i >= 1
      BY <1>2 DEF OwnTurn
    <3>2. Min(OwnTurn(wheel_tick)) \in OwnTurn(wheel_tick)
      BY <2>2, <3>1, LeastOf
    <3> QED
      BY <2>2, <3>1, <3>2 DEF PassedOver
  <2> QED
    BY <2>1, <2>2
<1> HIDE DEF n
<1>4. wheel_tick .. wheel_tick = {wheel_tick}
  BY <1>1
<1>5. LookedAt(wheel_tick) = {wheel_tick} \X (1 .. n)
  BY <1>4 DEF LookedAt, n
<1>6. IsFiniteSet({wheel_tick}) /\ Cardinality({wheel_tick}) = 1
  BY FS_Singleton
<1>7. IsFiniteSet(1 .. n) /\ Cardinality(1 .. n) = n
  <2>1. IsFiniteSet(1 .. n) /\ Cardinality(1 .. n) = IF 1 > n THEN 0 ELSE n - 1 + 1
    BY <1>3, FS_Interval
  <2> QED
    BY <1>3, <2>1
<1>8. Cardinality({wheel_tick} \X (1 .. n)) = 1 * n
  <2>1. Cardinality({wheel_tick} \X (1 .. n)) = Cardinality({wheel_tick}) * Cardinality(1 .. n)
    BY <1>6, <1>7, FS_Product
  <2> QED
    BY <1>6, <1>7, <2>1
<1> QED
  BY <1>3, <1>5, <1>8 DEF LookedUpTo, n

(* loop_next_timer, as SleepInv needs it.                                  *)
LEMMA DeadlineIsRight ==
    ASSUME ListsAgree, TimesInv
    PROVE  /\ Deadline \in Nat \cup {Forever}
           /\ OnWheel # {} =>
                /\ Deadline # Forever
                /\ Deadline <= Min(OnWheel) \/ (Crowded /\ Deadline = (wheel_tick + 1) * Tick)
           /\ Deadline # Forever =>
                Deadline >= (wheel_tick + 1) * Tick
                    \/ \E t \in InState("wheel") : tick[t] <= Deadline
<1> DEFINE W == InState("wheel")
           q(t) == tick[t] \div Tick
           B == (wheel_tick + 1) * Tick
<1>1. /\ TimersTypeOK /\ Tick \in Nat \ {0} /\ Slots \in Nat \ {0} /\ wheel_tick \in Nat
      /\ IsFiniteSet(W) /\ W \subseteq Timers
      /\ timed_count = Cardinality(W) /\ timed_count \in Nat /\ B \in Nat
  BY Basics DEF ListsAgree, TimersTypeOK, InState
<1>2. \A t \in W : /\ tick[t] \in Nat /\ q(t) \in Nat /\ q(t) >= wheel_tick
                   /\ q(t) * Tick <= tick[t] /\ tick[t] < (q(t) + 1) * Tick
  BY <1>1, Basics, TickOf DEF InState, TimesInv
<1>3. ASSUME NEW t \in W, q(t) \in Scanned PROVE OwnTurn(q(t)) # {}
  <2>1. Slot(tick[t]) = q(t) % Slots /\ q(t) \in Nat
    BY <1>2 DEF Slot
  <2>2. PICK i \in DOMAIN Ring(q(t)) : Ring(q(t))[i] = t
    BY <2>1, RingHolds
  <2> QED
    BY <2>2 DEF OwnTurn
<1>4. Scanned \in SUBSET Nat /\ \A s \in Scanned : s >= wheel_tick /\ s <= wheel_tick + Slots
  BY <1>1 DEF Scanned
<1>5. CASE timed_count = 0
  <2>1. W = {}
    BY <1>1, <1>5, FS_EmptySet
  <2>2. Deadline = Forever
    BY <1>5 DEF Deadline, NextTimer
  <2> QED
    BY <2>1, <2>2 DEF OnWheel
<1>6. CASE timed_count # 0
  <2>1. W # {}
    BY <1>1, <1>6, FS_EmptySet
  <2>2. OnWheel \in SUBSET Nat /\ OnWheel # {}
    BY <1>2, <2>1 DEF OnWheel
  <2>3. PICK f \in W : tick[f] = Min(OnWheel)
    BY <2>2, LeastOf DEF OnWheel
  <2> DEFINE D == Deadline
  <2>5. SUFFICES /\ D \in Nat
                 /\ D <= tick[f] \/ (Crowded /\ D = B)
                 /\ D >= B \/ \E t \in W : tick[t] <= D
    <3>1. ASSUME D \in Nat PROVE D # Forever
      BY <3>1 DEF Forever
    <3> QED
      BY <2>3, <3>1
  <2>6. CASE Stops = {}
    <3>1. D = Min(SlotsAfter) * Tick
      BY <1>6, <2>6 DEF Deadline, NextTimer
    <3>2. \A t \in W : q(t) \notin Scanned
      BY <1>3, <2>6 DEF Stops
    <3>3. q(f) \in Nat /\ q(f) > wheel_tick + Slots
      BY <1>1, <1>2, <3>2 DEF Scanned
    <3>4. PICK s \in wheel_tick + 1 .. wheel_tick + Slots : s % Slots = q(f) % Slots
      <4>0. PICK x \in Nat : x = q(f)
        BY <3>3
      <4>1. PICK r : r = x % Slots
        OBVIOUS
      <4>2. r \in 0 .. Slots - 1
        BY <1>1, <4>1, ModSplit, x \in Int
      <4>3. r % Slots = r
        BY <1>1, <4>2
      <4>4. r \in Nat /\ wheel_tick + Slots \in Nat /\ r <= wheel_tick + Slots
            /\ wheel_tick + 1 \in Nat /\ wheel_tick + 1 <= (wheel_tick + Slots) - Slots + 1
        BY <1>1, <4>2
      <4>5. \E s \in wheel_tick + 1 .. wheel_tick + Slots : s % Slots = r % Slots
        BY <4>4, TurnVisitsAll
      <4> QED
        BY <4>0, <4>1, <4>3, <4>5
    <3>5. s \in SlotsAfter
      <4>1. s \in Scanned /\ s > wheel_tick /\ s \in Nat
        BY <1>1 DEF Scanned
      <4>2. Slot(tick[f]) = s % Slots
        BY <3>4 DEF Slot
      <4>3. PICK i \in DOMAIN Ring(s) : Ring(s)[i] = f
        BY <4>1, <4>2, RingHolds
      <4>4. Ring(s) # <<>>
        BY <4>3
      <4> QED
        BY <4>1, <4>4 DEF SlotsAfter
    <3>6. Min(SlotsAfter) \in SlotsAfter
      BY <1>4, <3>5, LeastOf DEF SlotsAfter
    <3>7. PICK m \in Nat : m = Min(SlotsAfter) /\ m >= wheel_tick + 1 /\ m <= q(f)
      <4>1. PICK m \in SlotsAfter : m = Min(SlotsAfter)
        BY <3>6
      <4>2. m \in Scanned /\ m > wheel_tick
        BY <4>1 DEF SlotsAfter
      <4>3. m \in Nat /\ m <= wheel_tick + Slots
        BY <1>4, <4>2
      <4> QED
        BY <1>1, <3>3, <4>1, <4>2, <4>3
    <3>8. D = m * Tick /\ D \in Nat
      BY <1>1, <3>1, <3>7
    <3>9. B <= m * Tick
      BY <1>1, <3>7
    <3>10. m * Tick <= tick[f]
      BY <1>1, <1>2, <3>7, TickAtLeast
    <3> QED
      BY <3>8, <3>9, <3>10
  <2>7. CASE Stops # {}
    <3>1. Min(Stops) \in Stops /\ \A k \in Stops : Min(Stops) <= k
      BY <1>4, <2>7, LeastOf DEF Stops
    <3>2. PICK s \in Scanned : s = Min(Stops)
      BY <3>1 DEF Stops
    <3>3. s \in Nat /\ s >= wheel_tick
      BY <1>4
    <3>4. q(f) >= s
      <4>1. SUFFICES ASSUME q(f) < s PROVE FALSE
        BY <1>2, <3>3
      <4>2. q(f) \in Scanned
        BY <1>1, <1>2, <1>4, <4>1 DEF Scanned
      <4>3. q(f) \in Stops
        BY <1>3, <4>2 DEF Stops
      <4> QED
        BY <1>2, <3>1, <3>2, <3>3, <4>1, <4>3
    <3>5. CASE LookedUpTo(s) >= Look
      <4>1. D = (IF s > wheel_tick THEN s ELSE wheel_tick + 1) * Tick
        BY <1>6, <2>7, <3>2, <3>5 DEF Deadline, NextTimer
      <4>2. CASE s > wheel_tick
        <5>1. D = s * Tick /\ D \in Nat
          BY <1>1, <3>3, <4>1, <4>2
        <5>2. s * Tick <= tick[f]
          BY <1>1, <1>2, <3>3, <3>4, TickAtLeast
        <5>3. B <= s * Tick
          BY <1>1, <3>3, <4>2
        <5> QED
          BY <5>1, <5>2, <5>3
      <4>3. CASE ~(s > wheel_tick)
        <5>1. s = wheel_tick
          BY <1>1, <3>3, <4>3
        <5>2. Crowded
          BY <3>5, <5>1, LookedInFirst DEF Crowded
        <5> QED
          BY <1>1, <4>1, <4>3, <5>2
      <4> QED
        BY <4>2, <4>3
    <3>6. CASE ~(LookedUpTo(s) >= Look)
      <4> DEFINE T == {tick[Ring(s)[i]] : i \in OwnTurn(s)}
      <4>1. D = Min(T)
        BY <1>6, <2>7, <3>2, <3>6 DEF Deadline, NextTimer
      <4>2. OwnTurn(s) # {}
        BY <3>1, <3>2, <3>6 DEF Stops
      <4>3. \A i \in OwnTurn(s) : Ring(s)[i] \in W /\ q(Ring(s)[i]) = s
        BY <3>3, RingHolds DEF OwnTurn
      <4>4. T \in SUBSET Nat /\ T # {}
        BY <1>2, <4>2, <4>3
      <4>5. Min(T) \in T /\ \A k \in T : Min(T) <= k
        BY <4>4, LeastOf
      <4> HIDE DEF D
      <4>6. PICK i \in OwnTurn(s) : D = tick[Ring(s)[i]]
        BY <4>1, <4>5
      <4>7. PICK g \in W : D = tick[g] /\ q(g) = s
        BY <4>3, <4>6
      <4>8. D <= tick[f]
        <5>1. CASE q(f) = s
          <6>1. Slot(tick[f]) = s % Slots
            BY <5>1 DEF Slot
          <6>2. PICK j \in DOMAIN Ring(s) : Ring(s)[j] = f
            BY <3>3, <6>1, RingHolds
          <6>3. j \in OwnTurn(s)
            BY <5>1, <6>2 DEF OwnTurn
          <6>4. tick[f] \in T
            BY <6>2, <6>3
          <6> QED
            BY <4>1, <4>5, <6>4
        <5>2. CASE q(f) # s
          <6>1. s + 1 <= q(f) /\ q(f) \in Nat
            BY <1>2, <3>3, <3>4, <5>2
          <6>2. (s + 1) * Tick <= tick[f]
            <7>1. PICK n \in Nat : n = s + 1
              BY <3>3
            <7>2. n * Tick <= tick[f]
              BY <1>1, <1>2, <6>1, <7>1, TickAtLeast
            <7> QED
              BY <7>1, <7>2
          <6>3. tick[g] < (s + 1) * Tick
            BY <1>2, <4>7
          <6> QED
            BY <1>1, <1>2, <3>3, <4>7, <6>2, <6>3
        <5> QED
          BY <5>1, <5>2
      <4>9. D \in Nat /\ \E t \in W : tick[t] <= D
        BY <1>2, <4>7
      <4> QED
        BY <4>8, <4>9 DEF D
    <3> QED
      BY <3>5, <3>6
  <2> QED
    BY <2>6, <2>7
<1> QED
  BY <1>5, <1>6

---------------------------------------------------------------------------
(* What each step keeps.                                                   *)

(* A slot is as crowded as it was while its timers are.                    *)
LEMMA CrowdedFrame ==
    ASSUME UNCHANGED <<wheel, tick, wheel_tick>>
    PROVE  Crowded' = Crowded
<1>1. Ring(wheel_tick)' = Ring(wheel_tick)
  BY DEF Ring
<1>2. OwnTurn(wheel_tick)' = OwnTurn(wheel_tick)
  BY <1>1 DEF OwnTurn
<1>3. PassedOver(wheel_tick)' = PassedOver(wheel_tick)
  BY <1>1, <1>2 DEF PassedOver
<1> QED
  BY <1>3 DEF Crowded

LEMMA TimePassesKeeps ==
    ASSUME TimerInv, TimePasses
    PROVE  TimerInv'
<1>1. TimersTypeOK /\ ListsAgree /\ TimesInv /\ SleepInv
  BY DEF TimerInv, ListsAgree
<1>2. /\ now' = now + 1 /\ stage # "move"
      /\ UNCHANGED <<wheel, due, state, tick, wheel_tick, timed_count>>
      /\ UNCHANGED <<stage, visit, until, early, asked>>
  BY DEF TimePasses, wheelVars
<1>3. TimersTypeOK' /\ now' \in Nat /\ now <= now'
  BY <1>1, <1>2 DEF TimersTypeOK
<1>4. ListsAgree' /\ TimesInv'
  BY <1>1, <1>2, <1>3, ListsFrame, TimesFrame
<1>5. MoveInv'
  BY <1>2 DEF MoveInv
<1>6. SleepInv'
  BY <1>1, <1>2, CrowdedFrame DEF SleepInv, OnWheel, InState
<1> QED
  BY <1>4, <1>5, <1>6 DEF TimerInv

LEMMA SleepKeeps ==
    ASSUME TimerInv, Sleep
    PROVE  TimerInv'
<1>1. TimersTypeOK /\ ListsAgree /\ TimesInv
  BY DEF TimerInv, ListsAgree
<1>2. /\ until' = Deadline /\ stage' = "asleep"
      /\ UNCHANGED <<wheel, due, state, tick, wheel_tick, timed_count>>
      /\ UNCHANGED <<now, visit, early, asked>>
  BY DEF Sleep, wheelVars
<1>3. /\ Deadline \in Nat \cup {Forever}
      /\ OnWheel # {} =>
            /\ Deadline # Forever
            /\ Deadline <= Min(OnWheel) \/ (Crowded /\ Deadline = (wheel_tick + 1) * Tick)
      /\ Deadline # Forever =>
            Deadline >= (wheel_tick + 1) * Tick
                \/ \E t \in InState("wheel") : tick[t] <= Deadline
  BY <1>1, DeadlineIsRight
<1>4. TimersTypeOK' /\ now' \in Nat /\ now <= now'
  BY <1>1, <1>2, <1>3 DEF TimersTypeOK
<1>5. ListsAgree' /\ TimesInv'
  BY <1>1, <1>2, <1>4, ListsFrame, TimesFrame
<1>6. MoveInv'
  BY <1>2 DEF MoveInv
<1>7. OnWheel' = OnWheel /\ InState("wheel")' = InState("wheel")
  BY <1>2 DEF OnWheel, InState
<1>8. SleepInv'
  BY <1>2, <1>3, <1>7, CrowdedFrame DEF SleepInv
<1> QED
  BY <1>5, <1>6, <1>8 DEF TimerInv

(* The steps that only say where the loop's thread is.                     *)
LEMMA PhaseKeeps ==
    ASSUME TimerInv, UNCHANGED <<now, wheelVars, visit, early, asked>>,
           until' \in Nat \cup {Forever}, stage' \in {"app", "woken", "fire"}
    PROVE  TimerInv'
<1>1. TimersTypeOK /\ ListsAgree /\ TimesInv
  BY DEF TimerInv, ListsAgree
<1>2. /\ UNCHANGED <<wheel, due, state, tick, wheel_tick, timed_count>>
      /\ UNCHANGED <<now, visit, early, asked>>
  BY DEF wheelVars
<1>3. TimersTypeOK' /\ now' \in Nat /\ now <= now'
  BY <1>1, <1>2 DEF TimersTypeOK
<1>4. ListsAgree' /\ TimesInv'
  BY <1>1, <1>2, <1>3, ListsFrame, TimesFrame
<1>5. MoveInv' /\ SleepInv'
  BY DEF MoveInv, SleepInv
<1> QED
  BY <1>4, <1>5 DEF TimerInv

LEMMA WakesKeep ==
    ASSUME TimerInv, WakeAtDeadline \/ WakeForEvent \/ RoundEnds
    PROVE  TimerInv'
<1>1. until \in Nat \cup {Forever}
  BY DEF TimerInv, ListsAgree, TimersTypeOK
<1>2. UNCHANGED <<now, wheelVars, visit, early, asked>>
  BY DEF WakeAtDeadline, WakeForEvent, RoundEnds
<1>3. until' \in Nat \cup {Forever} /\ stage' \in {"app", "woken", "fire"}
  BY <1>1 DEF WakeAtDeadline, WakeForEvent, RoundEnds
<1> QED
  BY <1>2, <1>3, PhaseKeeps

LEMMA AdvanceBeginsKeeps ==
    ASSUME TimerInv, AdvanceBegins
    PROVE  TimerInv'
<1>1. TimersTypeOK /\ ListsAgree /\ TimesInv
  BY DEF TimerInv, ListsAgree
<1>2. /\ stage' = "move" /\ visit' = From
      /\ UNCHANGED <<wheel, due, state, tick, wheel_tick, timed_count>>
      /\ UNCHANGED <<now, until, early, asked>>
  BY DEF AdvanceBegins, wheelVars
<1>3. From \in Nat /\ From' = From
  BY <1>1, <1>2, Targets DEF From, VisitFrom, Target
<1>4. TimersTypeOK' /\ now' \in Nat /\ now <= now'
  BY <1>1, <1>2, <1>3 DEF TimersTypeOK
<1>5. ListsAgree' /\ TimesInv'
  BY <1>1, <1>2, <1>4, ListsFrame, TimesFrame
<1>6. SleepInv'
  BY <1>2 DEF SleepInv
<1>7. MoveInv'
  <2>1. From .. From - 1 = {}
    BY <1>3
  <2>2. visit' >= From'
    BY <1>2, <1>3
  <2>3. From' .. visit' - 1 = {}
    BY <1>2, <1>3, <2>1
  <2> QED
    BY <2>2, <2>3 DEF MoveInv
<1> QED
  BY <1>5, <1>6, <1>7 DEF TimerInv

LEMMA NextSlotKeeps ==
    ASSUME TimerInv, NextSlot
    PROVE  TimerInv'
<1>1. TimersTypeOK /\ ListsAgree /\ TimesInv /\ MoveInv
  BY DEF TimerInv, ListsAgree
<1>2. /\ stage = "move" /\ stage' = "move" /\ visit' = visit + 1
      /\ \A i \in DOMAIN Ring(visit) : ~IsDue(Ring(visit)[i])
      /\ UNCHANGED <<wheel, due, state, tick, wheel_tick, timed_count>>
      /\ UNCHANGED <<now, until, early, asked>>
  BY DEF NextSlot, wheelVars
<1>3. From \in Nat /\ From' = From /\ visit \in Nat
  BY <1>1, <1>2, Targets DEF From, VisitFrom, Target, TimersTypeOK
<1>4. TimersTypeOK' /\ now' \in Nat /\ now <= now'
  BY <1>1, <1>2, <1>3 DEF TimersTypeOK
<1>5. ListsAgree' /\ TimesInv'
  BY <1>1, <1>2, <1>4, ListsFrame, TimesFrame
<1>6. SleepInv'
  BY <1>2 DEF SleepInv
<1>7. visit >= From /\ \A t \in InState("wheel") : IsDue(t) =>
            \A s \in From .. visit - 1 : s % Slots # Slot(tick[t])
  BY <1>1, <1>2 DEF MoveInv
<1>8. ASSUME NEW t \in InState("wheel"), IsDue(t), NEW s \in From .. visit
      PROVE  s % Slots # Slot(tick[t])
  <2>1. CASE s = visit
    <3>1. SUFFICES ASSUME Slot(tick[t]) = visit % Slots PROVE FALSE
      BY <2>1
    <3>2. PICK i \in DOMAIN Ring(visit) : Ring(visit)[i] = t
      BY <1>1, <1>3, <3>1, RingHolds
    <3> QED
      BY <1>2, <1>8, <3>2
  <2>2. CASE s # visit
    <3>1. s \in From .. visit - 1
      BY <1>3, <2>2
    <3> QED
      BY <1>7, <1>8, <3>1
  <2> QED
    BY <2>1, <2>2
<1>9. MoveInv'
  <2>1. visit' >= From' /\ visit' - 1 = visit
    BY <1>2, <1>3, <1>7
  <2>2. InState("wheel")' = InState("wheel") /\ \A t \in Timers : IsDue(t)' <=> IsDue(t)
    BY <1>2 DEF InState, IsDue
  <2>3. InState("wheel") \subseteq Timers
    BY DEF InState
  <2>4. \A t \in Timers : Slot(tick[t])' = Slot(tick[t])
    BY <1>2 DEF Slot
  <2> QED
    BY <1>2, <1>3, <1>8, <2>1, <2>2, <2>3, <2>4 DEF MoveInv
<1> QED
  BY <1>5, <1>6, <1>9 DEF TimerInv

(* The slots up to Target are walked: what is left is of a later tick.     *)
LEMMA AdvanceEndsKeeps ==
    ASSUME TimerInv, AdvanceEnds
    PROVE  TimerInv'
<1>1. TimersTypeOK /\ ListsAgree /\ TimesInv /\ MoveInv
  BY DEF TimerInv, ListsAgree
<1>2. /\ stage = "move" /\ stage' = "fire" /\ visit' = 0 /\ wheel_tick' = Target
      /\ visit > Target \/ timed_count = 0
      /\ UNCHANGED <<wheel, due, state, tick, timed_count>>
      /\ UNCHANGED <<now, until, early, asked>>
  BY DEF AdvanceEnds
<1>3. /\ Target \in Nat /\ Target >= wheel_tick
      /\ Target > wheel_tick => Target = now \div Tick
      /\ From \in Nat /\ From <= Target
      /\ From = wheel_tick \/ From = Target - Slots + 1
  BY <1>1, Targets
<1>4. TimersTypeOK'
  BY <1>1, <1>2, <1>3 DEF TimersTypeOK
<1>5. ListsAgree'
  BY <1>1, <1>2, <1>4, ListsFrame
<1>6. MoveInv' /\ SleepInv'
  BY <1>2 DEF MoveInv, SleepInv
<1>7. ASSUME NEW t \in Timers, state[t] = "wheel" PROVE tick[t] \div Tick >= Target
  <2> DEFINE q == tick[t] \div Tick
  <2>1. /\ Tick \in Nat \ {0} /\ Slots \in Nat \ {0} /\ tick[t] \in Nat /\ q \in Nat
        /\ now \in Nat /\ wheel_tick \in Nat /\ visit \in Nat
    BY <1>1, Basics DEF TimersTypeOK
  <2>2. q >= wheel_tick
    BY <1>1, <1>7 DEF TimesInv
  <2>3. tick[t] < (q + 1) * Tick
    BY <2>1, TickOf
  <2>4. SUFFICES ASSUME q < Target PROVE FALSE
    BY <1>3, <2>1
  <2>5. Slot(tick[t]) = q % Slots
    BY DEF Slot
  <2> HIDE DEF q
  <2>6. Target = now \div Tick
    BY <1>3, <2>1, <2>2, <2>4
  <2>7. IsDue(t)
    <3>1. PICK n \in Nat : n = q + 1
      BY <2>1
    <3>2. n <= now \div Tick
      BY <1>3, <2>1, <2>4, <2>6, <3>1
    <3>3. n * Tick <= now
      BY <2>1, <3>2, TickAtLeast
    <3>4. tick[t] <= now
      BY <2>1, <2>3, <3>1, <3>3
    <3> QED
      BY <3>4 DEF IsDue
  <2>8. t \in InState("wheel")
    BY <1>7 DEF InState
  <2>9. visit > Target
    <3>1. timed_count # 0
      BY <1>1, <2>8, Basics, FS_EmptySet DEF ListsAgree
    <3> QED
      BY <1>2, <3>1
  <2>10. \E s \in From .. Target : s % Slots = q % Slots
    <3>1. CASE From = wheel_tick
      <4>1. q \in From .. Target
        BY <1>3, <2>1, <2>2, <2>4, <3>1
      <4> QED
        BY <4>1, Zenon
    <3>2. CASE From # wheel_tick
      <4>1. From <= Target - Slots + 1 /\ q <= Target
        BY <1>3, <2>1, <2>4, <3>2
      <4> QED
        BY <1>3, <2>1, <4>1, TurnVisitsAll
    <3> QED
      BY <3>1, <3>2
  <2>11. PICK s \in From .. Target : s % Slots = q % Slots
    BY <2>10
  <2>12. s \in From .. visit - 1
    BY <1>3, <2>1, <2>9
  <2> QED
    BY <1>1, <1>2, <2>5, <2>7, <2>8, <2>11, <2>12 DEF MoveInv
<1>8. TimesInv'
  BY <1>1, <1>2, <1>7 DEF TimesInv
<1> QED
  BY <1>5, <1>6, <1>8 DEF TimerInv

(* A timer that changes its list.                                          *)
LEMMA StateMoves ==
    ASSUME TimersTypeOK, NEW t \in Timers, NEW l, state' = [state EXCEPT ![t] = l]
    PROVE  \A k : InState(k)' = IF k = l THEN InState(k) \cup {t} ELSE InState(k) \ {t}
<1>1. \A x \in Timers : state'[x] = IF x = t THEN l ELSE state[x]
  BY DEF TimersTypeOK
<1> QED
  BY <1>1 DEF InState

(* The head of the due list is fired: it is due, and none is due earlier.  *)
LEMMA FireKeeps ==
    ASSUME TimerInv, Fire
    PROVE  TimerInv'
<1> DEFINE t == Head(due)
<1>1. TimersTypeOK /\ ListsAgree /\ TimesInv
  BY DEF TimerInv, ListsAgree
<1>2. /\ stage = "fire" /\ due # <<>> /\ due' = Tail(due)
      /\ state' = [state EXCEPT ![t] = "idle"]
      /\ early' = (early \/ now < asked[t])
      /\ UNCHANGED <<now, wheel, tick, wheel_tick, timed_count, stage, visit, until, asked>>
  BY DEF Fire
<1>3. due \in Seq(Timers) /\ Holds(due, InState("due"))
  BY <1>1 DEF ListsAgree, TimersTypeOK
<1>4. 1 \in DOMAIN due /\ t = due[1] /\ t \in Timers
  BY <1>2, <1>3
<1>5. RemoveAt(due, 1) = Tail(due)
  <2>1. /\ RemoveAt(due, 1) \in Seq(Timers) /\ Len(RemoveAt(due, 1)) = Len(due) - 1
        /\ \A k \in 1 .. Len(due) - 1 :
              RemoveAt(due, 1)[k] = IF k < 1 THEN due[k] ELSE due[k + 1]
    BY <1>3, <1>4, RemoveAtIs
  <2>2. Tail(due) \in Seq(Timers) /\ Len(Tail(due)) = Len(due) - 1
        /\ \A k \in 1 .. Len(due) - 1 : Tail(due)[k] = due[k + 1]
    BY <1>2, <1>3
  <2>3. \A k \in 1 .. Len(due) - 1 : RemoveAt(due, 1)[k] = Tail(due)[k]
    BY <1>3, <2>1, <2>2
  <2> HIDE DEF t
  <2> QED
    BY <1>3, <2>1, <2>2, <2>3, SeqEqual
<1>6. t \in InState("due")
  BY <1>3, <1>4 DEF Holds, Range
<1> HIDE DEF t
<1>7. due' \in Seq(Timers) /\ Holds(due', InState("due") \ {t})
  <2>1. RemoveAt(due, 1) \in Seq(Timers) /\ Holds(RemoveAt(due, 1), InState("due") \ {due[1]})
    BY <1>3, <1>4, HoldsWithout
  <2> QED
    BY <1>2, <1>4, <1>5, <2>1, Zenon
<1>8. \A j, k \in DOMAIN due' : j < k => tick[due'[j]] <= tick[due'[k]]
  <2>1. LET r == RemoveAt(due, 1) IN
        \A j, k \in DOMAIN r : j < k => tick[r[j]] <= tick[r[k]]
    BY <1>1, <1>4, OrderWithout DEF TimesInv
  <2> QED
    BY <1>2, <1>5, <2>1
<1>9. /\ InState("due")' = InState("due") \ {t} /\ InState("wheel")' = InState("wheel") \ {t}
      /\ t \notin InState("wheel")
  <2>1. \A k : InState(k)' = IF k = "idle" THEN InState(k) \cup {t} ELSE InState(k) \ {t}
    BY <1>1, <1>2, <1>4, StateMoves
  <2>2. t \notin InState("wheel")
    BY <1>6 DEF InState
  <2> QED
    BY <2>1, <2>2
<1>10. ~early'
  <2>1. tick[t] >= asked[t] /\ tick[t] <= now
    BY <1>1, <1>4, <1>6 DEF TimesInv, InState
  <2>2. tick[t] \in Nat /\ asked[t] \in Nat /\ now \in Nat
    BY <1>1, <1>4 DEF TimersTypeOK
  <2>3. ~(now < asked[t])
    BY <2>1, <2>2
  <2> QED
    BY <1>1, <1>2, <2>3 DEF TimesInv
<1>11. state' \in [Timers -> {"idle", "wheel", "due"}]
       /\ \A x \in Timers : state'[x] = IF x = t THEN "idle" ELSE state[x]
  BY <1>1, <1>2, <1>4 DEF TimersTypeOK
<1>12. TimersTypeOK'
  BY <1>1, <1>2, <1>7, <1>10, <1>11 DEF TimersTypeOK
<1>13. ListsAgree'
  <2>1. InState("wheel")' = InState("wheel")
    BY <1>9
  <2>2. \A s \in SlotIds : InSlot(s)' = InSlot(s)
    BY <1>2, <2>1 DEF InSlot
  <2>3. Holds(due, InState("due"))'
    BY <1>7, <1>9 DEF Holds
  <2>4. \A s \in SlotIds : Holds(wheel[s], InSlot(s))'
    BY <1>1, <1>2, <2>2 DEF ListsAgree, Holds
  <2> QED
    BY <1>1, <1>2, <1>12, <2>1, <2>3, <2>4 DEF ListsAgree
<1>14. TimesInv'
  BY <1>1, <1>2, <1>8, <1>10, <1>11 DEF TimesInv
<1>15. MoveInv' /\ SleepInv'
  BY <1>2 DEF MoveInv, SleepInv
<1> QED
  BY <1>13, <1>14, <1>15 DEF TimerInv

(* Due timers in order, with one more put in where it belongs.             *)
LEMMA OrderInserted ==
    ASSUME TimersTypeOK, NEW t \in Timers, NEW p \in 1 .. Len(due) + 1,
           \A j, k \in DOMAIN due : j < k => tick[due[j]] <= tick[due[k]],
           \A j \in DOMAIN due : j < p => tick[due[j]] <= tick[t],
           \A j \in DOMAIN due : j >= p => tick[t] <= tick[due[j]]
    PROVE  LET r == InsertAt(due, p, t) IN
           \A j, k \in DOMAIN r : j < k => tick[r[j]] <= tick[r[k]]
<1> DEFINE r == InsertAt(due, p, t)
<1>1. /\ Len(due) \in Nat /\ DOMAIN due = 1 .. Len(due) /\ due \in Seq(Timers)
      /\ p \in 1 .. Len(due) + 1
  BY DEF TimersTypeOK
<1>2. /\ r \in Seq(Timers) /\ Len(r) = Len(due) + 1
      /\ \A k \in 1 .. Len(due) + 1 :
            r[k] = IF k < p THEN due[k] ELSE IF k = p THEN t ELSE due[k - 1]
  BY SMTT(20), <1>1, InsertAtIs
<1> HIDE DEF r
<1>3. ASSUME NEW j \in DOMAIN r, NEW k \in DOMAIN r, j < k PROVE tick[r[j]] <= tick[r[k]]
  <2>1. j \in 1 .. Len(due) + 1 /\ k \in 1 .. Len(due) + 1
    BY <1>1, <1>2
  <2>2. /\ r[j] = IF j < p THEN due[j] ELSE IF j = p THEN t ELSE due[j - 1]
        /\ r[k] = IF k < p THEN due[k] ELSE IF k = p THEN t ELSE due[k - 1]
    BY <1>2, <2>1
  <2>3. CASE k < p
    <3>1. j \in DOMAIN due /\ k \in DOMAIN due /\ j < p
      BY <1>1, <1>3, <2>1, <2>3
    <3> QED
      BY <1>3, <2>2, <2>3, <3>1
  <2>4. CASE k = p
    <3>1. j \in DOMAIN due /\ j < p
      BY <1>1, <1>3, <2>1, <2>4
    <3> QED
      BY <1>1, <2>1, <2>2, <2>4, <3>1
  <2>5. CASE k > p /\ j < p
    <3>1. j \in DOMAIN due /\ k - 1 \in DOMAIN due /\ j < k - 1
      BY <1>1, <1>3, <2>1, <2>5
    <3>2. r[j] = due[j] /\ r[k] = due[k - 1]
      BY <1>1, <2>1, <2>2, <2>5
    <3> QED
      BY <3>1, <3>2
  <2>6. CASE k > p /\ j = p
    <3>1. k - 1 \in DOMAIN due /\ k - 1 >= p
      BY <1>1, <1>3, <2>1, <2>6
    <3>2. r[j] = t /\ r[k] = due[k - 1]
      BY <1>1, <2>1, <2>2, <2>6
    <3> QED
      BY <3>1, <3>2
  <2>7. CASE k > p /\ j > p
    <3>1. j - 1 \in DOMAIN due /\ k - 1 \in DOMAIN due /\ j - 1 < k - 1
      BY <1>1, <1>3, <2>1, <2>7
    <3>2. r[j] = due[j - 1] /\ r[k] = due[k - 1]
      BY <1>1, <2>1, <2>2, <2>7
    <3> QED
      BY <3>1, <3>2
  <2> QED
    BY <1>1, <2>1, <2>3, <2>4, <2>5, <2>6, <2>7
<1> QED
  BY <1>3 DEF r

(* A due timer goes from the slot visited to its place on the due list.    *)
LEMMA MoveKeeps ==
    ASSUME TimerInv, Move
    PROVE  TimerInv'
<1>1. TimersTypeOK /\ ListsAgree /\ TimesInv /\ MoveInv
  BY DEF TimerInv, ListsAgree
<1>2. /\ stage = "move" /\ timed_count' = timed_count - 1
      /\ UNCHANGED <<now, tick, wheel_tick, stage, visit, until, early, asked>>
  BY DEF Move
<1> DEFINE c == visit % Slots
<1>3. PICK i \in DOMAIN Ring(visit) :
        /\ FirstDue(i)
        /\ wheel' = [wheel EXCEPT ![c] = RemoveAt(@, i)]
        /\ due' = InsertDue(due, Ring(visit)[i])
        /\ state' = [state EXCEPT ![Ring(visit)[i]] = "due"]
  BY DEF Move
<1>4. PICK t : t = Ring(visit)[i]
  OBVIOUS
<1>5. visit \in Nat /\ c \in SlotIds
  BY <1>1, SlotIn DEF TimersTypeOK
<1>6. /\ wheel \in [SlotIds -> Seq(Timers)] /\ due \in Seq(Timers)
      /\ \A s \in SlotIds : Holds(wheel[s], InSlot(s))
      /\ Holds(due, InState("due"))
  BY <1>1 DEF TimersTypeOK, ListsAgree
<1>7. i \in DOMAIN wheel[c] /\ t = wheel[c][i]
  BY <1>3, <1>4 DEF Ring
<1>8. t \in InSlot(c)
  BY <1>5, <1>6, <1>7 DEF Holds, Range
<1>9. /\ t \in Timers /\ t \in InState("wheel") /\ t \notin InState("due")
      /\ \A s \in SlotIds : s # c => t \notin InSlot(s)
  BY <1>8 DEF InSlot, InState
<1>10. IsDue(t)
  BY <1>3, <1>4 DEF FirstDue
<1> HIDE DEF c
<1>11. /\ wheel' \in [SlotIds -> Seq(Timers)]
       /\ \A s \in SlotIds : Holds(wheel'[s], InSlot(s) \ {t})
  <2>1. PICK w : w = RemoveAt(wheel[c], i)
    OBVIOUS
  <2>2. wheel[c] \in Seq(Timers) /\ Holds(wheel[c], InSlot(c))
    BY <1>5, <1>6
  <2>3. w \in Seq(Timers) /\ Holds(w, InSlot(c) \ {t})
    BY <1>7, <2>1, <2>2, HoldsWithout
  <2>4. \A s \in SlotIds : s # c => InSlot(s) \ {t} = InSlot(s)
    BY <1>9
  <2>5. wheel' = [wheel EXCEPT ![c] = w]
    BY <1>3, <2>1
  <2> QED
    BY <1>5, <1>6, <2>3, <2>4, <2>5
<1>12. PICK p \in 1 .. Len(due) + 1 :
         /\ InsertDue(due, t) = InsertAt(due, p, t)
         /\ \A j \in DOMAIN due : j < p => tick[due[j]] <= tick[t]
         /\ \A j \in DOMAIN due : j >= p => tick[t] <= tick[due[j]]
  BY <1>1, <1>9, InsertKeepsOrder DEF TimesInv
<1>13. due' = InsertAt(due, p, t)
  BY <1>3, <1>4, <1>12
<1>14. due' \in Seq(Timers) /\ Holds(due', InState("due") \cup {t})
  <2>1. InsertAt(due, p, t) \in Seq(Timers) /\ Holds(InsertAt(due, p, t), InState("due") \cup {t})
    BY <1>6, <1>9, HoldsInserted
  <2> QED
    BY <1>13, <2>1, Zenon
<1>15. \A j, k \in DOMAIN due' : j < k => tick[due'[j]] <= tick[due'[k]]
  <2>1. LET r == InsertAt(due, p, t) IN
        \A j, k \in DOMAIN r : j < k => tick[r[j]] <= tick[r[k]]
    BY <1>1, <1>9, <1>12, OrderInserted DEF TimesInv
  <2> QED
    BY <1>13, <2>1
<1>16. state' = [state EXCEPT ![t] = "due"]
  BY <1>3, <1>4
<1>17. /\ state' \in [Timers -> {"idle", "wheel", "due"}]
       /\ \A x \in Timers : state'[x] = IF x = t THEN "due" ELSE state[x]
  BY <1>1, <1>9, <1>16 DEF TimersTypeOK
<1>18. InState("wheel")' = InState("wheel") \ {t} /\ InState("due")' = InState("due") \cup {t}
  <2>1. \A k : InState(k)' = IF k = "due" THEN InState(k) \cup {t} ELSE InState(k) \ {t}
    BY <1>1, <1>9, <1>16, StateMoves
  <2> QED
    BY <2>1
<1>19. timed_count' \in Nat /\ timed_count' = Cardinality(InState("wheel")')
  <2>1. IsFiniteSet(InState("wheel")) /\ timed_count = Cardinality(InState("wheel"))
    BY <1>1, Basics DEF ListsAgree
  <2>2. Cardinality(InState("wheel") \ {t}) = Cardinality(InState("wheel")) - 1
    BY <1>9, <2>1, FS_RemoveElement
  <2>3. Cardinality(InState("wheel") \ {t}) \in Nat
    BY <1>9, <2>1, FS_RemoveElement, FS_CardinalityType
  <2> QED
    BY <1>2, <1>18, <2>1, <2>2, <2>3
<1>20. TimersTypeOK'
  BY <1>1, <1>2, <1>11, <1>14, <1>17, <1>19 DEF TimersTypeOK
<1>21. ListsAgree'
  <2>1. \A s \in SlotIds : InSlot(s)' = InSlot(s) \ {t}
    BY <1>2, <1>18 DEF InSlot
  <2>2. \A s \in SlotIds : Holds(wheel[s], InSlot(s))'
    BY <1>11, <2>1 DEF Holds
  <2>3. Holds(due, InState("due"))'
    BY <1>14, <1>18 DEF Holds
  <2> QED
    BY <1>19, <1>20, <2>2, <2>3 DEF ListsAgree
<1>22. TimesInv'
  <2>1. state[t] = "wheel" /\ tick[t] <= now
    BY <1>9, <1>10 DEF InState, IsDue
  <2> QED
    BY <1>1, <1>2, <1>15, <1>17, <2>1 DEF TimesInv
<1>23. MoveInv' /\ SleepInv'
  <2>1. From' = From
    BY <1>2 DEF From, VisitFrom, Target
  <2>2. \A x \in Timers : (IsDue(x)' <=> IsDue(x)) /\ Slot(tick[x])' = Slot(tick[x])
    BY <1>2 DEF IsDue, Slot
  <2>3. InState("wheel")' \subseteq InState("wheel") /\ InState("wheel") \subseteq Timers
    BY <1>18 DEF InState
  <2>4. visit >= From /\ \A x \in InState("wheel") : IsDue(x) =>
            \A s \in From .. visit - 1 : s % Slots # Slot(tick[x])
    BY <1>1, <1>2 DEF MoveInv
  <2> QED
    BY <1>2, <2>1, <2>2, <2>3, <2>4 DEF MoveInv, SleepInv
<1> QED
  BY <1>21, <1>22, <1>23 DEF TimerInv

LEMMA TimerCancelKeeps ==
    ASSUME TimerInv, NEW t \in Timers, TimerCancel(t)
    PROVE  TimerInv'
<1> DEFINE u == Unlinked(t)
<1>1. TimersTypeOK /\ ListsAgree /\ TimesInv
  BY DEF TimerInv, ListsAgree
<1>2. /\ stage \in {"app", "woken", "fire"} /\ state[t] # "idle"
      /\ wheel' = u.wheel /\ due' = u.due /\ timed_count' = u.count
      /\ state' = [state EXCEPT ![t] = "idle"]
      /\ UNCHANGED <<now, tick, wheel_tick, stage, visit, until, early, asked>>
  BY DEF TimerCancel, InCallback
<1>3. /\ u.wheel \in [SlotIds -> Seq(Timers)]
      /\ \A s \in SlotIds : Holds(u.wheel[s], InSlot(s) \ {t})
      /\ u.due \in Seq(Timers) /\ Holds(u.due, InState("due") \ {t})
      /\ \A i, j \in DOMAIN u.due : i < j => tick[u.due[i]] <= tick[u.due[j]]
      /\ u.count \in Nat /\ u.count = Cardinality(InState("wheel") \ {t})
  BY <1>1, Unlinking DEF TimesInv
<1> HIDE DEF u
<1>4. /\ state' \in [Timers -> {"idle", "wheel", "due"}]
      /\ \A x \in Timers : state'[x] = IF x = t THEN "idle" ELSE state[x]
  BY <1>1, <1>2 DEF TimersTypeOK
<1>5. InState("wheel")' = InState("wheel") \ {t} /\ InState("due")' = InState("due") \ {t}
  <2>1. \A k : InState(k)' = IF k = "idle" THEN InState(k) \cup {t} ELSE InState(k) \ {t}
    BY <1>1, <1>2, StateMoves
  <2> QED
    BY <2>1
<1>6. TimersTypeOK'
  BY <1>1, <1>2, <1>3, <1>4 DEF TimersTypeOK
<1>7. ListsAgree'
  <2>1. \A s \in SlotIds : InSlot(s)' = InSlot(s) \ {t}
    BY <1>2, <1>5 DEF InSlot
  <2>2. \A s \in SlotIds : Holds(wheel[s], InSlot(s))'
    BY <1>2, <1>3, <2>1 DEF Holds
  <2>3. Holds(due, InState("due"))'
    BY <1>2, <1>3, <1>5 DEF Holds
  <2> QED
    BY <1>2, <1>3, <1>5, <1>6, <2>2, <2>3 DEF ListsAgree
<1>8. TimesInv'
  <2>1. \A i, j \in DOMAIN due' : i < j => tick'[due'[i]] <= tick'[due'[j]]
    BY <1>2, <1>3
  <2> QED
    BY <1>1, <1>2, <1>4, <2>1 DEF TimesInv
<1>9. MoveInv' /\ SleepInv'
  BY <1>2 DEF MoveInv, SleepInv
<1> QED
  BY <1>7, <1>8, <1>9 DEF TimerInv

(* The time a timer is given: no earlier than asked, and never in a tick   *)
(* the wheel has passed.                                                   *)
LEMMA DueTimeIsRight ==
    ASSUME TimersTypeOK, NEW delay \in Nat
    PROVE  /\ DueTime(delay) \in Nat
           /\ DueTime(delay) >= now + delay
           /\ DueTime(delay) \div Tick >= wheel_tick
           /\ Slot(DueTime(delay)) \in SlotIds
<1>1. /\ Tick \in Nat \ {0} /\ now \in Nat /\ wheel_tick \in Nat /\ now + delay \in Nat
  BY Basics
<1>2. PICK x \in Nat : x = now + delay
  BY <1>1
<1>3. PICK w \in Nat : w = wheel_tick * Tick
  BY <1>1
<1>4. DueTime(delay) = IF x \div Tick < wheel_tick THEN w ELSE x
  BY <1>2, <1>3 DEF DueTime
<1>5. x \div Tick \in Nat /\ (x \div Tick < wheel_tick => x <= w)
  <2>1. x \div Tick \in Nat /\ x < (x \div Tick + 1) * Tick
    BY <1>1, TickOf
  <2>2. wheel_tick <= x \div Tick <=> wheel_tick * Tick <= x
    BY <1>1, TickAtLeast
  <2> QED
    BY <1>1, <1>3, <2>1, <2>2
<1>6. w \div Tick >= wheel_tick
  <2>1. wheel_tick <= w \div Tick <=> wheel_tick * Tick <= w
    BY <1>1, TickAtLeast
  <2>2. w \div Tick \in Nat
    BY <1>1, TickOf
  <2> QED
    BY <1>1, <1>3, <2>1, <2>2
<1>7. PICK d \in Nat : d = DueTime(delay) /\ d >= x /\ d \div Tick >= wheel_tick
  <2>1. CASE x \div Tick < wheel_tick
    BY <1>4, <1>5, <1>6, <2>1
  <2>2. CASE ~(x \div Tick < wheel_tick)
    BY <1>1, <1>4, <1>5, <2>2
  <2> QED
    BY <2>1, <2>2
<1>8. Slot(d) \in SlotIds
  <2>1. PICK n \in Nat : n = d \div Tick
    BY <1>1, TickOf
  <2>2. n % Slots \in SlotIds
    BY SlotIn
  <2> QED
    BY <2>1, <2>2 DEF Slot
<1> QED
  BY <1>2, <1>7, <1>8

LEMMA TimerSetKeeps ==
    ASSUME TimerInv, NEW t \in Timers, NEW delay \in Delays, TimerSet(t, delay)
    PROVE  TimerInv'
<1> DEFINE u == Unlinked(t)
<1>1. TimersTypeOK /\ ListsAgree /\ TimesInv
  BY DEF TimerInv, ListsAgree
<1>2. PICK d : d = DueTime(delay)
  OBVIOUS
<1>3. PICK c : c = Slot(d)
  OBVIOUS
<1>4. delay \in Nat /\ now \in Nat /\ now + delay \in Nat
  BY <1>1, TimerAssumption DEF TimersTypeOK
<1>5. d \in Nat /\ d >= now + delay /\ d \div Tick >= wheel_tick /\ c \in SlotIds
  BY <1>1, <1>2, <1>3, <1>4, DueTimeIsRight
<1>6. /\ stage \in {"app", "woken", "fire"}
      /\ wheel' = [u.wheel EXCEPT ![c] = <<t>> \o @]
      /\ due' = u.due /\ timed_count' = u.count + 1
      /\ tick' = [tick EXCEPT ![t] = d]
      /\ state' = [state EXCEPT ![t] = "wheel"]
      /\ asked' = [asked EXCEPT ![t] = now + delay]
      /\ UNCHANGED <<now, wheel_tick, stage, visit, until, early>>
  BY <1>2, <1>3 DEF TimerSet, InCallback
<1>7. /\ u.wheel \in [SlotIds -> Seq(Timers)]
      /\ \A s \in SlotIds : Holds(u.wheel[s], InSlot(s) \ {t})
      /\ u.due \in Seq(Timers) /\ Holds(u.due, InState("due") \ {t})
      /\ \A i, j \in DOMAIN u.due : i < j => tick[u.due[i]] <= tick[u.due[j]]
      /\ u.count \in Nat /\ u.count = Cardinality(InState("wheel") \ {t})
  BY <1>1, Unlinking DEF TimesInv
<1> HIDE DEF u
<1>8. /\ state' \in [Timers -> {"idle", "wheel", "due"}]
      /\ tick' \in [Timers -> Nat] /\ asked' \in [Timers -> Nat]
  BY <1>1, <1>4, <1>5, <1>6 DEF TimersTypeOK
<1>9. \A x \in Timers : /\ state'[x] = IF x = t THEN "wheel" ELSE state[x]
                        /\ tick'[x] = IF x = t THEN d ELSE tick[x]
                        /\ asked'[x] = IF x = t THEN now + delay ELSE asked[x]
  BY <1>1, <1>6 DEF TimersTypeOK
<1>10. InState("wheel")' = InState("wheel") \cup {t} /\ InState("due")' = InState("due") \ {t}
  <2>1. \A k : InState(k)' = IF k = "wheel" THEN InState(k) \cup {t} ELSE InState(k) \ {t}
    BY <1>1, <1>6, StateMoves
  <2> QED
    BY <2>1
<1>11. \A s \in SlotIds :
          InSlot(s)' = IF s = c THEN (InSlot(s) \ {t}) \cup {t} ELSE InSlot(s) \ {t}
  <2>1. \A s \in SlotIds : InSlot(s)' = {x \in InState("wheel") \cup {t} : Slot(tick'[x]) = s}
    BY <1>10 DEF InSlot, Slot
  <2>2. Slot(tick'[t]) = c
    BY <1>3, <1>9
  <2>3. \A x \in InState("wheel") : x \in Timers
    BY DEF InState
  <2>4. \A x \in InState("wheel") : x # t => Slot(tick'[x]) = Slot(tick[x])
    BY <1>9, <2>3
  <2>5. \A s \in SlotIds : \A x :
          x \in InSlot(s)' <=> (x = t /\ s = c) \/ (x # t /\ x \in InSlot(s))
    BY <2>1, <2>2, <2>4 DEF InSlot
  <2> QED
    BY <2>5
<1>12. /\ wheel' \in [SlotIds -> Seq(Timers)]
       /\ \A s \in SlotIds : Holds(wheel'[s], InSlot(s)')
  <2>1. PICK w : w = <<t>> \o u.wheel[c]
    OBVIOUS
  <2>2. u.wheel[c] \in Seq(Timers) /\ Holds(u.wheel[c], InSlot(c) \ {t})
    BY <1>5, <1>7
  <2>3. t \notin InSlot(c) \ {t}
    OBVIOUS
  <2>4. w \in Seq(Timers) /\ Holds(w, (InSlot(c) \ {t}) \cup {t})
    BY <2>1, <2>2, <2>3, HoldsPrepended
  <2>5. wheel' = [u.wheel EXCEPT ![c] = w]
    BY <1>6, <2>1
  <2> QED
    BY <1>5, <1>7, <1>11, <2>4, <2>5
<1>13. timed_count' \in Nat /\ timed_count' = Cardinality(InState("wheel")')
  <2>1. PICK W : W = InState("wheel") \ {t}
    OBVIOUS
  <2>2. PICK n \in Nat : n = u.count
    BY <1>7
  <2>3. IsFiniteSet(W) /\ t \notin W /\ n = Cardinality(W)
    BY <1>1, <1>7, <2>1, <2>2, Basics, FS_Subset
  <2>4. Cardinality(W \cup {t}) = n + 1
    BY <2>3, FS_AddElement
  <2>5. InState("wheel")' = W \cup {t}
    BY <1>10, <2>1
  <2>6. timed_count' = n + 1
    BY <1>6, <2>2
  <2> QED
    BY <2>4, <2>5, <2>6
<1>14. TimersTypeOK'
  BY <1>1, <1>6, <1>7, <1>8, <1>12, <1>13 DEF TimersTypeOK
<1>15. ListsAgree'
  <2>1. Holds(due, InState("due"))'
    BY <1>6, <1>7, <1>10 DEF Holds
  <2>2. \A s \in SlotIds : Holds(wheel[s], InSlot(s))'
    BY <1>12 DEF Holds
  <2> QED
    BY <1>13, <1>14, <2>1, <2>2 DEF ListsAgree
<1>16. TimesInv'
  <2>1. \A i \in DOMAIN u.due : u.due[i] \in Timers /\ u.due[i] # t
    <3>1. PICK l \in Seq(Timers) : l = u.due
      BY <1>7
    <3>2. Range(l) = InState("due") \ {t}
      BY <1>7, <3>1 DEF Holds
    <3>3. \A i \in DOMAIN l : l[i] \in Timers /\ l[i] \in Range(l)
      BY DEF Range
    <3> QED
      BY <3>1, <3>2, <3>3
  <2>2. \A i, j \in DOMAIN due' : i < j => tick'[due'[i]] <= tick'[due'[j]]
    BY <1>6, <1>7, <1>9, <2>1
  <2>3. ~early'
    BY <1>1, <1>6 DEF TimesInv
  <2>4. ASSUME NEW x \in Timers
        PROVE  /\ state'[x] # "idle" => tick'[x] >= asked'[x]
               /\ state'[x] = "due" => tick'[x] <= now'
               /\ state'[x] = "wheel" => tick'[x] \div Tick >= wheel_tick'
    <3>1. CASE x = t
      BY <1>5, <1>6, <1>9, <3>1
    <3>2. CASE x # t
      BY <1>1, <1>6, <1>9, <3>2 DEF TimesInv
    <3> QED
      BY <3>1, <3>2
  <2> QED
    BY <2>2, <2>3, <2>4 DEF TimesInv
<1>17. MoveInv' /\ SleepInv'
  BY <1>6 DEF MoveInv, SleepInv
<1> QED
  BY <1>15, <1>16, <1>17 DEF TimerInv

---------------------------------------------------------------------------
(* The invariant.                                                          *)

LEMMA TimerInvInit == TimersInit => TimerInv
<1> SUFFICES ASSUME TimersInit PROVE TimerInv
  OBVIOUS
<1>1. \A s \in SlotIds : wheel[s] = <<>>
  BY DEF TimersInit
<1>2. \A k : InState(k) = IF k = "idle" THEN Timers ELSE {}
  BY DEF TimersInit, InState
<1>3. InState("wheel") = {} /\ InState("due") = {}
  BY <1>2
<1>4. \A s \in SlotIds : InSlot(s) = {}
  BY <1>3 DEF InSlot
<1>5. Holds(<<>>, {})
  BY DEF Holds, Range
<1>6. TimersTypeOK
  <2>1. wheel \in [SlotIds -> Seq(Timers)] /\ due \in Seq(Timers)
    BY DEF TimersInit
  <2>2. /\ state \in [Timers -> {"idle", "wheel", "due"}]
        /\ tick \in [Timers -> Nat] /\ asked \in [Timers -> Nat]
    BY DEF TimersInit
  <2> QED
    BY <2>1, <2>2 DEF TimersInit, TimersTypeOK
<1>7. Cardinality({}) = 0
  BY FS_EmptySet
<1>8. ListsAgree
  BY <1>1, <1>3, <1>4, <1>5, <1>6, <1>7 DEF TimersInit, ListsAgree
<1>9. TimesInv /\ MoveInv /\ SleepInv
  BY DEF TimersInit, TimesInv, MoveInv, SleepInv
<1> QED
  BY <1>8, <1>9 DEF TimerInv

LEMMA TimerInvNext ==
    ASSUME TimerInv, [TimersNext]_timerVars
    PROVE  TimerInv'
<1>1. CASE Sleep
  BY <1>1, SleepKeeps
<1>2. CASE WakeAtDeadline \/ WakeForEvent \/ RoundEnds
  BY <1>2, WakesKeep
<1>3. CASE AdvanceBegins
  BY <1>3, AdvanceBeginsKeeps
<1>4. CASE Move
  BY <1>4, MoveKeeps
<1>5. CASE NextSlot
  BY <1>5, NextSlotKeeps
<1>6. CASE AdvanceEnds
  BY <1>6, AdvanceEndsKeeps
<1>7. CASE Fire
  BY <1>7, FireKeeps
<1>8. CASE TimePasses
  BY <1>8, TimePassesKeeps
<1>9. ASSUME NEW t \in Timers, TimerCancel(t) PROVE TimerInv'
  BY <1>9, TimerCancelKeeps
<1>10. ASSUME NEW t \in Timers, NEW d \in Delays, TimerSet(t, d) PROVE TimerInv'
  BY <1>10, TimerSetKeeps
<1>11. CASE UNCHANGED timerVars
  <2>1. /\ UNCHANGED <<wheel, due, state, tick, wheel_tick, timed_count>>
        /\ UNCHANGED <<now, stage, visit, until, early, asked>>
    BY <1>11 DEF timerVars, wheelVars
  <2>2. TimersTypeOK /\ ListsAgree /\ TimesInv /\ MoveInv /\ SleepInv
    BY DEF TimerInv, ListsAgree
  <2>3. TimersTypeOK' /\ now' \in Nat /\ now <= now'
    BY <2>1, <2>2 DEF TimersTypeOK
  <2>4. ListsAgree' /\ TimesInv'
    BY <2>1, <2>2, <2>3, ListsFrame, TimesFrame
  <2>5. InState("wheel")' = InState("wheel")
    BY <2>1 DEF InState
  <2>6. MoveInv'
    BY <2>1, <2>2, <2>5 DEF MoveInv, From, VisitFrom, Target, IsDue, Slot
  <2>7. SleepInv'
    BY <2>1, <2>2, <2>5, CrowdedFrame DEF SleepInv, OnWheel
  <2> QED
    BY <2>4, <2>6, <2>7 DEF TimerInv
<1> QED
  BY <1>1, <1>2, <1>3, <1>4, <1>5, <1>6, <1>7, <1>8, <1>9, <1>10, <1>11
     DEF TimersNext, TimersStep, Advance

(* proven_loop_timer_set, _cancel and a round of proven_loop_poll keep the *)
(* wheel, the due list and the sleep as they have to be, whatever the      *)
(* callbacks do.                                                           *)
THEOREM TimersCorrect == TimersSpec => []TimerInv
<1>1. TimersInit => TimerInv
  BY TimerInvInit
<1>2. TimerInv /\ [TimersNext]_timerVars => TimerInv'
  BY TimerInvNext
<1> QED
  BY <1>1, <1>2, PTL DEF TimersSpec

(* No timer fires before the time it was set for, those that come due      *)
(* together fire earliest first, and each is on exactly the list timer_    *)
(* unlink looks for it on.                                                 *)
THEOREM TimersFireOnTime == TimersSpec => []FiresOnTime
<1>1. TimerInv => FiresOnTime
  BY DEF TimerInv, TimesInv, FiresOnTime
<1> QED
  BY <1>1, TimersCorrect, PTL

(* loop_next_timer never answers later than the first timer is due, save   *)
(* for the tick that a crowded slot may hide, nor a time at which waking   *)
(* would do nothing.                                                       *)
THEOREM SleepsAreRight == TimersSpec => []SleepIsRight
<1>1. ASSUME TimerInv PROVE SleepIsRight
  <2> SUFFICES ASSUME stage = "asleep" PROVE
        /\ OnWheel # {} =>
              /\ until # Forever
              /\ until <= Min(OnWheel) \/ (Crowded /\ until = (wheel_tick + 1) * Tick)
        /\ until # Forever /\ now >= until =>
              (\E t \in Timers : state[t] = "wheel" /\ tick[t] <= now)
                  \/ now \div Tick > wheel_tick
    BY DEF SleepIsRight
  <2>1. /\ OnWheel # {} =>
              /\ until # Forever
              /\ until <= Min(OnWheel) \/ (Crowded /\ until = (wheel_tick + 1) * Tick)
        /\ until # Forever =>
              until >= (wheel_tick + 1) * Tick \/ \E t \in InState("wheel") : tick[t] <= until
    BY <1>1 DEF TimerInv, SleepInv
  <2>2. TimersTypeOK /\ Tick \in Nat \ {0} /\ now \in Nat /\ wheel_tick \in Nat
        /\ until \in Nat \cup {Forever} /\ \A t \in Timers : tick[t] \in Nat
    BY <1>1, Basics DEF TimerInv, ListsAgree, TimersTypeOK
  <2>3. ASSUME until # Forever, now >= until
        PROVE  (\E t \in Timers : state[t] = "wheel" /\ tick[t] <= now)
                  \/ now \div Tick > wheel_tick
    <3>1. CASE until >= (wheel_tick + 1) * Tick
      <4>1. PICK n \in Nat : n = wheel_tick + 1
        BY <2>2
      <4>2. n * Tick <= now
        <5>1. n * Tick \in Nat /\ until \in Nat
          BY <2>2, <2>3, <4>1
        <5> QED
          BY <2>2, <2>3, <3>1, <4>1, <5>1
      <4>3. n <= now \div Tick /\ now \div Tick \in Nat
        BY <2>2, <4>2, TickAtLeast, TickOf
      <4> QED
        BY <2>2, <4>1, <4>3
    <3>2. CASE \E t \in InState("wheel") : tick[t] <= until
      <4>1. PICK t \in InState("wheel") : tick[t] <= until
        BY <3>2
      <4>2. t \in Timers /\ state[t] = "wheel"
        BY <4>1 DEF InState
      <4>3. tick[t] <= now
        BY <2>2, <2>3, <4>1, <4>2
      <4> QED
        BY <4>2, <4>3
    <3> QED
      BY <2>1, <2>3, <3>1, <3>2
  <2> QED
    BY <2>1, <2>3
<1> QED
  BY <1>1, TimersCorrect, PTL
=============================================================================
