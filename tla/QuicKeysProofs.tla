--------------------------- MODULE QuicKeysProofs ---------------------------
(***************************************************************************)
(* The keys of a QUIC connection, for every number of packets a phase      *)
(* lasts and every bound: KeysInv is an invariant, and KeysMeet follows.   *)
(***************************************************************************)
EXTENDS QuicKeys, TLAPS

(* The phase of the generation after n is the other one.                   *)
LEMMA NextParity ==
    ASSUME NEW n \in Nat
    PROVE  n % 2 \in {0, 1} /\ (n + 1) % 2 = 1 - (n % 2)
  OBVIOUS

(* The other end.                                                          *)
LEMMA PeerOf ==
    ASSUME NEW e \in Ends
    PROVE  /\ Peer(e) \in Ends /\ Peer(e) # e /\ Peer(Peer(e)) = e
           /\ \A f \in Ends : f = e \/ f = Peer(e)
  BY DEF Ends, Peer

(* The invariant holds before the first packet.                            *)
LEMMA KeysStart == KeysInit => KeysInv
<1> SUFFICES ASSUME KeysInit PROVE KeysInv
  OBVIOUS
<1>1. KeysTyped
  BY DEF KeysInit, KeysTyped, NewKeys, KeyType, None
<1>2. ASSUME NEW e \in Ends
      PROVE  Agree(keys[e], keys[Peer(e)], net[Peer(e)], net[e])
  BY PeerOf DEF KeysInit, Agree, NewKeys, OwnKeys, Acknowledged, None
<1> QED
  BY <1>1, <1>2 DEF KeysInv

(* An update keeps what holds of an end by itself, and begins a phase of   *)
(* which nothing is written or acknowledged yet.                           *)
LEMMA UpdateKeeps ==
    ASSUME NEW k \in KeyType, OwnKeys(k)
    PROVE  /\ key_update_start(k) \in KeyType /\ OwnKeys(key_update_start(k))
           /\ key_update_start(k).tx = k.tx + 1
           /\ key_update_start(k).next_pn = k.next_pn
           /\ key_update_start(k).phase_first_sent = k.next_pn
           /\ ~key_update_start(k).phase_acked
           /\ key_update_start(k).largest = k.largest
<1> DEFINE m == [k EXCEPT !.rx_prev = k.rx, !.rx = @ + 1]
           r == tx_key_next(m)
<1>0. k.tx \in Nat /\ k.rx \in Nat /\ k.next_pn \in Nat /\ k.key_phase \in {0, 1}
  BY DEF KeyType
<1>a. k.rx + 1 \in Nat /\ k.tx + 1 \in Nat /\ 1 - k.key_phase \in {0, 1} /\ 0 \in Nat
  BY <1>0
<1>1. /\ m \in KeyType /\ m.tx = k.tx /\ m.rx = k.rx + 1 /\ m.rx_prev = k.rx
      /\ m.key_phase = k.key_phase /\ m.next_pn = k.next_pn /\ m.largest = k.largest
  BY <1>0, <1>a, Zenon DEF KeyType
<1> HIDE DEF m
<1>2. /\ r \in KeyType /\ r.tx = m.tx + 1 /\ r.rx = m.rx /\ r.rx_prev = m.rx_prev
      /\ r.key_phase = 1 - m.key_phase /\ r.next_pn = m.next_pn /\ r.largest = m.largest
      /\ r.phase_first_sent = m.next_pn /\ r.phase_acked = FALSE
  BY <1>1, <1>a, Zenon DEF tx_key_next, KeyType
<1>3. key_update_start(k) = r
  BY DEF key_update_start, m
<1> HIDE DEF r
<1>4. OwnKeys(r)
  <2>1. k.tx \in Nat /\ k.rx \in Nat /\ k.next_pn \in Nat
    BY DEF KeyType
  <2> QED
    BY <1>1, <1>2, <2>1, NextParity DEF OwnKeys
<1> QED
  BY <1>1, <1>2, <1>3, <1>4

---------------------------------------------------------------------------
(* The steps, of an end with keys k and another with keys o, from and to   *)
(* the packets of the first and of the other.                              *)

Both(k, o, from, to) == Agree(k, o, from, to) /\ Agree(o, k, to, from)

(* An end updates its keys only when the other's are as new.               *)
LEMMA UpdateAgrees ==
    ASSUME NEW k \in KeyType, NEW o \in KeyType,
           NEW from \in SUBSET PacketType, NEW to \in SUBSET PacketType,
           Both(k, o, from, to), o.tx >= k.tx
    PROVE  Both(key_update_start(k), o, from, to)
<1> DEFINE r == key_update_start(k)
<1>1. /\ r \in KeyType /\ OwnKeys(r) /\ r.tx = k.tx + 1 /\ r.next_pn = k.next_pn
      /\ r.phase_first_sent = k.next_pn /\ ~r.phase_acked /\ r.largest = k.largest
  BY UpdateKeeps DEF Both, Agree
<1> HIDE DEF r
<1>2. /\ k.tx \in Nat /\ o.tx \in Nat /\ k.next_pn \in Nat /\ k.phase_first_sent \in Nat
      /\ k.phase_first_sent <= k.next_pn
  BY DEF KeyType, Both, Agree, OwnKeys
<1>3. Agree(r, o, from, to)
  <2>1. Acknowledged(r, o, o.largest)
    BY <1>1, <1>2 DEF Both, Agree, Acknowledged, KeyType, None
  <2>2. \A p \in from : Written(r, p)
    BY <1>1, <1>2 DEF Both, Agree, Written, PacketType
  <2>3. \A p \in to : Acknowledged(r, o, p.ack)
    BY <1>1, <1>2 DEF Both, Agree, Acknowledged, PacketType, None
  <2> QED
    BY <1>1, <1>2, <2>1, <2>2, <2>3 DEF Agree
<1>4. Agree(o, r, to, from)
  <2>1. Acknowledged(o, r, r.largest)
    BY <1>1, <1>2 DEF Both, Agree, Acknowledged, KeyType, None
  <2>2. \A p \in from : Acknowledged(o, r, p.ack)
    BY <1>1, <1>2 DEF Both, Agree, Acknowledged, PacketType, None
  <2> QED
    BY <1>1, <1>2, <2>1, <2>2 DEF Both, Agree
<1> QED
  BY <1>3, <1>4 DEF Both, r

(* What becomes of the keys of an end that sends: an update or not, and    *)
(* one packet more.                                                        *)
SentBy(k) == [k EXCEPT !.next_pn = @ + 1, !.phase_sent = @ + 1]
PacketOf(k) == [pn |-> k.next_pn, gen |-> k.tx, phase |-> k.key_phase, ack |-> k.largest]

LEMMA SendAgrees ==
    ASSUME NEW k \in KeyType, NEW o \in KeyType,
           NEW from \in SUBSET PacketType, NEW to \in SUBSET PacketType,
           Both(k, o, from, to)
    PROVE  /\ SentBy(k) \in KeyType /\ PacketOf(k) \in PacketType
           /\ Both(SentBy(k), o, from \cup {PacketOf(k)}, to)
<1> DEFINE r == SentBy(k)
           q == PacketOf(k)
<1>0. /\ k.next_pn \in Nat /\ k.phase_sent \in Nat /\ k.tx \in Nat /\ k.rx \in Nat
      /\ k.phase_first_sent \in Nat
  BY DEF KeyType
<1>1. k.next_pn + 1 \in Nat /\ k.phase_sent + 1 \in Nat
  BY <1>0
<1>2. /\ r \in KeyType /\ r.tx = k.tx /\ r.rx = k.rx /\ r.rx_prev = k.rx_prev
      /\ r.key_phase = k.key_phase /\ r.next_pn = k.next_pn + 1
      /\ r.phase_first_sent = k.phase_first_sent /\ r.phase_acked = k.phase_acked
      /\ r.largest = k.largest
  BY <1>1, Zenon DEF SentBy, KeyType
<1>3. /\ q \in PacketType /\ q.pn = k.next_pn /\ q.gen = k.tx /\ q.phase = k.key_phase
      /\ q.ack = k.largest
  BY DEF PacketOf, KeyType, PacketType
<1> HIDE DEF r, q
<1>4. Agree(r, o, from \cup {q}, to)
  <2>1. OwnKeys(r)
    BY <1>0, <1>2 DEF Both, Agree, OwnKeys
  <2>2. Acknowledged(r, o, o.largest)
    BY <1>0, <1>2 DEF Both, Agree, Acknowledged, KeyType, None
  <2>3. ASSUME NEW p \in from PROVE Written(r, p)
    BY <1>0, <1>2 DEF Both, Agree, Written, PacketType
  <2>4. Written(r, q)
    BY <1>0, <1>2, <1>3 DEF Both, Agree, Written, OwnKeys
  <2>5. \A p \in to : Acknowledged(r, o, p.ack)
    BY <1>0, <1>2 DEF Both, Agree, Acknowledged, PacketType, None
  <2> QED
    BY <1>2, <2>1, <2>2, <2>3, <2>4, <2>5 DEF Both, Agree
<1>5. Agree(o, r, to, from \cup {q})
  BY <1>2, <1>3 DEF Both, Agree, Acknowledged
<1> QED
  BY <1>2, <1>3, <1>4, <1>5 DEF Both, r, q

LEMMA MaxOfTwo ==
    ASSUME NEW a \in Int, NEW b \in Int
    PROVE  Max({a, b}) \in {a, b} /\ Max({a, b}) >= a /\ Max({a, b}) >= b
<1> DEFINE M(x) == x \in {a, b} /\ \A y \in {a, b} : x >= y
<1>1. \E x : M(x)
  <2>1. CASE a >= b
    BY <2>1
  <2>2. CASE b >= a
    BY <2>2
  <2> QED
    BY <2>1, <2>2
<1>2. M(CHOOSE x : M(x))
  BY <1>1
<1>3. Max({a, b}) = CHOOSE x : M(x)
  BY DEF Max
<1> QED
  BY <1>2, <1>3

(* An end whose keys are as new as the packet, or newer, reads it.         *)
ReadBy(k, p) == [on_ack(k, p.ack) EXCEPT !.largest = Max({@, p.pn})]

LEMMA ReadAgrees ==
    ASSUME NEW k \in KeyType, NEW o \in KeyType,
           NEW from \in SUBSET PacketType, NEW to \in SUBSET PacketType,
           Both(k, o, from, to), NEW p \in to, k.tx >= p.gen
    PROVE  ReadBy(k, p) \in KeyType /\ Both(ReadBy(k, p), o, from, to)
<1> DEFINE a == k.phase_acked \/ (p.ack # None /\ p.ack >= k.phase_first_sent)
           L == Max({k.largest, p.pn})
           r == ReadBy(k, p)
<1>0. /\ k.tx \in Nat /\ k.rx \in Nat /\ k.phase_first_sent \in Nat /\ k.phase_acked \in BOOLEAN
      /\ p.pn \in Nat /\ p.gen \in Nat /\ k.largest \in Nat \cup {None} /\ k.largest \in Int
      /\ p.ack \in Int /\ o.tx \in Nat /\ o.phase_first_sent \in Nat
  BY DEF KeyType, PacketType, None
<1>1. L \in {k.largest, p.pn} /\ L \in Nat /\ L >= k.largest
  <2>1. p.pn \in Int
    BY <1>0
  <2>2. L \in {k.largest, p.pn} /\ L >= k.largest /\ L >= p.pn
    BY <1>0, <2>1, MaxOfTwo
  <2> HIDE DEF L
  <2> QED
    BY <1>0, <2>1, <2>2
<1>2. a \in BOOLEAN
  BY <1>0
<1>3. on_ack(k, p.ack) = [k EXCEPT !.phase_acked = a]
  BY DEF on_ack
<1> HIDE DEF a, L
<1>4. r = [[k EXCEPT !.phase_acked = a] EXCEPT !.largest = L]
  BY <1>3, <1>2, Zenon DEF ReadBy, L, KeyType
<1>5. /\ r \in KeyType /\ r.tx = k.tx /\ r.rx = k.rx /\ r.rx_prev = k.rx_prev
      /\ r.key_phase = k.key_phase /\ r.next_pn = k.next_pn
      /\ r.phase_first_sent = k.phase_first_sent /\ r.phase_acked = a
      /\ r.largest = L
  BY <1>1, <1>2, <1>4, Zenon DEF KeyType
<1> HIDE DEF r
<1>6. Agree(r, o, from, to)
  <2>1. a => o.tx >= k.tx
    BY <1>0 DEF a, Both, Agree, Acknowledged
  <2>2. OwnKeys(r)
    BY <1>5 DEF Both, Agree, OwnKeys
  <2>3. \A x : Acknowledged(k, o, x) => Acknowledged(r, o, x)
    BY <1>5 DEF Acknowledged
  <2>4. \A x : Written(k, x) => Written(r, x)
    BY <1>5 DEF Written
  <2> QED
    BY <1>5, <2>1, <2>2, <2>3, <2>4 DEF Both, Agree
<1>7. Agree(o, r, to, from)
  <2>1. Written(o, p)
    BY DEF Both, Agree
  <2>2. Acknowledged(o, k, p.pn)
    BY <1>0, <2>1 DEF Acknowledged, Written
  <2>3. Acknowledged(o, k, k.largest)
    BY DEF Both, Agree
  <2>4. Acknowledged(o, k, L)
    BY <1>1, <2>2, <2>3
  <2>5. \A x : Acknowledged(o, k, x) => Acknowledged(o, r, x)
    BY <1>5 DEF Acknowledged
  <2> QED
    BY <1>5, <2>4, <2>5 DEF Both, Agree
<1> QED
  BY <1>5, <1>6, <1>7 DEF Both, r

---------------------------------------------------------------------------
(* What an end's step leaves of the invariant of both.                     *)
LEMMA StepKeeps ==
    ASSUME KeysTyped, NEW e \in Ends, NEW r \in KeyType,
           NEW from \in SUBSET PacketType, NEW to \in SUBSET PacketType,
           keys' = [keys EXCEPT ![e] = r],
           net' \in [Ends -> SUBSET PacketType],
           net'[Peer(e)] \subseteq from, net'[e] \subseteq to,
           Both(r, keys[Peer(e)], from, to)
    PROVE  KeysInv'
<1>1. KeysTyped'
  BY DEF KeysTyped
<1>2. /\ keys'[e] = r /\ keys'[Peer(e)] = keys[Peer(e)]
      /\ Peer(Peer(e)) = e
  BY PeerOf DEF KeysTyped
<1>3. Agree(r, keys[Peer(e)], net'[Peer(e)], net'[e])
  BY DEF Both, Agree
<1>4. Agree(keys[Peer(e)], r, net'[e], net'[Peer(e)])
  BY DEF Both, Agree
<1>5. ASSUME NEW f \in Ends
      PROVE  Agree(keys'[f], keys'[Peer(f)], net'[Peer(f)], net'[f])
  <2>1. CASE f = e
    BY <1>2, <1>3, <2>1
  <2>2. CASE f = Peer(e)
    BY <1>2, <1>4, <2>2
  <2> QED
    BY <2>1, <2>2, PeerOf
<1> QED
  BY <1>1, <1>5 DEF KeysInv

(* An end and the other, as the invariant has them.                        *)
LEMMA InvGives ==
    ASSUME KeysInv, NEW e \in Ends
    PROVE  /\ keys[e] \in KeyType /\ keys[Peer(e)] \in KeyType
           /\ net[e] \in SUBSET PacketType /\ net[Peer(e)] \in SUBSET PacketType
           /\ Both(keys[e], keys[Peer(e)], net[Peer(e)], net[e])
  BY PeerOf DEF KeysInv, KeysTyped, Both

LEMMA SendKeeps == ASSUME KeysInv, NEW e \in Ends, Send(e) PROVE KeysInv'
<1> DEFINE o == keys[Peer(e)]
           k == IF MayUpdate(keys[e]) THEN key_update_start(keys[e]) ELSE keys[e]
           from == net[Peer(e)] \cup {PacketOf(k)}
<1>1. k \in KeyType /\ Both(k, o, net[Peer(e)], net[e])
  <2>1. CASE MayUpdate(keys[e])
    <3>1. o.tx >= keys[e].tx
      BY <2>1, InvGives DEF MayUpdate, Both, Agree
    <3>2. OwnKeys(keys[e]) /\ keys[e] \in KeyType
      BY InvGives DEF Both, Agree
    <3>3. key_update_start(keys[e]) \in KeyType
      BY <3>2, UpdateKeeps
    <3>4. Both(key_update_start(keys[e]), o, net[Peer(e)], net[e])
      BY <3>1, InvGives, UpdateAgrees
    <3> QED
      BY <2>1, <3>3, <3>4
  <2>2. CASE ~MayUpdate(keys[e])
    BY <2>2, InvGives
  <2> QED
    BY <2>1, <2>2
<1>2. keys' = [keys EXCEPT ![e] = SentBy(k)] /\ net' = [net EXCEPT ![Peer(e)] = @ \cup {PacketOf(k)}]
  BY DEF Send, SentBy, PacketOf
<1> HIDE DEF k
<1>3. /\ SentBy(k) \in KeyType /\ PacketOf(k) \in PacketType
      /\ Both(SentBy(k), o, from, net[e])
  BY <1>1, InvGives, SendAgrees
<1>4. /\ net' \in [Ends -> SUBSET PacketType] /\ from \in SUBSET PacketType
      /\ net'[Peer(e)] = from /\ net'[e] = net[e]
  BY <1>2, <1>3, PeerOf, InvGives DEF KeysInv, KeysTyped
<1> QED
  BY ZenonT(20), <1>2, <1>3, <1>4, InvGives, StepKeeps DEF KeysInv

(* A packet opens under a key as new as its own, to which the reader may   *)
(* have had to move.                                                       *)
LEMMA OpenAgrees ==
    ASSUME NEW k \in KeyType, NEW o \in KeyType,
           NEW from \in SUBSET PacketType, NEW to \in SUBSET PacketType,
           Both(k, o, from, to), NEW p \in to, NEW r \in open_short(k, p)
    PROVE  open_short(k, p) = {r} /\ r \in KeyType /\ Both(r, o, from, to) /\ r.tx >= p.gen
<1>0. /\ k.tx \in Nat /\ k.rx = k.tx /\ k.rx_prev \in {None, k.rx - 1} /\ p.gen \in Nat
      /\ p.gen <= o.tx /\ o.tx \in Nat
  BY DEF Both, Agree, OwnKeys, Written, KeyType, PacketType
<1>1. CASE p.gen = k.rx + 1 /\ open_short(k, p) = {key_update_start(k)}
  <2>1. o.tx >= k.tx
    BY <1>0, <1>1
  <2>2. OwnKeys(k)
    BY DEF Both, Agree
  <2>3. key_update_start(k) \in KeyType /\ key_update_start(k).tx = k.tx + 1
    BY <2>2, UpdateKeeps
  <2>4. Both(key_update_start(k), o, from, to)
    BY <2>1, UpdateAgrees
  <2> QED
    BY <1>0, <1>1, <2>3, <2>4
<1>2. CASE p.gen <= k.rx /\ open_short(k, p) = {k}
  BY <1>0, <1>2
<1>3. open_short(k, p) \in {{k}, {}, {key_update_start(k)}}
  BY DEF open_short
<1>4. (open_short(k, p) = {k} /\ p.gen <= k.rx)
          \/ (open_short(k, p) = {key_update_start(k)} /\ p.gen = k.rx + 1)
  BY <1>0 DEF open_short, None
<1> QED
  BY <1>1, <1>2, <1>4

LEMMA ReceiveKeeps ==
    ASSUME KeysInv, NEW e \in Ends, NEW p \in net[e], Receive(e, p)
    PROVE  KeysInv'
<1> DEFINE o == keys[Peer(e)]
<1>1. /\ net' \in [Ends -> SUBSET PacketType]
      /\ net'[Peer(e)] \subseteq net[Peer(e)] /\ net'[e] \subseteq net[e]
  BY PeerOf DEF Receive, KeysInv, KeysTyped
<1>2. CASE open_short(keys[e], p) = {}
  <2>1. keys' = [keys EXCEPT ![e] = keys[e]]
    BY <1>2 DEF Receive, KeysInv, KeysTyped
  <2> QED
    BY <1>1, <2>1, InvGives, StepKeeps DEF KeysInv
<1>3. ASSUME NEW k \in open_short(keys[e], p) PROVE KeysInv'
  <2>1. k \in KeyType /\ Both(k, o, net[Peer(e)], net[e]) /\ k.tx >= p.gen
    BY InvGives, OpenAgrees
  <2>2. ReadBy(k, p) \in KeyType /\ Both(ReadBy(k, p), o, net[Peer(e)], net[e])
    BY <2>1, InvGives, ReadAgrees
  <2>3. keys' = [keys EXCEPT ![e] = ReadBy(k, p)]
    BY DEF Receive, ReadBy
  <2> QED
    BY <1>1, <2>2, <2>3, InvGives, StepKeeps DEF KeysInv
<1> QED
  BY <1>2, <1>3

LEMMA LoseKeeps ==
    ASSUME KeysInv, NEW e \in Ends, NEW p \in net[e], Lose(e, p)
    PROVE  KeysInv'
<1>1. /\ net' \in [Ends -> SUBSET PacketType]
      /\ net'[Peer(e)] \subseteq net[Peer(e)] /\ net'[e] \subseteq net[e]
      /\ keys' = [keys EXCEPT ![e] = keys[e]]
  BY PeerOf DEF Lose, KeysInv, KeysTyped
<1> QED
  BY <1>1, InvGives, StepKeeps DEF KeysInv

LEMMA ExpiryKeeps == ASSUME KeysInv, NEW e \in Ends, PrevExpires(e) PROVE KeysInv'
<1> DEFINE k == keys[e]
           r == [k EXCEPT !.rx_prev = None]
<1>1. keys' = [keys EXCEPT ![e] = r]
  BY DEF PrevExpires, KeysInv, KeysTyped
<1>2. /\ r \in KeyType /\ r.tx = k.tx /\ r.rx = k.rx /\ r.rx_prev = None
      /\ r.key_phase = k.key_phase /\ r.next_pn = k.next_pn
      /\ r.phase_first_sent = k.phase_first_sent /\ r.phase_acked = k.phase_acked
      /\ r.largest = k.largest
  BY InvGives DEF KeyType
<1> HIDE DEF r
<1>3. Both(r, keys[Peer(e)], net[Peer(e)], net[e])
  BY <1>2, InvGives DEF Both, Agree, OwnKeys, Acknowledged, Written
<1>4. net' \in [Ends -> SUBSET PacketType] /\ net' = net
  BY DEF PrevExpires, KeysInv, KeysTyped
<1> QED
  BY <1>1, <1>2, <1>3, <1>4, InvGives, StepKeeps DEF KeysInv

---------------------------------------------------------------------------
(* Of every reachable state: the keys, the packet numbers of each phase    *)
(* and what was acknowledged agree between the two ends (key_update_start, *)
(* open_short, on_ack, and the check before a packet is sealed).           *)
THEOREM KeysCorrect == KeysSpec => []KeysInv
<1>1. KeysInv /\ [KeysNext]_keyVars => KeysInv'
  <2> SUFFICES ASSUME KeysInv, [KeysNext]_keyVars PROVE KeysInv'
    OBVIOUS
  <2>1. CASE UNCHANGED keyVars
    BY <2>1 DEF keyVars, KeysInv, KeysTyped
  <2>2. CASE KeysNext
    BY <2>2, SendKeeps, ReceiveKeeps, LoseKeeps, ExpiryKeeps DEF KeysNext
  <2> QED
    BY <2>1, <2>2
<1> QED
  BY <1>1, KeysStart, PTL DEF KeysSpec

(* Updates of the keys that cross on the way never part the two ends: they *)
(* are at most one generation apart, and what was sealed under a key that  *)
(* the reader is not past, or keeps, opens (key_update_start, open_short). *)
THEOREM KeysAlwaysMeet == KeysSpec => []KeysMeet
<1>1. KeysInv => KeysMeet
  <2> SUFFICES ASSUME KeysInv PROVE KeysMeet
    OBVIOUS
  <2>1. keys["client"].tx - keys["server"].tx \in -1 .. 1
    <3>1. /\ "client" \in Ends /\ "server" \in Ends
          /\ Peer("client") = "server" /\ Peer("server") = "client"
      BY DEF Ends, Peer
    <3>2. /\ keys["client"].tx \in Nat /\ keys["server"].tx \in Nat
          /\ keys["client"].tx <= keys["server"].tx + 1
          /\ keys["server"].tx <= keys["client"].tx + 1
      BY <3>1 DEF KeysInv, KeysTyped, KeyType, Agree
    <3> QED
      BY <3>2
  <2>2. ASSUME NEW e \in Ends PROVE keys[e].rx = keys[e].tx
    BY DEF KeysInv, Agree, OwnKeys
  <2>3. ASSUME NEW e \in Ends, NEW p \in net[e],
               p.gen >= keys[e].rx \/ (keys[e].rx_prev # None /\ p.gen = keys[e].rx - 1)
        PROVE  open_short(keys[e], p) # {}
    <3> DEFINE k == keys[e]
    <3>1. /\ k.rx = k.tx /\ k.key_phase = k.tx % 2 /\ k.tx \in Nat /\ p.gen \in Nat
          /\ k.rx_prev \in {None, k.rx - 1} /\ p.phase = p.gen % 2
          /\ p.gen <= keys[Peer(e)].tx /\ keys[Peer(e)].tx <= k.tx + 1
          /\ keys[Peer(e)].tx \in Nat
      BY InvGives DEF Both, Agree, OwnKeys, Written, KeyType, PacketType
    <3>2. CASE p.gen = k.rx
      BY <3>1, <3>2 DEF open_short
    <3>3. CASE p.gen = k.rx + 1
      <4>1. p.phase # k.key_phase
        BY <3>1, <3>3, NextParity
      <4> QED
        BY <3>1, <3>3, <4>1 DEF open_short
    <3>4. CASE k.rx_prev # None /\ p.gen = k.rx - 1
      <4>1. p.phase # k.key_phase
        BY <3>1, <3>4, NextParity
      <4> QED
        BY <3>1, <3>4, <4>1 DEF open_short
    <3> QED
      BY <2>3, <3>1, <3>2, <3>3, <3>4
  <2> QED
    BY <2>1, <2>2, <2>3 DEF KeysMeet
<1> QED
  BY <1>1, KeysCorrect, PTL
=============================================================================
