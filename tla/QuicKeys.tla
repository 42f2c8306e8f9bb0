------------------------------ MODULE QuicKeys ------------------------------
(***************************************************************************)
(* Key updates of a QUIC connection whose handshake is confirmed (RFC 9001 *)
(* section 6; open_short, key_update_start and tx_key_next of src/net/src/ *)
(* quic_conn.c).  A key is its generation, of which a packet shows one bit;*)
(* a packet opens under the key it was sealed with and no other.  Packets  *)
(* are lost, reordered and repeated, and the time for which the previous   *)
(* key is kept may end at any moment.                                      *)
(***************************************************************************)
EXTENDS Integers, FiniteSets, FiniteSetsExt

CONSTANTS
    KeyPackets,     \* cfg.key_update_packets
    MaxSent,        \* packets the two ends send: a bound of the model
    MaxNet          \* packets on their way to one end: a bound of the model

VARIABLES
    keys,           \* each end's keys
    net             \* the packets on their way to each end

keyVars == <<keys, net>>

Ends == {"client", "server"}
Peer(e) == IF e = "client" THEN "server" ELSE "client"
None == -1

NewKeys ==
    [tx |-> 0, rx |-> 0, rx_prev |-> None, key_phase |-> 0,
     next_pn |-> 0, phase_sent |-> 0, phase_first_sent |-> 0, phase_acked |-> FALSE,
     largest |-> None]                  \* of the packets read

(* The write key moves on: this end's own update, or following the peer's. *)
tx_key_next(k) ==
    [k EXCEPT !.tx = @ + 1, !.key_phase = 1 - @,
              !.phase_sent = 0, !.phase_first_sent = k.next_pn, !.phase_acked = FALSE]

(* The read key moves with it, and the old one is kept for late packets.   *)
key_update_start(k) == tx_key_next([k EXCEPT !.rx_prev = k.rx, !.rx = @ + 1])

MayUpdateUnacked(k) == k.phase_sent >= KeyPackets
MayUpdate(k) == k.phase_sent >= KeyPackets /\ k.phase_acked

(* The keys after packet p, if they open it: in the present phase only the *)
(* present key is tried; in the other, the previous one and then the next. *)
open_short(k, p) ==
    CASE p.phase = k.key_phase -> IF p.gen = k.rx THEN {k} ELSE {}
      [] p.phase # k.key_phase /\ k.rx_prev # None /\ p.gen = k.rx_prev -> {k}
      [] OTHER -> IF p.gen = k.rx + 1 THEN {key_update_start(k)} ELSE {}

on_ack(k, largest) == [k EXCEPT !.phase_acked = @ \/ (largest # None /\ largest >= k.phase_first_sent)]

(* A packet goes out, under a new key if the present one has served its    *)
(* packets and one of them was acknowledged.                               *)
Send(e) ==
    LET k == IF MayUpdate(keys[e]) THEN key_update_start(keys[e]) ELSE keys[e]
        p == [pn |-> k.next_pn, gen |-> k.tx, phase |-> k.key_phase,
              ack |-> k.largest]
    IN /\ keys["client"].next_pn + keys["server"].next_pn < MaxSent
       /\ Cardinality(net[Peer(e)]) < MaxNet
       /\ keys' = [keys EXCEPT ![e] = [k EXCEPT !.next_pn = @ + 1, !.phase_sent = @ + 1]]
       /\ net' = [net EXCEPT ![Peer(e)] = @ \cup {p}]

(* A packet is read, or dropped for want of a key; the network may keep a  *)
(* copy.  Reading one again changes nothing here: seen() drops it.         *)
Receive(e, p) ==
    /\ \A k \in open_short(keys[e], p) :
          keys' = [keys EXCEPT ![e] =
                      [on_ack(k, p.ack) EXCEPT !.largest = Max({@, p.pn})]]
    /\ open_short(keys[e], p) = {} => UNCHANGED keys
    /\ net' \in {net, [net EXCEPT ![e] = @ \ {p}]}

Lose(e, p) ==
    /\ net' = [net EXCEPT ![e] = @ \ {p}]
    /\ UNCHANGED keys

(* Three probe timeouts after an update the old key is of no use.          *)
PrevExpires(e) ==
    /\ keys[e].rx_prev # None
    /\ keys' = [keys EXCEPT ![e].rx_prev = None]
    /\ UNCHANGED net

KeysInit ==
    /\ keys = [e \in Ends |-> NewKeys]
    /\ net = [e \in Ends |-> {}]

KeysNext ==
    \E e \in Ends :
        \/ Send(e) \/ PrevExpires(e)
        \/ \E p \in net[e] : Receive(e, p) \/ Lose(e, p)

KeysSpec == KeysInit /\ [][KeysNext]_keyVars

----------------------------------------------------------------------------
KeyType ==
    [tx : Nat, rx : Nat, rx_prev : Nat \cup {None}, key_phase : {0, 1},
     next_pn : Nat, phase_sent : Nat, phase_first_sent : Nat, phase_acked : BOOLEAN,
     largest : Nat \cup {None}]
PacketType == [pn : Nat, gen : Nat, phase : {0, 1}, ack : Nat \cup {None}]

KeysTyped ==
    /\ keys \in [Ends -> KeyType]
    /\ net \in [Ends -> SUBSET PacketType]

(* An end writes and reads under one generation, the phase is its parity,  *)
(* and the key kept for late packets is the one before.                    *)
OwnKeys(k) ==
    /\ k.rx = k.tx /\ k.key_phase = k.tx % 2
    /\ k.rx_prev \in {None, k.rx - 1}
    /\ k.phase_first_sent <= k.next_pn

(* What k's end wrote: under the present key since the phase began, and    *)
(* under older ones before.                                                *)
Written(k, p) ==
    /\ p.pn < k.next_pn /\ p.gen <= k.tx /\ p.phase = p.gen % 2
    /\ p.gen = k.tx <=> p.pn >= k.phase_first_sent

(* Whoever has read a packet of k's present phase has a key as new.        *)
Acknowledged(k, o, largest) ==
    largest < k.next_pn /\ (largest >= k.phase_first_sent => o.tx >= k.tx)

(* What an end's keys, the other's, and the packets from it and to it say  *)
(* of each other at all times.                                             *)
Agree(k, o, from, to) ==
    /\ OwnKeys(k)
    /\ k.tx <= o.tx + 1
    /\ k.phase_acked => o.tx >= k.tx
    /\ Acknowledged(k, o, o.largest)
    /\ \A p \in from : Written(k, p)
    /\ \A p \in to : Acknowledged(k, o, p.ack)

KeysInv ==
    /\ KeysTyped
    /\ \A e \in Ends : Agree(keys[e], keys[Peer(e)], net[Peer(e)], net[e])

(* However updates of both ends cross and packets are reordered, the ends  *)
(* are never two keys apart, and each writes and reads under one           *)
(* generation: so a packet under way that is not older than the reader's   *)
(* key always opens, and one of the key before while that one is kept      *)
(* (key_update_start, open_short).                                         *)
KeysMeet ==
    /\ keys["client"].tx - keys["server"].tx \in -1..1
    /\ \A e \in Ends :
          /\ keys[e].rx = keys[e].tx
          /\ \A p \in net[e] :
                p.gen >= keys[e].rx \/ (keys[e].rx_prev # None /\ p.gen = keys[e].rx - 1)
                => open_short(keys[e], p) # {}
=============================================================================
