-------------------------- MODULE LoopSelectorProofs --------------------------
(***************************************************************************)
(* Proofs about LoopSelector: its inductive invariant, the safety          *)
(* properties that follow, and that it implements LoopPromise.  They are   *)
(* of a program that keeps to the rule of Rearm = FALSE; without it the    *)
(* first of them is false.                                                 *)
(***************************************************************************)
EXTENDS LoopSelector, SequenceTheorems, FiniteSetTheorems, TLAPS

USE DEF thread, vars

-----------------------------------------------------------------------------
(* Lists.                                                                  *)

LEMMA MinOfTwo ==
  ASSUME NEW a \in Int, NEW b \in Int
  PROVE  Min({a, b}) \in {a, b} /\ Min({a, b}) <= a /\ Min({a, b}) <= b
  <1>1. \E x \in {a, b} : \A y \in {a, b} : x <= y
    <2>1. CASE a <= b BY <2>1
    <2>2. CASE b <= a BY <2>2
    <2>3. QED BY <2>1, <2>2
  <1>2. QED BY <1>1 DEF Min

LEMMA AppendLinks ==
  ASSUME NEW S, NEW q \in Seq(S), NEW n \in S, ~Contains(q, n), Distinct(q)
  PROVE  /\ Append(q, n) \in Seq(S) /\ Distinct(Append(q, n))
         /\ \A m \in S : Contains(Append(q, n), m) <=> Contains(q, m) \/ m = n
  <1>1. /\ Append(q, n) \in Seq(S) /\ Len(Append(q, n)) = Len(q) + 1
        /\ \A i \in 1 .. Len(q) : Append(q, n)[i] = q[i]
        /\ Append(q, n)[Len(q) + 1] = n
    BY AppendProperties
  <1>2. DOMAIN q = 1 .. Len(q) /\ DOMAIN Append(q, n) = 1 .. (Len(q) + 1) /\ Len(q) \in Nat
    BY <1>1, LenProperties
  <1>3. Distinct(Append(q, n)) BY <1>1, <1>2 DEF Distinct, Contains
  <1>4. ASSUME NEW m \in S PROVE Contains(Append(q, n), m) <=> Contains(q, m) \/ m = n
    BY <1>1, <1>2 DEF Contains
  <1>5. QED BY <1>1, <1>3, <1>4

LEMMA TailLinks ==
  ASSUME NEW S, NEW q \in Seq(S), q # <<>>, Distinct(q)
  PROVE  /\ Head(q) \in S /\ Tail(q) \in Seq(S) /\ Distinct(Tail(q))
         /\ Contains(q, Head(q))
         /\ \A m \in S : Contains(Tail(q), m) <=> Contains(q, m) /\ m # Head(q)
  <1>1. /\ Head(q) \in S /\ Tail(q) \in Seq(S) /\ Len(Tail(q)) = Len(q) - 1
        /\ Head(q) = q[1] /\ Len(q) \in Nat /\ Len(q) > 0
        /\ \A i \in 1 .. Len(Tail(q)) : Tail(q)[i] = q[i + 1]
    BY HeadTailProperties, EmptySeq, LenProperties
  <1>2. DOMAIN q = 1 .. Len(q) /\ DOMAIN Tail(q) = 1 .. (Len(q) - 1)
    BY <1>1, LenProperties
  <1>3. Distinct(Tail(q)) BY <1>1, <1>2 DEF Distinct
  <1>4. Contains(q, Head(q)) BY <1>1 DEF Contains
  <1>5. ASSUME NEW m \in S PROVE Contains(Tail(q), m) <=> Contains(q, m) /\ m # Head(q)
    <2>1. ASSUME Contains(Tail(q), m) PROVE Contains(q, m) /\ m # Head(q)
      <3>1. PICK i \in 1 .. (Len(q) - 1) : Tail(q)[i] = m BY <2>1, <1>1 DEF Contains
      <3>2. q[i + 1] = m /\ i + 1 \in 1 .. Len(q) BY <3>1, <1>1
      <3>3. QED BY <3>1, <3>2, <1>1, <1>2 DEF Contains, Distinct
    <2>2. ASSUME Contains(q, m), m # Head(q) PROVE Contains(Tail(q), m)
      <3>1. PICK i \in 1 .. Len(q) : q[i] = m BY <2>2 DEF Contains
      <3>2. i # 1 /\ i - 1 \in 1 .. (Len(q) - 1) BY <3>1, <2>2, <1>1
      <3>3. Tail(q)[i - 1] = m BY <3>1, <3>2, <1>1
      <3>4. QED BY <3>2, <3>3, <1>1 DEF Contains
    <2>3. QED BY <2>1, <2>2
  <1>6. QED BY <1>1, <1>3, <1>4, <1>5

-----------------------------------------------------------------------------
(* The invariant of a loop that runs, node by node.                        *)

(* NothingStranded, of one socket. *)
SentOK(r, t) ==
    /\ ~WatchFails /\ r.st = "open" /\ r.queued > 0 =>
          "W" \in r.want \/ "flush" \in r.done \cup t \/ "evwrite" \in t
    /\ r.wait => r.queued > r.wait_at

ConnOK(r) == r.conn => r.recv /\ "accept" \in r.done /\ r.err = "ok"

NodeOK(n, r, t, o) ==
    /\ n \in Socks => SockOK(r, t, o) /\ SentOK(r, t)
    /\ n \in Udps => UdpOK(r, t, o)
    /\ n \in Accs => AccOK(r, t, o) /\ ConnOK(r)

Inv ==
    /\ TypeOK /\ ThreadInv /\ LinkInv /\ phase # "gone"
    /\ \A n \in Nodes : NodeOK(n, nd[n], Left(n), owed[n])

LEMMA OrderIs ==
  /\ DOMAIN Order = {"connected", "received", "writable", "flush", "closed", "evread",
                     "evwrite", "udpwrite", "udpread", "evconnect", "evaccept"}
  /\ Order["connected"] = 1 /\ Order["received"] = 2 /\ Order["writable"] = 3
  /\ Order["flush"] = 4 /\ Order["closed"] = 5 /\ Order["evread"] = 1
  /\ Order["evwrite"] = 2 /\ Order["udpwrite"] = 1 /\ Order["udpread"] = 2
  /\ Order["evconnect"] = 1 /\ Order["evaccept"] = 1
  BY DEF Order, DeliveryOrder

LEMMA LeftIs == \A n : \A i \in DOMAIN Order : i \in Left(n) <=> InTodo(n, i)
  BY DEF Left

LEMMA InvIs == SelectorInv /\ phase # "gone" <=> Inv
  <1>1. ASSUME NEW s \in Socks
        PROVE (NodeOK(s, nd[s], Left(s), owed[s]) <=>
               SockOK(nd[s], Left(s), owed[s]) /\ SentOK(nd[s], Left(s)))
    BY <1>1, SelectorAssumption DEF NodeOK
  <1>2. ASSUME NEW u \in Udps
        PROVE NodeOK(u, nd[u], Left(u), owed[u]) <=> UdpOK(nd[u], Left(u), owed[u])
    BY <1>2, SelectorAssumption DEF NodeOK
  <1>3. ASSUME NEW a \in Accs
        PROVE NodeOK(a, nd[a], Left(a), owed[a]) <=> AccOK(nd[a], Left(a), owed[a]) /\ ConnOK(nd[a])
    BY <1>3, SelectorAssumption DEF NodeOK
  <1>4. (\A n \in Nodes : NodeOK(n, nd[n], Left(n), owed[n])) <=>
        /\ \A s \in Socks : SockOK(nd[s], Left(s), owed[s]) /\ SentOK(nd[s], Left(s))
        /\ \A u \in Udps : UdpOK(nd[u], Left(u), owed[u])
        /\ \A a \in Accs : AccOK(nd[a], Left(a), owed[a]) /\ ConnOK(nd[a])
    BY <1>1, <1>2, <1>3, Zenon DEF Nodes
  <1>5. NothingStranded <=> \A s \in Socks : SentOK(nd[s], Left(s))
    BY LeftIs, OrderIs DEF NothingStranded, SentOK, Pending
  <1>6. QED BY <1>4, <1>5 DEF SelectorInv, LastingInv, NodeInv, ConnOK, Inv

-----------------------------------------------------------------------------
(* A step that changes one node: what it must leave, and the links.        *)

(* node_queue's record; bits = {} stands for a node that is not queued.    *)
Queued(r, bits) == IF bits = {} THEN r ELSE [r EXCEPT !.done = @ \cup bits, !.flagq = TRUE]

PutOrQueue(n, r, bits) ==
    \/ bits = {} /\ Put(n, r) /\ doneList' = doneList
    \/ bits # {} /\ PutQueued(n, r, bits)

LEMMA QueuedType ==
  ASSUME NEW r \in NodeType, NEW bits \in SUBSET Bits
  PROVE  /\ Queued(r, bits) \in NodeType
         /\ Queued(r, bits).done = r.done \cup bits
         /\ Queued(r, bits).flagq = (r.flagq \/ bits # {})
         /\ \A f \in {"st", "reg", "want", "recv", "wait", "wait_at", "err", "send_err", "queued", "conn"} :
                Queued(r, bits)[f] = r[f]
  <1>1. CASE bits = {} BY <1>1 DEF Queued, NodeType
  <1>2. CASE bits # {} BY <1>2 DEF Queued, NodeType
  <1>3. QED BY <1>1, <1>2

LEMMA QueuedNode ==
  ASSUME TypeOK, NEW n \in Nodes, NEW r \in NodeType, NEW bits \in SUBSET Bits, PutOrQueue(n, r, bits)
  PROVE  /\ nd' \in [Nodes -> NodeType]
         /\ nd'[n] = Queued(r, bits) /\ \A m \in Nodes \ {n} : nd'[m] = nd[m]
  <1>1. Queued(r, bits) \in NodeType BY QueuedType
  <1>2. nd' = [nd EXCEPT ![n] = Queued(r, bits)]
    BY DEF PutOrQueue, PutQueued, NodeQueue, Put, Queued
  <1>3. QED BY <1>1, <1>2 DEF TypeOK

LEMMA QueueKeepsLinks ==
  ASSUME TypeOK, LinkInv, NEW n \in Nodes, NEW r \in NodeType, NEW bits \in SUBSET Bits,
         PutOrQueue(n, r, bits), pass' = pass,
         r.flagq = nd[n].flagq, bits = {} => (r.flagq <=> r.done # {})
  PROVE  LinkInv' /\ doneList' \in Seq(Nodes)
  <1>1. /\ nd'[n] = Queued(r, bits) /\ \A m \in Nodes \ {n} : nd'[m] = nd[m]
        /\ nd'[n].done = r.done \cup bits /\ nd'[n].flagq = (r.flagq \/ bits # {})
    BY QueuedNode, QueuedType
  <1>2. CASE bits = {} \/ r.flagq
    <2>1. doneList' = doneList BY <1>2 DEF PutOrQueue, PutQueued, NodeQueue
    <2>2. nd'[n].flagq = nd[n].flagq /\ (nd'[n].flagq <=> nd'[n].done # {})
      <3>1. r.flagq \in BOOLEAN BY DEF NodeType
      <3>2. CASE bits = {} BY <1>1, <3>1, <3>2
      <3>3. CASE bits # {} BY <1>1, <1>2, <3>1, <3>3
      <3>4. QED BY <3>2, <3>3
    <2>3. QED BY <1>1, <2>1, <2>2 DEF LinkInv, TypeOK
  <1>3. CASE bits # {} /\ ~r.flagq
    <2>1. doneList' = Append(doneList, n) BY <1>3 DEF PutOrQueue, PutQueued, NodeQueue
    <2>2. ~Contains(doneList, n) /\ ~Contains(pass, n) /\ doneList \in Seq(Nodes) /\ Distinct(doneList)
      BY <1>3 DEF LinkInv, TypeOK
    <2>3. /\ doneList' \in Seq(Nodes) /\ Distinct(doneList')
          /\ \A m \in Nodes : Contains(doneList', m) <=> Contains(doneList, m) \/ m = n
      BY <2>1, <2>2, AppendLinks
    <2>4. nd'[n].flagq /\ nd'[n].done # {} BY <1>1, <1>3
    <2>5. ASSUME NEW m \in Nodes
          PROVE  /\ nd'[m].flagq <=> Contains(doneList', m) \/ Contains(pass', m)
                 /\ ~(Contains(doneList', m) /\ Contains(pass', m))
                 /\ nd'[m].flagq <=> nd'[m].done # {}
      <3>1. CASE m = n BY <3>1, <2>2, <2>3, <2>4
      <3>2. CASE m # n BY <3>2, <2>3, <1>1 DEF LinkInv
      <3>3. QED BY <3>1, <3>2
    <2>6. Distinct(pass') BY DEF LinkInv
    <2>7. QED BY <2>3, <2>5, <2>6 DEF LinkInv
  <1>4. QED BY <1>2, <1>3

(* What the others keep. *)
LEMMA OthersKept ==
  ASSUME Inv, NEW n \in Nodes, \A m \in Nodes \ {n} : nd'[m] = nd[m] /\ owed'[m] = owed[m],
         \A m \in Nodes \ {n} : \A i \in DOMAIN Order : InTodo(m, i)' <=> InTodo(m, i),
         NodeOK(n, nd'[n], Left(n)', owed'[n])
  PROVE  \A m \in Nodes : NodeOK(m, nd'[m], Left(m)', owed'[m])
  <1> SUFFICES ASSUME NEW m \in Nodes \ {n} PROVE NodeOK(m, nd'[m], Left(m)', owed'[m])
    OBVIOUS
  <1>1. Left(m)' = Left(m) BY DEF Left
  <1>2. QED BY <1>1 DEF Inv

-----------------------------------------------------------------------------
(* A call of the program's: the thread stays where it is.                  *)

LEMMA AppKeepsInv ==
  ASSUME Inv, NEW n \in Nodes, NEW r \in NodeType, NEW bits \in SUBSET Bits, PutOrQueue(n, r, bits),
         r.flagq = nd[n].flagq, bits = {} => (r.flagq <=> r.done # {}),
         UNCHANGED <<thread, call>>,
         batch' \in SUBSET batch, r.reg \/ ~nd[n].reg \/ \A e \in batch' : e.node # n,
         owed' \in [Nodes -> [Ops -> Int]], \A m \in Nodes \ {n} : owed'[m] = owed[m],
         NodeOK(n, Queued(r, bits), Left(n), owed'[n])
  PROVE  Inv'
  <1>1. /\ nd' \in [Nodes -> NodeType] /\ nd'[n] = Queued(r, bits) /\ nd'[n].reg = r.reg
        /\ \A m \in Nodes \ {n} : nd'[m] = nd[m]
    BY QueuedNode, QueuedType DEF Inv
  <1>2. LinkInv' /\ doneList' \in Seq(Nodes) BY QueueKeepsLinks DEF Inv
  <1>3. TypeOK' BY <1>1, <1>2 DEF Inv, TypeOK
  <1>4. ThreadInv'
    <2>1. \A e \in batch' : nd'[e.node].reg
      <3> SUFFICES ASSUME NEW e \in batch' PROVE nd'[e.node].reg
        OBVIOUS
      <3>1. e \in batch /\ e.node \in Nodes /\ nd[e.node].reg BY DEF Inv, ThreadInv
      <3>2. CASE e.node = n BY <3>1, <3>2, <1>1
      <3>3. CASE e.node # n BY <3>1, <3>3, <1>1
      <3>4. QED BY <3>2, <3>3
    <2>2. batch' \subseteq [node : Nodes, got : SUBSET {"R", "W", "F"}] BY DEF Inv, ThreadInv
    <2>3. phase # "batch" => batch' = {} BY DEF Inv, ThreadInv
    <2>4. QED BY <2>1, <2>2, <2>3 DEF Inv, ThreadInv, AtRest
  <1>5. \A m \in Nodes : InTodo(m, "connected")' = InTodo(m, "connected") /\ Left(m)' = Left(m)
    BY DEF Left, InTodo
  <1>6. \A m \in Nodes : NodeOK(m, nd'[m], Left(m)', owed'[m])
    BY <1>1, <1>5 DEF Inv
  <1>7. QED BY <1>2, <1>3, <1>4, <1>6 DEF Inv

-----------------------------------------------------------------------------
(* What a step that changes one node means to LoopPromise.                 *)

LifeOf(n, r) == IF n \in Accs THEN "attached"
                ELSE CASE r.st = "none" -> "unused"
                       [] r.st = "closing" -> "closing"
                       [] OTHER -> "attached"

FlightOf(n, r, t) ==
    IF n \in Accs THEN (IF r.recv THEN {"accept"} ELSE {})
    ELSE (IF r.recv \/ "received" \in r.done \cup t THEN {"received"} ELSE {}) \cup
         (IF r.st = "connecting" \/ "connected" \in r.done \cup t THEN {"connected"} ELSE {})

lives == [n \in Nodes |-> Life(n)]
flights == [n \in Nodes |-> InFlight(n)]
Promised == [Promise!Next]_(Promise!vars)

LEMMA MapIs ==
  ASSUME NEW n PROVE Life(n) = LifeOf(n, nd[n]) /\ InFlight(n) = FlightOf(n, nd[n], Left(n))
  <1>1. \A o \in {"received", "connected"} : Pending(n, o) <=> o \in nd[n].done \cup Left(n)
    BY LeftIs, OrderIs DEF Pending
  <1>2. Life(n) = LifeOf(n, nd[n]) BY DEF Life, LifeOf
  <1>3. InFlight(n) = FlightOf(n, nd[n], Left(n)) BY <1>1 DEF InFlight, FlightOf
  <1>4. QED BY <1>2, <1>3

LEMMA MapNext ==
  ASSUME NEW n PROVE Life(n)' = LifeOf(n, nd'[n]) /\ InFlight(n)' = FlightOf(n, nd'[n], Left(n)')
  <1>1. \A o \in {"received", "connected"} : Pending(n, o)' <=> o \in nd'[n].done \cup Left(n)'
    BY OrderIs DEF Pending, Left
  <1>2. Life(n)' = LifeOf(n, nd'[n]) BY DEF Life, LifeOf
  <1>3. InFlight(n)' = FlightOf(n, nd'[n], Left(n)') BY <1>1 DEF InFlight, FlightOf
  <1>4. QED BY <1>2, <1>3

LEMMA MapOfStep ==
  ASSUME NEW n \in Nodes, \A m \in Nodes \ {n} : nd'[m] = nd[m],
         \A m \in Nodes \ {n} : \A i \in DOMAIN Order : InTodo(m, i)' <=> InTodo(m, i)
  PROVE  /\ lives' = [lives EXCEPT ![n] = LifeOf(n, nd'[n])]
         /\ flights' = [flights EXCEPT ![n] = FlightOf(n, nd'[n], Left(n)')]
         /\ lives[n] = LifeOf(n, nd[n]) /\ flights[n] = FlightOf(n, nd[n], Left(n))
  <1>1. \A m \in Nodes \ {n} : Left(m)' = Left(m) BY DEF Left
  <1>2. \A m \in Nodes \ {n} : Life(m)' = Life(m) /\ InFlight(m)' = InFlight(m)
    BY <1>1, MapIs, MapNext
  <1>3. Life(n)' = LifeOf(n, nd'[n]) /\ InFlight(n)' = FlightOf(n, nd'[n], Left(n)')
    BY MapNext
  <1>4. lives' = [m \in Nodes |-> Life(m)'] /\ flights' = [m \in Nodes |-> InFlight(m)']
    BY DEF lives, flights
  <1>5. lives' = [lives EXCEPT ![n] = LifeOf(n, nd'[n])] BY <1>2, <1>3, <1>4 DEF lives
  <1>6. flights' = [flights EXCEPT ![n] = FlightOf(n, nd'[n], Left(n)')] BY <1>2, <1>3, <1>4 DEF flights
  <1>7. lives[n] = LifeOf(n, nd[n]) /\ flights[n] = FlightOf(n, nd[n], Left(n)) BY MapIs DEF lives, flights
  <1>8. QED BY <1>5, <1>6, <1>7

(* What a call may do to a life and to what is in flight. *)
Allowed(n, l, l1, f, f1) ==
    \/ l1 = l /\ f1 = f
    \/ l = "unused" /\ l1 = "attached" /\ f1 \in {f, {"connected"}}
    \/ l = "attached" /\ l1 = "closing" /\ f1 = f /\ n \notin Accs
    \/ l = "attached" /\ l1 = "attached"
          /\ \E o \in {"received", "connected", "accept"} : o \notin f /\ f1 = f \cup {o}

(* What an answer may do to them. *)
Answers(n, l, l1, f, f1) ==
    \/ call' = call /\ l1 = l /\ f1 = f
    \/ l1 = l /\ \E o \in {"received", "connected", "accept"} : o \in f /\ f1 = f \ {o} /\ call' = <<n, o>>
    \/ l1 = l /\ f1 = f /\ l # "unused" /\ call' = <<n, "writable">>
    \/ l = "closing" /\ l1 = "unused" /\ f = {} /\ f1 = {} /\ call' = <<n, "closed">>

(* The steps of LoopPromise, in those terms. *)
LEMMA PromiseOfStep ==
  ASSUME phase # "gone", phase' # "gone", NEW n \in Nodes,
         \A m \in Nodes \ {n} : nd'[m] = nd[m],
         \A m \in Nodes \ {n} : \A i \in DOMAIN Order : InTodo(m, i)' <=> InTodo(m, i),
         NEW l, NEW l1, NEW f, NEW f1,
         l = LifeOf(n, nd[n]), l1 = LifeOf(n, nd'[n]),
         f = FlightOf(n, nd[n], Left(n)), f1 = FlightOf(n, nd'[n], Left(n)'),
         \/ call' = call /\ Allowed(n, l, l1, f, f1)
         \/ call = <<>> /\ Answers(n, l, l1, f, f1)
  PROVE  Promised
  <1>1. /\ lives' = [lives EXCEPT ![n] = l1] /\ flights' = [flights EXCEPT ![n] = f1]
        /\ lives[n] = l /\ flights[n] = f
    BY MapOfStep
  <1>2. l1 = l => lives' = lives BY <1>1 DEF lives
  <1>3. f1 = f => flights' = flights BY <1>1 DEF flights
  <1>4. ~(phase = "gone") /\ (phase = "gone")' = (phase = "gone") OBVIOUS
  <1> USE <1>1, <1>2, <1>3, <1>4 DEF lives, flights
  <1>5. CASE call' = call /\ l1 = l /\ f1 = f
    BY <1>5 DEF Promised, Promise!vars
  <1>6. CASE call' = call /\ l = "unused" /\ l1 = "attached" /\ f1 = f
    <2>1. Promise!Attach(n) BY <1>6 DEF Promise!Attach
    <2>2. QED BY <2>1 DEF Promised, Promise!Next
  <1>7. CASE call' = call /\ l = "unused" /\ l1 = "attached" /\ f1 = {"connected"}
    <2>1. Promise!Connect(n) BY <1>7 DEF Promise!Connect
    <2>2. QED BY <2>1 DEF Promised, Promise!Next
  <1>8. CASE call' = call /\ l = "attached" /\ l1 = "closing" /\ f1 = f /\ n \notin Accs
    <2>1. Promise!Close(n) BY <1>8 DEF Promise!Close
    <2>2. QED BY <2>1 DEF Promised, Promise!Next
  <1>9. ASSUME NEW o \in {"received", "connected", "accept"}, call' = call, l = "attached",
               l1 = "attached", o \notin f, f1 = f \cup {o}
        PROVE  Promised
    <2>1. Promise!Start(n, o) BY <1>9 DEF Promise!Start
    <2>2. QED BY <2>1 DEF Promised, Promise!Next, Promise!Operations
  <1>10. ASSUME NEW o \in {"received", "connected", "accept"}, call = <<>>, l1 = l, o \in f,
                f1 = f \ {o}, call' = <<n, o>>
         PROVE  Promised
    <2>1. Promise!Answer(n, o) BY <1>10 DEF Promise!Answer
    <2>2. QED BY <2>1 DEF Promised, Promise!Next, Promise!Operations
  <1>11. CASE call = <<>> /\ l1 = l /\ f1 = f /\ l # "unused" /\ call' = <<n, "writable">>
    <2>1. Promise!Notify(n) BY <1>11 DEF Promise!Notify
    <2>2. QED BY <2>1 DEF Promised, Promise!Next
  <1>12. CASE call = <<>> /\ l = "closing" /\ l1 = "unused" /\ f = {} /\ f1 = {} /\ call' = <<n, "closed">>
    <2>1. Promise!Closed(n) BY <1>12 DEF Promise!Closed
    <2>2. QED BY <2>1 DEF Promised, Promise!Next
  <1>13. QED BY <1>5, <1>6, <1>7, <1>8, <1>9, <1>10, <1>11, <1>12 DEF Allowed, Answers

(* Both, for a call of the program's. *)
LEMMA AppStep ==
  ASSUME Inv, NEW n \in Nodes, NEW r \in NodeType, NEW bits \in SUBSET Bits, PutOrQueue(n, r, bits),
         r.flagq = nd[n].flagq, bits = {} => (r.flagq <=> r.done # {}),
         UNCHANGED <<thread, call>>,
         batch' \in SUBSET batch, r.reg \/ ~nd[n].reg \/ \A e \in batch' : e.node # n,
         owed' \in [Nodes -> [Ops -> Int]], \A m \in Nodes \ {n} : owed'[m] = owed[m],
         NodeOK(n, Queued(r, bits), Left(n), owed'[n]),
         Allowed(n, LifeOf(n, nd[n]), LifeOf(n, Queued(r, bits)),
                 FlightOf(n, nd[n], Left(n)), FlightOf(n, Queued(r, bits), Left(n)))
  PROVE  Inv' /\ Promised
  <1>1. Inv' BY AppKeepsInv
  <1>2. nd'[n] = Queued(r, bits) /\ \A m \in Nodes \ {n} : nd'[m] = nd[m] BY QueuedNode DEF Inv
  <1>3. Left(n)' = Left(n) BY DEF Left, InTodo
  <1>4. \A m \in Nodes \ {n} : \A i \in DOMAIN Order : InTodo(m, i)' <=> InTodo(m, i)
    BY DEF InTodo
  <1>5. phase # "gone" /\ phase' # "gone" BY DEF Inv
  <1>6. Promised
    <2> DEFINE l == LifeOf(n, nd[n])
               l1 == LifeOf(n, nd'[n])
               f == FlightOf(n, nd[n], Left(n))
               f1 == FlightOf(n, nd'[n], Left(n)')
    <2>1. Allowed(n, l, l1, f, f1) BY <1>2, <1>3
    <2> HIDE DEF l, l1, f, f1
    <2>2. QED BY <2>1, <1>2, <1>4, <1>5, PromiseOfStep DEF l, l1, f, f1
  <1>7. QED BY <1>1, <1>6

-----------------------------------------------------------------------------
(* Each call of the program's.                                             *)

LEMMA ZeroedType == Zeroed \in NodeType
  <1>1. 0 \in 0 .. 1 /\ 0 \in 0 .. Limit BY SelectorAssumption
  <1>2. QED BY <1>1 DEF Zeroed, NodeType, Bits

LEMMA AttachStep == ASSUME Inv, NEW s \in Socks \cup Udps, Attach(s) PROVE Inv' /\ Promised
  <1> DEFINE r == [Zeroed EXCEPT !.st = "open"]
             t == Left(s)
  <1>1. s \in Nodes /\ s \notin Accs /\ nd[s] \in NodeType
    BY SelectorAssumption DEF Nodes, Inv, TypeOK
  <1>2. r \in NodeType /\ r = Queued(r, {}) BY ZeroedType DEF NodeType, Queued
  <1>3. nd[s].st = "none" /\ t = {} /\ ~nd[s].recv /\ nd[s].done = {} /\ ~nd[s].reg
    BY <1>1 DEF Attach, Inv, NodeOK, SockOK, UdpOK, LifeOK
  <1>4. ~nd[s].flagq BY <1>1, <1>3 DEF Inv, LinkInv
  <1>5. NodeOK(s, r, t, owed[s])
    BY <1>1, <1>3 DEF Inv, NodeOK, SockOK, UdpOK, LifeOK, SentOK, Zeroed, Count
  <1>6. /\ PutOrQueue(s, r, {}) /\ UNCHANGED <<thread, call, batch, owed>>
    BY DEF Attach, PutOrQueue
  <1>7. r.flagq = nd[s].flagq /\ (r.flagq <=> r.done # {})
    BY <1>1, <1>4 DEF Zeroed, NodeType
  <1>8. Allowed(s, LifeOf(s, nd[s]), LifeOf(s, r), FlightOf(s, nd[s], t), FlightOf(s, r, t))
    BY <1>1, <1>3 DEF LifeOf, FlightOf, Zeroed, Allowed
  <1>9. owed \in [Nodes -> [Ops -> Int]] BY DEF Inv, TypeOK
  <1> HIDE DEF r
  <1>10. QED BY <1>1, <1>2, <1>3, <1>5, <1>6, <1>7, <1>8, <1>9, AppStep

LEMMA StartOwes ==
  ASSUME TypeOK, NEW n \in Nodes, NEW o \in Ops, Start(n, o)
  PROVE  /\ owed' \in [Nodes -> [Ops -> Int]] /\ \A m \in Nodes \ {n} : owed'[m] = owed[m]
         /\ owed'[n][o] = owed[n][o] + 1 /\ \A k \in Ops \ {o} : owed'[n][k] = owed[n][k]
  BY DEF TypeOK, Start

LEMMA ConnectStep == ASSUME Inv, NEW s \in Socks, Connect(s) PROVE Inv' /\ Promised
  <1> DEFINE z == [Zeroed EXCEPT !.st = "connecting"]
             w == [z EXCEPT !.reg = TRUE, !.want = {"W"}]
             t == Left(s)
  <1>1. s \in Nodes /\ s \notin Accs /\ s \notin Udps /\ nd[s] \in NodeType
    BY SelectorAssumption DEF Nodes, Inv, TypeOK
  <1>2. z \in NodeType /\ w \in NodeType /\ w = Queued(w, {}) BY ZeroedType DEF NodeType, Queued
  <1>3. nd[s].st = "none" /\ t = {} /\ ~nd[s].recv /\ nd[s].done = {} /\ ~nd[s].reg
    BY <1>1 DEF Connect, Inv, NodeOK, SockOK, LifeOK
  <1>4. ~nd[s].flagq BY <1>1, <1>3 DEF Inv, LinkInv
  <1>5. /\ owed' \in [Nodes -> [Ops -> Int]] /\ \A m \in Nodes \ {s} : owed'[m] = owed[m]
        /\ owed'[s]["connected"] = owed[s]["connected"] + 1 /\ owed'[s]["received"] = owed[s]["received"]
    BY <1>1, StartOwes DEF Connect, Inv, Ops
  <1>6. owed[s]["connected"] = 0 /\ owed[s]["received"] = 0
    BY <1>1, <1>3 DEF Inv, NodeOK, SockOK, Count
  <1>7. z.flagq = nd[s].flagq /\ w.flagq = nd[s].flagq /\ (w.flagq <=> w.done # {})
    BY <1>1, <1>4 DEF Zeroed, NodeType
  <1>8. UNCHANGED <<thread, call, batch>> BY DEF Connect
  <1>9. LifeOf(s, nd[s]) = "unused" BY <1>1, <1>3 DEF LifeOf
  <1>10. CASE PutQueued(s, z, {"connected"})
    <2> DEFINE q == Queued(z, {"connected"})
    <2>1. PutOrQueue(s, z, {"connected"}) /\ {"connected"} \in SUBSET Bits BY <1>10 DEF PutOrQueue, Bits
    <2>2. q.st = "connecting" /\ q.done = {"connected"} /\ ~q.recv /\ ~q.wait /\ q.queued = 0
      BY <1>2, <2>1, QueuedType DEF Zeroed
    <2> HIDE DEF z, q
    <2>3. NodeOK(s, q, t, owed'[s])
      BY <2>2, <1>1, <1>3, <1>5, <1>6, OrderIs DEF NodeOK, SockOK, LifeOK, SentOK, Count
    <2>4. Allowed(s, LifeOf(s, nd[s]), LifeOf(s, q), FlightOf(s, nd[s], t), FlightOf(s, q, t))
      BY <2>2, <1>1, <1>3, <1>9 DEF LifeOf, FlightOf, Allowed
    <2>5. QED BY <1>1, <1>2, <1>3, <1>5, <1>7, <1>8, <2>1, <2>3, <2>4, AppStep DEF q
  <1>11. CASE Put(s, w) /\ UNCHANGED doneList
    <2>1. PutOrQueue(s, w, {}) BY <1>11 DEF PutOrQueue
    <2>2. w.st = "connecting" /\ w.done = {} /\ ~w.recv /\ ~w.wait /\ w.queued = 0 BY DEF Zeroed
    <2> HIDE DEF w
    <2>3. NodeOK(s, w, t, owed'[s])
      BY <2>2, <1>1, <1>3, <1>5, <1>6, OrderIs DEF NodeOK, SockOK, LifeOK, SentOK, Count
    <2>4. Allowed(s, LifeOf(s, nd[s]), LifeOf(s, w), FlightOf(s, nd[s], t), FlightOf(s, w, t))
      BY <2>2, <1>1, <1>3, <1>9 DEF LifeOf, FlightOf, Allowed
    <2>5. QED BY <1>1, <1>2, <1>3, <1>5, <1>7, <1>8, <2>1, <2>3, <2>4, AppStep
  <1>12. QED BY <1>10, <1>11 DEF Connect

(* What node_watch changes, and what it leaves. *)
LEMMA WatchesGive ==
  ASSUME NEW r \in NodeType, NEW w \in SUBSET {"R", "W"}, NEW x \in Watches(r, w)
  PROVE  /\ x \in NodeType /\ (r.reg => x.reg)
         /\ ~r.reg /\ w = {} => x = r
         /\ x.want = w \/ ((WatchFails \/ w = {}) /\ x.want = r.want)
         /\ x.st = r.st /\ x.recv = r.recv /\ x.wait = r.wait /\ x.wait_at = r.wait_at
         /\ x.err = r.err /\ x.send_err = r.send_err /\ x.queued = r.queued /\ x.conn = r.conn
         /\ x.done = r.done /\ x.flagq = r.flagq
  <1>1. CASE x = r BY ZenonT(20), <1>1 DEF Watches, NodeType
  <1>2. CASE x = [r EXCEPT !.reg = TRUE, !.want = w] /\ ~(~r.reg /\ w = {}) BY <1>2 DEF NodeType
  <1>3. QED BY <1>1, <1>2 DEF Watches

(* A node as a call finds it. *)
LEMMA NodeFacts ==
  ASSUME Inv, NEW n \in Nodes
  PROVE  /\ nd[n] \in NodeType /\ NodeOK(n, nd[n], Left(n), owed[n])
         /\ (nd[n].flagq <=> nd[n].done # {}) /\ nd[n].flagq \in BOOLEAN
         /\ owed \in [Nodes -> [Ops -> Int]]
  BY DEF Inv, TypeOK, LinkInv, NodeType

LEMMA RecvStep == ASSUME Inv, ~Rearm, NEW s \in Socks, Recv(s) PROVE Inv' /\ Promised
  <1> DEFINE t == Left(s)
  <1>1. s \in Nodes /\ s \notin Accs /\ s \notin Udps BY SelectorAssumption DEF Nodes
  <1>2. PICK r \in Watches(nd[s], nd[s].want \cup {"R"}) :
            IF nd[s].want \cup {"R"} \subseteq r.want
            THEN Put(s, [r EXCEPT !.recv = TRUE]) /\ Start(s, "received")
            ELSE Put(s, r) /\ UNCHANGED owed
    BY DEF Recv, Arm
  <1>3. /\ r \in NodeType /\ (nd[s].reg => r.reg) /\ (nd[s].want \subseteq r.want)
        /\ r.st = "open" /\ ~r.recv /\ r.wait = nd[s].wait /\ r.wait_at = nd[s].wait_at
        /\ r.queued = nd[s].queued /\ r.done = nd[s].done /\ r.flagq = nd[s].flagq
        /\ nd[s].st = "open" /\ ~nd[s].recv
    <2>1. nd[s].want \cup {"R"} \in SUBSET {"R", "W"} BY <1>1, NodeFacts DEF NodeType
    <2>2. QED BY SMTT(20), <1>1, <2>1, NodeFacts, WatchesGive DEF Recv, NodeType
  <1>4. UNCHANGED <<thread, call, batch, doneList>> BY DEF Recv, Arm
  <1>5. "received" \notin nd[s].done \cup t
    <2>1. owed[s]["received"] = 0 BY DEF Recv
    <2>2. QED BY <2>1, <1>1, NodeFacts DEF NodeOK, SockOK, Count
  <1>6. CASE Put(s, [r EXCEPT !.recv = TRUE]) /\ Start(s, "received")
    <2> DEFINE q == [r EXCEPT !.recv = TRUE]
    <2>1. /\ q \in NodeType /\ q = Queued(q, {}) /\ q.recv /\ q.reg = r.reg /\ q.want = r.want /\ q.st = r.st
          /\ q.wait = r.wait /\ q.wait_at = r.wait_at /\ q.queued = r.queued /\ q.done = r.done
          /\ q.flagq = r.flagq
      BY <1>3 DEF NodeType, Queued
    <2>2. PutOrQueue(s, q, {}) BY <1>4, <1>6 DEF PutOrQueue
    <2> HIDE DEF q
    <2>3. /\ owed' \in [Nodes -> [Ops -> Int]] /\ \A m \in Nodes \ {s} : owed'[m] = owed[m]
          /\ owed'[s]["received"] = owed[s]["received"] + 1 /\ owed'[s]["connected"] = owed[s]["connected"]
      BY <1>1, <1>6, StartOwes DEF Inv, Ops
    <2>4. NodeOK(s, q, t, owed'[s])
      BY <2>1, <2>3, <1>1, <1>3, <1>5, NodeFacts DEF NodeOK, SockOK, LifeOK, SentOK, Count
    <2>5. Allowed(s, LifeOf(s, nd[s]), LifeOf(s, q), FlightOf(s, nd[s], t), FlightOf(s, q, t))
      <3>1. LifeOf(s, nd[s]) = "attached" /\ LifeOf(s, q) = "attached" BY <2>1, <1>1, <1>3 DEF LifeOf
      <3>2. /\ "received" \notin FlightOf(s, nd[s], t)
            /\ FlightOf(s, q, t) = FlightOf(s, nd[s], t) \cup {"received"}
        BY <2>1, <1>1, <1>3, <1>5 DEF FlightOf
      <3>3. QED BY <3>1, <3>2 DEF Allowed
    <2>6. QED BY <1>1, <1>3, <1>4, NodeFacts, <2>1, <2>2, <2>3, <2>4, <2>5, AppStep
  <1>7. CASE Put(s, r) /\ UNCHANGED owed
    <2>1. PutOrQueue(s, r, {}) /\ Queued(r, {}) = r BY <1>4, <1>7 DEF PutOrQueue, Queued
    <2>2. NodeOK(s, r, t, owed'[s])
      BY <1>1, <1>3, <1>7, NodeFacts DEF NodeOK, SockOK, LifeOK, SentOK, Count
    <2>3. Allowed(s, LifeOf(s, nd[s]), LifeOf(s, r), FlightOf(s, nd[s], t), FlightOf(s, r, t))
      BY <1>1, <1>3 DEF LifeOf, FlightOf, Allowed
    <2>4. QED BY <1>1, <1>3, <1>4, <1>7, NodeFacts, <2>1, <2>2, <2>3, AppStep
  <1>8. QED BY <1>2, <1>6, <1>7

LEMMA RecvCancelStep == ASSUME Inv, NEW s \in Socks, RecvCancel(s) PROVE Inv' /\ Promised
  <1> DEFINE t == Left(s)
             r == [nd[s] EXCEPT !.recv = FALSE, !.err = "cancelled"]
             q == Queued(r, {"received"})
  <1>1. s \in Nodes /\ s \notin Accs /\ s \notin Udps BY SelectorAssumption DEF Nodes
  <1>2. UNCHANGED <<thread, call, batch, owed>> /\ PutOrQueue(s, r, {"received"}) /\ nd[s].recv
    BY DEF RecvCancel, SelRecvCancel, PutOrQueue
  <1>3. /\ r \in NodeType /\ ~r.recv /\ r.want = nd[s].want /\ r.st = nd[s].st /\ r.wait = nd[s].wait
        /\ r.wait_at = nd[s].wait_at /\ r.queued = nd[s].queued /\ r.done = nd[s].done
        /\ r.flagq = nd[s].flagq /\ r.reg = nd[s].reg
    BY ZenonT(20), <1>1, NodeFacts DEF NodeType
  <1> HIDE DEF r
  <1>4. {"received"} \in SUBSET Bits BY DEF Bits
  <1>5. /\ ~q.recv /\ q.want = nd[s].want /\ q.st = nd[s].st /\ q.wait = nd[s].wait
        /\ q.wait_at = nd[s].wait_at /\ q.queued = nd[s].queued /\ q.done = nd[s].done \cup {"received"}
    BY <1>3, <1>4, QueuedType
  <1> HIDE DEF q
  <1>6. NodeOK(s, q, t, owed'[s])
    BY <1>1, <1>2, <1>5, NodeFacts, OrderIs DEF NodeOK, SockOK, LifeOK, SentOK, Count
  <1>7. Allowed(s, LifeOf(s, nd[s]), LifeOf(s, q), FlightOf(s, nd[s], t), FlightOf(s, q, t))
    BY <1>1, <1>2, <1>5 DEF LifeOf, FlightOf, Allowed
  <1>8. QED BY <1>1, <1>2, <1>3, <1>4, <1>6, <1>7, NodeFacts, AppStep DEF q

LEMMA SendStep == ASSUME Inv, NEW s \in Socks, NEW n \in 1 .. 2, Send(s, n) PROVE Inv' /\ Promised
  <1> DEFINE t == Left(s)
  <1>1. s \in Nodes /\ s \notin Accs /\ s \notin Udps BY SelectorAssumption DEF Nodes
  <1>2. UNCHANGED <<thread, call, batch, owed, doneList>> /\ nd[s].st = "open" BY DEF Send
  <1>3. ASSUME NEW r \in NodeType, Put(s, r), nd[s].reg => r.reg, r.recv = nd[s].recv,
               r.st = "open", r.done = nd[s].done, r.flagq = nd[s].flagq,
               SentOK(r, t)
        PROVE  Inv' /\ Promised
    <2>1. PutOrQueue(s, r, {}) /\ Queued(r, {}) = r BY <1>2, <1>3 DEF PutOrQueue, Queued
    <2>2. NodeOK(s, r, t, owed'[s])
      BY <1>1, <1>2, <1>3, NodeFacts DEF NodeOK, SockOK, LifeOK
    <2>3. Allowed(s, LifeOf(s, nd[s]), LifeOf(s, r), FlightOf(s, nd[s], t), FlightOf(s, r, t))
      BY <1>1, <1>2, <1>3 DEF LifeOf, FlightOf, Allowed
    <2>4. QED BY <1>1, <1>2, <1>3, NodeFacts, <2>1, <2>2, <2>3, AppStep
  <1>4. CASE Put(s, [nd[s] EXCEPT !.send_err = TRUE])
    <2> DEFINE r == [nd[s] EXCEPT !.send_err = TRUE]
    <2>1. /\ r \in NodeType /\ r.reg = nd[s].reg /\ r.recv = nd[s].recv /\ r.st = "open"
          /\ r.done = nd[s].done /\ r.flagq = nd[s].flagq /\ r.queued = nd[s].queued
          /\ r.want = nd[s].want /\ r.wait = nd[s].wait /\ r.wait_at = nd[s].wait_at
      BY <1>1, <1>2, NodeFacts DEF NodeType
    <2> HIDE DEF r
    <2>2. SentOK(r, t) BY <1>1, <1>2, <2>1, NodeFacts DEF NodeOK, SentOK
    <2>3. QED BY <1>3, <1>4, <2>1, <2>2 DEF r
  <1>5. ASSUME NEW gone \in IF nd[s].queued = 0 THEN 0 .. n ELSE {0},
               NEW r \in Kick([nd[s] EXCEPT !.queued = Min({@ + n - gone, Limit})]), Put(s, r)
        PROVE  Inv' /\ Promised
    <2> DEFINE k == Min({nd[s].queued + n - gone, Limit})
               b == [nd[s] EXCEPT !.queued = k]
    <2>1. /\ nd[s].queued \in 0 .. Limit /\ gone \in 0 .. n /\ (nd[s].queued > 0 => gone = 0)
          /\ Limit \in Nat /\ Limit > 0
      BY <1>1, NodeFacts, SelectorAssumption DEF NodeType
    <2>2. k \in 0 .. Limit /\ (nd[s].queued > 0 => k >= nd[s].queued)
      <3>1. k \in {nd[s].queued + n - gone, Limit}
        <4>1. nd[s].queued + n - gone \in Int /\ Limit \in Int BY <2>1
        <4>2. QED BY <4>1, MinOfTwo
      <3>2. k <= Limit
        <4>1. nd[s].queued + n - gone \in Int /\ Limit \in Int BY <2>1
        <4>2. QED BY <4>1, MinOfTwo
      <3>3. QED BY <2>1, <3>1, <3>2
    <2> HIDE DEF k
    <2>3. /\ b \in NodeType /\ b.reg = nd[s].reg /\ b.recv = nd[s].recv /\ b.st = "open"
          /\ b.done = nd[s].done /\ b.flagq = nd[s].flagq /\ b.queued = k
          /\ b.want = nd[s].want /\ b.wait = nd[s].wait /\ b.wait_at = nd[s].wait_at
      BY <1>1, <1>2, <2>2, NodeFacts DEF NodeType
    <2>4. r \in Kick(b) BY <1>5 DEF k
    <2> HIDE DEF b
    <2>5. /\ r \in NodeType /\ (b.reg => r.reg) /\ (k > 0 /\ ~WatchFails => "W" \in r.want)
          /\ r.recv = b.recv /\ r.st = b.st /\ r.done = b.done /\ r.flagq = b.flagq
          /\ r.queued = b.queued /\ r.wait = b.wait /\ r.wait_at = b.wait_at
      <3>1. CASE k > 0
        <4>1. b.want \cup {"W"} \in SUBSET {"R", "W"} /\ b.want \cup {"W"} # {} BY <2>3 DEF NodeType
        <4>2. r \in Watches(b, b.want \cup {"W"}) BY <2>3, <2>4, <3>1 DEF Kick, SockKick
        <4>3. QED BY <2>3, <4>1, <4>2, WatchesGive
      <3>2. CASE ~(k > 0) BY <2>3, <2>4, <3>2 DEF Kick, SockKick
      <3>3. QED BY <3>1, <3>2
    <2>6. SentOK(r, t)
      <3>1. nd[s].wait => nd[s].queued > nd[s].wait_at BY <1>1, NodeFacts DEF NodeOK, SentOK
      <3>2. nd[s].wait_at \in 0 .. 1 BY <1>1, NodeFacts DEF NodeType
      <3>3. r.wait => r.queued > r.wait_at BY <2>1, <2>2, <2>3, <2>5, <3>1, <3>2
      <3>4. QED BY <2>3, <2>5, <3>3 DEF SentOK
    <2>7. QED BY <1>3, <1>5, <2>3, <2>5, <2>6
  <1>6. QED BY <1>4, <1>5 DEF Send

(* A call that leaves an open socket's receive alone. *)
LEMMA OpenCall ==
  ASSUME Inv, NEW s \in Socks, NEW r \in NodeType, NEW bits \in SUBSET {"writable", "flush"},
         PutOrQueue(s, r, bits), UNCHANGED <<thread, call, batch>>,
         nd[s].st = "open", r.st = "open", r.recv = nd[s].recv, r.done = nd[s].done,
         r.flagq = nd[s].flagq, nd[s].reg => r.reg,
         SentOK(Queued(r, bits), Left(s)),
         owed' \in [Nodes -> [Ops -> Int]], \A m \in Nodes \ {s} : owed'[m] = owed[m],
         owed'[s]["received"] = owed[s]["received"], owed'[s]["connected"] = owed[s]["connected"]
  PROVE  Inv' /\ Promised
  <1> DEFINE t == Left(s)
             q == Queued(r, bits)
  <1>1. s \in Nodes /\ s \notin Accs /\ s \notin Udps BY SelectorAssumption DEF Nodes
  <1>2. bits \in SUBSET Bits BY DEF Bits
  <1>3. q.recv = nd[s].recv /\ q.st = "open" /\ q.done = nd[s].done \cup bits
    BY <1>2, QueuedType
  <1> HIDE DEF q
  <1>4. NodeOK(s, q, t, owed'[s])
    <2>1. "closed" \notin nd[s].done \cup t BY <1>1, NodeFacts DEF NodeOK, SockOK, LifeOK
    <2>2. LifeOK(q, t) BY <2>1, <1>1, <1>3, NodeFacts DEF NodeOK, SockOK, LifeOK
    <2>3. /\ ("received" \in q.done \cup t <=> "received" \in nd[s].done \cup t)
          /\ ("connected" \in q.done \cup t <=> "connected" \in nd[s].done \cup t)
          /\ q.done \subseteq nd[s].done \cup {"writable", "flush"}
      BY <1>3
    <2>4. SockOK(nd[s], t, owed[s]) BY <1>1, NodeFacts DEF NodeOK
    <2>5. SockOK(q, t, owed'[s])
      <3>1. q.done \subseteq DOMAIN Order BY <2>3, <2>4, OrderIs DEF SockOK
      <3>2. "evconnect" \notin t BY <2>4 DEF SockOK
      <3>3. q.recv => "received" \notin q.done \cup t BY <1>3, <2>3, <2>4 DEF SockOK
      <3>4. owed'[s]["received"] = Count(q.recv) + Count("received" \in q.done \cup t)
        BY <1>3, <2>3, <2>4 DEF SockOK, Count
      <3>5. owed'[s]["connected"] = Count(q.st = "connecting" \/ "connected" \in q.done \cup t)
        BY <1>3, <2>3, <2>4 DEF SockOK, Count
      <3>6. QED BY <1>3, <2>2, <2>4, <3>1, <3>2, <3>3, <3>4, <3>5 DEF SockOK
    <2>6. QED BY <2>5, <1>1 DEF NodeOK, q
  <1>5. Allowed(s, LifeOf(s, nd[s]), LifeOf(s, q), FlightOf(s, nd[s], t), FlightOf(s, q, t))
    BY <1>1, <1>3 DEF LifeOf, FlightOf, Allowed
  <1>6. bits = {} => (r.flagq <=> r.done # {}) BY <1>1, NodeFacts
  <1>7. QED BY <1>1, <1>2, <1>4, <1>5, <1>6, NodeFacts, AppStep DEF q

LEMMA CommitStep == ASSUME Inv, NEW s \in Socks, Commit(s) PROVE Inv' /\ Promised
  <1> DEFINE r == [nd[s] EXCEPT !.queued = @ + 1]
  <1>1. s \in Nodes BY DEF Nodes
  <1>2. /\ UNCHANGED <<thread, call, batch, owed>> /\ PutOrQueue(s, r, {"flush"})
        /\ nd[s].st = "open" /\ nd[s].queued < Limit
    BY DEF Commit, PutOrQueue, Room
  <1>3. nd[s].queued \in 0 .. Limit /\ nd[s].queued + 1 \in 0 .. Limit /\ nd[s].wait_at \in 0 .. 1
    BY <1>1, <1>2, NodeFacts, SelectorAssumption DEF NodeType
  <1>4. /\ r \in NodeType /\ r.st = "open" /\ r.recv = nd[s].recv /\ r.done = nd[s].done
        /\ r.flagq = nd[s].flagq /\ r.reg = nd[s].reg /\ r.queued = nd[s].queued + 1
        /\ r.want = nd[s].want /\ r.wait = nd[s].wait /\ r.wait_at = nd[s].wait_at
    BY <1>1, <1>2, <1>3, NodeFacts DEF NodeType
  <1> HIDE DEF r
  <1>5. SentOK(Queued(r, {"flush"}), Left(s))
    <2>1. {"flush"} \in SUBSET Bits BY DEF Bits
    <2>2. LET q == Queued(r, {"flush"})
          IN  "flush" \in q.done /\ q.wait = nd[s].wait /\ q.wait_at = nd[s].wait_at
              /\ q.queued = nd[s].queued + 1
      BY <1>4, <2>1, QueuedType
    <2>3. nd[s].wait => nd[s].queued > nd[s].wait_at BY <1>1, NodeFacts DEF NodeOK, SentOK
    <2>4. QED BY <2>2, <2>3, <1>3 DEF SentOK
  <1>6. QED BY <1>1, <1>2, <1>4, <1>5, NodeFacts, OpenCall

(* What sel_sock_flush leaves of the socket. *)
FlushLeaves(s, answer, r) ==
    /\ r.st = nd[s].st /\ r.recv = nd[s].recv /\ r.done = nd[s].done
    /\ r.flagq = nd[s].flagq /\ (nd[s].reg => r.reg)
    /\ ~WatchFails /\ r.queued > 0 => "W" \in r.want
    /\ r.wait => r.queued > r.wait_at
    /\ r.queued > 0 => nd[s].queued > 0
    /\ \/ answer /\ Put(s, r) /\ (\E ok \in BOOLEAN : CallWritable(s, ok)) /\ doneList' = doneList
       \/ ~answer /\ PutQueued(s, r, {"writable"}) /\ UNCHANGED <<call, owed>>
       \/ Put(s, r) /\ UNCHANGED <<doneList, call, owed>>

LEMMA FlushGives ==
  ASSUME NEW s \in Nodes, nd[s] \in NodeType, NEW answer \in BOOLEAN, SockFlush(s, answer),
         nd[s].wait => nd[s].queued > nd[s].wait_at
  PROVE  \E r \in NodeType : FlushLeaves(s, answer, r)
  <1>1. /\ nd[s].want \in SUBSET {"R", "W"} /\ nd[s].queued \in 0 .. Limit /\ Limit \in Nat
        /\ nd[s].wait_at \in 0 .. 1
    BY SelectorAssumption DEF NodeType
  <1>2. ASSUME NEW x \in Watches(nd[s], nd[s].want \ {"W"}),
               Answered(s, [x EXCEPT !.send_err = TRUE, !.queued = 0, !.wait = FALSE], FALSE, answer)
        PROVE  \E r \in NodeType : FlushLeaves(s, answer, r)
    <2> DEFINE r == [x EXCEPT !.send_err = TRUE, !.queued = 0, !.wait = FALSE]
    <2>1. /\ x \in NodeType /\ x.st = nd[s].st /\ x.recv = nd[s].recv /\ x.done = nd[s].done
          /\ x.flagq = nd[s].flagq /\ (nd[s].reg => x.reg)
      BY <1>1, WatchesGive
    <2>2. 0 \in 0 .. Limit BY <1>1
    <2>3. /\ r \in NodeType /\ r.st = x.st /\ r.recv = x.recv /\ r.done = x.done
          /\ r.flagq = x.flagq /\ r.reg = x.reg /\ r.queued = 0 /\ ~r.wait
      BY <2>1, <2>2 DEF NodeType
    <2>4. \/ answer /\ Put(s, r) /\ CallWritable(s, FALSE) /\ doneList' = doneList
          \/ ~answer /\ PutQueued(s, r, {"writable"}) /\ UNCHANGED <<call, owed>>
      BY <1>2 DEF Answered
    <2> HIDE DEF r
    <2>5. ~(r.queued > 0) BY <2>3
    <2>6. CallWritable(s, FALSE) => \E ok \in BOOLEAN : CallWritable(s, ok) OBVIOUS
    <2>7. FlushLeaves(s, answer, r) BY <2>1, <2>3, <2>4, <2>5, <2>6 DEF FlushLeaves
    <2>8. QED BY <2>3, <2>7
  <1>3. ASSUME NEW left \in 0 .. nd[s].queued,
               NEW x \in Watches(nd[s], IF left > 0 THEN nd[s].want \cup {"W"} ELSE nd[s].want \ {"W"}),
               IF x.wait /\ left <= x.wait_at
               THEN Answered(s, [x EXCEPT !.queued = left, !.wait = FALSE], TRUE, answer)
               ELSE Put(s, [x EXCEPT !.queued = left]) /\ UNCHANGED <<doneList, call, owed>>
        PROVE  \E r \in NodeType : FlushLeaves(s, answer, r)
    <2> DEFINE w == IF left > 0 THEN nd[s].want \cup {"W"} ELSE nd[s].want \ {"W"}
    <2>1. left \in 0 .. Limit /\ w \in SUBSET {"R", "W"} /\ (left > 0 => "W" \in w) BY <1>1
    <2> HIDE DEF w
    <2>2. /\ x \in NodeType /\ x.st = nd[s].st /\ x.recv = nd[s].recv /\ x.done = nd[s].done
          /\ x.flagq = nd[s].flagq /\ (nd[s].reg => x.reg) /\ x.wait = nd[s].wait
          /\ x.wait_at = nd[s].wait_at /\ (~WatchFails /\ left > 0 => "W" \in x.want)
      BY <2>1, WatchesGive DEF w
    <2>3. CASE x.wait /\ left <= x.wait_at
      <3> DEFINE r == [x EXCEPT !.queued = left, !.wait = FALSE]
      <3>1. /\ r \in NodeType /\ r.st = x.st /\ r.recv = x.recv /\ r.done = x.done /\ r.want = x.want
            /\ r.flagq = x.flagq /\ r.reg = x.reg /\ r.queued = left /\ ~r.wait
        BY <2>1, <2>2 DEF NodeType
      <3>2. \/ answer /\ Put(s, r) /\ CallWritable(s, TRUE) /\ doneList' = doneList
            \/ ~answer /\ PutQueued(s, r, {"writable"}) /\ UNCHANGED <<call, owed>>
        BY <1>3, <2>3 DEF Answered
      <3> HIDE DEF r
      <3>3. r.queued > 0 => nd[s].queued > 0 BY <1>1, <3>1
      <3>4. FlushLeaves(s, answer, r) BY <2>2, <3>1, <3>2, <3>3 DEF FlushLeaves
      <3>5. QED BY <3>1, <3>4
    <2>4. CASE ~(x.wait /\ left <= x.wait_at)
      <3> DEFINE r == [x EXCEPT !.queued = left]
      <3>1. /\ r \in NodeType /\ r.st = x.st /\ r.recv = x.recv /\ r.done = x.done /\ r.want = x.want
            /\ r.flagq = x.flagq /\ r.reg = x.reg /\ r.queued = left /\ r.wait = x.wait /\ r.wait_at = x.wait_at
        BY <2>1, <2>2 DEF NodeType
      <3>2. Put(s, r) /\ UNCHANGED <<doneList, call, owed>> BY <1>3, <2>4
      <3> HIDE DEF r
      <3>3. r.wait => r.queued > r.wait_at BY <1>1, <2>1, <2>2, <2>4, <3>1
      <3>4. r.queued > 0 => nd[s].queued > 0 BY <1>1, <3>1
      <3>5. FlushLeaves(s, answer, r) BY <2>2, <3>1, <3>2, <3>3, <3>4 DEF FlushLeaves
      <3>6. QED BY <3>1, <3>5
    <2>5. QED BY <2>3, <2>4
  <1>4. CASE \E x \in Watches(nd[s], nd[s].want \ {"W"}) :
                Answered(s, [x EXCEPT !.send_err = TRUE, !.queued = 0, !.wait = FALSE], FALSE, answer)
    <2>1. PICK x \in Watches(nd[s], nd[s].want \ {"W"}) :
                Answered(s, [x EXCEPT !.send_err = TRUE, !.queued = 0, !.wait = FALSE], FALSE, answer)
      BY <1>4
    <2>2. QED BY <2>1, <1>2
  <1>5. CASE \E left \in 0 .. nd[s].queued :
             \E x \in Watches(nd[s], IF left > 0 THEN nd[s].want \cup {"W"} ELSE nd[s].want \ {"W"}) :
                IF x.wait /\ left <= x.wait_at
                THEN Answered(s, [x EXCEPT !.queued = left, !.wait = FALSE], TRUE, answer)
                ELSE Put(s, [x EXCEPT !.queued = left]) /\ UNCHANGED <<doneList, call, owed>>
    <2>1. PICK left \in 0 .. nd[s].queued :
            \E x \in Watches(nd[s], IF left > 0 THEN nd[s].want \cup {"W"} ELSE nd[s].want \ {"W"}) :
                IF x.wait /\ left <= x.wait_at
                THEN Answered(s, [x EXCEPT !.queued = left, !.wait = FALSE], TRUE, answer)
                ELSE Put(s, [x EXCEPT !.queued = left]) /\ UNCHANGED <<doneList, call, owed>>
      BY <1>5
    <2>2. PICK x \in Watches(nd[s], IF left > 0 THEN nd[s].want \cup {"W"} ELSE nd[s].want \ {"W"}) :
                IF x.wait /\ left <= x.wait_at
                THEN Answered(s, [x EXCEPT !.queued = left, !.wait = FALSE], TRUE, answer)
                ELSE Put(s, [x EXCEPT !.queued = left]) /\ UNCHANGED <<doneList, call, owed>>
      BY <2>1
    <2>3. QED BY <2>2, <1>3
  <1>6. QED BY <1>4, <1>5 DEF SockFlush

LEMMA FlushStep == ASSUME Inv, NEW s \in Socks, Flush(s) PROVE Inv' /\ Promised
  <1>1. s \in Nodes BY DEF Nodes
  <1>2. /\ nd[s].st = "open" /\ SockFlush(s, FALSE) /\ UNCHANGED <<thread, batch>>
    BY DEF Flush
  <1>3. nd[s].wait => nd[s].queued > nd[s].wait_at BY <1>1, NodeFacts DEF NodeOK, SentOK
  <1>4. PICK r \in NodeType : FlushLeaves(s, FALSE, r)
    BY <1>1, <1>2, <1>3, NodeFacts, FlushGives
  <1>5. /\ r.st = "open" /\ r.recv = nd[s].recv /\ r.done = nd[s].done
        /\ r.flagq = nd[s].flagq /\ (nd[s].reg => r.reg) /\ UNCHANGED <<call, owed>>
    BY <1>2, <1>4 DEF FlushLeaves
  <1>6. SentOK(r, Left(s)) BY <1>4 DEF FlushLeaves, SentOK
  <1>7. CASE PutQueued(s, r, {"writable"})
    <2>1. PutOrQueue(s, r, {"writable"}) BY <1>7 DEF PutOrQueue
    <2>2. SentOK(Queued(r, {"writable"}), Left(s))
      <3>1. {"writable"} \in SUBSET Bits BY DEF Bits
      <3>2. LET q == Queued(r, {"writable"})
            IN  /\ q.done = r.done \cup {"writable"} /\ q.st = r.st /\ q.queued = r.queued
                /\ q.want = r.want /\ q.wait = r.wait /\ q.wait_at = r.wait_at
        BY <3>1, QueuedType
      <3>3. QED BY <3>2, <1>6 DEF SentOK
    <2>3. QED BY <1>1, <1>2, <1>5, <2>1, <2>2, NodeFacts, OpenCall
  <1>8. CASE Put(s, r) /\ UNCHANGED doneList
    <2>1. PutOrQueue(s, r, {}) /\ Queued(r, {}) = r BY <1>8 DEF PutOrQueue, Queued
    <2>2. QED BY <1>1, <1>2, <1>5, <1>6, <2>1, NodeFacts, OpenCall
  <1>9. QED BY <1>4, <1>7, <1>8 DEF FlushLeaves

LEMMA SendWaitStep ==
  ASSUME Inv, NEW s \in Socks, NEW m \in 0 .. 1, SendWait(s, m) PROVE Inv' /\ Promised
  <1>1. s \in Nodes BY DEF Nodes
  <1>2. /\ nd[s].st = "open" /\ UNCHANGED <<thread, batch, call>>
        /\ owed' = [owed EXCEPT ![s]["writable"] = 1]
    BY DEF SendWait
  <1>3. /\ owed' \in [Nodes -> [Ops -> Int]] /\ \A k \in Nodes \ {s} : owed'[k] = owed[k]
        /\ owed'[s]["received"] = owed[s]["received"] /\ owed'[s]["connected"] = owed[s]["connected"]
    BY <1>1, <1>2, NodeFacts DEF Ops
  <1>4. SentOK(nd[s], Left(s)) /\ nd[s].queued \in 0 .. Limit /\ Limit \in Nat
    BY <1>1, NodeFacts, SelectorAssumption DEF NodeOK, NodeType
  <1>5. CASE nd[s].queued <= m
    <2> DEFINE r == [nd[s] EXCEPT !.wait = FALSE]
               q == Queued(r, {"writable"})
    <2>1. /\ r \in NodeType /\ r.st = nd[s].st /\ r.recv = nd[s].recv /\ r.done = nd[s].done
          /\ r.flagq = nd[s].flagq /\ r.reg = nd[s].reg /\ r.queued = nd[s].queued
          /\ r.want = nd[s].want /\ ~r.wait
      BY ZenonT(20), <1>1, NodeFacts DEF NodeType
    <2>2. PutOrQueue(s, r, {"writable"}) BY <1>5 DEF SendWait, PutOrQueue
    <2> HIDE DEF r
    <2>3. {"writable"} \in SUBSET Bits BY DEF Bits
    <2>4. q.done = r.done \cup {"writable"} /\ q.st = r.st /\ q.queued = r.queued /\ q.want = r.want /\ ~q.wait
      BY <2>1, <2>3, QueuedType
    <2>5. SentOK(q, Left(s)) BY <2>1, <2>4, <1>4 DEF SentOK
    <2>6. QED BY <1>1, <1>2, <1>3, <2>1, <2>2, <2>5, NodeFacts, OpenCall
  <1>6. CASE ~(nd[s].queued <= m)
    <2> DEFINE r == [nd[s] EXCEPT !.wait = TRUE, !.wait_at = m]
    <2>1. /\ r \in NodeType /\ r.st = nd[s].st /\ r.recv = nd[s].recv /\ r.done = nd[s].done
          /\ r.flagq = nd[s].flagq /\ r.reg = nd[s].reg /\ r.queued = nd[s].queued
          /\ r.want = nd[s].want /\ r.wait_at = m
      BY <1>1, NodeFacts DEF NodeType
    <2>2. PutOrQueue(s, r, {}) BY <1>6 DEF SendWait, PutOrQueue
    <2> HIDE DEF r
    <2>3. Queued(r, {}) = r BY DEF Queued
    <2>4. r.queued > r.wait_at BY <1>4, <1>6, <2>1
    <2>5. SentOK(r, Left(s)) BY <2>1, <2>4, <1>4 DEF SentOK
    <2>6. QED BY <1>1, <1>2, <1>3, <2>1, <2>2, <2>3, <2>5, NodeFacts, OpenCall
  <1>7. QED BY <1>5, <1>6

(* What the program never finds undone when it runs. *)
LEMMA InAppLeft ==
  ASSUME Inv, InApp, NEW n \in Nodes
  PROVE  /\ "connected" \notin Left(n) /\ "evconnect" \notin Left(n)
         /\ n \notin Socks => "received" \notin Left(n)
  <1>1. ASSUME NEW i \in Left(n)
        PROVE  i \notin {"connected", "evconnect"} /\ (i = "received" => n \in Socks)
    <2>1. Item(n, i) \in todo BY DEF Left, InTodo
    <2>2. Item(n, i).do = i /\ Item(n, i).node = n BY DEF Item
    <2>3. call # NoCall BY <2>1 DEF Inv, ThreadInv, AtRest, InApp
    <2>4. QED BY <2>1, <2>2, <2>3 DEF Inv, ThreadInv
  <1>2. QED BY <1>1

LEMMA CloseStep == ASSUME Inv, NEW s \in Socks, Close(s) PROVE Inv' /\ Promised
  <1> DEFINE t == Left(s)
             r == [Unwatched(nd[s]) EXCEPT
                      !.st = "closing", !.recv = FALSE, !.wait = FALSE, !.queued = 0,
                      !.err = IF nd[s].recv \/ nd[s].st = "connecting" THEN "cancelled" ELSE @]
             bits == CloseBits(nd[s])
             q == Queued(r, bits)
  <1>1. s \in Nodes /\ s \notin Accs /\ s \notin Udps BY SelectorAssumption DEF Nodes
  <1>2. /\ UNCHANGED <<thread, call, owed>> /\ nd[s].st \in {"open", "connecting", "dead"}
        /\ batch' = {e \in batch : e.node # s}
    BY DEF Close, Blank
  <1>3. bits \in SUBSET Bits /\ bits # {} BY DEF CloseBits, Bits
  <1>4. PutOrQueue(s, r, bits) BY <1>3 DEF Close, PutOrQueue
  <1>5. 0 \in 0 .. Limit BY SelectorAssumption
  <1>6. /\ r \in NodeType /\ r.st = "closing" /\ ~r.recv /\ ~r.wait /\ r.queued = 0 /\ ~r.reg /\ r.want = {}
        /\ r.done = nd[s].done /\ r.flagq = nd[s].flagq
    <2> DEFINE u == NodeUnwatch(nd[s])
    <2>1. /\ u \in NodeType /\ u.done = nd[s].done /\ u.flagq = nd[s].flagq /\ ~u.reg /\ u.want = {}
      BY ZenonT(20), <1>1, NodeFacts DEF NodeType, NodeUnwatch
    <2> HIDE DEF u
    <2>2. r = [u EXCEPT !.st = "closing", !.recv = FALSE, !.wait = FALSE, !.queued = 0,
                        !.err = IF nd[s].recv \/ nd[s].st = "connecting" THEN "cancelled" ELSE u.err]
      BY DEF Unwatched, u
    <2>3. r \in NodeType BY <2>1, <2>2, <1>5 DEF NodeType
    <2>4. r.reg = u.reg /\ r.want = u.want /\ r.done = u.done /\ r.flagq = u.flagq
      BY ZenonT(20), <2>1, <2>2, <2>3 DEF NodeType
    <2>5. r.st = "closing" /\ ~r.recv /\ ~r.wait /\ r.queued = 0
      BY <2>1, <2>2, <2>3 DEF NodeType
    <2>6. QED BY <2>1, <2>3, <2>4, <2>5
  <1> HIDE DEF r
  <1>7. /\ q.st = "closing" /\ ~q.recv /\ ~q.wait /\ q.queued = 0 /\ q.done = nd[s].done \cup bits
        /\ ~q.reg /\ q.want = {}
    BY <1>3, <1>6, QueuedType
  <1>8. /\ "closed" \in bits /\ ("received" \in bits <=> nd[s].recv)
        /\ ("connected" \in bits <=> nd[s].st = "connecting")
        /\ bits \subseteq {"closed", "received", "connected", "writable"}
    BY DEF CloseBits
  <1> HIDE DEF q, bits
  <1>9. SockOK(nd[s], t, owed[s]) BY <1>1, NodeFacts DEF NodeOK
  <1>10. "closed" \notin t /\ "evconnect" \notin t
    <2>1. "closed" \notin t BY <1>2, <1>9 DEF SockOK, LifeOK
    <2>2. "evconnect" \notin t BY <1>1, InAppLeft DEF Close
    <2>3. QED BY <2>1, <2>2
  <1>11. NodeOK(s, q, t, owed'[s])
    <2>1. "connected" \notin t BY <1>1, InAppLeft DEF Close
    <2>2. LifeOK(q, t)
      BY <1>7, <1>8, <1>9, <1>10, <2>1 DEF SockOK, LifeOK
    <2>3. SockOK(q, t, owed'[s])
      <3>1. q.done \subseteq DOMAIN Order BY <1>7, <1>8, <1>9, OrderIs DEF SockOK
      <3>2. owed'[s]["received"] = Count(q.recv) + Count("received" \in q.done \cup t)
        BY <1>2, <1>7, <1>8, <1>9 DEF SockOK, Count
      <3>3. owed'[s]["connected"] = Count(q.st = "connecting" \/ "connected" \in q.done \cup t)
        BY <1>2, <1>7, <1>8, <1>9 DEF SockOK, Count
      <3>4. QED BY <1>7, <1>9, <1>10, <2>2, <3>1, <3>2, <3>3 DEF SockOK
    <2>4. SentOK(q, t) BY <1>7 DEF SentOK
    <2>5. QED BY <1>1, <2>3, <2>4 DEF NodeOK
  <1>12. Allowed(s, LifeOf(s, nd[s]), LifeOf(s, q), FlightOf(s, nd[s], t), FlightOf(s, q, t))
    BY <1>1, <1>2, <1>7, <1>8 DEF LifeOf, FlightOf, Allowed
  <1>13. \A e \in batch' : e.node # s BY <1>2
  <1>14. QED BY <1>1, <1>2, <1>3, <1>4, <1>6, <1>11, <1>12, <1>13, NodeFacts, AppStep DEF q

(* Taking a node out of the selector. *)
LEMMA UnwatchGives ==
  ASSUME NEW r \in NodeType
  PROVE  LET u == Unwatched(r)
         IN  /\ u \in NodeType /\ ~u.reg /\ u.want = {} /\ u.st = r.st /\ u.recv = r.recv /\ u.wait = r.wait
             /\ u.err = r.err /\ u.conn = r.conn /\ u.done = r.done /\ u.flagq = r.flagq
  BY DEF Unwatched, NodeUnwatch, NodeType

LEMMA AcceptStep == ASSUME Inv, NEW a \in Accs, Accept(a) PROVE Inv' /\ Promised
  <1> DEFINE t == Left(a)
  <1>1. a \in Nodes /\ a \notin Socks /\ a \notin Udps BY SelectorAssumption DEF Nodes
  <1>2. UNCHANGED <<thread, batch, call>> /\ ~nd[a].recv BY DEF Accept
  <1>3. AccOK(nd[a], t, owed[a]) /\ ConnOK(nd[a]) BY <1>1, NodeFacts DEF NodeOK
  <1>4. ASSUME NEW r \in NodeType, NEW bits \in SUBSET {"accept"}, PutOrQueue(a, r, bits), r.recv,
               r.done = nd[a].done, r.flagq = nd[a].flagq, nd[a].reg => r.reg, Start(a, "accept"),
               r.conn => bits # {} /\ r.err = "ok"
        PROVE  Inv' /\ Promised
    <2> DEFINE q == Queued(r, bits)
    <2>1. bits \in SUBSET Bits BY DEF Bits
    <2>2. q.recv /\ q.done = nd[a].done \cup bits /\ q.conn = r.conn /\ q.err = r.err
      <3>1. q.recv = r.recv /\ q.done = r.done \cup bits /\ q.conn = r.conn /\ q.err = r.err
        BY <2>1, QueuedType
      <3>2. QED BY <3>1, <1>4
    <2> HIDE DEF q
    <2>3. /\ owed' \in [Nodes -> [Ops -> Int]] /\ \A m \in Nodes \ {a} : owed'[m] = owed[m]
          /\ owed'[a]["accept"] = owed[a]["accept"] + 1
      BY <1>1, <1>4, StartOwes DEF Inv, Ops
    <2>4. NodeOK(a, q, t, owed'[a])
      <3>1. q.conn => "accept" \in q.done BY <1>4, <2>2
      <3>2. owed'[a]["accept"] = Count(q.recv) BY <1>2, <1>3, <2>2, <2>3 DEF AccOK, Count
      <3>3. QED BY <1>1, <1>3, <1>4, <2>2, <3>1, <3>2 DEF NodeOK, AccOK, ConnOK
    <2>5. Allowed(a, LifeOf(a, nd[a]), LifeOf(a, q), FlightOf(a, nd[a], t), FlightOf(a, q, t))
      <3>1. LifeOf(a, nd[a]) = "attached" /\ LifeOf(a, q) = "attached" BY DEF LifeOf
      <3>2. FlightOf(a, nd[a], t) = {} /\ FlightOf(a, q, t) = {"accept"} BY <1>2, <2>2 DEF FlightOf
      <3>3. QED BY <3>1, <3>2 DEF Allowed
    <2>6. bits = {} => (r.flagq <=> r.done # {}) BY <1>1, <1>4, NodeFacts
    <2>7. QED BY <1>1, <1>2, <1>4, <2>1, <2>3, <2>4, <2>5, <2>6, NodeFacts, AppStep DEF q
  <1>5. CASE \E r \in Taken(a) : PutQueued(a, [r EXCEPT !.recv = TRUE], {"accept"}) /\ Start(a, "accept")
    <2>1. PICK o \in {"ok", "failed"} :
              LET x == [nd[a] EXCEPT !.err = o, !.conn = (o = "ok")]
              IN  PutQueued(a, [x EXCEPT !.recv = TRUE], {"accept"}) /\ Start(a, "accept")
      BY <1>5 DEF Taken
    <2> DEFINE x == [nd[a] EXCEPT !.err = o, !.conn = (o = "ok")]
               r == [x EXCEPT !.recv = TRUE]
    <2>2. x \in NodeType /\ (x.conn => x.err = "ok") /\ x.done = nd[a].done /\ x.flagq = nd[a].flagq /\ x.reg = nd[a].reg
      BY ZenonT(20), <1>1, NodeFacts DEF NodeType
    <2>3. PutOrQueue(a, r, {"accept"}) /\ Start(a, "accept") BY <2>1 DEF PutOrQueue
    <2> HIDE DEF x
    <2>4. r \in NodeType /\ r.recv /\ (r.conn => r.err = "ok") /\ r.done = nd[a].done /\ r.flagq = nd[a].flagq /\ r.reg = nd[a].reg
      BY <2>2 DEF NodeType
    <2> HIDE DEF r
    <2>5. QED BY <1>4, <2>3, <2>4
  <1>6. CASE Arm(a, "accept", {"R"})
    <2>1. PICK r \in Watches(nd[a], {"R"}) :
              IF {"R"} \subseteq r.want THEN Put(a, [r EXCEPT !.recv = TRUE]) /\ Start(a, "accept")
                                        ELSE Put(a, r) /\ UNCHANGED owed
      BY <1>6 DEF Arm
    <2>2. doneList' = doneList BY <1>6 DEF Arm
    <2>3. /\ r \in NodeType /\ (nd[a].reg => r.reg) /\ r.st = nd[a].st /\ r.recv = nd[a].recv
          /\ r.done = nd[a].done /\ r.flagq = nd[a].flagq /\ r.conn = nd[a].conn
      BY <2>1, <1>1, NodeFacts, WatchesGive
    <2>4. ~nd[a].conn BY <1>2, <1>3 DEF ConnOK
    <2>5. CASE Put(a, [r EXCEPT !.recv = TRUE]) /\ Start(a, "accept")
      <3> DEFINE x == [r EXCEPT !.recv = TRUE]
      <3>1. x \in NodeType /\ x.recv /\ ~x.conn /\ x.done = nd[a].done /\ x.flagq = nd[a].flagq /\ x.reg = r.reg
        BY <2>3, <2>4 DEF NodeType
      <3>2. PutOrQueue(a, x, {}) BY <2>2, <2>5 DEF PutOrQueue
      <3> HIDE DEF x
      <3>3. QED BY <1>4, <2>3, <2>5, <3>1, <3>2
    <2>6. CASE Put(a, r) /\ UNCHANGED owed
      <3>1. PutOrQueue(a, r, {}) /\ Queued(r, {}) = r BY <2>2, <2>6 DEF PutOrQueue, Queued
      <3>2. NodeOK(a, r, t, owed'[a])
        BY <1>1, <1>2, <1>3, <2>3, <2>4, <2>6 DEF NodeOK, AccOK, ConnOK, Count
      <3>3. Allowed(a, LifeOf(a, nd[a]), LifeOf(a, r), FlightOf(a, nd[a], t), FlightOf(a, r, t))
        BY <1>1, <1>2, <2>3 DEF LifeOf, FlightOf, Allowed
      <3>4. QED BY <1>1, <1>2, <2>3, <2>6, <3>1, <3>2, <3>3, NodeFacts, AppStep
    <2>7. QED BY <2>1, <2>5, <2>6
  <1>7. QED BY <1>5, <1>6 DEF Accept

LEMMA AcceptCancelStep == ASSUME Inv, NEW a \in Accs, AcceptCancel(a) PROVE Inv' /\ Promised
  <1> DEFINE t == Left(a)
  <1>1. a \in Nodes /\ a \notin Socks /\ a \notin Udps BY SelectorAssumption DEF Nodes
  <1>2. /\ UNCHANGED <<thread, call, owed>> /\ batch' \in SUBSET batch /\ \A e \in batch' : e.node # a
    BY DEF AcceptCancel, Blank
  <1>3. AccOK(nd[a], t, owed[a]) /\ ConnOK(nd[a]) BY <1>1, NodeFacts DEF NodeOK
  <1>4. CASE nd[a].recv
    <2> DEFINE c == Cancelled(a)
               r == Unwatched(c)
               q == Queued(r, {"accept"})
    <2>1. /\ c \in NodeType /\ c.recv = nd[a].recv /\ ~c.conn /\ c.done = nd[a].done /\ c.flagq = nd[a].flagq
      BY ZenonT(20), <1>1, NodeFacts DEF NodeType, Cancelled
    <2> HIDE DEF c
    <2>2. r \in NodeType /\ r.recv = nd[a].recv /\ ~r.conn /\ r.done = nd[a].done /\ r.flagq = nd[a].flagq
      BY <2>1, UnwatchGives
    <2>3. PutOrQueue(a, r, {"accept"}) BY <1>4 DEF AcceptCancel, PutOrQueue, c
    <2> HIDE DEF r
    <2>4. {"accept"} \in SUBSET Bits BY DEF Bits
    <2>5. q.recv = nd[a].recv /\ ~q.conn /\ q.done = nd[a].done \cup {"accept"}
      BY <2>2, <2>4, QueuedType
    <2> HIDE DEF q
    <2>6. NodeOK(a, q, t, owed'[a])
      BY <1>1, <1>2, <1>3, <1>4, <2>5 DEF NodeOK, AccOK, ConnOK
    <2>7. Allowed(a, LifeOf(a, nd[a]), LifeOf(a, q), FlightOf(a, nd[a], t), FlightOf(a, q, t))
      BY <1>1, <2>5 DEF LifeOf, FlightOf, Allowed
    <2>8. QED BY <1>1, <1>2, <2>2, <2>3, <2>4, <2>6, <2>7, NodeFacts, AppStep DEF q
  <1>5. CASE ~nd[a].recv
    <2> DEFINE r == Unwatched(nd[a])
    <2>1. r \in NodeType /\ r.recv = nd[a].recv /\ r.conn = nd[a].conn /\ r.done = nd[a].done /\ r.flagq = nd[a].flagq
      BY <1>1, NodeFacts, UnwatchGives
    <2>2. PutOrQueue(a, r, {}) /\ Queued(r, {}) = r BY <1>5 DEF AcceptCancel, PutOrQueue, Queued
    <2> HIDE DEF r
    <2>3. NodeOK(a, r, t, owed'[a])
      BY <1>1, <1>2, <1>3, <1>5, <2>1 DEF NodeOK, AccOK, ConnOK
    <2>4. Allowed(a, LifeOf(a, nd[a]), LifeOf(a, r), FlightOf(a, nd[a], t), FlightOf(a, r, t))
      BY <1>1, <2>1 DEF LifeOf, FlightOf, Allowed
    <2>5. QED BY <1>1, <1>2, <2>1, <2>2, <2>3, <2>4, NodeFacts, AppStep
  <1>6. QED BY <1>4, <1>5

LEMMA UdpRecvStep == ASSUME Inv, NEW u \in Udps, UdpRecv(u) PROVE Inv' /\ Promised
  <1> DEFINE t == Left(u)
  <1>1. u \in Nodes /\ u \notin Socks /\ u \notin Accs BY SelectorAssumption DEF Nodes
  <1>2. UNCHANGED <<thread, batch, call>> /\ ~nd[u].recv /\ nd[u].st = "open" BY DEF UdpRecv
  <1>3. UdpOK(nd[u], t, owed[u]) BY <1>1, NodeFacts DEF NodeOK
  <1>4. "received" \notin nd[u].done \cup t /\ "connected" \notin nd[u].done \cup t
    BY <1>2, <1>3 DEF UdpOK
  <1>5. ASSUME NEW r \in NodeType, NEW bits \in SUBSET {"received"}, PutOrQueue(u, r, bits), r.recv,
               r.st = "open", r.done = nd[u].done, r.flagq = nd[u].flagq, nd[u].reg => r.reg,
               Start(u, "received")
        PROVE  Inv' /\ Promised
    <2> DEFINE q == Queued(r, bits)
    <2>1. bits \in SUBSET Bits BY DEF Bits
    <2>2. q.recv = r.recv /\ q.done = r.done \cup bits /\ q.st = r.st BY <2>1, QueuedType
    <2> HIDE DEF q
    <2>3. /\ owed' \in [Nodes -> [Ops -> Int]] /\ \A m \in Nodes \ {u} : owed'[m] = owed[m]
          /\ owed'[u]["received"] = owed[u]["received"] + 1
      BY <1>1, <1>5, StartOwes DEF Inv, Ops
    <2>4. NodeOK(u, q, t, owed'[u])
      <3>1. "closed" \notin nd[u].done \cup t BY <1>2, <1>3 DEF UdpOK, LifeOK
      <3>2. LifeOK(q, t) BY <1>4, <1>5, <2>2, <3>1 DEF LifeOK
      <3>3. owed'[u]["received"] = Count(q.recv) BY <1>2, <1>3, <1>5, <2>2, <2>3 DEF UdpOK, Count
      <3>4. UdpOK(q, t, owed'[u]) BY <1>3, <1>5, <2>2, <3>2, <3>3 DEF UdpOK
      <3>5. QED BY <1>1, <3>4 DEF NodeOK
    <2>5. Allowed(u, LifeOf(u, nd[u]), LifeOf(u, q), FlightOf(u, nd[u], t), FlightOf(u, q, t))
      <3>1. LifeOf(u, nd[u]) = "attached" /\ LifeOf(u, q) = "attached" BY <1>1, <1>2, <1>5, <2>2 DEF LifeOf
      <3>2. FlightOf(u, nd[u], t) = {} /\ FlightOf(u, q, t) = {"received"}
        BY <1>1, <1>2, <1>4, <1>5, <2>2 DEF FlightOf
      <3>3. QED BY <3>1, <3>2 DEF Allowed
    <2>6. bits = {} => (r.flagq <=> r.done # {}) BY <1>1, <1>5, NodeFacts
    <2>7. QED BY <1>1, <1>2, <1>5, <2>1, <2>3, <2>4, <2>5, <2>6, NodeFacts, AppStep DEF q
  <1>6. CASE PutQueued(u, [nd[u] EXCEPT !.recv = TRUE, !.err = "ok"], {"received"}) /\ Start(u, "received")
    <2> DEFINE r == [nd[u] EXCEPT !.recv = TRUE, !.err = "ok"]
    <2>1. r \in NodeType /\ r.recv /\ r.st = nd[u].st /\ r.done = nd[u].done /\ r.flagq = nd[u].flagq /\ r.reg = nd[u].reg
      BY <1>1, NodeFacts DEF NodeType
    <2>2. PutOrQueue(u, r, {"received"}) BY <1>6 DEF PutOrQueue
    <2> HIDE DEF r
    <2>3. QED BY <1>2, <1>5, <1>6, <2>1, <2>2
  <1>7. CASE Arm(u, "received", nd[u].want \cup {"R"})
    <2>1. PICK r \in Watches(nd[u], nd[u].want \cup {"R"}) :
              IF nd[u].want \cup {"R"} \subseteq r.want
              THEN Put(u, [r EXCEPT !.recv = TRUE]) /\ Start(u, "received")
              ELSE Put(u, r) /\ UNCHANGED owed
      BY <1>7 DEF Arm
    <2>2. doneList' = doneList BY <1>7 DEF Arm
    <2>3. /\ r \in NodeType /\ (nd[u].reg => r.reg) /\ r.st = nd[u].st /\ r.recv = nd[u].recv
          /\ r.done = nd[u].done /\ r.flagq = nd[u].flagq
      <3>1. nd[u].want \cup {"R"} \in SUBSET {"R", "W"} BY <1>1, NodeFacts DEF NodeType
      <3>2. QED BY <3>1, <2>1, <1>1, NodeFacts, WatchesGive
    <2>4. CASE Put(u, [r EXCEPT !.recv = TRUE]) /\ Start(u, "received")
      <3> DEFINE x == [r EXCEPT !.recv = TRUE]
      <3>1. x \in NodeType /\ x.recv /\ x.st = r.st /\ x.done = nd[u].done /\ x.flagq = nd[u].flagq /\ x.reg = r.reg
        BY <2>3 DEF NodeType
      <3>2. PutOrQueue(u, x, {}) BY <2>2, <2>4 DEF PutOrQueue
      <3> HIDE DEF x
      <3>3. QED BY <1>2, <1>5, <2>3, <2>4, <3>1, <3>2
    <2>5. CASE Put(u, r) /\ UNCHANGED owed
      <3>1. PutOrQueue(u, r, {}) /\ Queued(r, {}) = r BY <2>2, <2>5 DEF PutOrQueue, Queued
      <3>2. NodeOK(u, r, t, owed'[u])
        BY <1>1, <1>2, <1>3, <2>3, <2>5 DEF NodeOK, UdpOK, LifeOK, Count
      <3>3. Allowed(u, LifeOf(u, nd[u]), LifeOf(u, r), FlightOf(u, nd[u], t), FlightOf(u, r, t))
        BY <1>1, <2>3 DEF LifeOf, FlightOf, Allowed
      <3>4. QED BY <1>1, <1>2, <2>3, <2>5, <3>1, <3>2, <3>3, NodeFacts, AppStep
    <2>6. QED BY <2>1, <2>4, <2>5
  <1>8. QED BY <1>6, <1>7 DEF UdpRecv

LEMMA UdpSendWaitStep == ASSUME Inv, NEW u \in Udps, UdpSendWait(u) PROVE Inv' /\ Promised
  <1> DEFINE t == Left(u)
  <1>1. u \in Nodes /\ u \notin Socks /\ u \notin Accs BY SelectorAssumption DEF Nodes
  <1>2. UNCHANGED <<thread, batch, call, doneList>> BY DEF UdpSendWait
  <1>3. UdpOK(nd[u], t, owed[u]) BY <1>1, NodeFacts DEF NodeOK
  <1>4. PICK r \in Watches(nd[u], nd[u].want \cup {"W"}) :
            IF "W" \in r.want
            THEN Put(u, [r EXCEPT !.wait = TRUE]) /\ owed' = [owed EXCEPT ![u]["writable"] = 1]
            ELSE Put(u, r) /\ UNCHANGED owed
    BY DEF UdpSendWait
  <1>5. /\ r \in NodeType /\ (nd[u].reg => r.reg) /\ r.st = nd[u].st /\ r.recv = nd[u].recv
        /\ r.done = nd[u].done /\ r.flagq = nd[u].flagq
    <2>1. nd[u].want \cup {"W"} \in SUBSET {"R", "W"} BY <1>1, NodeFacts DEF NodeType
    <2>2. QED BY <1>4, <2>1, <1>1, NodeFacts, WatchesGive
  <1>6. /\ owed' \in [Nodes -> [Ops -> Int]] /\ \A k \in Nodes \ {u} : owed'[k] = owed[k]
        /\ owed'[u]["received"] = owed[u]["received"]
    BY <1>1, <1>4, NodeFacts DEF Ops
  <1>7. PICK x \in NodeType : /\ Put(u, x) /\ x.reg = r.reg /\ x.st = r.st /\ x.recv = r.recv
                              /\ x.done = r.done /\ x.flagq = r.flagq
    <2> DEFINE w == [r EXCEPT !.wait = TRUE]
    <2>1. /\ w \in NodeType /\ w.reg = r.reg /\ w.st = r.st /\ w.recv = r.recv
          /\ w.done = r.done /\ w.flagq = r.flagq
      BY <1>5 DEF NodeType
    <2>2. Put(u, w) \/ Put(u, r) BY <1>4
    <2> HIDE DEF w
    <2>3. QED BY <1>5, <2>1, <2>2
  <1>8. PutOrQueue(u, x, {}) /\ Queued(x, {}) = x BY <1>2, <1>7 DEF PutOrQueue, Queued
  <1>9. NodeOK(u, x, t, owed'[u])
    <2>1. /\ x.st = nd[u].st /\ x.recv = nd[u].recv /\ x.done = nd[u].done
          /\ owed'[u]["received"] = owed[u]["received"]
      BY <1>5, <1>6, <1>7
    <2>2. nd[u].st = "open" BY DEF UdpSendWait
    <2>3. LifeOK(x, t) BY <1>3, <2>1, <2>2 DEF UdpOK, LifeOK
    <2>4. UdpOK(x, t, owed'[u]) BY <1>3, <2>1, <2>3 DEF UdpOK
    <2>5. QED BY <1>1, <2>4 DEF NodeOK
  <1>10. Allowed(u, LifeOf(u, nd[u]), LifeOf(u, x), FlightOf(u, nd[u], t), FlightOf(u, x, t))
    BY <1>1, <1>5, <1>7 DEF LifeOf, FlightOf, Allowed
  <1>11. QED BY <1>1, <1>2, <1>5, <1>6, <1>7, <1>8, <1>9, <1>10, NodeFacts, AppStep

LEMMA UdpCloseStep == ASSUME Inv, NEW u \in Udps, UdpClose(u) PROVE Inv' /\ Promised
  <1> DEFINE t == Left(u)
             r == [Unwatched(nd[u]) EXCEPT !.st = "closing", !.wait = FALSE,
                                           !.err = IF nd[u].recv THEN "cancelled" ELSE @]
             bits == CloseBits(nd[u])
             q == Queued(r, bits)
  <1>1. u \in Nodes /\ u \notin Socks /\ u \notin Accs BY SelectorAssumption DEF Nodes
  <1>2. /\ UNCHANGED <<thread, call, owed>> /\ nd[u].st = "open" /\ InApp
        /\ batch' = {e \in batch : e.node # u}
    BY DEF UdpClose, Blank
  <1>3. bits \in SUBSET Bits /\ bits # {} BY DEF CloseBits, Bits
  <1>4. PutOrQueue(u, r, bits) BY <1>3 DEF UdpClose, PutOrQueue
  <1>5. /\ r \in NodeType /\ r.st = "closing" /\ r.recv = nd[u].recv /\ ~r.reg /\ r.want = {}
        /\ r.done = nd[u].done /\ r.flagq = nd[u].flagq
    <2> DEFINE k == Unwatched(nd[u])
    <2>1. k \in NodeType /\ k.done = nd[u].done /\ k.flagq = nd[u].flagq /\ k.recv = nd[u].recv /\ ~k.reg /\ k.want = {}
      BY <1>1, NodeFacts, UnwatchGives
    <2> HIDE DEF k
    <2>2. r = [k EXCEPT !.st = "closing", !.wait = FALSE, !.err = IF nd[u].recv THEN "cancelled" ELSE k.err]
      BY DEF k
    <2>3. r \in NodeType BY <2>1, <2>2 DEF NodeType
    <2>4. QED BY ZenonT(20), <2>1, <2>2, <2>3 DEF NodeType
  <1> HIDE DEF r
  <1>6. q.st = "closing" /\ q.recv = nd[u].recv /\ q.done = nd[u].done \cup bits /\ ~q.reg /\ q.want = {}
    BY <1>3, <1>5, QueuedType
  <1>7. /\ "closed" \in bits /\ ("received" \in bits <=> nd[u].recv)
        /\ bits \subseteq {"closed", "received", "writable"}
    BY <1>2 DEF CloseBits
  <1> HIDE DEF q, bits
  <1>8. UdpOK(nd[u], t, owed[u]) BY <1>1, NodeFacts DEF NodeOK
  <1>9. "closed" \notin t /\ "received" \notin t /\ "connected" \notin nd[u].done \cup t
    BY <1>1, <1>2, <1>8, InAppLeft DEF UdpOK, LifeOK
  <1>10. NodeOK(u, q, t, owed'[u])
    <2>1. LifeOK(q, t) BY <1>6, <1>7, <1>8, <1>9 DEF UdpOK, LifeOK
    <2>2. UdpOK(q, t, owed'[u]) BY <1>2, <1>6, <1>7, <1>8, <2>1 DEF UdpOK
    <2>3. QED BY <1>1, <2>2 DEF NodeOK
  <1>11. Allowed(u, LifeOf(u, nd[u]), LifeOf(u, q), FlightOf(u, nd[u], t), FlightOf(u, q, t))
    BY <1>1, <1>2, <1>6, <1>7 DEF LifeOf, FlightOf, Allowed
  <1>12. \A e \in batch' : e.node # u BY <1>2
  <1>13. QED BY <1>1, <1>2, <1>3, <1>4, <1>5, <1>10, <1>11, <1>12, NodeFacts, AppStep DEF q

LEMMA AppCallStep == ASSUME Inv, ~Rearm, AppCall PROVE Inv' /\ Promised
  <1>1. ASSUME NEW s \in Socks,
               \/ Attach(s) \/ Connect(s) \/ Recv(s) \/ RecvCancel(s) \/ \E n \in 1 .. 2 : Send(s, n)
               \/ Commit(s) \/ Flush(s) \/ (\E m \in 0 .. 1 : SendWait(s, m)) \/ Close(s)
        PROVE  Inv' /\ Promised
    BY <1>1, AttachStep, ConnectStep, RecvStep, RecvCancelStep, SendStep, CommitStep, FlushStep,
       SendWaitStep, CloseStep, Zenon
  <1>2. ASSUME NEW a \in Accs, Accept(a) \/ AcceptCancel(a) PROVE Inv' /\ Promised
    BY <1>2, AcceptStep, AcceptCancelStep
  <1>3. ASSUME NEW u \in Udps, Attach(u) \/ UdpRecv(u) \/ UdpSendWait(u) \/ UdpClose(u)
        PROVE  Inv' /\ Promised
    BY <1>3, AttachStep, UdpRecvStep, UdpSendWaitStep, UdpCloseStep
  <1>4. QED BY <1>1, <1>2, <1>3, Zenon DEF AppCall

-----------------------------------------------------------------------------
(* What the loop does of one node, item by item.                           *)

LEMMA DoingLeaves ==
  ASSUME Inv, NEW n \in Nodes, NEW i \in DOMAIN Order, Doing(n, i)
  PROVE  /\ Left(n)' = Left(n) \ {i} /\ i \in Left(n) /\ call = NoCall
         /\ UNCHANGED <<phase, pass, passes, batch>>
         /\ \A m \in Nodes \ {n} : \A k \in DOMAIN Order : InTodo(m, k)' <=> InTodo(m, k)
         /\ \A k \in Left(n) : Order[i] <= Order[k]
         /\ phase = IF i \in Bits THEN "done" ELSE "batch"
  <1>1. todo' = todo \ {Item(n, i)} /\ Item(n, i) \in todo /\ \A e \in todo : Order[i] <= Order[e.do]
    BY DEF Doing
  <1>2. \A m, k : Item(m, k) = Item(n, i) <=> m = n /\ k = i
    <2> SUFFICES ASSUME NEW m, NEW k PROVE Item(m, k) = Item(n, i) <=> m = n /\ k = i
      OBVIOUS
    <2>1. Item(m, k).node = m /\ Item(m, k).do = k /\ Item(n, i).node = n /\ Item(n, i).do = i
      BY DEF Item
    <2>2. QED BY <2>1 DEF Item
  <1>3. \A m \in Nodes \ {n} : \A k \in DOMAIN Order : InTodo(m, k)' <=> InTodo(m, k)
    BY <1>1, <1>2 DEF InTodo
  <1>4. Left(n)' = Left(n) \ {i} BY <1>1, <1>2 DEF Left, InTodo
  <1>5. ASSUME NEW k \in Left(n) PROVE Order[i] <= Order[k]
    BY <1>1 DEF Left, InTodo, Item
  <1>6. phase = IF i \in Bits THEN "done" ELSE "batch" BY <1>1 DEF Inv, ThreadInv, Item
  <1>7. i \in Left(n) BY <1>1 DEF Left, InTodo
  <1>8. QED BY <1>3, <1>4, <1>5, <1>6, <1>7 DEF Doing

(* What the program finds undone once a function of its runs. *)
LEMMA DoingThread ==
  ASSUME Inv, NEW n \in Nodes, NEW i \in DOMAIN Order, Doing(n, i), \A e \in batch : nd'[e.node].reg
  PROVE  ThreadInv'
  <1>1. todo' \subseteq todo /\ UNCHANGED <<phase, pass, passes, batch>> /\ Item(n, i) \in todo
    BY DEF Doing
  <1>2. ASSUME NEW e \in todo'
        PROVE  e.do \notin {"connected", "evconnect"} /\ (e.do = "received" => e.node \in Socks)
    <2>1. e \in todo /\ e.node = n /\ e.do \in DOMAIN Order /\ e = Item(n, e.do)
      <3>1. e \in todo /\ e \in [node : Nodes, do : DOMAIN Order] BY <1>1 DEF Inv, ThreadInv
      <3>2. e.node = Item(n, i).node BY <1>1, <3>1 DEF Inv, ThreadInv
      <3>3. QED BY <3>1, <3>2 DEF Item
    <2>2. e.do # i BY <2>1 DEF Doing
    <2>3. e.do \in Left(n) /\ i \in Left(n) BY <2>1, <1>1 DEF Left, InTodo
    <2>4. Order[i] <= Order[e.do] /\ (i \in Bits <=> e.do \in Bits)
      <3>1. Order[i] <= Order[e.do] BY <2>1 DEF Doing
      <3>2. /\ phase = IF i \in Bits THEN "done" ELSE "batch"
            /\ phase = IF e.do \in Bits THEN "done" ELSE "batch"
        BY <2>1, <1>1 DEF Inv, ThreadInv, Item
      <3>3. QED BY <3>1, <3>2
    <2>5. CASE n \in Socks
      <3>1. e.do # "evconnect" BY <2>2, <2>3, <2>5, NodeFacts DEF NodeOK, SockOK
      <3>2. e.do # "connected"
        <4>1. SUFFICES ASSUME e.do = "connected" PROVE FALSE OBVIOUS
        <4>2. Order[i] <= 1 /\ i \in {"received", "writable", "flush", "closed"}
          BY <2>2, <2>4, <4>1, OrderIs DEF Bits
        <4>3. QED BY <4>2, OrderIs
      <3>3. QED BY <2>1, <2>5, <3>1, <3>2
    <2>6. CASE n \in Udps
      <3>1. Left(n) \subseteq {"received", "writable", "closed", "udpread", "udpwrite"}
        BY <2>6, NodeFacts DEF NodeOK, UdpOK
      <3>2. e.do # "received"
        <4>1. SUFFICES ASSUME e.do = "received" PROVE FALSE OBVIOUS
        <4>2. Order[i] <= 2 /\ i \in {"writable", "closed"}
          BY <2>2, <2>3, <2>4, <3>1, <4>1, OrderIs DEF Bits
        <4>3. QED BY <4>2, OrderIs
      <3>3. QED BY <2>3, <3>1, <3>2
    <2>7. CASE n \in Accs
      BY <2>3, <2>7, NodeFacts DEF NodeOK, AccOK
    <2>8. QED BY <2>5, <2>6, <2>7 DEF Nodes
  <1>3. call = NoCall /\ phase # "app" BY <1>1 DEF Doing, Inv, ThreadInv, AtRest
  <1>4. \A e \in batch' : nd'[e.node].reg BY <1>1
  <1>5. QED BY <1>1, <1>2, <1>3, <1>4 DEF Inv, ThreadInv

LEMMA DoStep ==
  ASSUME Inv, NEW n \in Nodes, NEW i \in DOMAIN Order, Doing(n, i), NEW r \in NodeType,
         nd' = [nd EXCEPT ![n] = r], doneList' = doneList,
         r.flagq = nd[n].flagq, r.done = nd[n].done, nd[n].reg => r.reg,
         owed' \in [Nodes -> [Ops -> Int]], \A m \in Nodes \ {n} : owed'[m] = owed[m],
         NodeOK(n, r, Left(n) \ {i}, owed'[n]),
         Answers(n, LifeOf(n, nd[n]), LifeOf(n, r),
                 FlightOf(n, nd[n], Left(n)), FlightOf(n, r, Left(n) \ {i}))
  PROVE  Inv' /\ Promised
  <1>1. nd' \in [Nodes -> NodeType] /\ nd'[n] = r /\ \A m \in Nodes \ {n} : nd'[m] = nd[m]
    BY DEF Inv, TypeOK
  <1>2. /\ Left(n)' = Left(n) \ {i} /\ call = <<>> /\ UNCHANGED <<phase, pass, passes, batch>>
        /\ \A m \in Nodes \ {n} : \A k \in DOMAIN Order : InTodo(m, k)' <=> InTodo(m, k)
    BY DoingLeaves DEF NoCall
  <1>3. TypeOK' BY <1>1, <1>2 DEF Inv, TypeOK
  <1>4. LinkInv'
    <2>1. \A m \in Nodes : nd'[m].flagq = nd[m].flagq /\ nd'[m].done = nd[m].done BY <1>1
    <2>2. QED BY <2>1, <1>2 DEF Inv, LinkInv
  <1>5. ThreadInv'
    <2>1. ASSUME NEW e \in batch PROVE nd'[e.node].reg
      <3>1. e.node \in Nodes /\ nd[e.node].reg BY DEF Inv, ThreadInv
      <3>2. QED BY <1>1, <3>1
    <2>2. QED BY <2>1, DoingThread
  <1>6. \A m \in Nodes : NodeOK(m, nd'[m], Left(m)', owed'[m])
    BY <1>1, <1>2, OthersKept
  <1>7. phase # "gone" /\ phase' # "gone" BY <1>2 DEF Inv
  <1>8. Promised
    <2> DEFINE l == LifeOf(n, nd[n])
               l1 == LifeOf(n, nd'[n])
               f == FlightOf(n, nd[n], Left(n))
               f1 == FlightOf(n, nd'[n], Left(n)')
    <2>1. Answers(n, l, l1, f, f1) BY <1>1, <1>2
    <2> HIDE DEF l, l1, f, f1
    <2>2. QED BY <2>1, <1>1, <1>2, <1>7, PromiseOfStep DEF l, l1, f, f1
  <1>9. QED BY <1>3, <1>4, <1>5, <1>6, <1>7, <1>8 DEF Inv

LEMMA CallOwes ==
  ASSUME TypeOK, NEW n \in Nodes, NEW o \in Ops, Call(n, o)
  PROVE  /\ owed' \in [Nodes -> [Ops -> Int]] /\ \A m \in Nodes \ {n} : owed'[m] = owed[m]
         /\ owed'[n][o] = owed[n][o] - 1 /\ \A k \in Ops \ {o} : owed'[n][k] = owed[n][k]
         /\ call' = <<n, o>>
  BY DEF TypeOK, Call

LEMMA WritableOwes ==
  ASSUME TypeOK, NEW n \in Nodes, NEW ok \in BOOLEAN, CallWritable(n, ok)
  PROVE  /\ owed' \in [Nodes -> [Ops -> Int]] /\ \A m \in Nodes \ {n} : owed'[m] = owed[m]
         /\ \A k \in Ops \ {"writable"} : owed'[n][k] = owed[n][k]
         /\ call' = <<n, "writable">>
  <1> DEFINE w == IF ok THEN owed[n]["writable"] - 1 ELSE 0
  <1>1. w \in Int BY DEF TypeOK, Ops
  <1>2. owed' = [owed EXCEPT ![n]["writable"] = w] /\ call' = <<n, "writable">> BY DEF CallWritable
  <1> HIDE DEF w
  <1>3. QED BY <1>1, <1>2 DEF TypeOK, Ops

(* An item of a socket's that answers no operation but a send wait. *)
LEMMA SockDo ==
  ASSUME Inv, NEW s \in Socks, NEW i \in DOMAIN Order, i \notin {"received", "connected", "closed"},
         Doing(s, i), NEW r \in NodeType, Put(s, r), doneList' = doneList,
         r.st = nd[s].st, r.recv = nd[s].recv, r.done = nd[s].done, r.flagq = nd[s].flagq,
         nd[s].reg => r.reg, nd[s].st = "closing" => r.reg = nd[s].reg /\ r.want = nd[s].want,
         r.queued > 0 => nd[s].queued > 0, SentOK(r, Left(s) \ {i}),
         UNCHANGED <<call, owed>> \/ \E ok \in BOOLEAN : CallWritable(s, ok)
  PROVE  Inv' /\ Promised
  <1> DEFINE t == Left(s)
             t1 == t \ {i}
  <1>1. s \in Nodes /\ s \notin Accs /\ s \notin Udps BY SelectorAssumption DEF Nodes
  <1>2. /\ owed' \in [Nodes -> [Ops -> Int]] /\ \A m \in Nodes \ {s} : owed'[m] = owed[m]
        /\ owed'[s]["received"] = owed[s]["received"] /\ owed'[s]["connected"] = owed[s]["connected"]
        /\ call' = call \/ call' = <<s, "writable">>
    BY <1>1, NodeFacts, WritableOwes DEF Inv, Ops
  <1>3. i \in t BY <1>1, DoingLeaves
  <1>4. SockOK(nd[s], t, owed[s]) BY <1>1, NodeFacts DEF NodeOK
  <1>5. \A k \in {"received", "connected", "closed"} : k \in r.done \cup t1 <=> k \in nd[s].done \cup t
    OBVIOUS
  <1>6. LifeOK(r, t1) /\ r.st # "none"
    BY <1>3, <1>4, <1>5 DEF SockOK, LifeOK
  <1>7. SockOK(r, t1, owed'[s])
    <2>1. owed'[s]["received"] = Count(r.recv) + Count("received" \in r.done \cup t1)
      BY <1>2, <1>4, <1>5 DEF SockOK, Count
    <2>2. owed'[s]["connected"] = Count(r.st = "connecting" \/ "connected" \in r.done \cup t1)
      BY <1>2, <1>4, <1>5 DEF SockOK, Count
    <2>3. r.recv => r.st = "open" /\ "received" \notin r.done \cup t1 BY <1>4, <1>5 DEF SockOK
    <2>4. "evconnect" \notin t1 BY <1>3, <1>4 DEF SockOK
    <2>5. r.queued > 0 => r.st = "open" BY <1>4 DEF SockOK
    <2>6. QED BY <1>4, <1>6, <2>1, <2>2, <2>3, <2>4, <2>5 DEF SockOK
  <1>8. NodeOK(s, r, t1, owed'[s]) BY <1>1, <1>7 DEF NodeOK
  <1>9. LifeOf(s, r) = LifeOf(s, nd[s]) /\ LifeOf(s, r) # "unused" /\ FlightOf(s, r, t1) = FlightOf(s, nd[s], t)
    BY <1>1, <1>5, <1>6 DEF LifeOf, FlightOf
  <1>10. Answers(s, LifeOf(s, nd[s]), LifeOf(s, r), FlightOf(s, nd[s], t), FlightOf(s, r, t1))
    BY <1>2, <1>9 DEF Answers
  <1>11. nd' = [nd EXCEPT ![s] = r] BY DEF Put
  <1>12. QED BY <1>1, <1>2, <1>8, <1>10, <1>11, DoStep

LEMMA DeliverFlushStep == ASSUME Inv, NEW s \in Socks, DeliverFlush(s) PROVE Inv' /\ Promised
  <1>1. s \in Nodes /\ nd[s] \in NodeType /\ SockOK(nd[s], Left(s), owed[s]) /\ SentOK(nd[s], Left(s))
    BY SelectorAssumption, NodeFacts DEF Nodes, NodeOK
  <1>2. Doing(s, "flush") /\ "flush" \in DOMAIN Order BY OrderIs DEF DeliverFlush
  <1>3. CASE nd[s].st = "open" /\ nd[s].queued > 0 /\ "W" \notin nd[s].want
    <2>1. PICK r \in NodeType : FlushLeaves(s, TRUE, r)
      BY <1>1, <1>3, FlushGives DEF DeliverFlush, SentOK
    <2>2. SentOK(r, Left(s) \ {"flush"}) BY <2>1 DEF FlushLeaves, SentOK
    <2>3. Put(s, r) /\ doneList' = doneList /\ (UNCHANGED <<call, owed>> \/ \E ok \in BOOLEAN : CallWritable(s, ok))
      BY <2>1 DEF FlushLeaves
    <2>4. QED BY <1>2, <1>3, <2>1, <2>2, <2>3, SockDo DEF FlushLeaves
  <1>4. CASE ~(nd[s].st = "open" /\ nd[s].queued > 0 /\ "W" \notin nd[s].want)
    <2>1. UNCHANGED <<nd, doneList, call, owed>> BY <1>4 DEF DeliverFlush
    <2>2. Put(s, nd[s]) BY <1>1, <2>1 DEF Put, Inv, TypeOK
    <2>3. SentOK(nd[s], Left(s) \ {"flush"}) BY <1>1, <1>4 DEF SentOK
    <2>4. QED BY <1>1, <1>2, <2>1, <2>2, <2>3, SockDo
  <1>5. QED BY <1>3, <1>4

LEMMA EventWriteStep == ASSUME Inv, NEW s \in Socks, EventWrite(s) PROVE Inv' /\ Promised
  <1>1. s \in Nodes /\ nd[s] \in NodeType /\ SockOK(nd[s], Left(s), owed[s]) /\ SentOK(nd[s], Left(s))
    BY SelectorAssumption, NodeFacts DEF Nodes, NodeOK
  <1>2. Doing(s, "evwrite") /\ "evwrite" \in DOMAIN Order BY OrderIs DEF EventWrite
  <1>3. CASE nd[s].st = "open" /\ nd[s].queued > 0
    <2>1. PICK r \in NodeType : FlushLeaves(s, TRUE, r)
      BY <1>1, <1>3, FlushGives DEF EventWrite, SentOK
    <2>2. SentOK(r, Left(s) \ {"evwrite"}) BY <2>1 DEF FlushLeaves, SentOK
    <2>3. Put(s, r) /\ doneList' = doneList /\ (UNCHANGED <<call, owed>> \/ \E ok \in BOOLEAN : CallWritable(s, ok))
      BY <2>1 DEF FlushLeaves
    <2>4. QED BY <1>2, <1>3, <2>1, <2>2, <2>3, SockDo DEF FlushLeaves
  <1>4. CASE nd[s].st # "open"
    <2>1. UNCHANGED <<nd, doneList, call, owed>> BY <1>4 DEF EventWrite, Nothing
    <2>2. Put(s, nd[s]) BY <1>1, <2>1 DEF Put, Inv, TypeOK
    <2>3. SentOK(nd[s], Left(s) \ {"evwrite"}) BY <1>1, <1>4 DEF SentOK
    <2>4. QED BY <1>1, <1>2, <2>1, <2>2, <2>3, SockDo
  <1>5. CASE nd[s].st = "open" /\ ~(nd[s].queued > 0)
    <2>1. WatchLess(s, nd[s].want \ {"W"}) BY <1>5 DEF EventWrite
    <2>2. PICK r \in Watches(nd[s], nd[s].want \ {"W"}) : Put(s, r) BY <2>1 DEF WatchLess
    <2>3. nd[s].want \ {"W"} \in SUBSET {"R", "W"} BY <1>1 DEF NodeType
    <2>4. /\ r \in NodeType /\ (nd[s].reg => r.reg) /\ r.st = nd[s].st /\ r.recv = nd[s].recv
          /\ r.wait = nd[s].wait /\ r.wait_at = nd[s].wait_at /\ r.queued = nd[s].queued
          /\ r.done = nd[s].done /\ r.flagq = nd[s].flagq
      BY <1>1, <2>2, <2>3, WatchesGive
    <2>5. SentOK(r, Left(s) \ {"evwrite"}) BY <1>1, <1>5, <2>4 DEF SentOK
    <2>6. UNCHANGED <<doneList, call, owed>> BY <2>1 DEF WatchLess
    <2>7. QED BY <1>2, <1>5, <2>2, <2>4, <2>5, <2>6, SockDo
  <1>6. QED BY <1>3, <1>4, <1>5

(* A socket's operation o is answered; the item i, if it is another, names no operation. *)
LEMMA SockAnswer ==
  ASSUME Inv, NEW s \in Socks, NEW i \in DOMAIN Order, NEW o \in {"received", "connected"},
         i \in {o, "evread", "evconnect"}, Doing(s, i), NEW r \in NodeType, Put(s, r), Call(s, o),
         doneList' = doneList, r.done = nd[s].done, r.flagq = nd[s].flagq, nd[s].reg => r.reg,
         nd[s].st = "closing" => r.reg = nd[s].reg /\ r.want = nd[s].want, r.queued = nd[s].queued, SentOK(r, Left(s) \ {i}),
         o \in FlightOf(s, nd[s], Left(s)),
         FlightOf(s, r, Left(s) \ {i}) = FlightOf(s, nd[s], Left(s)) \ {o},
         r.recv => nd[s].recv,
         \/ r.st = nd[s].st
         \/ o = "connected" /\ nd[s].st = "connecting" /\ r.st \in {"open", "dead"}
  PROVE  Inv' /\ Promised
  <1> DEFINE t == Left(s)
             t1 == t \ {i}
  <1>1. s \in Nodes /\ s \notin Accs /\ s \notin Udps BY SelectorAssumption DEF Nodes
  <1>2. /\ owed' \in [Nodes -> [Ops -> Int]] /\ \A m \in Nodes \ {s} : owed'[m] = owed[m]
        /\ owed'[s][o] = owed[s][o] - 1
        /\ \A k \in {"received", "connected"} : k # o => owed'[s][k] = owed[s][k]
        /\ call' = <<s, o>>
    BY <1>1, CallOwes DEF Inv, Ops
  <1>3. i \in t BY <1>1, DoingLeaves
  <1>4. SockOK(nd[s], t, owed[s]) BY <1>1, NodeFacts DEF NodeOK
  <1>5. /\ ("received" \in FlightOf(s, nd[s], t) <=> nd[s].recv \/ "received" \in nd[s].done \cup t)
        /\ ("connected" \in FlightOf(s, nd[s], t) <=> nd[s].st = "connecting" \/ "connected" \in nd[s].done \cup t)
        /\ ("received" \in FlightOf(s, r, t1) <=> r.recv \/ "received" \in r.done \cup t1)
        /\ ("connected" \in FlightOf(s, r, t1) <=> r.st = "connecting" \/ "connected" \in r.done \cup t1)
    BY <1>1 DEF FlightOf
  <1>6. nd[s].st # "none" /\ "closed" \notin {i, o} /\ ("closed" \in r.done \cup t1 <=> "closed" \in nd[s].done \cup t)
    BY <1>3, <1>4 DEF SockOK, LifeOK
  <1>7. LifeOK(r, t1) BY <1>4, <1>6 DEF SockOK, LifeOK
  <1> DEFINE wasReceived == "received" \in nd[s].done \cup t
             isReceived == "received" \in r.done \cup t1
             wasConnected == nd[s].st = "connecting" \/ "connected" \in nd[s].done \cup t
             isConnected == r.st = "connecting" \/ "connected" \in r.done \cup t1
  <1>8. /\ r.recv \/ isReceived <=> (nd[s].recv \/ wasReceived) /\ o # "received"
        /\ isConnected <=> wasConnected /\ o # "connected"
        /\ o = "received" => nd[s].recv \/ wasReceived
        /\ o = "connected" => wasConnected
        /\ isReceived => wasReceived
        /\ nd[s].recv => ~wasReceived
    BY <1>4, <1>5 DEF SockOK
  <1>9. /\ owed[s]["received"] = Count(nd[s].recv) + Count(wasReceived)
        /\ owed[s]["connected"] = Count(wasConnected)
    BY <1>4 DEF SockOK
  <1> HIDE DEF wasReceived, isReceived, wasConnected, isConnected
  <1>10. owed'[s]["received"] = Count(r.recv) + Count(isReceived)
    <2>1. CASE o = "received"
      <3>1. ~r.recv /\ ~isReceived BY <2>1, <1>8
      <3>2. owed[s]["received"] = 1 BY <2>1, <1>8, <1>9 DEF Count
      <3>3. QED BY <2>1, <3>1, <3>2, <1>2 DEF Count
    <2>2. CASE o = "connected"
      <3>1. CASE nd[s].recv
        <4>1. r.recv /\ ~isReceived /\ ~wasReceived BY <2>2, <3>1, <1>8
        <4>2. QED BY <2>2, <3>1, <4>1, <1>2, <1>9 DEF Count
      <3>2. CASE ~nd[s].recv
        <4>1. ~r.recv /\ (isReceived <=> wasReceived) BY <2>2, <3>2, <1>8
        <4>2. QED BY <2>2, <3>2, <4>1, <1>2, <1>9 DEF Count
      <3>3. QED BY <3>1, <3>2
    <2>3. QED BY <2>1, <2>2
  <1>11. owed'[s]["connected"] = Count(isConnected)
    <2>1. CASE o = "received"
      <3>1. isConnected <=> wasConnected BY <2>1, <1>8
      <3>2. QED BY <2>1, <3>1, <1>2, <1>9 DEF Count
    <2>2. CASE o = "connected"
      <3>1. ~isConnected BY <2>2, <1>8
      <3>2. owed[s]["connected"] = 1 BY <2>2, <1>8, <1>9 DEF Count
      <3>3. QED BY <2>2, <3>1, <3>2, <1>2 DEF Count
    <2>3. QED BY <2>1, <2>2
  <1> USE DEF isReceived, isConnected
  <1>12. SockOK(r, t1, owed'[s])
    <2>1. r.recv => r.st = "open" /\ "received" \notin r.done \cup t1 BY <1>4 DEF SockOK
    <2>2. "evconnect" \notin t1 BY <1>3, <1>4 DEF SockOK
    <2>3. r.queued > 0 => r.st = "open" BY <1>4 DEF SockOK
    <2>4. QED BY <1>4, <1>7, <1>10, <1>11, <2>1, <2>2, <2>3 DEF SockOK
  <1>13. NodeOK(s, r, t1, owed'[s]) BY <1>1, <1>12 DEF NodeOK
  <1>14. LifeOf(s, r) = LifeOf(s, nd[s]) BY <1>1, <1>6 DEF LifeOf
  <1>15. Answers(s, LifeOf(s, nd[s]), LifeOf(s, r), FlightOf(s, nd[s], t), FlightOf(s, r, t1))
    BY <1>2, <1>14 DEF Answers
  <1>16. nd' = [nd EXCEPT ![s] = r] BY DEF Put
  <1>17. QED BY <1>1, <1>2, <1>13, <1>15, <1>16, DoStep

LEMMA DeliverConnectedStep == ASSUME Inv, NEW s \in Socks, DeliverConnected(s) PROVE Inv' /\ Promised
  <1> DEFINE i == "connected"
             st1 == IF nd[s].st = "connecting" THEN (IF nd[s].err = "ok" THEN "open" ELSE "dead") ELSE nd[s].st
             r == [nd[s] EXCEPT !.st = st1]
             t == Left(s)
  <1>1. s \in Nodes /\ s \notin Accs /\ nd[s] \in NodeType /\ SockOK(nd[s], t, owed[s]) /\ SentOK(nd[s], t)
    BY SelectorAssumption, NodeFacts DEF Nodes, NodeOK
  <1>2. Doing(s, i) /\ i \in DOMAIN Order BY OrderIs DEF DeliverConnected
  <1>3. i \in t BY <1>1, <1>2, DoingLeaves
  <1>4. Put(s, r) /\ Call(s, i) /\ doneList' = doneList
    <2>1. nd[s].st # "connecting" => r = nd[s] BY <1>1 DEF NodeType
    <2>2. QED BY <2>1 DEF DeliverConnected, SockConnected
  <1>5. st1 \in {"none", "open", "connecting", "dead", "closing"} BY <1>1 DEF NodeType
  <1> HIDE DEF st1
  <1>6. /\ r \in NodeType /\ r.st = st1 /\ r.done = nd[s].done /\ r.flagq = nd[s].flagq /\ r.reg = nd[s].reg
        /\ r.queued = nd[s].queued /\ r.recv = nd[s].recv /\ r.wait = nd[s].wait /\ r.wait_at = nd[s].wait_at
        /\ r.want = nd[s].want
    BY <1>1, <1>5 DEF NodeType
  <1> HIDE DEF r
  <1>7. IF nd[s].st = "connecting" THEN r.st \in {"open", "dead"} ELSE r.st = nd[s].st
    BY <1>6 DEF st1
  <1>8. i \notin nd[s].done BY <1>1, <1>3 DEF SockOK, LifeOK
  <1>9. SentOK(r, t \ {i})
    <2>1. nd[s].queued > 0 => nd[s].st = "open" BY <1>1 DEF SockOK
    <2>2. QED BY <2>1, <1>1, <1>6, <1>7 DEF SentOK
  <1>10. i \in FlightOf(s, nd[s], t) BY <1>1, <1>3 DEF FlightOf
  <1>11. FlightOf(s, r, t \ {i}) = FlightOf(s, nd[s], t) \ {i}
    BY <1>1, <1>3, <1>6, <1>7, <1>8 DEF FlightOf
  <1>12. QED BY <1>2, <1>4, <1>6, <1>7, <1>9, <1>10, <1>11, SockAnswer

LEMMA EventConnectStep == ASSUME Inv, NEW s \in Socks, EventConnect(s) PROVE Inv' /\ Promised
  <1> DEFINE i == "evconnect"
             t == Left(s)
  <1>1. s \in Nodes /\ s \notin Accs /\ nd[s] \in NodeType /\ SockOK(nd[s], t, owed[s]) /\ SentOK(nd[s], t)
    BY SelectorAssumption, NodeFacts DEF Nodes, NodeOK
  <1>2. Doing(s, i) /\ i \in DOMAIN Order BY OrderIs DEF EventConnect
  <1>3. i \in t BY <1>1, <1>2, DoingLeaves
  <1>4. t = {i} /\ nd[s].st = "connecting" /\ "connected" \notin nd[s].done BY <1>1, <1>3 DEF SockOK
  <1>5. CASE Nothing
    <2>1. UNCHANGED <<nd, doneList, call, owed>> BY <1>5 DEF Nothing
    <2>2. Put(s, nd[s]) BY <1>1, <2>1 DEF Put, Inv, TypeOK
    <2>3. SentOK(nd[s], t \ {i}) BY <1>1, <1>4 DEF SentOK
    <2>4. QED BY <1>1, <1>2, <2>1, <2>2, <2>3, SockDo
  <1>6. ASSUME NEW ok \in BOOLEAN, NEW x \in Watches(nd[s], {}), SockConnected(s, x, ok)
        PROVE  Inv' /\ Promised
    <2> DEFINE st1 == IF ok THEN "open" ELSE "dead"
               r == [x EXCEPT !.st = st1]
    <2>1. /\ x \in NodeType /\ (nd[s].reg => x.reg) /\ x.st = "connecting" /\ x.recv = nd[s].recv
          /\ x.wait = nd[s].wait /\ x.wait_at = nd[s].wait_at /\ x.queued = nd[s].queued
          /\ x.done = nd[s].done /\ x.flagq = nd[s].flagq
      BY <1>1, <1>4, WatchesGive
    <2>2. Put(s, r) /\ Call(s, "connected") /\ doneList' = doneList BY <1>6, <2>1 DEF SockConnected
    <2>3. /\ r \in NodeType /\ r.st \in {"open", "dead"} /\ r.done = nd[s].done /\ r.flagq = nd[s].flagq
          /\ r.reg = x.reg /\ r.queued = nd[s].queued /\ r.recv = nd[s].recv /\ r.wait = nd[s].wait
          /\ r.wait_at = nd[s].wait_at
      BY <2>1 DEF NodeType
    <2> HIDE DEF r
    <2>4. SentOK(r, t \ {i}) BY <1>1, <1>4, <2>3 DEF SentOK, SockOK
    <2>5. /\ "connected" \in FlightOf(s, nd[s], t)
          /\ FlightOf(s, r, t \ {i}) = FlightOf(s, nd[s], t) \ {"connected"}
      BY <1>1, <1>4, <2>3 DEF FlightOf
    <2>6. QED BY <1>2, <1>4, <2>1, <2>2, <2>3, <2>4, <2>5, SockAnswer
  <1>7. QED BY <1>5, <1>6 DEF EventConnect

LEMMA EventReadStep == ASSUME Inv, NEW s \in Socks, EventRead(s) PROVE Inv' /\ Promised
  <1> DEFINE i == "evread"
             t == Left(s)
  <1>1. s \in Nodes /\ s \notin Accs /\ nd[s] \in NodeType /\ SockOK(nd[s], t, owed[s]) /\ SentOK(nd[s], t)
    BY SelectorAssumption, NodeFacts DEF Nodes, NodeOK
  <1>2. Doing(s, i) /\ i \in DOMAIN Order BY OrderIs DEF EventRead
  <1>3. SentOK(nd[s], t \ {i}) BY <1>1 DEF SentOK
  <1>4. CASE Nothing
    <2>1. UNCHANGED <<nd, doneList, call, owed>> BY <1>4 DEF Nothing
    <2>2. Put(s, nd[s]) BY <1>1, <2>1 DEF Put, Inv, TypeOK
    <2>3. QED BY <1>1, <1>2, <1>3, <2>1, <2>2, SockDo
  <1>5. CASE nd[s].recv /\ Put(s, [nd[s] EXCEPT !.recv = FALSE]) /\ Call(s, "received") /\ UNCHANGED doneList
    <2> DEFINE r == [nd[s] EXCEPT !.recv = FALSE]
    <2>1. /\ r \in NodeType /\ r.st = nd[s].st /\ r.done = nd[s].done /\ r.flagq = nd[s].flagq
          /\ r.reg = nd[s].reg /\ r.queued = nd[s].queued /\ ~r.recv /\ r.wait = nd[s].wait
          /\ r.wait_at = nd[s].wait_at /\ r.want = nd[s].want
      BY <1>1 DEF NodeType
    <2>2. Put(s, r) BY <1>5
    <2> HIDE DEF r
    <2>3. SentOK(r, t \ {i}) BY <1>3, <2>1 DEF SentOK
    <2>4. nd[s].st = "open" /\ "received" \notin nd[s].done \cup t BY <1>1, <1>5 DEF SockOK
    <2>5. /\ "received" \in FlightOf(s, nd[s], t)
          /\ FlightOf(s, r, t \ {i}) = FlightOf(s, nd[s], t) \ {"received"}
      BY <1>1, <1>5, <2>1, <2>4 DEF FlightOf
    <2>6. QED BY <1>2, <1>5, <2>1, <2>2, <2>3, <2>4, <2>5, SockAnswer
  <1>6. CASE WatchLess(s, nd[s].want \ {"R"})
    <2>1. PICK r \in Watches(nd[s], nd[s].want \ {"R"}) : Put(s, r) BY <1>6 DEF WatchLess
    <2>2. nd[s].want \ {"R"} \in SUBSET {"R", "W"} BY <1>1 DEF NodeType
    <2>3. /\ r \in NodeType /\ (nd[s].reg => r.reg) /\ r.st = nd[s].st /\ r.recv = nd[s].recv
          /\ r.wait = nd[s].wait /\ r.wait_at = nd[s].wait_at /\ r.queued = nd[s].queued
          /\ r.done = nd[s].done /\ r.flagq = nd[s].flagq /\ ("W" \in nd[s].want => "W" \in r.want)
          /\ ~nd[s].reg /\ nd[s].want = {} => r = nd[s]
      BY <1>1, <2>1, <2>2, WatchesGive
    <2>4. SentOK(r, t \ {i}) BY <1>3, <2>3 DEF SentOK
    <2>5. UNCHANGED <<doneList, call, owed>> BY <1>6 DEF WatchLess
    <2>6. nd[s].st = "closing" => r = nd[s] BY <1>1, <2>3 DEF SockOK, LifeOK
    <2>7. QED BY <1>2, <2>1, <2>3, <2>4, <2>5, <2>6, SockDo
  <1>7. QED BY <1>4, <1>5, <1>6 DEF EventRead

LEMMA DeliverReceivedStep == ASSUME Inv, NEW s \in Socks, DeliverReceived(s) PROVE Inv' /\ Promised
  <1> DEFINE i == "received"
             t == Left(s)
  <1>1. /\ s \in Nodes /\ s \notin Accs /\ s \notin Udps /\ nd[s] \in NodeType
        /\ SockOK(nd[s], t, owed[s]) /\ SentOK(nd[s], t)
    BY SelectorAssumption, NodeFacts DEF Nodes, NodeOK
  <1>2. Doing(s, i) /\ i \in DOMAIN Order BY OrderIs DEF DeliverReceived
  <1>3. i \in t BY <1>1, <1>2, DoingLeaves
  <1>4. Put(s, nd[s]) /\ Call(s, i) /\ doneList' = doneList BY <1>1 DEF DeliverReceived
  <1>5. SentOK(nd[s], t \ {i}) BY <1>1 DEF SentOK
  <1>6. ~nd[s].recv /\ i \notin nd[s].done BY <1>1, <1>3 DEF SockOK, LifeOK
  <1>7. i \in FlightOf(s, nd[s], t) /\ FlightOf(s, nd[s], t \ {i}) = FlightOf(s, nd[s], t) \ {i}
    BY <1>1, <1>3, <1>6 DEF FlightOf
  <1>8. QED BY <1>1, <1>2, <1>4, <1>5, <1>7, SockAnswer

LEMMA DeliverWritableStep == ASSUME Inv, NEW s \in Socks, DeliverWritable(s) PROVE Inv' /\ Promised
  <1>1. s \in Nodes /\ nd[s] \in NodeType /\ SentOK(nd[s], Left(s))
    BY SelectorAssumption, NodeFacts DEF Nodes, NodeOK
  <1>2. Doing(s, "writable") /\ "writable" \in DOMAIN Order BY OrderIs DEF DeliverWritable
  <1>3. Put(s, nd[s]) /\ doneList' = doneList BY <1>1 DEF DeliverWritable, Put, Inv, TypeOK
  <1>4. \E ok \in BOOLEAN : CallWritable(s, ok)
    <2> DEFINE b == nd[s].st # "closing" /\ ~nd[s].send_err
    <2>1. b \in BOOLEAN /\ CallWritable(s, b) BY DEF DeliverWritable
    <2> HIDE DEF b
    <2>2. QED BY <2>1
  <1>5. SentOK(nd[s], Left(s) \ {"writable"}) BY <1>1 DEF SentOK
  <1>6. QED BY <1>1, <1>2, <1>3, <1>4, <1>5, SockDo

(* Everything left to do of a node is of the part of the round the thread is in. *)
LEMMA LeftOfPhase ==
  ASSUME Inv, NEW n \in Nodes, NEW k \in Left(n)
  PROVE  phase = IF k \in Bits THEN "done" ELSE "batch"
  <1>1. Item(n, k) \in todo /\ Item(n, k).do = k BY DEF Left, InTodo, Item
  <1>2. QED BY <1>1 DEF Inv, ThreadInv

(* An item of a UDP socket's, which may answer its receive or its send wait. *)
LEMMA UdpDo ==
  ASSUME Inv, NEW u \in Udps, NEW i \in {"received", "writable", "udpread", "udpwrite"}, Doing(u, i),
         NEW r \in NodeType, Put(u, r), doneList' = doneList,
         r.st = nd[u].st, r.done = nd[u].done, r.flagq = nd[u].flagq, nd[u].reg => r.reg,
         nd[u].st = "closing" => r.reg = nd[u].reg /\ r.want = nd[u].want,
         \/ /\ r.recv = nd[u].recv /\ i # "received"
            /\ UNCHANGED <<call, owed>> \/ \E ok \in BOOLEAN : CallWritable(u, ok)
         \/ /\ nd[u].recv /\ ~r.recv /\ "received" \notin nd[u].done /\ i \in {"received", "udpread"}
            /\ Call(u, "received")
  PROVE  Inv' /\ Promised
  <1> DEFINE t == Left(u)
             t1 == t \ {i}
  <1>1. u \in Nodes /\ u \notin Accs /\ u \notin Socks /\ i \in DOMAIN Order
    BY SelectorAssumption, OrderIs DEF Nodes
  <1>2. i \in t BY <1>1, DoingLeaves
  <1>3. UdpOK(nd[u], t, owed[u]) BY <1>1, NodeFacts DEF NodeOK
  <1>4. LifeOK(r, t1) /\ r.st # "none" BY <1>2, <1>3 DEF UdpOK, LifeOK
  <1>5. nd' = [nd EXCEPT ![u] = r] BY DEF Put
  <1>6. LifeOf(u, r) = LifeOf(u, nd[u]) /\ LifeOf(u, r) # "unused" BY <1>1, <1>4 DEF LifeOf
  <1>7. "connected" \notin nd[u].done \cup t /\ nd[u].st # "connecting" BY <1>3 DEF UdpOK
  <1>8. CASE /\ r.recv = nd[u].recv /\ i # "received"
             /\ UNCHANGED <<call, owed>> \/ \E ok \in BOOLEAN : CallWritable(u, ok)
    <2>1. /\ owed' \in [Nodes -> [Ops -> Int]] /\ \A m \in Nodes \ {u} : owed'[m] = owed[m]
          /\ owed'[u]["received"] = owed[u]["received"]
          /\ call' = call \/ call' = <<u, "writable">>
      BY <1>1, <1>8, NodeFacts, WritableOwes DEF Inv, Ops
    <2>2. UdpOK(r, t1, owed'[u]) BY <1>3, <1>4, <1>8, <2>1 DEF UdpOK
    <2>3. NodeOK(u, r, t1, owed'[u]) BY <1>1, <2>2 DEF NodeOK
    <2>4. FlightOf(u, r, t1) = FlightOf(u, nd[u], t) BY <1>1, <1>7, <1>8 DEF FlightOf
    <2>5. Answers(u, LifeOf(u, nd[u]), LifeOf(u, r), FlightOf(u, nd[u], t), FlightOf(u, r, t1))
      BY <1>6, <2>1, <2>4 DEF Answers
    <2>6. QED BY <1>1, <1>5, <2>1, <2>3, <2>5, DoStep
  <1>9. CASE /\ nd[u].recv /\ ~r.recv /\ "received" \notin nd[u].done /\ i \in {"received", "udpread"}
             /\ Call(u, "received")
    <2>1. /\ owed' \in [Nodes -> [Ops -> Int]] /\ \A m \in Nodes \ {u} : owed'[m] = owed[m]
          /\ owed'[u]["received"] = owed[u]["received"] - 1 /\ call' = <<u, "received">>
      BY <1>1, <1>9, CallOwes DEF Inv, Ops
    <2>2. "received" \notin t1
      <3>1. CASE i = "udpread"
        <4>1. phase = "batch" BY <1>1, <1>2, <3>1, LeftOfPhase DEF Bits
        <4>2. QED BY <1>1, <4>1, LeftOfPhase DEF Bits
      <3>2. QED BY <1>9, <3>1
    <2>3. UdpOK(r, t1, owed'[u]) BY <1>3, <1>4, <1>9, <2>1, <2>2 DEF UdpOK, Count
    <2>4. NodeOK(u, r, t1, owed'[u]) BY <1>1, <2>3 DEF NodeOK
    <2>5. FlightOf(u, nd[u], t) = {"received"} /\ FlightOf(u, r, t1) = {}
      BY <1>1, <1>7, <1>9, <2>2 DEF FlightOf
    <2>6. Answers(u, LifeOf(u, nd[u]), LifeOf(u, r), FlightOf(u, nd[u], t), FlightOf(u, r, t1))
      BY <1>6, <2>1, <2>5 DEF Answers
    <2>7. QED BY <1>1, <1>5, <2>1, <2>4, <2>6, DoStep
  <1>10. QED BY <1>8, <1>9

LEMMA UdpReceivedStep == ASSUME Inv, NEW u \in Udps, DeliverReceived(u) PROVE Inv' /\ Promised
  <1> DEFINE r == [nd[u] EXCEPT !.recv = FALSE]
  <1>1. /\ u \in Nodes /\ nd[u] \in NodeType /\ UdpOK(nd[u], Left(u), owed[u])
        /\ "received" \in DOMAIN Order
    BY SelectorAssumption, NodeFacts, OrderIs DEF Nodes, NodeOK
  <1>2. Doing(u, "received") /\ Put(u, r) /\ Call(u, "received") /\ doneList' = doneList
    BY DEF DeliverReceived
  <1>3. /\ r \in NodeType /\ r.st = nd[u].st /\ r.done = nd[u].done /\ r.flagq = nd[u].flagq
        /\ r.reg = nd[u].reg /\ r.want = nd[u].want /\ ~r.recv
    BY <1>1 DEF NodeType
  <1> HIDE DEF r
  <1>4. "received" \in Left(u) BY <1>1, <1>2, DoingLeaves
  <1>5. nd[u].recv /\ "received" \notin nd[u].done BY <1>1, <1>4 DEF UdpOK, LifeOK
  <1>6. QED BY <1>2, <1>3, <1>5, UdpDo

LEMMA UdpWritableStep == ASSUME Inv, NEW u \in Udps, DeliverWritable(u) PROVE Inv' /\ Promised
  <1>1. u \in Nodes /\ nd[u] \in NodeType BY NodeFacts DEF Nodes
  <1>2. Doing(u, "writable") BY DEF DeliverWritable
  <1>3. Put(u, nd[u]) /\ doneList' = doneList BY <1>1 DEF DeliverWritable, Put, Inv, TypeOK
  <1>4. \E ok \in BOOLEAN : CallWritable(u, ok)
    <2> DEFINE b == nd[u].st # "closing" /\ ~nd[u].send_err
    <2>1. b \in BOOLEAN /\ CallWritable(u, b) BY DEF DeliverWritable
    <2> HIDE DEF b
    <2>2. QED BY <2>1
  <1>5. QED BY <1>1, <1>2, <1>3, <1>4, UdpDo

LEMMA UdpEventWriteStep == ASSUME Inv, NEW u \in Udps, UdpEventWrite(u) PROVE Inv' /\ Promised
  <1>1. u \in Nodes /\ nd[u] \in NodeType /\ LifeOK(nd[u], Left(u))
    BY SelectorAssumption, NodeFacts DEF Nodes, NodeOK, UdpOK
  <1>2. Doing(u, "udpwrite") /\ doneList' = doneList BY DEF UdpEventWrite
  <1>3. PICK x \in Watches(nd[u], nd[u].want \ {"W"}) : Put(u, [x EXCEPT !.wait = FALSE])
    BY DEF UdpEventWrite
  <1>4. nd[u].want \ {"W"} \in SUBSET {"R", "W"} BY <1>1 DEF NodeType
  <1> DEFINE r == [x EXCEPT !.wait = FALSE]
  <1>5. /\ x \in NodeType /\ (nd[u].reg => x.reg) /\ x.st = nd[u].st /\ x.recv = nd[u].recv
        /\ x.done = nd[u].done /\ x.flagq = nd[u].flagq /\ (~nd[u].reg /\ nd[u].want = {} => x = nd[u])
    BY <1>1, <1>3, <1>4, WatchesGive
  <1>6. /\ r \in NodeType /\ r.st = x.st /\ r.recv = x.recv /\ r.done = x.done /\ r.flagq = x.flagq
        /\ r.reg = x.reg /\ r.want = x.want
    BY <1>5 DEF NodeType
  <1>7. Put(u, r) BY <1>3
  <1> HIDE DEF r
  <1>8. UNCHANGED <<call, owed>> \/ \E ok \in BOOLEAN : CallWritable(u, ok) BY DEF UdpEventWrite
  <1>9. nd[u].st = "closing" => r.reg = nd[u].reg /\ r.want = nd[u].want
    BY <1>1, <1>5, <1>6 DEF LifeOK
  <1>10. QED BY <1>2, <1>5, <1>6, <1>7, <1>8, <1>9, UdpDo

LEMMA UdpEventReadStep == ASSUME Inv, NEW u \in Udps, UdpEventRead(u) PROVE Inv' /\ Promised
  <1> DEFINE i == "udpread"
  <1>1. u \in Nodes /\ nd[u] \in NodeType /\ LifeOK(nd[u], Left(u))
    BY SelectorAssumption, NodeFacts DEF Nodes, NodeOK, UdpOK
  <1>2. Doing(u, i) BY DEF UdpEventRead
  <1>3. CASE Nothing
    <2>1. UNCHANGED <<nd, doneList, call, owed>> BY <1>3 DEF Nothing
    <2>2. Put(u, nd[u]) BY <1>1, <2>1 DEF Put, Inv, TypeOK
    <2>3. QED BY <1>1, <1>2, <2>1, <2>2, UdpDo
  <1>4. CASE WatchLess(u, nd[u].want \ {"R"})
    <2>1. PICK r \in Watches(nd[u], nd[u].want \ {"R"}) : Put(u, r) BY <1>4 DEF WatchLess
    <2>2. nd[u].want \ {"R"} \in SUBSET {"R", "W"} BY <1>1 DEF NodeType
    <2>3. /\ r \in NodeType /\ (nd[u].reg => r.reg) /\ r.st = nd[u].st /\ r.recv = nd[u].recv
          /\ r.done = nd[u].done /\ r.flagq = nd[u].flagq /\ (~nd[u].reg /\ nd[u].want = {} => r = nd[u])
      BY <1>1, <2>1, <2>2, WatchesGive
    <2>4. UNCHANGED <<doneList, call, owed>> BY <1>4 DEF WatchLess
    <2>5. nd[u].st = "closing" => r = nd[u] BY <1>1, <2>3 DEF LifeOK
    <2>6. QED BY <1>2, <2>1, <2>3, <2>4, <2>5, UdpDo
  <1>5. CASE /\ nd[u].recv /\ "received" \notin nd[u].done /\ Put(u, [nd[u] EXCEPT !.recv = FALSE])
             /\ Call(u, "received") /\ UNCHANGED doneList
    <2> DEFINE r == [nd[u] EXCEPT !.recv = FALSE]
    <2>1. /\ r \in NodeType /\ r.st = nd[u].st /\ r.done = nd[u].done /\ r.flagq = nd[u].flagq
          /\ r.reg = nd[u].reg /\ r.want = nd[u].want /\ ~r.recv
      BY <1>1 DEF NodeType
    <2>2. Put(u, r) BY <1>5
    <2> HIDE DEF r
    <2>3. QED BY <1>2, <1>5, <2>1, <2>2, UdpDo
  <1>6. QED BY <1>3, <1>4, <1>5 DEF UdpEventRead

LEMMA DeliverClosedStep ==
  ASSUME Inv, NEW n \in Socks \cup Udps, DeliverClosed(n)
  PROVE  Inv' /\ Promised
  <1> DEFINE i == "closed"
             t == Left(n)
             r == [nd[n] EXCEPT !.st = "none"]
  <1>1. n \in Nodes /\ n \notin Accs /\ nd[n] \in NodeType /\ i \in DOMAIN Order
    BY SelectorAssumption, NodeFacts, OrderIs DEF Nodes
  <1>2. Doing(n, i) BY DEF DeliverClosed
  <1>3. i \in t /\ (\A k \in t : Order[i] <= Order[k]) /\ t \subseteq DOMAIN Order
    BY <1>1, <1>2, DoingLeaves DEF Left
  <1>4. phase = "done" BY <1>1, <1>3, LeftOfPhase DEF Bits
  <1>5. \A k \in t : k \in Bits BY <1>1, <1>4, LeftOfPhase
  <1>6. t = {i}
    <2>1. ASSUME NEW k \in t PROVE k = i
      <3>1. 5 <= Order[k] /\ k \in {"connected", "received", "writable", "flush", "closed"}
        BY <1>3, <1>5, OrderIs DEF Bits
      <3>2. QED BY <3>1, OrderIs
    <2>2. QED BY <1>3, <2>1
  <1>7. LifeOK(nd[n], t)
    BY SelectorAssumption, <1>1, NodeFacts DEF NodeOK, SockOK, UdpOK
  <1>8. nd[n].st = "closing" /\ nd[n].done = {} /\ ~nd[n].reg /\ nd[n].want = {}
    BY <1>3, <1>7 DEF LifeOK
  <1>9. ~nd[n].recv
    <2>1. CASE n \in Socks
      <3>1. SockOK(nd[n], t, owed[n]) BY <1>1, <2>1, NodeFacts DEF NodeOK
      <3>2. QED BY <1>8, <3>1 DEF SockOK
    <2>2. CASE n \in Udps
      <3>1. UdpOK(nd[n], t, owed[n]) BY <1>1, <2>2, NodeFacts DEF NodeOK
      <3>2. QED BY <1>6, <1>8, <3>1 DEF UdpOK
    <2>3. QED BY <2>1, <2>2
  <1>10. Put(n, r) /\ call' = <<n, "closed">> /\ UNCHANGED <<doneList, owed>>
    BY <1>8 DEF DeliverClosed
  <1>11. /\ r \in NodeType /\ r.st = "none" /\ r.done = {} /\ ~r.reg /\ r.want = {} /\ ~r.recv
         /\ r.flagq = nd[n].flagq /\ r.wait = nd[n].wait /\ r.wait_at = nd[n].wait_at
         /\ r.queued = nd[n].queued
    BY <1>1, <1>8, <1>9 DEF NodeType
  <1> HIDE DEF r
  <1>12. LifeOK(r, t \ {i}) BY <1>6, <1>11 DEF LifeOK
  <1>13. NodeOK(n, r, t \ {i}, owed[n])
    <2>1. CASE n \in Socks
      <3>1. SockOK(nd[n], t, owed[n]) /\ SentOK(nd[n], t) /\ n \notin Udps
        BY SelectorAssumption, <1>1, <2>1, NodeFacts DEF NodeOK
      <3>2. SockOK(r, t \ {i}, owed[n])
        BY <1>6, <1>8, <1>9, <1>11, <1>12, <3>1 DEF SockOK, Count
      <3>3. SentOK(r, t \ {i}) BY <1>11, <3>1 DEF SentOK
      <3>4. QED BY <1>1, <3>1, <3>2, <3>3 DEF NodeOK
    <2>2. CASE n \in Udps
      <3>1. UdpOK(nd[n], t, owed[n]) /\ n \notin Socks
        BY SelectorAssumption, <1>1, <2>2, NodeFacts DEF NodeOK
      <3>2. UdpOK(r, t \ {i}, owed[n])
        BY <1>6, <1>9, <1>11, <1>12, <3>1 DEF UdpOK, Count
      <3>3. QED BY <1>1, <3>1, <3>2 DEF NodeOK
    <2>3. QED BY <2>1, <2>2
  <1>14. LifeOf(n, nd[n]) = "closing" /\ LifeOf(n, r) = "unused" BY <1>1, <1>8, <1>11 DEF LifeOf
  <1>15. FlightOf(n, nd[n], t) = {} /\ FlightOf(n, r, t \ {i}) = {}
    BY <1>1, <1>6, <1>8, <1>9, <1>11 DEF FlightOf
  <1>16. Answers(n, LifeOf(n, nd[n]), LifeOf(n, r), FlightOf(n, nd[n], t), FlightOf(n, r, t \ {i}))
    BY <1>10, <1>14, <1>15 DEF Answers
  <1>17. nd' = [nd EXCEPT ![n] = r] /\ owed' = owed BY <1>10 DEF Put
  <1>18. QED BY <1>1, <1>2, <1>8, <1>10, <1>11, <1>13, <1>16, <1>17, NodeFacts, DoStep

LEMMA EventAcceptStep == ASSUME Inv, NEW a \in Accs, EventAccept(a) PROVE Inv' /\ Promised
  <1> DEFINE i == "evaccept"
             t == Left(a)
  <1>1. /\ a \in Nodes /\ a \notin Socks /\ a \notin Udps /\ nd[a] \in NodeType /\ i \in DOMAIN Order
        /\ AccOK(nd[a], t, owed[a]) /\ ConnOK(nd[a])
    BY SelectorAssumption, NodeFacts, OrderIs DEF Nodes, NodeOK
  <1>2. Doing(a, i) BY DEF EventAccept
  <1>3. LifeOf(a, nd[a]) = "attached" /\ \A r : LifeOf(a, r) = "attached" BY <1>1 DEF LifeOf
  <1>4. ASSUME NEW r \in NodeType, Put(a, r), UNCHANGED <<doneList, call, owed>>, nd[a].reg => r.reg,
               r.recv = nd[a].recv, r.done = nd[a].done, r.flagq = nd[a].flagq,
               r.conn = nd[a].conn, r.err = nd[a].err
        PROVE  Inv' /\ Promised
    <2>1. AccOK(r, t \ {i}, owed'[a]) /\ ConnOK(r) BY <1>1, <1>4 DEF AccOK, ConnOK
    <2>2. NodeOK(a, r, t \ {i}, owed'[a]) BY <1>1, <2>1 DEF NodeOK
    <2>3. FlightOf(a, r, t \ {i}) = FlightOf(a, nd[a], t) BY <1>1, <1>4 DEF FlightOf
    <2>4. Answers(a, LifeOf(a, nd[a]), LifeOf(a, r), FlightOf(a, nd[a], t), FlightOf(a, r, t \ {i}))
      BY <1>3, <1>4, <2>3 DEF Answers
    <2>5. nd' = [nd EXCEPT ![a] = r] BY <1>4 DEF Put
    <2>6. QED BY <1>1, <1>2, <1>4, <2>2, <2>4, <2>5, NodeFacts, DoStep
  <1>5. CASE Nothing
    <2>1. Put(a, nd[a]) /\ UNCHANGED <<doneList, call, owed>>
      BY <1>1, <1>5 DEF Nothing, Put, Inv, TypeOK
    <2>2. QED BY <1>1, <1>4, <2>1
  <1>6. CASE WatchLess(a, {})
    <2>1. PICK r \in Watches(nd[a], {}) : Put(a, r) BY <1>6 DEF WatchLess
    <2>2. UNCHANGED <<doneList, call, owed>> BY <1>6 DEF WatchLess
    <2>3. QED BY <1>1, <1>4, <2>1, <2>2, WatchesGive
  <1>7. CASE nd[a].recv /\ "accept" \notin nd[a].done /\ (\E x \in Taken(a) : AccDeliver(a, x)) /\ UNCHANGED doneList
    <2>1. PICK x \in Taken(a) : AccDeliver(a, x) BY <1>7
    <2>2. /\ x \in NodeType /\ x.recv = nd[a].recv /\ x.done = nd[a].done /\ x.flagq = nd[a].flagq
          /\ x.reg = nd[a].reg
      <3>1. PICK o \in {"ok", "failed"} : x = [nd[a] EXCEPT !.err = o, !.conn = (o = "ok")] BY DEF Taken
      <3>2. QED BY <1>1, <3>1 DEF NodeType
    <2> DEFINE r == [x EXCEPT !.done = {}, !.recv = FALSE, !.conn = FALSE]
    <2>3. Put(a, r) /\ Call(a, "accept") BY <2>1 DEF AccDeliver
    <2>4. /\ r \in NodeType /\ r.done = {} /\ ~r.recv /\ ~r.conn /\ r.flagq = x.flagq /\ r.reg = x.reg
      BY <2>2 DEF NodeType
    <2> HIDE DEF r
    <2>5. nd[a].done = {} BY <1>1, <1>7 DEF AccOK
    <2>6. /\ owed' \in [Nodes -> [Ops -> Int]] /\ \A m \in Nodes \ {a} : owed'[m] = owed[m]
          /\ owed'[a]["accept"] = owed[a]["accept"] - 1 /\ call' = <<a, "accept">>
      BY <1>1, <2>3, CallOwes DEF Inv, Ops
    <2>7. AccOK(r, t \ {i}, owed'[a]) BY <1>1, <1>7, <2>4, <2>6 DEF AccOK, Count
    <2>8. NodeOK(a, r, t \ {i}, owed'[a]) BY <1>1, <2>4, <2>7 DEF NodeOK, ConnOK
    <2>9. FlightOf(a, nd[a], t) = {"accept"} /\ FlightOf(a, r, t \ {i}) = {} BY <1>1, <1>7, <2>4 DEF FlightOf
    <2>10. Answers(a, LifeOf(a, nd[a]), LifeOf(a, r), FlightOf(a, nd[a], t), FlightOf(a, r, t \ {i}))
      BY <1>3, <2>6, <2>9 DEF Answers
    <2>11. nd' = [nd EXCEPT ![a] = r] BY <2>3 DEF Put
    <2>12. QED BY <1>1, <1>2, <1>7, <2>2, <2>4, <2>5, <2>6, <2>8, <2>10, <2>11, DoStep
  <1>8. QED BY <1>5, <1>6, <1>7 DEF EventAccept

-----------------------------------------------------------------------------
(* The loop's thread between nodes.                                        *)

(* A step that changes no node, nothing left to do and no call. *)
LEMMA Unnoticed ==
  ASSUME UNCHANGED <<nd, todo, call>>, phase # "gone", phase' # "gone"
  PROVE  Promised /\ \A n \in Nodes : Left(n)' = Left(n)
  <1>1. \A n \in Nodes : Life(n)' = Life(n) /\ InFlight(n)' = InFlight(n) /\ Left(n)' = Left(n)
    BY DEF Life, InFlight, Pending, InTodo, Left
  <1>2. lives' = lives /\ flights' = flights BY <1>1 DEF lives, flights
  <1>3. Promised BY <1>2 DEF Promised, Promise!vars, lives, flights
  <1>4. QED BY <1>1, <1>3

(* The list is taken when the pass before it is over. *)
LEMMA TakeListLinks ==
  ASSUME TypeOK, LinkInv, TakeList, pass = <<>>, nd' = nd
  PROVE  LinkInv' /\ doneList' \in Seq(Nodes) /\ pass' \in Seq(Nodes)
  <1>1. pass' = doneList /\ doneList' = <<>> BY DEF TakeList
  <1>2. \A n : ~Contains(<<>>, n) BY DEF Contains
  <1>3. Distinct(<<>>) BY DEF Distinct
  <1>4. <<>> \in Seq(Nodes) OBVIOUS
  <1>5. QED BY <1>1, <1>2, <1>3, <1>4 DEF LinkInv, TypeOK

(* A step of the thread's alone. *)
LEMMA ThreadStep ==
  ASSUME Inv, UNCHANGED <<nd, todo, call, owed>>, LinkInv', ThreadInv', phase' # "gone",
         doneList' \in Seq(Nodes), pass' \in Seq(Nodes), passes' \in 0 .. DonePasses,
         phase' \in {"app", "done", "batch"}
  PROVE  Inv' /\ Promised
  <1>1. Promised /\ \A n \in Nodes : Left(n)' = Left(n) BY Unnoticed DEF Inv
  <1>2. TypeOK' BY DEF Inv, TypeOK
  <1>3. \A n \in Nodes : NodeOK(n, nd'[n], Left(n)', owed'[n]) BY <1>1 DEF Inv
  <1>4. QED BY <1>1, <1>2, <1>3 DEF Inv

LEMMA ReturnStep == ASSUME Inv, Return PROVE Inv' /\ Promised
  <1>1. call # <<>> /\ call' = <<>> /\ UNCHANGED <<nd, doneList, thread, batch, owed>>
    BY DEF Return, NoCall
  <1>2. \A n \in Nodes : Life(n)' = Life(n) /\ InFlight(n)' = InFlight(n) /\ Left(n)' = Left(n)
    BY <1>1 DEF Life, InFlight, Pending, InTodo, Left
  <1>3. TypeOK' /\ LinkInv' BY <1>1 DEF Inv, TypeOK, LinkInv
  <1>4. ThreadInv' BY <1>1 DEF Inv, ThreadInv, AtRest, NoCall
  <1>5. \A n \in Nodes : NodeOK(n, nd'[n], Left(n)', owed'[n]) BY <1>1, <1>2 DEF Inv
  <1>6. Promised
    <2>1. lives' = lives /\ flights' = flights BY <1>2 DEF lives, flights
    <2>2. ~(phase = "gone") /\ (phase = "gone")' = (phase = "gone") BY <1>1 DEF Inv
    <2>3. Promise!Return BY <1>1, <2>1, <2>2 DEF Promise!Return, lives, flights
    <2>4. QED BY <2>2, <2>3 DEF Promised, Promise!Next
  <1>7. QED BY <1>1, <1>3, <1>4, <1>5, <1>6 DEF Inv

LEMMA RunDoneStep == ASSUME Inv, RunDone PROVE Inv' /\ Promised
  <1>1. /\ phase = "app" /\ phase' = "done" /\ passes' = 1 /\ TakeList
        /\ UNCHANGED <<nd, todo, batch, call, owed>>
    BY DEF RunDone
  <1>2. pass = <<>> /\ batch = {} /\ AtRest BY <1>1 DEF Inv, ThreadInv
  <1>3. LinkInv' /\ doneList' \in Seq(Nodes) /\ pass' \in Seq(Nodes)
    BY <1>1, <1>2, TakeListLinks DEF Inv
  <1>4. ThreadInv' BY <1>1, <1>2 DEF Inv, ThreadInv, AtRest
  <1>5. 1 \in 0 .. DonePasses BY SelectorAssumption
  <1>6. QED BY <1>1, <1>3, <1>4, <1>5, ThreadStep

LEMMA AnotherPassStep == ASSUME Inv, AnotherPass PROVE Inv' /\ Promised
  <1>1. /\ phase = "done" /\ phase' = phase /\ passes' = passes + 1 /\ passes < DonePasses
        /\ pass = <<>> /\ AtRest /\ TakeList /\ UNCHANGED <<nd, todo, batch, call, owed>>
    BY DEF AnotherPass
  <1>2. LinkInv' /\ doneList' \in Seq(Nodes) /\ pass' \in Seq(Nodes)
    BY <1>1, TakeListLinks DEF Inv
  <1>3. ThreadInv' BY <1>1 DEF Inv, ThreadInv, AtRest
  <1>4. passes' \in 0 .. DonePasses BY <1>1, SelectorAssumption DEF Inv, TypeOK
  <1>5. QED BY <1>1, <1>2, <1>3, <1>4, ThreadStep

LEMMA RunDoneEndsStep == ASSUME Inv, RunDoneEnds PROVE Inv' /\ Promised
  <1>1. /\ phase = "done" /\ phase' = "app" /\ passes' = 0 /\ pass = <<>> /\ AtRest
        /\ UNCHANGED <<nd, doneList, pass, todo, batch, call, owed>>
    BY DEF RunDoneEnds
  <1>2. LinkInv' /\ doneList' \in Seq(Nodes) /\ pass' \in Seq(Nodes)
    BY <1>1 DEF Inv, LinkInv, TypeOK
  <1>3. ThreadInv' BY <1>1 DEF Inv, ThreadInv, AtRest
  <1>4. 0 \in 0 .. DonePasses BY SelectorAssumption
  <1>5. QED BY <1>1, <1>2, <1>3, <1>4, ThreadStep

LEMMA BatchEndsStep == ASSUME Inv, BatchEnds PROVE Inv' /\ Promised
  <1>1. /\ phase = "batch" /\ phase' = "done" /\ passes' = 1 /\ TakeList /\ batch = {} /\ AtRest
        /\ UNCHANGED <<nd, todo, batch, call, owed>>
    BY DEF BatchEnds
  <1>2. pass = <<>> BY <1>1 DEF Inv, ThreadInv
  <1>3. LinkInv' /\ doneList' \in Seq(Nodes) /\ pass' \in Seq(Nodes)
    BY <1>1, <1>2, TakeListLinks DEF Inv
  <1>4. ThreadInv' BY <1>1 DEF Inv, ThreadInv, AtRest
  <1>5. 1 \in 0 .. DonePasses BY SelectorAssumption
  <1>6. QED BY <1>1, <1>3, <1>4, <1>5, ThreadStep

LEMMA SelectorWaitStep == ASSUME Inv, SelectorWait PROVE Inv' /\ Promised
  <1>1. phase = "app" /\ phase' = "batch" /\ UNCHANGED <<nd, doneList, pass, passes, todo, call, owed>>
    BY DEF SelectorWait
  <1>2. PICK ready \in SUBSET {n \in Nodes : nd[n].reg} :
          \E got \in [ready -> SUBSET {"R", "W", "F"}] :
            batch' = {[node |-> n, got |-> got[n]] : n \in ready}
    BY DEF SelectorWait
  <1>3. PICK got \in [ready -> SUBSET {"R", "W", "F"}] :
          batch' = {[node |-> n, got |-> got[n]] : n \in ready}
    BY <1>2
  <1>4. ASSUME NEW e \in batch'
        PROVE  e \in [node : Nodes, got : SUBSET {"R", "W", "F"}] /\ nd[e.node].reg
    <2>1. PICK n \in ready : e = [node |-> n, got |-> got[n]] BY <1>3
    <2>2. n \in Nodes /\ nd[n].reg /\ got[n] \in SUBSET {"R", "W", "F"} OBVIOUS
    <2>3. QED BY <2>1, <2>2
  <1>5. AtRest /\ pass = <<>> BY <1>1 DEF Inv, ThreadInv
  <1>6. ThreadInv' BY <1>1, <1>4, <1>5 DEF Inv, ThreadInv, AtRest
  <1>7. LinkInv' /\ doneList' \in Seq(Nodes) /\ pass' \in Seq(Nodes) /\ passes' \in 0 .. DonePasses
    BY <1>1 DEF Inv, LinkInv, TypeOK
  <1>8. QED BY <1>1, <1>6, <1>7, ThreadStep

(* The items a node is given, when none were left. *)
LEMMA ItemsLeft ==
  ASSUME todo = {}, NEW n \in Nodes, NEW bits \in SUBSET DOMAIN Order, todo' = Items(n, bits)
  PROVE  /\ Left(n)' = bits /\ Left(n) = {}
         /\ \A m \in Nodes \ {n} : \A k \in DOMAIN Order : InTodo(m, k)' <=> InTodo(m, k)
         /\ \A e \in todo' : e \in [node : Nodes, do : DOMAIN Order] /\ e.node = n /\ e.do \in bits
  <1>1. \A m, k : Item(m, k) \in todo' <=> m = n /\ k \in bits
    <2> SUFFICES ASSUME NEW m, NEW k PROVE Item(m, k) \in todo' <=> m = n /\ k \in bits
      OBVIOUS
    <2>1. ASSUME Item(m, k) \in todo' PROVE m = n /\ k \in bits
      <3>1. PICK i \in bits : Item(m, k) = Item(n, i) BY <2>1 DEF Items
      <3>2. Item(m, k).node = m /\ Item(m, k).do = k /\ Item(n, i).node = n /\ Item(n, i).do = i
        BY DEF Item
      <3>3. QED BY <3>1, <3>2
    <2>2. QED BY <2>1 DEF Items
  <1>2. ASSUME NEW e \in todo'
        PROVE  e \in [node : Nodes, do : DOMAIN Order] /\ e.node = n /\ e.do \in bits
    <2>1. PICK i \in bits : e = Item(n, i) BY DEF Items
    <2>2. QED BY <2>1 DEF Item
  <1>3. \A m, k : InTodo(m, k)' <=> m = n /\ k \in bits BY <1>1 DEF InTodo
  <1>4. \A m, k : ~InTodo(m, k) BY DEF InTodo
  <1>5. Left(n)' = bits BY <1>3 DEF Left
  <1>6. Left(n) = {} BY <1>4 DEF Left
  <1>7. QED BY <1>2, <1>3, <1>4, <1>5, <1>6

LEMMA TakeEventStep == ASSUME Inv, TakeEvent PROVE Inv' /\ Promised
  <1>1. /\ phase = "batch" /\ call = NoCall /\ todo = {}
        /\ UNCHANGED <<nd, doneList, phase, pass, passes, call, owed>>
    BY DEF TakeEvent, AtRest
  <1>2. PICK e \in batch : todo' = Items(e.node, Steps(e.node, e.got)) /\ batch' = batch \ {e}
    BY DEF TakeEvent
  <1> DEFINE n == e.node
             t == Steps(n, e.got)
  <1>3. n \in Nodes /\ nd[n].reg /\ nd[n] \in NodeType /\ NodeOK(n, nd[n], Left(n), owed[n])
    BY NodeFacts DEF Inv, ThreadInv
  <1>4. /\ n \in Accs => t = {"evaccept"}
        /\ n \in Udps => t \subseteq {"udpwrite", "udpread"}
        /\ n \in Socks => \/ t \subseteq {"evread", "evwrite"}
                          \/ t = {"evconnect"} /\ nd[n].st = "connecting" /\ "connected" \notin nd[n].done
    <2>1. CASE n \in Accs BY <2>1, SelectorAssumption DEF Steps
    <2>2. CASE n \in Udps BY <2>2, SelectorAssumption DEF Steps
    <2>3. CASE n \in Socks BY <2>3, SelectorAssumption DEF Steps
    <2>4. QED BY <1>3, <2>1, <2>2, <2>3, SelectorAssumption DEF Nodes
  <1> HIDE DEF t
  <1>5. t \in SUBSET DOMAIN Order /\ \A k \in t : k \notin Bits
    BY <1>3, <1>4, OrderIs DEF Nodes, Bits
  <1>6. /\ Left(n)' = t /\ Left(n) = {}
        /\ \A m \in Nodes \ {n} : \A k \in DOMAIN Order : InTodo(m, k)' <=> InTodo(m, k)
        /\ \A x \in todo' : x \in [node : Nodes, do : DOMAIN Order] /\ x.node = n /\ x.do \in t
    BY <1>1, <1>2, <1>3, <1>5, ItemsLeft DEF t
  <1> HIDE DEF n
  <1>7. ThreadInv'
    <2>1. \A x \in batch' : x \in batch BY <1>2
    <2>2. QED BY <1>1, <1>5, <1>6, <2>1 DEF Inv, ThreadInv
  <1>8. NodeOK(n, nd[n], t, owed[n])
    <2>1. CASE n \in Socks
      <3>1. SockOK(nd[n], {}, owed[n]) /\ SentOK(nd[n], {}) /\ n \notin Udps /\ n \notin Accs
        BY SelectorAssumption, <1>3, <1>6, <2>1 DEF NodeOK
      <3>2. /\ t \cap {"received", "connected", "closed", "udpread", "udpwrite", "evaccept"} = {}
            /\ "evconnect" \in t =>
                  t = {"evconnect"} /\ nd[n].st = "connecting" /\ "connected" \notin nd[n].done
        BY <1>4, <2>1
      <3>3. LifeOK(nd[n], t) BY <1>3, <3>1, <3>2 DEF SockOK, LifeOK
      <3>4. SockOK(nd[n], t, owed[n]) BY <3>1, <3>2, <3>3 DEF SockOK, Count
      <3>5. SentOK(nd[n], t) BY <3>1 DEF SentOK
      <3>6. QED BY <3>1, <3>4, <3>5 DEF NodeOK
    <2>2. CASE n \in Udps
      <3>1. UdpOK(nd[n], {}, owed[n]) /\ n \notin Socks /\ n \notin Accs
        BY SelectorAssumption, <1>3, <1>6, <2>2 DEF NodeOK
      <3>2. t \subseteq {"udpwrite", "udpread"} BY <1>4, <2>2
      <3>3. LifeOK(nd[n], t) BY <1>3, <3>1, <3>2 DEF UdpOK, LifeOK
      <3>4. UdpOK(nd[n], t, owed[n]) BY <3>1, <3>2, <3>3 DEF UdpOK, Count
      <3>5. QED BY <3>1, <3>4 DEF NodeOK
    <2>3. CASE n \in Accs
      <3>1. AccOK(nd[n], {}, owed[n]) /\ ConnOK(nd[n]) /\ n \notin Socks /\ n \notin Udps
        BY SelectorAssumption, <1>3, <1>6, <2>3 DEF NodeOK
      <3>2. AccOK(nd[n], t, owed[n]) BY <1>4, <2>3, <3>1 DEF AccOK
      <3>3. QED BY <3>1, <3>2 DEF NodeOK
    <2>4. QED BY <1>3, <2>1, <2>2, <2>3 DEF Nodes
  <1>9. \A m \in Nodes : NodeOK(m, nd'[m], Left(m)', owed'[m])
    BY <1>1, <1>3, <1>6, <1>8, OthersKept
  <1>10. TypeOK' /\ LinkInv' BY <1>1 DEF Inv, TypeOK, LinkInv
  <1>11. Promised
    <2> DEFINE l == LifeOf(n, nd[n])
               f == FlightOf(n, nd[n], Left(n))
               f1 == FlightOf(n, nd'[n], Left(n)')
    <2>1. "received" \notin t /\ "connected" \notin t BY <1>5 DEF Bits
    <2>2. f1 = f BY <1>1, <1>6, <2>1 DEF FlightOf
    <2>3. Allowed(n, l, l, f, f1) BY <2>2 DEF Allowed
    <2>4. l = LifeOf(n, nd'[n]) BY <1>1
    <2> HIDE DEF l, f, f1
    <2>5. phase # "gone" /\ phase' # "gone" /\ call' = call /\ nd' = nd BY <1>1
    <2>6. QED BY <1>3, <1>6, <2>3, <2>4, <2>5, PromiseOfStep DEF l, f, f1
  <1>12. QED BY <1>1, <1>7, <1>9, <1>10, <1>11 DEF Inv

(* A node taken off the list has its links cut and nothing due. *)
LEMMA UnlinkHead ==
  ASSUME TypeOK, LinkInv, pass # <<>>, NEW n, n = Head(pass), pass' = Tail(pass), doneList' = doneList,
         NEW r \in NodeType, nd' = [nd EXCEPT ![n] = r], ~r.flagq, r.done = {}
  PROVE  /\ n \in Nodes /\ nd[n].done # {} /\ LinkInv' /\ pass' \in Seq(Nodes)
         /\ nd' \in [Nodes -> NodeType] /\ nd'[n] = r /\ \A m \in Nodes \ {n} : nd'[m] = nd[m]
  <1>1. /\ n \in Nodes /\ pass' \in Seq(Nodes) /\ Distinct(pass') /\ Contains(pass, n)
        /\ \A m \in Nodes : Contains(pass', m) <=> Contains(pass, m) /\ m # n
    BY TailLinks DEF TypeOK, LinkInv
  <1>2. nd' \in [Nodes -> NodeType] /\ nd'[n] = r /\ \A m \in Nodes \ {n} : nd'[m] = nd[m]
    BY <1>1 DEF TypeOK
  <1>3. nd[n].done # {} /\ ~Contains(doneList, n) BY <1>1 DEF LinkInv
  <1>4. LinkInv'
    <2>1. ASSUME NEW m \in Nodes
          PROVE  /\ nd'[m].flagq <=> Contains(doneList', m) \/ Contains(pass', m)
                 /\ ~(Contains(doneList', m) /\ Contains(pass', m))
                 /\ nd'[m].flagq <=> nd'[m].done # {}
      <3>1. CASE m = n BY <3>1, <1>1, <1>2, <1>3
      <3>2. CASE m # n BY <3>2, <1>1, <1>2 DEF LinkInv
      <3>3. QED BY <3>1, <3>2
    <2>2. QED BY <1>1, <2>1 DEF LinkInv
  <1>5. QED BY <1>1, <1>2, <1>3, <1>4

LEMMA TakeAcceptor ==
  ASSUME Inv, TakeNode, NEW n \in Accs, n = Head(pass) PROVE Inv' /\ Promised
  <1> DEFINE x == [nd[n] EXCEPT !.flagq = FALSE]
             r == [x EXCEPT !.done = {}, !.recv = FALSE, !.conn = FALSE]
  <1>1. /\ n \in Nodes /\ n \notin Socks /\ n \notin Udps /\ nd[n] \in NodeType
        /\ AccOK(nd[n], Left(n), owed[n]) /\ ConnOK(nd[n]) /\ (nd[n].flagq <=> nd[n].done # {})
    BY SelectorAssumption, NodeFacts DEF Nodes, NodeOK
  <1>2. /\ phase = "done" /\ call = NoCall /\ todo = {} /\ pass # <<>> /\ pass' = Tail(pass)
        /\ UNCHANGED <<doneList, phase, passes, batch, todo>>
    BY DEF TakeNode, AtRest
  <1>3. x \in NodeType /\ x.done = nd[n].done /\ x.recv = nd[n].recv /\ ~x.flagq /\ x.reg = nd[n].reg
    BY <1>1 DEF NodeType
  <1> HIDE DEF x
  <1>4. r \in NodeType /\ r.done = {} /\ ~r.recv /\ ~r.conn /\ ~r.flagq /\ r.reg = nd[n].reg
    BY <1>3 DEF NodeType
  <1>5. nd[n].done = {"accept"} /\ nd[n].recv
    <2>1. Contains(pass, n) BY <1>2, TailLinks DEF Inv, TypeOK, LinkInv
    <2>2. nd[n].done # {} BY <1>1, <2>1 DEF Inv, LinkInv
    <2>3. QED BY <1>1, <2>2 DEF AccOK
  <1>6. nd' = [nd EXCEPT ![n] = r] /\ Call(n, "accept")
    <2>1. AccDeliver(n, x) BY <1>3, <1>5 DEF TakeNode, x
    <2>2. QED BY <2>1 DEF AccDeliver, Put
  <1> HIDE DEF r
  <1>7. /\ LinkInv' /\ pass' \in Seq(Nodes) /\ nd' \in [Nodes -> NodeType]
        /\ nd'[n] = r /\ \A m \in Nodes \ {n} : nd'[m] = nd[m]
    BY <1>2, <1>4, <1>6, UnlinkHead DEF Inv
  <1>8. /\ owed' \in [Nodes -> [Ops -> Int]] /\ \A m \in Nodes \ {n} : owed'[m] = owed[m]
        /\ owed'[n]["accept"] = owed[n]["accept"] - 1 /\ call' = <<n, "accept">>
    BY <1>1, <1>6, CallOwes DEF Inv, Ops
  <1>9. Left(n)' = Left(n) /\ \A m \in Nodes \ {n} : \A i \in DOMAIN Order : InTodo(m, i)' <=> InTodo(m, i)
    BY <1>2 DEF Left, InTodo
  <1>10. NodeOK(n, r, Left(n), owed'[n])
    <2>1. AccOK(r, Left(n), owed'[n]) BY <1>1, <1>4, <1>5, <1>8 DEF AccOK, Count
    <2>2. QED BY <1>1, <1>4, <2>1 DEF NodeOK, ConnOK
  <1>11. \A m \in Nodes : NodeOK(m, nd'[m], Left(m)', owed'[m])
    BY <1>1, <1>7, <1>8, <1>9, <1>10, OthersKept
  <1>12. TypeOK' BY <1>2, <1>7, <1>8 DEF Inv, TypeOK
  <1>13. ThreadInv' BY <1>2 DEF Inv, ThreadInv
  <1>14. Promised
    <2> DEFINE l == LifeOf(n, nd[n])
               l1 == LifeOf(n, nd'[n])
               f == FlightOf(n, nd[n], Left(n))
               f1 == FlightOf(n, nd'[n], Left(n)')
    <2>1. f = {"accept"} /\ f1 = {} /\ l1 = l BY <1>4, <1>5, <1>7 DEF FlightOf, LifeOf
    <2>2. Answers(n, l, l1, f, f1) BY <1>8, <2>1 DEF Answers
    <2> HIDE DEF l, l1, f, f1
    <2>3. phase # "gone" /\ phase' # "gone" /\ call = <<>> BY <1>2 DEF NoCall
    <2>4. QED BY <1>1, <1>7, <1>9, <2>2, <2>3, PromiseOfStep DEF l, l1, f, f1
  <1>15. QED BY <1>2, <1>7, <1>11, <1>12, <1>13, <1>14 DEF Inv

LEMMA TakeSocket ==
  ASSUME Inv, TakeNode, NEW n \in Nodes \ Accs, n = Head(pass) PROVE Inv' /\ Promised
  <1> DEFINE x == [nd[n] EXCEPT !.flagq = FALSE]
             r == [x EXCEPT !.done = {}]
             t == nd[n].done
  <1>1. nd[n] \in NodeType /\ NodeOK(n, nd[n], Left(n), owed[n]) BY NodeFacts
  <1>2. /\ phase = "done" /\ call = NoCall /\ todo = {} /\ pass # <<>> /\ pass' = Tail(pass)
        /\ UNCHANGED <<doneList, phase, passes, batch>>
    BY DEF TakeNode, AtRest
  <1>3. x \in NodeType /\ x.done = t BY <1>1 DEF NodeType
  <1>4. /\ r \in NodeType /\ r.done = {} /\ ~r.flagq /\ r.reg = nd[n].reg /\ r.want = nd[n].want
        /\ r.st = nd[n].st /\ r.recv = nd[n].recv /\ r.wait = nd[n].wait
        /\ r.wait_at = nd[n].wait_at /\ r.queued = nd[n].queued
    BY <1>1 DEF NodeType
  <1>5. /\ nd' = [nd EXCEPT ![n] = r] /\ todo' = Items(n, t) /\ UNCHANGED <<call, owed>>
    BY <1>3 DEF TakeNode, Put
  <1> HIDE DEF r, x
  <1>6. /\ t # {} /\ LinkInv' /\ pass' \in Seq(Nodes) /\ nd' \in [Nodes -> NodeType]
        /\ nd'[n] = r /\ \A m \in Nodes \ {n} : nd'[m] = nd[m]
    BY <1>2, <1>4, <1>5, UnlinkHead DEF Inv
  <1>7. t \in SUBSET DOMAIN Order /\ t \in SUBSET Bits /\ n \in Socks \cup Udps
    <2>1. CASE n \in Socks BY <1>1, <2>1 DEF NodeOK, SockOK, NodeType
    <2>2. CASE n \in Udps BY <1>1, <2>2, OrderIs DEF NodeOK, UdpOK, NodeType
    <2>3. QED BY <2>1, <2>2 DEF Nodes
  <1> HIDE DEF t
  <1>8. /\ Left(n)' = t /\ Left(n) = {}
        /\ \A m \in Nodes \ {n} : \A i \in DOMAIN Order : InTodo(m, i)' <=> InTodo(m, i)
        /\ \A e \in todo' : e \in [node : Nodes, do : DOMAIN Order] /\ e.node = n /\ e.do \in t
    BY <1>2, <1>5, <1>7, ItemsLeft
  <1>9. NodeOK(n, r, t, owed[n])
    <2>1. CASE n \in Socks
      <3>1. SockOK(nd[n], {}, owed[n]) /\ SentOK(nd[n], {}) /\ n \notin Udps
        BY SelectorAssumption, <1>1, <1>8, <2>1 DEF NodeOK
      <3>2. t \cap {"evconnect", "udpread", "udpwrite", "evaccept"} = {} BY <1>7 DEF Bits
      <3>3. LifeOK(r, t) BY <1>4, <1>6, <3>1 DEF SockOK, LifeOK, t
      <3>4. SockOK(r, t, owed[n]) BY <1>4, <3>1, <3>2, <3>3 DEF SockOK, Count, t
      <3>5. SentOK(r, t) BY <1>4, <3>1 DEF SentOK, t
      <3>6. QED BY <3>1, <3>4, <3>5 DEF NodeOK
    <2>2. CASE n \in Udps
      <3>1. UdpOK(nd[n], {}, owed[n]) /\ n \notin Socks
        BY SelectorAssumption, <1>1, <1>8, <2>2 DEF NodeOK
      <3>2. LifeOK(r, t) BY <1>4, <1>6, <3>1 DEF UdpOK, LifeOK, t
      <3>3. UdpOK(r, t, owed[n]) BY <1>4, <3>1, <3>2 DEF UdpOK, Count, t
      <3>4. QED BY <3>1, <3>3 DEF NodeOK
    <2>3. QED BY <1>7, <2>1, <2>2
  <1>10. \A m \in Nodes : NodeOK(m, nd'[m], Left(m)', owed'[m])
    BY <1>5, <1>6, <1>8, <1>9, OthersKept
  <1>11. TypeOK' BY <1>2, <1>5, <1>6 DEF Inv, TypeOK
  <1>12. ThreadInv' BY <1>2, <1>5, <1>7, <1>8 DEF Inv, ThreadInv
  <1>13. Promised
    <2> DEFINE l == LifeOf(n, nd[n])
               l1 == LifeOf(n, nd'[n])
               f == FlightOf(n, nd[n], Left(n))
               f1 == FlightOf(n, nd'[n], Left(n)')
    <2>1. f1 = f /\ l1 = l BY <1>4, <1>6, <1>8 DEF FlightOf, LifeOf, t
    <2>2. Allowed(n, l, l1, f, f1) BY <2>1 DEF Allowed
    <2> HIDE DEF l, l1, f, f1
    <2>3. phase # "gone" /\ phase' # "gone" /\ call' = call BY <1>2, <1>5
    <2>4. QED BY <1>6, <1>8, <2>2, <2>3, PromiseOfStep DEF l, l1, f, f1
  <1>14. QED BY <1>2, <1>6, <1>10, <1>11, <1>12, <1>13 DEF Inv

LEMMA TakeNodeStep == ASSUME Inv, TakeNode PROVE Inv' /\ Promised
  <1>1. Head(pass) \in Nodes BY TailLinks DEF TakeNode, Inv, TypeOK, LinkInv
  <1>2. QED BY <1>1, TakeAcceptor, TakeSocket

LEMMA LoopStepKeeps == ASSUME Inv, LoopStep PROVE Inv' /\ Promised
  <1>1. ASSUME NEW s \in Socks,
               \/ DeliverConnected(s) \/ DeliverFlush(s) \/ DeliverReceived(s) \/ DeliverWritable(s)
               \/ DeliverClosed(s) \/ EventConnect(s) \/ EventRead(s) \/ EventWrite(s)
        PROVE  Inv' /\ Promised
    BY <1>1, DeliverConnectedStep, DeliverFlushStep, DeliverReceivedStep, DeliverWritableStep,
       DeliverClosedStep, EventConnectStep, EventReadStep, EventWriteStep
  <1>2. ASSUME NEW u \in Udps,
               \/ DeliverReceived(u) \/ DeliverWritable(u) \/ DeliverClosed(u)
               \/ UdpEventWrite(u) \/ UdpEventRead(u)
        PROVE  Inv' /\ Promised
    BY <1>2, UdpReceivedStep, UdpWritableStep, DeliverClosedStep, UdpEventWriteStep, UdpEventReadStep
  <1>3. ASSUME NEW a \in Accs, EventAccept(a) PROVE Inv' /\ Promised
    BY <1>3, EventAcceptStep
  <1>4. CASE Deliver BY <1>1, <1>2, <1>4, Zenon DEF Deliver
  <1>5. CASE Event BY <1>1, <1>2, <1>3, <1>5, Zenon DEF Event
  <1>6. QED
    BY <1>4, <1>5, ReturnStep, RunDoneStep, AnotherPassStep, RunDoneEndsStep, TakeNodeStep,
       BatchEndsStep, TakeEventStep DEF LoopStep

-----------------------------------------------------------------------------
(* The loop is destroyed: what was closed has its `closed` waiting on the  *)
(* done list, for the program is between rounds and nothing is left to do. *)

LEMMA DestroyStep == ASSUME Inv, Destroy PROVE SelectorInv' /\ Promised
  <1>1. /\ phase = "app" /\ phase' = "gone" /\ doneList' = <<>>
        /\ UNCHANGED <<pass, passes, todo, batch, call, owed>>
    BY DEF Destroy
  <1>2. todo = {} /\ call = NoCall /\ pass = <<>> /\ batch = {}
    BY <1>1 DEF Inv, ThreadInv, AtRest
  <1>3. ASSUME NEW n \in Nodes
        PROVE  /\ nd'[n] \in NodeType /\ nd'[n].done = nd[n].done /\ nd'[n].err = nd[n].err
               /\ nd'[n].wait = nd[n].wait /\ nd'[n].wait_at = nd[n].wait_at
               /\ nd'[n].queued = nd[n].queued /\ nd'[n].want = nd[n].want /\ nd'[n].conn = nd[n].conn
               /\ n \notin Accs => nd'[n].recv = nd[n].recv /\ nd'[n].st = IF OwedLast(n) THEN "none" ELSE nd[n].st
               /\ n \in Accs => nd'[n].recv = (nd[n].recv /\ ~OwedLast(n))
    <2>1. nd[n] \in NodeType BY NodeFacts
    <2>2. nd'[n] = IF ~OwedLast(n) THEN nd[n]
                   ELSE IF n \in Accs THEN [nd[n] EXCEPT !.recv = FALSE]
                   ELSE [nd[n] EXCEPT !.st = "none"]
      BY DEF Destroy
    <2>3. CASE ~OwedLast(n) BY <2>1, <2>2, <2>3 DEF NodeType
    <2>4. CASE OwedLast(n) /\ n \in Accs BY ZenonT(20), <2>1, <2>2, <2>4 DEF NodeType
    <2>5. CASE OwedLast(n) /\ n \notin Accs BY <2>1, <2>2, <2>5 DEF NodeType
    <2>6. QED BY <2>3, <2>4, <2>5
  <1>4. nd' \in [Nodes -> NodeType] BY <1>3 DEF Destroy
  <1>5. \A n \in Nodes : Left(n) = {} /\ Left(n)' = {} BY <1>1, <1>2 DEF Left, InTodo
  <1>6. TypeOK' BY <1>1, <1>2, <1>4 DEF Inv, TypeOK
  <1>7. NothingStranded'
    <2>1. ASSUME NEW s \in Socks PROVE SentOK(nd'[s], Left(s)')
      <3>1. s \in Nodes /\ s \notin Accs BY SelectorAssumption DEF Nodes
      <3>2. SentOK(nd[s], Left(s)) BY <3>1, NodeFacts DEF NodeOK
      <3>3. QED BY <3>1, <3>2, <1>3, <1>5 DEF SentOK
    <2>2. \A s \in Socks : Pending(s, "flush")' <=> "flush" \in nd'[s].done \cup Left(s)'
      BY OrderIs DEF Pending, Left
    <2>3. \A s \in Socks : InTodo(s, "evwrite")' <=> "evwrite" \in Left(s)' BY OrderIs DEF Left
    <2>4. QED BY <2>1, <2>2, <2>3 DEF NothingStranded, SentOK
  <1>8. ASSUME NEW a \in Accs, nd'[a].conn
        PROVE  nd'[a].recv /\ "accept" \in nd'[a].done /\ nd'[a].err = "ok"
    <2>1. a \in Nodes /\ ConnOK(nd[a]) BY NodeFacts DEF Nodes, NodeOK
    <2>2. nd[a].recv /\ "accept" \in nd[a].done /\ nd[a].err = "ok" BY <2>1, <1>3, <1>8 DEF ConnOK
    <2>3. ~OwedLast(a) BY <2>2 DEF OwedLast
    <2>4. QED BY <2>1, <2>2, <2>3, <1>3
  <1>9. SelectorInv' BY <1>1, <1>2, <1>6, <1>7, <1>8 DEF SelectorInv, LastingInv, AtRest
  <1>10. ASSUME NEW n \in Nodes
         PROVE  /\ Life(n)' = IF Life(n) = "closing" THEN "unused" ELSE Life(n)
                /\ InFlight(n)' \in SUBSET InFlight(n)
                /\ InFlight(n)' \in SUBSET {"received", "connected", "accept"}
    <2>1. CASE n \in Accs
      <3>1. LifeOf(n, nd[n]) = "attached" /\ LifeOf(n, nd'[n]) = "attached" BY <2>1 DEF LifeOf
      <3>2. /\ FlightOf(n, nd'[n], Left(n)') \in SUBSET FlightOf(n, nd[n], Left(n))
            /\ FlightOf(n, nd'[n], Left(n)') \in SUBSET {"accept"}
        BY <1>3, <2>1 DEF FlightOf
      <3>3. QED BY <3>1, <3>2, MapIs, MapNext
    <2>2. CASE n \notin Accs
      <3>1. LifeOK(nd[n], {}) BY <1>5, <2>2, NodeFacts DEF Nodes, NodeOK, SockOK, UdpOK
      <3>2. nd[n].st = "closing" <=> OwedLast(n)
        <4>1. nd[n].st = "closing" => "closed" \in nd[n].done BY <3>1 DEF LifeOK
        <4>2. "closed" \in nd[n].done => Contains(doneList, n) BY <1>2 DEF Inv, LinkInv, Contains
        <4>3. QED BY <2>2, <4>1, <4>2 DEF OwedLast
      <3>3. LifeOf(n, nd'[n]) = IF LifeOf(n, nd[n]) = "closing" THEN "unused" ELSE LifeOf(n, nd[n])
        BY <1>3, <2>2, <3>2 DEF LifeOf
      <3>4. nd'[n].st = "connecting" => nd[n].st = "connecting" BY <1>3, <2>2
      <3>5. /\ FlightOf(n, nd'[n], Left(n)') \in SUBSET FlightOf(n, nd[n], Left(n))
            /\ FlightOf(n, nd'[n], Left(n)') \in SUBSET {"received", "connected"}
        BY <1>3, <1>5, <2>2, <3>4 DEF FlightOf
      <3>6. QED BY <3>3, <3>5, MapIs, MapNext
    <2>3. QED BY <2>1, <2>2
  <1>11. Promised
    <2>1. lives' = [n \in Nodes |-> IF lives[n] = "closing" THEN "unused" ELSE lives[n]]
      BY <1>10 DEF lives
    <2>2. /\ flights' \in [Nodes -> SUBSET {"received", "connected", "accept"}]
          /\ \A n \in Nodes : flights'[n] \subseteq flights[n]
      BY <1>10 DEF flights
    <2>3. ~(phase = "gone") /\ (phase = "gone")' = TRUE /\ call = <<>> /\ call' = call
      BY <1>1, <1>2 DEF NoCall
    <2>4. Promise!Destroy BY <2>1, <2>2, <2>3 DEF Promise!Destroy, Promise!Operations, lives, flights
    <2>5. QED BY <2>4 DEF Promised, Promise!Next
  <1>12. QED BY <1>9, <1>11

(* A destroyed loop does nothing more. *)
LEMMA GoneStays ==
  ASSUME SelectorInv, phase = "gone", Next
  PROVE  FALSE
  <1>1. call = NoCall /\ todo = {} BY DEF SelectorInv, AtRest
  <1>2. ~InApp BY <1>1 DEF InApp
  <1>3. ~AppCall
    BY <1>2, Zenon DEF AppCall, Attach, Connect, Recv, RecvCancel, SelRecvCancel, Send, Commit, Flush,
       SendWait, Close, Accept, AcceptCancel, UdpRecv, UdpSendWait, UdpClose
  <1>4. \A n, i : ~Doing(n, i) BY <1>1 DEF Doing
  <1>5. ~Deliver
    BY <1>4, Zenon DEF Deliver, DeliverConnected, DeliverFlush, DeliverReceived, DeliverWritable, DeliverClosed
  <1>6. ~Event
    BY <1>4, Zenon DEF Event, EventConnect, EventRead, EventWrite, EventAccept, UdpEventWrite, UdpEventRead
  <1>7. ~LoopStep
    BY <1>1, <1>5, <1>6 DEF LoopStep, Return, RunDone, AnotherPass, RunDoneEnds, TakeNode, BatchEnds, TakeEvent
  <1>8. QED BY <1>3, <1>7 DEF Next, SelectorWait, Destroy

LEMMA StutterStep == ASSUME SelectorInv, UNCHANGED vars PROVE SelectorInv' /\ Promised
  <1>1. \A n \in Nodes : Life(n)' = Life(n) /\ InFlight(n)' = InFlight(n)
    BY DEF Life, InFlight, Pending, InTodo
  <1>2. Promised BY <1>1 DEF Promised, Promise!vars
  <1>3. SelectorInv'
    BY DEF SelectorInv, LastingInv, TypeOK, NothingStranded, Pending, InTodo, AtRest, ThreadInv,
       LinkInv, NodeInv, Left
  <1>4. QED BY <1>2, <1>3

LEMMA InitKeeps == Init => SelectorInv
  <1> SUFFICES ASSUME Init PROVE SelectorInv
    OBVIOUS
  <1>1. \A n \in Nodes : nd[n] = Zeroed /\ owed[n] = [o \in Ops |-> 0] BY DEF Init
  <1>2. /\ Zeroed.st = "none" /\ ~Zeroed.reg /\ Zeroed.want = {} /\ ~Zeroed.recv /\ ~Zeroed.wait
        /\ ~Zeroed.conn /\ Zeroed.queued = 0 /\ Zeroed.done = {} /\ ~Zeroed.flagq
    BY DEF Zeroed
  <1>3. /\ doneList = <<>> /\ batch = {} /\ call = NoCall /\ phase = "app" /\ pass = <<>>
        /\ passes = 0 /\ todo = {}
    BY DEF Init
  <1>4. 0 \in 0 .. DonePasses /\ 0 \in Int BY SelectorAssumption
  <1>5. TypeOK BY <1>3, <1>4, ZeroedType DEF Init, TypeOK
  <1>6. \A n \in Nodes : Left(n) = {} BY <1>3 DEF Left, InTodo
  <1>7. ThreadInv BY <1>3 DEF ThreadInv, AtRest
  <1>8. LinkInv BY <1>1, <1>2, <1>3 DEF LinkInv, Distinct, Contains
  <1>9. ASSUME NEW n \in Nodes PROVE NodeOK(n, nd[n], Left(n), owed[n])
    <2>1. owed[n]["received"] = 0 /\ owed[n]["connected"] = 0 /\ owed[n]["accept"] = 0
      BY <1>1 DEF Ops
    <2>2. LifeOK(nd[n], Left(n)) BY <1>1, <1>2, <1>6 DEF LifeOK
    <2>3. SockOK(nd[n], Left(n), owed[n]) BY <1>1, <1>2, <1>6, <2>1, <2>2 DEF SockOK, Count
    <2>4. UdpOK(nd[n], Left(n), owed[n]) BY <1>1, <1>2, <1>6, <2>1, <2>2 DEF UdpOK, Count
    <2>5. AccOK(nd[n], Left(n), owed[n]) BY <1>1, <1>2, <1>6, <2>1 DEF AccOK, Count
    <2>6. SentOK(nd[n], Left(n)) /\ ConnOK(nd[n]) BY <1>1, <1>2, <1>6 DEF SentOK, ConnOK
    <2>7. QED BY <2>3, <2>4, <2>5, <2>6 DEF NodeOK
  <1>10. QED BY <1>3, <1>5, <1>7, <1>8, <1>9, InvIs DEF Inv

(* The same, of the state a step leads to. *)
LEMMA InvNext == Inv' => SelectorInv'
  <1>1. (SelectorInv /\ phase # "gone" <=> Inv)' BY InvIs, PTL
  <1>2. QED BY <1>1

LEMMA StepKeeps ==
  ASSUME ~Rearm, SelectorInv, [Next]_vars
  PROVE  SelectorInv' /\ Promised
  <1>1. CASE UNCHANGED vars BY <1>1, StutterStep
  <1>2. CASE Next
    <2>1. phase # "gone" BY <1>2, GoneStays
    <2>2. Inv BY <2>1, InvIs
    <2>3. CASE Destroy BY <2>2, <2>3, DestroyStep
    <2>4. CASE AppCall \/ LoopStep \/ SelectorWait
      <3>1. Inv' /\ Promised BY <2>2, <2>4, AppCallStep, LoopStepKeeps, SelectorWaitStep
      <3>2. QED BY <3>1, InvNext
    <2>5. QED BY <1>2, <2>3, <2>4 DEF Next
  <1>3. QED BY <1>1, <1>2

-----------------------------------------------------------------------------
(* The properties.                                                         *)

(* What holds of every loop: its inductive invariant.  A node's fields,    *)
(* the list it is linked on, the items left to do of it and the answers it *)
(* is owed agree in every state, whatever the program calls from whichever *)
(* function of its own and whatever the selector reports.                  *)
THEOREM SelectorCorrect == ASSUME ~Rearm PROVE Spec => []SelectorInv
  <1>1. Init => SelectorInv BY InitKeeps
  <1>2. SelectorInv /\ [Next]_vars => SelectorInv' BY StepKeeps
  <1>3. QED BY <1>1, <1>2, PTL DEF Spec

(* Every operation started is answered once: until then it is in flight or *)
(* its answer is on the way, and never both (loop.h, rule 1).              *)
THEOREM AnswersCorrect == ASSUME ~Rearm PROVE Spec => []AnsweredExactlyOnce
  <1>1. SelectorInv => AnsweredExactlyOnce
    <2> SUFFICES ASSUME SelectorInv PROVE AnsweredExactlyOnce
      OBVIOUS
    <2>1. \A n, o : o \in {"received", "connected"} => (Pending(n, o) <=> o \in nd[n].done \cup Left(n))
      BY LeftIs, OrderIs DEF Pending
    <2>2. ASSUME phase # "gone", NEW n \in Socks
          PROVE  /\ owed[n]["received"] = Count(nd[n].recv) + Count(Pending(n, "received"))
                 /\ owed[n]["connected"] = Count(nd[n].st = "connecting" \/ Pending(n, "connected"))
      <3>1. SockOK(nd[n], Left(n), owed[n]) BY <2>2 DEF SelectorInv, NodeInv
      <3>2. QED BY <2>1, <3>1 DEF SockOK, Count
    <2>3. ASSUME phase # "gone" PROVE \A n \in Udps : owed[n]["received"] = Count(nd[n].recv)
      BY <2>3 DEF SelectorInv, NodeInv, UdpOK
    <2>4. ASSUME phase # "gone" PROVE \A n \in Accs : owed[n]["accept"] = Count(nd[n].recv)
      BY <2>4 DEF SelectorInv, NodeInv, AccOK
    <2>5. QED BY <2>2, <2>3, <2>4 DEF SelectorInv, LastingInv, AnsweredExactlyOnce
  <1>2. QED BY <1>1, SelectorCorrect, PTL

(* Bytes a send took are never left with nobody to write them.             *)
THEOREM SentBytesGoOut == ASSUME ~Rearm PROVE Spec => []NothingStranded
  <1>1. SelectorInv => NothingStranded BY DEF SelectorInv, LastingInv
  <1>2. QED BY <1>1, SelectorCorrect, PTL

(* How often a node is on a list without repetitions. *)
LEMMA TimesOn ==
  ASSUME NEW q \in Seq(Nodes), Distinct(q), NEW n \in Nodes
  PROVE  Cardinality({i \in DOMAIN q : q[i] = n}) = Count(Contains(q, n))
  <1>1. CASE Contains(q, n)
    <2>1. PICK i \in DOMAIN q : q[i] = n BY <1>1 DEF Contains
    <2>2. {j \in DOMAIN q : q[j] = n} = {i} BY <2>1 DEF Distinct
    <2>3. QED BY <1>1, <2>2, FS_Singleton DEF Count
  <1>2. CASE ~Contains(q, n)
    <2>1. {j \in DOMAIN q : q[j] = n} = {} BY <1>2 DEF Contains
    <2>2. QED BY <1>2, <2>1, FS_EmptySet DEF Count
  <1>3. QED BY <1>1, <1>2

(* Nothing of the loop's points at a socket that has been given back: no   *)
(* list, no event collected, no registration; and its lists are whole.     *)
THEOREM NothingFreedIsPointedAt == ASSUME ~Rearm PROVE Spec => []NothingPointsAtFreed
  <1>1. SelectorInv => NothingPointsAtFreed
    <2> SUFFICES ASSUME SelectorInv PROVE NothingPointsAtFreed
      OBVIOUS
    <2>1. ASSUME phase # "gone", NEW n \in Nodes
          PROVE  Times(n) = Count(nd[n].flagq) /\ (nd[n].done # {} => nd[n].flagq)
      <3>1. TypeOK /\ LinkInv BY <2>1 DEF SelectorInv, LastingInv
      <3>2. Times(n) = Count(Contains(doneList, n)) + Count(Contains(pass, n))
        BY <3>1, TimesOn DEF TypeOK, LinkInv, Times
      <3>3. QED BY <3>1, <3>2 DEF LinkInv, Count
    <2>2. LinksAgree BY <2>1 DEF LinksAgree, SelectorInv, LastingInv
    <2>3. ASSUME phase # "gone", NEW n \in Socks \cup Udps, nd[n].st = "none"
          PROVE  ~nd[n].flagq /\ ~nd[n].reg /\ \A e \in batch \cup todo : e.node # n
      <3>1. n \in Nodes /\ LifeOK(nd[n], Left(n))
        BY <2>3 DEF SelectorInv, NodeInv, SockOK, UdpOK, Nodes
      <3>2. ThreadInv /\ LinkInv BY <2>3 DEF SelectorInv
      <3>3. ~nd[n].flagq /\ ~nd[n].reg BY <2>3, <3>1, <3>2 DEF LifeOK, LinkInv
      <3>4. ASSUME NEW e \in todo PROVE e.node # n
        <4>1. e \in [node : Nodes, do : DOMAIN Order] BY <3>2 DEF ThreadInv
        <4>2. e = Item(e.node, e.do) BY <4>1 DEF Item
        <4>3. e.node = n => e.do \in Left(n) BY <4>1, <4>2 DEF Left, InTodo
        <4>4. QED BY <2>3, <3>1, <4>3 DEF LifeOK
      <3>5. QED BY <3>2, <3>3, <3>4 DEF ThreadInv
    <2>4. ASSUME NEW a \in Accs, ~nd[a].reg, NEW e \in batch PROVE e.node # a
      BY <2>4 DEF SelectorInv, ThreadInv
    <2>5. QED BY <2>2, <2>3, <2>4 DEF NothingPointsAtFreed
  <1>2. QED BY <1>1, SelectorCorrect, PTL

(* The selector backend does what loop.h promises: the program sees its    *)
(* operations start, end once, and its sockets come back after `closed`.   *)
THEOREM ImplementsPromise == ASSUME ~Rearm PROVE Spec => KeepsPromise
  <1>1. Init => Promise!Init
    <2> SUFFICES ASSUME Init PROVE Promise!Init
      OBVIOUS
    <2>1. ASSUME NEW n \in Nodes
          PROVE  Life(n) = (IF n \in Accs THEN "attached" ELSE "unused") /\ InFlight(n) = {}
      <3>1. nd[n] = Zeroed /\ todo = {} BY DEF Init
      <3>2. nd[n].st = "none" /\ ~nd[n].recv /\ nd[n].done = {} BY <3>1 DEF Zeroed
      <3>3. ~Pending(n, "received") /\ ~Pending(n, "connected") BY <3>1, <3>2 DEF Pending, InTodo
      <3>4. QED BY <3>2, <3>3 DEF Life, InFlight
    <2>2. call = <<>> /\ ~(phase = "gone") BY DEF Init, NoCall
    <2>3. QED BY <2>1, <2>2 DEF Promise!Init
  <1>2. SelectorInv /\ [Next]_vars => [Promise!Next]_(Promise!vars) BY StepKeeps DEF Promised
  <1>3. QED BY <1>1, <1>2, SelectorCorrect, PTL DEF Spec, KeepsPromise, Promise!Spec
=============================================================================
