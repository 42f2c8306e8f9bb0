-------------------------- MODULE JobSystemProofs --------------------------
(***************************************************************************)
(* Proofs about JobSystem, for every number of threads, jobs and groups,   *)
(* every ring capacity and every starting position of the counters.  In    *)
(* three parts: the ring, whose types are right (TypeCorrect) and in which *)
(* no two threads are ever inside the same cell (DataRaceFree), by the     *)
(* inductive invariant RingInv; the handover of the jobs, each accepted    *)
(* one of which runs once (JobRunsOnce), by JobInv on top of it; and the   *)
(* ends: nobody is inside the system once it is freed (FreedWhenUnused), a *)
(* group at zero has no job left anywhere (GroupsCorrect,                  *)
(* GroupZeroIsDone), and the claims are never more than the jobs           *)
(* (ClaimsCorrect), so that fewer jobs than a lap of the counter cannot    *)
(* lap anybody (NeverLapped) and the scheduler is correct with no proviso  *)
(* (SchedulerCorrect).                                                     *)
(***************************************************************************)
EXTENDS JobSystem, TLAPS, FiniteSetTheorems

-----------------------------------------------------------------------------
(* Arithmetic of residues.                                                 *)

(* The code's mask and counter wrap: a residue is its number's only        *)
(* representative in the range.                                            *)
LEMMA ModUnique ==
  ASSUME NEW m \in Nat \ {0}, NEW k \in Int, NEW r \in 0 .. m - 1
  PROVE  (k * m + r) % m = r
  OBVIOUS

LEMMA ModSplit ==
  ASSUME NEW m \in Nat \ {0}, NEW x \in Int
  PROVE  /\ x = (x \div m) * m + (x % m)
         /\ x % m \in 0 .. m - 1
         /\ x \div m \in Int
  OBVIOUS

LEMMA CellType == \A x \in Nat : Cell(x) \in CellIds
  BY SizeAssumption DEF Cell, CellIds

(* Neighbouring positions use different cells. *)
LEMMA CellSuccessor == \A x \in Nat : Cell(x + 1) # Cell(x)
  BY SizeAssumption DEF Cell

(* A lap later a position uses the same cell: the mask drops it. *)
LEMMA CellLap ==
  ASSUME NEW x \in Nat
  PROVE  Cell(x + Capacity) = Cell(x)
  <1> DEFINE k == x \div Capacity
             r == x % Capacity
  <1>1. Capacity \in Nat \ {0} BY SizeAssumption
  <1>2. x = k * Capacity + r /\ r \in 0 .. Capacity - 1 /\ k \in Int
    BY <1>1, ModSplit
  <1>3. ((k + 1) * Capacity + r) % Capacity = r
    BY <1>1, <1>2, ModUnique, k + 1 \in Int
  <1> HIDE DEF k, r
  <1>4. x + Capacity = (k + 1) * Capacity + r
    BY <1>1, <1>2
  <1>5. QED BY <1>3, <1>4 DEF Cell, r

LEMMA SameEqual ==
  ASSUME NEW x \in Nat, NEW y \in Nat, y <= x, x - y < CounterRange, Same(x, y)
  PROVE  x = y
  <1>1. CounterRange \in Nat \ {0} BY SizeAssumption DEF CounterRange
  <1>2. x % CounterRange = y % CounterRange BY DEF Same
  <1> DEFINE m == CounterRange
             k == x \div m
             l == y \div m
             r == x % m
  <1>3. x = k * m + r /\ y = l * m + r /\ k \in Int /\ l \in Int /\ r \in Int
    BY <1>1, <1>2, ModSplit
  <1>4. m \in Nat \ {0} /\ x - y < m BY <1>1
  <1> HIDE DEF k, l, m, r
  <1>5. x - y = (k - l) * m BY <1>3, <1>4
  <1>6. CASE k - l >= 1
    <2>1. (k - l) * m >= m BY <1>3, <1>4, <1>6
    <2>2. QED BY <2>1, <1>4, <1>5, <1>3
  <1>7. CASE k - l <= -1
    <2>1. (k - l) * m <= -m BY <1>3, <1>4, <1>7
    <2>2. QED BY <2>1, <1>4, <1>5, <1>3
  <1>8. QED BY <1>3, <1>4, <1>5, <1>6, <1>7

LEMMA ReadyEqual ==
  ASSUME NEW s \in Int, NEW p \in Int, s - p < CounterRange, p - s < CounterRange,
         CellState(s, p) = "ready"
  PROVE  s = p
  <1>1. CounterRange \in Nat \ {0} BY SizeAssumption DEF CounterRange
  <1>2. (s - p) % CounterRange = 0 BY DEF CellState, Distance
  <1>3. QED BY <1>1, <1>2
-----------------------------------------------------------------------------
(* Types.                                                                  *)

USE DEF outsideQueue, queueVars, admissionVars, lifeVars, historyVars, callVars,
        localVars, allButPc, vars

(* Every cell's first position exists: the ring starts with one each. *)
LEMMA FirstSequenceType ==
  ASSUME NEW c \in CellIds
  PROVE  /\ FirstSequence(c) \in StartPos .. StartPos + Capacity - 1
         /\ Cell(FirstSequence(c)) = c
  <1>1. \E s \in StartPos .. StartPos + Capacity - 1 : Cell(s) = c
    <2> DEFINE m == Capacity
               k == StartPos \div m
               r == StartPos % m
               s == IF c >= r THEN k * m + c ELSE (k + 1) * m + c
    <2>1. m \in Nat \ {0} /\ StartPos \in Nat /\ c \in 0 .. m - 1
      BY SizeAssumption DEF CellIds
    <2>2. StartPos = k * m + r /\ r \in 0 .. m - 1 /\ k \in Int
      BY <2>1, ModSplit
    <2>3. (k * m + c) % m = c
      BY <2>1, <2>2, ModUnique
    <2>4. ((k + 1) * m + c) % m = c
      BY <2>1, <2>2, k + 1 \in Int, ModUnique
    <2> HIDE DEF k, m, r
    <2>5. (k + 1) * m = k * m + m BY <2>1, <2>2
    <2>6. k * m \in Int BY <2>1, <2>2
    <2>7. s \in StartPos .. StartPos + m - 1
      BY <2>1, <2>2, <2>5, <2>6
    <2>8. s % m = c BY <2>3, <2>4
    <2>9. QED BY <2>7, <2>8 DEF Cell, m
  <1>2. QED BY <1>1 DEF FirstSequence

(* An EXCEPT outside the domain changes nothing. *)
LEMMA ExceptType ==
  ASSUME NEW S, NEW T, NEW f \in [S -> T], NEW x, NEW v, x \in S => v \in T
  PROVE  [f EXCEPT ![x] = v] \in [S -> T]
  OBVIOUS

LEMMA TypeInit == Init => TypeOK
  <1> SUFFICES ASSUME Init PROVE TypeOK OBVIOUS
  <1>1. sequence \in [CellIds -> Nat]
    BY FirstSequenceType, SizeAssumption DEF Init
  <1>2. pc \in [Threads -> Labels] BY DEF Init, Labels
  <1>3. data \in [CellIds -> Tasks] /\ task \in [Threads -> Tasks]
    BY DEF Init, Tasks
  <1>4. /\ pos \in [Threads -> Nat] /\ caller \in [Threads -> {"drain", "final", "one", "wait"}]
        /\ left \in [Threads -> Int] /\ awaits \in [Threads -> Groups \cup {NoGroup}]
    BY SizeAssumption DEF Init
  <1>5. /\ pending \in [Groups -> Int] /\ runs \in [Jobs -> Nat]
        /\ status \in [Jobs -> {"new", "submitting", "queued", "done"}]
    BY DEF Init
  <1>6. /\ enqueue_pos \in Nat /\ dequeue_pos \in Nat
        /\ active \in Int /\ work_ready \in Nat /\ num_threads \in Nat
    BY SizeAssumption DEF Init
  <1>7. closed \in BOOLEAN /\ held \in SUBSET Resources
    BY Zenon DEF Init
  <1>8. QED BY <1>1, <1>2, <1>3, <1>4, <1>5, <1>6, <1>7 DEF TypeOK

USE DEF Goto

LEMMA TypeStep == TypeOK /\ [Next]_vars => TypeOK'
  <1> SUFFICES ASSUME TypeOK, [Next]_vars PROVE TypeOK' OBVIOUS
  <1> USE DEF TypeOK, Labels
  <1>w. Workers \subseteq Threads /\ Clients \subseteq Threads /\ Owner \in Threads
    BY DEF Threads
  <1>n. NoTask \in Tasks /\ StartPos \in Nat /\ Capacity \in Nat
    BY SizeAssumption DEF Tasks
  <1>c. \A x \in Nat : Cell(x) \in CellIds BY CellType
  <1>e. ASSUME NEW t \in Threads, ExecuteStep(t) PROVE TypeOK'
    <2>1. CASE ExecuteLoad(t) BY <2>1 DEF ExecuteLoad
    <2>2. CASE ExecuteCheck(t)
      BY <2>2, <1>n DEF ExecuteCheck, ReturnExecuteOne, Forget
    <2>3. CASE ExecuteClaim(t) BY <2>3 DEF ExecuteClaim
    <2>4. CASE ExecuteRead(t) BY <2>4, <1>c DEF ExecuteRead
    <2>5. CASE ExecuteRelease(t) BY <2>5, <1>n, <1>c DEF ExecuteRelease
    <2>6. CASE ExecuteRun(t)
      <3>1. runs' \in [Jobs -> Nat]
        BY <2>6, ExceptType DEF ExecuteRun
      <3>2. status' \in [Jobs -> {"new", "submitting", "queued", "done"}]
        BY <2>6, ExceptType DEF ExecuteRun
      <3>3. QED BY <2>6, <3>1, <3>2, <1>n DEF ExecuteRun, ReturnExecuteOne, Forget
    <2>7. CASE ExecuteCount(t)
      <3>1. pending' \in [Groups -> Int] BY <2>7, ExceptType DEF ExecuteCount
      <3>2. QED BY <2>7, <3>1, <1>n DEF ExecuteCount, ReturnExecuteOne, Forget
    <2>8. QED BY <1>e, <2>1, <2>2, <2>3, <2>4, <2>5, <2>6, <2>7 DEF ExecuteStep
  <1>s. ASSUME NEW t \in Threads, SubmitStep(t) PROVE TypeOK'
    <2>1. CASE BeginSubmit(t) BY <2>1, <1>n DEF BeginSubmit, Refuse, Forget
    <2>2. CASE SubmitLoad(t) BY <2>2 DEF SubmitLoad
    <2>3. CASE SubmitCheck(t) BY <2>3 DEF SubmitCheck, CellState
    <2>4. CASE SubmitClaim(t) BY <2>4 DEF SubmitClaim
    <2>5. CASE SubmitWrite(t) BY <2>5, <1>c DEF SubmitWrite
    <2>6. CASE SubmitPublish(t)
      <3>1. status' \in [Jobs -> {"new", "submitting", "queued", "done"}]
        BY <2>6, ExceptType DEF SubmitPublish
      <3>2. QED BY <2>6, <3>1, <1>c DEF SubmitPublish
    <2>7. CASE SubmitPost(t) BY <2>7 DEF SubmitPost
    <2>8. CASE EndSubmit(t) BY <2>8, <1>n DEF EndSubmit, Refuse, Forget
    <2>9. CASE GroupUncount(t)
      <3> DEFINE g == task[t].group
      <3>1. g \in Groups => pending[g] - 1 \in Int OBVIOUS
      <3>2. pending' = [pending EXCEPT ![g] = pending[g] - 1] BY <2>9 DEF GroupUncount
      <3> HIDE DEF g
      <3>3. pending' \in [Groups -> Int]
        <4>1. pending \in [Groups -> Int] OBVIOUS
        <4>2. QED BY ONLY <3>1, <3>2, <4>1, ExceptType
      <3>4. QED BY <2>9, <3>3, <1>n DEF GroupUncount, Forget
    <2>10. QED
      BY <1>s, <2>1, <2>2, <2>3, <2>4, <2>5, <2>6, <2>7, <2>8, <2>9 DEF SubmitStep
  <1>l. ASSUME NEW t \in Threads, CloseStep(t) PROVE TypeOK'
    <2>1. CASE CloseSet(t) BY <2>1 DEF CloseSet
    <2>2. CASE CloseSpin(t) BY <2>2 DEF CloseSpin, CloseReturns
    <2>3. CASE ClosePost(t) BY <2>3 DEF ClosePost, CloseReturns
    <2>4. QED BY <1>l, <2>1, <2>2, <2>3 DEF CloseStep
  <1>1. ASSUME NEW w \in Workers, WorkerStep(w) PROVE TypeOK'
    <2>1. CASE ExecuteStep(w) BY <2>1, <1>e, <1>w
    <2>2. CASE WorkerWake(w) BY <2>2, <1>w DEF WorkerWake
    <2>3. CASE WorkerIsClosed(w) BY <2>3, <1>w DEF WorkerIsClosed
    <2>4. CASE WorkerNoSubmitters(w) BY <2>4, <1>w DEF WorkerNoSubmitters
    <2>5. CASE WorkerBaton(w) BY <2>5, <1>w DEF WorkerBaton
    <2>6. QED BY <1>1, <2>1, <2>2, <2>3, <2>4, <2>5 DEF WorkerStep
  <1>2. ASSUME NEW t \in Clients, ClientStep(t) PROVE TypeOK'
    <2>1. CASE GroupWaitCheck(t) BY <2>1, <1>w DEF GroupWaitCheck
    <2>2. QED BY <1>2, <2>1, <1>s, <1>e, <1>l, <1>w DEF ClientStep
  <1>3. ASSUME NEW t \in Clients, ClientCall(t) PROVE TypeOK'
    <2>1. ASSUME NEW j \in Jobs, NEW g \in Groups \cup {NoGroup}, CallSubmit(t, j, g)
          PROVE TypeOK'
      BY <2>1, <1>w DEF CallSubmit, Tasks
    <2>2. CASE CallExecuteOne(t) BY <2>2, <1>w DEF CallExecuteOne
    <2>3. ASSUME NEW g \in Groups, CallGroupWait(t, g) PROVE TypeOK'
      BY <2>3, <1>w DEF CallGroupWait
    <2>4. CASE CallClose(t) BY <2>4, <1>w DEF CallClose
    <2>5. CASE Leave(t) BY <2>5, <1>w DEF Leave
    <2>6. QED BY <1>3, <2>1, <2>2, <2>3, <2>4, <2>5 DEF ClientCall
  <1>4. CASE OwnerStep
    <2>1. CASE InitAcquire BY <2>1, <1>w DEF InitAcquire, FreedOnFailure
    <2>2. ASSUME NEW w \in Workers, CreateWorker(w) PROVE TypeOK'
      BY <2>2, <1>w DEF CreateWorker
    <2>3. CASE CreateWorkerFails BY <2>3, <1>w DEF CreateWorkerFails
    <2>4. CASE JoinAndFree BY <2>4, <1>w DEF JoinAndFree
    <2>5. QED BY <1>4, <2>1, <2>2, <2>3, <2>4, <1>l, <1>w DEF OwnerStep
  <1>5. CASE CallDestroy BY <1>5, <1>w DEF CallDestroy
  <1>6. CASE UNCHANGED vars BY <1>6
  <1>7. QED BY <1>1, <1>2, <1>3, <1>4, <1>5, <1>6 DEF Next, Over

(* Every variable keeps its type: in particular the semaphore never goes   *)
(* below zero and positions are never taken back below zero.               *)
THEOREM TypeCorrect == Spec => []TypeOK
  BY TypeInit, TypeStep, PTL DEF Spec
-----------------------------------------------------------------------------
(* The ring.                                                               *)

RingLabels == {"s_check", "s_claim", "s_write", "s_publish",
               "x_check", "x_claim", "x_read", "x_release"}

(* Most steps do not touch the ring, nor the label or position of a thread *)
(* that is at work on it.                                                  *)
RingUntouched ==
    /\ UNCHANGED <<sequence, enqueue_pos, dequeue_pos>>
    /\ \A t \in Threads :
          pc'[t] \in RingLabels => pc'[t] = pc[t] /\ pos'[t] = pos[t]

LEMMA RingFrame == RingInv /\ RingUntouched => RingInv'
  <1> SUFFICES ASSUME RingInv, RingUntouched PROVE RingInv' OBVIOUS
  <1> USE DEF RingUntouched, RingLabels, RingInv
  <1>1. WindowInv' BY DEF WindowInv
  <1>2. CellInv' BY DEF CellInv
  <1>3. PositionInv' BY DEF PositionOK, PositionInv, Filling, Emptying
  <1>4. DistinctInv' BY DEF DistinctInv, Filling, Emptying
  <1>5. QED BY <1>1, <1>2, <1>3, <1>4

LEMMA RingInit == Init => RingInv
  <1> SUFFICES ASSUME Init PROVE RingInv OBVIOUS
  <1>0. StartPos \in Nat /\ Capacity \in Nat /\ Capacity >= 2 BY SizeAssumption
  <1>1. WindowInv BY <1>0 DEF Init, WindowInv
  <1>2. CellInv BY <1>0, FirstSequenceType DEF Init, CellInv
  <1>3. \A t \in Threads : pc[t] \notin RingLabels BY DEF Init, RingLabels
  <1>4. PositionInv /\ DistinctInv
    BY <1>3 DEF RingLabels, PositionOK, PositionInv, DistinctInv, Filling, Emptying
  <1>5. QED BY <1>1, <1>2, <1>4 DEF RingInv

(* The facts every step below rests on. *)
RingFacts ==
    /\ enqueue_pos \in Nat /\ dequeue_pos \in Nat
    /\ sequence \in [CellIds -> Nat]
    /\ pos \in [Threads -> Nat]
    /\ pc \in [Threads -> Labels]
    /\ caller \in [Threads -> {"drain", "final", "one", "wait"}]
    /\ Capacity \in Nat /\ Capacity >= 2
    /\ \A x \in Nat : Cell(x) \in CellIds
    /\ \A x \in Nat : Cell(x + 1) # Cell(x)
    /\ \A x \in Nat : Cell(x + Capacity) = Cell(x)

LEMMA FactsHold == TypeOK => RingFacts
  BY SizeAssumption, CellType, CellSuccessor, CellLap DEF TypeOK, RingFacts

(* A cell that looks ready at the present end of the queue is ready there. *)
LEMMA ReadyToFill ==
  ASSUME RingFacts, WindowInv, CellInv,
         CellState(sequence[Cell(enqueue_pos)], enqueue_pos) = "ready"
  PROVE  sequence[Cell(enqueue_pos)] = enqueue_pos
  <1> DEFINE c == Cell(enqueue_pos)
             s == sequence[c]
  <1>1. s \in Nat /\ c \in CellIds BY DEF RingFacts
  <1>2. CounterRange \in Nat /\ 2 * Capacity < CounterRange
    BY SizeAssumption DEF CounterRange
  <1>3. s - enqueue_pos < CounterRange /\ enqueue_pos - s < CounterRange
    BY <1>1, <1>2 DEF CellInv, WindowInv, RingFacts
  <1>4. QED BY <1>1, <1>3, ReadyEqual DEF RingFacts

LEMMA ReadyToEmpty ==
  ASSUME RingFacts, WindowInv, CellInv,
         CellState(sequence[Cell(dequeue_pos)], dequeue_pos + 1) = "ready"
  PROVE  sequence[Cell(dequeue_pos)] = dequeue_pos + 1
  <1> DEFINE c == Cell(dequeue_pos)
             s == sequence[c]
             p == dequeue_pos + 1
  <1>1. s \in Nat /\ c \in CellIds /\ p \in Nat BY DEF RingFacts
  <1>2. CounterRange \in Nat /\ 2 * Capacity < CounterRange
    BY SizeAssumption DEF CounterRange
  <1>3. s - p < CounterRange /\ p - s < CounterRange
    BY <1>1, <1>2 DEF CellInv, WindowInv, RingFacts
  <1>4. CellState(s, p) = "ready" OBVIOUS
  <1> HIDE DEF s, p
  <1>5. s = p BY <1>1, <1>3, <1>4, ReadyEqual
  <1>6. QED BY <1>5 DEF s, p

-----------------------------------------------------------------------------
(* One lemma per step that touches the ring.                               *)

LEMMA RingSubmitLoad ==
  ASSUME RingFacts, RingInv, NEW t \in Threads, SubmitLoad(t)
  PROVE  RingInv'
  <1> USE DEF RingFacts, RingInv, SubmitLoad
  <1>1. WindowInv' BY DEF WindowInv
  <1>2. CellInv' BY DEF CellInv
  <1>3. PositionInv' BY DEF PositionOK, PositionInv, Filling, Emptying, Labels
  <1>4. DistinctInv' BY DEF DistinctInv, Filling, Emptying, Labels
  <1>5. QED BY <1>1, <1>2, <1>3, <1>4

LEMMA RingExecuteLoad ==
  ASSUME RingFacts, RingInv, NEW t \in Threads, ExecuteLoad(t)
  PROVE  RingInv'
  <1> USE DEF RingFacts, RingInv, ExecuteLoad
  <1>1. WindowInv' BY DEF WindowInv
  <1>2. CellInv' BY DEF CellInv
  <1>3. PositionInv' BY DEF PositionOK, PositionInv, Filling, Emptying, Labels
  <1>4. DistinctInv' BY DEF DistinctInv, Filling, Emptying, Labels
  <1>5. QED BY <1>1, <1>2, <1>3, <1>4

LEMMA RingSubmitCheck ==
  ASSUME RingFacts, RingInv, NEW t \in Threads, SubmitCheck(t)
  PROVE  RingInv'
  <1> USE DEF RingFacts, RingInv, SubmitCheck
  <1>1. WindowInv' BY DEF WindowInv
  <1>2. CellInv' BY DEF CellInv
  <1>3. pc'[t] = "s_claim" /\ pos[t] = enqueue_pos => sequence[Cell(pos[t])] = pos[t]
    BY ReadyToFill DEF CellState
  <1>4. pc'[t] \in {"s_claim", "s_full", "s_load"} BY DEF CellState
  <1>5. PositionInv'
    BY <1>3, <1>4 DEF PositionOK, PositionInv, Filling, Emptying
  <1>6. DistinctInv' BY <1>4 DEF DistinctInv, Filling, Emptying
  <1>7. QED BY <1>1, <1>2, <1>5, <1>6

LEMMA RingExecuteCheck ==
  ASSUME RingFacts, RingInv, NEW t \in Threads, ExecuteCheck(t)
  PROVE  RingInv'
  <1> USE DEF RingFacts, RingInv, ExecuteCheck
  <1>1. CASE CellState(sequence[Cell(pos[t])], pos[t] + 1) = "behind"
    <2>1. pc'[t] \notin RingLabels /\ \A u \in Threads \ {t} : pc'[u] = pc[u] /\ pos'[u] = pos[u]
      BY <1>1 DEF ReturnExecuteOne, Forget, RingLabels
    <2>2. RingUntouched BY <2>1 DEF RingUntouched
    <2>3. QED BY <2>2, RingFrame
  <1>2. CASE CellState(sequence[Cell(pos[t])], pos[t] + 1) = "ahead"
    <2>1. RingUntouched BY <1>2 DEF RingUntouched, RingLabels
    <2>2. QED BY <2>1, RingFrame
  <1>3. CASE CellState(sequence[Cell(pos[t])], pos[t] + 1) = "ready"
    <2>1. WindowInv' BY DEF WindowInv
    <2>2. CellInv' BY DEF CellInv
    <2>3. pos[t] = dequeue_pos => sequence[Cell(pos[t])] = pos[t] + 1
      BY <1>3, ReadyToEmpty
    <2>4. pc' = [pc EXCEPT ![t] = "x_claim"] /\ pc[t] = "x_check" /\ pos' = pos
      BY <1>3
    <2>5. PositionInv' BY <2>3, <2>4 DEF PositionOK, PositionInv, Filling, Emptying
    <2>6. DistinctInv' BY <2>4 DEF DistinctInv, Filling, Emptying
    <2>7. QED BY <2>1, <2>2, <2>5, <2>6
  <1>4. QED BY <1>1, <1>2, <1>3

LEMMA RingSubmitClaim ==
  ASSUME RingFacts, RingInv, NoLap, NEW t \in Threads, SubmitClaim(t)
  PROVE  RingInv'
  <1> USE DEF RingFacts, RingInv
  <1>1. CASE ~Same(enqueue_pos, pos[t])
    <2> USE <1>1 DEF SubmitClaim
    <2>1. WindowInv' BY DEF WindowInv
    <2>2. CellInv' BY DEF CellInv
    <2>3. PositionInv' BY DEF PositionOK, PositionInv, Filling, Emptying
    <2>4. DistinctInv' BY DEF DistinctInv, Filling, Emptying
    <2>5. QED BY <2>1, <2>2, <2>3, <2>4
  <1>2. CASE Same(enqueue_pos, pos[t])
    <2> DEFINE E == enqueue_pos
               c == Cell(E)
    <2>1. /\ enqueue_pos' = E + 1 /\ pc[t] = "s_claim"
          /\ pc' = [pc EXCEPT ![t] = "s_write"]
          /\ UNCHANGED <<sequence, dequeue_pos, pos>>
      BY <1>2 DEF SubmitClaim
    <2>2. pos[t] <= E /\ E - pos[t] < CounterRange
      BY <2>1 DEF NoLap, PositionOK, PositionInv
    <2>3. pos[t] = E BY <2>2, <1>2, SameEqual
    <2>4. sequence[c] = E /\ c \in CellIds
      BY <2>1, <2>3 DEF PositionOK, PositionInv
    <2>5. E < dequeue_pos + Capacity
      <3>1. E > 0 => Cell(E - 1) # c
        <4>1. E > 0 => E - 1 \in Nat /\ (E - 1) + 1 = E OBVIOUS
        <4>2. QED BY <4>1
      <3>2. QED BY <2>4, <3>1 DEF CellInv
    <2>6. WindowInv' BY <2>1, <2>5 DEF WindowInv
    <2>7. CellInv'
      <3>1. SUFFICES ASSUME NEW d \in CellIds
                     PROVE \/ /\ Cell(sequence[d]) = d
                              /\ E + 1 <= sequence[d] + Capacity
                              /\ sequence[d] < dequeue_pos + Capacity
                           \/ /\ sequence[d] > 0 /\ Cell(sequence[d] - 1) = d
                              /\ E + 1 < sequence[d] + Capacity
                              /\ sequence[d] <= E + 1
        BY <2>1 DEF CellInv
      <3>2. CASE d = c
        BY <3>2, <2>4, <2>5
      <3>3. CASE d # c
        <4>1. sequence[d] \in Nat OBVIOUS
        <4>2. CASE /\ Cell(sequence[d]) = d
                   /\ E <= sequence[d] + Capacity
                   /\ sequence[d] < dequeue_pos + Capacity
          <5>1. E # sequence[d] + Capacity BY <4>1, <4>2, <3>3
          <5>2. E \in Nat /\ Capacity \in Nat OBVIOUS
          <5>3. E + 1 <= sequence[d] + Capacity BY ONLY <4>1, <4>2, <5>1, <5>2
          <5>4. QED BY <4>2, <5>3
        <4>3. CASE /\ sequence[d] > 0 /\ Cell(sequence[d] - 1) = d
                   /\ E < sequence[d] + Capacity
                   /\ sequence[d] <= E
          <5>1. sequence[d] - 1 \in Nat BY <4>1, <4>3
          <5>2. E # (sequence[d] - 1) + Capacity BY <5>1, <4>3, <3>3
          <5>3. E \in Nat /\ Capacity \in Nat OBVIOUS
          <5>4. E + 1 < sequence[d] + Capacity /\ sequence[d] <= E + 1
            BY ONLY <4>1, <4>3, <5>2, <5>3
          <5>5. QED BY <4>3, <5>4
        <4>4. QED BY <4>2, <4>3 DEF CellInv
      <3>4. QED BY <3>2, <3>3
    <2>8. PositionInv'
      BY <2>1, <2>3, <2>4 DEF PositionOK, PositionInv, WindowInv, Filling, Emptying
    <2>9. DistinctInv'
      BY <2>1, <2>3 DEF PositionOK, PositionInv, DistinctInv, Filling, Emptying
    <2>10. QED BY <2>6, <2>7, <2>8, <2>9
  <1>3. QED BY <1>1, <1>2

LEMMA RingExecuteClaim ==
  ASSUME RingFacts, RingInv, NoLap, NEW t \in Threads, ExecuteClaim(t)
  PROVE  RingInv'
  <1> USE DEF RingFacts, RingInv
  <1>1. CASE ~Same(dequeue_pos, pos[t])
    <2> USE <1>1 DEF ExecuteClaim
    <2>1. WindowInv' BY DEF WindowInv
    <2>2. CellInv' BY DEF CellInv
    <2>3. PositionInv' BY DEF PositionOK, PositionInv, Filling, Emptying
    <2>4. DistinctInv' BY DEF DistinctInv, Filling, Emptying
    <2>5. QED BY <2>1, <2>2, <2>3, <2>4
  <1>2. CASE Same(dequeue_pos, pos[t])
    <2> DEFINE D == dequeue_pos
               c == Cell(D)
    <2>1. /\ dequeue_pos' = D + 1 /\ pc[t] = "x_claim"
          /\ pc' = [pc EXCEPT ![t] = "x_read"]
          /\ UNCHANGED <<sequence, enqueue_pos, pos>>
      BY <1>2 DEF ExecuteClaim
    <2>2. pos[t] <= D /\ D - pos[t] < CounterRange
      BY <2>1 DEF NoLap, PositionOK, PositionInv
    <2>3. pos[t] = D BY <2>2, <1>2, SameEqual
    <2>4. sequence[c] = D + 1 /\ c \in CellIds
      BY <2>1, <2>3 DEF PositionOK, PositionInv
    <2>5. D + 1 <= enqueue_pos
      BY <2>4 DEF CellInv
    <2>6. WindowInv' BY <2>1, <2>5 DEF WindowInv
    <2>7. CellInv' BY <2>1 DEF CellInv
    <2>8. \A u \in Threads : pc[u] \in Filling => pos[u] # D
      BY <2>4 DEF PositionOK, PositionInv
    <2>9. PositionInv'
      BY <2>1, <2>3, <2>4, <2>8 DEF PositionOK, PositionInv, Filling, Emptying
    <2>10. DistinctInv'
      BY <2>1, <2>3 DEF PositionOK, PositionInv, DistinctInv, Filling, Emptying
    <2>11. QED BY <2>6, <2>7, <2>9, <2>10
  <1>3. QED BY <1>1, <1>2

LEMMA RingInside ==
  ASSUME RingFacts, RingInv, NEW t \in Threads, SubmitWrite(t) \/ ExecuteRead(t)
  PROVE  RingInv'
  <1> USE DEF RingFacts, RingInv, SubmitWrite, ExecuteRead
  <1>1. WindowInv' BY DEF WindowInv
  <1>2. CellInv' BY DEF CellInv
  <1>3. PositionInv' BY DEF PositionOK, PositionInv, Filling, Emptying
  <1>4. DistinctInv' BY DEF DistinctInv, Filling, Emptying
  <1>5. QED BY <1>1, <1>2, <1>3, <1>4

LEMMA RingSubmitPublish ==
  ASSUME RingFacts, RingInv, NEW t \in Threads, SubmitPublish(t)
  PROVE  RingInv'
  <1> USE DEF RingFacts, RingInv
  <1> DEFINE p == pos[t]
             c == Cell(p)
  <1>1. /\ pc[t] = "s_publish" /\ pc' = [pc EXCEPT ![t] = "s_post"]
        /\ sequence' = [sequence EXCEPT ![c] = p + 1]
        /\ UNCHANGED <<enqueue_pos, dequeue_pos, pos>>
    BY DEF SubmitPublish
  <1>2. /\ sequence[c] = p /\ dequeue_pos <= p /\ p < enqueue_pos
        /\ p \in Nat /\ c \in CellIds
    BY <1>1 DEF PositionOK, PositionInv, Filling
  <1>3. sequence'[c] = p + 1 /\ \A d \in CellIds \ {c} : sequence'[d] = sequence[d]
    BY <1>1, <1>2
  <1>4. WindowInv' BY <1>1 DEF WindowInv
  <1>5. CellInv'
    <2>1. (p + 1) - 1 = p /\ p + 1 > 0 BY <1>2
    <2>2. QED BY <1>1, <1>2, <1>3, <2>1 DEF CellInv, WindowInv
  <1> DEFINE AtCell(u) == \/ pc[u] \in Filling \cup Emptying
                          \/ pc[u] = "s_claim" /\ pos[u] = enqueue_pos
                          \/ pc[u] = "x_claim" /\ pos[u] = dequeue_pos
  <1>6. ASSUME NEW u \in Threads, u # t, AtCell(u)
        PROVE  Cell(pos[u]) # c
    BY <1>1, <1>2, <1>6 DEF PositionOK, PositionInv, DistinctInv, Filling, Emptying
  <1>7. PositionInv'
    <2>1. SUFFICES ASSUME NEW u \in Threads PROVE PositionOK(u)'
      BY DEF PositionOK, PositionInv
    <2>2. PositionOK(u) BY DEF PositionOK, PositionInv
    <2>3. CASE u = t BY <2>3, <1>1 DEF PositionOK, Filling, Emptying
    <2>4. CASE u # t
      <3>1. pc'[u] = pc[u] BY <1>1, <2>4
      <3>2. CASE AtCell(u)
        <4>1. Cell(pos[u]) # c
          <5> HIDE DEF AtCell, c
          <5>1. QED BY <1>6, <2>4, <3>2
        <4>2. Cell(pos[u]) \in CellIds /\ pos'[u] = pos[u] BY <1>1
        <4>3. sequence'[Cell(pos[u])] = sequence[Cell(pos[u])] BY <1>3, <4>1, <4>2
        <4>4. QED BY <1>1, <2>2, <3>1, <4>2, <4>3 DEF PositionOK, Filling, Emptying
      <3>3. CASE ~AtCell(u)
        BY <1>1, <2>2, <3>1, <3>3 DEF PositionOK
      <3>4. QED BY <3>2, <3>3
    <2>5. QED BY <2>3, <2>4
  <1>8. DistinctInv' BY <1>1 DEF DistinctInv, Filling, Emptying
  <1>9. QED BY <1>4, <1>5, <1>7, <1>8

LEMMA RingExecuteRelease ==
  ASSUME RingFacts, RingInv, NEW t \in Threads, ExecuteRelease(t)
  PROVE  RingInv'
  <1> USE DEF RingFacts, RingInv
  <1> DEFINE p == pos[t]
             c == Cell(p)
  <1>1. /\ pc[t] = "x_release" /\ pc' = [pc EXCEPT ![t] = "x_run"]
        /\ sequence' = [sequence EXCEPT ![c] = p + Capacity]
        /\ UNCHANGED <<enqueue_pos, dequeue_pos, pos>>
    BY DEF ExecuteRelease
  <1>2. sequence[c] = p + 1 /\ p < dequeue_pos /\ p \in Nat /\ c \in CellIds
    BY <1>1 DEF PositionOK, PositionInv, Emptying
  <1>3. sequence'[c] = p + Capacity /\ \A d \in CellIds \ {c} : sequence'[d] = sequence[d]
    BY <1>1, <1>2
  <1>4. WindowInv' BY <1>1 DEF WindowInv
  <1>5. CellInv'
    <2>1. enqueue_pos < (p + 1) + Capacity BY <1>2 DEF CellInv
    <2>2. Cell(p + Capacity) = c BY <1>2
    <2>3. QED BY <1>1, <1>2, <1>3, <2>1, <2>2 DEF CellInv
  <1> DEFINE AtCell(u) == \/ pc[u] \in Filling \cup Emptying
                          \/ pc[u] = "s_claim" /\ pos[u] = enqueue_pos
                          \/ pc[u] = "x_claim" /\ pos[u] = dequeue_pos
  <1>6. ASSUME NEW u \in Threads, u # t, AtCell(u)
        PROVE  Cell(pos[u]) # c
    <2>1. PositionOK(u) /\ pos[u] \in Nat BY DEF PositionInv
    <2>2. CASE pc[u] \in Emptying
      <3>1. sequence[Cell(pos[u])] = pos[u] + 1 BY <2>1, <2>2 DEF PositionOK
      <3>2. pos[u] # p BY <1>1, <1>6, <2>2 DEF DistinctInv, Emptying
      <3>3. QED BY SMTT(20), <1>2, <2>1, <3>1, <3>2
    <2>3. CASE pc[u] \in Filling \/ (pc[u] = "s_claim" /\ pos[u] = enqueue_pos)
      <3>1. sequence[Cell(pos[u])] = pos[u] BY <2>1, <2>3 DEF PositionOK
      <3>2. Cell(p + 1) # Cell(p) BY <1>2
      <3>3. QED BY <1>2, <3>1, <3>2
    <2>4. CASE pc[u] = "x_claim" /\ pos[u] = dequeue_pos
      <3>1. sequence[Cell(pos[u])] = pos[u] + 1 BY <2>1, <2>4 DEF PositionOK
      <3>2. pos[u] + 1 # p + 1 BY <1>2, <2>1, <2>4
      <3>3. QED BY <1>2, <3>1, <3>2
    <2>5. QED BY <1>6, <2>2, <2>3, <2>4
  <1>7. PositionInv'
    <2>1. SUFFICES ASSUME NEW u \in Threads PROVE PositionOK(u)'
      BY DEF PositionOK, PositionInv
    <2>2. PositionOK(u) BY DEF PositionOK, PositionInv
    <2>3. CASE u = t BY <2>3, <1>1 DEF PositionOK, Filling, Emptying
    <2>4. CASE u # t
      <3>1. pc'[u] = pc[u] BY <1>1, <2>4
      <3>2. CASE AtCell(u)
        <4>1. Cell(pos[u]) # c
          <5> HIDE DEF AtCell, c
          <5>1. QED BY <1>6, <2>4, <3>2
        <4>2. Cell(pos[u]) \in CellIds /\ pos'[u] = pos[u] BY <1>1
        <4>3. sequence'[Cell(pos[u])] = sequence[Cell(pos[u])] BY <1>3, <4>1, <4>2
        <4>4. QED BY <1>1, <2>2, <3>1, <4>2, <4>3 DEF PositionOK, Filling, Emptying
      <3>3. CASE ~AtCell(u)
        BY <1>1, <2>2, <3>1, <3>3 DEF PositionOK
      <3>4. QED BY <3>2, <3>3
    <2>5. QED BY <2>3, <2>4
  <1>8. DistinctInv' BY <1>1 DEF DistinctInv, Filling, Emptying
  <1>9. QED BY <1>4, <1>5, <1>7, <1>8

-----------------------------------------------------------------------------
(* Every step keeps the ring's invariant, as long as no thread is lapped.  *)
LEMMA RingStep == TypeOK /\ NoLap /\ RingInv /\ [Next]_vars => RingInv'
  <1> SUFFICES ASSUME TypeOK, NoLap, RingInv, [Next]_vars PROVE RingInv' OBVIOUS
  <1>f. RingFacts BY FactsHold
  <1>w. Workers \subseteq Threads /\ Clients \subseteq Threads /\ Owner \in Threads
    BY DEF Threads
  <1>u. SUFFICES ASSUME ~RingUntouched PROVE RingInv' BY RingFrame
  <1> USE DEF RingUntouched, RingLabels
  <1>e. ASSUME NEW t \in Threads, ExecuteStep(t) PROVE RingInv'
    <2>1. ~ExecuteRun(t)
      BY <1>u, <1>f DEF ExecuteRun, ReturnExecuteOne, Forget, RingFacts
    <2>2. ~ExecuteCount(t)
      BY <1>u, <1>f DEF ExecuteCount, ReturnExecuteOne, Forget, RingFacts
    <2>3. QED
      BY <1>e, <1>f, <2>1, <2>2, RingExecuteLoad, RingExecuteCheck, RingExecuteClaim,
         RingInside, RingExecuteRelease
      DEF ExecuteStep
  <1>s. ASSUME NEW t \in Threads, SubmitStep(t) PROVE RingInv'
    <2>1. ~BeginSubmit(t)
      BY <1>u, <1>f DEF BeginSubmit, Refuse, Forget, RingFacts
    <2>2. ~SubmitPost(t) BY <1>u, <1>f DEF SubmitPost, RingFacts
    <2>3. ~EndSubmit(t)
      BY <1>u, <1>f DEF EndSubmit, Refuse, Forget, RingFacts
    <2>4. ~GroupUncount(t) BY <1>u, <1>f DEF GroupUncount, Forget, RingFacts
    <2>5. QED
      BY <1>s, <1>f, <2>1, <2>2, <2>3, <2>4, RingSubmitLoad, RingSubmitCheck,
         RingSubmitClaim, RingInside, RingSubmitPublish
      DEF SubmitStep
  <1>l. ASSUME NEW t \in Threads PROVE ~CloseStep(t)
    BY <1>u, <1>f DEF CloseStep, CloseSet, CloseSpin, ClosePost, CloseReturns, RingFacts
  <1>1. ASSUME NEW w \in Workers, WorkerStep(w) PROVE RingInv'
    <2>1. ~(WorkerWake(w) \/ WorkerIsClosed(w) \/ WorkerNoSubmitters(w) \/ WorkerBaton(w))
      BY <1>u, <1>f, <1>w
      DEF WorkerWake, WorkerIsClosed, WorkerNoSubmitters, WorkerBaton, RingFacts
    <2>2. QED BY <1>1, <1>e, <1>w, <2>1 DEF WorkerStep
  <1>2. ASSUME NEW t \in Clients, ClientStep(t) PROVE RingInv'
    <2>1. ~GroupWaitCheck(t) BY <1>u, <1>f, <1>w DEF GroupWaitCheck, RingFacts
    <2>2. QED BY <1>2, <1>e, <1>s, <1>l, <1>w, <2>1 DEF ClientStep
  <1>3. ASSUME NEW t \in Clients PROVE ~ClientCall(t)
    BY <1>u, <1>f, <1>w
    DEF ClientCall, CallSubmit, CallExecuteOne, CallGroupWait, CallClose, Leave, RingFacts
  <1>4. ~OwnerStep
    BY <1>u, <1>f, <1>w, <1>l
    DEF OwnerStep, InitAcquire, CreateWorker, CreateWorkerFails, JoinAndFree, RingFacts
  <1>5. ~CallDestroy BY <1>u, <1>f, <1>w DEF CallDestroy, RingFacts
  <1>6. ~UNCHANGED vars BY <1>u
  <1>7. QED BY <1>1, <1>2, <1>3, <1>4, <1>5, <1>6 DEF Next, Over

LEMMA RingInvGivesNoDataRace == TypeOK /\ RingInv => NoDataRace
  <1> SUFFICES ASSUME TypeOK, RingInv, NEW t \in Threads, NEW u \in Threads, t # u,
                      pc[t] \in InsideCell, pc[u] \in InsideCell
               PROVE  Cell(pos[t]) # Cell(pos[u])
    BY DEF NoDataRace
  <1>1. RingFacts BY FactsHold
  <1>2. PositionOK(t) /\ PositionOK(u) BY DEF RingInv, PositionInv
  <1>3. pos[t] \in Nat /\ pos[u] \in Nat BY <1>1 DEF RingFacts
  <1>4. /\ pc[t] \in Filling \/ pc[t] \in Emptying
        /\ pc[u] \in Filling \/ pc[u] \in Emptying
    BY DEF InsideCell, Filling, Emptying
  <1>5. /\ pc[t] \in Filling => sequence[Cell(pos[t])] = pos[t]
        /\ pc[u] \in Filling => sequence[Cell(pos[u])] = pos[u]
        /\ pc[t] \in Emptying => sequence[Cell(pos[t])] = pos[t] + 1
        /\ pc[u] \in Emptying => sequence[Cell(pos[u])] = pos[u] + 1
    BY <1>2 DEF PositionOK
  <1>6. CASE pc[t] \in Filling /\ pc[u] \in Filling
    BY <1>3, <1>5, <1>6 DEF RingInv, DistinctInv
  <1>7. CASE pc[t] \in Emptying /\ pc[u] \in Emptying
    <2>1. pos[t] # pos[u] BY <1>7 DEF RingInv, DistinctInv
    <2>2. QED BY ONLY <1>3, <1>5, <1>7, <2>1
  <1>8. CASE pc[t] \in Filling /\ pc[u] \in Emptying
    <2>1. Cell(pos[u] + 1) # Cell(pos[u]) BY <1>3, CellSuccessor
    <2>2. QED BY ONLY <1>5, <1>8, <2>1
  <1>9. CASE pc[t] \in Emptying /\ pc[u] \in Filling
    <2>1. Cell(pos[t] + 1) # Cell(pos[t]) BY <1>3, CellSuccessor
    <2>2. QED BY ONLY <1>5, <1>9, <2>1
  <1>10. QED BY <1>4, <1>6, <1>7, <1>8, <1>9

(* The ring's inductive invariant, for every capacity and every number of  *)
(* threads, as long as no thread sleeps through a whole counter lap.       *)
THEOREM RingCorrect == Spec /\ []NoLap => []RingInv
  <1>1. Init => RingInv BY RingInit
  <1>2. TypeOK /\ NoLap /\ RingInv /\ [Next]_vars => RingInv' BY RingStep
  <1>3. QED BY <1>1, <1>2, TypeCorrect, PTL DEF Spec

(* No two threads are ever inside the same cell: the plain fields data and *)
(* group of proven_job_cell_t are never accessed concurrently.             *)
THEOREM DataRaceFree == Spec /\ []NoLap => []NoDataRace
  <1>1. TypeOK /\ RingInv => NoDataRace BY RingInvGivesNoDataRace
  <1>2. QED BY <1>1, TypeCorrect, RingCorrect, PTL

-----------------------------------------------------------------------------
(* The handover of the jobs.                                               *)
(* The types these proofs need besides RingFacts. *)
TaskFacts ==
    /\ data \in [CellIds -> Tasks]
    /\ task \in [Threads -> Tasks]
    /\ status \in [Jobs -> {"new", "submitting", "queued", "done"}]
    /\ runs \in [Jobs -> Nat]
    /\ pending \in [Groups -> Int]

LEMMA TaskFactsHold == TypeOK => TaskFacts
  BY DEF TypeOK, TaskFacts

-----------------------------------------------------------------------------
(* Which cells hold a job.                                                 *)

LEMMA HoldsSame ==
  ASSUME UNCHANGED sequence,
         \A t \in Threads :
            /\ pc'[t] = "x_release" <=> pc[t] = "x_release"
            /\ pc[t] = "x_release" => pos'[t] = pos[t]
  PROVE  \A c : Holds(c)' <=> Holds(c)
  BY DEF Holds

(* A cell with a thread inside it holds nothing, unless that thread is     *)
(* about to copy the job out. *)
LEMMA InsideHolds ==
  ASSUME RingFacts, RingInv, NoDataRace, NEW t \in Threads
  PROVE  /\ pc[t] \in Filling => ~Holds(Cell(pos[t]))
         /\ pc[t] = "x_read" => Holds(Cell(pos[t]))
         /\ pc[t] = "x_release" => ~Holds(Cell(pos[t]))
  <1> DEFINE p == pos[t]
             c == Cell(p)
  <1>1. p \in Nat /\ c \in CellIds BY DEF RingFacts
  <1>2. PositionOK(t) BY DEF RingInv, PositionInv
  <1>3. CASE pc[t] \in Filling
    <2>1. sequence[c] = p BY <1>2, <1>3 DEF PositionOK
    <2>2. p > 0 => Cell(p - 1) # c
      <3>1. p > 0 => p - 1 \in Nat /\ (p - 1) + 1 = p BY <1>1
      <3>2. QED BY <3>1 DEF RingFacts
    <2>3. QED BY <1>3, <2>1, <2>2 DEF Holds, Filling
  <1>4. CASE pc[t] = "x_read"
    <2>1. sequence[c] = p + 1 BY <1>2, <1>4 DEF PositionOK, Emptying
    <2>2. \A u \in Threads : pc[u] = "x_release" => Cell(pos[u]) # c
      BY <1>4 DEF NoDataRace, InsideCell
    <2>3. (p + 1) - 1 = p /\ p + 1 > 0 BY <1>1
    <2>4. QED BY <1>4, <2>1, <2>2, <2>3 DEF Holds, Filling
  <1>5. CASE pc[t] = "x_release" BY <1>5 DEF Holds, Filling
  <1>6. QED BY <1>3, <1>4, <1>5

(* Publishing fills a cell and no other. *)
LEMMA HoldsPublish ==
  ASSUME RingFacts, NoDataRace, NEW t \in Threads, SubmitPublish(t),
         NEW c \in CellIds, c = Cell(pos[t])
  PROVE  /\ Holds(c)'
         /\ \A d \in CellIds \ {c} : Holds(d)' <=> Holds(d)
  <1> DEFINE p == pos[t]
  <1>1. /\ pc[t] = "s_publish" /\ pc' = [pc EXCEPT ![t] = "s_post"]
        /\ sequence' = [sequence EXCEPT ![c] = p + 1]
        /\ pos' = pos
    BY DEF SubmitPublish
  <1>2. p \in Nat BY DEF RingFacts
  <1>3. sequence'[c] = p + 1 /\ \A d \in CellIds \ {c} : sequence'[d] = sequence[d]
    BY <1>1, <1>2 DEF RingFacts
  <1>4. \A u \in Threads : pc'[u] = "x_release" <=> pc[u] = "x_release"
    BY <1>1 DEF RingFacts
  <1>5. \A u \in Threads : pc[u] = "x_release" => Cell(pos[u]) # c
    BY <1>1 DEF NoDataRace, InsideCell
  <1>6. (p + 1) - 1 = p /\ p + 1 > 0 BY <1>2
  <1>7. Holds(c)' BY <1>1, <1>3, <1>4, <1>5, <1>6 DEF Holds
  <1>8. ASSUME NEW d \in CellIds \ {c} PROVE Holds(d)' <=> Holds(d)
    BY <1>1, <1>3, <1>4 DEF Holds
  <1>9. QED BY <1>7, <1>8

(* Copying a job out empties the cell it was in and no other. *)
LEMMA HoldsRead ==
  ASSUME RingFacts, NEW t \in Threads, ExecuteRead(t),
         NEW c \in CellIds, c = Cell(pos[t])
  PROVE  /\ ~Holds(c)'
         /\ \A d \in CellIds \ {c} : Holds(d)' <=> Holds(d)
  <1>1. /\ pc[t] = "x_read" /\ pc' = [pc EXCEPT ![t] = "x_release"]
        /\ sequence' = sequence /\ pos' = pos
    BY DEF ExecuteRead
  <1>2. pc'[t] = "x_release" /\ \A u \in Threads \ {t} : pc'[u] = pc[u]
    BY <1>1 DEF RingFacts
  <1>3. QED BY <1>1, <1>2 DEF Holds

(* Giving the cell back to the submitters changes no cell's content. *)
LEMMA HoldsRelease ==
  ASSUME RingFacts, NEW t \in Threads, ExecuteRelease(t)
  PROVE  \A d \in CellIds : Holds(d)' <=> Holds(d)
  <1> PICK p \in Nat, c \in CellIds : p = pos[t] /\ c = Cell(p)
    BY DEF RingFacts
  <1>1. /\ pc[t] = "x_release" /\ pc' = [pc EXCEPT ![t] = "x_run"]
        /\ sequence' = [sequence EXCEPT ![c] = p + Capacity]
        /\ pos' = pos
    BY DEF ExecuteRelease
  <1>3. sequence'[c] = p + Capacity /\ \A d \in CellIds \ {c} : sequence'[d] = sequence[d]
    BY <1>1 DEF RingFacts
  <1>4. pc'[t] = "x_run" /\ \A u \in Threads \ {t} : pc'[u] = pc[u]
    BY <1>1 DEF RingFacts
  <1>5. ~Holds(c) BY <1>1 DEF Holds
  <1>6. ~Holds(c)'
    <2>1. p + Capacity - 1 \in Nat /\ (p + Capacity - 1) + 1 = p + Capacity
      BY DEF RingFacts
    <2>2. Cell((p + Capacity - 1) + 1) # Cell(p + Capacity - 1) BY <2>1 DEF RingFacts
    <2>3. Cell(p + Capacity) = c BY DEF RingFacts
    <2>4. Cell(sequence'[c] - 1) # c BY <1>3, <2>1, <2>2, <2>3
    <2>5. QED BY <2>4 DEF Holds
  <1>7. ASSUME NEW d \in CellIds \ {c} PROVE Holds(d)' <=> Holds(d)
    <2>1. sequence'[d] = sequence[d] BY <1>3
    <2>2. (\A u \in Threads : pc'[u] = "x_release" => Cell(pos[u]) # d)
            <=> (\A u \in Threads : pc[u] = "x_release" => Cell(pos[u]) # d)
      BY <1>1, <1>4
    <2>3. QED BY <1>1, <2>1, <2>2 DEF Holds
  <1>8. QED BY <1>5, <1>6, <1>7

-----------------------------------------------------------------------------
(* Where each job is.                                                      *)

USE DEF ThreadHasJob, CellHasJob, OnePlace, JobInv

LEMMA JobInit == Init => JobInv
  <1> SUFFICES ASSUME Init PROVE JobInv OBVIOUS
  <1>1. \A t \in Threads : pc[t] \notin Offering /\ pc[t] \notin Running
    BY DEF Init, Offering, Running
  <1>2. \A t \in Threads : pc[t] # "s_publish" BY DEF Init
  <1>3. \A c \in CellIds : ~Holds(c)
    <2> SUFFICES ASSUME NEW c \in CellIds, sequence[c] > 0, Cell(sequence[c] - 1) = c
                 PROVE  FALSE
      BY DEF Holds
    <2>1. sequence[c] \in Nat /\ Cell(sequence[c]) = c
      BY FirstSequenceType, SizeAssumption DEF Init
    <2>2. sequence[c] - 1 \in Nat /\ (sequence[c] - 1) + 1 = sequence[c] BY <2>1
    <2>3. QED BY <2>1, <2>2, CellSuccessor
  <1>4. RunsOnce BY DEF Init, RunsOnce
  <1>5. QED BY <1>1, <1>2, <1>3, <1>4

(* Most steps move no job. *)
JobsUntouched ==
    /\ UNCHANGED <<sequence, data, status, runs>>
    /\ \A t \in Threads :
          /\ pc'[t] \in Offering => pc[t] \in Offering /\ task'[t] = task[t]
          /\ pc'[t] \in Running => pc[t] \in Running /\ task'[t] = task[t]
          /\ pc'[t] = "s_publish" => pc[t] = "s_publish" /\ pos'[t] = pos[t]
          /\ pc'[t] = "x_release" <=> pc[t] = "x_release"
          /\ pc[t] = "x_release" => pos'[t] = pos[t]

(* A thread that leaves with nothing in its hands moves no job. *)
LEMMA EmptyHanded ==
  ASSUME NEW t \in Threads, UNCHANGED <<sequence, data, status, runs>>,
         pc[t] # "x_release", pc'[t] \notin Offering, pc'[t] \notin Running,
         \A u \in Threads \ {t} : pc'[u] = pc[u] /\ task'[u] = task[u] /\ pos'[u] = pos[u]
  PROVE  JobsUntouched
  <1>1. pc'[t] # "s_publish" /\ pc'[t] # "x_release" BY DEF Offering, Running
  <1>2. QED BY <1>1 DEF JobsUntouched

LEMMA JobFrame == JobInv /\ JobsUntouched => JobInv'
  <1> SUFFICES ASSUME JobInv, JobsUntouched PROVE JobInv' OBVIOUS
  <1>1. \A c : Holds(c)' <=> Holds(c) BY HoldsSame DEF JobsUntouched
  <1>2. \A t \in Threads : ThreadHasJob(t)' BY DEF JobsUntouched, Offering
  <1>3. \A c \in CellIds : CellHasJob(c)' BY <1>1 DEF JobsUntouched
  <1>4. OnePlace' BY <1>1 DEF JobsUntouched
  <1>5. RunsOnce' BY DEF JobsUntouched, RunsOnce
  <1>6. QED BY <1>2, <1>3, <1>4, <1>5

-----------------------------------------------------------------------------
(* One lemma per step that moves a job.                                    *)

LEMMA JobCallSubmit ==
  ASSUME RingFacts, TaskFacts, JobInv, NEW t \in Threads, NEW j \in Jobs,
         NEW g \in Groups \cup {NoGroup}, CallSubmit(t, j, g)
  PROVE  JobInv'
  <1> USE DEF RingFacts, TaskFacts
  <1>1. /\ pc[t] = "idle" /\ pc' = [pc EXCEPT ![t] = "s_begin"]
        /\ status[j] = "new" /\ status' = [status EXCEPT ![j] = "submitting"]
        /\ task' = [task EXCEPT ![t] = [job |-> j, group |-> g]]
        /\ UNCHANGED <<sequence, data, pos, runs>>
    BY DEF CallSubmit
  <1>2. \A c : Holds(c)' <=> Holds(c) BY <1>1, HoldsSame
  <1>3. /\ \A u \in Threads \ {t} : pc'[u] = pc[u] /\ task'[u] = task[u]
        /\ pc'[t] = "s_begin" /\ task'[t].job = j
        /\ status'[j] = "submitting"
        /\ \A k \in Jobs \ {j} : status'[k] = status[k]
    BY <1>1
  <1>4. \A u \in Threads : pc[u] \in Offering \cup Running => task[u].job # j
    BY <1>1
  <1>5. \A c \in CellIds : Holds(c) => data[c].job # j
    BY <1>1
  <1>6. \A u \in Threads : ThreadHasJob(u)' BY <1>1, <1>3, <1>4 DEF Offering, Running
  <1>7. \A c \in CellIds : CellHasJob(c)' BY <1>1, <1>2, <1>3, <1>5
  <1>8. OnePlace'
    <2>1. ASSUME NEW u \in Threads, NEW v \in Threads, u # v,
                 \/ pc'[u] \in Offering /\ pc'[v] \in Offering
                 \/ pc'[u] \in Running /\ pc'[v] \in Running
          PROVE  task'[u].job # task'[v].job
      <3>1. CASE u = t BY <2>1, <3>1, <1>3, <1>4 DEF Running
      <3>2. CASE v = t BY <2>1, <3>2, <1>3, <1>4 DEF Running
      <3>3. CASE u # t /\ v # t BY <2>1, <3>3, <1>3
      <3>4. QED BY <3>1, <3>2, <3>3
    <2>2. ASSUME NEW c \in CellIds, NEW d \in CellIds, c # d, Holds(c)', Holds(d)'
          PROVE  data'[c].job # data'[d].job
      BY <2>2, <1>1, <1>2
    <2>3. ASSUME NEW u \in Threads, NEW c \in CellIds, pc'[u] \in Running, Holds(c)'
          PROVE  task'[u].job # data'[c].job
      BY <2>3, <1>1, <1>2, <1>3 DEF Running
    <2>4. QED BY ONLY <2>1, <2>2, <2>3 DEF OnePlace
  <1>9. RunsOnce' BY <1>1, <1>3 DEF RunsOnce
  <1>10. QED BY <1>6, <1>7, <1>8, <1>9

(* A refused job is new again, and nobody else has it. *)
LEMMA JobRefuse ==
  ASSUME RingFacts, TaskFacts, JobInv, NEW t \in Threads, pc[t] \in Offering, Refuse(t),
         UNCHANGED <<sequence, data, runs>>
  PROVE  JobInv'
  <1> USE DEF RingFacts, TaskFacts
  <1> DEFINE j == task[t].job
  <1>1. /\ status[j] = "submitting" /\ status' = [status EXCEPT ![j] = "new"] /\ j \in Jobs
    BY DEF Refuse
  <1>2. /\ pc'[t] \in {"idle", "s_uncount"}
        /\ \A u \in Threads \ {t} : pc'[u] = pc[u] /\ task'[u] = task[u] /\ pos'[u] = pos[u]
    BY DEF Refuse, Forget
  <1>3. \A u \in Threads : /\ pc'[u] = "x_release" <=> pc[u] = "x_release"
                           /\ pc[u] = "x_release" => pos'[u] = pos[u]
    BY <1>2 DEF Offering
  <1>4. \A c : Holds(c)' <=> Holds(c) BY <1>3, HoldsSame
  <1>5. \A u \in Threads \ {t} : pc[u] \in Offering \cup Running => task[u].job # j
    BY <1>1 
  <1>6. \A c \in CellIds : Holds(c) => data[c].job # j BY <1>1
  <1>7. status'[j] = "new" /\ \A k \in Jobs \ {j} : status'[k] = status[k] BY <1>1
  <1>x. pc'[t] \notin Offering /\ pc'[t] \notin Running /\ pc'[t] # "s_publish"
    BY <1>2 DEF Offering, Running
  <1>8. ASSUME NEW u \in Threads PROVE ThreadHasJob(u)'
    <2>1. CASE u = t BY <2>1, <1>x
    <2>2. CASE u # t
      <3>1. pc[u] \in Offering \cup Running => status'[task[u].job] = status[task[u].job]
        BY <2>2, <1>5, <1>7
      <3>2. QED BY <2>2, <1>2, <3>1
    <2>3. QED BY <2>1, <2>2
  <1>9. \A c \in CellIds : CellHasJob(c)' BY <1>4, <1>6, <1>7
  <1>10. OnePlace'
    <2>1. ASSUME NEW u \in Threads, NEW v \in Threads, u # v,
                 \/ pc'[u] \in Offering /\ pc'[v] \in Offering
                 \/ pc'[u] \in Running /\ pc'[v] \in Running
          PROVE  task'[u].job # task'[v].job
      <3>1. u # t /\ v # t BY <2>1, <1>x
      <3>2. pc'[u] = pc[u] /\ pc'[v] = pc[v] BY <3>1, <1>2
      <3>3. task'[u] = task[u] /\ task'[v] = task[v] BY <3>1, <1>2
      <3>4. QED BY <2>1, <3>2, <3>3
    <2>2. ASSUME NEW c \in CellIds, NEW d \in CellIds, c # d, Holds(c)', Holds(d)'
          PROVE  data'[c].job # data'[d].job
      BY <2>2, <1>4
    <2>3. ASSUME NEW u \in Threads, NEW c \in CellIds, pc'[u] \in Running, Holds(c)'
          PROVE  task'[u].job # data'[c].job
      BY <2>3, <1>x, <1>2, <1>4
    <2>4. QED BY ONLY <2>1, <2>2, <2>3 DEF OnePlace
  <1>11. RunsOnce' BY <1>1, <1>7 DEF RunsOnce
  <1>12. QED BY <1>8, <1>9, <1>10, <1>11

LEMMA JobSubmitWrite ==
  ASSUME RingFacts, TaskFacts, RingInv, NoDataRace, JobInv,
         NEW t \in Threads, SubmitWrite(t)
  PROVE  JobInv'
  <1> USE DEF RingFacts, TaskFacts
  <1> PICK c \in CellIds : c = Cell(pos[t]) OBVIOUS
  <1>1. /\ pc[t] = "s_write" /\ pc' = [pc EXCEPT ![t] = "s_publish"]
        /\ data' = [data EXCEPT ![c] = task[t]]
        /\ UNCHANGED <<sequence, pos, task, status, runs>>
    BY DEF SubmitWrite
  <1>2. ~Holds(c) BY <1>1, InsideHolds DEF Filling
  <1>3. \A u \in Threads : pc'[u] = "x_release" <=> pc[u] = "x_release" BY <1>1
  <1>4. \A d : Holds(d)' <=> Holds(d) BY <1>1, <1>3, HoldsSame
  <1>5. \A d \in CellIds : Holds(d) => data'[d] = data[d] BY <1>1, <1>2
  <1>6. data'[c] = task[t] BY <1>1
  <1>7. ASSUME NEW u \in Threads PROVE ThreadHasJob(u)'
    <2>1. CASE u = t BY <2>1, <1>1, <1>6 DEF Offering, Running
    <2>2. CASE u # t
      <3>1. pc[u] = "s_publish" => Cell(pos[u]) # c /\ Cell(pos[u]) \in CellIds
        BY <1>1, <2>2 DEF NoDataRace, InsideCell
      <3>2. pc[u] = "s_publish" => data'[Cell(pos[u])] = data[Cell(pos[u])]
        BY <1>1, <3>1
      <3>3. QED BY <1>1, <2>2, <3>2
    <2>3. QED BY <2>1, <2>2
  <1>8. \A d \in CellIds : CellHasJob(d)' BY <1>1, <1>4, <1>5
  <1>9. \A u \in Threads : /\ pc'[u] \in Offering <=> pc[u] \in Offering
                           /\ pc'[u] \in Running <=> pc[u] \in Running
    BY <1>1 DEF Offering, Running
  <1>10. OnePlace' BY <1>1, <1>4, <1>5, <1>9
  <1>11. RunsOnce' BY <1>1 DEF RunsOnce
  <1>12. QED BY <1>7, <1>8, <1>10, <1>11

(* The ring accepts the job: it moves from its submitter to the cell. *)
LEMMA JobSubmitPublish ==
  ASSUME RingFacts, TaskFacts, NoDataRace, JobInv,
         NEW t \in Threads, SubmitPublish(t)
  PROVE  JobInv'
  <1> USE DEF RingFacts, TaskFacts
  <1> PICK c \in CellIds : c = Cell(pos[t]) OBVIOUS
  <1> DEFINE j == task[t].job
  <1>1. /\ pc[t] = "s_publish" /\ pc' = [pc EXCEPT ![t] = "s_post"]
        /\ status' = [status EXCEPT ![j] = "queued"]
        /\ UNCHANGED <<data, pos, task, runs>>
    BY DEF SubmitPublish
  <1>2. /\ j \in Jobs /\ status[j] = "submitting" /\ data[c] = task[t]
    BY <1>1 DEF Offering
  <1>3. Holds(c)' /\ \A d \in CellIds \ {c} : Holds(d)' <=> Holds(d)
    BY HoldsPublish
  <1>4. status'[j] = "queued" /\ \A k \in Jobs \ {j} : status'[k] = status[k] BY <1>1, <1>2
  <1>5. /\ pc'[t] \notin Offering /\ pc'[t] \notin Running
        /\ \A u \in Threads \ {t} : pc'[u] = pc[u]
    BY <1>1 DEF Offering, Running
  <1>6. \A u \in Threads \ {t} : pc[u] \in Offering \cup Running => task[u].job # j
    BY <1>1, <1>2 DEF Offering
  <1>7. \A d \in CellIds \ {c} : Holds(d) => data[d].job # j BY <1>2
  <1>8. ASSUME NEW u \in Threads PROVE ThreadHasJob(u)'
    <2>1. CASE u = t BY <2>1, <1>1, <1>5
    <2>2. CASE u # t
      <3>1. pc[u] \in Offering \cup Running => status'[task[u].job] = status[task[u].job]
        BY <2>2, <1>4, <1>6
      <3>2. QED BY <2>2, <1>1, <1>5, <3>1
    <2>3. QED BY <2>1, <2>2
  <1>9. \A d \in CellIds : CellHasJob(d)'
    BY <1>1, <1>2, <1>3, <1>4, <1>7
  <1>10. OnePlace'
    <2>1. ASSUME NEW u \in Threads, NEW v \in Threads, u # v,
                 \/ pc'[u] \in Offering /\ pc'[v] \in Offering
                 \/ pc'[u] \in Running /\ pc'[v] \in Running
          PROVE  task'[u].job # task'[v].job
      <3>1. u # t /\ v # t BY <2>1, <1>5
      <3>2. pc'[u] = pc[u] /\ pc'[v] = pc[v] BY <3>1, <1>5
      <3>3. QED BY <2>1, <3>2, <1>1
    <2>2. ASSUME NEW d \in CellIds, NEW e \in CellIds, d # e, Holds(d)', Holds(e)'
          PROVE  data'[d].job # data'[e].job
      BY <2>2, <1>1, <1>2, <1>3, <1>7
    <2>3. ASSUME NEW u \in Threads, NEW d \in CellIds, pc'[u] \in Running, Holds(d)'
          PROVE  task'[u].job # data'[d].job
      <3>1. u # t /\ pc[u] \in Running BY <2>3, <1>5
      <3>2. CASE d = c BY <3>1, <3>2, <1>1, <1>2, <1>6
      <3>3. CASE d # c BY <2>3, <3>1, <3>3, <1>1, <1>3
      <3>4. QED BY <3>2, <3>3
    <2>4. QED BY ONLY <2>1, <2>2, <2>3 DEF OnePlace
  <1>11. RunsOnce' BY <1>1, <1>2, <1>4 DEF RunsOnce
  <1>12. QED BY <1>8, <1>9, <1>10, <1>11

(* A thread takes the job out: it moves from the cell to the thread. *)
LEMMA JobExecuteRead ==
  ASSUME RingFacts, TaskFacts, RingInv, NoDataRace, JobInv,
         NEW t \in Threads, ExecuteRead(t)
  PROVE  JobInv'
  <1> USE DEF RingFacts, TaskFacts
  <1> PICK c \in CellIds : c = Cell(pos[t]) OBVIOUS
  <1>1. /\ pc[t] = "x_read" /\ pc' = [pc EXCEPT ![t] = "x_release"]
        /\ task' = [task EXCEPT ![t] = data[c]]
        /\ UNCHANGED <<sequence, data, pos, status, runs>>
    BY DEF ExecuteRead
  <1>2. Holds(c) BY <1>1, InsideHolds
  <1>3. ~Holds(c)' /\ \A d \in CellIds \ {c} : Holds(d)' <=> Holds(d)
    BY HoldsRead
  <1>4. /\ pc'[t] = "x_release" /\ task'[t] = data[c]
        /\ \A u \in Threads \ {t} : pc'[u] = pc[u] /\ task'[u] = task[u]
    BY <1>1
  <1>5. data[c].job \in Jobs /\ status[data[c].job] = "queued" BY <1>2
  <1>6. pc'[t] \notin Offering /\ pc'[t] # "s_publish" BY <1>4 DEF Offering
  <1>7. ASSUME NEW u \in Threads PROVE ThreadHasJob(u)'
    <2>1. CASE u = t BY <2>1, <1>1, <1>4, <1>5, <1>6
    <2>2. CASE u # t BY <2>2, <1>1, <1>4
    <2>3. QED BY <2>1, <2>2
  <1>8. \A d \in CellIds : CellHasJob(d)' BY <1>1, <1>3
  <1>9. OnePlace'
    <2>1. ASSUME NEW u \in Threads, NEW v \in Threads, u # v,
                 \/ pc'[u] \in Offering /\ pc'[v] \in Offering
                 \/ pc'[u] \in Running /\ pc'[v] \in Running
          PROVE  task'[u].job # task'[v].job
      <3>1. CASE u = t
        <4>1. pc[v] \in Running /\ task'[v] = task[v] BY <2>1, <3>1, <1>4, <1>6
        <4>2. QED BY <3>1, <4>1, <1>2, <1>4
      <3>2. CASE v = t
        <4>1. pc[u] \in Running /\ task'[u] = task[u] BY <2>1, <3>2, <1>4, <1>6
        <4>2. QED BY <3>2, <4>1, <1>2, <1>4
      <3>3. CASE u # t /\ v # t BY <2>1, <3>3, <1>4
      <3>4. QED BY <3>1, <3>2, <3>3
    <2>2. ASSUME NEW d \in CellIds, NEW e \in CellIds, d # e, Holds(d)', Holds(e)'
          PROVE  data'[d].job # data'[e].job
      BY <2>2, <1>1, <1>3
    <2>3. ASSUME NEW u \in Threads, NEW d \in CellIds, pc'[u] \in Running, Holds(d)'
          PROVE  task'[u].job # data'[d].job
      <3>1. d # c /\ Holds(d) BY <2>3, <1>3
      <3>2. CASE u = t BY <3>1, <3>2, <1>1, <1>2, <1>4
      <3>3. CASE u # t BY <2>3, <3>1, <3>3, <1>1, <1>4
      <3>4. QED BY <3>2, <3>3
    <2>4. QED BY ONLY <2>1, <2>2, <2>3 DEF OnePlace
  <1>10. RunsOnce' BY <1>1 DEF RunsOnce
  <1>11. QED BY <1>7, <1>8, <1>9, <1>10

LEMMA JobExecuteRelease ==
  ASSUME RingFacts, TaskFacts, JobInv, NEW t \in Threads, ExecuteRelease(t)
  PROVE  JobInv'
  <1> USE DEF RingFacts, TaskFacts
  <1>1. /\ pc[t] = "x_release" /\ pc' = [pc EXCEPT ![t] = "x_run"]
        /\ UNCHANGED <<data, pos, task, status, runs>>
    BY DEF ExecuteRelease
  <1>2. \A d \in CellIds : Holds(d)' <=> Holds(d) BY HoldsRelease
  <1>3. \A u \in Threads : /\ pc'[u] \in Offering <=> pc[u] \in Offering
                           /\ pc'[u] \in Running <=> pc[u] \in Running
                           /\ pc'[u] = "s_publish" <=> pc[u] = "s_publish"
    BY <1>1 DEF Offering, Running
  <1>4. \A u \in Threads : ThreadHasJob(u)' BY <1>1, <1>3
  <1>5. \A d \in CellIds : CellHasJob(d)' BY <1>1, <1>2
  <1>6. OnePlace'
    <2>1. ASSUME NEW u \in Threads, NEW v \in Threads, u # v,
                 \/ pc'[u] \in Offering /\ pc'[v] \in Offering
                 \/ pc'[u] \in Running /\ pc'[v] \in Running
          PROVE  task'[u].job # task'[v].job
      BY <2>1, <1>1, <1>3
    <2>2. ASSUME NEW c \in CellIds, NEW d \in CellIds, c # d, Holds(c)', Holds(d)'
          PROVE  data'[c].job # data'[d].job
      BY <2>2, <1>1, <1>2
    <2>3. ASSUME NEW u \in Threads, NEW c \in CellIds, pc'[u] \in Running, Holds(c)'
          PROVE  task'[u].job # data'[c].job
      BY <2>3, <1>1, <1>2, <1>3
    <2>4. QED BY ONLY <2>1, <2>2, <2>3 DEF OnePlace
  <1>7. RunsOnce' BY <1>1 DEF RunsOnce
  <1>8. QED BY <1>4, <1>5, <1>6, <1>7

(* The job runs: it was in this thread's hands only. *)
LEMMA JobExecuteRun ==
  ASSUME RingFacts, TaskFacts, JobInv, NEW t \in Threads, ExecuteRun(t)
  PROVE  JobInv'
  <1> USE DEF RingFacts, TaskFacts
  <1> DEFINE j == task[t].job
  <1>1. /\ pc[t] = "x_run" /\ UNCHANGED <<sequence, data>>
        /\ runs' = [runs EXCEPT ![j] = runs[j] + 1]
        /\ status' = [status EXCEPT ![j] = "done"]
        /\ pc'[t] \in {"x_load", "w_closed", "w_park", "w_baton", "idle", "g_load", "x_count"}
    BY DEF ExecuteRun, ReturnExecuteOne
  <1>2. \A u \in Threads \ {t} : pc'[u] = pc[u] /\ task'[u] = task[u] /\ pos'[u] = pos[u]
    BY DEF ExecuteRun, ReturnExecuteOne, Forget
  <1>3. j \in Jobs /\ status[j] = "queued" /\ runs[j] = 0
    BY <1>1 DEF Running, RunsOnce
  <1>4. \A u \in Threads : /\ pc'[u] = "x_release" <=> pc[u] = "x_release"
                           /\ pc[u] = "x_release" => pos'[u] = pos[u]
    BY <1>1, <1>2
  <1>5. \A c : Holds(c)' <=> Holds(c) BY <1>1, <1>4, HoldsSame
  <1>6. pc'[t] \notin Offering /\ pc'[t] \notin Running /\ pc'[t] # "s_publish"
    BY <1>1 DEF Offering, Running
  <1>7. \A u \in Threads \ {t} : pc[u] \in Offering \cup Running => task[u].job # j
    BY <1>1, <1>3 DEF Running
  <1>8. \A c \in CellIds : Holds(c) => data[c].job # j BY <1>1 DEF Running
  <1>9. status'[j] = "done" /\ \A k \in Jobs \ {j} : status'[k] = status[k] BY <1>1, <1>3
  <1>10. ASSUME NEW u \in Threads PROVE ThreadHasJob(u)'
    <2>1. CASE u = t BY <2>1, <1>6
    <2>2. CASE u # t
      <3>1. pc[u] \in Offering \cup Running => status'[task[u].job] = status[task[u].job]
        BY <2>2, <1>7, <1>9
      <3>2. QED BY <2>2, <1>1, <1>2, <3>1
    <2>3. QED BY <2>1, <2>2
  <1>11. \A c \in CellIds : CellHasJob(c)' BY <1>1, <1>5, <1>8, <1>9
  <1>12. OnePlace'
    <2>1. ASSUME NEW u \in Threads, NEW v \in Threads, u # v,
                 \/ pc'[u] \in Offering /\ pc'[v] \in Offering
                 \/ pc'[u] \in Running /\ pc'[v] \in Running
          PROVE  task'[u].job # task'[v].job
      <3>1. u # t /\ v # t BY <2>1, <1>6
      <3>2. pc'[u] = pc[u] /\ pc'[v] = pc[v] BY <3>1, <1>2
      <3>3. task'[u] = task[u] /\ task'[v] = task[v] BY <3>1, <1>2
      <3>4. QED BY <2>1, <3>2, <3>3
    <2>2. ASSUME NEW c \in CellIds, NEW d \in CellIds, c # d, Holds(c)', Holds(d)'
          PROVE  data'[c].job # data'[d].job
      BY <2>2, <1>1, <1>5
    <2>3. ASSUME NEW u \in Threads, NEW c \in CellIds, pc'[u] \in Running, Holds(c)'
          PROVE  task'[u].job # data'[c].job
      <3>1. u # t BY <2>3, <1>6
      <3>2. pc[u] \in Running /\ task'[u] = task[u] BY <2>3, <3>1, <1>2
      <3>3. Holds(c) /\ data'[c] = data[c] BY <2>3, <1>1, <1>5
      <3>4. QED BY <3>2, <3>3
    <2>4. QED BY ONLY <2>1, <2>2, <2>3 DEF OnePlace
  <1>13. RunsOnce' BY <1>1, <1>3, <1>9 DEF RunsOnce
  <1>14. QED BY <1>10, <1>11, <1>12, <1>13

-----------------------------------------------------------------------------
(* Every step keeps JobInv, as long as the ring's invariant holds.         *)
LEMMA JobStep == TypeOK /\ RingInv /\ JobInv /\ [Next]_vars => JobInv'
  <1> SUFFICES ASSUME TypeOK, RingInv, JobInv, [Next]_vars PROVE JobInv' OBVIOUS
  <1>f. RingFacts /\ TaskFacts BY FactsHold, TaskFactsHold
  <1>d. NoDataRace BY RingInvGivesNoDataRace
  <1>w. Workers \subseteq Threads /\ Clients \subseteq Threads /\ Owner \in Threads
    BY DEF Threads
  <1>u. SUFFICES ASSUME ~JobsUntouched PROVE JobInv' BY JobFrame
  <1> HIDE DEF JobInv
  <1> USE DEF JobsUntouched, Offering, Running
  <1>e. ASSUME NEW t \in Threads, ExecuteStep(t) PROVE JobInv'
    <2> USE <1>f DEF RingFacts, TaskFacts
    <2>1. ~ExecuteLoad(t) BY <1>u DEF ExecuteLoad
    <2>2. ~ExecuteCheck(t)
      <3>1. ASSUME ExecuteCheck(t), ReturnExecuteOne(t, FALSE) PROVE FALSE
        BY <1>u, <3>1, EmptyHanded DEF ExecuteCheck, ReturnExecuteOne, Forget
      <3>2. QED BY <1>u, <3>1 DEF ExecuteCheck
    <2>3. ~ExecuteClaim(t) BY <1>u DEF ExecuteClaim
    <2>4. ~ExecuteCount(t)
      BY <1>u, EmptyHanded DEF ExecuteCount, ReturnExecuteOne, Forget
    <2>5. QED
      BY <1>e, <1>d, <2>1, <2>2, <2>3, <2>4, JobExecuteRead, JobExecuteRelease, JobExecuteRun
      DEF ExecuteStep
  <1>s. ASSUME NEW t \in Threads, SubmitStep(t) PROVE JobInv'
    <2> USE <1>f DEF RingFacts, TaskFacts
    <2>1. CASE BeginSubmit(t)
      <3>1. UNCHANGED <<sequence, data, runs>> /\ pc[t] \in Offering BY <2>1 DEF BeginSubmit
      <3>2. CASE Refuse(t) BY <3>1, <3>2, JobRefuse
      <3>3. CASE ~Refuse(t) BY <1>u, <2>1, <3>3 DEF BeginSubmit
      <3>4. QED BY <3>2, <3>3
    <2>2. ~SubmitLoad(t) BY <1>u DEF SubmitLoad
    <2>3. ~SubmitCheck(t) BY <1>u DEF SubmitCheck, CellState
    <2>4. ~SubmitClaim(t) BY <1>u DEF SubmitClaim
    <2>5. ~SubmitPost(t) BY <1>u DEF SubmitPost
    <2>6. CASE EndSubmit(t)
      <3>1. UNCHANGED <<sequence, data, runs>> BY <2>6 DEF EndSubmit
      <3>2. CASE pc[t] = "s_full" BY <2>6, <3>1, <3>2, JobRefuse DEF EndSubmit
      <3>3. CASE pc[t] = "s_end"
        BY <1>u, <2>6, <3>3, EmptyHanded DEF EndSubmit, Forget
      <3>4. QED BY <2>6, <3>2, <3>3 DEF EndSubmit
    <2>7. ~GroupUncount(t) BY <1>u, EmptyHanded DEF GroupUncount, Forget
    <2>8. QED
      BY <1>s, <1>d, <2>1, <2>2, <2>3, <2>4, <2>5, <2>6, <2>7, JobSubmitWrite,
         JobSubmitPublish
      DEF SubmitStep
  <1>l. ASSUME NEW t \in Threads PROVE ~CloseStep(t)
    BY <1>u, <1>f DEF CloseStep, CloseSet, CloseSpin, ClosePost, CloseReturns, RingFacts
  <1>1. ASSUME NEW w \in Workers, WorkerStep(w) PROVE JobInv'
    <2>1. ~(WorkerWake(w) \/ WorkerIsClosed(w) \/ WorkerNoSubmitters(w) \/ WorkerBaton(w))
      BY <1>u, <1>f, <1>w
      DEF WorkerWake, WorkerIsClosed, WorkerNoSubmitters, WorkerBaton, RingFacts
    <2>2. QED BY <1>1, <1>e, <1>w, <2>1 DEF WorkerStep
  <1>2. ASSUME NEW t \in Clients, ClientStep(t) PROVE JobInv'
    <2>1. ~GroupWaitCheck(t) BY <1>u, <1>f, <1>w DEF GroupWaitCheck, RingFacts
    <2>2. QED BY <1>2, <1>e, <1>s, <1>l, <1>w, <2>1 DEF ClientStep
  <1>3. ASSUME NEW t \in Clients, ClientCall(t) PROVE JobInv'
    <2>1. ~(CallExecuteOne(t) \/ CallClose(t) \/ Leave(t))
      BY <1>u, <1>f, <1>w DEF CallExecuteOne, CallClose, Leave, RingFacts
    <2>2. \A g \in Groups : ~CallGroupWait(t, g)
      BY <1>u, <1>f, <1>w DEF CallGroupWait, RingFacts
    <2>3. QED BY <1>3, <1>f, <1>w, <2>1, <2>2, JobCallSubmit DEF ClientCall
  <1>4. ~OwnerStep
    BY <1>u, <1>f, <1>w, <1>l
    DEF OwnerStep, InitAcquire, CreateWorker, CreateWorkerFails, JoinAndFree, RingFacts
  <1>5. ~CallDestroy BY <1>u, <1>f, <1>w DEF CallDestroy, RingFacts
  <1>6. ~UNCHANGED vars BY <1>u
  <1>7. QED BY <1>1, <1>2, <1>3, <1>4, <1>5, <1>6 DEF Next, Over

(* Each job is in exactly one place until it has run: the ring never hands *)
(* one out twice and never one that was not published. *)
THEOREM JobsCorrect == Spec /\ []NoLap => []JobInv
  <1>1. Init => JobInv BY JobInit
  <1>2. TypeOK /\ RingInv /\ JobInv /\ [Next]_vars => JobInv' BY JobStep
  <1>3. QED BY <1>1, <1>2, TypeCorrect, RingCorrect, PTL DEF Spec

(* An accepted job's routine runs at most once, and a refused one's never. *)
THEOREM JobRunsOnce == Spec /\ []NoLap => []RunsOnce
  <1>1. JobInv => RunsOnce BY DEF JobInv
  <1>2. QED BY <1>1, JobsCorrect, PTL

-----------------------------------------------------------------------------
(* The ends: of the groups, and of the system.                             *)
HIDE DEF ThreadHasJob, CellHasJob, OnePlace, JobInv

-----------------------------------------------------------------------------
(* Who may be at work while the owner is where.                            *)

LEMMA LifeInit == Init => LifeInv
  BY ThreadAssumption DEF Init, LifeInv, Threads

(* A step of one thread moves that thread's label only. *)
LEMMA ExecuteMoves ==
  ASSUME RingFacts, NEW t \in Threads, ExecuteStep(t)
  PROVE  /\ pc[t] \in {"x_load", "x_check", "x_claim", "x_read", "x_release", "x_run", "x_count"}
         /\ \A u \in Threads \ {t} : pc'[u] = pc[u]
         /\ held' = held
  <1> USE DEF RingFacts
  <1>1. CASE ExecuteLoad(t) BY <1>1 DEF ExecuteLoad
  <1>2. CASE ExecuteCheck(t) BY <1>2 DEF ExecuteCheck, ReturnExecuteOne
  <1>3. CASE ExecuteClaim(t) BY <1>3 DEF ExecuteClaim
  <1>4. CASE ExecuteRead(t) BY <1>4 DEF ExecuteRead
  <1>5. CASE ExecuteRelease(t) BY <1>5 DEF ExecuteRelease
  <1>6. CASE ExecuteRun(t) BY <1>6 DEF ExecuteRun, ReturnExecuteOne
  <1>7. CASE ExecuteCount(t) BY <1>7 DEF ExecuteCount, ReturnExecuteOne
  <1>8. QED BY <1>1, <1>2, <1>3, <1>4, <1>5, <1>6, <1>7 DEF ExecuteStep

LEMMA SubmitMoves ==
  ASSUME RingFacts, NEW t \in Threads, SubmitStep(t)
  PROVE  /\ pc[t] \notin {"idle", "gone"}
         /\ \A u \in Threads \ {t} : pc'[u] = pc[u]
  BY DEF RingFacts, SubmitStep, BeginSubmit, SubmitLoad, SubmitCheck, SubmitClaim,
         SubmitWrite, SubmitPublish, SubmitPost, EndSubmit, GroupUncount, Refuse

LEMMA CloseMoves ==
  ASSUME RingFacts, NEW t \in Threads, CloseStep(t)
  PROVE  /\ pc[t] \in {"c_or", "c_spin", "c_post"}
         /\ pc'[t] \in {"c_spin", "c_post", CloseReturns(t)}
         /\ \A u \in Threads \ {t} : pc'[u] = pc[u]
         /\ held' = held
  BY DEF RingFacts, CloseStep, CloseSet, CloseSpin, ClosePost

LEMMA LifeStep == TypeOK /\ LifeInv /\ [Next]_vars => LifeInv'
  <1> SUFFICES ASSUME TypeOK, LifeInv, [Next]_vars PROVE LifeInv' OBVIOUS
  <1>f. RingFacts BY FactsHold
  <1>w. /\ Workers \subseteq Threads /\ Clients \subseteq Threads /\ Owner \in Threads
        /\ Owner \notin Workers /\ Owner \notin Clients /\ Workers \cap Clients = {}
    BY ThreadAssumption DEF Threads
  <1>1. ASSUME NEW w \in Workers, WorkerStep(w) PROVE LifeInv'
    <2>1. /\ pc[w] \notin {"unborn", "exited"}
          /\ \A u \in Threads \ {w} : pc'[u] = pc[u]
          /\ held' = held
      BY <1>1, <1>f, <1>w, ExecuteMoves
      DEF WorkerStep, WorkerWake, WorkerIsClosed, WorkerNoSubmitters, WorkerBaton, RingFacts
    <2>2. pc'[Owner] = pc[Owner] /\ pc[Owner] \notin {"init", "failed", "destroyed"}
      BY <1>w, <2>1 DEF LifeInv
    <2>3. \A t \in Clients : pc'[t] = pc[t] BY <1>w, <2>1
    <2>4. QED BY <2>2, <2>3 DEF LifeInv
  <1>2. ASSUME NEW t \in Clients, ClientStep(t) PROVE LifeInv'
    <2>1. pc[t] \notin {"idle", "gone"} /\ \A u \in Threads \ {t} : pc'[u] = pc[u]
      BY <1>2, <1>f, <1>w, ExecuteMoves, SubmitMoves, CloseMoves
      DEF ClientStep, GroupWaitCheck, RingFacts
    <2>2. pc[Owner] = "ready" BY <2>1 DEF LifeInv
    <2>3. pc'[Owner] = "ready" BY <1>w, <2>1, <2>2
    <2>4. QED BY <2>3 DEF LifeInv
  <1>3. ASSUME NEW t \in Clients, ClientCall(t) PROVE LifeInv'
    <2>1. CASE Leave(t)
      BY <2>1, <1>f, <1>w DEF Leave, LifeInv, RingFacts
    <2>2. CASE ~Leave(t)
      <3>1. pc[Owner] = "ready" /\ \A u \in Threads \ {t} : pc'[u] = pc[u]
        BY <1>3, <2>2, <1>f, <1>w
        DEF ClientCall, CallSubmit, CallExecuteOne, CallGroupWait, CallClose, RingFacts
      <3>2. pc'[Owner] = "ready" BY <1>w, <3>1
      <3>3. QED BY <3>2 DEF LifeInv
    <2>3. QED BY <2>1, <2>2
  <1>4. CASE OwnerStep
    <2>1. CASE InitAcquire
      <3>1. pc[Owner] = "init" /\ \A u \in Threads \ {Owner} : pc'[u] = pc[u]
        BY <2>1, <1>f, <1>w DEF InitAcquire, RingFacts
      <3>2. pc'[Owner] = "failed" => held' = {}
        BY <2>1, <1>f, <1>w DEF InitAcquire, FreedOnFailure, RingFacts
      <3>3. pc'[Owner] \in {"init", "create", "failed"}
        BY <2>1, <1>f, <1>w DEF InitAcquire, RingFacts
      <3>4. QED BY <1>w, <3>1, <3>2, <3>3 DEF LifeInv
    <2>2. ASSUME NEW w \in Workers, CreateWorker(w) PROVE LifeInv'
      <3>1. pc[Owner] = "create" /\ pc'[Owner] \in {"create", "ready"}
        BY <2>2, <1>f, <1>w DEF CreateWorker, RingFacts
      <3>2. \A t \in Clients : pc'[t] = pc[t]
        BY <2>2, <1>f, <1>w DEF CreateWorker, RingFacts
      <3>3. QED BY <3>1, <3>2 DEF LifeInv
    <2>3. CASE CreateWorkerFails
      BY <2>3, <1>f, <1>w DEF CreateWorkerFails, RingFacts, LifeInv
    <2>4. CASE CloseStep(Owner)
      <3>1. /\ pc[Owner] \in {"c_or", "c_spin", "c_post"}
            /\ pc'[Owner] \in {"c_spin", "c_post", "join"}
            /\ \A u \in Threads \ {Owner} : pc'[u] = pc[u]
        BY <2>4, <1>f, <1>w, CloseMoves DEF CloseReturns
      <3>2. QED BY <1>w, <3>1 DEF LifeInv
    <2>5. CASE JoinAndFree
      BY <2>5, <1>f, <1>w DEF JoinAndFree, RingFacts, LifeInv
    <2>6. QED BY <1>4, <2>1, <2>2, <2>3, <2>4, <2>5 DEF OwnerStep
  <1>5. CASE CallDestroy
    BY <1>5, <1>f, <1>w DEF CallDestroy, RingFacts, LifeInv
  <1>6. CASE UNCHANGED vars BY <1>6 DEF LifeInv
  <1>7. QED BY <1>1, <1>2, <1>3, <1>4, <1>5, <1>6 DEF Next, Over

(* Freed means unused: when proven_job_system_init has failed or           *)
(* proven_job_system_destroy has returned, everything acquired is released *)
(* and no other thread is inside any call of the system. *)
THEOREM FreedWhenUnused == Spec => []NoUseAfterFree
  <1>1. Init => LifeInv BY LifeInit
  <1>2. TypeOK /\ LifeInv /\ [Next]_vars => LifeInv' BY LifeStep
  <1>3. LifeInv => NoUseAfterFree
    BY ThreadAssumption DEF LifeInv, NoUseAfterFree, Threads
  <1>4. QED BY <1>1, <1>2, <1>3, TypeCorrect, PTL DEF Spec

-----------------------------------------------------------------------------
(* Counting threads and cells.                                             *)

In(x, S) == IF x \in S THEN 1 ELSE 0

LEMMA CellsFinite ==
  ASSUME NEW S \in SUBSET CellIds
  PROVE  IsFiniteSet(S) /\ Cardinality(S) \in Nat
  <1>1. IsFiniteSet(CellIds) BY FS_Interval, SizeAssumption DEF CellIds
  <1>2. QED BY <1>1, FS_Subset, FS_CardinalityType

(* A set that changes in one element at most. *)
LEMMA CardinalityOfOneChange ==
  ASSUME NEW S, NEW T, NEW x, IsFiniteSet(S), S \ {x} = T \ {x}
  PROVE  /\ IsFiniteSet(T)
         /\ Cardinality(T) = Cardinality(S) + In(x, T) - In(x, S)
  <1> DEFINE R == S \ {x}
  <1>1. IsFiniteSet(R) /\ Cardinality(R) = Cardinality(S) - In(x, S)
    BY FS_RemoveElement, FS_CardinalityType DEF In
  <1>2. T = IF x \in T THEN R \cup {x} ELSE R OBVIOUS
  <1>3. IsFiniteSet(R \cup {x}) /\ Cardinality(R \cup {x}) = Cardinality(R) + 1
    BY <1>1, FS_AddElement
  <1>4. Cardinality(S) \in Nat /\ Cardinality(R) \in Nat BY <1>1, FS_CardinalityType
  <1> HIDE DEF R
  <1>5. CASE x \in T
    <2>1. T = R \cup {x} BY <1>2, <1>5
    <2>2. Cardinality(T) = Cardinality(R) + 1 /\ IsFiniteSet(T) BY <1>3, <2>1
    <2>3. In(x, T) = 1 /\ In(x, S) \in Int BY <1>5 DEF In
    <2>4. QED BY <1>1, <1>4, <2>2, <2>3
  <1>6. CASE x \notin T BY <1>1, <1>2, <1>4, <1>6 DEF In
  <1>7. QED BY <1>5, <1>6

(* A step of thread t that may change what is in cell c. *)
OthersSame(t, c) ==
    /\ \A u \in Threads \ {t} : pc'[u] = pc[u] /\ task'[u] = task[u]
    /\ \A d \in CellIds \ {c} : (Holds(d)' <=> Holds(d)) /\ data'[d] = data[d]

LEMMA CountOneChange ==
  ASSUME TaskFacts, CountInv, NEW t \in Threads, NEW c \in CellIds, OthersSame(t, c),
         \A g \in Groups : pending'[g] = pending[g]
                              + In(t, ThreadsFor(g)') - In(t, ThreadsFor(g))
                              + In(c, CellsFor(g)') - In(c, CellsFor(g))
  PROVE  CountInv'
  <1> SUFFICES ASSUME NEW g \in Groups
               PROVE  /\ IsFiniteSet(ThreadsFor(g)')
                      /\ pending'[g] = Cardinality(ThreadsFor(g)') + Cardinality(CellsFor(g)')
    BY DEF CountInv
  <1> DEFINE A == ThreadsFor(g)
             B == ThreadsFor(g)'
             C == CellsFor(g)
             D == CellsFor(g)'
  <1>1. IsFiniteSet(A) /\ pending[g] = Cardinality(A) + Cardinality(C) BY DEF CountInv
  <1>2. A \ {t} = B \ {t} BY DEF OthersSame, ThreadsFor
  <1>3. C \ {c} = D \ {c} BY DEF OthersSame, CellsFor
  <1>4. IsFiniteSet(C) /\ Cardinality(C) \in Nat
    <2>1. C \in SUBSET CellIds BY DEF CellsFor
    <2>2. QED BY <2>1, CellsFinite
  <1>5. pending'[g] = pending[g] + In(t, B) - In(t, A) + In(c, D) - In(c, C) OBVIOUS
  <1> HIDE DEF A, B, C, D
  <1>6. IsFiniteSet(B) /\ Cardinality(B) = Cardinality(A) + In(t, B) - In(t, A)
    BY <1>1, <1>2, CardinalityOfOneChange
  <1>7. Cardinality(D) = Cardinality(C) + In(c, D) - In(c, C)
    BY <1>3, <1>4, CardinalityOfOneChange
  <1>8. Cardinality(A) \in Nat BY <1>1, FS_CardinalityType
  <1>9. \A x, S : In(x, S) \in Int BY DEF In
  <1>10. Cardinality(B) + Cardinality(D) = pending'[g]
    BY <1>1, <1>4, <1>5, <1>6, <1>7, <1>8, <1>9
  <1>11. QED BY <1>6, <1>10 DEF B, D

-----------------------------------------------------------------------------
(* Each group's count.                                                     *)

LEMMA CountInit == Init => CountInv
  <1> SUFFICES ASSUME Init, NEW g \in Groups
               PROVE  /\ IsFiniteSet(ThreadsFor(g))
                      /\ pending[g] = Cardinality(ThreadsFor(g)) + Cardinality(CellsFor(g))
    BY DEF CountInv
  <1>1. ThreadsFor(g) = {} BY DEF Init, ThreadsFor, Counting, Offering, Running
  <1>2. CellsFor(g) = {}
    <2>1. g # NoGroup BY ThreadAssumption
    <2>2. QED BY <2>1 DEF Init, CellsFor, NoTask
  <1>3. pending[g] = 0 BY DEF Init
  <1>4. QED BY <1>1, <1>2, <1>3, FS_EmptySet

(* Most steps change no count. *)
CountsUntouched ==
    /\ pending' = pending
    /\ \A c \in CellIds, g \in Groups : (c \in CellsFor(g))' <=> c \in CellsFor(g)
    /\ \A t \in Threads, g \in Groups : (t \in ThreadsFor(g))' <=> t \in ThreadsFor(g)

LEMMA CountFrame == CountInv /\ CountsUntouched => CountInv'
  <1> SUFFICES ASSUME CountInv, CountsUntouched, NEW g \in Groups
               PROVE  /\ IsFiniteSet(ThreadsFor(g)')
                      /\ pending'[g] = Cardinality(ThreadsFor(g)') + Cardinality(CellsFor(g)')
    BY DEF CountInv
  <1>1. ThreadsFor(g)' = ThreadsFor(g) BY DEF CountsUntouched, ThreadsFor
  <1>2. CellsFor(g)' = CellsFor(g) BY DEF CountsUntouched, CellsFor
  <1>3. QED BY <1>1, <1>2 DEF CountInv, CountsUntouched

-----------------------------------------------------------------------------
(* One lemma per step that moves a count.                                  *)

USE DEF CountsUntouched

LEMMA CountCallSubmit ==
  ASSUME RingFacts, TaskFacts, CountInv, NEW t \in Threads, NEW j \in Jobs,
         NEW k \in Groups \cup {NoGroup}, CallSubmit(t, j, k)
  PROVE  CountInv'
  <1> USE DEF RingFacts, TaskFacts
  <1>1. /\ pc[t] = "idle" /\ pc' = [pc EXCEPT ![t] = "s_begin"]
        /\ task' = [task EXCEPT ![t] = [job |-> j, group |-> k]]
        /\ UNCHANGED <<sequence, data, pos>>
    BY DEF CallSubmit
  <1>2. \A d : Holds(d)' <=> Holds(d) BY <1>1, HoldsSame
  <1> PICK c \in CellIds : TRUE OBVIOUS
  <1>3. OthersSame(t, c) BY <1>1, <1>2 DEF OthersSame
  <1>4. ASSUME NEW g \in Groups
        PROVE  pending'[g] = pending[g] + In(t, ThreadsFor(g)') - In(t, ThreadsFor(g))
                                 + In(c, CellsFor(g)') - In(c, CellsFor(g))
    <2>1. t \notin ThreadsFor(g) BY <1>1 DEF ThreadsFor, Counting, Offering, Running
    <2>2. t \in ThreadsFor(g)' <=> g = k
      BY <1>1 DEF ThreadsFor, Counting, Offering
    <2>3. c \in CellsFor(g)' <=> c \in CellsFor(g) BY <1>1, <1>2 DEF CellsFor
    <2>4. pending'[g] = pending[g] + (IF g = k THEN 1 ELSE 0)
      BY ThreadAssumption DEF CallSubmit
    <2>5. QED BY <2>1, <2>2, <2>3, <2>4 DEF In
  <1>5. QED BY <1>3, <1>4, CountOneChange

(* GroupUncount and ExecuteCount: the thread takes its own count back. *)
LEMMA CountTakenBack ==
  ASSUME RingFacts, TaskFacts, CountInv, NEW t \in Threads,
         pc[t] \in {"s_uncount", "x_count"},
         pc'[t] \notin Counting, pc' = [pc EXCEPT ![t] = pc'[t]],
         pending' = [pending EXCEPT ![task[t].group] = @ - 1],
         Forget(t), UNCHANGED <<sequence, data>>
  PROVE  CountInv'
  <1> USE DEF RingFacts, TaskFacts
  <1>1. /\ \A u \in Threads \ {t} : pc'[u] = pc[u] /\ task'[u] = task[u] /\ pos'[u] = pos[u]
        /\ pc'[t] # "x_release"
    BY DEF Forget, Counting, Running
  <1>2. \A d : Holds(d)' <=> Holds(d) BY <1>1, HoldsSame
  <1> PICK c \in CellIds : TRUE OBVIOUS
  <1>3. OthersSame(t, c) BY <1>1, <1>2 DEF OthersSame
  <1>4. ASSUME NEW g \in Groups
        PROVE  pending'[g] = pending[g] + In(t, ThreadsFor(g)') - In(t, ThreadsFor(g))
                                 + In(c, CellsFor(g)') - In(c, CellsFor(g))
    <2>1. t \in ThreadsFor(g) <=> g = task[t].group BY DEF ThreadsFor, Counting
    <2>2. t \notin ThreadsFor(g)' BY DEF ThreadsFor
    <2>3. c \in CellsFor(g)' <=> c \in CellsFor(g) BY <1>2 DEF CellsFor
    <2>4. pending'[g] = pending[g] - (IF g = task[t].group THEN 1 ELSE 0) OBVIOUS
    <2>5. QED BY <2>1, <2>2, <2>3, <2>4 DEF In
  <1>5. QED BY <1>3, <1>4, CountOneChange

(* A cell that is being filled counts for nobody yet. *)
LEMMA CountSubmitWrite ==
  ASSUME RingFacts, TaskFacts, RingInv, NoDataRace, CountInv,
         NEW t \in Threads, SubmitWrite(t)
  PROVE  CountInv'
  <1> USE DEF RingFacts, TaskFacts
  <1> PICK c \in CellIds : c = Cell(pos[t]) OBVIOUS
  <1>1. /\ pc[t] = "s_write" /\ pc' = [pc EXCEPT ![t] = "s_publish"]
        /\ data' = [data EXCEPT ![c] = task[t]]
        /\ UNCHANGED <<sequence, pos, task, pending>>
    BY DEF SubmitWrite
  <1>2. ~Holds(c) BY <1>1, InsideHolds DEF Filling
  <1>3. \A u \in Threads : pc'[u] = "x_release" <=> pc[u] = "x_release" BY <1>1
  <1>4. \A d : Holds(d)' <=> Holds(d) BY <1>1, <1>3, HoldsSame
  <1>5. \A u \in Threads : pc'[u] \in Counting <=> pc[u] \in Counting
    BY <1>1 DEF Counting, Offering
  <1>6. CountsUntouched
    <2>1. \A d \in CellIds, g \in Groups : (d \in CellsFor(g))' <=> d \in CellsFor(g)
      BY <1>1, <1>2, <1>4 DEF CellsFor
    <2>2. \A u \in Threads, g \in Groups : (u \in ThreadsFor(g))' <=> u \in ThreadsFor(g)
      BY <1>1, <1>5 DEF ThreadsFor
    <2>3. QED BY <1>1, <2>1, <2>2
  <1> HIDE DEF CountsUntouched
  <1>7. QED BY <1>6, CountFrame

(* The count goes from the submitter to the cell, *)
LEMMA CountSubmitPublish ==
  ASSUME RingFacts, TaskFacts, NoDataRace, JobInv, CountInv, RingInv,
         NEW t \in Threads, SubmitPublish(t)
  PROVE  CountInv'
  <1> USE DEF RingFacts, TaskFacts
  <1> PICK c \in CellIds : c = Cell(pos[t]) OBVIOUS
  <1>1. /\ pc[t] = "s_publish" /\ pc' = [pc EXCEPT ![t] = "s_post"]
        /\ UNCHANGED <<data, pos, task, pending>>
    BY DEF SubmitPublish
  <1>2. data[c] = task[t] BY <1>1 DEF JobInv, ThreadHasJob
  <1>3. Holds(c)' /\ \A d \in CellIds \ {c} : Holds(d)' <=> Holds(d) BY HoldsPublish
  <1>4. ~Holds(c) BY <1>1, InsideHolds DEF Filling
  <1>5. OthersSame(t, c) BY <1>1, <1>3 DEF OthersSame
  <1>6. ASSUME NEW g \in Groups
        PROVE  pending'[g] = pending[g] + In(t, ThreadsFor(g)') - In(t, ThreadsFor(g))
                                 + In(c, CellsFor(g)') - In(c, CellsFor(g))
    <2>1. t \in ThreadsFor(g) <=> g = task[t].group
      BY <1>1 DEF ThreadsFor, Counting, Offering
    <2>2. t \notin ThreadsFor(g)' BY <1>1 DEF ThreadsFor, Counting, Offering, Running
    <2>3. c \in CellsFor(g)' <=> g = task[t].group BY <1>1, <1>2, <1>3 DEF CellsFor
    <2>4. c \notin CellsFor(g) BY <1>4 DEF CellsFor
    <2>5. QED BY <1>1, <2>1, <2>2, <2>3, <2>4 DEF In
  <1>7. QED BY <1>5, <1>6, CountOneChange

(* and from the cell to the thread that takes the job out. *)
LEMMA CountExecuteRead ==
  ASSUME RingFacts, TaskFacts, RingInv, NoDataRace, CountInv,
         NEW t \in Threads, ExecuteRead(t)
  PROVE  CountInv'
  <1> USE DEF RingFacts, TaskFacts
  <1> PICK c \in CellIds : c = Cell(pos[t]) OBVIOUS
  <1>1. /\ pc[t] = "x_read" /\ pc' = [pc EXCEPT ![t] = "x_release"]
        /\ task' = [task EXCEPT ![t] = data[c]]
        /\ UNCHANGED <<data, pending>>
    BY DEF ExecuteRead
  <1>2. Holds(c) BY <1>1, InsideHolds
  <1>3. ~Holds(c)' /\ \A d \in CellIds \ {c} : Holds(d)' <=> Holds(d) BY HoldsRead
  <1>4. OthersSame(t, c) BY <1>1, <1>3 DEF OthersSame
  <1>5. ASSUME NEW g \in Groups
        PROVE  pending'[g] = pending[g] + In(t, ThreadsFor(g)') - In(t, ThreadsFor(g))
                                 + In(c, CellsFor(g)') - In(c, CellsFor(g))
    <2>1. t \notin ThreadsFor(g) BY <1>1 DEF ThreadsFor, Counting, Offering, Running
    <2>2. t \in ThreadsFor(g)' <=> g = data[c].group
      BY <1>1 DEF ThreadsFor, Counting, Running
    <2>3. c \in CellsFor(g) <=> g = data[c].group BY <1>2 DEF CellsFor
    <2>4. c \notin CellsFor(g)' BY <1>3 DEF CellsFor
    <2>5. QED BY <1>1, <2>1, <2>2, <2>3, <2>4 DEF In
  <1>6. QED BY <1>4, <1>5, CountOneChange

LEMMA CountExecuteRelease ==
  ASSUME RingFacts, CountInv, NEW t \in Threads, ExecuteRelease(t)
  PROVE  CountInv'
  <1> USE DEF RingFacts
  <1>1. /\ pc[t] = "x_release" /\ pc' = [pc EXCEPT ![t] = "x_run"]
        /\ UNCHANGED <<data, task, pending>>
    BY DEF ExecuteRelease
  <1>2. \A d \in CellIds : Holds(d)' <=> Holds(d) BY HoldsRelease
  <1>3. \A u \in Threads : pc'[u] \in Counting <=> pc[u] \in Counting
    BY <1>1 DEF Counting, Running
  <1>4. CountsUntouched BY <1>1, <1>2, <1>3 DEF CellsFor, ThreadsFor
  <1> HIDE DEF CountsUntouched
  <1>5. QED BY <1>4, CountFrame

-----------------------------------------------------------------------------
(* A step of one thread that keeps its hold on its group, or the lack of   *)
(* one, changes no count. *)
LEMMA CountsKept ==
  ASSUME NEW t \in Threads, UNCHANGED <<sequence, data, pending>>,
         \A u \in Threads \ {t} : pc'[u] = pc[u] /\ task'[u] = task[u] /\ pos'[u] = pos[u],
         pc'[t] = "x_release" <=> pc[t] = "x_release",
         pc[t] = "x_release" => pos'[t] = pos[t],
         \/ pc[t] \in Counting /\ pc'[t] \in Counting /\ task'[t] = task[t]
         \/ pc'[t] \notin Counting /\ (pc[t] \in Counting => task[t].group = NoGroup)
  PROVE  CountsUntouched
  <1>1. \A u \in Threads : /\ pc'[u] = "x_release" <=> pc[u] = "x_release"
                           /\ pc[u] = "x_release" => pos'[u] = pos[u]
    OBVIOUS
  <1>2. \A d : Holds(d)' <=> Holds(d) BY <1>1, HoldsSame
  <1>3. \A u \in Threads, g \in Groups : (u \in ThreadsFor(g))' <=> u \in ThreadsFor(g)
    BY ThreadAssumption DEF ThreadsFor
  <1>4. QED BY <1>2, <1>3 DEF CellsFor

LEMMA CountExecuteStep ==
  ASSUME RingFacts, TaskFacts, RingInv, NoDataRace, CountInv,
         NEW t \in Threads, ExecuteStep(t)
  PROVE  CountInv'
  <1> USE DEF RingFacts, TaskFacts, Counting, Offering, Running
  <1> SUFFICES ASSUME ~CountsUntouched PROVE CountInv' BY CountFrame
  <1> HIDE DEF CountsUntouched
  <1>1. ~ExecuteLoad(t) BY CountsKept DEF ExecuteLoad
  <1>2. ~ExecuteCheck(t)
    <2> SUFFICES ASSUME ExecuteCheck(t) PROVE CountsUntouched OBVIOUS
    <2>1. /\ pc[t] = "x_check" /\ UNCHANGED <<sequence, data, pending>>
          /\ pc'[t] \in {"x_claim", "x_load", "w_closed", "w_park", "w_baton", "idle", "g_load"}
      BY DEF ExecuteCheck, ReturnExecuteOne
    <2>2. \A u \in Threads \ {t} : pc'[u] = pc[u] /\ task'[u] = task[u] /\ pos'[u] = pos[u]
      BY DEF ExecuteCheck, ReturnExecuteOne, Forget
    <2>3. QED BY <2>1, <2>2, CountsKept
  <1>3. ~ExecuteClaim(t) BY CountsKept DEF ExecuteClaim
  <1>4. ~ExecuteRun(t)
    <2> SUFFICES ASSUME ExecuteRun(t) PROVE CountsUntouched OBVIOUS
    <2> USE DEF ExecuteRun
    <2>1. CASE task[t].group = NoGroup BY SMTT(20), <2>1, CountsKept DEF ReturnExecuteOne, Forget
    <2>2. CASE task[t].group # NoGroup BY <2>2, CountsKept
    <2>3. QED BY <2>1, <2>2
  <1>5. CASE ExecuteCount(t)
    BY <1>5, CountTakenBack DEF ExecuteCount, ReturnExecuteOne
  <1>6. QED
    BY <1>1, <1>2, <1>3, <1>4, <1>5, CountExecuteRead, CountExecuteRelease DEF ExecuteStep

LEMMA CountSubmitStep ==
  ASSUME RingFacts, TaskFacts, RingInv, NoDataRace, JobInv, CountInv,
         NEW t \in Threads, SubmitStep(t)
  PROVE  CountInv'
  <1> USE DEF RingFacts, TaskFacts, Counting, Offering, Running
  <1> SUFFICES ASSUME ~CountsUntouched PROVE CountInv' BY CountFrame
  <1> HIDE DEF CountsUntouched
  <1>r. ASSUME pc[t] \in Offering, pc[t] # "x_release", Refuse(t),
               UNCHANGED <<sequence, data, pending>>
        PROVE  FALSE
    <2>1. CASE task[t].group = NoGroup BY <1>r, <2>1, CountsKept DEF Refuse, Forget
    <2>2. CASE task[t].group # NoGroup BY <1>r, <2>2, CountsKept DEF Refuse
    <2>3. QED BY <2>1, <2>2
  <1>1. ~BeginSubmit(t)
    <2> SUFFICES ASSUME BeginSubmit(t) PROVE FALSE OBVIOUS
    <2> USE DEF BeginSubmit
    <2>1. CASE Refuse(t) BY <1>r, <2>1
    <2>2. CASE ~Refuse(t) BY <2>2, CountsKept
    <2>3. QED BY <2>1, <2>2
  <1>2. ~SubmitLoad(t) BY CountsKept DEF SubmitLoad
  <1>3. ~SubmitCheck(t) BY CountsKept DEF SubmitCheck, CellState
  <1>4. ~SubmitClaim(t) BY CountsKept DEF SubmitClaim
  <1>5. ~SubmitPost(t) BY CountsKept DEF SubmitPost
  <1>6. ~EndSubmit(t)
    <2> SUFFICES ASSUME EndSubmit(t) PROVE FALSE OBVIOUS
    <2> USE DEF EndSubmit
    <2>1. CASE pc[t] = "s_full" BY <1>r, <2>1
    <2>2. CASE pc[t] = "s_end" BY <2>2, CountsKept DEF Forget
    <2>3. QED BY <2>1, <2>2
  <1>7. CASE GroupUncount(t) BY <1>7, CountTakenBack DEF GroupUncount
  <1>8. QED
    BY <1>1, <1>2, <1>3, <1>4, <1>5, <1>6, <1>7, CountSubmitWrite, CountSubmitPublish
    DEF SubmitStep

LEMMA CountStep == TypeOK /\ RingInv /\ JobInv /\ CountInv /\ [Next]_vars => CountInv'
  <1> SUFFICES ASSUME TypeOK, RingInv, JobInv, CountInv, [Next]_vars PROVE CountInv'
    OBVIOUS
  <1>f. RingFacts /\ TaskFacts BY FactsHold, TaskFactsHold
  <1>d. NoDataRace BY RingInvGivesNoDataRace
  <1>w. Workers \subseteq Threads /\ Clients \subseteq Threads /\ Owner \in Threads
    BY DEF Threads
  <1>u. SUFFICES ASSUME ~CountsUntouched PROVE CountInv' BY CountFrame
  <1> HIDE DEF CountsUntouched
  <1> USE DEF Counting, Offering, Running
  <1>l. ASSUME NEW t \in Threads PROVE ~CloseStep(t)
    <2>1. CASE CloseSet(t) BY <2>1, <1>u, <1>f, CountsKept DEF CloseSet, RingFacts
    <2>2. CASE CloseSpin(t)
      BY <2>2, <1>u, <1>f, CountsKept DEF CloseSpin, CloseReturns, RingFacts
    <2>3. CASE ClosePost(t)
      BY <2>3, <1>u, <1>f, CountsKept DEF ClosePost, CloseReturns, RingFacts
    <2>4. QED BY <2>1, <2>2, <2>3 DEF CloseStep
  <1>1. ASSUME NEW w \in Workers, WorkerStep(w) PROVE CountInv'
    <2> USE <1>f, <1>w DEF RingFacts
    <2>1. ~WorkerWake(w) BY <1>u, CountsKept DEF WorkerWake
    <2>2. ~WorkerIsClosed(w) BY <1>u, CountsKept DEF WorkerIsClosed
    <2>3. ~WorkerNoSubmitters(w) BY SMTT(20), <1>u, CountsKept DEF WorkerNoSubmitters
    <2>4. ~WorkerBaton(w) BY <1>u, CountsKept DEF WorkerBaton
    <2>5. QED BY <1>1, <1>d, <2>1, <2>2, <2>3, <2>4, CountExecuteStep DEF WorkerStep
  <1>2. ASSUME NEW t \in Clients, ClientStep(t) PROVE CountInv'
    <2>1. ~GroupWaitCheck(t)
      BY <1>u, <1>f, <1>w, CountsKept DEF GroupWaitCheck, RingFacts
    <2>2. QED
      BY <1>2, <1>f, <1>d, <1>l, <1>w, <2>1, CountExecuteStep, CountSubmitStep
      DEF ClientStep
  <1>3. ASSUME NEW t \in Clients, ClientCall(t) PROVE CountInv'
    <2> USE <1>f, <1>w DEF RingFacts
    <2>1. ~CallExecuteOne(t) BY <1>u, CountsKept DEF CallExecuteOne
    <2>2. ~CallClose(t) BY <1>u, CountsKept DEF CallClose
    <2>3. ~Leave(t) BY <1>u, CountsKept DEF Leave
    <2>4. \A g \in Groups : ~CallGroupWait(t, g) BY SMTT(20), <1>u, CountsKept DEF CallGroupWait
    <2>5. QED BY <1>3, <2>1, <2>2, <2>3, <2>4, CountCallSubmit DEF ClientCall
  <1>4. ~OwnerStep
    <2> USE <1>f, <1>w DEF RingFacts
    <2>1. ~InitAcquire BY <1>u, CountsKept DEF InitAcquire
    <2>2. ASSUME NEW w \in Workers PROVE ~CreateWorker(w)
      <3> SUFFICES ASSUME CreateWorker(w) PROVE CountsUntouched BY <1>u
      <3>1. \A u \in Threads : pc'[u] \in Counting <=> pc[u] \in Counting
        BY DEF CreateWorker
      <3>2. \A u \in Threads : pc'[u] = "x_release" <=> pc[u] = "x_release"
        BY DEF CreateWorker
      <3>3. \A d : Holds(d)' <=> Holds(d) BY <3>2, HoldsSame DEF CreateWorker
      <3> HIDE DEF Counting
      <3>4. QED BY <3>1, <3>3 DEF CreateWorker, CountsUntouched, CellsFor, ThreadsFor
    <2>3. ~CreateWorkerFails BY <1>u, CountsKept DEF CreateWorkerFails
    <2>4. ~JoinAndFree BY <1>u, CountsKept DEF JoinAndFree
    <2>5. QED BY <1>l, <2>1, <2>2, <2>3, <2>4 DEF OwnerStep
  <1>5. ~CallDestroy BY <1>u, <1>f, <1>w, CountsKept DEF CallDestroy, RingFacts
  <1>6. ~UNCHANGED vars
    BY <1>u DEF CountsUntouched, CellsFor, ThreadsFor, Holds
  <1>7. QED BY <1>1, <1>2, <1>3, <1>4, <1>5, <1>6 DEF Next, Over

(* A group's counter is the number of threads and cells that still have a  *)
(* job of it, refused submissions on their way out included. *)
THEOREM GroupsCorrect == Spec /\ []NoLap => []CountInv
  <1>1. Init => CountInv BY CountInit
  <1>2. TypeOK /\ RingInv /\ JobInv /\ CountInv /\ [Next]_vars => CountInv' BY CountStep
  <1>3. QED BY <1>1, <1>2, TypeCorrect, RingCorrect, JobsCorrect, PTL DEF Spec

LEMMA CountGivesGroupZero ==
  ASSUME TypeOK, RingInv, CountInv
  PROVE  GroupZeroMeansDone
  <1> SUFFICES ASSUME NEW g \in Groups, pending[g] = 0 PROVE ~Unfinished(g)
    BY DEF GroupZeroMeansDone
  <1>f. RingFacts BY FactsHold
  <1>1. IsFiniteSet(CellsFor(g)) /\ Cardinality(CellsFor(g)) \in Nat
    <2>1. CellsFor(g) \in SUBSET CellIds BY DEF CellsFor
    <2>2. QED BY <2>1, CellsFinite
  <1>2. /\ IsFiniteSet(ThreadsFor(g)) /\ Cardinality(ThreadsFor(g)) \in Nat
        /\ Cardinality(ThreadsFor(g)) + Cardinality(CellsFor(g)) = 0
    BY FS_CardinalityType DEF CountInv
  <1>3. Cardinality(ThreadsFor(g)) = 0 /\ Cardinality(CellsFor(g)) = 0 BY <1>1, <1>2
  <1>4. ThreadsFor(g) = {} /\ CellsFor(g) = {} BY <1>1, <1>2, <1>3, FS_EmptySet
  <1>5. ASSUME NEW c \in CellIds, NEW p \in dequeue_pos .. enqueue_pos - 1,
               Cell(p) = c, sequence[c] = p + 1, data[c].group = g
        PROVE  FALSE
    <2>1. p \in Nat /\ dequeue_pos <= p BY <1>f DEF RingFacts
    <2>2. ASSUME NEW u \in Threads, pc[u] = "x_release", Cell(pos[u]) = c PROVE FALSE
      <3>1. sequence[c] = pos[u] + 1 /\ pos[u] < dequeue_pos /\ pos[u] \in Nat
        BY <2>2, <1>f DEF RingInv, PositionInv, PositionOK, Emptying, RingFacts
      <3>2. QED BY <3>1, <1>5, <2>1, <1>f DEF RingFacts
    <2>3. (p + 1) - 1 = p /\ p + 1 > 0 BY <2>1
    <2>4. Holds(c) BY <1>5, <2>2, <2>3 DEF Holds
    <2>5. QED BY <1>4, <1>5, <2>4 DEF CellsFor
  <1>6. ASSUME NEW t \in Threads,
               pc[t] \in {"s_publish", "s_write", "x_run", "x_count", "x_release"},
               task[t].group = g
        PROVE  FALSE
    BY <1>4, <1>6 DEF ThreadsFor, Counting, Offering, Running
  <1>7. QED BY <1>5, <1>6 DEF Unfinished

(* proven_job_group_wait may return at zero: no job of the group is queued *)
(* or in a thread's hands, and no thread is about to touch its counter. *)
THEOREM GroupZeroIsDone == Spec /\ []NoLap => []GroupZeroMeansDone
  <1>1. TypeOK /\ RingInv /\ CountInv => GroupZeroMeansDone BY CountGivesGroupZero
  <1>2. QED BY <1>1, TypeCorrect, RingCorrect, GroupsCorrect, PTL

-----------------------------------------------------------------------------
(* Positions are won for jobs.                                             *)

(* Most steps claim nothing. *)
ClaimsUntouched ==
    /\ enqueue_pos' = enqueue_pos /\ status' = status
    /\ \A t \in Threads :
          /\ pc'[t] \in Filling <=> pc[t] \in Filling
          /\ pc[t] \in Filling => task'[t] = task[t]

PositionsGrow ==
    /\ dequeue_pos' >= StartPos
    /\ \A t \in Threads : pos'[t] >= StartPos

LEMMA ClaimInit == Init => ClaimInv
  <1> SUFFICES ASSUME Init PROVE ClaimInv OBVIOUS
  <1>1. Claimed = {} BY DEF Init, Claimed, Filling
  <1>2. QED BY <1>1, FS_EmptySet, SizeAssumption DEF Init, ClaimInv

LEMMA ClaimFrame ==
  ASSUME ClaimInv, PositionsGrow, enqueue_pos' = enqueue_pos, Claimed' = Claimed
  PROVE  ClaimInv'
  BY DEF ClaimInv, PositionsGrow

LEMMA ClaimedSame == ClaimsUntouched => Claimed' = Claimed
  BY DEF ClaimsUntouched, Claimed

(* Positions never fall below the first one. *)
LEMMA PositionsStep ==
  ASSUME TypeOK, ClaimInv, [Next]_vars
  PROVE  PositionsGrow
  <1>1. /\ enqueue_pos \in Nat /\ dequeue_pos \in Nat /\ pos \in [Threads -> Nat]
        /\ StartPos \in Nat
    BY SizeAssumption DEF TypeOK
  <1>2. enqueue_pos >= StartPos /\ dequeue_pos >= StartPos /\ \A t \in Threads : pos[t] >= StartPos
    BY <1>1, FS_CardinalityType DEF ClaimInv
  <1> DEFINE Moves(t) == \E p \in {StartPos, enqueue_pos, dequeue_pos} :
                            pos' = [pos EXCEPT ![t] = p]
  <1>3. /\ dequeue_pos' \in {dequeue_pos, dequeue_pos + 1}
        /\ pos' = pos \/ \E t \in Threads : Moves(t)
    <2>w. Workers \subseteq Threads /\ Clients \subseteq Threads /\ Owner \in Threads
      BY DEF Threads
    <2>e. ASSUME NEW t \in Threads, ExecuteStep(t)
          PROVE  dequeue_pos' \in {dequeue_pos, dequeue_pos + 1} /\ (pos' = pos \/ Moves(t))
      BY <2>e DEF ExecuteStep, ExecuteLoad, ExecuteCheck, ExecuteClaim, ExecuteRead,
                  ExecuteRelease, ExecuteRun, ExecuteCount, ReturnExecuteOne, Forget
    <2>s. ASSUME NEW t \in Threads, SubmitStep(t)
          PROVE  dequeue_pos' = dequeue_pos /\ (pos' = pos \/ Moves(t))
      BY <2>s DEF SubmitStep, BeginSubmit, SubmitLoad, SubmitCheck, SubmitClaim, SubmitWrite,
                  SubmitPublish, SubmitPost, EndSubmit, GroupUncount, Refuse, Forget
    <2>l. ASSUME NEW t \in Threads, CloseStep(t)
          PROVE  dequeue_pos' = dequeue_pos /\ pos' = pos
      BY <2>l DEF CloseStep, CloseSet, CloseSpin, ClosePost
    <2> HIDE DEF Moves
    <2>1. ASSUME NEW w \in Workers, WorkerStep(w)
          PROVE  dequeue_pos' \in {dequeue_pos, dequeue_pos + 1} /\ (pos' = pos \/ Moves(w))
      BY <2>1, <2>e, <2>w
      DEF WorkerStep, WorkerWake, WorkerIsClosed, WorkerNoSubmitters, WorkerBaton
    <2>2. ASSUME NEW t \in Clients, ClientStep(t)
          PROVE  dequeue_pos' \in {dequeue_pos, dequeue_pos + 1} /\ (pos' = pos \/ Moves(t))
      BY <2>2, <2>e, <2>s, <2>l, <2>w DEF ClientStep, GroupWaitCheck
    <2>3. ASSUME NEW t \in Clients, ClientCall(t)
          PROVE  dequeue_pos' = dequeue_pos /\ pos' = pos
      BY <2>3 DEF ClientCall, CallSubmit, CallExecuteOne, CallGroupWait, CallClose, Leave
    <2>4. ASSUME OwnerStep PROVE dequeue_pos' = dequeue_pos /\ pos' = pos
      BY <2>4, <2>l, <2>w
      DEF OwnerStep, InitAcquire, CreateWorker, CreateWorkerFails, JoinAndFree
    <2>5. ASSUME CallDestroy \/ UNCHANGED vars PROVE dequeue_pos' = dequeue_pos /\ pos' = pos
      BY <2>5 DEF CallDestroy
    <2>6. QED BY <2>w, <2>1, <2>2, <2>3, <2>4, <2>5 DEF Next, Over
  <1>4. QED BY <1>1, <1>2, <1>3 DEF PositionsGrow

LEMMA ClaimSubmitClaim ==
  ASSUME RingFacts, TaskFacts, JobInv, ClaimInv, PositionsGrow,
         NEW t \in Threads, SubmitClaim(t)
  PROVE  ClaimInv'
  <1> USE DEF RingFacts, TaskFacts
  <1> DEFINE j == task[t].job
  <1>1. CASE ~Same(enqueue_pos, pos[t])
    <2>1. ClaimsUntouched BY <1>1 DEF SubmitClaim, ClaimsUntouched, Filling
    <2>2. QED BY <2>1, ClaimedSame, ClaimFrame DEF ClaimsUntouched
  <1>2. CASE Same(enqueue_pos, pos[t])
    <2>1. /\ pc[t] = "s_claim" /\ pc' = [pc EXCEPT ![t] = "s_write"]
          /\ enqueue_pos' = enqueue_pos + 1
          /\ UNCHANGED <<status, task>>
      BY <1>2 DEF SubmitClaim
    <2>2. j \in Jobs /\ status[j] = "submitting"
      BY <2>1 DEF JobInv, ThreadHasJob, Offering
    <2>3. \A u \in Threads : pc[u] \in Filling => task[u].job # j
      BY <2>1 DEF JobInv, OnePlace, Offering, Filling
    <2>4. j \notin Claimed BY <2>2, <2>3 DEF Claimed
    <2>5. Claimed' = Claimed \cup {j}
      BY <2>1, <2>2 DEF Claimed, Filling
    <2>6. IsFiniteSet(Claimed') /\ Cardinality(Claimed') = Cardinality(Claimed) + 1
      BY <2>4, <2>5, FS_AddElement DEF ClaimInv
    <2>7. Cardinality(Claimed) \in Nat /\ StartPos \in Nat
      BY FS_CardinalityType, SizeAssumption DEF ClaimInv
    <2>8. enqueue_pos' = StartPos + Cardinality(Claimed') BY <2>1, <2>6, <2>7 DEF ClaimInv
    <2>9. QED BY <2>6, <2>8 DEF ClaimInv, PositionsGrow
  <1>3. QED BY <1>1, <1>2

(* A job that is being given to the ring or taken back is no claim. *)
LEMMA ClaimRefuse ==
  ASSUME RingFacts, TaskFacts, JobInv, NEW t \in Threads,
         pc[t] \in {"s_begin", "s_full"}, Refuse(t)
  PROVE  Claimed' = Claimed
  <1> USE DEF RingFacts, TaskFacts
  <1> DEFINE j == task[t].job
  <1>1. j \in Jobs /\ status[j] = "submitting" /\ status' = [status EXCEPT ![j] = "new"]
    BY DEF JobInv, ThreadHasJob, Offering, Refuse
  <1>2. \A u \in Threads \ {t} : pc'[u] = pc[u] /\ task'[u] = task[u]
    BY DEF Refuse, Forget
  <1>3. pc'[t] \notin Filling /\ pc[t] \notin Filling BY DEF Refuse, Filling
  <1>4. \A u \in Threads : pc[u] \in Filling => task[u].job # j
    BY DEF JobInv, OnePlace, Offering, Filling
  <1>5. \A u \in Threads, k \in Jobs :
           (pc'[u] \in Filling /\ task'[u].job = k) <=> (pc[u] \in Filling /\ task[u].job = k)
    BY <1>2, <1>3
  <1>6. \A k \in Jobs : k # j => status'[k] = status[k] BY <1>1
  <1>7. status'[j] = "new" BY <1>1
  <1> HIDE DEF j
  <1>8. ASSUME NEW k \in Jobs PROVE k \in Claimed' <=> k \in Claimed
    BY <1>1, <1>4, <1>5, <1>6, <1>7 DEF Claimed
  <1>9. QED BY <1>8 DEF Claimed

LEMMA ClaimCallSubmit ==
  ASSUME RingFacts, TaskFacts, JobInv, NEW t \in Threads, NEW j \in Jobs,
         NEW g \in Groups \cup {NoGroup}, CallSubmit(t, j, g)
  PROVE  Claimed' = Claimed
  <1> USE DEF RingFacts, TaskFacts
  <1>1. status[j] = "new" /\ status' = [status EXCEPT ![j] = "submitting"] BY DEF CallSubmit
  <1>2. \A u \in Threads : (pc'[u] \in Filling <=> pc[u] \in Filling)
                           /\ (pc[u] \in Filling => task'[u] = task[u])
    BY DEF CallSubmit, Filling
  <1>3. \A u \in Threads : pc[u] \in Filling => task[u].job # j
    BY <1>1 DEF JobInv, ThreadHasJob, Offering, Filling
  <1>4. QED BY <1>1, <1>2, <1>3 DEF Claimed

LEMMA ClaimSubmitPublish ==
  ASSUME RingFacts, TaskFacts, JobInv, NEW t \in Threads, SubmitPublish(t)
  PROVE  Claimed' = Claimed
  <1> USE DEF RingFacts, TaskFacts
  <1> DEFINE j == task[t].job
  <1>1. /\ pc[t] = "s_publish" /\ pc' = [pc EXCEPT ![t] = "s_post"]
        /\ status' = [status EXCEPT ![j] = "queued"] /\ task' = task
    BY DEF SubmitPublish
  <1>2. j \in Jobs /\ status'[j] = "queued" BY <1>1 DEF JobInv, ThreadHasJob, Offering
  <1>3. \A u \in Threads : u # t => pc'[u] = pc[u] BY <1>1
  <1>4. j \in Claimed /\ j \in Claimed' BY <1>1, <1>2 DEF Claimed, Filling
  <1>5. ASSUME NEW k \in Jobs, k # j PROVE k \in Claimed' <=> k \in Claimed
    BY <1>1, <1>3, <1>5 DEF Claimed, Filling
  <1>6. QED BY <1>4, <1>5 DEF Claimed

LEMMA ClaimExecuteRun ==
  ASSUME RingFacts, TaskFacts, JobInv, NEW t \in Threads, ExecuteRun(t)
  PROVE  Claimed' = Claimed
  <1> USE DEF RingFacts, TaskFacts
  <1> DEFINE j == task[t].job
  <1>1. /\ pc[t] = "x_run" /\ status' = [status EXCEPT ![j] = "done"]
        /\ pc'[t] \in {"x_load", "w_closed", "w_park", "w_baton", "idle", "g_load", "x_count"}
    BY DEF ExecuteRun, ReturnExecuteOne
  <1>2. \A u \in Threads \ {t} : pc'[u] = pc[u] /\ task'[u] = task[u]
    BY DEF ExecuteRun, ReturnExecuteOne, Forget
  <1>3. j \in Jobs /\ status[j] = "queued" BY <1>1 DEF JobInv, ThreadHasJob, Running
  <1>4. pc[t] \notin Filling /\ pc'[t] \notin Filling BY <1>1 DEF Filling
  <1>5. \A u \in Threads, k \in Jobs :
           (pc'[u] \in Filling /\ task'[u].job = k) <=> (pc[u] \in Filling /\ task[u].job = k)
    BY <1>2, <1>4
  <1>6. \A k \in Jobs : k # j => status'[k] = status[k] BY <1>1
  <1>7. status'[j] = "done" BY <1>1, <1>3
  <1> HIDE DEF j
  <1>8. ASSUME NEW k \in Jobs PROVE k \in Claimed' <=> k \in Claimed
    BY <1>3, <1>5, <1>6, <1>7 DEF Claimed
  <1>9. QED BY <1>8 DEF Claimed

LEMMA ClaimStep == TypeOK /\ JobInv /\ ClaimInv /\ [Next]_vars => ClaimInv'
  <1> SUFFICES ASSUME TypeOK, JobInv, ClaimInv, [Next]_vars PROVE ClaimInv' OBVIOUS
  <1>f. RingFacts /\ TaskFacts BY FactsHold, TaskFactsHold
  <1>p. PositionsGrow BY PositionsStep
  <1>w. Workers \subseteq Threads /\ Clients \subseteq Threads /\ Owner \in Threads
    BY DEF Threads
  <1>u. SUFFICES ASSUME ~ClaimsUntouched PROVE ClaimInv'
    BY <1>p, ClaimedSame, ClaimFrame DEF ClaimsUntouched
  <1>c. SUFFICES ASSUME ~(enqueue_pos' = enqueue_pos /\ Claimed' = Claimed) PROVE ClaimInv'
    BY <1>p, ClaimFrame
  <1> USE DEF ClaimsUntouched, Filling
  <1>e. ASSUME NEW t \in Threads PROVE ~ExecuteStep(t)
    <2> USE <1>f DEF RingFacts, TaskFacts
    <2>1. ~ExecuteLoad(t) BY <1>u DEF ExecuteLoad
    <2>2. ~ExecuteCheck(t)
      <3> SUFFICES ASSUME ExecuteCheck(t) PROVE ClaimsUntouched BY <1>u
      <3>1. pc'[t] \in {"x_claim", "x_load", "w_closed", "w_park", "w_baton", "idle", "g_load"}
        BY DEF ExecuteCheck, ReturnExecuteOne
      <3>2. \A u \in Threads \ {t} : pc'[u] = pc[u] /\ task'[u] = task[u]
        BY DEF ExecuteCheck, ReturnExecuteOne, Forget
      <3>3. QED BY <3>1, <3>2 DEF ExecuteCheck
    <2>3. ~ExecuteClaim(t) BY <1>u DEF ExecuteClaim
    <2>4. ~ExecuteRead(t) BY <1>u DEF ExecuteRead
    <2>5. ~ExecuteRelease(t) BY <1>u DEF ExecuteRelease
    <2>6. ~ExecuteRun(t) BY <1>c, ClaimExecuteRun DEF ExecuteRun
    <2>7. ~ExecuteCount(t) BY <1>u DEF ExecuteCount, ReturnExecuteOne, Forget
    <2>8. QED BY <2>1, <2>2, <2>3, <2>4, <2>5, <2>6, <2>7 DEF ExecuteStep
  <1>s. ASSUME NEW t \in Threads, SubmitStep(t) PROVE ClaimInv'
    <2> USE <1>f DEF RingFacts, TaskFacts
    <2>1. ~BeginSubmit(t)
      <3> SUFFICES ASSUME BeginSubmit(t) PROVE FALSE OBVIOUS
      <3> USE DEF BeginSubmit
      <3>1. CASE Refuse(t) BY <1>c, <3>1, ClaimRefuse
      <3>2. CASE ~Refuse(t) BY <1>u, <3>2
      <3>3. QED BY <3>1, <3>2
    <2>2. ~SubmitLoad(t) BY <1>u DEF SubmitLoad
    <2>3. ~SubmitCheck(t) BY <1>u DEF SubmitCheck, CellState
    <2>4. ~SubmitWrite(t) BY <1>u DEF SubmitWrite
    <2>5. ~SubmitPublish(t) BY <1>c, ClaimSubmitPublish DEF SubmitPublish
    <2>6. ~SubmitPost(t) BY <1>u DEF SubmitPost
    <2>7. ~EndSubmit(t)
      <3> SUFFICES ASSUME EndSubmit(t) PROVE FALSE OBVIOUS
      <3> USE DEF EndSubmit
      <3>1. CASE pc[t] = "s_full" BY <1>c, <3>1, ClaimRefuse
      <3>2. CASE pc[t] = "s_end" BY <1>u, <3>2 DEF Forget
      <3>3. QED BY <3>1, <3>2
    <2>8. ~GroupUncount(t) BY <1>u DEF GroupUncount, Forget
    <2>9. QED
      BY <1>s, <1>p, <2>1, <2>2, <2>3, <2>4, <2>5, <2>6, <2>7, <2>8, ClaimSubmitClaim
      DEF SubmitStep
  <1>l. ASSUME NEW t \in Threads PROVE ~CloseStep(t)
    BY <1>u, <1>f DEF CloseStep, CloseSet, CloseSpin, ClosePost, CloseReturns, RingFacts
  <1>1. ASSUME NEW w \in Workers PROVE ~WorkerStep(w)
    <2>1. ~(WorkerWake(w) \/ WorkerIsClosed(w) \/ WorkerNoSubmitters(w) \/ WorkerBaton(w))
      BY <1>u, <1>f, <1>w
      DEF WorkerWake, WorkerIsClosed, WorkerNoSubmitters, WorkerBaton, RingFacts
    <2>2. QED BY <1>e, <1>w, <2>1 DEF WorkerStep
  <1>2. ASSUME NEW t \in Clients, ClientStep(t) PROVE ClaimInv'
    <2>1. ~GroupWaitCheck(t) BY <1>u, <1>f, <1>w DEF GroupWaitCheck, RingFacts
    <2>2. QED BY <1>2, <1>e, <1>s, <1>l, <1>w, <2>1 DEF ClientStep
  <1>3. ASSUME NEW t \in Clients PROVE ~ClientCall(t)
    <2>1. ~(CallExecuteOne(t) \/ CallClose(t) \/ Leave(t))
      BY <1>u, <1>f, <1>w DEF CallExecuteOne, CallClose, Leave, RingFacts
    <2>2. \A g \in Groups : ~CallGroupWait(t, g)
      BY <1>u, <1>f, <1>w DEF CallGroupWait, RingFacts
    <2>3. \A j \in Jobs, g \in Groups \cup {NoGroup} : ~CallSubmit(t, j, g)
      BY <1>c, <1>f, <1>w, ClaimCallSubmit DEF CallSubmit
    <2>4. QED BY <2>1, <2>2, <2>3 DEF ClientCall
  <1>4. ~OwnerStep
    BY <1>u, <1>f, <1>w, <1>l
    DEF OwnerStep, InitAcquire, CreateWorker, CreateWorkerFails, JoinAndFree, RingFacts
  <1>5. ~CallDestroy BY <1>u, <1>f, <1>w DEF CallDestroy, RingFacts
  <1>6. ~UNCHANGED vars BY <1>u
  <1>7. QED BY <1>1, <1>2, <1>3, <1>4, <1>5, <1>6 DEF Next, Over

(* The ends are where the claims and the window put them.                  *)
LEMMA ClaimsOrderEnds == TypeOK /\ WindowInv /\ ClaimInv => EndsInOrder
  <1> SUFFICES ASSUME TypeOK, WindowInv, ClaimInv PROVE EndsInOrder OBVIOUS
  <1>1. /\ StartPos \in Nat /\ Capacity \in Nat
        /\ dequeue_pos \in Nat /\ enqueue_pos \in Nat
    BY SizeAssumption DEF TypeOK
  <1>2. Cardinality(Claimed) \in Nat BY FS_CardinalityType DEF ClaimInv
  <1>3. Claimed \subseteq Jobs BY DEF Claimed
  <1>4. QED BY <1>1, <1>2, <1>3 DEF EndsInOrder, WindowInv, ClaimInv

(* A position of the ring is won for a job, and never twice for one; and   *)
(* the two ends never pass each other, nor go further apart than the ring. *)
THEOREM ClaimsCorrect == Spec /\ []NoLap => [](ClaimInv /\ EndsInOrder)
  <1>1. Init => ClaimInv BY ClaimInit
  <1>2. TypeOK /\ JobInv /\ ClaimInv /\ [Next]_vars => ClaimInv' BY ClaimStep
  <1>3. RingInv => WindowInv BY DEF RingInv
  <1>4. QED
    BY <1>1, <1>2, <1>3, ClaimsOrderEnds, TypeCorrect, RingCorrect, JobsCorrect, PTL DEF Spec

(* The whole inductive invariant of the scheduler. *)
THEOREM SchedulerInvariant == Spec /\ []NoLap => []SchedulerInv
  <1>1. Spec => []LifeInv BY LifeInit, LifeStep, TypeCorrect, PTL DEF Spec
  <1>2. TypeOK /\ RingInv /\ JobInv /\ CountInv /\ ClaimInv /\ LifeInv => SchedulerInv
    BY DEF SchedulerInv
  <1>3. QED BY <1>1, <1>2, TypeCorrect, RingCorrect, JobsCorrect, GroupsCorrect, ClaimsCorrect, PTL

(* Fewer jobs than the counter has values: no thread can be lapped. *)
LEMMA FewJobsNoLap ==
  ASSUME IsFiniteSet(Jobs), Cardinality(Jobs) < CounterRange, TypeOK, WindowInv, ClaimInv
  PROVE  NoLap
  <1>1. Claimed \in SUBSET Jobs BY DEF Claimed
  <1>2. /\ Cardinality(Claimed) <= Cardinality(Jobs)
        /\ Cardinality(Claimed) \in Nat /\ Cardinality(Jobs) \in Nat
    BY <1>1, FS_Subset, FS_CardinalityType
  <1>3. StartPos \in Nat /\ CounterRange \in Nat BY SizeAssumption DEF CounterRange
  <1>4. dequeue_pos \in Nat /\ enqueue_pos \in Nat /\ \A t \in Threads : pos[t] \in Nat
    BY DEF TypeOK
  <1>5. dequeue_pos <= enqueue_pos /\ enqueue_pos - StartPos < CounterRange
    BY <1>2, <1>3 DEF WindowInv, ClaimInv
  <1>6. \A t \in Threads : StartPos <= pos[t] BY <1>3, <1>4 DEF ClaimInv
  <1>7. QED BY <1>3, <1>4, <1>5, <1>6 DEF NoLap

(* A system that is given fewer than 2^64 jobs in its life needs no        *)
(* assumption about how its threads are scheduled: nobody is ever lapped,  *)
(* so the comparisons of residues in job.c are comparisons of positions. *)
THEOREM NeverLapped ==
  ASSUME IsFiniteSet(Jobs), Cardinality(Jobs) < CounterRange
  PROVE  Spec => []NoLap
  <1> DEFINE I == TypeOK /\ RingInv /\ JobInv /\ ClaimInv
  <1>1. Init => I BY TypeInit, RingInit, JobInit, ClaimInit
  <1>2. I => NoLap BY FewJobsNoLap DEF RingInv
  <1>3. I /\ [Next]_vars => I' BY <1>2, TypeStep, RingStep, JobStep, ClaimStep
  <1> HIDE DEF I
  <1>4. QED BY <1>1, <1>2, <1>3, PTL DEF Spec

(* All of it for such a system, under every interleaving. *)
THEOREM SchedulerCorrect ==
  ASSUME IsFiniteSet(Jobs), Cardinality(Jobs) < CounterRange
  PROVE  Spec => [](NoDataRace /\ RunsOnce /\ GroupZeroMeansDone)
  <1>1. Spec => []NoLap BY NeverLapped
  <1>2. Spec /\ []NoLap => []NoDataRace BY DataRaceFree
  <1>3. Spec /\ []NoLap => []RunsOnce BY JobRunsOnce
  <1>4. Spec /\ []NoLap => []GroupZeroMeansDone BY GroupZeroIsDone
  <1>5. QED BY <1>1, <1>2, <1>3, <1>4, PTL
=============================================================================
