----------------------------- MODULE JobSystem -----------------------------
(***************************************************************************)
(* src/src/proven/job.c: the MPMC job scheduler.  A bounded Vyukov ring    *)
(* whose cells carry sequence numbers, an admission word (closed bit +     *)
(* count of submitters inside), a counting semaphore that parks the        *)
(* workers, groups that count unfinished jobs, and the init / close /      *)
(* destroy protocol around them.                                           *)
(*                                                                         *)
(* Every access to a shared atomic is a step of its own; a step is named   *)
(* after the label its thread stands at.  Accesses are sequentially        *)
(* consistent (the code's acquire/release pairs order everything the       *)
(* steps below hand over).  A weak compare-exchange that fails spuriously  *)
(* leaves every variable as it was and is therefore a stuttering step.     *)
(*                                                                         *)
(* Positions are kept UNWRAPPED, as ghosts; the code sees only their       *)
(* residues modulo the counter range, so every comparison goes through     *)
(* Same and CellState, which look at nothing else.                         *)
(***************************************************************************)
EXTENDS Integers, FiniteSets

CONSTANTS
    Workers,      \* the worker threads num_workers asks for
    Clients,      \* threads that submit, help, wait and close
    Owner,        \* the thread that initialises and destroys the system
    Jobs,         \* the units of work that may be submitted, each once
    Groups,       \* the proven_job_group_t objects
    NoGroup,      \* the NULL group of a plain submit
    NoJob,        \* what an unwritten cell or an unset local holds
    Capacity,     \* max_queue_capacity
    MaxCapacity,  \* PROVEN_JOB_MAX_CAPACITY, a quarter of the counter range
    ActiveMask,   \* PROVEN_JOB_ADMISSION_ACTIVE_MASK
    StartPos,     \* jobs run before the model starts: 0 in a fresh system
    Calls         \* which entry points each client uses: bounds a run

CounterRange == 4 * MaxCapacity
SignBit == 2 * MaxCapacity

ASSUME SizeAssumption ==
    /\ Capacity \in Nat /\ Capacity >= 2
    /\ MaxCapacity \in Nat /\ Capacity <= MaxCapacity
    /\ MaxCapacity % Capacity = 0
    /\ ActiveMask \in Nat \ {0}
    /\ StartPos \in Nat
    /\ Calls \in [Clients -> SUBSET {"submit", "execute", "wait", "close"}]

ASSUME ThreadAssumption ==
    /\ Owner \notin Workers \cup Clients
    /\ Workers \cap Clients = {}
    /\ IsFiniteSet(Workers) /\ Workers # {}
    /\ NoGroup \notin Groups /\ NoJob \notin Jobs

Threads == Workers \cup Clients \cup {Owner}
CellIds == 0 .. Capacity - 1
Resources == {"sys", "queue", "threads", "work_ready"}

VARIABLES
    sequence,     \* [cell -> position]: proven_job_cell_t.sequence
    data,         \* [cell -> task]: .data and .group
    enqueue_pos, dequeue_pos,
    closed,       \* the top bit of admission_state
    active,       \* the other bits of admission_state
    work_ready,   \* permits of the semaphore
    pending,      \* [group -> count]
    num_threads,  \* workers created so far
    held,         \* what proven_job_system_init has acquired and not released
    pc, pos,      \* each thread's label and its local pos
    task,         \* each thread's job and group at hand
    caller,       \* where proven_job_execute_one returns to
    left,         \* final permits a closer still has to post
    awaits,       \* the group proven_job_group_wait was called with
    status,       \* history: [job -> where it is]
    runs          \* history: [job -> times its routine ran]

queueVars == <<sequence, data, enqueue_pos, dequeue_pos>>
admissionVars == <<closed, active>>
lifeVars == <<num_threads, held>>
historyVars == <<status, runs>>
callVars == <<caller, left, awaits>>
localVars == <<pos, task, callVars>>
outsideQueue == <<admissionVars, work_ready, pending, lifeVars>>
allButPc == <<queueVars, outsideQueue, localVars, historyVars>>
vars == <<allButPc, pc>>

NoTask == [job |-> NoJob, group |-> NoGroup]
Tasks == [job : Jobs, group : Groups \cup {NoGroup}] \cup {NoTask}
Goto(t, label) == pc' = [pc EXCEPT ![t] = label]

(* A call that returns leaves its local variables behind.                  *)
Forget(t) ==
    /\ pos' = [pos EXCEPT ![t] = StartPos]
    /\ task' = [task EXCEPT ![t] = NoTask]

-----------------------------------------------------------------------------
(* proven_internal_jobseq.h: positions compared by modular distance.       *)

Cell(p) == p % Capacity
Same(p, q) == p % CounterRange = q % CounterRange
Distance(seq, p) == (seq - p) % CounterRange
CellState(seq, p) ==
    IF Distance(seq, p) = 0 THEN "ready"
    ELSE IF Distance(seq, p) >= SignBit THEN "behind" ELSE "ahead"

-----------------------------------------------------------------------------
(* proven_job_system_init.                                                 *)

FirstSequence(c) == CHOOSE s \in StartPos .. StartPos + Capacity - 1 : Cell(s) = c

Init ==
    /\ sequence = [c \in CellIds |-> FirstSequence(c)]
    /\ data = [c \in CellIds |-> NoTask]
    /\ enqueue_pos = StartPos /\ dequeue_pos = StartPos
    /\ closed = FALSE /\ active = 0 /\ work_ready = 0
    /\ pending = [g \in Groups |-> 0]
    /\ num_threads = 0 /\ held = {}
    /\ pc = [t \in Threads |-> CASE t \in Workers -> "unborn"
                                 [] t \in Clients -> "idle"
                                 [] OTHER         -> "init"]
    /\ pos = [t \in Threads |-> StartPos]
    /\ task = [t \in Threads |-> NoTask]
    /\ caller = [t \in Threads |-> "one"]
    /\ left = [t \in Threads |-> 0]
    /\ awaits = [t \in Threads |-> NoGroup]
    /\ status = [j \in Jobs |-> "new"]
    /\ runs = [j \in Jobs |-> 0]

(* The acquisitions in order; a failing one releases what came before it.  *)
AcquiredBefore(r) ==
    CASE r = "sys"        -> {}
      [] r = "queue"      -> {"sys"}
      [] r = "threads"    -> {"queue", "sys"}
      [] r = "work_ready" -> {"threads", "queue", "sys"}
(* Mistake: the threads allocation fails and the ring is forgotten. *)
FreedButQueue(r) == AcquiredBefore(r) \ {"queue"}

FreedOnFailure(r) == AcquiredBefore(r)

InitAcquire ==
    /\ pc[Owner] = "init"
    /\ \E r \in Resources :
        /\ held = AcquiredBefore(r)
        /\ \/ /\ held' = held \cup {r}
              /\ Goto(Owner, IF r = "work_ready" THEN "create" ELSE "init")
           \/ /\ held' = held \ FreedOnFailure(r)
              /\ Goto(Owner, "failed")
    /\ UNCHANGED <<queueVars, admissionVars, work_ready, pending, num_threads,
                   localVars, historyVars>>

CreateWorker(w) ==
    /\ pc[Owner] = "create" /\ pc[w] = "unborn"
    /\ num_threads' = num_threads + 1
    /\ pc' = [pc EXCEPT ![w] = "w_park",
                        ![Owner] = IF num_threads + 1 = Cardinality(Workers)
                                   THEN "ready" ELSE "create"]
    /\ UNCHANGED <<queueVars, admissionVars, work_ready, pending, held, localVars,
                   historyVars>>

CreateWorkerFails ==
    /\ pc[Owner] = "create"
    /\ Goto(Owner, "c_or")
    /\ UNCHANGED allButPc

-----------------------------------------------------------------------------
(* proven_job_submit, proven_job_submit_ex and proven_job_group_submit.    *)

CallSubmit(t, j, g) ==
    /\ pc[Owner] = "ready" /\ pc[t] = "idle" /\ status[j] = "new"
    /\ status' = [status EXCEPT ![j] = "submitting"]
    /\ task' = [task EXCEPT ![t] = [job |-> j, group |-> g]]
    /\ pending' = IF g = NoGroup THEN pending
                  ELSE [pending EXCEPT ![g] = @ + 1]
    /\ Goto(t, "s_begin")
    /\ UNCHANGED <<queueVars, admissionVars, work_ready, lifeVars, pos, callVars, runs>>

(* job_submit refuses; proven_job_group_submit then takes its count back.  *)
Refuse(t) ==
    /\ status' = [status EXCEPT ![task[t].job] = "new"]
    /\ \/ task[t].group = NoGroup /\ Goto(t, "idle") /\ Forget(t)
       \/ task[t].group # NoGroup /\ Goto(t, "s_uncount") /\ UNCHANGED <<pos, task>>

BeginSubmit(t) ==
    /\ pc[t] = "s_begin"
    /\ \/ /\ closed \/ active = ActiveMask
          /\ Refuse(t)
          /\ UNCHANGED active
       \/ /\ ~closed /\ active # ActiveMask
          /\ active' = active + 1
          /\ Goto(t, "s_load")
          /\ UNCHANGED <<status, pos, task>>
    /\ UNCHANGED <<queueVars, closed, work_ready, pending, lifeVars, callVars, runs>>

SubmitLoad(t) ==
    /\ pc[t] = "s_load"
    /\ pos' = [pos EXCEPT ![t] = enqueue_pos]
    /\ Goto(t, "s_check")
    /\ UNCHANGED <<queueVars, outsideQueue, task, callVars, historyVars>>

SubmitCheck(t) ==
    /\ pc[t] = "s_check"
    /\ LET state == CellState(sequence[Cell(pos[t])], pos[t]) IN
       Goto(t, CASE state = "ready"  -> "s_claim"
                 [] state = "behind" -> "s_full"
                 [] state = "ahead"  -> "s_load")
    /\ UNCHANGED allButPc

(* Mistake: a plain store in place of the compare-exchange.                *)
SubmitClaimByStore(t) ==
    /\ pc[t] = "s_claim"
    /\ enqueue_pos' = pos[t] + 1
    /\ Goto(t, "s_write")
    /\ UNCHANGED <<sequence, data, dequeue_pos, outsideQueue, localVars, historyVars>>

SubmitClaim(t) ==
    /\ pc[t] = "s_claim"
    /\ \/ /\ Same(enqueue_pos, pos[t])
          /\ enqueue_pos' = enqueue_pos + 1
          /\ Goto(t, "s_write")
          /\ UNCHANGED pos
       \/ /\ ~Same(enqueue_pos, pos[t])
          /\ pos' = [pos EXCEPT ![t] = enqueue_pos]
          /\ Goto(t, "s_check")
          /\ UNCHANGED enqueue_pos
    /\ UNCHANGED <<sequence, data, dequeue_pos, outsideQueue, task, callVars, historyVars>>

SubmitWrite(t) ==
    /\ pc[t] = "s_write"
    /\ data' = [data EXCEPT ![Cell(pos[t])] = task[t]]
    /\ Goto(t, "s_publish")
    /\ UNCHANGED <<sequence, enqueue_pos, dequeue_pos, outsideQueue, localVars, historyVars>>

SubmitPublish(t) ==
    /\ pc[t] = "s_publish"
    /\ sequence' = [sequence EXCEPT ![Cell(pos[t])] = pos[t] + 1]
    /\ status' = [status EXCEPT ![task[t].job] = "queued"]
    /\ Goto(t, "s_post")
    /\ UNCHANGED <<data, enqueue_pos, dequeue_pos, outsideQueue, localVars, runs>>

SubmitPost(t) ==
    /\ pc[t] = "s_post"
    /\ work_ready' = work_ready + 1
    /\ Goto(t, "s_end")
    /\ UNCHANGED <<queueVars, admissionVars, pending, lifeVars, localVars, historyVars>>

EndSubmit(t) ==
    /\ pc[t] \in {"s_end", "s_full"}
    /\ active' = active - 1
    /\ \/ /\ pc[t] = "s_end"
          /\ Goto(t, "idle")
          /\ Forget(t)
          /\ UNCHANGED status
       \/ /\ pc[t] = "s_full"
          /\ Refuse(t)
    /\ UNCHANGED <<queueVars, closed, work_ready, pending, lifeVars, callVars, runs>>

GroupUncount(t) ==
    /\ pc[t] = "s_uncount"
    /\ pending' = [pending EXCEPT ![task[t].group] = @ - 1]
    /\ Goto(t, "idle")
    /\ Forget(t)
    /\ UNCHANGED <<queueVars, admissionVars, work_ready, lifeVars, callVars, historyVars>>

-----------------------------------------------------------------------------
(* proven_job_execute_one, called from four places.                        *)

(* Mistake: one job per permit, as the code once did. *)
ReturnOnePerPermit(t, found) ==
    /\ Forget(t)
    /\ Goto(t, CASE caller[t] = "drain" -> "w_closed"
                 [] caller[t] = "final" -> IF found THEN "w_park" ELSE "w_baton"
                 [] caller[t] = "one"   -> "idle"
                 [] caller[t] = "wait"  -> "g_load")

ReturnExecuteOne(t, found) ==
    /\ Forget(t)
    /\ Goto(t, CASE caller[t] = "drain" -> IF found THEN "x_load" ELSE "w_closed"
                 [] caller[t] = "final" -> IF found THEN "w_park" ELSE "w_baton"
                 [] caller[t] = "one"   -> "idle"
                 [] caller[t] = "wait"  -> "g_load")

ExecuteLoad(t) ==
    /\ pc[t] = "x_load"
    /\ pos' = [pos EXCEPT ![t] = dequeue_pos]
    /\ Goto(t, "x_check")
    /\ UNCHANGED <<queueVars, outsideQueue, task, callVars, historyVars>>

(* Mistake: the cell's number is compared with pos, not pos + 1. *)
ExecuteCheckSamePos(t) ==
    /\ pc[t] = "x_check"
    /\ LET state == CellState(sequence[Cell(pos[t])], pos[t]) IN
       \/ state = "ready"  /\ Goto(t, "x_claim") /\ UNCHANGED <<pos, task>>
       \/ state = "behind" /\ ReturnExecuteOne(t, FALSE)
       \/ state = "ahead"  /\ Goto(t, "x_load") /\ UNCHANGED <<pos, task>>
    /\ UNCHANGED <<queueVars, outsideQueue, callVars, historyVars>>

ExecuteCheck(t) ==
    /\ pc[t] = "x_check"
    /\ LET state == CellState(sequence[Cell(pos[t])], pos[t] + 1) IN
       \/ state = "ready"  /\ Goto(t, "x_claim") /\ UNCHANGED <<pos, task>>
       \/ state = "behind" /\ ReturnExecuteOne(t, FALSE)
       \/ state = "ahead"  /\ Goto(t, "x_load") /\ UNCHANGED <<pos, task>>
    /\ UNCHANGED <<queueVars, outsideQueue, callVars, historyVars>>

(* Mistake: a plain store in place of the compare-exchange.                *)
ExecuteClaimByStore(t) ==
    /\ pc[t] = "x_claim"
    /\ dequeue_pos' = pos[t] + 1
    /\ Goto(t, "x_read")
    /\ UNCHANGED <<sequence, data, enqueue_pos, outsideQueue, localVars, historyVars>>

ExecuteClaim(t) ==
    /\ pc[t] = "x_claim"
    /\ \/ /\ Same(dequeue_pos, pos[t])
          /\ dequeue_pos' = dequeue_pos + 1
          /\ Goto(t, "x_read")
          /\ UNCHANGED pos
       \/ /\ ~Same(dequeue_pos, pos[t])
          /\ pos' = [pos EXCEPT ![t] = dequeue_pos]
          /\ Goto(t, "x_check")
          /\ UNCHANGED dequeue_pos
    /\ UNCHANGED <<sequence, data, enqueue_pos, outsideQueue, task, callVars, historyVars>>

ExecuteRead(t) ==
    /\ pc[t] = "x_read"
    /\ task' = [task EXCEPT ![t] = data[Cell(pos[t])]]
    /\ Goto(t, "x_release")
    /\ UNCHANGED <<queueVars, outsideQueue, pos, callVars, historyVars>>

(* Mistake: the group is told before the job has run.                      *)
ExecuteReleaseAndCount(t) ==
    /\ pc[t] = "x_release"
    /\ sequence' = [sequence EXCEPT ![Cell(pos[t])] = pos[t] + Capacity]
    /\ pending' = IF task[t].group = NoGroup THEN pending
                  ELSE [pending EXCEPT ![task[t].group] = @ - 1]
    /\ Goto(t, "x_run")
    /\ UNCHANGED <<data, enqueue_pos, dequeue_pos, admissionVars, work_ready,
                   lifeVars, localVars, historyVars>>

ExecuteRelease(t) ==
    /\ pc[t] = "x_release"
    /\ sequence' = [sequence EXCEPT ![Cell(pos[t])] = pos[t] + Capacity]
    /\ Goto(t, "x_run")
    /\ UNCHANGED <<data, enqueue_pos, dequeue_pos, outsideQueue, localVars, historyVars>>

ExecuteRun(t) ==
    /\ pc[t] = "x_run"
    /\ runs' = [runs EXCEPT ![task[t].job] = @ + 1]
    /\ status' = [status EXCEPT ![task[t].job] = "done"]
    /\ \/ task[t].group = NoGroup /\ ReturnExecuteOne(t, TRUE)
       \/ task[t].group # NoGroup /\ Goto(t, "x_count") /\ UNCHANGED <<pos, task>>
    /\ UNCHANGED <<queueVars, outsideQueue, callVars>>

ExecuteCount(t) ==
    /\ pc[t] = "x_count"
    /\ pending' = [pending EXCEPT ![task[t].group] = @ - 1]
    /\ ReturnExecuteOne(t, TRUE)
    /\ UNCHANGED <<queueVars, admissionVars, work_ready, lifeVars, callVars, historyVars>>

-----------------------------------------------------------------------------
(* worker_main.                                                            *)

WorkerWake(w) ==
    /\ pc[w] = "w_park" /\ work_ready > 0
    /\ work_ready' = work_ready - 1
    /\ caller' = [caller EXCEPT ![w] = "drain"]
    /\ Goto(w, "x_load")
    /\ UNCHANGED <<queueVars, admissionVars, pending, lifeVars, pos, task, left,
                   awaits, historyVars>>

WorkerIsClosed(w) ==
    /\ pc[w] = "w_closed"
    /\ Goto(w, IF closed THEN "w_active" ELSE "w_park")
    /\ UNCHANGED allButPc

WorkerNoSubmitters(w) ==
    /\ pc[w] = "w_active"
    /\ Goto(w, IF active = 0 THEN "x_load" ELSE "w_park")
    /\ caller' = [caller EXCEPT ![w] = "final"]
    /\ UNCHANGED <<queueVars, outsideQueue, pos, task, left, awaits, historyVars>>

WorkerBaton(w) ==
    /\ pc[w] = "w_baton"
    /\ work_ready' = work_ready + 1
    /\ Goto(w, "exited")
    /\ UNCHANGED <<queueVars, admissionVars, pending, lifeVars, localVars, historyVars>>

-----------------------------------------------------------------------------
(* A client's own calls of proven_job_execute_one, proven_job_group_wait   *)
(* and proven_job_system_close, and its end.                               *)

CallExecuteOne(t) ==
    /\ pc[Owner] = "ready" /\ pc[t] = "idle"
    /\ caller' = [caller EXCEPT ![t] = "one"]
    /\ Goto(t, "x_load")
    /\ UNCHANGED <<queueVars, outsideQueue, pos, task, left, awaits, historyVars>>

CallGroupWait(t, g) ==
    /\ pc[Owner] = "ready" /\ pc[t] = "idle"
    /\ caller' = [caller EXCEPT ![t] = "wait"]
    /\ awaits' = [awaits EXCEPT ![t] = g]
    /\ Goto(t, "g_load")
    /\ UNCHANGED <<queueVars, outsideQueue, pos, task, left, historyVars>>

GroupWaitCheck(t) ==
    /\ pc[t] = "g_load"
    /\ Goto(t, IF pending[awaits[t]] = 0 THEN "idle" ELSE "x_load")
    /\ UNCHANGED allButPc

CallClose(t) ==
    /\ pc[Owner] = "ready" /\ pc[t] = "idle"
    /\ Goto(t, "c_or")
    /\ UNCHANGED allButPc

Leave(t) ==
    /\ pc[t] = "idle"
    /\ Goto(t, "gone")
    /\ UNCHANGED allButPc
-----------------------------------------------------------------------------
(* proven_job_close_and_wake and proven_job_system_destroy.                *)

CloseSet(t) ==
    /\ pc[t] = "c_or"
    /\ closed' = TRUE
    /\ left' = [left EXCEPT ![t] = IF closed THEN 0 ELSE num_threads]
    /\ Goto(t, "c_spin")
    /\ UNCHANGED <<queueVars, active, work_ready, pending, lifeVars, pos, task,
                   caller, awaits, historyVars>>

CloseReturns(t) == IF t = Owner THEN "join" ELSE "idle"

(* Mistake: close does not wait for submitters in flight. *)
CloseWithoutWaiting(t) ==
    /\ pc[t] = "c_spin"
    /\ Goto(t, IF left[t] = 0 THEN CloseReturns(t) ELSE "c_post")
    /\ UNCHANGED allButPc

CloseSpin(t) ==
    /\ pc[t] = "c_spin" /\ active = 0
    /\ Goto(t, IF left[t] = 0 THEN CloseReturns(t) ELSE "c_post")
    /\ UNCHANGED allButPc

ClosePost(t) ==
    /\ pc[t] = "c_post"
    /\ work_ready' = work_ready + 1
    /\ left' = [left EXCEPT ![t] = @ - 1]
    /\ Goto(t, IF left[t] = 1 THEN CloseReturns(t) ELSE "c_post")
    /\ UNCHANGED <<queueVars, admissionVars, pending, lifeVars, pos, task, caller,
                   awaits, historyVars>>

(* The caller's duty stated in job.h: every other thread is done with the  *)
(* system before proven_job_system_destroy is called.                      *)
CallDestroy ==
    /\ pc[Owner] = "ready"
    /\ \A t \in Clients : pc[t] = "gone"
    /\ Goto(Owner, "c_or")
    /\ UNCHANGED allButPc

JoinAndFree ==
    /\ pc[Owner] = "join"
    /\ \A w \in Workers : pc[w] \in {"unborn", "exited"}
    /\ held' = {}
    /\ Goto(Owner, IF num_threads = Cardinality(Workers) THEN "destroyed" ELSE "failed")
    /\ UNCHANGED <<queueVars, admissionVars, work_ready, pending, num_threads,
                   localVars, historyVars>>

-----------------------------------------------------------------------------
SubmitStep(t) ==
    \/ BeginSubmit(t) \/ SubmitLoad(t) \/ SubmitCheck(t) \/ SubmitClaim(t)
    \/ SubmitWrite(t) \/ SubmitPublish(t) \/ SubmitPost(t) \/ EndSubmit(t)
    \/ GroupUncount(t)

ExecuteStep(t) ==
    \/ ExecuteLoad(t) \/ ExecuteCheck(t) \/ ExecuteClaim(t) \/ ExecuteRead(t)
    \/ ExecuteRelease(t) \/ ExecuteRun(t) \/ ExecuteCount(t)

CloseStep(t) == CloseSet(t) \/ CloseSpin(t) \/ ClosePost(t)

WorkerStep(w) ==
    \/ ExecuteStep(w) \/ WorkerWake(w) \/ WorkerIsClosed(w) \/ WorkerNoSubmitters(w)
    \/ WorkerBaton(w)

ClientStep(t) == SubmitStep(t) \/ ExecuteStep(t) \/ CloseStep(t) \/ GroupWaitCheck(t)

ClientCall(t) ==
    \/ "submit" \in Calls[t] /\ \E j \in Jobs, g \in Groups \cup {NoGroup} : CallSubmit(t, j, g)
    \/ "execute" \in Calls[t] /\ CallExecuteOne(t)
    \/ "wait" \in Calls[t] /\ \E g \in Groups : CallGroupWait(t, g)
    \/ "close" \in Calls[t] /\ CallClose(t)
    \/ Leave(t)

OwnerStep ==
    \/ InitAcquire
    \/ \E w \in Workers : CreateWorker(w)
    \/ CreateWorkerFails
    \/ CloseStep(Owner)
    \/ JoinAndFree

(* The system has been freed, or was never set up: nothing more happens.   *)
Over == pc[Owner] \in {"failed", "destroyed"} /\ UNCHANGED vars

Next ==
    \/ \E w \in Workers : WorkerStep(w)
    \/ \E t \in Clients : ClientStep(t) \/ ClientCall(t)
    \/ OwnerStep
    \/ CallDestroy
    \/ Over

(* Every thread is scheduled; what a client decides to call is its own.    *)
Fairness ==
    /\ \A w \in Workers : WF_vars(WorkerStep(w))
    /\ \A t \in Clients : WF_vars(ClientStep(t))
    /\ WF_vars(OwnerStep)

Spec == Init /\ [][Next]_vars /\ Fairness
-----------------------------------------------------------------------------
(* Properties.                                                             *)

Labels == {"unborn", "idle", "gone", "init", "create", "ready", "failed", "destroyed",
           "join", "s_begin", "s_load", "s_check", "s_claim", "s_write", "s_publish",
           "s_post", "s_end", "s_full", "s_uncount", "x_load", "x_check", "x_claim",
           "x_read", "x_release", "x_run", "x_count", "w_park", "w_closed", "w_active",
           "w_baton", "exited", "g_load", "c_or", "c_spin", "c_post"}

(* The types of the variables.  active, pending and left may only be       *)
(* integers here: that they never wrap below zero is GroupZeroMeansDone's  *)
(* and DestroyReturns' business.                                           *)
TypeOK ==
    /\ sequence \in [CellIds -> Nat]
    /\ data \in [CellIds -> Tasks]
    /\ enqueue_pos \in Nat /\ dequeue_pos \in Nat
    /\ closed \in BOOLEAN
    /\ active \in Int
    /\ work_ready \in Nat
    /\ pending \in [Groups -> Int]
    /\ num_threads \in Nat
    /\ held \in SUBSET Resources
    /\ pc \in [Threads -> Labels]
    /\ pos \in [Threads -> Nat]
    /\ task \in [Threads -> Tasks]
    /\ caller \in [Threads -> {"drain", "final", "one", "wait"}]
    /\ left \in [Threads -> Int]
    /\ awaits \in [Threads -> Groups \cup {NoGroup}]
    /\ status \in [Jobs -> {"new", "submitting", "queued", "done"}]
    /\ runs \in [Jobs -> Nat]

(* Threads between their claim of a cell and the store that hands it on.   *)
InsideCell == {"s_write", "s_publish", "x_read", "x_release"}

(* job.c:97-99, 289-292: a cell's data and group are plain fields; no two  *)
(* threads are ever inside the same cell, whatever the interleaving of     *)
(* claims, laps and counter wraps.                                         *)
NoDataRace ==
    \A t, u \in Threads :
        t # u /\ pc[t] \in InsideCell /\ pc[u] \in InsideCell
            => Cell(pos[t]) # Cell(pos[u])

(* A submitted job's routine runs at most once, and only after the submit  *)
(* was accepted: no cell is handed out twice and none is read half written *)
RunsOnce ==
    \A j \in Jobs : runs[j] = IF status[j] = "done" THEN 1 ELSE 0

(* Nobody is inside the system once it is freed, and every way out of init *)
(* and destroy has released everything it acquired.                        *)
NoUseAfterFree ==
    pc[Owner] \in {"failed", "destroyed"} =>
        /\ held = {}
        /\ \A t \in Threads \ {Owner} : pc[t] \in {"unborn", "idle", "gone", "exited"}

(* The jobs a group still has to answer for.                               *)
Unfinished(g) ==
    \/ \E c \in CellIds, p \in dequeue_pos .. enqueue_pos - 1 :
          Cell(p) = c /\ sequence[c] = p + 1 /\ data[c].group = g
    \/ \E t \in Threads : /\ pc[t] \in {"s_publish", "s_write", "x_run", "x_count", "x_release"}
                          /\ task[t].group = g

(* proven_job_group_wait returns when it reads zero: a group at zero has   *)
(* no job queued, in a worker's hands, or about to touch the group's       *)
(* counter, so the caller may let the group go out of scope.               *)
GroupZeroMeansDone ==
    \A g \in Groups : pending[g] = 0 => ~Unfinished(g)

(* Every accepted job runs eventually, with no further submission and no   *)
(* help from a client: a permit spent on an empty-looking queue never      *)
(* strands a job behind a slot that was published late.                    *)
AcceptedJobRuns ==
    \A j \in Jobs : status[j] = "queued" ~> status[j] = "done"

(* Shutdown ends: every parked worker is told to stop, whatever the        *)
(* permits were spent on before, so destroy (and an init that fails with a *)
(* worker running already, job.c:247-256) returns.                         *)
DestroyReturns ==
    pc[Owner] = "c_or" ~> pc[Owner] \in {"destroyed", "failed"}

-----------------------------------------------------------------------------
(* Why NoDataRace holds: what the sequence numbers say about the ring.     *)

(* Positions in use: no more than a ring's worth lies between the ends.    *)
WindowInv ==
    /\ dequeue_pos <= enqueue_pos
    /\ enqueue_pos <= dequeue_pos + Capacity

(* Each cell is either free for, or being filled at, the position its      *)
(* number names, or it holds what was published one position earlier.      *)
CellInv ==
    \A c \in CellIds :
        \/ /\ Cell(sequence[c]) = c
           /\ enqueue_pos <= sequence[c] + Capacity
           /\ sequence[c] < dequeue_pos + Capacity
        \/ /\ sequence[c] > 0 /\ Cell(sequence[c] - 1) = c
           /\ enqueue_pos < sequence[c] + Capacity
           /\ sequence[c] <= enqueue_pos

Filling == {"s_write", "s_publish"}
Emptying == {"x_read", "x_release"}

(* What a thread knows of its position and its cell at each label.         *)
PositionOK(t) ==
    /\ pc[t] \in {"s_check", "s_claim"} => pos[t] <= enqueue_pos
    /\ pc[t] \in {"x_check", "x_claim"} => pos[t] <= dequeue_pos
    /\ pc[t] = "s_claim" /\ pos[t] = enqueue_pos
            => sequence[Cell(pos[t])] = pos[t]
    /\ pc[t] = "x_claim" /\ pos[t] = dequeue_pos
            => sequence[Cell(pos[t])] = pos[t] + 1
    /\ pc[t] \in Filling => /\ sequence[Cell(pos[t])] = pos[t]
                            /\ dequeue_pos <= pos[t] /\ pos[t] < enqueue_pos
    /\ pc[t] \in Emptying => /\ sequence[Cell(pos[t])] = pos[t] + 1
                             /\ pos[t] < dequeue_pos

PositionInv == \A t \in Threads : PositionOK(t)

DistinctInv ==
    \A t, u \in Threads : t # u =>
        /\ pc[t] \in Filling /\ pc[u] \in Filling => pos[t] # pos[u]
        /\ pc[t] \in Emptying /\ pc[u] \in Emptying => pos[t] # pos[u]

(* The inductive invariant behind NoDataRace: ring window, cell numbers    *)
(* and the claims in flight agree, job.c:76-99 and 269-292 together.       *)
RingInv == WindowInv /\ CellInv /\ PositionInv /\ DistinctInv

(* No thread sleeps between its look at a cell and its compare-exchange    *)
(* while the counter goes all the way round (2^64 claims): the one         *)
(* assumption under which comparing residues is comparing positions.       *)
NoLap ==
    \A t \in Threads :
        /\ pc[t] = "s_claim" => enqueue_pos - pos[t] < CounterRange
        /\ pc[t] = "x_claim" => dequeue_pos - pos[t] < CounterRange
-----------------------------------------------------------------------------
(* Why RunsOnce and GroupZeroMeansDone hold: where each job is.            *)

(* Threads with a job that the ring has not accepted, and threads that     *)
(* have taken one out and not run it yet.                                  *)
Offering == {"s_begin", "s_load", "s_check", "s_claim", "s_write", "s_publish", "s_full"}
Running == {"x_release", "x_run"}

(* A published cell whose job no thread has copied out yet.                *)
Holds(c) ==
    /\ sequence[c] > 0 /\ Cell(sequence[c] - 1) = c
    /\ \A t \in Threads : pc[t] = "x_release" => Cell(pos[t]) # c

ThreadHasJob(t) ==
    /\ pc[t] \in Offering => /\ task[t].job \in Jobs
                             /\ status[task[t].job] = "submitting"
    /\ pc[t] \in Running => /\ task[t].job \in Jobs
                            /\ status[task[t].job] = "queued"
    /\ pc[t] = "s_publish" => data[Cell(pos[t])] = task[t]

CellHasJob(c) ==
    Holds(c) => data[c].job \in Jobs /\ status[data[c].job] = "queued"

(* One job, one place.                                                     *)
OnePlace ==
    /\ \A t, u \in Threads : t # u =>
          /\ pc[t] \in Offering /\ pc[u] \in Offering => task[t].job # task[u].job
          /\ pc[t] \in Running /\ pc[u] \in Running => task[t].job # task[u].job
    /\ \A c, d \in CellIds :
          c # d /\ Holds(c) /\ Holds(d) => data[c].job # data[d].job
    /\ \A t \in Threads, c \in CellIds :
          pc[t] \in Running /\ Holds(c) => task[t].job # data[c].job

(* The inductive invariant behind RunsOnce: a job that is out is in        *)
(* exactly one thread's hands or in exactly one cell.                      *)
JobInv ==
    /\ \A t \in Threads : ThreadHasJob(t)
    /\ \A c \in CellIds : CellHasJob(c)
    /\ OnePlace
    /\ RunsOnce

(* Threads that hold one count of their task's group, and cells that do.   *)
Counting == Offering \cup Running \cup {"s_uncount", "x_count"}
ThreadsFor(g) == {t \in Threads : pc[t] \in Counting /\ task[t].group = g}
CellsFor(g) == {c \in CellIds : Holds(c) /\ data[c].group = g}

(* The inductive invariant behind GroupZeroMeansDone: a group's counter is *)
(* the number of threads and cells that still have a job of it.            *)
CountInv ==
    \A g \in Groups :
        /\ IsFiniteSet(ThreadsFor(g))
        /\ pending[g] = Cardinality(ThreadsFor(g)) + Cardinality(CellsFor(g))

(* Jobs whose submitter has won a position of the ring.                    *)
Claimed ==
    {j \in Jobs : \/ status[j] \in {"queued", "done"}
                  \/ \E t \in Threads : pc[t] \in Filling /\ task[t].job = j}

(* Why NoLap holds of a system that is given fewer jobs than the counter   *)
(* has values: a position is won for a job, and never twice for one.       *)
ClaimInv ==
    /\ IsFiniteSet(Claimed) /\ enqueue_pos = StartPos + Cardinality(Claimed)
    /\ dequeue_pos >= StartPos
    /\ \A t \in Threads : pos[t] >= StartPos

(* What follows for the two ends of the ring: no more positions have been   *)
(* taken out than jobs put in, and no more put in than that and a ring's    *)
(* worth (job.c:76-99 and 269-292).                                         *)
EndsInOrder ==
    LET taken == dequeue_pos - StartPos
    IN  /\ 0 <= taken /\ taken <= Cardinality(Claimed)
        /\ Cardinality(Claimed) <= taken + Capacity
        /\ Claimed \subseteq Jobs

(* Why NoUseAfterFree holds: who may be at work while the owner is where.  *)
LifeInv ==
    /\ pc[Owner] # "ready" => \A t \in Clients : pc[t] \in {"idle", "gone"}
    /\ pc[Owner] = "init" => \A w \in Workers : pc[w] = "unborn"
    /\ pc[Owner] \in {"failed", "destroyed"} =>
          held = {} /\ \A w \in Workers : pc[w] \in {"unborn", "exited"}

(* The scheduler's inductive invariant, whole: types, the ring, where each *)
(* job is, what the groups count, what positions were won for, and who may *)
(* be at work while the system is set up and taken down.                   *)
SchedulerInv == TypeOK /\ RingInv /\ JobInv /\ CountInv /\ ClaimInv /\ LifeInv
=============================================================================
