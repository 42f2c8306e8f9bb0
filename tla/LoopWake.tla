----------------------------- MODULE LoopWake -----------------------------
(***************************************************************************)
(* src/net/src/loop.c: the part of the event loop that other threads       *)
(* touch, and the order of a round.  proven_loop_post pushes a task on a   *)
(* lock-free stack and wakes the loop; proven_loop_stop sets a flag and    *)
(* wakes it.  The loop's thread takes the whole stack at two places of a   *)
(* round (proven_loop_poll), runs what was asked for "after this round",   *)
(* delivers the done list, and sleeps only when it owes nothing.           *)
(*                                                                         *)
(* The waker is a socket pair over the selector (level triggered, drained  *)
(* when it is reported) and one queued post over the completion port (the  *)
(* flag `woken` says that it is on its way).  What the done list and the   *)
(* sockets' events hold is LoopSelector's subject: here they are a number  *)
(* of callbacks.  Timers are LoopTimers' subject: without one the loop     *)
(* sleeps until something wakes it, which is the case that can hang.       *)
(***************************************************************************)
EXTENDS Integers, Sequences, SequencesExt, FiniteSets

CONSTANTS
    Threads,     \* threads other than the loop's that post and stop
    Main,        \* the loop's thread
    Cells,       \* the memory the allocator hands out for tasks
    Null,        \* the null task
    Afters,      \* the proven_loop_after_t objects
    Backends,    \* TRUE: a completion port; FALSE: a selector
    PostFails,   \* whether proven_sys_net_port_post may fail
    WaitFails,   \* whether waiting itself may fail
    DonePasses,  \* LOOP_DONE_PASSES
    PipeSize,    \* wakes the waker's pipe holds; one more is "would block"
    MaxPosts,    \* bound: posts of all threads
    MaxQueued    \* bound: entries on the done list and socket events, at a time

ASSUME WakeAssumption ==
    /\ Main \notin Threads /\ Null \notin Cells /\ IsFiniteSet(Cells)
    /\ Backends \subseteq BOOLEAN /\ PostFails \in BOOLEAN /\ WaitFails \in BOOLEAN
    /\ DonePasses \in Nat \ {0} /\ PipeSize \in Nat \ {0}
    /\ MaxPosts \in Nat /\ MaxQueued \in Nat

VARIABLES
    tasks,    \* the head of the stack: a cell, or Null
    next,     \* [cell -> the cell below it]
    task,     \* [cell -> the task in it; 0: the cell is free]
    woken,    \* a post to the port is on its way
    signals,  \* bytes in the waker's pipe, or posts in the port
    stop,     \* the stop flag
    pc,       \* [thread -> where it is in post or stop]
    cell,     \* [thread -> the cell it is posting]
    at,       \* step of the round the loop's thread is in; 0: in run's loop
    running,  \* proven_loop_run has not returned
    inside,   \* a callback runs (or, outside run, the program itself)
    ordered,  \* the cells taken off the stack, oldest first
    left,     \* entries left of the pass of loop_run_after or loop_run_done
    pass,     \* passes begun of the step under way
    after,    \* the "after this round" list
    done,     \* entries on the done list
    events,   \* socket events not yet reported
    batch,    \* what the wait took and is not looked at yet, and its count
    looks,    \* times the port was looked at in this round
    mayWait,  \* until is not PROVEN_NET_DONT_WAIT
    destroyed,
    port,     \* what proven_loop_create found: l->port, or the selector
    refused,  \* history: the port has refused a post
    posts,    \* posts so far (bound), and the number of the last task
    posted,   \* history: tasks in the order they were pushed
    ran       \* history: tasks in the order they were called

stackVars == <<tasks, next, task, cell>>
lifeVars == <<destroyed, port, refused>>
roundVars == <<at, ordered, left, pass, batch, looks, mayWait>>
vars == <<stackVars, woken, signals, stop, pc, roundVars, running, inside,
          after, done, events, lifeVars, posts, posted, ran>>

All == Threads \cup {Main}

(* proven_loop_poll, in its order. *)
Round == <<"after", "done", "decide", "tasks", "wait", "reports", "again", "look",
           "done", "timers", "done", "tasks", "done", "after", "after", "done">>
Reports == 6
AfterReports == 9
Step == IF at = 0 THEN "run" ELSE Round[at]

Init ==
    /\ tasks = Null /\ next = [c \in Cells |-> Null] /\ task = [c \in Cells |-> 0]
    /\ woken = FALSE /\ signals = 0 /\ stop = FALSE
    /\ pc = [t \in All |-> "idle"] /\ cell = [t \in All |-> Null]
    /\ at = 0 /\ running = FALSE /\ inside = TRUE
    /\ ordered = <<>> /\ left = 0 /\ pass = 0
    /\ after = <<>> /\ done = 0 /\ events = 0
    /\ batch = [wake |-> FALSE, events |-> 0, count |-> 0] /\ looks = 0 /\ mayWait = FALSE
    /\ destroyed = FALSE /\ port \in Backends /\ refused = FALSE /\ posts = 0
    /\ posted = <<>> /\ ran = <<>>

---------------------------------------------------------------------------
(* Posting and stopping.  The loop's own thread does so from a callback.   *)

Free(t) == pc[t] = "idle" /\ ~destroyed /\ (t = Main => inside)
Goto(t, l) == pc' = [pc EXCEPT ![t] = l]

(* proven_loop_post: the entry is allocated and filled, and the head read. *)
PostBegin(t) ==
    /\ Free(t) /\ posts < MaxPosts
    /\ \E c \in Cells :
        /\ task[c] = 0
        /\ task' = [task EXCEPT ![c] = posts + 1]
        /\ next' = [next EXCEPT ![c] = tasks]
        /\ cell' = [cell EXCEPT ![t] = c]
    /\ posts' = posts + 1
    /\ Goto(t, "push")
    /\ UNCHANGED <<tasks, woken, signals, stop, roundVars, running, inside, after,
                   done, events, lifeVars, posted, ran>>

(* Mutant: the wake is left to the thread that pushed first.               *)
PushNoWake(t) ==
    /\ IF next[cell[t]] = tasks
       THEN tasks' = cell[t] /\ posted' = Append(posted, task[cell[t]])
            /\ Goto(t, "idle") /\ UNCHANGED next
       ELSE next' = [next EXCEPT ![cell[t]] = tasks] /\ UNCHANGED <<tasks, posted, pc>>

(* The compare-and-exchange; a head that has moved is read into t->next.   *)
PushCas(t) ==
    /\ IF next[cell[t]] = tasks
       THEN tasks' = cell[t] /\ posted' = Append(posted, task[cell[t]])
            /\ Goto(t, "wake") /\ UNCHANGED next
       ELSE next' = [next EXCEPT ![cell[t]] = tasks] /\ UNCHANGED <<tasks, posted, pc>>
Push(t) ==
    /\ pc[t] = "push"
    /\ PushCas(t)
    /\ UNCHANGED <<task, cell, woken, signals, stop, roundVars, running, inside, after,
                   done, events, lifeVars, posts, ran>>

(* proven_loop_stop. *)
Stop(t) ==
    /\ Free(t)
    /\ stop' = TRUE /\ Goto(t, "wake")
    /\ UNCHANGED <<stackVars, woken, signals, roundVars, running, inside, after, done,
                   events, lifeVars, posts, posted, ran>>

(* loop_wake over the selector: a byte into the pipe, unless it is full.   *)
WakeSelector(t) ==
    /\ pc[t] = "wake" /\ ~port
    /\ signals' = (IF signals < PipeSize THEN signals + 1 ELSE signals) /\ Goto(t, "idle")
    /\ UNCHANGED <<stackVars, woken, stop, roundVars, running, inside, after, done, events,
                   lifeVars, posts, posted, ran>>

(* loop_wake over the port: the exchange of `woken`, then the post.        *)
WakePort(t) ==
    /\ pc[t] = "wake" /\ port
    /\ woken' = TRUE /\ Goto(t, IF woken THEN "idle" ELSE "post")
    /\ UNCHANGED <<stackVars, signals, stop, roundVars, running, inside, after, done,
                   events, lifeVars, posts, posted, ran>>

PortPost(t) ==
    /\ pc[t] = "post"
    /\ \/ signals' = signals + 1 /\ Goto(t, "idle") /\ UNCHANGED refused
       \/ PostFails /\ Goto(t, "unwake") /\ refused' = TRUE /\ UNCHANGED signals
    /\ UNCHANGED <<stackVars, woken, stop, roundVars, running, inside, after, done, events,
                   destroyed, port, posts, posted, ran>>

PostFailed(t) ==
    /\ pc[t] = "unwake"
    /\ woken' = FALSE /\ Goto(t, "idle")
    /\ UNCHANGED <<stackVars, signals, stop, roundVars, running, inside, after, done,
                   events, lifeVars, posts, posted, ran>>

---------------------------------------------------------------------------
(* What a callback may ask of the loop, besides posting and stopping.      *)

(* proven_loop_after_: asking again while one waits changes nothing. *)
After(a) ==
    /\ Free(Main)
    /\ a \notin Range(after)
    /\ after' = Append(after, a)
    /\ UNCHANGED <<stackVars, woken, signals, stop, pc, roundVars, running, inside, done,
                   events, lifeVars, posts, posted, ran>>

(* proven_loop_after_cancel_. *)
AfterCancel(a) ==
    /\ Free(Main)
    /\ \E i \in DOMAIN after : after[i] = a /\ after' = RemoveAt(after, i)
    /\ UNCHANGED <<stackVars, woken, signals, stop, pc, roundVars, running, inside, done,
                   events, lifeVars, posts, posted, ran>>

(* Anything that is answered from the done list. *)
Queue ==
    /\ Free(Main) /\ done + events < MaxQueued
    /\ done' = done + 1
    /\ UNCHANGED <<stackVars, woken, signals, stop, pc, roundVars, running, inside, after,
                   events, lifeVars, posts, posted, ran>>

(* A callback returns. *)
Return ==
    /\ running /\ inside /\ pc[Main] = "idle"
    /\ inside' = FALSE
    /\ UNCHANGED <<stackVars, woken, signals, stop, pc, roundVars, running, after, done,
                   events, lifeVars, posts, posted, ran>>

---------------------------------------------------------------------------
(* The round.  `at` stands at the step under way; the loop's thread moves  *)
(* only while no callback runs.                                            *)

OnLoop(s) == running /\ ~inside /\ Step = s
NextStep == IF at = Len(Round) THEN 0 ELSE at + 1
Enter(n) ==
    /\ at' = n
    /\ pass' = 0
    /\ left' = IF n # 0 /\ Round[n] = "after" THEN Len(after) ELSE 0

(* proven_loop_run. *)
Run ==
    /\ ~running /\ ~destroyed /\ pc[Main] = "idle"
    /\ running' = TRUE /\ inside' = FALSE
    /\ UNCHANGED <<stackVars, woken, signals, stop, pc, roundVars, after, done, events,
                   lifeVars, posts, posted, ran>>

(* No stop is seen: another round, without a deadline.  The stop flag is   *)
(* put back after it was seen, in a step of its own.                       *)
RunLoads ==
    /\ OnLoop("run") /\ pc[Main] = "idle"
    /\ IF stop THEN Goto(Main, "stopping") /\ UNCHANGED <<at, pass, left, mayWait>>
       ELSE Enter(1) /\ mayWait' = TRUE /\ UNCHANGED pc
    /\ UNCHANGED <<stackVars, woken, signals, stop, ordered, batch, looks, running, inside, after,
                   done, events, lifeVars, posts, posted, ran>>

RunReturns ==
    /\ pc[Main] = "stopping"
    /\ stop' = FALSE
    /\ running' = FALSE /\ inside' = TRUE /\ Goto(Main, "idle")
    /\ UNCHANGED <<stackVars, woken, signals, roundVars, after, done, events, lifeVars,
                   posts, posted, ran>>

(* loop_run_after: as many as were waiting when it began. *)
PopOnly == after' = Tail(after) /\ left' = left     \* mutant: not counted
PopAfter == after' = Tail(after) /\ left' = left - 1
RunAfter ==
    /\ OnLoop("after")
    /\ IF left > 0 /\ after # <<>>
       THEN /\ PopAfter /\ inside' = TRUE
            /\ UNCHANGED <<at, pass>>
       ELSE Enter(NextStep) /\ UNCHANGED <<after, inside>>
    /\ UNCHANGED <<stackVars, woken, signals, stop, pc, ordered, batch, looks, mayWait, running,
                   done, events, lifeVars, posts, posted, ran>>

(* loop_run_done: the list is taken whole, up to LOOP_DONE_PASSES times;   *)
(* "again" is the port's, between two looks.                               *)
RunDone ==
    /\ OnLoop("done") \/ OnLoop("again")
    /\ \/ left > 0 /\ left' = left - 1 /\ inside' = TRUE /\ UNCHANGED <<at, pass, done>>
       \/ left = 0 /\ done > 0 /\ pass < DonePasses
          /\ left' = done /\ done' = 0 /\ pass' = pass + 1 /\ UNCHANGED <<at, inside>>
       \/ left = 0 /\ (done = 0 \/ pass = DonePasses)
          /\ Enter(NextStep) /\ UNCHANGED <<done, inside>>
    /\ UNCHANGED <<stackVars, woken, signals, stop, pc, ordered, batch, looks, mayWait,
                   running, after, events, lifeVars, posts, posted, ran>>

(* What was asked for meanwhile must not wait behind the sleep. *)
MaySleep == after = <<>> /\ done = 0
Decide ==
    /\ OnLoop("decide")
    /\ mayWait' = (mayWait /\ MaySleep)
    /\ Enter(NextStep)
    /\ UNCHANGED <<stackVars, woken, signals, stop, pc, ordered, batch, looks, running, inside,
                   after, done, events, lifeVars, posts, posted, ran>>

(* The cells from a head h down, newest first. *)
Down(s, h) ==
    /\ h = IF s = <<>> THEN Null ELSE s[1]
    /\ \A i \in DOMAIN s : next[s[i]] = IF i = Len(s) THEN Null ELSE s[i + 1]
Stacks == UNION {[1 .. n -> Cells] : n \in 0 .. Cardinality(Cells)}
Chain(h) == CHOOSE s \in Stacks : Down(s, h)

(* loop_run_tasks: the stack is taken whole and turned round... *)
InOrder(s) == Reverse(s)
TakeTasks ==
    /\ OnLoop("tasks") /\ ordered = <<>> /\ pass = 0
    /\ ordered' = InOrder(Chain(tasks))
    /\ tasks' = Null
    /\ mayWait' = (mayWait /\ tasks = Null)
    /\ pass' = 1
    /\ UNCHANGED <<next, task, cell, woken, signals, stop, pc, at, left, batch, looks, running,
                   inside, after, done, events, lifeVars, posts, posted, ran>>

(* ... and each entry is given back before its function is called. *)
RunTask ==
    /\ OnLoop("tasks") /\ pass = 1
    /\ IF ordered # <<>>
       THEN /\ ran' = Append(ran, task[Head(ordered)])
            /\ task' = [task EXCEPT ![Head(ordered)] = 0]
            /\ ordered' = Tail(ordered)
            /\ inside' = TRUE
            /\ UNCHANGED <<at, pass, left>>
       ELSE Enter(NextStep) /\ UNCHANGED <<ran, task, ordered, inside>>
    /\ UNCHANGED <<tasks, next, cell, woken, signals, stop, pc, batch, looks, mayWait, running,
                   after, done, events, lifeVars, posts, posted>>

(* The wait: over when something is there, or at once when it may not.     *)
(* The port's reports are taken out of it; a readable waker stays so.      *)
Sleeping == OnLoop("wait") /\ mayWait /\ signals = 0 /\ events = 0
Collected ==
    /\ batch' = [wake |-> signals > 0, events |-> events,
                 count |-> events + (IF signals > 0 THEN 1 ELSE 0)]
    /\ events' = 0
    /\ signals' = IF port THEN 0 ELSE signals
Collect ==
    /\ OnLoop("wait") /\ ~Sleeping
    /\ Collected
    /\ looks' = 1
    /\ Enter(Reports)
    /\ UNCHANGED <<stackVars, woken, stop, pc, ordered, mayWait, running, inside, after,
                   done, lifeVars, posts, posted, ran>>

(* An accept or a receive armed again is answered by the port: it is       *)
(* looked at again, without waiting, up to LOOP_DONE_PASSES times.         *)
LookAgain ==
    /\ OnLoop("look")
    /\ \/ Collected /\ looks' = looks + 1 /\ Enter(Reports)
       \/ WaitFails /\ Enter(AfterReports) /\ UNCHANGED <<batch, looks, events, signals>>
    /\ UNCHANGED <<stackVars, woken, stop, pc, ordered, mayWait, running, inside, after,
                   done, lifeVars, posts, posted, ran>>

(* The wait fails: proven_loop_poll and proven_loop_run return its error.  *)
WaitFailed ==
    /\ OnLoop("wait") /\ WaitFails
    /\ Enter(0) /\ running' = FALSE /\ inside' = TRUE
    /\ UNCHANGED <<stackVars, woken, signals, stop, pc, ordered, batch, looks, mayWait, after, done,
                   events, lifeVars, posts, posted, ran>>

(* The waker's report: the flag is cleared before the posts are looked at; *)
(* over the selector the pipe is drained.                                  *)
DrainOnly == woken' = woken /\ signals' = IF port THEN signals ELSE 0     \* mutant
Quiet == woken' = FALSE /\ signals' = IF port THEN signals ELSE 0
ReportWake ==
    /\ OnLoop("reports") /\ batch.wake
    /\ batch' = [batch EXCEPT !.wake = FALSE]
    /\ Quiet
    /\ UNCHANGED <<stackVars, stop, pc, at, ordered, left, pass, looks, mayWait, running, inside,
                   after, done, events, lifeVars, posts, posted, ran>>

ReportEvent ==
    /\ OnLoop("reports") /\ batch.events > 0
    /\ batch' = [batch EXCEPT !.events = @ - 1]
    /\ inside' = TRUE
    /\ UNCHANGED <<stackVars, woken, signals, stop, pc, at, ordered, left, pass, looks, mayWait,
                   running, after, done, events, lifeVars, posts, posted, ran>>

MoreLooks == looks < DonePasses
ReportsEnd ==
    /\ OnLoop("reports") /\ ~batch.wake /\ batch.events = 0
    /\ Enter(IF port /\ batch.count > 0 /\ MoreLooks THEN NextStep ELSE AfterReports)
    /\ UNCHANGED <<stackVars, woken, signals, stop, pc, ordered, batch, looks, mayWait,
                   running, inside, after, done, events, lifeVars, posts, posted, ran>>

TimersAdvance ==
    /\ OnLoop("timers")
    /\ Enter(NextStep)
    /\ UNCHANGED <<stackVars, woken, signals, stop, pc, ordered, batch, looks, mayWait, running,
                   inside, after, done, events, lifeVars, posts, posted, ran>>

---------------------------------------------------------------------------
(* External: a socket has something to report. *)
EventArrives ==
    /\ done + events < MaxQueued /\ ~destroyed
    /\ events' = events + 1
    /\ UNCHANGED <<stackVars, woken, signals, stop, pc, roundVars, running, inside, after,
                   done, lifeVars, posts, posted, ran>>

(* proven_loop_destroy frees the posts never run; no thread may be in one. *)
Dropped == {c \in Cells : c \in Range(Chain(tasks))}
Destroy ==
    /\ ~running /\ ~destroyed /\ \A t \in All : pc[t] = "idle"
    /\ destroyed' = TRUE
    /\ task' = [c \in Cells |-> IF c \in Dropped THEN 0 ELSE task[c]]
    /\ tasks' = Null /\ done' = 0
    /\ UNCHANGED <<next, cell, woken, signals, stop, pc, roundVars, running, inside, after,
                   events, port, refused, posts, posted, ran>>

Poster(t) ==
    \/ PostBegin(t) \/ Push(t) \/ Stop(t)
    \/ WakeSelector(t) \/ WakePort(t) \/ PortPost(t) \/ PostFailed(t)
Finish(t) == Push(t) \/ WakeSelector(t) \/ WakePort(t) \/ PortPost(t) \/ PostFailed(t)
Asks == (\E a \in Afters : After(a) \/ AfterCancel(a)) \/ Queue
Loop ==
    \/ Return \/ RunLoads \/ RunReturns \/ RunAfter \/ RunDone \/ Decide
    \/ TakeTasks \/ RunTask \/ Collect
    \/ ReportWake \/ ReportEvent \/ LookAgain \/ ReportsEnd \/ TimersAdvance
    \/ Finish(Main)

Next == (\E t \in All : Poster(t)) \/ Asks \/ Run \/ Loop \/ WaitFailed \/ EventArrives \/ Destroy

Spec == Init /\ [][Next]_vars

(* A thread inside post or stop gets out, and the loop's thread goes on as *)
(* long as it can: the operating system schedules both.  A wait may fail,  *)
(* and is not bound to.  A callback returns, whatever it calls: "a         *)
(* callback must not wait" (loop.h).                                       *)
FairSpec == Spec /\ WF_vars(Loop) /\ SF_vars(Return) /\ \A t \in Threads : WF_vars(Finish(t))

---------------------------------------------------------------------------
(* What the runs check *)

TypeOK ==
    /\ tasks \in Cells \cup {Null}
    /\ next \in [Cells -> Cells \cup {Null}]
    /\ task \in [Cells -> 0 .. MaxPosts]
    /\ woken \in BOOLEAN /\ stop \in BOOLEAN /\ refused \in BOOLEAN /\ destroyed \in BOOLEAN
    /\ port \in BOOLEAN /\ signals \in 0 .. IF port THEN 1 ELSE PipeSize
    /\ pc \in [All -> {"idle", "push", "wake", "post", "unwake", "stopping"}]
    /\ cell \in [All -> Cells \cup {Null}]
    /\ at \in 0 .. Len(Round) /\ looks \in 0 .. DonePasses /\ pass \in 0 .. DonePasses
    /\ batch \in [wake : BOOLEAN, events : Nat, count : Nat]
    /\ running \in BOOLEAN /\ inside \in BOOLEAN /\ mayWait \in BOOLEAN
    /\ ordered \in Seq(Cells) /\ after \in Seq(Afters)
    /\ left \in Nat /\ done \in Nat /\ events \in Nat /\ posts \in 0 .. MaxPosts
    /\ posted \in Seq(Nat) /\ ran \in Seq(Nat)

TasksIn(cs) == [i \in 1 .. Len(cs) |-> task[cs[i]]]

(* "Functions are called in the order posted" (loop.h), none lost and none *)
(* twice, whatever cells the allocator gives out again while a thread      *)
(* still holds a head it read: what was called, what is taken and what is  *)
(* on the stack are, end to end, what was pushed.  Every entry of memory   *)
(* in use is on the stack, taken, or being posted, and none is after       *)
(* proven_loop_destroy: no post leaks, none is freed while it can be       *)
(* reached.                                                                *)
InPostOrder ==
    /\ TypeOK
    /\ ~destroyed => ran \o TasksIn(ordered) \o Reverse(TasksIn(Chain(tasks))) = posted
    /\ {c \in Cells : task[c] # 0} =
          Range(Chain(tasks)) \cup Range(ordered) \cup {cell[t] : t \in {u \in All : pc[u] = "push"}}

(* No wake-up is lost: while the loop sleeps without a deadline although   *)
(* there is a post or a stop, some thread is still about to wake it.  A    *)
(* refused post is the one exception (loop_wake ignores the refusal).  Nor *)
(* does it sleep on something it owes a callback for: what was asked for   *)
(* after this round, or waits on the done list.                            *)
NoLostWake ==
    Sleeping =>
        /\ ~refused /\ (tasks # Null \/ stop) =>
            \E t \in All : pc[t] = "post" \/ (pc[t] = "wake" /\ ~(port /\ woken))
        /\ after = <<>> /\ done = 0 /\ ordered = <<>>

Pushers == {t \in All : pc[t] = "push"}
Stack == Chain(tasks)
Injective(s) == \A i, j \in DOMAIN s : s[i] = s[j] => i = j

(* An entry is in one place: on the stack, taken off it, or with the       *)
(* thread that posts it.                                                   *)
CellInv ==
    /\ Stack \in Stacks /\ Down(Stack, tasks)
    /\ Injective(Stack) /\ Injective(ordered)
    /\ Range(Stack) \cap Range(ordered) = {}
    /\ \A t \in Pushers : cell[t] \in Cells \ (Range(Stack) \cup Range(ordered))
    /\ \A t, u \in Pushers : cell[t] = cell[u] => t = u
    /\ {c \in Cells : task[c] # 0} =
          Range(Stack) \cup Range(ordered) \cup {cell[t] : t \in Pushers}

(* What was posted: called, then taken, then on the stack, newest first.   *)
OrderInv ==
    LET n == Len(posted) IN
    ~destroyed =>
        /\ n = Len(ran) + Len(ordered) + Len(Stack)
        /\ \A i \in DOMAIN ran : posted[i] = ran[i]
        /\ \A i \in DOMAIN ordered : posted[Len(ran) + i] = task[ordered[i]]
        /\ \A i \in DOMAIN Stack : posted[n + 1 - i] = task[Stack[i]]

(* Of the port one wake-up at a time is on its way: with the thread that   *)
(* posts it, in the port, or taken out and not yet looked at.              *)
Posting == {t \in All : pc[t] \in {"post", "unwake"}}
WakeInv ==
    /\ batch.wake => at = Reports
    /\ ~port => ~woken /\ Posting = {}
    /\ port =>
        /\ \A t, u \in Posting : t = u
        /\ Posting # {} => signals = 0 /\ ~batch.wake
        /\ ~(signals = 1 /\ batch.wake)
        /\ woken <=> Posting # {} \/ signals = 1 \/ batch.wake
    /\ (\E t \in All : pc[t] = "unwake") => refused

(* Where in a round the loop's thread can owe what.                        *)
RoundInv ==
    /\ ~running => at = 0
    /\ pc[Main] = "stopping" => at = 0
    /\ ordered # <<>> => at \in {4, 12} /\ pass = 1
    /\ at \in {7, 8} => looks < DonePasses
    /\ at \in {4, 5} /\ mayWait => after = <<>> /\ done = 0 /\ ordered = <<>> /\ ~inside

(* From the look that found nothing on, whoever posts or stops wakes.      *)
Waking == signals > 0 \/ \E t \in All : pc[t] \in {"wake", "post"}
SleepInv ==
    mayWait /\ ~refused =>
        /\ at \in 1 .. 5 /\ stop => Waking
        /\ (at = 5 \/ (at = 4 /\ pass = 1)) /\ tasks # Null => Waking

PostInv == TypeOK /\ CellInv /\ OrderInv /\ WakeInv /\ RoundInv /\ SleepInv

(* What is posted to a loop runs once, in order, and is never slept over.  *)
PostsAreServed == InPostOrder /\ NoLostWake

(* A function posted while the loop runs is called, "soon" (loop.h), or    *)
(* the loop is stopped, or the port refused the wake-up.                   *)
PostedIsCalled ==
    \A i \in 1 .. MaxPosts :
        (i \in Range(posted) /\ running) ~> (i \in Range(ran) \/ ~running \/ refused)

(* A callback that always asks again, of the done list or of the list run  *)
(* after the round, does not keep the loop from its sockets.               *)
RoundsGoOn == []<>(~running \/ Step = "wait")
=============================================================================
