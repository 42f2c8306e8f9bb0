--------------------------- MODULE LoopWakeProofs ---------------------------
(***************************************************************************)
(* The stack of posts, the wake-up and the order of a round, for every set *)
(* of threads, of memory cells and of after objects, both backends, and    *)
(* every bound: PostInv is an invariant, and PostsAreServed follows.       *)
(***************************************************************************)
EXTENDS LoopWake, SequenceTheorems, WellFoundedInduction, FiniteSetTheorems, TLAPS

(* A set of natural numbers that is not empty has a least element.         *)
LEMMA LeastOf ==
    ASSUME NEW T \in SUBSET Nat, T # {}
    PROVE  \E m \in T : \A k \in T : m <= k
<1>1. PICK m \in T : \A k \in T : ~ (<<k, m>> \in OpToRel(<, Nat))
  BY NatLessThanWellFounded, WFMin, Zenon
<1>2. \A k \in T : ~ (k < m)
  BY <1>1, Zenon DEF OpToRel
<1> QED
  BY <1>2

---------------------------------------------------------------------------
(* The stack.                                                              *)

LEMMA StackIsSeq ==
    ASSUME NEW s \in Stacks
    PROVE  /\ s \in Seq(Cells) /\ Len(s) \in 0 .. Cardinality(Cells)
           /\ DOMAIN s = 1 .. Len(s) /\ \A i \in 1 .. Len(s) : s[i] \in Cells
<1>1. PICK n \in 0 .. Cardinality(Cells) : s \in [1 .. n -> Cells]
  BY DEF Stacks
<1>2. Cardinality(Cells) \in Nat
  BY FS_CardinalityType, WakeAssumption
<1>3. n \in Nat
  BY <1>2
<1>4. s \in Seq(Cells) /\ Len(s) = n
  BY <1>1, <1>3
<1> QED
  BY <1>1, <1>4

LEMMA SeqIsStack ==
    ASSUME NEW s \in Seq(Cells), Injective(s)
    PROVE  s \in Stacks
<1>1. Cardinality(Cells) \in Nat /\ IsFiniteSet(Cells)
  BY FS_CardinalityType, WakeAssumption
<1>2. Len(s) \in Nat /\ s \in [1 .. Len(s) -> Cells]
  OBVIOUS
<1>3. s \in Injection(1 .. Len(s), Cells)
  BY <1>2 DEF Injective, Injection, IsInjective
<1>4. Cardinality(1 .. Len(s)) <= Cardinality(Cells)
  BY <1>1, <1>3, FS_Injection
<1>5. Cardinality(1 .. Len(s)) = Len(s)
  BY <1>2, FS_Interval
<1> QED
  BY <1>1, <1>2, <1>4, <1>5 DEF Stacks

(* Two descents from one head agree as far as the first goes.              *)
LEMMA DescentsAgree ==
    ASSUME NEW h, NEW s \in Stacks, NEW t \in Stacks, Down(s, h), Down(t, h)
    PROVE  \A i \in 1 .. Len(s) : i <= Len(t) /\ t[i] = s[i]
<1> DEFINE T == {i \in 1 .. Len(s) : ~(i <= Len(t) /\ t[i] = s[i])}
<1>1. SUFFICES ASSUME T # {} PROVE FALSE
  OBVIOUS
<1>2. Len(s) \in Nat /\ Len(t) \in Nat /\ Null \notin Cells
  BY StackIsSeq, WakeAssumption
<1>3. T \in SUBSET Nat
  BY <1>2
<1>4. PICK m \in T : \A k \in T : m <= k
  BY <1>1, <1>3, LeastOf
<1>5. m \in 1 .. Len(s) /\ s[m] \in Cells
  BY StackIsSeq
<1>6. CASE m = 1
  <2>1. s # <<>> /\ s[1] = h
    BY <1>2, <1>5, <1>6, StackIsSeq DEF Down
  <2>2. t # <<>> /\ t[1] = h
    BY <1>2, <1>5, <1>6, <2>1 DEF Down
  <2>3. 1 <= Len(t)
    BY <1>2, <2>2, StackIsSeq
  <2> QED
    BY <1>4, <1>6, <2>1, <2>2, <2>3
<1>7. CASE m # 1
  <2>1. m - 1 \in 1 .. Len(s) /\ m - 1 \notin T
    BY <1>2, <1>4, <1>5, <1>7
  <2>2. m - 1 <= Len(t) /\ t[m - 1] = s[m - 1]
    BY <2>1
  <2>3. m - 1 \in DOMAIN s /\ m - 1 \in DOMAIN t
    BY <1>2, <2>1, <2>2, StackIsSeq
  <2>4. next[s[m - 1]] = s[m]
    BY <1>2, <1>5, <2>1, <2>3 DEF Down
  <2>5. m - 1 # Len(t) /\ t[m] = s[m]
    BY <1>2, <1>5, <2>2, <2>3, <2>4 DEF Down
  <2> QED
    BY <1>2, <1>4, <1>5, <2>2, <2>5
<1> QED
  BY <1>6, <1>7

(* What goes down from the head is the stack.                              *)
LEMMA StackIs ==
    \A s \in Stacks : Down(s, tasks) => Stack = s
<1> SUFFICES ASSUME NEW s \in Stacks, Down(s, tasks) PROVE Stack = s
  OBVIOUS
<1>1. Stack \in Stacks /\ Down(Stack, tasks)
  BY DEF Stack, Chain
<1>2. \A i \in 1 .. Len(s) : i <= Len(Stack) /\ Stack[i] = s[i]
  BY <1>1, DescentsAgree
<1>3. \A i \in 1 .. Len(Stack) : i <= Len(s) /\ s[i] = Stack[i]
  BY <1>1, DescentsAgree
<1>4. Len(s) \in Nat /\ Len(Stack) \in Nat /\ s \in Seq(Cells) /\ Stack \in Seq(Cells)
  BY <1>1, StackIsSeq
<1>5. Len(s) <= Len(Stack) /\ Len(Stack) <= Len(s)
  <2>1. CASE Len(s) = 0 \/ Len(Stack) = 0
    BY <1>2, <1>3, <1>4, <2>1
  <2>2. CASE Len(s) # 0 /\ Len(Stack) # 0
    BY <1>2, <1>3, <1>4, <2>2
  <2> QED
    BY <2>1, <2>2
<1> QED
  BY <1>2, <1>4, <1>5, SeqEqual

---------------------------------------------------------------------------
(* The round.                                                              *)

LEMMA Steps ==
    ASSUME TypeOK
    PROVE  /\ Len(Round) = 16 /\ at \in 0 .. 16
           /\ Step = "run" => at = 0
           /\ Step = "after" => at \in {1, 14, 15}
           /\ Step = "done" => at \in {2, 9, 11, 13, 16}
           /\ Step = "decide" => at = 3
           /\ Step = "tasks" => at \in {4, 12}
           /\ Step = "wait" => at = 5
           /\ Step = "reports" => at = 6
           /\ Step = "again" => at = 7
           /\ Step = "look" => at = 8
           /\ Step = "timers" => at = 10
<1>1. Len(Round) = 16
  BY DEF Round
<1>2. at \in 0 .. 16
  BY <1>1 DEF TypeOK
<1>3. at \in {0, 1, 2, 3, 4, 5, 6, 7, 8, 9, 10, 11, 12, 13, 14, 15, 16}
  BY <1>2
<1> QED
  BY <1>1, <1>2, <1>3 DEF Step, Round

LEMMA Entering ==
    ASSUME TypeOK, NEW n \in 0 .. 16, Enter(n)
    PROVE  /\ at' = n /\ pass' = 0 /\ left' \in Nat
           /\ at' \in 0 .. Len(Round) /\ pass' \in 0 .. DonePasses
<1>1. Len(after) \in Nat
  BY DEF TypeOK
<1>2. at' = n /\ pass' = 0 /\ left' \in {0, Len(after)}
  BY DEF Enter
<1>3. Len(Round) = 16 /\ DonePasses \in Nat
  BY Steps, WakeAssumption
<1> QED
  BY <1>1, <1>2, <1>3

LEMMA Following ==
    ASSUME TypeOK
    PROVE  NextStep \in 0 .. 16 /\ NextStep = IF at = 16 THEN 0 ELSE at + 1
<1>1. Len(Round) = 16 /\ at \in 0 .. 16
  BY Steps
<1> QED
  BY <1>1 DEF NextStep

(* Steps that leave the stack, what is taken off it and the threads that   *)
(* push as they are.                                                       *)
LEMMA StackFrame ==
    ASSUME CellInv, OrderInv, Pushers' = Pushers,
           UNCHANGED <<stackVars, ordered, posted, ran, destroyed>>
    PROVE  CellInv' /\ OrderInv'
<1>1. Stack' = Stack /\ Stacks' = Stacks /\ (Down(Stack, tasks) => Down(Stack, tasks)')
  BY DEF Stack, Chain, Down, Stacks, stackVars
<1> QED
  BY <1>1 DEF CellInv, OrderInv, stackVars, Injective

---------------------------------------------------------------------------
(* Posting and stopping, after the push.                                   *)

LEMMA StopKeeps == ASSUME PostInv, NEW t \in All, Stop(t) PROVE PostInv'
<1>1. TypeOK'
  BY DEF PostInv, TypeOK, Stop, Goto, Free, stackVars, roundVars, lifeVars
<1>2. Pushers' = Pushers
  BY DEF PostInv, TypeOK, Stop, Goto, Free, Pushers
<1>3. CellInv' /\ OrderInv'
  BY <1>2, StackFrame DEF PostInv, Stop, stackVars, roundVars, lifeVars
<1>4. Posting' = Posting
  BY DEF PostInv, TypeOK, Stop, Goto, Free, Posting
<1>5. WakeInv'
  BY <1>4 DEF PostInv, TypeOK, Stop, Goto, Free, WakeInv, stackVars, roundVars, lifeVars
<1>6. RoundInv'
  BY DEF PostInv, TypeOK, Stop, Goto, Free, RoundInv, stackVars, roundVars, lifeVars
<1>7. SleepInv'
  BY DEF PostInv, TypeOK, Stop, Goto, Free, SleepInv, Waking, stackVars, roundVars, lifeVars
<1> QED
  BY <1>1, <1>3, <1>5, <1>6, <1>7 DEF PostInv

LEMMA WakeSelectorKeeps == ASSUME PostInv, NEW t \in All, WakeSelector(t) PROVE PostInv'
<1>1. TypeOK' /\ signals' > 0
  BY WakeAssumption DEF PostInv, TypeOK, WakeSelector, Goto, stackVars, roundVars, lifeVars
<1>2. Pushers' = Pushers
  BY DEF PostInv, TypeOK, WakeSelector, Goto, Pushers
<1>3. CellInv' /\ OrderInv'
  BY <1>2, StackFrame DEF PostInv, WakeSelector, stackVars, roundVars, lifeVars
<1>4. Posting' = Posting
  BY DEF PostInv, TypeOK, WakeSelector, Goto, Posting
<1>5. WakeInv'
  BY <1>4 DEF PostInv, TypeOK, WakeSelector, Goto, WakeInv, stackVars, roundVars, lifeVars
<1>6. RoundInv'
  BY DEF PostInv, TypeOK, WakeSelector, Goto, RoundInv, stackVars, roundVars, lifeVars
<1>7. SleepInv'
  BY <1>1 DEF SleepInv, Waking
<1> QED
  BY <1>1, <1>3, <1>5, <1>6, <1>7 DEF PostInv
---------------------------------------------------------------------------
(* What a callback asks of the loop, and what is from outside.             *)

LEMMA AfterKeeps == ASSUME PostInv, NEW a \in Afters, After(a) PROVE PostInv'
<1>1. TypeOK'
  BY AppendProperties DEF PostInv, TypeOK, After, Free, stackVars, roundVars, lifeVars
<1>2. Pushers' = Pushers /\ Posting' = Posting
  BY DEF After, Free, Pushers, Posting
<1>3. CellInv' /\ OrderInv'
  BY <1>2, StackFrame DEF PostInv, After, Free, stackVars, roundVars, lifeVars
<1>4. WakeInv'
  BY <1>2 DEF PostInv, TypeOK, After, Free, WakeInv, stackVars, roundVars, lifeVars
<1>5. RoundInv'
  BY DEF PostInv, TypeOK, After, Free, RoundInv, stackVars, roundVars, lifeVars
<1>6. SleepInv'
  BY DEF PostInv, TypeOK, After, Free, SleepInv, Waking, stackVars, roundVars, lifeVars
<1> QED
  BY <1>1, <1>3, <1>4, <1>5, <1>6 DEF PostInv

LEMMA RemoveAtIsSeq ==
    ASSUME NEW S, NEW s \in Seq(S), NEW i \in DOMAIN s
    PROVE  RemoveAt(s, i) \in Seq(S)
<1>1. Len(s) \in Nat /\ i \in 1 .. Len(s) /\ \A j \in 1 .. Len(s) : s[j] \in S
  OBVIOUS
<1>2. SubSeq(s, 1, i - 1) \in Seq(S)
  <2>1. \A j \in 1 .. i - 1 : s[j] \in S
    BY <1>1
  <2> QED
    BY <1>1, <2>1, SubSeqProperties
<1>3. SubSeq(s, i + 1, Len(s)) \in Seq(S)
  <2>1. \A j \in i + 1 .. Len(s) : s[j] \in S
    BY <1>1
  <2> QED
    BY <1>1, <2>1, SubSeqProperties
<1> QED
  BY <1>2, <1>3, ConcatProperties DEF RemoveAt

LEMMA AfterCancelKeeps == ASSUME PostInv, NEW a \in Afters, AfterCancel(a) PROVE PostInv'
<1>0. after' \in Seq(Afters)
  BY RemoveAtIsSeq DEF AfterCancel, PostInv, TypeOK
<1>1. TypeOK'
  BY <1>0 DEF PostInv, TypeOK, AfterCancel, Free, stackVars, roundVars, lifeVars
<1>2. Pushers' = Pushers /\ Posting' = Posting
  BY DEF AfterCancel, Free, Pushers, Posting
<1>3. CellInv' /\ OrderInv'
  BY <1>2, StackFrame DEF PostInv, AfterCancel, Free, stackVars, roundVars, lifeVars
<1>4. WakeInv'
  BY <1>2 DEF PostInv, TypeOK, AfterCancel, Free, WakeInv, stackVars, roundVars, lifeVars
<1>5. RoundInv'
  BY DEF PostInv, TypeOK, AfterCancel, Free, RoundInv, stackVars, roundVars, lifeVars
<1>6. SleepInv'
  BY DEF PostInv, TypeOK, AfterCancel, Free, SleepInv, Waking, stackVars, roundVars, lifeVars
<1> QED
  BY <1>1, <1>3, <1>4, <1>5, <1>6 DEF PostInv

LEMMA QueueKeeps == ASSUME PostInv, Queue PROVE PostInv'
<1>1. TypeOK'
  BY DEF PostInv, TypeOK, Queue, Free, stackVars, roundVars, lifeVars
<1>2. Pushers' = Pushers /\ Posting' = Posting
  BY DEF Queue, Free, Pushers, Posting
<1>3. CellInv' /\ OrderInv'
  BY <1>2, StackFrame DEF PostInv, Queue, Free, stackVars, roundVars, lifeVars
<1>4. WakeInv'
  BY <1>2 DEF PostInv, TypeOK, Queue, Free, WakeInv, stackVars, roundVars, lifeVars
<1>5. RoundInv'
  BY DEF PostInv, TypeOK, Queue, Free, RoundInv, stackVars, roundVars, lifeVars
<1>6. SleepInv'
  BY DEF PostInv, TypeOK, Queue, Free, SleepInv, Waking, stackVars, roundVars, lifeVars
<1> QED
  BY <1>1, <1>3, <1>4, <1>5, <1>6 DEF PostInv

LEMMA EventKeeps == ASSUME PostInv, EventArrives PROVE PostInv'
<1>1. TypeOK'
  BY DEF PostInv, TypeOK, EventArrives, stackVars, roundVars, lifeVars
<1>2. Pushers' = Pushers /\ Posting' = Posting
  BY DEF EventArrives, Pushers, Posting
<1>3. CellInv' /\ OrderInv'
  BY <1>2, StackFrame DEF PostInv, EventArrives, stackVars, roundVars, lifeVars
<1>4. WakeInv'
  BY <1>2 DEF PostInv, TypeOK, EventArrives, WakeInv, stackVars, roundVars, lifeVars
<1>5. RoundInv'
  BY DEF PostInv, TypeOK, EventArrives, RoundInv, stackVars, roundVars, lifeVars
<1>6. SleepInv'
  BY DEF PostInv, TypeOK, EventArrives, SleepInv, Waking, stackVars, roundVars, lifeVars
<1> QED
  BY <1>1, <1>3, <1>4, <1>5, <1>6 DEF PostInv

LEMMA ReturnKeeps == ASSUME PostInv, Return PROVE PostInv'
<1>1. TypeOK'
  BY DEF PostInv, TypeOK, Return, stackVars, roundVars, lifeVars
<1>2. Pushers' = Pushers /\ Posting' = Posting
  BY DEF Return, Pushers, Posting
<1>3. CellInv' /\ OrderInv'
  BY <1>2, StackFrame DEF PostInv, Return, stackVars, roundVars, lifeVars
<1>4. WakeInv'
  BY <1>2 DEF PostInv, TypeOK, Return, WakeInv, stackVars, roundVars, lifeVars
<1>5. RoundInv'
  BY DEF PostInv, TypeOK, Return, RoundInv, stackVars, roundVars, lifeVars
<1>6. SleepInv'
  BY DEF PostInv, TypeOK, Return, SleepInv, Waking, stackVars, roundVars, lifeVars
<1> QED
  BY <1>1, <1>3, <1>4, <1>5, <1>6 DEF PostInv

LEMMA RunKeeps == ASSUME PostInv, Run PROVE PostInv'
<1>1. TypeOK'
  BY DEF PostInv, TypeOK, Run, stackVars, roundVars, lifeVars
<1>2. Pushers' = Pushers /\ Posting' = Posting
  BY DEF Run, Pushers, Posting
<1>3. CellInv' /\ OrderInv'
  BY <1>2, StackFrame DEF PostInv, Run, stackVars, roundVars, lifeVars
<1>4. WakeInv'
  BY <1>2 DEF PostInv, TypeOK, Run, WakeInv, stackVars, roundVars, lifeVars
<1>5. RoundInv'
  BY DEF PostInv, TypeOK, Run, RoundInv, stackVars, roundVars, lifeVars
<1>6. SleepInv'
  BY DEF PostInv, TypeOK, Run, SleepInv, Waking, stackVars, roundVars, lifeVars
<1> QED
  BY <1>1, <1>3, <1>4, <1>5, <1>6 DEF PostInv

---------------------------------------------------------------------------
(* The wake-up over a completion port.                                     *)

LEMMA WakePortKeeps == ASSUME PostInv, NEW t \in All, WakePort(t) PROVE PostInv'
<1>1. /\ pc[t] = "wake" /\ port /\ woken' = TRUE
      /\ pc' = [pc EXCEPT ![t] = IF woken THEN "idle" ELSE "post"]
      /\ UNCHANGED <<signals, batch, at, pass, port, refused, mayWait, stop, tasks>>
  BY DEF WakePort, Goto, stackVars, roundVars, lifeVars
<1>2. Posting' = IF woken THEN Posting ELSE Posting \cup {t}
  BY <1>1 DEF PostInv, TypeOK, Posting
<1>3. ~woken => Posting = {} /\ signals = 0 /\ ~batch.wake
  BY <1>1 DEF PostInv, TypeOK, WakeInv
<1>4. (\E u \in All : pc'[u] = "unwake") => refused
  BY <1>1 DEF PostInv, TypeOK, WakeInv
<1>5. TypeOK'
  BY DEF PostInv, TypeOK, WakePort, Goto, stackVars, roundVars, lifeVars
<1>6. Pushers' = Pushers
  BY DEF PostInv, TypeOK, WakePort, Goto, Pushers
<1>7. CellInv' /\ OrderInv'
  BY <1>6, StackFrame DEF PostInv, WakePort, Goto, stackVars, roundVars, lifeVars
<1>8. WakeInv'
  BY <1>1, <1>2, <1>3, <1>4 DEF PostInv, WakeInv
<1>9. RoundInv'
  BY DEF PostInv, TypeOK, WakePort, Goto, RoundInv, stackVars, roundVars, lifeVars
<1>10. SleepInv'
  <2>1. CASE ~woken
    BY <1>1, <2>1 DEF SleepInv, Waking, PostInv, TypeOK
  <2>2. CASE woken
    <3>1. signals = 1 \/ batch.wake \/ \E u \in All : pc[u] \in {"post", "unwake"}
      BY <1>1, <2>2 DEF PostInv, WakeInv, Posting
    <3>2. batch.wake => at = 6
      BY DEF PostInv, WakeInv, Reports
    <3>3. ~refused /\ at # 6 => signals > 0 \/ \E u \in All : pc[u] = "post"
      BY <3>1, <3>2 DEF PostInv, WakeInv
    <3>4. ~refused /\ at # 6 => Waking'
      BY <1>1, <2>2, <3>3 DEF Waking, PostInv, TypeOK
    <3> QED
      BY <1>1, <3>4 DEF SleepInv
  <2> QED
    BY <2>1, <2>2
<1> QED
  BY <1>5, <1>7, <1>8, <1>9, <1>10 DEF PostInv

LEMMA PortPostKeeps == ASSUME PostInv, NEW t \in All, PortPost(t) PROVE PostInv'
<1>1. /\ pc[t] = "post" /\ port /\ signals = 0 /\ ~batch.wake /\ Posting = {t} /\ woken
      /\ UNCHANGED <<woken, batch, at, pass, port, mayWait, stop, tasks>>
  BY DEF PortPost, PostInv, WakeInv, Posting, stackVars, roundVars, lifeVars
<1>2. \/ signals' = 1 /\ pc' = [pc EXCEPT ![t] = "idle"] /\ refused' = refused
      \/ signals' = 0 /\ pc' = [pc EXCEPT ![t] = "unwake"] /\ refused' = TRUE
  BY <1>1 DEF PortPost, Goto
<1>3. Posting' = IF signals' = 1 THEN {} ELSE {t}
  BY <1>1, <1>2 DEF PostInv, TypeOK, Posting
<1>4. (\E u \in All : pc'[u] = "unwake") => refused'
  BY <1>1, <1>2 DEF PostInv, TypeOK, WakeInv
<1>5. TypeOK'
  <2>1. /\ signals' \in 0 .. IF port THEN 1 ELSE PipeSize
        /\ pc' \in [All -> {"idle", "push", "wake", "post", "unwake", "stopping"}]
        /\ refused' \in BOOLEAN
    <3>1. signals' \in 0 .. IF port THEN 1 ELSE PipeSize
      BY <1>1, <1>2
    <3>2. pc' \in [All -> {"idle", "push", "wake", "post", "unwake", "stopping"}]
      BY <1>2 DEF PostInv, TypeOK
    <3>3. refused' \in BOOLEAN
      BY <1>2 DEF PostInv, TypeOK
    <3> QED
      BY <3>1, <3>2, <3>3
  <2>2. UNCHANGED <<stackVars, woken, stop, roundVars, running, inside, after, done, events,
                    destroyed, port, posts, posted, ran>>
    BY DEF PortPost
  <2> QED
    BY <2>1, <2>2 DEF PostInv, TypeOK, stackVars, roundVars
<1>6. Pushers' = Pushers
  BY <1>1, <1>2 DEF PostInv, TypeOK, Pushers
<1>7. CellInv' /\ OrderInv'
  BY <1>6, StackFrame DEF PostInv, PortPost, stackVars, roundVars, lifeVars
<1>8. WakeInv'
  BY <1>1, <1>2, <1>3, <1>4 DEF WakeInv
<1>9. RoundInv'
  <2>1. pc'[Main] = "stopping" => pc[Main] = "stopping"
    BY <1>1, <1>2 DEF PostInv, TypeOK, All
  <2>2. UNCHANGED <<roundVars, running, inside, after, done>>
    BY DEF PortPost
  <2> QED
    BY <2>1, <2>2 DEF PostInv, RoundInv, roundVars
<1>10. SleepInv'
  BY <1>1, <1>2 DEF SleepInv, Waking
<1> QED
  BY <1>5, <1>7, <1>8, <1>9, <1>10 DEF PostInv

LEMMA PostFailedKeeps == ASSUME PostInv, NEW t \in All, PostFailed(t) PROVE PostInv'
<1>1. /\ pc[t] = "unwake" /\ port /\ signals = 0 /\ ~batch.wake /\ Posting = {t} /\ refused
      /\ woken' = FALSE /\ pc' = [pc EXCEPT ![t] = "idle"]
      /\ UNCHANGED <<signals, batch, at, pass, port, refused, mayWait, stop, tasks>>
  BY DEF PostFailed, Goto, PostInv, WakeInv, Posting, stackVars, roundVars, lifeVars
<1>2. Posting' = {}
  BY <1>1 DEF PostInv, TypeOK, Posting
<1>3. TypeOK'
  BY DEF PostInv, TypeOK, PostFailed, Goto, stackVars, roundVars, lifeVars
<1>4. Pushers' = Pushers
  BY <1>1 DEF PostInv, TypeOK, Pushers
<1>5. CellInv' /\ OrderInv'
  BY <1>4, StackFrame DEF PostInv, PostFailed, stackVars, roundVars, lifeVars
<1>6. WakeInv'
  BY <1>1, <1>2 DEF WakeInv
<1>7. RoundInv'
  BY DEF PostInv, TypeOK, PostFailed, Goto, RoundInv, stackVars, roundVars, lifeVars
<1>8. SleepInv'
  BY <1>1 DEF SleepInv
<1> QED
  BY <1>3, <1>5, <1>6, <1>7, <1>8 DEF PostInv
---------------------------------------------------------------------------
(* The round.                                                              *)

LEMMA DecideKeeps == ASSUME PostInv, Decide PROVE PostInv'
<1>1. /\ at = 3 /\ at' = 4 /\ pass' = 0 /\ left' \in Nat
      /\ at' \in 0 .. Len(Round) /\ pass' \in 0 .. DonePasses
  BY Steps, Following, Entering DEF Decide, OnLoop, PostInv
<1>2. TypeOK'
  BY <1>1 DEF PostInv, TypeOK, Decide, stackVars, roundVars, lifeVars
<1>3. Pushers' = Pushers /\ Posting' = Posting
  BY DEF Decide, Pushers, Posting
<1>4. CellInv' /\ OrderInv'
  BY <1>3, StackFrame DEF PostInv, Decide, stackVars, roundVars, lifeVars
<1>5. WakeInv'
  BY <1>3, <1>1 DEF PostInv, TypeOK, Decide, WakeInv, Reports, stackVars, roundVars, lifeVars
<1>6. RoundInv'
  BY <1>1 DEF PostInv, TypeOK, Decide, MaySleep, OnLoop, RoundInv, stackVars, roundVars, lifeVars
<1>7. SleepInv'
  BY <1>1 DEF PostInv, TypeOK, Decide, SleepInv, Waking, stackVars, roundVars, lifeVars
<1> QED
  BY <1>2, <1>4, <1>5, <1>6, <1>7 DEF PostInv

LEMMA TimersKeeps == ASSUME PostInv, TimersAdvance PROVE PostInv'
<1>1. /\ at = 10 /\ at' = 11 /\ pass' = 0 /\ left' \in Nat
      /\ at' \in 0 .. Len(Round) /\ pass' \in 0 .. DonePasses
  BY Steps, Following, Entering DEF TimersAdvance, OnLoop, PostInv
<1>2. TypeOK'
  BY SMTT(20), <1>1 DEF PostInv, TypeOK, TimersAdvance, stackVars, roundVars, lifeVars
<1>3. Pushers' = Pushers /\ Posting' = Posting
  BY DEF TimersAdvance, Pushers, Posting
<1>4. CellInv' /\ OrderInv'
  BY <1>3, StackFrame DEF PostInv, TimersAdvance, stackVars, roundVars, lifeVars
<1>5. WakeInv'
  BY <1>3, <1>1 DEF PostInv, TypeOK, TimersAdvance, WakeInv, Reports, stackVars, roundVars, lifeVars
<1>6. RoundInv'
  BY <1>1 DEF PostInv, TypeOK, TimersAdvance, RoundInv, stackVars, roundVars, lifeVars
<1>7. SleepInv'
  BY <1>1 DEF PostInv, TypeOK, TimersAdvance, SleepInv, Waking, stackVars, roundVars, lifeVars
<1> QED
  BY <1>2, <1>4, <1>5, <1>6, <1>7 DEF PostInv

LEMMA WaitFailedKeeps == ASSUME PostInv, WaitFailed PROVE PostInv'
<1>1. /\ at = 5 /\ at' = 0 /\ pass' = 0 /\ left' \in Nat
      /\ at' \in 0 .. Len(Round) /\ pass' \in 0 .. DonePasses
  BY Steps, Following, Entering DEF WaitFailed, OnLoop, PostInv
<1>2. TypeOK'
  BY <1>1 DEF PostInv, TypeOK, WaitFailed, stackVars, roundVars, lifeVars
<1>3. Pushers' = Pushers /\ Posting' = Posting
  BY DEF WaitFailed, Pushers, Posting
<1>4. CellInv' /\ OrderInv'
  BY <1>3, StackFrame DEF PostInv, WaitFailed, stackVars, roundVars, lifeVars
<1>5. WakeInv'
  BY <1>3, <1>1 DEF PostInv, TypeOK, WaitFailed, WakeInv, Reports, stackVars, roundVars, lifeVars
<1>6. RoundInv'
  BY <1>1 DEF PostInv, TypeOK, WaitFailed, RoundInv, stackVars, roundVars, lifeVars
<1>7. SleepInv'
  BY <1>1 DEF PostInv, TypeOK, WaitFailed, SleepInv, Waking, stackVars, roundVars, lifeVars
<1> QED
  BY <1>2, <1>4, <1>5, <1>6, <1>7 DEF PostInv
LEMMA RunLoadsKeeps == ASSUME PostInv, RunLoads PROVE PostInv'
<1>1. at = 0 /\ running /\ ~inside
  BY Steps DEF RunLoads, OnLoop, PostInv
<1>2. CASE stop /\ Goto(Main, "stopping") /\ UNCHANGED <<at, pass, left, mayWait>>
  <2>1. pc' = [pc EXCEPT ![Main] = "stopping"] /\ pc[Main] = "idle"
    BY <1>2 DEF Goto, RunLoads
  <2>2. Pushers' = Pushers /\ Posting' = Posting
    BY <2>1 DEF PostInv, TypeOK, Pushers, Posting
  <2>3. TypeOK'
    BY <1>2, <2>1 DEF PostInv, TypeOK, RunLoads, stackVars, roundVars, lifeVars
  <2>4. CellInv' /\ OrderInv'
    BY <2>2, StackFrame DEF PostInv, RunLoads, stackVars, lifeVars
  <2>5. WakeInv'
    BY <1>2, <2>1, <2>2 DEF PostInv, TypeOK, WakeInv, RunLoads, stackVars, lifeVars
  <2>6. RoundInv'
    BY <1>1, <1>2, <2>1 DEF PostInv, TypeOK, RoundInv, RunLoads, stackVars, lifeVars
  <2>7. SleepInv'
    BY <1>1, <1>2 DEF SleepInv, RunLoads
  <2> QED
    BY <2>3, <2>4, <2>5, <2>6, <2>7 DEF PostInv
<1>3. CASE ~stop /\ Enter(1) /\ mayWait' = TRUE /\ UNCHANGED pc
  <2>1. at' = 1 /\ pass' = 0 /\ left' \in Nat /\ at' \in 0 .. Len(Round) /\ pass' \in 0 .. DonePasses
    BY <1>3, Entering DEF PostInv
  <2>2. Pushers' = Pushers /\ Posting' = Posting
    BY <1>3 DEF Pushers, Posting
  <2>3. TypeOK'
    BY <1>3, <2>1 DEF PostInv, TypeOK, RunLoads, stackVars, roundVars, lifeVars
  <2>4. CellInv' /\ OrderInv'
    BY <2>2, StackFrame DEF PostInv, RunLoads, stackVars, lifeVars
  <2>5. WakeInv'
    BY <1>1, <1>3, <2>1, <2>2 DEF PostInv, WakeInv, Reports, RunLoads, stackVars, lifeVars
  <2>6. RoundInv'
    BY <1>1, <1>3, <2>1 DEF PostInv, RoundInv, RunLoads, OnLoop, stackVars, lifeVars
  <2>7. SleepInv'
    BY <1>1, <1>3, <2>1 DEF SleepInv, RunLoads, stackVars
  <2> QED
    BY <2>3, <2>4, <2>5, <2>6, <2>7 DEF PostInv
<1> QED
  BY <1>2, <1>3 DEF RunLoads

LEMMA RunReturnsKeeps == ASSUME PostInv, RunReturns PROVE PostInv'
<1>1. pc[Main] = "stopping" /\ pc' = [pc EXCEPT ![Main] = "idle"] /\ at = 0
  BY DEF RunReturns, Goto, PostInv, RoundInv
<1>2. TypeOK'
  BY <1>1 DEF PostInv, TypeOK, RunReturns, stackVars, roundVars, lifeVars
<1>3. Pushers' = Pushers /\ Posting' = Posting
  BY <1>1 DEF PostInv, TypeOK, Pushers, Posting
<1>4. CellInv' /\ OrderInv'
  BY <1>3, StackFrame DEF PostInv, RunReturns, stackVars, roundVars, lifeVars
<1>5. WakeInv'
  BY <1>1, <1>3 DEF PostInv, TypeOK, WakeInv, RunReturns, stackVars, roundVars, lifeVars
<1>6. RoundInv'
  BY <1>1 DEF PostInv, TypeOK, RoundInv, RunReturns, All, stackVars, roundVars, lifeVars
<1>7. SleepInv'
  BY <1>1 DEF SleepInv, RunReturns, roundVars
<1> QED
  BY <1>2, <1>4, <1>5, <1>6, <1>7 DEF PostInv
LEMMA RunAfterKeeps == ASSUME PostInv, RunAfter PROVE PostInv'
<1>1. at \in {1, 14, 15} /\ TypeOK
  BY Steps DEF RunAfter, OnLoop, PostInv
<1>2. /\ at' = at \/ at' = at + 1
      /\ at' \in 0 .. Len(Round) /\ pass' \in 0 .. DonePasses /\ left' \in Nat
      /\ after' \in Seq(Afters) /\ inside' \in BOOLEAN
  <2>1. CASE left > 0 /\ after # <<>>
    <3>1. left' = left - 1 /\ after' = Tail(after) /\ inside' = TRUE /\ UNCHANGED <<at, pass>>
      BY <2>1 DEF RunAfter, PopAfter
    <3>2. left - 1 \in Nat
      BY <1>1, <2>1 DEF TypeOK
    <3>3. Tail(after) \in Seq(Afters)
      BY <1>1, <2>1, HeadTailProperties DEF TypeOK
    <3> QED
      BY <1>1, <3>1, <3>2, <3>3 DEF TypeOK
  <2>2. CASE ~(left > 0 /\ after # <<>>)
    <3>1. Enter(NextStep) /\ UNCHANGED <<after, inside>>
      BY <2>2 DEF RunAfter
    <3>2. NextStep \in 0 .. 16 /\ NextStep = at + 1
      BY <1>1, Following
    <3>3. /\ at' = at + 1 /\ at' \in 0 .. Len(Round)
          /\ pass' \in 0 .. DonePasses /\ left' \in Nat
      BY <1>1, <3>1, <3>2, Entering
    <3>4. after' \in Seq(Afters) /\ inside' \in BOOLEAN
      BY <1>1, <3>1 DEF TypeOK
    <3> QED
      BY <3>3, <3>4
  <2> QED
    BY <2>1, <2>2
<1>3. TypeOK'
  BY <1>2 DEF PostInv, TypeOK, RunAfter, stackVars, lifeVars
<1>4. Pushers' = Pushers /\ Posting' = Posting
  BY DEF RunAfter, Pushers, Posting
<1>5. CellInv' /\ OrderInv'
  BY <1>4, StackFrame DEF PostInv, RunAfter, stackVars, lifeVars
<1>6. WakeInv'
  BY <1>1, <1>2, <1>4 DEF PostInv, WakeInv, Reports, RunAfter, stackVars, lifeVars
<1>7. RoundInv'
  BY <1>1, <1>2 DEF PostInv, RoundInv, RunAfter, OnLoop, stackVars, lifeVars
<1>8. SleepInv'
  <2>1. UNCHANGED <<mayWait, refused, stop, signals, pc, tasks>>
    BY DEF RunAfter, stackVars, lifeVars
  <2>2. Waking' = Waking
    BY <2>1 DEF Waking
  <2>3. at' \in {4, 5} => FALSE
    BY <1>1, <1>2
  <2>4. at' \in 1 .. 5 => at \in 1 .. 5
    BY <1>1, <1>2
  <2> QED
    BY <2>1, <2>2, <2>3, <2>4 DEF PostInv, SleepInv
<1> QED
  BY <1>3, <1>5, <1>6, <1>7, <1>8 DEF PostInv

LEMMA RunDoneKeeps == ASSUME PostInv, RunDone PROVE PostInv'
<1>1. at \in {2, 7, 9, 11, 13, 16} /\ TypeOK
  BY Steps DEF RunDone, OnLoop, PostInv
<1>2. /\ at' = at \/ at' = IF at = 16 THEN 0 ELSE at + 1
      /\ at' \in 0 .. Len(Round) /\ pass' \in 0 .. DonePasses /\ left' \in Nat
      /\ done' \in Nat /\ inside' \in BOOLEAN
  <2>1. CASE left > 0 /\ left' = left - 1 /\ inside' = TRUE /\ UNCHANGED <<at, pass, done>>
    BY <1>1, <2>1 DEF TypeOK
  <2>2. CASE /\ left = 0 /\ done > 0 /\ pass < DonePasses
             /\ left' = done /\ done' = 0 /\ pass' = pass + 1 /\ UNCHANGED <<at, inside>>
    BY <1>1, <2>2, WakeAssumption DEF TypeOK
  <2>3. CASE Enter(NextStep) /\ UNCHANGED <<done, inside>>
    BY <1>1, <2>3, Following, Entering DEF TypeOK
  <2> QED
    BY <2>1, <2>2, <2>3 DEF RunDone
<1>3. TypeOK'
  BY <1>2 DEF PostInv, TypeOK, RunDone, stackVars, lifeVars
<1>4. Pushers' = Pushers /\ Posting' = Posting
  BY DEF RunDone, Pushers, Posting
<1>5. CellInv' /\ OrderInv'
  BY <1>4, StackFrame DEF PostInv, RunDone, stackVars, lifeVars
<1>6. WakeInv'
  BY <1>1, <1>2, <1>4 DEF PostInv, WakeInv, Reports, RunDone, stackVars, lifeVars
<1>7. RoundInv'
  BY <1>1, <1>2 DEF PostInv, RoundInv, RunDone, OnLoop, stackVars, lifeVars
<1>8. SleepInv'
  BY <1>1, <1>2 DEF PostInv, SleepInv, Waking, RunDone, stackVars, lifeVars
<1> QED
  BY <1>3, <1>5, <1>6, <1>7, <1>8 DEF PostInv

(* What a look at the port, or the selector, leaves of the wake-up.        *)
LEMMA CollectedGives ==
    ASSUME PostInv, at # 6, Collected
    PROVE  /\ batch' \in [wake : BOOLEAN, events : Nat, count : Nat]
           /\ batch'.wake = (signals > 0)
           /\ signals' = IF port THEN 0 ELSE signals
           /\ signals' \in 0 .. IF port THEN 1 ELSE PipeSize
           /\ events' = 0 /\ ~batch.wake
<1>1. events \in Nat /\ signals \in Nat
  BY WakeAssumption DEF PostInv, TypeOK
<1>2. events + (IF signals > 0 THEN 1 ELSE 0) \in Nat
  BY <1>1
<1>3. (signals > 0) \in BOOLEAN
  OBVIOUS
<1>4. /\ batch' \in [wake : BOOLEAN, events : Nat, count : Nat]
      /\ batch'.wake = (signals > 0)
  BY <1>1, <1>2, <1>3 DEF Collected
<1>5. signals' \in 0 .. IF port THEN 1 ELSE PipeSize
  BY <1>1 DEF Collected, PostInv, TypeOK
<1> QED
  BY <1>4, <1>5 DEF Collected, PostInv, WakeInv, Reports

LEMMA CollectKeeps == ASSUME PostInv, Collect PROVE PostInv'
<1>1. /\ at = 5 /\ at' = 6 /\ pass' = 0 /\ left' \in Nat
      /\ at' \in 0 .. Len(Round) /\ pass' \in 0 .. DonePasses
  BY Steps, Entering DEF Collect, OnLoop, PostInv, Reports
<1>2. /\ batch' \in [wake : BOOLEAN, events : Nat, count : Nat]
      /\ batch'.wake = (signals > 0)
      /\ signals' = IF port THEN 0 ELSE signals
      /\ signals' \in 0 .. IF port THEN 1 ELSE PipeSize
      /\ events' = 0 /\ ~batch.wake
  BY <1>1, CollectedGives DEF Collect
<1>3. TypeOK'
  BY SMTT(20), <1>1, <1>2, WakeAssumption DEF PostInv, TypeOK, Collect, stackVars, lifeVars
<1>4. Pushers' = Pushers /\ Posting' = Posting
  BY DEF Collect, Pushers, Posting
<1>5. CellInv' /\ OrderInv'
  BY <1>4, StackFrame DEF PostInv, Collect, stackVars, lifeVars
<1>6. WakeInv'
  BY SMTT(20), <1>1, <1>2, <1>4 DEF PostInv, WakeInv, TypeOK, Reports, Collect, lifeVars
<1>7. RoundInv'
  BY <1>1 DEF PostInv, RoundInv, Collect, OnLoop
<1>8. SleepInv'
  BY <1>1 DEF SleepInv
<1> QED
  BY <1>3, <1>5, <1>6, <1>7, <1>8 DEF PostInv

LEMMA LookAgainKeeps == ASSUME PostInv, LookAgain PROVE PostInv'
<1>1. at = 8 /\ TypeOK /\ looks < DonePasses /\ ~batch.wake
  BY Steps DEF LookAgain, OnLoop, PostInv, RoundInv, WakeInv, Reports
<1>2. CASE Collected /\ looks' = looks + 1 /\ Enter(Reports)
  <2>1. /\ at' = 6 /\ pass' = 0 /\ left' \in Nat
        /\ at' \in 0 .. Len(Round) /\ pass' \in 0 .. DonePasses
    BY <1>1, <1>2, Entering DEF Reports
  <2>2. /\ batch' \in [wake : BOOLEAN, events : Nat, count : Nat]
        /\ batch'.wake = (signals > 0)
        /\ signals' = IF port THEN 0 ELSE signals
        /\ signals' \in 0 .. IF port THEN 1 ELSE PipeSize
        /\ events' = 0 /\ ~batch.wake
    BY <1>1, <1>2, CollectedGives
  <2>3. looks' \in 0 .. DonePasses
    BY <1>1, <1>2, WakeAssumption DEF TypeOK
  <2>4. TypeOK'
    BY <2>1, <2>2, <2>3 DEF PostInv, TypeOK, LookAgain, stackVars, lifeVars
  <2>5. Pushers' = Pushers /\ Posting' = Posting
    BY DEF LookAgain, Pushers, Posting
  <2>6. CellInv' /\ OrderInv'
    BY <2>5, StackFrame DEF PostInv, LookAgain, stackVars, lifeVars
  <2>7. WakeInv'
    BY SMTT(20), <2>1, <2>2, <2>5 DEF PostInv, WakeInv, TypeOK, Reports, LookAgain, lifeVars
  <2>8. RoundInv'
    BY <1>1, <2>1 DEF PostInv, RoundInv, LookAgain, OnLoop
  <2>9. SleepInv'
    BY <2>1 DEF SleepInv
  <2> QED
    BY <2>4, <2>6, <2>7, <2>8, <2>9 DEF PostInv
<1>3. CASE Enter(AfterReports) /\ UNCHANGED <<batch, looks, events, signals>>
  <2>1. /\ at' = 9 /\ pass' = 0 /\ left' \in Nat
        /\ at' \in 0 .. Len(Round) /\ pass' \in 0 .. DonePasses
    BY <1>1, <1>3, Entering DEF AfterReports
  <2>2. TypeOK'
    BY SMTT(20), <1>3, <2>1 DEF PostInv, TypeOK, LookAgain, stackVars, lifeVars
  <2>3. Pushers' = Pushers /\ Posting' = Posting
    BY DEF LookAgain, Pushers, Posting
  <2>4. CellInv' /\ OrderInv'
    BY <2>3, StackFrame DEF PostInv, LookAgain, stackVars, lifeVars
  <2>5. WakeInv'
    BY <1>1, <1>3, <2>1, <2>3 DEF PostInv, WakeInv, Reports, LookAgain, lifeVars
  <2>6. RoundInv'
    BY <1>1, <2>1 DEF PostInv, RoundInv, LookAgain, OnLoop
  <2>7. SleepInv'
    BY <2>1 DEF SleepInv
  <2> QED
    BY <2>2, <2>4, <2>5, <2>6, <2>7 DEF PostInv
<1> QED
  BY <1>2, <1>3 DEF LookAgain

LEMMA ReportWakeKeeps == ASSUME PostInv, ReportWake PROVE PostInv'
<1>1. at = 6 /\ TypeOK /\ batch.wake
  BY Steps DEF ReportWake, OnLoop, PostInv
<1>2. /\ batch' \in [wake : BOOLEAN, events : Nat, count : Nat] /\ ~batch'.wake
      /\ woken' = FALSE /\ signals' = IF port THEN signals ELSE 0
  BY <1>1 DEF ReportWake, Quiet, TypeOK
<1>3. signals' \in 0 .. IF port THEN 1 ELSE PipeSize
  BY <1>1, <1>2, WakeAssumption DEF TypeOK
<1>4. TypeOK'
  BY <1>2, <1>3 DEF PostInv, TypeOK, ReportWake, stackVars, lifeVars
<1>5. Pushers' = Pushers /\ Posting' = Posting
  BY DEF ReportWake, Pushers, Posting
<1>6. CellInv' /\ OrderInv'
  BY <1>5, StackFrame DEF PostInv, ReportWake, stackVars, lifeVars
<1>7. WakeInv'
  <2>1. port => Posting = {} /\ signals = 0
    BY <1>1 DEF PostInv, WakeInv, TypeOK
  <2> QED
    BY <1>1, <1>2, <1>5, <2>1 DEF PostInv, WakeInv, Reports, ReportWake, lifeVars
<1>8. RoundInv'
  BY <1>1 DEF PostInv, RoundInv, ReportWake
<1>9. SleepInv'
  BY <1>1 DEF SleepInv, ReportWake
<1> QED
  BY <1>4, <1>6, <1>7, <1>8, <1>9 DEF PostInv

LEMMA ReportEventKeeps == ASSUME PostInv, ReportEvent PROVE PostInv'
<1>1. at = 6 /\ TypeOK /\ batch.events > 0
  BY Steps DEF ReportEvent, OnLoop, PostInv
<1>2. batch' \in [wake : BOOLEAN, events : Nat, count : Nat] /\ batch'.wake = batch.wake
  <2>1. batch.events - 1 \in Nat
    BY <1>1 DEF TypeOK
  <2> QED
    BY <1>1, <2>1 DEF ReportEvent, TypeOK
<1>3. TypeOK'
  BY <1>2 DEF PostInv, TypeOK, ReportEvent, stackVars, lifeVars
<1>4. Pushers' = Pushers /\ Posting' = Posting
  BY DEF ReportEvent, Pushers, Posting
<1>5. CellInv' /\ OrderInv'
  BY <1>4, StackFrame DEF PostInv, ReportEvent, stackVars, lifeVars
<1>6. WakeInv'
  BY <1>1, <1>2, <1>4 DEF PostInv, WakeInv, Reports, ReportEvent, lifeVars
<1>7. RoundInv'
  BY <1>1 DEF PostInv, RoundInv, ReportEvent, OnLoop
<1>8. SleepInv'
  BY <1>1 DEF SleepInv, ReportEvent
<1> QED
  BY <1>3, <1>5, <1>6, <1>7, <1>8 DEF PostInv

LEMMA ReportsEndKeeps == ASSUME PostInv, ReportsEnd PROVE PostInv'
<1>1. at = 6 /\ TypeOK /\ ~batch.wake
  BY Steps DEF ReportsEnd, OnLoop, PostInv
<1>2. /\ (at' = 7 /\ looks < DonePasses) \/ at' = 9
      /\ pass' = 0 /\ left' \in Nat /\ at' \in 0 .. Len(Round) /\ pass' \in 0 .. DonePasses
  <2>1. CASE port /\ batch.count > 0 /\ MoreLooks
    BY <1>1, <2>1, Following, Entering DEF ReportsEnd, MoreLooks
  <2>2. CASE ~(port /\ batch.count > 0 /\ MoreLooks)
    BY <1>1, <2>2, Entering DEF ReportsEnd, AfterReports
  <2> QED
    BY <2>1, <2>2
<1>3. TypeOK'
  BY <1>2 DEF PostInv, TypeOK, ReportsEnd, stackVars, lifeVars
<1>4. Pushers' = Pushers /\ Posting' = Posting
  BY DEF ReportsEnd, Pushers, Posting
<1>5. CellInv' /\ OrderInv'
  BY <1>4, StackFrame DEF PostInv, ReportsEnd, stackVars, lifeVars
<1>6. WakeInv'
  BY <1>1, <1>2, <1>4 DEF PostInv, WakeInv, Reports, ReportsEnd, lifeVars
<1>7. RoundInv'
  BY <1>1, <1>2 DEF PostInv, RoundInv, ReportsEnd, OnLoop
<1>8. SleepInv'
  BY <1>2 DEF SleepInv
<1> QED
  BY <1>3, <1>5, <1>6, <1>7, <1>8 DEF PostInv

---------------------------------------------------------------------------
(* The steps that change the stack.                                        *)

LEMMA StackNext == (\A s \in Stacks : Down(s, tasks) => Stack = s)'
  BY StackIs, PTL

(* What the links go down through after a step is the stack after it.      *)
LEMMA NewStack ==
    ASSUME NEW s \in Stacks, tasks' = IF s = <<>> THEN Null ELSE s[1],
           \A i \in DOMAIN s : next'[s[i]] = IF i = Len(s) THEN Null ELSE s[i + 1]
    PROVE  Stack' = s /\ Stack' \in Stacks' /\ Down(Stack, tasks)'
<1>1. Stacks' = Stacks
  BY DEF Stacks
<1>2. Down(s, tasks)'
  BY DEF Down
<1>3. Stack' = s
  BY <1>1, <1>2, StackNext
<1> QED
  BY <1>1, <1>2, <1>3 DEF Down

LEMMA SameStack ==
    ASSUME CellInv, tasks' = tasks, \A i \in DOMAIN Stack : next'[Stack[i]] = next[Stack[i]]
    PROVE  Stack' = Stack /\ Stack' \in Stacks' /\ Down(Stack, tasks)'
<1>1. PICK s : s = Stack
  OBVIOUS
<1>2. s \in Stacks /\ Down(s, tasks) /\ \A i \in DOMAIN s : next'[s[i]] = next[s[i]]
  BY <1>1 DEF CellInv
<1>3. /\ tasks' = IF s = <<>> THEN Null ELSE s[1]
      /\ \A i \in DOMAIN s : next'[s[i]] = IF i = Len(s) THEN Null ELSE s[i + 1]
  BY <1>2 DEF Down
<1> QED
  BY <1>1, <1>2, <1>3, NewStack

LEMMA PostBeginKeeps == ASSUME PostInv, NEW t \in All, PostBegin(t) PROVE PostInv'
<1> USE DEF PostInv
<1>1. PICK c \in Cells :
        /\ task[c] = 0
        /\ task' = [task EXCEPT ![c] = posts + 1]
        /\ next' = [next EXCEPT ![c] = tasks]
        /\ cell' = [cell EXCEPT ![t] = c]
  BY DEF PostBegin
<1>2. /\ pc[t] = "idle" /\ ~destroyed /\ pc' = [pc EXCEPT ![t] = "push"]
      /\ posts < MaxPosts /\ posts' = posts + 1
      /\ UNCHANGED <<tasks, woken, signals, stop, at, ordered, pass, batch, looks, mayWait>>
      /\ UNCHANGED <<running, inside, after, done, destroyed, port, refused, posted, ran>>
  BY DEF PostBegin, Free, Goto, roundVars, lifeVars
<1>3. posts + 1 \in 0 .. MaxPosts /\ posts + 1 # 0
  BY <1>2, WakeAssumption DEF TypeOK
<1>4. TypeOK'
  BY <1>1, <1>2, <1>3 DEF TypeOK, PostBegin, roundVars, lifeVars
<1>5. c \notin Range(Stack) /\ c \notin Range(ordered) /\ \A u \in Pushers : cell[u] # c
  BY <1>1 DEF CellInv
<1>6. /\ Stack \in Seq(Cells) /\ ordered \in Seq(Cells)
      /\ \A i \in DOMAIN Stack : Stack[i] \in Cells /\ Stack[i] # c
      /\ \A i \in DOMAIN ordered : ordered[i] \in Cells /\ ordered[i] # c
  BY <1>5, StackIsSeq DEF CellInv, TypeOK, Range
<1>7. Stack' = Stack /\ Stack' \in Stacks' /\ Down(Stack, tasks)'
  BY <1>1, <1>2, <1>6, SameStack DEF TypeOK
<1>8. Pushers' = Pushers \cup {t} /\ t \notin Pushers /\ Posting' = Posting
  BY <1>2 DEF TypeOK, Pushers, Posting
<1>9. cell'[t] = c /\ \A u \in Pushers : cell'[u] = cell[u]
  BY <1>1, <1>8 DEF TypeOK, Pushers
<1>10. {x \in Cells : task'[x] # 0} = {x \in Cells : task[x] # 0} \cup {c}
  BY <1>1, <1>3 DEF TypeOK
<1>11. {cell'[u] : u \in Pushers'} = {cell[u] : u \in Pushers} \cup {c}
  BY <1>8, <1>9
<1>12. CellInv'
  <2>1. Injective(Stack)' /\ Injective(ordered)' /\ (Range(Stack) \cap Range(ordered) = {})'
    BY <1>2, <1>7 DEF CellInv, Injective
  <2>2. \A u \in Pushers' : cell'[u] \in Cells \ (Range(Stack') \cup Range(ordered'))
    BY <1>2, <1>5, <1>7, <1>8, <1>9 DEF CellInv
  <2>3. \A u, w \in Pushers' : cell'[u] = cell'[w] => u = w
    BY <1>5, <1>8, <1>9 DEF CellInv
  <2>4. {x \in Cells : task'[x] # 0} =
          Range(Stack') \cup Range(ordered') \cup {cell'[u] : u \in Pushers'}
    BY <1>2, <1>7, <1>10, <1>11 DEF CellInv
  <2> QED
    BY <1>7, <2>1, <2>2, <2>3, <2>4 DEF CellInv
<1>13. OrderInv'
  <2>1. /\ \A i \in DOMAIN Stack : task'[Stack[i]] = task[Stack[i]]
        /\ \A i \in DOMAIN ordered : task'[ordered[i]] = task[ordered[i]]
    BY <1>1, <1>6 DEF TypeOK
  <2> QED
    BY <1>2, <1>7, <2>1 DEF OrderInv
<1>14. WakeInv'
  BY <1>2, <1>8 DEF WakeInv, TypeOK
<1>15. RoundInv'
  BY <1>2 DEF RoundInv, TypeOK
<1>16. SleepInv'
  BY <1>2 DEF SleepInv, Waking, TypeOK
<1> QED
  BY <1>4, <1>12, <1>13, <1>14, <1>15, <1>16

(* The exchange that finds the head moved changes one link, of a cell that *)
(* is not on the stack.                                                    *)
LEMMA PushAgainKeeps ==
    ASSUME PostInv, NEW t \in All, Push(t), next[cell[t]] # tasks
    PROVE  PostInv'
<1> USE DEF PostInv
<1>1. /\ t \in Pushers /\ next' = [next EXCEPT ![cell[t]] = tasks]
      /\ UNCHANGED <<tasks, task, cell, posted, pc, ran, ordered, destroyed>>
      /\ UNCHANGED <<woken, signals, stop, at, left, pass, batch, looks, mayWait>>
      /\ UNCHANGED <<running, inside, after, done, events, port, refused, posts>>
  BY DEF Push, PushCas, Pushers, roundVars, lifeVars
<1>2. cell[t] \in Cells /\ cell[t] \notin Range(Stack)
  BY <1>1 DEF CellInv
<1>3. \A i \in DOMAIN Stack : Stack[i] \in Cells /\ Stack[i] # cell[t]
  BY <1>2, StackIsSeq DEF CellInv, Range
<1>4. Stack' = Stack /\ Stack' \in Stacks' /\ Down(Stack, tasks)'
  BY <1>1, <1>2, <1>3, SameStack DEF TypeOK
<1>5. TypeOK'
  BY <1>1, <1>2 DEF TypeOK
<1>6. Pushers' = Pushers /\ Posting' = Posting
  BY <1>1 DEF Pushers, Posting
<1>7. CellInv'
  BY <1>1, <1>4, <1>6 DEF CellInv, Injective
<1>8. OrderInv'
  BY <1>1, <1>4 DEF OrderInv
<1>9. WakeInv'
  BY <1>1, <1>6 DEF WakeInv
<1>10. RoundInv'
  BY <1>1 DEF RoundInv
<1>11. SleepInv'
  BY <1>1 DEF SleepInv, Waking
<1> QED
  BY <1>5, <1>7, <1>8, <1>9, <1>10, <1>11

LEMMA PushKeeps ==
    ASSUME PostInv, NEW t \in All, Push(t), next[cell[t]] = tasks
    PROVE  PostInv'
<1> USE DEF PostInv
<1>1. PICK c : c = cell[t]
  OBVIOUS
<1>2. /\ t \in Pushers /\ tasks' = c /\ posted' = Append(posted, task[c])
      /\ pc' = [pc EXCEPT ![t] = "wake"] /\ next[c] = tasks
      /\ UNCHANGED <<next, task, cell, ran, ordered, destroyed>>
      /\ UNCHANGED <<woken, signals, stop, at, left, pass, batch, looks, mayWait>>
      /\ UNCHANGED <<running, inside, after, done, events, port, refused, posts>>
  BY <1>1 DEF Push, PushCas, Goto, Pushers, roundVars, lifeVars
<1>3. /\ c \in Cells /\ c \notin Range(Stack) /\ c \notin Range(ordered)
      /\ Stack \in Stacks /\ Down(Stack, tasks) /\ Injective(Stack)
  BY <1>1, <1>2 DEF CellInv
<1>4. PICK old : old = Stack
  OBVIOUS
<1>5. /\ old \in Seq(Cells) /\ Len(old) \in Nat /\ DOMAIN old = 1 .. Len(old)
      /\ \A i \in 1 .. Len(old) : old[i] \in Cells /\ old[i] # c
  BY <1>3, <1>4, StackIsSeq DEF Range
<1>6. PICK s : s = <<c>> \o old
  OBVIOUS
<1>7. /\ s \in Seq(Cells) /\ Len(s) = Len(old) + 1 /\ s[1] = c /\ s # <<>>
      /\ \A i \in 1 .. Len(old) : s[i + 1] = old[i]
      /\ \A i \in 2 .. Len(s) : s[i] = old[i - 1]
  BY <1>3, <1>5, <1>6
<1>8. Injective(s)
  BY <1>3, <1>4, <1>5, <1>7 DEF Injective
<1>9. \A i \in DOMAIN s : next'[s[i]] = IF i = Len(s) THEN Null ELSE s[i + 1]
  <2>1. tasks = IF old = <<>> THEN Null ELSE old[1]
    BY <1>3, <1>4 DEF Down
  <2>2. \A i \in 1 .. Len(old) : next[old[i]] = IF i = Len(old) THEN Null ELSE old[i + 1]
    BY <1>3, <1>4, <1>5 DEF Down
  <2>3. ASSUME NEW i \in DOMAIN s PROVE next'[s[i]] = IF i = Len(s) THEN Null ELSE s[i + 1]
    <3>1. i \in 1 .. Len(old) + 1
      BY <1>7
    <3>2. CASE i = 1
      <4>1. next'[s[i]] = tasks
        BY <1>2, <1>7, <3>2
      <4>2. old = <<>> <=> Len(old) = 0
        BY <1>5
      <4>3. CASE Len(old) = 0
        BY <1>7, <2>1, <3>2, <4>1, <4>2, <4>3
      <4>4. CASE Len(old) # 0
        BY SMTT(20), <1>5, <1>7, <2>1, <3>2, <4>1, <4>2, <4>4
      <4> QED
        BY <4>3, <4>4
    <3>3. CASE i # 1
      <4>1. i - 1 \in 1 .. Len(old) /\ s[i] = old[i - 1]
        BY <1>5, <1>7, <3>1, <3>3
      <4>2. next'[s[i]] = IF i - 1 = Len(old) THEN Null ELSE old[i - 1 + 1]
        BY <1>2, <2>2, <4>1
      <4>3. CASE i = Len(s)
        BY <1>5, <1>7, <4>1, <4>2, <4>3
      <4>4. CASE i # Len(s)
        <5>1. i \in 1 .. Len(old) /\ s[i + 1] = old[i]
          BY <1>5, <1>7, <3>1, <4>4
        <5>2. i - 1 # Len(old) /\ i - 1 + 1 = i
          BY <1>5, <3>1, <5>1
        <5> QED
          BY <4>2, <4>4, <5>1, <5>2
      <4> QED
        BY <4>3, <4>4
    <3> QED
      BY <3>2, <3>3
  <2> QED
    BY <2>3
<1>10. Stack' = s /\ Stack' \in Stacks' /\ Down(Stack, tasks)'
  BY <1>2, <1>7, <1>8, <1>9, NewStack, SeqIsStack
<1>11. Range(s) = Range(old) \cup {c}
  <2>1. DOMAIN s = 1 .. Len(old) + 1
    BY <1>7
  <2>2. ASSUME NEW i \in DOMAIN s PROVE s[i] = c \/ \E j \in DOMAIN old : s[i] = old[j]
    <3>1. CASE i = 1
      BY <1>7, <3>1
    <3>2. CASE i # 1
      <4>1. i \in 2 .. Len(s) /\ i - 1 \in 1 .. Len(old)
        BY <1>5, <1>7, <2>1, <3>2
      <4> QED
        BY <1>5, <1>7, <4>1
    <3> QED
      BY <3>1, <3>2
  <2>3. \A j \in DOMAIN old : \E i \in DOMAIN s : s[i] = old[j]
    BY SMTT(20), <1>5, <1>7, <2>1
  <2>4. \E i \in DOMAIN s : s[i] = c
    BY <1>5, <1>7, <2>1
  <2> QED
    BY <2>2, <2>3, <2>4 DEF Range
<1>12. TypeOK'
  <2>1. task[c] \in Nat
    BY <1>3, WakeAssumption DEF TypeOK
  <2>2. posted' \in Seq(Nat)
    BY <1>2, <2>1 DEF TypeOK
  <2> QED
    BY <1>2, <1>3, <2>2 DEF TypeOK
<1>13. Pushers' = Pushers \ {t} /\ Posting' = Posting
  BY <1>2 DEF TypeOK, Pushers, Posting
<1>14. {cell[u] : u \in Pushers} = {cell'[u] : u \in Pushers'} \cup {c}
  BY <1>1, <1>2, <1>13
<1>15. CellInv'
  <2>1. Injective(Stack)' /\ Injective(ordered)' /\ (Range(Stack) \cap Range(ordered) = {})'
    <3>1. Range(Stack) \cap Range(ordered) = {} /\ Injective(ordered)
      BY DEF CellInv
    <3>2. Range(s) \cap Range(ordered) = {}
      BY <1>3, <1>4, <1>11, <3>1
    <3>3. UNCHANGED ordered
      BY <1>2
    <3> QED
      BY <1>8, <1>10, <3>1, <3>2, <3>3 DEF Injective
  <2>2. \A u \in Pushers' : cell'[u] \in Cells \ (Range(Stack') \cup Range(ordered'))
    BY <1>1, <1>2, <1>4, <1>10, <1>11, <1>13 DEF CellInv
  <2>3. \A u, w \in Pushers' : cell'[u] = cell'[w] => u = w
    BY <1>2, <1>13 DEF CellInv
  <2>4. {x \in Cells : task'[x] # 0} =
          Range(Stack') \cup Range(ordered') \cup {cell'[u] : u \in Pushers'}
    BY <1>2, <1>4, <1>10, <1>11, <1>14 DEF CellInv
  <2> QED
    BY <1>10, <2>1, <2>2, <2>3, <2>4 DEF CellInv
<1>16. OrderInv'
  <2> SUFFICES ASSUME ~destroyed PROVE OrderInv'
    BY <1>2 DEF OrderInv
  <2>1. /\ posted \in Seq(Nat) /\ ran \in Seq(Nat) /\ ordered \in Seq(Cells)
        /\ Len(posted) = Len(ran) + Len(ordered) + Len(old)
        /\ \A i \in DOMAIN ran : posted[i] = ran[i]
        /\ \A i \in DOMAIN ordered : posted[Len(ran) + i] = task[ordered[i]]
        /\ \A i \in DOMAIN old : posted[Len(posted) + 1 - i] = task[old[i]]
    BY <1>4 DEF OrderInv, TypeOK
  <2>2. task[c] \in Nat
    BY <1>3, WakeAssumption DEF TypeOK
  <2>3. /\ Len(posted') = Len(posted) + 1 /\ posted'[Len(posted) + 1] = task[c]
        /\ \A i \in 1 .. Len(posted) : posted'[i] = posted[i]
    BY <1>2, <2>1, <2>2
  <2>4. Len(posted') = Len(ran) + Len(ordered) + Len(s)
    BY <1>5, <1>7, <2>1, <2>3
  <2>5. ASSUME NEW i \in DOMAIN ran PROVE posted'[i] = ran[i]
    <3>1. i \in 1 .. Len(posted)
      BY <1>5, <2>1
    <3> QED
      BY <2>1, <2>3, <3>1
  <2>6. ASSUME NEW i \in DOMAIN ordered PROVE posted'[Len(ran) + i] = task[ordered[i]]
    <3>1. Len(ran) + i \in 1 .. Len(posted)
      BY <1>5, <2>1
    <3> QED
      BY <2>1, <2>3, <3>1
  <2>7. ASSUME NEW i \in DOMAIN s PROVE posted'[Len(posted') + 1 - i] = task[s[i]]
    <3>1. CASE i = 1
      BY <1>7, <2>1, <2>3, <3>1
    <3>2. CASE i # 1
      <4>1. i - 1 \in DOMAIN old /\ s[i] = old[i - 1]
        BY <1>5, <1>7, <3>2
      <4>2. Len(posted') + 1 - i = Len(posted) + 1 - (i - 1)
        BY <1>5, <1>7, <2>1, <2>3
      <4>3. Len(posted) + 1 - (i - 1) \in 1 .. Len(posted)
        BY <1>5, <2>1, <4>1
      <4> QED
        BY <2>1, <2>3, <4>1, <4>2, <4>3
    <3> QED
      BY <3>1, <3>2
  <2> QED
    BY <1>2, <1>10, <2>4, <2>5, <2>6, <2>7 DEF OrderInv
<1>17. WakeInv'
  BY <1>2, <1>13 DEF WakeInv, TypeOK
<1>18. RoundInv'
  BY SMTT(20), <1>2 DEF RoundInv, TypeOK
<1>19. SleepInv'
  <2>1. Waking'
    BY <1>2 DEF Waking, TypeOK
  <2> QED
    BY <2>1 DEF SleepInv
<1> QED
  BY <1>12, <1>15, <1>16, <1>17, <1>18, <1>19

LEMMA EmptyStack == <<>> \in Stacks
<1>1. <<>> \in Seq(Cells) /\ DOMAIN <<>> = {}
  OBVIOUS
<1>2. Injective(<<>>)
  BY <1>1 DEF Injective
<1> QED
  BY <1>1, <1>2, SeqIsStack

(* The stack is taken whole and turned round.                              *)
LEMMA TakeTasksKeeps == ASSUME PostInv, TakeTasks PROVE PostInv'
<1> USE DEF PostInv
<1>1. /\ at \in {4, 12} /\ running /\ ~inside /\ ordered = <<>> /\ pass = 0
      /\ ordered' = Reverse(Stack) /\ tasks' = Null /\ mayWait' = (mayWait /\ tasks = Null)
      /\ pass' = 1
      /\ UNCHANGED <<next, task, cell, pc, posted, ran, destroyed>>
      /\ UNCHANGED <<woken, signals, stop, at, left, batch, looks>>
      /\ UNCHANGED <<running, inside, after, done, events, port, refused, posts>>
  BY Steps DEF TakeTasks, OnLoop, Stack, InOrder, roundVars, lifeVars
<1>2. PICK old : old = Stack
  OBVIOUS
<1>3. /\ old \in Seq(Cells) /\ Len(old) \in Nat /\ DOMAIN old = 1 .. Len(old)
      /\ \A i \in 1 .. Len(old) : old[i] \in Cells
      /\ Injective(old) /\ Down(old, tasks)
  BY <1>2, StackIsSeq DEF CellInv
<1>4. /\ ordered' = [i \in 1 .. Len(old) |-> old[(Len(old) - i) + 1]]
      /\ ordered' \in Seq(Cells) /\ Len(ordered') = Len(old) /\ DOMAIN ordered' = 1 .. Len(old)
  <2>1. ordered' = [i \in 1 .. Len(old) |-> old[(Len(old) - i) + 1]]
    BY <1>1, <1>2 DEF Reverse
  <2>2. \A i \in 1 .. Len(old) : old[(Len(old) - i) + 1] \in Cells
    BY <1>3
  <2> QED
    BY <1>3, <2>1, <2>2
<1>5. Range(ordered') = Range(old)
  <2>1. \A i \in DOMAIN ordered' : \E j \in DOMAIN old : ordered'[i] = old[j]
    BY <1>3, <1>4
  <2>2. ASSUME NEW j \in DOMAIN old PROVE \E i \in DOMAIN ordered' : ordered'[i] = old[j]
    <3>1. (Len(old) - j) + 1 \in 1 .. Len(old) /\ (Len(old) - ((Len(old) - j) + 1)) + 1 = j
      BY <1>3
    <3>2. ordered'[(Len(old) - j) + 1] = old[j]
      BY <1>4, <3>1
    <3> QED
      BY <1>4, <3>1, <3>2
  <2> QED
    BY <2>1, <2>2 DEF Range
<1>6. Stack' = <<>> /\ Stack' \in Stacks' /\ Down(Stack, tasks)'
  <2>1. <<>> \in Stacks
    BY EmptyStack
  <2> QED
    BY <1>1, <2>1, NewStack
<1>7. 1 \in 0 .. DonePasses /\ (mayWait /\ tasks = Null) \in BOOLEAN
  BY WakeAssumption
<1>8. TypeOK'
  BY <1>1, <1>4, <1>7 DEF TypeOK
<1>9. Pushers' = Pushers /\ Posting' = Posting
  BY <1>1 DEF Pushers, Posting
<1>10. Injective(ordered)'
  <2>1. ASSUME NEW i \in 1 .. Len(old), NEW j \in 1 .. Len(old), ordered'[i] = ordered'[j]
        PROVE  i = j
    <3>1. (Len(old) - i) + 1 \in 1 .. Len(old) /\ (Len(old) - j) + 1 \in 1 .. Len(old)
      BY <1>3
    <3>2. old[(Len(old) - i) + 1] = old[(Len(old) - j) + 1]
      BY <1>4, <2>1
    <3>3. (Len(old) - i) + 1 = (Len(old) - j) + 1
      BY <1>3, <3>1, <3>2 DEF Injective
    <3> QED
      BY <1>3, <3>3
  <2> QED
    BY <1>4, <2>1 DEF Injective
<1>11. Range(<<>>) = {} /\ Range(ordered) = {}
  BY <1>1 DEF Range
<1>12. CellInv'
  <2>1. Injective(Stack)' /\ (Range(Stack) \cap Range(ordered) = {})'
    BY <1>6, <1>11 DEF Injective
  <2>2. \A u \in Pushers' : cell'[u] \in Cells \ (Range(Stack') \cup Range(ordered'))
    BY <1>1, <1>2, <1>5, <1>6, <1>9, <1>11 DEF CellInv
  <2>3. \A u, w \in Pushers' : cell'[u] = cell'[w] => u = w
    BY <1>1, <1>9 DEF CellInv
  <2>4. {x \in Cells : task'[x] # 0} =
          Range(Stack') \cup Range(ordered') \cup {cell'[u] : u \in Pushers'}
    BY <1>1, <1>2, <1>5, <1>6, <1>9, <1>11 DEF CellInv
  <2> QED
    BY <1>6, <1>10, <2>1, <2>2, <2>3, <2>4 DEF CellInv
<1>13. OrderInv'
  <2> SUFFICES ASSUME ~destroyed PROVE OrderInv'
    BY <1>1 DEF OrderInv
  <2>1. /\ posted \in Seq(Nat) /\ ran \in Seq(Nat) /\ Len(ordered) = 0
        /\ Len(posted) = Len(ran) + Len(ordered) + Len(old)
        /\ \A i \in DOMAIN ran : posted[i] = ran[i]
        /\ \A i \in DOMAIN old : posted[Len(posted) + 1 - i] = task[old[i]]
    BY <1>1, <1>2 DEF OrderInv, TypeOK
  <2>2. ASSUME NEW i \in 1 .. Len(old) PROVE posted[Len(ran) + i] = task[ordered'[i]]
    <3>1. (Len(old) - i) + 1 \in 1 .. Len(old) /\ Len(ran) \in Nat
      BY <1>3, <2>1
    <3>2. Len(posted) + 1 - ((Len(old) - i) + 1) = Len(ran) + i
      BY <1>3, <2>1, <3>1
    <3>3. posted[Len(posted) + 1 - ((Len(old) - i) + 1)] = task[old[(Len(old) - i) + 1]]
      BY <1>3, <2>1, <3>1
    <3> QED
      BY <1>4, <3>2, <3>3
  <2>3. Len(<<>>) = 0 /\ DOMAIN <<>> = {}
    OBVIOUS
  <2>4. Len(posted') = Len(ran') + Len(ordered') + Len(Stack')
    BY <1>1, <1>3, <1>4, <1>6, <2>1, <2>3
  <2> QED
    BY <1>1, <1>4, <1>6, <2>1, <2>2, <2>3, <2>4 DEF OrderInv
<1>14. WakeInv'
  BY <1>1, <1>9 DEF WakeInv
<1>15. RoundInv'
  <2>1. tasks = Null => old = <<>>
    BY <1>3, WakeAssumption DEF Down
  <2>2. old = <<>> => ordered' = <<>>
    BY <1>4
  <2> QED
    BY <1>1, <2>1, <2>2 DEF RoundInv
<1>16. SleepInv'
  BY <1>1 DEF SleepInv, Waking
<1> QED
  BY <1>8, <1>12, <1>13, <1>14, <1>15, <1>16

(* An entry taken is given back before its function is called.             *)
LEMMA RunOneKeeps == ASSUME PostInv, RunTask, ordered # <<>> PROVE PostInv'
<1> USE DEF PostInv
<1>1. PICK o : o = ordered
  OBVIOUS
<1>2. PICK c : c = Head(o)
  OBVIOUS
<1>3. /\ at \in {4, 12} /\ pass = 1 /\ running /\ ~inside /\ o # <<>>
      /\ ran' = Append(ran, task[c]) /\ task' = [task EXCEPT ![c] = 0]
      /\ ordered' = Tail(o) /\ inside' = TRUE
      /\ UNCHANGED <<tasks, next, cell, pc, posted, destroyed>>
      /\ UNCHANGED <<woken, signals, stop, at, pass, left, batch, looks, mayWait>>
      /\ UNCHANGED <<running, after, done, events, port, refused, posts>>
  BY <1>1, <1>2, Steps DEF RunTask, OnLoop, roundVars, lifeVars
<1>4. /\ o \in Seq(Cells) /\ Len(o) \in Nat \ {0} /\ DOMAIN o = 1 .. Len(o)
      /\ c = o[1] /\ c \in Cells /\ Injective(o)
      /\ \A i \in 1 .. Len(o) : o[i] \in Cells
  <2>1. o \in Seq(Cells) /\ Injective(o)
    BY <1>1 DEF TypeOK, CellInv
  <2>2. Len(o) \in Nat \ {0} /\ DOMAIN o = 1 .. Len(o) /\ \A i \in 1 .. Len(o) : o[i] \in Cells
    BY <1>3, <2>1
  <2>3. c = o[1]
    BY <1>2, <1>3, <2>1, HeadTailProperties
  <2> QED
    BY <2>1, <2>2, <2>3
<1>5. /\ ordered' \in Seq(Cells) /\ Len(ordered') = Len(o) - 1
      /\ DOMAIN ordered' = 1 .. Len(o) - 1
      /\ \A i \in 1 .. Len(o) - 1 : ordered'[i] = o[i + 1] /\ o[i + 1] # c
  <2>1. ordered' \in Seq(Cells) /\ Len(ordered') = Len(o) - 1
    BY <1>3, <1>4, HeadTailProperties
  <2>2. \A i \in 1 .. Len(o) - 1 : ordered'[i] = o[i + 1]
    BY <1>3, <1>4, <2>1, HeadTailProperties
  <2>3. \A i \in 1 .. Len(o) - 1 : o[i + 1] # c
    BY <1>4 DEF Injective
  <2> QED
    BY <1>4, <2>1, <2>2, <2>3
<1>6. Range(o) = Range(ordered') \cup {c} /\ c \notin Range(ordered')
  <2>1. c \notin Range(ordered')
    BY <1>5 DEF Range
  <2>2. ASSUME NEW i \in DOMAIN o PROVE o[i] = c \/ \E j \in DOMAIN ordered' : o[i] = ordered'[j]
    <3>1. CASE i = 1
      BY <1>4, <3>1
    <3>2. CASE i # 1
      <4>1. i - 1 \in 1 .. Len(o) - 1 /\ i - 1 + 1 = i
        BY <1>4, <3>2
      <4> QED
        BY <1>5, <4>1
    <3> QED
      BY <3>1, <3>2
  <2>3. \A j \in DOMAIN ordered' : j + 1 \in DOMAIN o /\ ordered'[j] = o[j + 1]
    BY <1>4, <1>5
  <2>4. 1 \in DOMAIN o
    BY <1>4
  <2> QED
    BY <1>4, <2>1, <2>2, <2>3, <2>4 DEF Range
<1>7. c \notin Range(Stack) /\ \A u \in Pushers : cell[u] # c
  BY <1>1, <1>6 DEF CellInv
<1>8. Stack' = Stack /\ Stack' \in Stacks' /\ Down(Stack, tasks)'
  BY <1>3, SameStack
<1>9. TypeOK'
  <2>1. task[c] \in Nat /\ 0 \in 0 .. MaxPosts
    BY <1>4, WakeAssumption DEF TypeOK
  <2>2. ran' \in Seq(Nat)
    BY <1>3, <2>1 DEF TypeOK
  <2>3. task' \in [Cells -> 0 .. MaxPosts]
    BY <1>3, <2>1 DEF TypeOK
  <2> QED
    BY <1>3, <1>5, <2>2, <2>3 DEF TypeOK
<1>10. Pushers' = Pushers /\ Posting' = Posting
  BY <1>3 DEF Pushers, Posting
<1>11. {x \in Cells : task'[x] # 0} = {x \in Cells : task[x] # 0} \ {c}
  BY <1>3 DEF TypeOK
<1>12. CellInv'
  <2>1. Injective(ordered)'
    <3>1. ASSUME NEW i \in 1 .. Len(o) - 1, NEW j \in 1 .. Len(o) - 1, ordered'[i] = ordered'[j]
          PROVE  i = j
      <4>1. i + 1 \in DOMAIN o /\ j + 1 \in DOMAIN o /\ o[i + 1] = o[j + 1]
        BY <1>4, <1>5, <3>1
      <4>2. i + 1 = j + 1
        BY <1>4, <4>1 DEF Injective
      <4> QED
        BY <4>2
    <3> QED
      BY <1>5, <3>1 DEF Injective
  <2>2. Injective(Stack)' /\ (Range(Stack) \cap Range(ordered) = {})'
    BY <1>1, <1>6, <1>8 DEF CellInv, Injective
  <2>3. \A u \in Pushers' : cell'[u] \in Cells \ (Range(Stack') \cup Range(ordered'))
    BY <1>1, <1>3, <1>6, <1>8, <1>10 DEF CellInv
  <2>4. \A u, w \in Pushers' : cell'[u] = cell'[w] => u = w
    BY <1>3, <1>10 DEF CellInv
  <2>5. {cell'[u] : u \in Pushers'} = {cell[u] : u \in Pushers}
    BY <1>3, <1>10
  <2>6. {x \in Cells : task'[x] # 0} =
          Range(Stack') \cup Range(ordered') \cup {cell'[u] : u \in Pushers'}
    BY <1>1, <1>6, <1>7, <1>8, <1>11, <2>5 DEF CellInv
  <2> QED
    BY <1>8, <2>1, <2>2, <2>3, <2>4, <2>6 DEF CellInv
<1>13. OrderInv'
  <2> SUFFICES ASSUME ~destroyed PROVE OrderInv'
    BY <1>3 DEF OrderInv
  <2>1. PICK s : s = Stack
    OBVIOUS
  <2>2. /\ posted \in Seq(Nat) /\ ran \in Seq(Nat) /\ Len(s) \in Nat
        /\ DOMAIN s = 1 .. Len(s) /\ \A i \in 1 .. Len(s) : s[i] \in Cells /\ s[i] # c
        /\ Len(posted) = Len(ran) + Len(o) + Len(s)
        /\ \A i \in DOMAIN ran : posted[i] = ran[i]
        /\ \A i \in DOMAIN o : posted[Len(ran) + i] = task[o[i]]
        /\ \A i \in DOMAIN s : posted[Len(posted) + 1 - i] = task[s[i]]
    <3>1. /\ s \in Stacks /\ Len(s) \in Nat /\ DOMAIN s = 1 .. Len(s)
          /\ \A i \in 1 .. Len(s) : s[i] \in Cells
      BY <2>1, StackIsSeq DEF CellInv
    <3>2. \A i \in 1 .. Len(s) : s[i] # c
      BY <1>7, <2>1, <3>1 DEF Range
    <3>3. posted \in Seq(Nat) /\ ran \in Seq(Nat)
      BY DEF TypeOK
    <3>4. /\ Len(posted) = Len(ran) + Len(o) + Len(s)
          /\ \A i \in DOMAIN ran : posted[i] = ran[i]
          /\ \A i \in DOMAIN o : posted[Len(ran) + i] = task[o[i]]
          /\ \A i \in DOMAIN s : posted[Len(posted) + 1 - i] = task[s[i]]
      BY <1>1, <2>1 DEF OrderInv
    <3> QED
      BY <3>1, <3>2, <3>3, <3>4
  <2>3. task[c] \in Nat /\ \A x \in Cells : x # c => task'[x] = task[x]
    BY <1>3, <1>4, WakeAssumption DEF TypeOK
  <2>4. /\ Len(ran') = Len(ran) + 1 /\ DOMAIN ran' = 1 .. Len(ran) + 1
        /\ ran'[Len(ran) + 1] = task[c] /\ \A i \in 1 .. Len(ran) : ran'[i] = ran[i]
    BY <1>3, <2>2, <2>3
  <2>5. Len(posted') = Len(ran') + Len(ordered') + Len(s)
    BY <1>3, <1>4, <1>5, <2>2, <2>4
  <2>6. ASSUME NEW i \in 1 .. Len(ran) + 1 PROVE posted'[i] = ran'[i]
    <3>1. posted' = posted /\ Len(ran) \in Nat /\ DOMAIN ran = 1 .. Len(ran)
      BY <1>3, <2>2
    <3>2. CASE i = Len(ran) + 1
      <4>1. 1 \in DOMAIN o
        BY <1>4
      <4>2. posted[Len(ran) + 1] = task[c]
        BY <1>4, <2>2, <4>1
      <4> QED
        BY <2>4, <3>1, <3>2, <4>2
    <3>3. CASE i # Len(ran) + 1
      <4>1. i \in DOMAIN ran /\ i \in 1 .. Len(ran)
        BY <3>1, <3>3
      <4>2. posted[i] = ran[i]
        BY <2>2, <4>1
      <4> QED
        BY <2>4, <3>1, <4>1, <4>2
    <3> QED
      BY <3>2, <3>3
  <2>7. ASSUME NEW i \in 1 .. Len(o) - 1 PROVE posted'[Len(ran') + i] = task'[ordered'[i]]
    <3>1. /\ ordered'[i] = o[i + 1] /\ o[i + 1] # c /\ o[i + 1] \in Cells /\ i + 1 \in DOMAIN o
      BY <1>4, <1>5
    <3>2. Len(ran') + i = Len(ran) + (i + 1)
      BY <1>4, <2>2, <2>4
    <3>3. posted[Len(ran) + (i + 1)] = task[o[i + 1]]
      BY <2>2, <3>1
    <3>4. task'[o[i + 1]] = task[o[i + 1]] /\ posted' = posted
      BY <1>3, <2>3, <3>1
    <3> QED
      BY <3>1, <3>2, <3>3, <3>4
  <2>8. \A i \in DOMAIN s : posted'[Len(posted') + 1 - i] = task'[s[i]]
    BY <1>3, <2>2, <2>3
  <2>9. Stack' = s
    BY <1>8, <2>1
  <2>10. /\ \A i \in DOMAIN ran' : posted'[i] = ran'[i]
         /\ \A i \in DOMAIN ordered' : posted'[Len(ran') + i] = task'[ordered'[i]]
    BY <1>5, <2>4, <2>6, <2>7
  <2> QED
    BY <2>5, <2>8, <2>9, <2>10 DEF OrderInv
<1>14. WakeInv'
  BY <1>3, <1>10 DEF WakeInv
<1>15. RoundInv'
  BY <1>1, <1>3 DEF RoundInv
<1>16. SleepInv'
  BY <1>3 DEF SleepInv, Waking
<1> QED
  BY <1>9, <1>12, <1>13, <1>14, <1>15, <1>16

LEMMA RunNoneKeeps == ASSUME PostInv, RunTask, ordered = <<>> PROVE PostInv'
<1>1. at \in {4, 12} /\ pass = 1 /\ TypeOK
  BY Steps DEF RunTask, OnLoop, PostInv
<1>2. Enter(NextStep) /\ UNCHANGED <<ran, task, ordered, inside>>
  BY DEF RunTask
<1>3. NextStep \in 0 .. 16 /\ NextStep = at + 1
  BY <1>1, Following
<1>4. /\ at' = at + 1 /\ pass' = 0 /\ left' \in Nat
      /\ at' \in 0 .. Len(Round) /\ pass' \in 0 .. DonePasses
  BY <1>1, <1>2, <1>3, Entering
<1>5. TypeOK'
  BY <1>2, <1>4 DEF PostInv, TypeOK, RunTask, lifeVars
<1>6. Pushers' = Pushers /\ Posting' = Posting
  BY DEF RunTask, Pushers, Posting
<1>7. CellInv' /\ OrderInv'
  BY <1>2, <1>6, StackFrame DEF PostInv, RunTask, stackVars, lifeVars
<1>8. WakeInv'
  BY <1>1, <1>4, <1>6 DEF PostInv, WakeInv, Reports, RunTask, lifeVars
<1>9. RoundInv'
  BY <1>1, <1>2, <1>4 DEF PostInv, RoundInv, RunTask, OnLoop
<1>10. SleepInv'
  <2>1. UNCHANGED <<mayWait, refused, stop, signals, pc, tasks>>
    BY DEF RunTask, lifeVars
  <2>2. Waking' = Waking
    BY <2>1 DEF Waking
  <2>3. at' \in 1 .. 5 => at = 4 /\ at' = 5
    BY <1>1, <1>4
  <2>4. at' \in {4, 5} => at = 4
    BY <1>1, <1>4
  <2> QED
    BY <1>1, <2>1, <2>2, <2>3, <2>4 DEF PostInv, SleepInv
<1> QED
  BY <1>5, <1>7, <1>8, <1>9, <1>10 DEF PostInv

LEMMA DestroyKeeps == ASSUME PostInv, Destroy PROVE PostInv'
<1> USE DEF PostInv
<1>1. /\ ~running /\ \A t \in All : pc[t] = "idle"
      /\ destroyed' = TRUE /\ tasks' = Null /\ done' = 0
      /\ task' = [c \in Cells |-> IF c \in Range(Stack) THEN 0 ELSE task[c]]
      /\ UNCHANGED <<next, cell, pc, posted, ran, ordered>>
      /\ UNCHANGED <<woken, signals, stop, at, left, pass, batch, looks, mayWait>>
      /\ UNCHANGED <<running, inside, after, events, port, refused, posts>>
  BY DEF Destroy, Dropped, Stack, roundVars
<1>2. at = 0 /\ ordered = <<>> /\ Pushers = {}
  BY <1>1 DEF RoundInv, Pushers
<1>3. TypeOK'
  BY <1>1, WakeAssumption DEF TypeOK
<1>4. Stack' = <<>> /\ Stack' \in Stacks' /\ Down(Stack, tasks)'
  <2>1. <<>> \in Stacks
    BY EmptyStack
  <2> QED
    BY <1>1, <2>1, NewStack
<1>5. Pushers' = {} /\ Posting' = Posting
  BY <1>1, <1>2 DEF Pushers, Posting
<1>6. Range(<<>>) = {} /\ Injective(<<>>)
  BY DEF Range, Injective
<1>7. {x \in Cells : task'[x] # 0} = {}
  BY <1>1, <1>2, <1>6 DEF CellInv
<1>8. CellInv'
  BY <1>1, <1>2, <1>4, <1>5, <1>6, <1>7 DEF CellInv, Injective
<1>9. OrderInv'
  BY <1>1 DEF OrderInv
<1>10. WakeInv'
  BY <1>1, <1>5 DEF WakeInv
<1>11. RoundInv'
  BY <1>1, <1>2 DEF RoundInv
<1>12. SleepInv'
  BY <1>1, <1>2 DEF SleepInv
<1> QED
  BY <1>3, <1>8, <1>9, <1>10, <1>11, <1>12

---------------------------------------------------------------------------
(* The system.                                                             *)

LEMMA StartsRight == Init => PostInv
<1> SUFFICES ASSUME Init PROVE PostInv
  OBVIOUS
<1>1. Len(Round) = 16
  BY DEF Round
<1>2. TypeOK
  <2>1. /\ posts = 0 /\ 0 \in 0 .. MaxPosts /\ 0 \in 0 .. DonePasses /\ 0 \in 0 .. Len(Round)
        /\ 0 \in 0 .. IF port THEN 1 ELSE PipeSize
    BY <1>1, WakeAssumption DEF Init
  <2>2. port \in BOOLEAN
    BY WakeAssumption DEF Init
  <2>3. <<>> \in Seq(Cells) /\ <<>> \in Seq(Afters) /\ <<>> \in Seq(Nat)
    OBVIOUS
  <2>4. batch \in [wake : BOOLEAN, events : Nat, count : Nat]
    BY DEF Init
  <2> QED
    BY <2>1, <2>2, <2>3, <2>4 DEF Init, TypeOK
<1>3. Pushers = {} /\ Posting = {}
  BY DEF Init, Pushers, Posting
<1>4. Stack = <<>> /\ Stack \in Stacks /\ Down(Stack, tasks)
  <2>1. Down(<<>>, tasks)
    BY DEF Init, Down
  <2> QED
    BY <2>1, EmptyStack, StackIs
<1>5. Range(<<>>) = {} /\ Injective(<<>>)
  BY DEF Range, Injective
<1>6. ordered = <<>> /\ {c \in Cells : task[c] # 0} = {}
  BY DEF Init
<1>7. CellInv
  BY <1>3, <1>4, <1>5, <1>6 DEF CellInv
<1>8. OrderInv
  <2>1. ran = <<>> /\ posted = <<>>
    BY DEF Init
  <2> QED
    BY <1>4, <1>6, <2>1 DEF OrderInv
<1>9. WakeInv
  BY <1>3 DEF Init, WakeInv
<1>10. RoundInv
  BY DEF Init, RoundInv
<1>11. SleepInv
  BY DEF Init, SleepInv
<1> QED
  BY <1>2, <1>7, <1>8, <1>9, <1>10, <1>11 DEF PostInv

LEMMA PosterKeeps == ASSUME PostInv, NEW t \in All, Poster(t) PROVE PostInv'
<1>1. CASE PostBegin(t)
  BY <1>1, PostBeginKeeps
<1>2. CASE Push(t)
  BY <1>2, PushKeeps, PushAgainKeeps
<1>3. CASE Stop(t)
  BY <1>3, StopKeeps
<1>4. CASE WakeSelector(t)
  BY <1>4, WakeSelectorKeeps
<1>5. CASE WakePort(t)
  BY <1>5, WakePortKeeps
<1>6. CASE PortPost(t)
  BY <1>6, PortPostKeeps
<1>7. CASE PostFailed(t)
  BY <1>7, PostFailedKeeps
<1> QED
  BY <1>1, <1>2, <1>3, <1>4, <1>5, <1>6, <1>7 DEF Poster

LEMMA LoopKeeps == ASSUME PostInv, Loop PROVE PostInv'
<1>1. CASE Return \/ RunLoads \/ RunReturns
  BY <1>1, ReturnKeeps, RunLoadsKeeps, RunReturnsKeeps
<1>2. CASE RunAfter \/ RunDone \/ Decide \/ TimersAdvance
  BY <1>2, RunAfterKeeps, RunDoneKeeps, DecideKeeps, TimersKeeps
<1>3. CASE TakeTasks \/ RunTask
  BY <1>3, TakeTasksKeeps, RunOneKeeps, RunNoneKeeps
<1>4. CASE Collect \/ LookAgain
  BY <1>4, CollectKeeps, LookAgainKeeps
<1>5. CASE ReportWake \/ ReportEvent \/ ReportsEnd
  BY <1>5, ReportWakeKeeps, ReportEventKeeps, ReportsEndKeeps
<1>6. CASE Finish(Main)
  BY <1>6, PosterKeeps DEF Finish, Poster, All
<1> QED
  BY <1>1, <1>2, <1>3, <1>4, <1>5, <1>6 DEF Loop

LEMMA StepKeeps == ASSUME PostInv, [Next]_vars PROVE PostInv'
<1>1. CASE \E t \in All : Poster(t)
  BY <1>1, PosterKeeps
<1>2. CASE Asks
  BY <1>2, AfterKeeps, AfterCancelKeeps, QueueKeeps DEF Asks
<1>3. CASE Run \/ WaitFailed \/ EventArrives \/ Destroy
  BY <1>3, RunKeeps, WaitFailedKeeps, EventKeeps, DestroyKeeps
<1>4. CASE Loop
  BY <1>4, LoopKeeps
<1>5. CASE UNCHANGED vars
  <2>1. /\ UNCHANGED <<stackVars, ordered, posted, ran, destroyed, pc>>
        /\ UNCHANGED <<woken, signals, stop, at, left, pass, batch, looks, mayWait>>
        /\ UNCHANGED <<running, inside, after, done, events, port, refused, posts>>
    BY <1>5 DEF vars, roundVars, lifeVars
  <2>2. Pushers' = Pushers /\ Posting' = Posting
    BY <2>1 DEF Pushers, Posting
  <2>3. CellInv' /\ OrderInv'
    BY <2>1, <2>2, StackFrame DEF PostInv
  <2>4. TypeOK'
    BY <2>1 DEF PostInv, TypeOK, stackVars
  <2>5. WakeInv' /\ RoundInv'
    BY <2>1, <2>2 DEF PostInv, WakeInv, RoundInv
  <2>6. SleepInv'
    BY <2>1 DEF PostInv, SleepInv, Waking, stackVars
  <2> QED
    BY <2>3, <2>4, <2>5, <2>6 DEF PostInv
<1> QED
  BY <1>1, <1>2, <1>3, <1>4, <1>5 DEF Next

(* Whatever the threads and the loop do, and however often the allocator   *)
(* hands a cell out again: an entry is in one place, what was called, was  *)
(* taken and is stacked is what was posted, at most one wake-up of the     *)
(* port is on its way, and whoever posts after the loop looked wakes it.   *)
THEOREM PostsCorrect == Spec => []PostInv
<1>1. Init => PostInv
  BY StartsRight
<1>2. PostInv /\ [Next]_vars => PostInv'
  BY StepKeeps
<1> QED
  BY <1>1, <1>2, PTL DEF Spec

(* The entries as the code holds them, end to end.                         *)
LEMMA EndToEnd == PostInv => InPostOrder
<1> SUFFICES ASSUME PostInv PROVE InPostOrder
  OBVIOUS
<1>1. TypeOK /\ CellInv /\ OrderInv
  BY DEF PostInv
<1>2. {c \in Cells : task[c] # 0} =
          Range(Chain(tasks)) \cup Range(ordered) \cup {cell[t] : t \in {u \in All : pc[u] = "push"}}
  BY <1>1 DEF CellInv, Stack, Pushers
<1>3. ASSUME ~destroyed
      PROVE  ran \o TasksIn(ordered) \o Reverse(TasksIn(Chain(tasks))) = posted
  <2>1. PICK s : s = Stack
    OBVIOUS
  <2>2. PICK o : o = ordered
    OBVIOUS
  <2>3. /\ s \in Seq(Cells) /\ Len(s) \in Nat /\ DOMAIN s = 1 .. Len(s)
        /\ o \in Seq(Cells) /\ Len(o) \in Nat /\ DOMAIN o = 1 .. Len(o)
        /\ ran \in Seq(Nat) /\ posted \in Seq(Nat)
    BY SMTT(20), <1>1, <2>1, <2>2, StackIsSeq DEF CellInv, TypeOK
  <2>4. /\ Len(posted) = Len(ran) + Len(o) + Len(s)
        /\ \A i \in DOMAIN ran : posted[i] = ran[i]
        /\ \A i \in DOMAIN o : posted[Len(ran) + i] = task[o[i]]
        /\ \A i \in DOMAIN s : posted[Len(posted) + 1 - i] = task[s[i]]
    BY <1>1, <1>3, <2>1, <2>2 DEF OrderInv
  <2>5. \A x \in Cells : task[x] \in Nat
    BY <1>1, WakeAssumption DEF TypeOK
  <2> DEFINE a == TasksIn(o)
             b == TasksIn(s)
             r == Reverse(b)
  <2>6. a \in Seq(Nat) /\ Len(a) = Len(o) /\ \A i \in 1 .. Len(o) : a[i] = task[o[i]]
    BY <2>3, <2>5 DEF TasksIn
  <2>7. b \in Seq(Nat) /\ Len(b) = Len(s) /\ \A i \in 1 .. Len(s) : b[i] = task[s[i]]
    BY <2>3, <2>5 DEF TasksIn
  <2> HIDE DEF a, b
  <2>8. r = [i \in 1 .. Len(s) |-> b[(Len(s) - i) + 1]]
    BY <2>7 DEF Reverse
  <2>9. \A i \in 1 .. Len(s) : (Len(s) - i) + 1 \in 1 .. Len(s)
    BY <2>3
  <2> HIDE DEF r
  <2>10. /\ r \in Seq(Nat) /\ Len(r) = Len(s)
         /\ \A i \in 1 .. Len(s) : r[i] = task[s[(Len(s) - i) + 1]]
    BY <2>3, <2>7, <2>8, <2>9
  <2> DEFINE ra == ran \o a
             all == ra \o r
  <2>11. /\ ra \in Seq(Nat) /\ Len(ra) = Len(ran) + Len(o)
         /\ \A i \in 1 .. Len(ran) + Len(o) :
               ra[i] = IF i <= Len(ran) THEN ran[i] ELSE a[i - Len(ran)]
    <3>1. /\ ra \in Seq(Nat) /\ Len(ra) = Len(ran) + Len(a)
          /\ \A i \in 1 .. Len(ran) + Len(a) :
                ra[i] = IF i <= Len(ran) THEN ran[i] ELSE a[i - Len(ran)]
      BY <2>3, <2>6, ConcatProperties, Zenon
    <3> QED
      BY <2>6, <3>1
  <2> HIDE DEF ra
  <2>12. /\ all \in Seq(Nat) /\ Len(all) = Len(posted)
         /\ \A i \in 1 .. Len(posted) :
               all[i] = IF i <= Len(ra) THEN ra[i] ELSE r[i - Len(ra)]
    <3>1. /\ all \in Seq(Nat) /\ Len(all) = Len(ra) + Len(r)
          /\ \A i \in 1 .. Len(ra) + Len(r) :
                all[i] = IF i <= Len(ra) THEN ra[i] ELSE r[i - Len(ra)]
      <4>1. ra \in Seq(Nat) /\ r \in Seq(Nat)
        BY <2>10, <2>11
      <4> QED
        BY <4>1, ConcatProperties, Zenon
    <3>2. Len(ra) + Len(r) = Len(posted)
      BY <2>3, <2>4, <2>10, <2>11
    <3> QED
      BY <3>1, <3>2
  <2> HIDE DEF all
  <2>13. ASSUME NEW i \in 1 .. Len(posted) PROVE all[i] = posted[i]
    <3>1. Len(ran) \in Nat /\ DOMAIN ran = 1 .. Len(ran) /\ i \in Nat /\ i >= 1
      BY <2>3
    <3>2. CASE i <= Len(ran)
      <4>1. i \in DOMAIN ran /\ i \in 1 .. Len(ran) + Len(o) /\ i <= Len(ra)
        BY <2>3, <2>11, <3>1, <3>2
      <4> QED
        BY <2>4, <2>11, <2>12, <3>2, <4>1
    <3>3. CASE i > Len(ran) /\ i <= Len(ran) + Len(o)
      <4>1. i - Len(ran) \in DOMAIN o /\ Len(ran) + (i - Len(ran)) = i
        BY <2>3, <3>1, <3>3
      <4>2. posted[i] = task[o[i - Len(ran)]]
        BY <2>4, <4>1
      <4>3. i \in 1 .. Len(ran) + Len(o) /\ ~(i <= Len(ran))
        BY <2>3, <3>1, <3>3
      <4>4. all[i] = ra[i]
        BY <2>11, <2>12, <3>3
      <4>5. all[i] = a[i - Len(ran)]
        BY <2>11, <4>3, <4>4
      <4> QED
        BY <2>3, <2>6, <4>1, <4>2, <4>5
    <3>4. CASE i > Len(ran) + Len(o)
      <4> DEFINE k == i - (Len(ran) + Len(o))
                 j == (Len(s) - k) + 1
      <4>1. k \in 1 .. Len(s) /\ j \in 1 .. Len(s) /\ Len(posted) + 1 - j = i
        BY <2>3, <2>4, <3>1, <3>4
      <4>2. all[i] = r[k]
        BY <2>3, <2>11, <2>12, <3>1, <3>4
      <4> HIDE DEF k
      <4>3. r[k] = task[s[j]]
        BY <2>10, <4>1
      <4> HIDE DEF j
      <4>4. posted[i] = task[s[j]]
        BY <2>3, <2>4, <4>1
      <4> QED
        BY <4>2, <4>3, <4>4
    <3> QED
      BY <2>3, <3>1, <3>2, <3>3, <3>4
  <2>14. all = posted
    BY <2>3, <2>12, <2>13, SeqEqual
  <2> QED
    BY <2>1, <2>2, <2>14 DEF all, ra, r, a, b, Stack
<1> QED
  BY <1>1, <1>2, <1>3 DEF InPostOrder

(* A loop that sleeps owes nothing, and a post or a stop it has not seen   *)
(* has its wake-up on the way.                                             *)
LEMMA WakesUp == PostInv => NoLostWake
<1> SUFFICES ASSUME PostInv, Sleeping PROVE
        /\ ~refused /\ (tasks # Null \/ stop) =>
            \E t \in All : pc[t] = "post" \/ (pc[t] = "wake" /\ ~(port /\ woken))
        /\ after = <<>> /\ done = 0 /\ ordered = <<>>
  BY DEF NoLostWake
<1>1. at = 5 /\ mayWait /\ signals = 0 /\ TypeOK
  BY Steps DEF Sleeping, OnLoop, PostInv
<1>2. after = <<>> /\ done = 0 /\ ordered = <<>>
  BY <1>1 DEF PostInv, RoundInv
<1>3. ASSUME ~refused, tasks # Null \/ stop
      PROVE  \E t \in All : pc[t] = "post" \/ (pc[t] = "wake" /\ ~(port /\ woken))
  <2>1. PICK t \in All : pc[t] \in {"wake", "post"}
    BY <1>1, <1>3 DEF PostInv, SleepInv, Waking
  <2>2. CASE port /\ woken
    <3>1. ~batch.wake
      BY <1>1 DEF PostInv, WakeInv, Reports
    <3>2. Posting # {}
      BY <1>1, <2>2, <3>1 DEF PostInv, WakeInv
    <3> QED
      BY <1>3, <3>2 DEF PostInv, WakeInv, Posting
  <2>3. CASE ~(port /\ woken)
    BY <2>1, <2>3
  <2> QED
    BY <2>2, <2>3
<1> QED
  BY <1>2, <1>3

(* Every function posted is called in the order posted, none twice and     *)
(* none lost, and the loop never sleeps over one, or over a stop           *)
(* (proven_loop_post, proven_loop_stop, proven_loop_poll), for every       *)
(* number of threads, posts and memory cells.                              *)
THEOREM PostsServed == Spec => []PostsAreServed
<1>1. PostInv => PostsAreServed
  BY EndToEnd, WakesUp DEF PostsAreServed
<1> QED
  BY <1>1, PostsCorrect, PTL
=============================================================================
