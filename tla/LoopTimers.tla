---------------------------- MODULE LoopTimers ----------------------------
(***************************************************************************)
(* src/net/src/loop.c: the event loop's hashed timer wheel and the part of *)
(* a round that depends on it.  A round computes how long it may sleep     *)
(* (loop_next_timer), sleeps, delivers what happened, moves the timers     *)
(* that are due onto a list of their own and fires them from its head.     *)
(* Every callback may set and cancel any timer.                            *)
(*                                                                         *)
(* Time is a counter of nanoseconds, Tick of them to a wheel tick.         *)
(***************************************************************************)
EXTENDS Integers, Sequences, SequencesExt, FiniteSets

CONSTANTS
    Timers,    \* the proven_loop_timer_t objects
    Slots,     \* LOOP_WHEEL_SLOTS
    Tick,      \* LOOP_TICK_NS
    Look,      \* LOOP_LOOK: timers looked at before giving up
    Delays,    \* the delays timers are set with
    LastSet,   \* bound: no timer is set after this time
    LastNow    \* bound: the clock stops here

ASSUME TimerAssumption ==
    /\ IsFiniteSet(Timers) /\ Slots \in Nat \ {0} /\ Tick \in Nat \ {0} /\ Look \in Nat \ {0}
    /\ Delays \subseteq Nat /\ LastSet \in Nat /\ LastNow \in Nat

VARIABLES
    now,         \* loop_now
    wheel,       \* [slot -> sequence of timers, head first]
    due,         \* timers taken off the wheel, not yet fired
    state,       \* [timer -> "idle", "wheel" or "due"]
    tick,        \* [timer -> the time it is due at]
    wheel_tick,  \* the tick the wheel stands in
    timed_count, \* timers on the wheel
    stage,       \* where the loop's thread is in proven_loop_poll
    visit,       \* the tick whose slot loop_timers_advance is at
    until,       \* the deadline it sleeps to
    early,       \* history: a timer fired before the delay it was set with
    asked        \* history: [timer -> the time it was asked to fire at]

wheelVars == <<wheel, due, state, tick, wheel_tick, timed_count>>
timerVars == <<now, wheelVars, stage, visit, until, early, asked>>

SlotIds == 0 .. Slots - 1
Forever == -1        \* PROVEN_NET_NO_DEADLINE
Slot(time) == (time \div Tick) % Slots

TimersInit ==
    /\ now = 0
    /\ wheel = [s \in SlotIds |-> <<>>]
    /\ due = <<>>
    /\ state = [t \in Timers |-> "idle"]
    /\ tick = [t \in Timers |-> 0]
    /\ wheel_tick = 0 /\ timed_count = 0
    /\ stage = "app" /\ visit = 0 /\ until = Forever
    /\ early = FALSE
    /\ asked = [t \in Timers |-> 0]

(* Time passes at any moment.  What passes while the lists are moved is    *)
(* seen afterwards: loop_timers_advance reads the clock once.              *)
TimePasses ==
    /\ now < LastNow /\ stage # "move"
    /\ now' = now + 1
    /\ UNCHANGED <<wheelVars, stage, visit, until, early, asked>>

-----------------------------------------------------------------------------
(* The calls of a callback, and of the program between rounds.             *)

InCallback == stage \in {"app", "woken", "fire"}

(* timer_unlink: from the list its state names. *)
Without(list, t) == RemoveAt(list, CHOOSE i \in DOMAIN list : list[i] = t)
Unlinked(t) ==
    [ wheel |-> IF state[t] = "wheel"
                THEN [wheel EXCEPT ![Slot(tick[t])] = Without(@, t)] ELSE wheel,
      due   |-> IF state[t] = "due" THEN Without(due, t) ELSE due,
      count |-> IF state[t] = "wheel" THEN timed_count - 1 ELSE timed_count ]

TimerCancel(t) ==
    /\ InCallback /\ state[t] # "idle"
    /\ LET u == Unlinked(t) IN
       wheel' = u.wheel /\ due' = u.due /\ timed_count' = u.count
    /\ state' = [state EXCEPT ![t] = "idle"]
    /\ UNCHANGED <<now, tick, wheel_tick, stage, visit, until, early, asked>>

(* Never in a tick the wheel has already passed. *)
DueTime(delay) ==
    IF (now + delay) \div Tick < wheel_tick THEN wheel_tick * Tick ELSE now + delay

TimerSet(t, delay) ==
    /\ InCallback /\ now <= LastSet
    /\ LET u == Unlinked(t)
           d == DueTime(delay)
       IN /\ wheel' = [u.wheel EXCEPT ![Slot(d)] = <<t>> \o @]
          /\ due' = u.due
          /\ timed_count' = u.count + 1
          /\ tick' = [tick EXCEPT ![t] = d]
    /\ state' = [state EXCEPT ![t] = "wheel"]
    /\ asked' = [asked EXCEPT ![t] = now + delay]
    /\ UNCHANGED <<now, wheel_tick, stage, visit, until, early>>

-----------------------------------------------------------------------------
(* loop_next_timer: when to wake.  The scan covers one turn of the wheel   *)
(* and the current slot again at its end.                                  *)

Ring(s) == wheel[s % Slots]
OwnTurn(s) == {i \in DOMAIN Ring(s) : tick[Ring(s)[i]] \div Tick = s}

(* Timers of other turns passed over in slot s before one of its own turn. *)
PassedOver(s) == IF OwnTurn(s) = {} THEN Len(Ring(s)) ELSE Min(OwnTurn(s)) - 1

(* `looked`: how many were passed over up to slot s.                       *)
LookedAt(s) == UNION {{k} \X (1 .. PassedOver(k)) : k \in wheel_tick .. s}
LookedUpTo(s) == Cardinality(LookedAt(s))
Scanned == wheel_tick .. wheel_tick + Slots
Stops == {s \in Scanned : OwnTurn(s) # {} \/ LookedUpTo(s) >= Look}
SlotsAfter == {s \in Scanned : s > wheel_tick /\ Ring(s) # <<>>}

NextTimer ==
    IF timed_count = 0 THEN Forever
    ELSE IF Stops = {} THEN Min(SlotsAfter) * Tick
    ELSE LET s == Min(Stops) IN
         IF LookedUpTo(s) >= Look
         THEN (IF s > wheel_tick THEN s ELSE wheel_tick + 1) * Tick
         ELSE Min({tick[Ring(s)[i]] : i \in OwnTurn(s)})

(* Mistake: the boundary of the current slot, which is past.               *)
NextTimerThisSlot ==
    IF timed_count = 0 THEN Forever
    ELSE IF Stops # {} /\ LookedUpTo(Min(Stops)) >= Look THEN Min(Stops) * Tick
    ELSE NextTimer

Deadline == NextTimer

(* proven_loop_poll goes to sleep; NO_DEADLINE was the caller's own.       *)
Sleep ==
    /\ stage = "app"
    /\ until' = Deadline
    /\ stage' = "asleep"
    /\ UNCHANGED <<now, wheelVars, visit, early, asked>>

(* The selector answers: at the deadline, or for an event at any moment.   *)
WakeAtDeadline ==
    /\ stage = "asleep" /\ until # Forever /\ now >= until
    /\ stage' = "woken"
    /\ until' = Forever
    /\ UNCHANGED <<now, wheelVars, visit, early, asked>>

WakeForEvent ==
    /\ stage = "asleep"
    /\ stage' = "woken"
    /\ until' = Forever
    /\ UNCHANGED <<now, wheelVars, visit, early, asked>>

-----------------------------------------------------------------------------
(* loop_timers_advance.                                                    *)

Target == Max({now \div Tick, wheel_tick})

(* After a long sleep every slot is visited once. *)
VisitFrom ==
    IF Target - wheel_tick >= Slots THEN Target - Slots + 1 ELSE wheel_tick

(* Mistake: the slot the wheel stands in is taken to be done with.         *)
VisitFromNext ==
    IF Target - wheel_tick >= Slots THEN Target - Slots + 1 ELSE wheel_tick + 1

From == VisitFrom

(* Walked back from the tail: behind the last that is due no later.        *)
NoLater(list, t) == {i \in DOMAIN list : tick[list[i]] <= tick[t]}
InsertByTime(list, t) == InsertAt(list, Max({0} \cup NoLater(list, t)) + 1, t)

(* Mistake: appended in the order the slots are walked. *)
InsertAtTail(list, t) == Append(list, t)

InsertDue(list, t) == InsertByTime(list, t)

AdvanceBegins ==
    /\ stage = "woken"
    /\ stage' = "move" /\ visit' = From
    /\ UNCHANGED <<now, wheelVars, until, early, asked>>

(* The timers of the slot visited that are due, as the list has them.      *)
IsDue(t) == tick[t] <= now
FirstDue(i) == IsDue(Ring(visit)[i]) /\ \A j \in 1 .. i - 1 : ~IsDue(Ring(visit)[j])
Move ==
    /\ stage = "move" /\ visit <= Target
    /\ \E i \in DOMAIN Ring(visit) :
        /\ FirstDue(i)
        /\ wheel' = [wheel EXCEPT ![visit % Slots] = RemoveAt(@, i)]
        /\ due' = InsertDue(due, Ring(visit)[i])
        /\ state' = [state EXCEPT ![Ring(visit)[i]] = "due"]
    /\ timed_count' = timed_count - 1
    /\ UNCHANGED <<now, tick, wheel_tick, stage, visit, until, early, asked>>

NextSlot ==
    /\ stage = "move" /\ visit <= Target /\ timed_count > 0
    /\ \A i \in DOMAIN Ring(visit) : ~IsDue(Ring(visit)[i])
    /\ visit' = visit + 1
    /\ UNCHANGED <<now, wheelVars, stage, until, early, asked>>

AdvanceEnds ==
    /\ stage = "move" /\ (visit > Target \/ timed_count = 0)
    /\ wheel_tick' = Target
    /\ stage' = "fire" /\ visit' = 0
    /\ UNCHANGED <<now, wheel, due, state, tick, timed_count, until, early, asked>>

(* One timer is taken off the head of the due list, and then called.       *)
Fire ==
    /\ stage = "fire" /\ due # <<>>
    /\ LET t == Head(due) IN
       /\ state' = [state EXCEPT ![t] = "idle"]
       /\ early' = (early \/ now < asked[t])
    /\ due' = Tail(due)
    /\ UNCHANGED <<now, wheel, tick, wheel_tick, timed_count, stage, visit, until, asked>>

RoundEnds ==
    /\ stage = "fire" /\ due = <<>>
    /\ stage' = "app"
    /\ UNCHANGED <<now, wheelVars, visit, until, early, asked>>

-----------------------------------------------------------------------------
Advance == AdvanceBegins \/ Move \/ NextSlot \/ AdvanceEnds
TimersStep == Sleep \/ WakeAtDeadline \/ Advance \/ Fire \/ RoundEnds

TimersNext ==
    \/ TimersStep
    \/ WakeForEvent
    \/ TimePasses
    \/ \E t \in Timers : TimerCancel(t)
    \/ \E t \in Timers, d \in Delays : TimerSet(t, d)

(* The loop's thread runs, and time passes, though none while lists move.  *)
TimersFairness == WF_timerVars(TimersStep) /\ SF_timerVars(TimePasses)

TimersSpec == TimersInit /\ [][TimersNext]_timerVars /\ TimersFairness
-----------------------------------------------------------------------------
(* Properties.                                                             *)

TimersTypeOK ==
    /\ now \in Nat /\ wheel_tick \in Nat /\ timed_count \in Nat
    /\ wheel \in [SlotIds -> Seq(Timers)] /\ due \in Seq(Timers)
    /\ state \in [Timers -> {"idle", "wheel", "due"}]
    /\ tick \in [Timers -> Nat] /\ asked \in [Timers -> Nat]
    /\ stage \in {"app", "asleep", "woken", "move", "fire"} /\ visit \in Nat
    /\ until \in Nat \cup {Forever} /\ early \in BOOLEAN

(* A list that holds each of a set of timers, once.                        *)
Holds(list, set) ==
    Range(list) = set /\ \A i, j \in DOMAIN list : list[i] = list[j] => i = j

InState(l) == {t \in Timers : state[t] = l}
InSlot(s) == {t \in InState("wheel") : Slot(tick[t]) = s}

(* Every set timer is linked exactly once, in the list its state and time  *)
(* name, and timed_count counts those on the wheel: what timer_unlink      *)
(* relies on when it picks the list's head to repair.                      *)
ListsAgree ==
    /\ TimersTypeOK
    /\ timed_count = Cardinality(InState("wheel"))
    /\ \A s \in SlotIds : Holds(wheel[s], InSlot(s))
    /\ Holds(due, InState("due"))

(* loop.h: proven_loop_timer_set calls "never earlier" than asked, and     *)
(* timers that come due together fire earliest first, across slots, turns  *)
(* and cancellations made while they fire; all the while each of them is   *)
(* on the list its state and time name.                                    *)
FiresOnTime ==
    /\ ListsAgree
    /\ ~early
    /\ \A i, j \in DOMAIN due : i < j => tick[due[i]] <= tick[due[j]]

OnWheel == {tick[t] : t \in InState("wheel")}

(* LOOP_LOOK timers of other turns lie ahead of any of its own in the slot *)
(* the wheel stands in: the scan gives up there.                           *)
Crowded == PassedOver(wheel_tick) >= Look

(* What is left of loop.c:2046 ("an early look, never a time already past  *)
(* (which would spin), never late").  Late is only a sleep over a Crowded  *)
(* slot, and no later than the end of the current tick; that this is late  *)
(* at all contradicts the comment, and NeverLate, which states it, is      *)
(* violated.  The end of a sleep is never a time that would spin: waking   *)
(* at it fires a timer or moves the wheel.                                 *)
SleepIsRight ==
    stage = "asleep" =>
        /\ OnWheel # {} =>
              /\ until # Forever
              /\ until <= Min(OnWheel) \/ (Crowded /\ until = (wheel_tick + 1) * Tick)
        /\ until # Forever /\ now >= until =>
              (\E t \in Timers : state[t] = "wheel" /\ tick[t] <= now)
                  \/ now \div Tick > wheel_tick

(* loop.c:2043-2046 says that where the scan gives up in a crowded slot    *)
(* the loop wakes at "the boundary of a slot after the current one: an     *)
(* early look, ... never late", and loop.h:349-350 that a timer fires "on  *)
(* POSIX within about a millisecond" of its time.                          *)
NeverLate ==
    stage = "asleep" /\ OnWheel # {} => until # Forever /\ until <= Min(OnWheel)

(* No timer is on the wheel behind the tick it stands in, none is due      *)
(* before it was asked for, and what is on the due list is due, in order.  *)
TimesInv ==
    /\ ~early
    /\ \A t \in Timers :
        /\ state[t] # "idle" => tick[t] >= asked[t]
        /\ state[t] = "due" => tick[t] <= now
        /\ state[t] = "wheel" => tick[t] \div Tick >= wheel_tick
    /\ \A i, j \in DOMAIN due : i < j => tick[due[i]] <= tick[due[j]]

(* While the lists are moved: nothing is left due in the slots visited.    *)
MoveInv ==
    stage = "move" =>
        /\ visit >= From
        /\ \A t \in InState("wheel") : IsDue(t) =>
              \A s \in From .. visit - 1 : s % Slots # Slot(tick[t])

(* A sleep ends as SleepIsRight says, whatever time it is.                 *)
SleepInv ==
    stage = "asleep" =>
        /\ OnWheel # {} =>
              /\ until # Forever
              /\ until <= Min(OnWheel) \/ (Crowded /\ until = (wheel_tick + 1) * Tick)
        /\ until # Forever =>
              until >= (wheel_tick + 1) * Tick \/ \E t \in InState("wheel") : tick[t] <= until

TimerInv == ListsAgree /\ TimesInv /\ MoveInv /\ SleepInv

(* Every timer that is due is fired, unless a callback cancels it or sets  *)
(* it again.                                                               *)
DueFires ==
    \A t \in Timers :
        state[t] = "wheel" /\ tick[t] <= now
            ~> state[t] = "idle" \/ tick[t] > now
=============================================================================
