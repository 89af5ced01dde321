---------------------------- MODULE SignalFuture ----------------------------
(***************************************************************************)
(* SignalFuture (common/src/signal_future.rs): a future that is finished   *)
(* from outside, by resolve, reject or the task of set_timeout, and        *)
(* awaited through any of its clones.                                      *)
(*                                                                         *)
(* Each of set_result, take_result and set_task is one critical section    *)
(* (RefCell on wasm, a spin on try_borrow_mut elsewhere).  poll is two of  *)
(* them, finish is one and a wake.                                         *)
(***************************************************************************)
EXTENDS Naturals, FiniteSets

CONSTANTS
    Finishers,  \* the calls of finish; each stands for its outcome too
    Awaiters,   \* the tasks that await a clone
    Nobody      \* Option::None

ASSUME SignalAssumption == Nobody \notin Finishers \cup Awaiters

VARIABLES
    result,    \* Inner.result: whose outcome it holds
    task,      \* Inner.task: whose waker it holds
    finishPc,  \* "idle", "wake" or "done" for each finisher
    waker,     \* the waker a finisher took out and is about to wake
    pollPc,    \* where each awaiting task is
    notified,  \* tasks woken while they were being polled
    got,       \* what each await returned
    unheard    \* history: tasks whose waker nobody holds any more

signalVars == <<result, task, finishPc, waker, pollPc, notified, got, unheard>>

SignalInit ==
    /\ result = Nobody
    /\ task = Nobody
    /\ finishPc = [f \in Finishers |-> "idle"]
    /\ waker = [f \in Finishers |-> Nobody]
    /\ pollPc = [a \in Awaiters |-> "scheduled"]
    /\ notified = {}
    /\ got = [a \in Awaiters |-> Nobody]
    /\ unheard = {}

Polling == {a \in Awaiters : pollPc[a] = "setTask"}

TakenWakerForgotten == Nobody  \* mutant: no task is woken
TakenWaker == task

\* set_result: a later outcome replaces one that has not been taken yet.
SetResult(f) ==
    /\ finishPc[f] = "idle"
    /\ result' = f
    /\ task' = Nobody
    /\ waker' = [waker EXCEPT ![f] = TakenWaker]
    /\ finishPc' = [finishPc EXCEPT ![f] = IF TakenWaker = Nobody THEN "done" ELSE "wake"]
    /\ unheard' = unheard \cup (Polling \ {task})
    /\ UNCHANGED <<pollPc, notified, got>>

\* task.wake(): a parked task is scheduled, one inside poll is polled again.
Wake(f) ==
    /\ finishPc[f] = "wake"
    /\ finishPc' = [finishPc EXCEPT ![f] = "done"]
    /\ waker' = [waker EXCEPT ![f] = Nobody]
    /\ LET a == waker[f] IN
       /\ pollPc' = [pollPc EXCEPT ![a] = IF @ = "parked" THEN "scheduled" ELSE @]
       /\ notified' = IF pollPc[a] = "setTask" THEN notified \cup {a} ELSE notified
    /\ UNCHANGED <<result, task, got, unheard>>

LeftAfterTakeKept == result  \* mutant: the result is copied, not taken
LeftAfterTake == Nobody

\* poll: take_result
TakeResult(a) ==
    /\ pollPc[a] = "scheduled"
    /\ \/ /\ result = Nobody
          /\ pollPc' = [pollPc EXCEPT ![a] = "setTask"]
          /\ UNCHANGED <<result, got>>
       \/ /\ result # Nobody
          /\ pollPc' = [pollPc EXCEPT ![a] = "ready"]
          /\ got' = [got EXCEPT ![a] = result]
          /\ result' = LeftAfterTake
    /\ unheard' = unheard \ {a}
    /\ UNCHANGED <<task, finishPc, waker, notified>>

\* poll: set_task, which replaces the waker of any other task; Pending
SetTask(a) ==
    /\ pollPc[a] = "setTask"
    /\ task' = a
    /\ unheard' = unheard \cup {b \in Awaiters \ {a} : task = b /\ pollPc[b] = "parked"}
    /\ pollPc' = [pollPc EXCEPT ![a] = IF a \in notified THEN "scheduled" ELSE "parked"]
    /\ notified' = notified \ {a}
    /\ UNCHANGED <<result, finishPc, waker, got>>

\* The task is polled for a reason of its own, as in a select or a join.
PollAgain(a) ==
    /\ pollPc[a] = "parked"
    /\ pollPc' = [pollPc EXCEPT ![a] = "scheduled"]
    /\ UNCHANGED <<result, task, finishPc, waker, notified, got, unheard>>

SignalNext ==
    \/ \E f \in Finishers : SetResult(f) \/ Wake(f)
    \/ \E a \in Awaiters : TakeResult(a) \/ SetTask(a) \/ PollAgain(a)

\* A call of finish that has begun ends, and the runtime polls what is
\* scheduled.  No one has to call finish, or to poll without a wake.
SignalFairness ==
    /\ \A f \in Finishers : WF_signalVars(Wake(f))
    /\ \A a \in Awaiters : WF_signalVars(TakeResult(a) \/ SetTask(a))

SignalSpec == SignalInit /\ [][SignalNext]_signalVars /\ SignalFairness

-----------------------------------------------------------------------------
(* Properties                                                              *)

\* A task that is parked while an outcome lies ready is about to be woken,
\* unless finish ran inside its last poll, before the waker was stored, or
\* another clone's poll has replaced its waker.  There is no third way to
\* miss an outcome; on one thread, with one task, there is none.
ReadyIsWoken ==
    \A a \in Awaiters \ unheard :
        pollPc[a] = "parked" /\ result # Nobody =>
            \E f \in Finishers : finishPc[f] = "wake" /\ waker[f] = a

\* An outcome goes to one await only, however many clones are awaited.
TakenOnce ==
    /\ \A a, b \in Awaiters : got[a] = got[b] => a = b \/ got[a] = Nobody
    /\ \A a \in Awaiters : got[a] # Nobody => got[a] # result

\* No outcome lies ready for ever: a task that awaits it takes it in the end,
\* unless a task has missed it in one of those two ways.
OutcomeIsTaken ==
    []<>(\/ result = Nobody \/ unheard # {}
         \/ \A a \in Awaiters : pollPc[a] = "ready")
=============================================================================
