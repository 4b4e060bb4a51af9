------------------------------- MODULE Ticker -------------------------------
(***************************************************************************)
(* quarryng/net/ticker.py: a Ticker, its loop and delay tasks, and the     *)
(* LoopingCall that drives it.                                             *)
(*                                                                         *)
(* One call of _update runs a batch of ticks; each tick updates the tasks  *)
(* of a snapshot of _tasks.  User code runs in callbacks and between       *)
(* batches, and may then use the whole interface.  An exception that       *)
(* leaves _update ends the LoopingCall: one raised by a callback, since    *)
(* the twisted Logger that _wrap reports it to has no method `exception',  *)
(* and the ValueError of a DelayTask that stops itself after its callback  *)
(* when it is no longer in _tasks.                                         *)
(***************************************************************************)
EXTENDS Integers, Sequences, SequencesExt

CONSTANTS
  LoopTask,     \* the loop tasks that may be added
  DelayTask,    \* the delay tasks that may be added
  None,
  Spans,        \* the intervals and delays they may be added with
  MaxLag,       \* max_lag
  MaxTick       \* bound: the value at which the model's clock stops

ASSUME TasksDiffer == LoopTask \cap DelayTask = {} /\ None \notin LoopTask \cup DelayTask
ASSUME SpansNat == Spans \subseteq Nat /\ None \notin Spans
ASSUME MaxLagPositive == MaxLag \in Nat \ {0}
ASSUME MaxTickNat == MaxTick \in Nat

Task == LoopTask \cup DelayTask

VARIABLES
  tick,
  tasks,        \* _tasks
  span,         \* interval or delay of a task, None before it is added
  target,       \* of a DelayTask
  running,
  impl_running, \* the LoopingCall's own flag
  left,         \* ticks of the batch still to end; 0 outside _update
  snapshot,     \* tasks of this tick still to update
  calling,      \* the task whose callback runs, or None
  first,        \* history: the first tick whose snapshot can hold the task
  last,         \* history: the tick of the task's last callback, or -1
  fired,        \* history: whether the callback of a DelayTask was called
  twice,        \* history: the DelayTasks whose callback was called again
  removed,      \* history: the tasks removed since the last snapshot was taken
  escaped       \* history: whether an exception ever left _update

clock == <<tick, left, snapshot>>
lists == <<tasks, span, target, first, removed>>
calls == <<calling, last, fired, twice>>
loop == <<running, impl_running, escaped>>
vars == <<clock, lists, calls, loop>>

TypeOK ==
  /\ tick \in 0..MaxTick
  /\ tasks \in Seq(Task) /\ IsInjective(tasks)
  /\ span \in [Task -> Spans \cup {None}]
  /\ target \in [DelayTask -> Nat]
  /\ running \in BOOLEAN /\ impl_running \in BOOLEAN /\ escaped \in BOOLEAN
  /\ left \in Nat /\ (left < MaxLag \/ left = 1)
  /\ snapshot \in Seq(Task)
  /\ calling \in Task \cup {None}
  /\ first \in [Task -> Nat]
  /\ last \in [Task -> Int]
  /\ removed \in SUBSET Task
  /\ fired \in SUBSET DelayTask /\ twice \in SUBSET fired

-----------------------------------------------------------------------------
(* The interface                                                           *)

UserCode == left = 0 \/ calling # None

(* add_loop and add_delay, with the task's __init__.                       *)
add(t, n) ==
  /\ UserCode
  /\ span[t] = None
  /\ span' = [span EXCEPT ![t] = n]
  /\ tasks' = Append(tasks, t)
  /\ target' = IF t \in DelayTask THEN [target EXCEPT ![t] = tick + n] ELSE target
  /\ first' = [first EXCEPT ![t] = IF calling = None THEN tick ELSE tick + 1]
  /\ UNCHANGED <<clock, calls, loop, removed>>

restart(t) ==
  /\ UserCode
  /\ span[t] # None
  /\ target' = [target EXCEPT ![t] = tick + span[t]]
  /\ UNCHANGED <<clock, calls, loop, tasks, span, first, removed>>

(* list.remove of a task that is there.                                    *)
Forget(t) ==
  /\ \E i \in DOMAIN tasks : tasks[i] = t /\ tasks' = RemoveAt(tasks, i)
  /\ removed' = removed \cup {t}

(* remove: Task.stop.  For a task that is not there the list raises        *)
(* ValueError; in a callback that is callback_raises.                      *)
remove_shifting(t) ==
  /\ UserCode
  /\ Forget(t)
  /\ snapshot' = IF snapshot = <<>> THEN <<>> ELSE Tail(snapshot)
  /\ UNCHANGED <<tick, left, calls, loop, span, target, first>>
remove(t) ==
  /\ UserCode
  /\ Forget(t)
  /\ UNCHANGED <<clock, calls, loop, span, target, first>>

remove_all ==
  /\ UserCode
  /\ tasks' = <<>>
  /\ removed' = removed \cup ToSet(tasks)
  /\ UNCHANGED <<clock, calls, loop, span, target, first>>

(* Nothing calls start() from a callback.                                  *)
start ==
  /\ left = 0
  /\ ~running
  /\ running' = TRUE
  /\ impl_running' = TRUE
  /\ UNCHANGED <<clock, lists, calls, escaped>>

(* Where the LoopingCall has ended, its stop() fails an assertion and      *)
(* running stays.                                                          *)
stop ==
  /\ UserCode
  /\ running /\ impl_running
  /\ running' = FALSE
  /\ impl_running' = FALSE
  /\ UNCHANGED <<clock, lists, calls, escaped>>

-----------------------------------------------------------------------------
(* _update                                                                 *)

(* `count' intervals have passed since the last call.                      *)
ticks_of_all(count) == count
ticks_of(count) == IF count >= MaxLag THEN 1 ELSE count

(* list(self._tasks)                                                       *)
Snapshot_with_removed == SetToSeq({t \in Task : span[t] # None})
Snapshot == tasks

update(count) ==
  /\ impl_running
  /\ left = 0
  /\ tick + ticks_of(count) <= MaxTick
  /\ left' = ticks_of(count)
  /\ snapshot' = Snapshot
  /\ removed' = {}
  /\ UNCHANGED <<tick, tasks, span, target, first, calls, loop>>

due_late(t) == IF t \in LoopTask THEN tick % span[t] = 0 ELSE tick > target[t]
due_from_now(t) == IF t \in LoopTask THEN (tick - first[t]) % span[t] = 0 ELSE tick >= target[t]
due(t) == IF t \in LoopTask THEN tick % span[t] = 0 ELSE tick >= target[t]

Updating == left > 0 /\ calling = None

(* task.update() of the next task, up to the call of its callback.         *)
task_update ==
  /\ Updating
  /\ snapshot # <<>>
  /\ snapshot' = Tail(snapshot)
  /\ LET t == Head(snapshot) IN
       IF due(t)
       THEN /\ calling' = t
            /\ last' = [last EXCEPT ![t] = tick]
            /\ fired' = IF t \in DelayTask THEN fired \cup {t} ELSE fired
            /\ twice' = IF t \in fired THEN twice \cup {t} ELSE twice
       ELSE UNCHANGED calls
  /\ UNCHANGED <<tick, left, lists, loop>>

end_tick ==
  /\ Updating
  /\ snapshot = <<>>
  /\ tick' = tick + 1
  /\ left' = left - 1
  /\ snapshot' = IF left > 1 THEN Snapshot ELSE <<>>
  /\ removed' = {}
  /\ UNCHANGED <<tasks, span, target, first, calls, loop>>

(* An exception leaves _update: the LoopingCall ends, running stays.       *)
escape ==
  /\ impl_running' = FALSE
  /\ left' = 0
  /\ snapshot' = <<>>
  /\ calling' = None
  /\ escaped' = TRUE
  /\ UNCHANGED <<tick, running, last, fired, twice>>

(* A DelayTask then calls self.stop().                                     *)
callback_returns_only(t) == calling = t /\ calling' = None /\ UNCHANGED <<clock, loop, lists, last, fired, twice>>
callback_returns(t) ==
  /\ calling = t
  /\ \/ /\ t \in LoopTask
        /\ calling' = None
        /\ UNCHANGED <<clock, loop, lists, last, fired, twice>>
     \/ /\ t \in DelayTask
        /\ Forget(t)
        /\ calling' = None
        /\ UNCHANGED <<clock, loop, span, target, first, last, fired, twice>>
     \/ /\ t \in DelayTask /\ t \notin ToSet(tasks)
        /\ escape
        /\ UNCHANGED lists

callback_raises(t) ==
  /\ calling = t
  /\ escape
  /\ UNCHANGED lists

-----------------------------------------------------------------------------
Init ==
  /\ tick = 0
  /\ tasks = <<>>
  /\ span = [t \in Task |-> None]
  /\ target = [t \in DelayTask |-> 0]
  /\ running = FALSE /\ impl_running = FALSE /\ escaped = FALSE
  /\ left = 0
  /\ snapshot = <<>>
  /\ calling = None
  /\ first = [t \in Task |-> 0]
  /\ last = [t \in Task |-> -1]
  /\ fired = {} /\ twice = {}
  /\ removed = {}

(* An interval of 0 would raise ZeroDivisionError at its first update; no  *)
(* code asks for one.                                                      *)
Next ==
  \/ \E t \in LoopTask, n \in Spans \ {0} : add(t, n)
  \/ \E t \in DelayTask, n \in Spans : add(t, n)
  \/ \E t \in DelayTask : restart(t)
  \/ \E t \in Task : remove(t)
  \/ remove_all
  \/ start
  \/ stop
  \/ \E count \in 1..MaxLag : update(count)
  \/ task_update
  \/ end_tick
  \/ \E t \in Task : callback_returns(t) \/ callback_raises(t)

Spec == Init /\ [][Next]_vars

-----------------------------------------------------------------------------
(* Properties                                                              *)

BetweenTicks == calling = None /\ (left = 0 \/ snapshot = tasks)

(* While no exception has left _update, the callback of a DelayTask is     *)
(* called at most once, though it may be restarted, stopped and updated    *)
(* from a snapshot that still holds it.                                    *)
FiresOnce == escaped \/ twice = {}

(* A DelayTask is never overdue: once the tick of its target has passed it *)
(* has fired and gone.  One added or restarted with delay 0 by a callback  *)
(* waits for the next tick.                                                *)
NotOverdue ==
  BetweenTicks /\ ~escaped =>
    \A t \in DelayTask \cap ToSet(tasks) :
      target[t] + (IF span[t] = 0 THEN 1 ELSE 0) >= tick

(* A LoopTask misses no beat, whatever callbacks add, remove or restart    *)
(* while the tasks are being updated: its last callback was at the latest  *)
(* multiple of its interval that has passed since it was added.            *)
NoMissedBeat ==
  BetweenTicks /\ ~escaped =>
    \A t \in LoopTask \cap ToSet(tasks) :
      LET beat == ((tick - 1) \div span[t]) * span[t] IN
        tick > 0 /\ beat >= first[t] => last[t] = beat

(* A removed task may still be called in the tick in which it was removed, *)
(* but not later; one removed between two calls of _update is not called.  *)
CancelledByNextTick ==
  \A t \in Task :
    calling = t => t \in ToSet(tasks) \/ t \in removed

(* Claimed by the docstring of remove ("Removes a task, effectively        *)
(* cancelling it."): the callback of a task that was removed is not        *)
(* called.  A snapshot taken before the removal breaks it.                 *)
CancelIsFinal ==
  [][\A t \in Task : (calling # t /\ calling' = t) => t \in ToSet(tasks)]_vars
=============================================================================
