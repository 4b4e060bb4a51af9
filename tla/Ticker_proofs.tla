--------------------------- MODULE Ticker_proofs ---------------------------
(***************************************************************************)
(* Proofs about Ticker, for any tasks, spans, max_lag and number of ticks. *)
(* Its properties speak of the time between two ticks; what holds during a *)
(* tick depends on whether a task of _tasks is still in the snapshot: then *)
(* it is as it was when the tick began, and otherwise it is already as it  *)
(* has to be when the tick ends.                                           *)
(***************************************************************************)
EXTENDS Ticker, SequenceTheorems, TLAPS

(* The tick whose update task t of _tasks has had, if it needs one.        *)
Updated(t) == IF left > 0 /\ t \notin ToSet(snapshot) THEN tick ELSE tick - 1

(* Outside _update nothing is being updated, and a batch fits the clock.   *)
Batch ==
  /\ left = 0 => snapshot = <<>> /\ calling = None
  /\ tick + left <= MaxTick

(* A task is in _tasks once, is known by its span, and never comes back.   *)
Lists ==
  /\ IsInjective(snapshot)
  /\ \A t \in ToSet(tasks) \cup ToSet(snapshot) \cup fired : span[t] # None
  /\ \A t \in LoopTask : span[t] # None => span[t] # 0

Cancelled ==
  \A t \in ToSet(snapshot) \cup ({calling} \ {None}) : t \in ToSet(tasks) \cup removed

(* A DelayTask that was called is not called again, and leaves _tasks when *)
(* its callback ends.                                                      *)
Once ==
  escaped \/ /\ twice = {}
             /\ fired \cap ToSet(snapshot) = {}
             /\ fired \cap ToSet(tasks) \subseteq {calling}

Due(t) == target[t] + (IF span[t] = 0 THEN 1 ELSE 0)
OnTime ==
  escaped \/ \A t \in DelayTask \cap ToSet(tasks) : t = calling \/ Due(t) > Updated(t)

(* The latest beat of t up to tick n, if t was there, was its last call.   *)
Beat(t, n) == (n \div span[t]) * span[t]
Kept(t, n) == n >= 0 /\ Beat(t, n) >= first[t] => last[t] = Beat(t, n)
OnBeat ==
  escaped \/ \A t \in LoopTask \cap ToSet(tasks) : Kept(t, Updated(t))

IInv ==
  /\ TypeOK
  /\ Batch
  /\ Lists
  /\ Cancelled
  /\ Once
  /\ OnTime
  /\ OnBeat

-----------------------------------------------------------------------------
(* Sequences without repetition                                            *)

LEMMA EmptyList == ToSet(<<>>) = {} /\ IsInjective(<<>>)
  BY DEF ToSet, IsInjective

LEMMA AppendNew ==
  ASSUME NEW X, NEW s \in Seq(X), IsInjective(s), NEW e \in X, e \notin ToSet(s)
  PROVE  /\ Append(s, e) \in Seq(X) /\ IsInjective(Append(s, e))
         /\ ToSet(Append(s, e)) = ToSet(s) \cup {e}
<1> DEFINE a == Append(s, e)
<1>1. /\ a \in Seq(X) /\ DOMAIN a = 1..Len(s) + 1 /\ DOMAIN s = 1..Len(s) /\ Len(s) \in Nat
      /\ \A i \in 1..Len(s) : a[i] = s[i]
      /\ a[Len(s) + 1] = e
  OBVIOUS
<1> HIDE DEF a
<1>2. \A i \in 1..Len(s) : s[i] # e
  BY <1>1 DEF ToSet
<1>3. IsInjective(a)
  <2> SUFFICES ASSUME NEW i \in DOMAIN a, NEW k \in DOMAIN a, a[i] = a[k] PROVE i = k
    BY DEF IsInjective
  <2>1. CASE i \in 1..Len(s) /\ k \in 1..Len(s)
    BY <1>1, <2>1 DEF IsInjective
  <2> QED
    BY <1>1, <1>2, <2>1
<1>4. ToSet(a) = ToSet(s) \cup {e}
  BY <1>1 DEF ToSet
<1> QED
  BY <1>1, <1>3, <1>4 DEF a

LEMMA TailRest ==
  ASSUME NEW X, NEW s \in Seq(X), IsInjective(s), s # <<>>
  PROVE  /\ Tail(s) \in Seq(X) /\ IsInjective(Tail(s)) /\ Head(s) \in ToSet(s) /\ Head(s) \in X
         /\ ToSet(Tail(s)) = ToSet(s) \ {Head(s)}
<1> DEFINE r == Tail(s)
<1>1. /\ r \in Seq(X) /\ DOMAIN r = 1..Len(s) - 1 /\ DOMAIN s = 1..Len(s) /\ Len(s) \in Nat \ {0}
      /\ \A i \in 1..Len(s) - 1 : r[i] = s[i + 1]
      /\ Head(s) = s[1] /\ s[1] \in X
  OBVIOUS
<1> HIDE DEF r
<1>2. IsInjective(r)
  <2> SUFFICES ASSUME NEW i \in DOMAIN r, NEW k \in DOMAIN r, r[i] = r[k] PROVE i = k
    BY DEF IsInjective
  <2>1. i + 1 \in DOMAIN s /\ k + 1 \in DOMAIN s /\ s[i + 1] = s[k + 1]
    BY <1>1
  <2> QED
    BY <1>1, <2>1 DEF IsInjective
<1>3. ToSet(r) = ToSet(s) \ {Head(s)}
  <2>1. ASSUME NEW i \in DOMAIN r PROVE r[i] \in ToSet(s) /\ r[i] # Head(s)
    <3>1. i + 1 \in DOMAIN s /\ i + 1 # 1 /\ r[i] = s[i + 1]
      BY <1>1
    <3> QED
      BY <1>1, <3>1 DEF ToSet, IsInjective
  <2>2. ASSUME NEW k \in DOMAIN s, s[k] # Head(s) PROVE s[k] \in ToSet(r)
    <3>1. k - 1 \in DOMAIN r /\ r[k - 1] = s[k]
      BY <1>1, <2>2
    <3> QED
      BY <3>1 DEF ToSet
  <2> QED
    BY <2>1, <2>2 DEF ToSet
<1>4. Head(s) \in ToSet(s)
  BY <1>1 DEF ToSet
<1> QED
  BY <1>1, <1>2, <1>3, <1>4 DEF r

LEMMA RemoveRest ==
  ASSUME NEW X, NEW s \in Seq(X), IsInjective(s), NEW j \in DOMAIN s
  PROVE  /\ RemoveAt(s, j) \in Seq(X) /\ IsInjective(RemoveAt(s, j))
         /\ ToSet(RemoveAt(s, j)) = ToSet(s) \ {s[j]}
<1> DEFINE r == RemoveAt(s, j)
<1>1. j \in 1..Len(s) /\ DOMAIN s = 1..Len(s) /\ Len(s) \in Nat
  OBVIOUS
<1> DEFINE a == SubSeq(s, 1, j - 1)
           b == SubSeq(s, j + 1, Len(s))
<1>2. /\ a \in Seq(X) /\ b \in Seq(X) /\ r = a \o b
      /\ Len(a) = j - 1 /\ Len(b) = Len(s) - j
      /\ \A i \in 1..j - 1 : a[i] = s[i]
      /\ \A i \in 1..Len(s) - j : b[i] = s[j + i]
  BY <1>1, SubSeqProperties DEF RemoveAt
<1> HIDE DEF a, b, r
<1>3. /\ r \in Seq(X) /\ DOMAIN r = 1..Len(s) - 1
      /\ \A i \in 1..Len(s) - 1 : r[i] = s[IF i < j THEN i ELSE i + 1]
  <2>1. /\ r \in Seq(X) /\ Len(r) = Len(a) + Len(b)
        /\ \A i \in 1..Len(a) + Len(b) : r[i] = IF i <= Len(a) THEN a[i] ELSE b[i - Len(a)]
    BY <1>2, ConcatProperties
  <2>2. Len(a) + Len(b) = Len(s) - 1
    BY <1>1, <1>2
  <2>3. ASSUME NEW i \in 1..Len(s) - 1 PROVE r[i] = s[IF i < j THEN i ELSE i + 1]
    <3>1. r[i] = IF i <= j - 1 THEN a[i] ELSE b[i - (j - 1)]
      BY <1>2, <2>1, <2>2
    <3>2. CASE i < j
      <4>1. i \in 1..j - 1
        BY <1>1, <3>2
      <4> QED
        BY <1>2, <3>1, <3>2, <4>1
    <3>3. CASE ~(i < j)
      <4>1. i - (j - 1) \in 1..Len(s) - j /\ j + (i - (j - 1)) = i + 1 /\ ~(i <= j - 1)
        BY <1>1, <3>3
      <4> QED
        BY <1>2, <3>1, <3>3, <4>1
    <3> QED
      BY <3>2, <3>3
  <2> QED
    BY <2>1, <2>2, <2>3
<1>4. IsInjective(r)
  <2> SUFFICES ASSUME NEW i \in DOMAIN r, NEW k \in DOMAIN r, r[i] = r[k] PROVE i = k
    BY DEF IsInjective
  <2> DEFINE at(n) == IF n < j THEN n ELSE n + 1
  <2>1. at(i) \in DOMAIN s /\ at(k) \in DOMAIN s /\ s[at(i)] = s[at(k)]
    BY <1>1, <1>3
  <2>2. at(i) = at(k)
    BY <2>1 DEF IsInjective
  <2> QED
    BY <1>1, <1>3, <2>2
<1>5. ToSet(r) = ToSet(s) \ {s[j]}
  <2>1. ASSUME NEW i \in DOMAIN r PROVE r[i] \in ToSet(s) /\ r[i] # s[j]
    <3> DEFINE k == IF i < j THEN i ELSE i + 1
    <3>1. k \in DOMAIN s /\ k # j /\ r[i] = s[k]
      BY <1>1, <1>3
    <3> QED
      BY <3>1 DEF ToSet, IsInjective
  <2>2. ASSUME NEW k \in DOMAIN s, s[k] # s[j] PROVE s[k] \in ToSet(r)
    <3> DEFINE i == IF k < j THEN k ELSE k - 1
    <3>1. i \in DOMAIN r /\ r[i] = s[k]
      BY <1>1, <1>3, <2>2
    <3> QED
      BY <3>1 DEF ToSet
  <2> QED
    BY <2>1, <2>2 DEF ToSet
<1> QED
  BY <1>3, <1>4, <1>5 DEF r

-----------------------------------------------------------------------------
(* Beats                                                                   *)

LEMMA BeatNow ==
  ASSUME NEW n \in Nat, NEW d \in Nat \ {0}
  PROVE  /\ (n \div d) * d <= n
         /\ n % d = 0 => (n \div d) * d = n
         /\ n % d # 0 => n > 0 /\ (n \div d) = ((n - 1) \div d)
<1> DEFINE q == n \div d
           m == n % d
<1>1. q \in Int /\ m \in 0..d - 1 /\ n = q * d + m
  OBVIOUS
<1>2. m # 0 => n > 0
  BY <1>1
<1>3. ASSUME m # 0 PROVE ((n - 1) \div d) = q
  <2> DEFINE p == (n - 1) \div d
             k == (n - 1) % d
  <2>1. p \in Int /\ k \in 0..d - 1 /\ n - 1 = p * d + k
    BY <1>2, <1>3
  <2>2. (p - q) * d = m - 1 - k
    BY <1>1, <2>1
  <2> HIDE DEF p, k, q, m
  <2>3. m - 1 - k < d /\ m - 1 - k > 0 - d
    BY <1>1, <1>3, <2>1
  <2>4. p - q = 0
    BY <1>1, <2>1, <2>2, <2>3
  <2> QED
    BY <1>1, <2>1, <2>4 DEF p
<1> QED
  BY <1>1, <1>2, <1>3

-----------------------------------------------------------------------------
LEMMA IInvInit == Init => IInv
<1> SUFFICES ASSUME Init PROVE IInv
  OBVIOUS
<1> USE DEF Init
<1>1. TypeOK
  <2>1. tasks \in Seq(Task) /\ IsInjective(tasks) /\ snapshot \in Seq(Task)
    BY EmptyList
  <2>2. tick \in 0..MaxTick /\ left \in Nat /\ left < MaxLag
    BY MaxLagPositive, MaxTickNat
  <2>3. span \in [Task -> Spans \cup {None}]
    OBVIOUS
  <2>4. target \in [DelayTask -> Nat] /\ first \in [Task -> Nat]
    OBVIOUS
  <2>5. last \in [Task -> Int]
    OBVIOUS
  <2>6. fired \in SUBSET DelayTask /\ twice \in SUBSET fired /\ removed \in SUBSET Task
    OBVIOUS
  <2>7. running \in BOOLEAN /\ impl_running \in BOOLEAN /\ escaped \in BOOLEAN
    OBVIOUS
  <2> QED
    BY <2>1, <2>2, <2>3, <2>4, <2>5, <2>6, <2>7 DEF TypeOK
<1>2. ToSet(tasks) = {} /\ ToSet(snapshot) = {} /\ IsInjective(snapshot)
  BY EmptyList
<1>3. Batch /\ Cancelled /\ Once /\ OnTime /\ OnBeat
  BY <1>2, MaxTickNat DEF Batch, Cancelled, Once, OnTime, OnBeat
<1>4. Lists
  BY <1>2 DEF Lists, Task
<1> QED
  BY <1>1, <1>3, <1>4 DEF IInv

-----------------------------------------------------------------------------
(* User code                                                               *)

LEMMA ForgetRest ==
  ASSUME TypeOK, NEW t \in Task, Forget(t)
  PROVE  /\ tasks' \in Seq(Task) /\ IsInjective(tasks')
         /\ ToSet(tasks') = ToSet(tasks) \ {t} /\ removed' = removed \cup {t}
<1>1. PICK i \in DOMAIN tasks : tasks[i] = t /\ tasks' = RemoveAt(tasks, i)
  BY DEF Forget
<1> QED
  BY <1>1, RemoveRest DEF Forget, TypeOK

(* Tasks leave _tasks, or the callback of a task ends that may stay in it. *)
LEMMA FewerTasks ==
  ASSUME IInv, tasks' \in Seq(Task), IsInjective(tasks'), ToSet(tasks') \subseteq ToSet(tasks),
         removed' \in SUBSET Task, ToSet(tasks) \cup removed \subseteq ToSet(tasks') \cup removed',
         \/ calling' = calling
         \/ left > 0 /\ calling' = None /\ calling \notin DelayTask \cap ToSet(tasks'),
         UNCHANGED <<clock, loop, span, target, first, last, fired, twice>>
  PROVE  IInv'
<1> USE DEF IInv, clock, loop
<1>1. TypeOK'
  BY DEF TypeOK
<1>2. Batch' /\ Lists'
  BY DEF Batch, Lists
<1>3. Cancelled'
  BY DEF Cancelled
<1>4. Once'
  BY DEF Once, TypeOK
<1>5. OnTime' /\ OnBeat'
  BY DEF OnTime, OnBeat, Updated, Due, Kept, Beat
<1> QED
  BY <1>1, <1>2, <1>3, <1>4, <1>5

LEMMA RemoveStep == ASSUME IInv, NEW t \in Task, remove(t) PROVE IInv'
<1>1. removed \in SUBSET Task /\ TypeOK
  BY DEF IInv, TypeOK
<1> QED
  BY <1>1, ForgetRest, FewerTasks DEF remove, calls

LEMMA RemoveAllStep == ASSUME IInv, remove_all PROVE IInv'
<1>1. ToSet(tasks) \subseteq Task /\ removed \in SUBSET Task
  BY DEF IInv, TypeOK, ToSet
<1>2. /\ tasks' \in Seq(Task) /\ IsInjective(tasks') /\ ToSet(tasks') = {}
      /\ removed' = removed \cup ToSet(tasks)
  BY EmptyList DEF remove_all
<1> QED
  BY <1>1, <1>2, FewerTasks DEF remove_all, calls

LEMMA AddStep ==
  ASSUME IInv, NEW t \in Task, NEW n \in Spans, t \in LoopTask => n # 0, add(t, n)
  PROVE  IInv'
<1> USE DEF IInv
<1>1. /\ span[t] = None /\ t \notin ToSet(tasks) \cup ToSet(snapshot) \cup fired
      /\ n \in Nat /\ n # None
  BY SpansNat DEF add, Lists
<1>2. tasks' \in Seq(Task) /\ IsInjective(tasks') /\ ToSet(tasks') = ToSet(tasks) \cup {t}
  BY <1>1, AppendNew DEF add, TypeOK
<1>3. /\ span' = [span EXCEPT ![t] = n]
      /\ target' = IF t \in DelayTask THEN [target EXCEPT ![t] = tick + n] ELSE target
      /\ first' = [first EXCEPT ![t] = IF calling = None THEN tick ELSE tick + 1]
      /\ UNCHANGED <<clock, calls, loop, removed>> /\ (left = 0 \/ calling # None)
  BY DEF add, UserCode
<1>4. tick \in Nat /\ left \in Nat /\ fired \subseteq Task /\ ToSet(snapshot) \subseteq Task
  BY MaxTickNat DEF TypeOK, Task, ToSet
<1>5. TypeOK'
  BY <1>1, <1>2, <1>3, <1>4 DEF TypeOK, clock, calls, loop
<1>6. Batch' /\ Cancelled' /\ Once'
  BY <1>1, <1>2, <1>3 DEF Batch, Cancelled, Once, clock, calls, loop
<1>7. Lists'
  BY <1>1, <1>2, <1>3, <1>4 DEF Lists, clock, calls, Task, TypeOK
<1>8. left = 0 => calling = None
  BY DEF Batch
<1>9. /\ \A u \in Task : Updated(u)' = Updated(u)
      /\ Updated(t) = IF left > 0 THEN tick ELSE tick - 1
      /\ \A u \in ToSet(tasks) : u # t /\ span'[u] = span[u]
  BY <1>1, <1>3 DEF Updated, clock, TypeOK, ToSet
<1>10. OnTime'
  <2>1. ASSUME t \in DelayTask PROVE Due(t)' > Updated(t)
    <3>1. target'[t] = tick + n /\ span'[t] = n
      BY <1>3, <2>1 DEF TypeOK
    <3> QED
      BY <1>1, <1>4, <1>9, <3>1 DEF Due
  <2>2. ASSUME NEW u \in DelayTask \cap ToSet(tasks) PROVE Due(u)' = Due(u)
    BY <1>3, <1>9, <2>2 DEF Due, TypeOK
  <2>3. UNCHANGED <<escaped, calling>>
    BY <1>3 DEF calls, loop
  <2> QED
    BY <1>2, <1>9, <2>1, <2>2, <2>3 DEF OnTime, Task
<1>11. OnBeat'
  <2>1. ASSUME t \in LoopTask PROVE Kept(t, Updated(t))'
    <3>1. span'[t] = n /\ n \in Nat \ {0}
      BY <1>1, <1>3, <2>1 DEF TypeOK
    <3>2. first'[t] > Updated(t)
      BY <1>3, <1>4, <1>8, <1>9 DEF TypeOK
    <3>3. ASSUME NEW m \in Nat, m = Updated(t) PROVE ~(Beat(t, m)' >= first'[t])
      <4>1. (m \div n) * n \in Int /\ (m \div n) * n <= m
        BY <3>1, BeatNow
      <4>2. first'[t] \in Int
        BY <1>5 DEF TypeOK
      <4> QED
        BY <3>1, <3>2, <3>3, <4>1, <4>2 DEF Beat
    <3>4. Updated(t)' = Updated(t) /\ Updated(t) \in Int
      BY <1>4, <1>9
    <3>5. CASE Updated(t) >= 0
      <4>1. Updated(t) \in Nat
        BY <3>4, <3>5
      <4> QED
        BY <3>3, <3>4, <4>1 DEF Kept
    <3> QED
      BY <3>4, <3>5 DEF Kept
  <2>2. ASSUME NEW u \in LoopTask \cap ToSet(tasks) PROVE Kept(u, Updated(u))' <=> Kept(u, Updated(u))
    BY <1>3, <1>9, <2>2 DEF Kept, Beat, calls, TypeOK, Task
  <2>3. UNCHANGED escaped
    BY <1>3 DEF loop
  <2> QED
    BY <1>2, <2>1, <2>2, <2>3 DEF OnBeat
<1> QED
  BY <1>5, <1>6, <1>7, <1>10, <1>11

LEMMA RestartStep == ASSUME IInv, NEW t \in DelayTask, restart(t) PROVE IInv'
<1> USE DEF IInv
<1>1. /\ target' = [target EXCEPT ![t] = tick + span[t]] /\ span[t] # None
      /\ UNCHANGED <<clock, calls, loop, tasks, span, first, removed>>
  BY DEF restart
<1>2. tick \in Nat /\ span[t] \in Nat /\ target' \in [DelayTask -> Nat]
  <2>1. t \in Task /\ tick \in Nat
    BY MaxTickNat DEF Task, TypeOK
  <2>2. span[t] \in Nat
    BY <1>1, <2>1, SpansNat DEF TypeOK
  <2> QED
    BY <1>1, <2>1, <2>2 DEF TypeOK
<1>3. TypeOK'
  BY <1>1, <1>2 DEF TypeOK, clock, calls, loop
<1>4. Batch' /\ Lists' /\ Cancelled' /\ Once' /\ OnBeat'
  BY <1>1 DEF Batch, Lists, Cancelled, Once, OnBeat, Kept, Beat, Updated, clock, calls, loop
<1>5. \A u \in Task : Updated(u)' = Updated(u) /\ Updated(u) <= tick
  BY <1>1, <1>2 DEF Updated, clock
<1>6. Due(t)' > tick
  BY <1>1, <1>2 DEF Due, clock, TypeOK
<1>7. \A u \in DelayTask : u # t => Due(u)' = Due(u)
  BY <1>1, <1>2 DEF Due, TypeOK
<1>8. Due(t)' \in Int
  BY <1>1, <1>2 DEF Due, TypeOK
<1>9. Updated(t) \in Int
  BY <1>2 DEF Updated
<1>10. Due(t)' > Updated(t)'
  BY <1>2, <1>5, <1>6, <1>8, <1>9 DEF Task
<1>11. OnTime'
  BY <1>1, <1>5, <1>7, <1>10 DEF OnTime, calls, loop, Task
<1> QED
  BY <1>3, <1>4, <1>11

(* start and stop only set the flags.                                      *)
LEMMA FlagsStep ==
  ASSUME IInv, running' \in BOOLEAN, impl_running' \in BOOLEAN,
         UNCHANGED <<clock, lists, calls, escaped>>
  PROVE  IInv'
<1> USE DEF IInv, clock, lists, calls
<1>1. TypeOK'
  BY Zenon DEF TypeOK
<1>2. Batch' /\ Lists' /\ Cancelled' /\ Once' /\ OnTime' /\ OnBeat'
  BY DEF Batch, Lists, Cancelled, Once, OnTime, OnBeat, Kept, Beat, Updated, Due
<1> QED
  BY <1>1, <1>2

LEMMA StartStep == ASSUME IInv, start PROVE IInv'
  BY FlagsStep DEF start

LEMMA StopStep == ASSUME IInv, stop PROVE IInv'
  BY FlagsStep DEF stop

-----------------------------------------------------------------------------
(* _update                                                                 *)

(* A tick begins with all of _tasks still to be updated.                   *)
LEMMA UpdateStep == ASSUME IInv, NEW count \in 1..MaxLag, update(count) PROVE IInv'
<1> USE DEF IInv
<1>1. /\ left = 0 /\ left' = ticks_of(count) /\ tick + ticks_of(count) <= MaxTick
      /\ snapshot' = tasks /\ removed' = {}
      /\ UNCHANGED <<tick, tasks, span, target, first, calls, loop>>
  BY DEF update, Snapshot
<1>2. ticks_of(count) \in Nat \ {0} /\ (ticks_of(count) < MaxLag \/ ticks_of(count) = 1)
  BY MaxLagPositive DEF ticks_of
<1>3. TypeOK'
  BY <1>1, <1>2 DEF TypeOK, calls, loop
<1>4. Batch' /\ Lists' /\ Cancelled'
  BY <1>1, <1>2 DEF Batch, Lists, Cancelled, calls, TypeOK
<1>5. calling = None
  BY <1>1 DEF Batch
<1>6. Once'
  BY <1>1, <1>5, TasksDiffer DEF Once, calls, loop, TypeOK, Task
<1>7. \A t \in ToSet(tasks) : Updated(t) = tick - 1 /\ Updated(t)' = tick - 1
  BY <1>1 DEF Updated
<1>8. OnTime' /\ OnBeat'
  BY <1>1, <1>7 DEF OnTime, OnBeat, Due, Kept, Beat, calls, loop
<1> QED
  BY <1>3, <1>4, <1>6, <1>8

(* A tick ends with all of _tasks updated, and the next may begin.         *)
LEMMA EndTickStep == ASSUME IInv, end_tick PROVE IInv'
<1> USE DEF IInv
<1>1. /\ left > 0 /\ calling = None /\ snapshot = <<>>
      /\ tick' = tick + 1 /\ left' = left - 1 /\ removed' = {}
      /\ snapshot' = IF left > 1 THEN tasks ELSE <<>>
      /\ UNCHANGED <<tasks, span, target, first, calls, loop>>
  BY DEF end_tick, Updating, Snapshot
<1>2. /\ ToSet(snapshot) = {} /\ tick \in Nat /\ left \in Nat
      /\ ToSet(snapshot') \subseteq ToSet(tasks) /\ IsInjective(snapshot')
      /\ left' > 0 => ToSet(snapshot') = ToSet(tasks)
  BY <1>1, EmptyList, MaxTickNat DEF TypeOK
<1>3. TypeOK'
  <2>1. tick' \in 0..MaxTick /\ left' \in Nat /\ (left' < MaxLag \/ left' = 1)
    BY <1>1, <1>2, MaxTickNat, MaxLagPositive DEF TypeOK, Batch
  <2>2. snapshot' \in Seq(Task)
    BY <1>1 DEF TypeOK
  <2> QED
    BY <1>1, <2>1, <2>2 DEF TypeOK, calls, loop
<1>4. Batch'
  BY <1>1, <1>2, MaxTickNat DEF Batch, calls
<1>5. Lists' /\ Cancelled'
  BY <1>1, <1>2 DEF Lists, Cancelled, calls
<1>6. Once'
  BY <1>1, <1>2, TasksDiffer DEF Once, calls, loop, TypeOK, Task
<1>7. \A t \in ToSet(tasks) : Updated(t) = tick /\ Updated(t)' = tick
  BY <1>1, <1>2 DEF Updated
<1>8. OnTime' /\ OnBeat'
  BY <1>1, <1>7 DEF OnTime, OnBeat, Due, Kept, Beat, calls, loop
<1> QED
  BY <1>3, <1>4, <1>5, <1>6, <1>8

LEMMA EscapeStep == ASSUME IInv, escape, UNCHANGED lists PROVE IInv'
<1> USE DEF IInv, escape, lists
<1>1. snapshot' \in Seq(Task) /\ ToSet(snapshot') = {} /\ IsInjective(snapshot')
  BY EmptyList
<1>2. TypeOK'
  <2>1. left' \in Nat /\ left' < MaxLag
    BY MaxLagPositive
  <2>2. UNCHANGED running /\ impl_running' \in BOOLEAN /\ escaped' \in BOOLEAN
    OBVIOUS
  <2> QED
    BY <1>1, <2>1, <2>2, Zenon DEF TypeOK
<1>3. Batch' /\ Lists' /\ Cancelled'
  BY <1>1, MaxTickNat DEF Batch, Lists, Cancelled, TypeOK
<1>4. Once' /\ OnTime' /\ OnBeat'
  BY DEF Once, OnTime, OnBeat
<1> QED
  BY <1>2, <1>3, <1>4

LEMMA ReturnsStep == ASSUME IInv, NEW t \in Task, callback_returns(t) PROVE IInv'
<1>1. TypeOK /\ removed \in SUBSET Task /\ left > 0 /\ calling = t
  BY TasksDiffer DEF IInv, TypeOK, Batch, callback_returns, Task
<1>2. CASE t \in LoopTask /\ calling' = None
           /\ UNCHANGED <<clock, loop, lists, last, fired, twice>>
  BY <1>1, <1>2, TasksDiffer, FewerTasks DEF TypeOK, lists
<1>3. CASE t \in DelayTask /\ Forget(t) /\ calling' = None
           /\ UNCHANGED <<clock, loop, span, target, first, last, fired, twice>>
  <2>1. /\ tasks' \in Seq(Task) /\ IsInjective(tasks')
        /\ ToSet(tasks') = ToSet(tasks) \ {t} /\ removed' = removed \cup {t}
    BY <1>1, <1>3, ForgetRest
  <2> QED
    BY <1>1, <1>3, <2>1, FewerTasks
<1>4. CASE escape /\ UNCHANGED lists
  BY <1>4, EscapeStep
<1> QED
  BY <1>2, <1>3, <1>4 DEF callback_returns

LEMMA RaisesStep == ASSUME IInv, NEW t \in Task, callback_raises(t) PROVE IInv'
  BY EscapeStep DEF callback_raises

(* The next task of the snapshot is updated.                               *)
LEMMA TaskUpdateStep == ASSUME IInv, task_update PROVE IInv'
<1> USE DEF IInv
<1>1. /\ left > 0 /\ calling = None /\ snapshot # <<>> /\ snapshot' = Tail(snapshot)
      /\ UNCHANGED <<tick, left, lists, loop>>
  BY DEF task_update, Updating
<1>2. PICK t \in Task :
        /\ t = Head(snapshot) /\ t \in ToSet(snapshot) /\ ToSet(snapshot') = ToSet(snapshot) \ {t}
        /\ snapshot' \in Seq(Task) /\ IsInjective(snapshot')
  BY <1>1, TailRest DEF TypeOK, Lists
<1>3. \/ /\ due(t) /\ calling' = t
         /\ last' = [last EXCEPT ![t] = tick]
         /\ fired' = IF t \in DelayTask THEN fired \cup {t} ELSE fired
         /\ twice' = IF t \in fired THEN twice \cup {t} ELSE twice
      \/ ~due(t) /\ UNCHANGED <<calling, last, fired, twice>>
  BY <1>2 DEF task_update, calls
<1>4. tick \in Nat /\ span[t] # None /\ span[t] \in Nat /\ (t \in LoopTask => span[t] # 0)
  <2>1. tick \in Nat /\ span[t] # None /\ (t \in LoopTask => span[t] # 0)
    BY <1>2, MaxTickNat DEF TypeOK, Lists
  <2> QED
    BY <1>2, <2>1, SpansNat DEF TypeOK
<1>5. TypeOK'
  <2>1. UNCHANGED <<tick, tasks, span, target, running, impl_running, escaped, left, first, removed>>
    BY <1>1 DEF lists, loop
  <2>2. calling' \in Task \cup {None} /\ last' \in [Task -> Int]
    BY <1>1, <1>2, <1>3, <1>4 DEF TypeOK
  <2>3. fired' \in SUBSET DelayTask /\ twice' \in SUBSET fired'
    BY <1>3 DEF TypeOK
  <2> QED
    BY <1>2, <2>1, <2>2, <2>3, Zenon DEF TypeOK
<1>6. Batch'
  BY <1>1 DEF Batch
<1>7. Lists'
  BY <1>1, <1>2, <1>3, <1>4 DEF Lists, lists
<1>8. Cancelled'
  BY <1>1, <1>2, <1>3 DEF Cancelled, lists
<1>9. Once'
  <2>1. CASE escaped
    BY <1>1, <2>1 DEF Once, loop
  <2>2. CASE ~escaped
    <3>1. t \notin fired /\ fired \cap ToSet(tasks) = {}
      BY <1>1, <1>2, <2>2, TasksDiffer DEF Once, TypeOK, Task
    <3> QED
      BY <1>1, <1>2, <1>3, <2>2, <3>1 DEF Once, lists, loop
  <2> QED
    BY <2>1, <2>2 DEF TypeOK
<1>10. /\ Updated(t) = tick - 1 /\ Updated(t)' = tick
       /\ \A u \in Task : u # t => Updated(u)' = Updated(u)
  BY <1>1, <1>2 DEF Updated
<1>11. OnTime'
  <2>1. ASSUME t \in DelayTask, ~due(t) PROVE Due(t) > tick
    BY <1>4, <2>1, TasksDiffer DEF due, Due, TypeOK
  <2>2. \A u \in DelayTask : Due(u)' = Due(u)
    BY <1>1 DEF Due, lists
  <2>3. \A u \in ToSet(tasks) : u # None
    BY TasksDiffer DEF TypeOK, ToSet, Task
  <2> QED
    BY <1>1, <1>3, <1>10, <2>1, <2>2, <2>3 DEF OnTime, lists, loop, Task
<1>12. OnBeat'
  <2>1. ASSUME t \in LoopTask, Kept(t, tick - 1) PROVE Kept(t, tick)'
    <3>1. span[t] \in Nat \ {0} /\ first[t] \in Nat /\ UNCHANGED <<tick, span, first>>
      BY <1>1, <1>2, <1>4, <2>1 DEF TypeOK, lists
    <3>2. CASE due(t)
      <4>1. Beat(t, tick)' = tick /\ last'[t] = tick
        BY <1>2, <1>3, <1>4, <2>1, <3>1, <3>2, BeatNow DEF due, Beat, TypeOK
      <4> QED
        BY <4>1, <3>1 DEF Kept
    <3>3. CASE ~due(t)
      <4>1. tick > 0 /\ Beat(t, tick)' = Beat(t, tick - 1) /\ last' = last
        BY <1>3, <1>4, <2>1, <3>1, <3>3, BeatNow DEF due, Beat
      <4>2. tick - 1 >= 0
        BY <1>4, <4>1
      <4> QED
        BY <2>1, <3>1, <4>1, <4>2 DEF Kept
    <3> QED
      BY <3>2, <3>3
  <2>2. ASSUME NEW u \in LoopTask, u # t, Kept(u, Updated(u)) PROVE Kept(u, Updated(u))'
    <3>1. last'[u] = last[u] /\ Updated(u)' = Updated(u) /\ UNCHANGED <<span, first>>
      BY <1>1, <1>3, <1>10, <2>2 DEF Task, TypeOK, lists
    <3> QED
      BY <2>2, <3>1 DEF Kept, Beat
  <2>3. UNCHANGED <<tasks, escaped, tick>>
    BY <1>1 DEF lists, loop
  <2> QED
    BY <1>10, <2>1, <2>2, <2>3 DEF OnBeat
<1> QED
  BY <1>5, <1>6, <1>7, <1>8, <1>9, <1>11, <1>12

LEMMA StutterStep == ASSUME IInv, UNCHANGED vars PROVE IInv'
  BY FlagsStep DEF vars, loop, IInv, TypeOK

-----------------------------------------------------------------------------
LEMMA IInvNext == IInv /\ [Next]_vars => IInv'
<1> SUFFICES ASSUME IInv, [Next]_vars PROVE IInv'
  OBVIOUS
<1>1. CASE UNCHANGED vars
  BY <1>1, StutterStep
<1>2. ASSUME NEW t \in LoopTask, NEW n \in Spans \ {0}, add(t, n) PROVE IInv'
  BY <1>2, AddStep DEF Task
<1>3. ASSUME NEW t \in DelayTask, NEW n \in Spans, add(t, n) PROVE IInv'
  BY <1>3, AddStep, TasksDiffer DEF Task
<1>4. ASSUME NEW t \in DelayTask, restart(t) PROVE IInv'
  BY <1>4, RestartStep
<1>5. ASSUME NEW t \in Task, remove(t) \/ callback_returns(t) \/ callback_raises(t) PROVE IInv'
  BY <1>5, RemoveStep, ReturnsStep, RaisesStep
<1>6. ASSUME NEW count \in 1..MaxLag, update(count) PROVE IInv'
  BY <1>6, UpdateStep
<1>7. CASE remove_all \/ start \/ stop \/ task_update \/ end_tick
  BY <1>7, RemoveAllStep, StartStep, StopStep, TaskUpdateStep, EndTickStep
<1> QED
  BY <1>1, <1>2, <1>3, <1>4, <1>5, <1>6, <1>7 DEF Next

LEMMA Invariance == Spec => []IInv
<1>1. Init => IInv
  BY IInvInit
<1>2. IInv /\ [Next]_vars => IInv'
  BY IInvNext
<1> QED
  BY <1>1, <1>2, PTL DEF Spec

(* Every variable of the ticker keeps its type: _tasks never holds a task  *)
(* twice, and no batch is longer than max_lag allows.                      *)
THEOREM TypeCorrect == Spec => []TypeOK
  BY Invariance, PTL DEF IInv

(* While no exception has left _update, the callback of a DelayTask is     *)
(* called at most once, though user code may restart, stop and add tasks   *)
(* while it is in the snapshot.                                            *)
THEOREM FiresOnceHolds == Spec => []FiresOnce
<1>1. IInv => FiresOnce
  BY DEF IInv, Once, FiresOnce
<1> QED
  BY <1>1, Invariance, PTL

(* A DelayTask is never overdue between two ticks: once the tick of its    *)
(* target has passed it has been called and is no longer in _tasks.        *)
THEOREM NotOverdueHolds == Spec => []NotOverdue
<1>1. IInv => NotOverdue
  <2> SUFFICES ASSUME IInv, BetweenTicks, ~escaped, NEW t \in DelayTask \cap ToSet(tasks)
               PROVE  Due(t) >= tick
    BY DEF NotOverdue, Due
  <2>1. t # None /\ tick \in Nat /\ target[t] \in Nat
    BY TasksDiffer, MaxTickNat DEF IInv, TypeOK
  <2>2. Due(t) > Updated(t)
    BY <2>1 DEF IInv, OnTime, BetweenTicks
  <2>3. Due(t) \in Int /\ (Updated(t) = tick \/ Updated(t) = tick - 1)
    BY <2>1 DEF Due, Updated
  <2> QED
    BY <2>1, <2>2, <2>3
<1> QED
  BY <1>1, Invariance, PTL

(* A LoopTask misses no beat: between two ticks its last callback was at   *)
(* the latest multiple of its interval that has passed since it was added, *)
(* whatever callbacks add, remove or restart during a tick.                *)
THEOREM NoMissedBeatHolds == Spec => []NoMissedBeat
<1>1. IInv => NoMissedBeat
  <2> SUFFICES ASSUME IInv, BetweenTicks, ~escaped, NEW t \in LoopTask \cap ToSet(tasks),
                      tick > 0, Beat(t, tick - 1) >= first[t]
               PROVE  last[t] = Beat(t, tick - 1)
    BY DEF NoMissedBeat, Beat
  <2>1. tick \in Nat /\ tick - 1 >= 0
    BY MaxTickNat DEF IInv, TypeOK
  <2>2. Updated(t) = tick - 1
    BY <2>1 DEF IInv, TypeOK, BetweenTicks, Updated
  <2>3. Kept(t, tick - 1)
    BY <2>2 DEF IInv, OnBeat
  <2> QED
    BY <2>1, <2>3 DEF Kept
<1> QED
  BY <1>1, Invariance, PTL

(* A removed task is called at most in the tick in which it was removed,   *)
(* and not at all if no tick was being updated.                            *)
THEOREM CancelledByNextTickHolds == Spec => []CancelledByNextTick
<1>1. IInv => CancelledByNextTick
  BY TasksDiffer DEF IInv, Cancelled, CancelledByNextTick, Task
<1> QED
  BY <1>1, Invariance, PTL
=============================================================================
