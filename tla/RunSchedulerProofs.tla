-------------------------- MODULE RunSchedulerProofs --------------------------
(***************************************************************************)
(* Safety of RunScheduler for any set of tasks and any times, and that the *)
(* scheduler implements ExclusiveExecutor.                                 *)
(*                                                                         *)
(* The inductive invariant IInv adds to the invariants of RunScheduler     *)
(* what ties the pending lists to the bodies: a list holds each queued     *)
(* task of its lane exactly once.  Without it a pump could start a task    *)
(* that has already run, and none of the others would be preserved.        *)
(***************************************************************************)
EXTENDS RunScheduler, SequenceTheorems, TLAPS

(* Lists *)

\* Appending a new element keeps a sequence free of repetitions.
LEMMA AppendElements ==
    ASSUME NEW S, NEW s \in Seq(S), NEW e \in S
    PROVE  /\ Append(s, e) \in Seq(S)
           /\ Append(s, e) # <<>>
           /\ Elements(Append(s, e)) = Elements(s) \cup {e}
           /\ (Injective(s) /\ e \notin Elements(s)) => Injective(Append(s, e))
<1> DEFINE a == Append(s, e)
<1>1. /\ a \in Seq(S) /\ Len(a) = Len(s) + 1
      /\ \A i \in 1..Len(s) : a[i] = s[i]
      /\ a[Len(s) + 1] = e
      /\ Len(s) \in Nat
  OBVIOUS
<1>2. DOMAIN a = 1..(Len(s) + 1) /\ DOMAIN s = 1..Len(s)
  BY <1>1
<1>3. a # <<>>
  BY <1>1
<1> HIDE DEF a
<1>4. Elements(a) = Elements(s) \cup {e}
  BY <1>1, <1>2 DEF Elements
<1>5. (Injective(s) /\ e \notin Elements(s)) => Injective(a)
  BY <1>1, <1>2 DEF Elements, Injective
<1> QED
  BY <1>1, <1>3, <1>4, <1>5 DEF a

\* The n entries of f are distinct.
Distinct(f, n) == \A x, y \in 1..n : f[x] = f[y] => x = y

\* r is f, of n entries, without entry i: by position, and by content.
Shifts(r, f, i, n) == \A j \in 1..(n - 1) : r[j] = (IF j < i THEN f[j] ELSE f[j + 1])
Loses(r, f, i, n) ==
    /\ \A j \in 1..(n - 1) : \E k \in 1..n : k # i /\ r[j] = f[k]
    /\ \A k \in 1..n : k # i => \E j \in 1..(n - 1) : r[j] = f[k]

\* RemoveElements, index by index.
LEMMA RemoveShifts ==
    ASSUME NEW n \in Nat, NEW f, NEW r, NEW i \in 1..n, Shifts(r, f, i, n)
    PROVE  Loses(r, f, i, n) /\ (Distinct(f, n) => Distinct(r, n - 1))
<1> USE DEF Shifts
<1>1. ASSUME NEW j \in 1..(n - 1)
      PROVE  \E x \in 1..n : x # i /\ r[j] = f[x] /\ x = (IF j < i THEN j ELSE j + 1)
  <2> DEFINE x == IF j < i THEN j ELSE j + 1
  <2>1. x \in 1..n /\ x # i
    OBVIOUS
  <2> QED
    BY <2>1
<1>2. ASSUME NEW j \in 1..(n - 1), NEW k \in 1..(n - 1), r[j] = r[k], Distinct(f, n) PROVE j = k
  <2>1. PICK x \in 1..n : r[j] = f[x] /\ x = (IF j < i THEN j ELSE j + 1)
    BY <1>1
  <2>2. PICK y \in 1..n : r[k] = f[y] /\ y = (IF k < i THEN k ELSE k + 1)
    BY <1>1
  <2>3. x = y
    BY <1>2, <2>1, <2>2 DEF Distinct
  <2> QED
    BY <2>1, <2>2, <2>3
<1>3. ASSUME NEW k \in 1..n, k # i PROVE \E j \in 1..(n - 1) : r[j] = f[k]
  <2>1. CASE k < i
    BY <2>1
  <2>2. CASE k > i
    <3>1. k - 1 \in 1..(n - 1) /\ ~(k - 1 < i) /\ (k - 1) + 1 = k
      BY <2>2
    <3> QED
      BY <3>1
  <2> QED
    BY <1>3, <2>1, <2>2
<1> QED
  BY <1>1, <1>2, <1>3 DEF Distinct, Loses

\* Removing an entry of a sequence without repetitions removes its element.
LEMMA RemoveElements ==
    ASSUME NEW S, NEW s \in Seq(S), NEW i \in DOMAIN s
    PROVE  /\ RemoveIndex(s, i) \in Seq(S)
           /\ s[i] \in S /\ Len(RemoveIndex(s, i)) = Len(s) - 1
           /\ Elements(RemoveIndex(s, i)) \subseteq Elements(s)
           /\ Elements(s) \ {s[i]} \subseteq Elements(RemoveIndex(s, i))
           /\ Injective(s) => /\ Injective(RemoveIndex(s, i))
                              /\ Elements(RemoveIndex(s, i)) = Elements(s) \ {s[i]}
<1> DEFINE n == Len(s)
           r == RemoveIndex(s, i)
<1>1. n \in Nat /\ i \in 1..n /\ DOMAIN s = 1..n /\ \A j \in 1..n : s[j] \in S
  OBVIOUS
<1>2. /\ n - 1 \in Nat /\ DOMAIN r = 1..(n - 1)
      /\ \A j \in 1..(n - 1) : r[j] = (IF j < i THEN s[j] ELSE s[j + 1])
  BY <1>1 DEF RemoveIndex
<1>3. r \in [1..(n - 1) -> S]
  <2>1. \A j \in 1..(n - 1) : (IF j < i THEN s[j] ELSE s[j + 1]) \in S
    BY <1>1
  <2> QED
    BY <2>1 DEF RemoveIndex
<1>4. r \in Seq(S)
  BY <1>2, <1>3, SeqDef
<1>5. Len(r) = n - 1
  BY <1>2, <1>4
<1> HIDE DEF n, r
<1>6. n \in Nat /\ i \in 1..n /\ Shifts(r, s, i, n)
  BY <1>1, <1>2 DEF Shifts
<1>7. Loses(r, s, i, n) /\ (Distinct(s, n) => Distinct(r, n - 1))
  BY <1>6, RemoveShifts
<1>8. /\ Elements(r) = {r[j] : j \in 1..(n - 1)}
      /\ Elements(s) = {s[k] : k \in 1..n}
  BY <1>1, <1>2 DEF Elements
<1>9. ASSUME NEW v \in Elements(r) PROVE \E k \in 1..n : k # i /\ v = s[k]
  <2>1. PICK j \in 1..(n - 1) : v = r[j]
    BY <1>8
  <2> QED
    BY <1>7, <2>1 DEF Loses
<1>10. ASSUME NEW v \in Elements(s) \ {s[i]} PROVE v \in Elements(r)
  <2>1. PICK k \in 1..n : v = s[k]
    BY <1>8
  <2>2. k # i
    BY <2>1
  <2>3. PICK j \in 1..(n - 1) : v = r[j]
    BY <1>7, <2>1, <2>2 DEF Loses
  <2> QED
    BY <1>8, <2>3
<1>11. ASSUME Injective(s) PROVE Injective(r) /\ Elements(r) = Elements(s) \ {s[i]}
  <2>1. Distinct(s, n)
    BY <1>1, <1>11 DEF Injective, Distinct
  <2>2. \A k \in 1..n : k # i => s[k] # s[i]
    BY <1>6, <2>1 DEF Distinct
  <2>3. Elements(r) \subseteq Elements(s) \ {s[i]}
    BY <1>8, <1>9, <2>2
  <2> QED
    BY <1>2, <1>7, <1>10, <2>1, <2>3 DEF Injective, Distinct
<1>12. Elements(r) \subseteq Elements(s)
  BY <1>8, <1>9
<1> QED
  BY <1>1, <1>4, <1>5, <1>10, <1>11, <1>12 DEF n, r

-------------------------------------------------------------------------------
(* The invariant *)

Queued(b, l) == {t \in Tasks : b[t] = "queued" /\ LaneOf[t] = l}

QueuesMatch(p, b) == \A l \in Lanes : Injective(p[l]) /\ Elements(p[l]) = Queued(b, l)

PendingSound == QueuesMatch(pending, body)

IInv == /\ TypeOK /\ PendingSound /\ ExclusiveRun /\ WatchdogCovers
        /\ TimersActOnActive /\ NoIdleQueue /\ PromiseTracksRun

-------------------------------------------------------------------------------
(* pump *)

LEMMA EscapeWaitLength == EscapeWait \in Nat /\ WatchdogMs <= EscapeWait
BY TimesAssumption DEF EscapeWait

\* How long a user turn has waited, and how long the watchdog is armed for then.
LEMMA WaitRange ==
    ASSUME NEW users \in Seq(Tasks), users # <<>>, NEW a \in Tasks, NEW ages \in [Tasks -> 0..EscapeWait]
    PROVE  /\ Waited(users, a, ages) \in 0..EscapeWait
           /\ WatchdogMs - Lesser(Waited(users, a, ages), WatchdogMs) \in 0..WatchdogMs
<1>1. Head(users) \in Tasks
  OBVIOUS
<1>2. ages[Head(users)] \in 0..EscapeWait /\ ages[a] \in 0..EscapeWait
  BY <1>1
<1>3. Waited(users, a, ages) \in 0..EscapeWait
  BY <1>2, EscapeWaitLength DEF Waited, Lesser
<1> QED
  BY <1>3, EscapeWaitLength, TimesAssumption DEF Lesser

\* What pump leaves on a queue without active run: the queue matches the bodies
\* again, and the watchdog is armed exactly when it started a run ahead of a
\* user turn.
LEMMA PumpIdleEffect ==
    ASSUME TypeOK, PendingSound,
           NEW b \in [Tasks -> BodyStates], NEW ages \in [Tasks -> 0..EscapeWait],
           \A t \in Tasks : b[t] = "queued" <=> body[t] = "queued",
           PumpIdle(b, ages)
    PROVE  /\ pending' \in [Lanes -> Seq(Tasks)] /\ QueuesMatch(pending', body')
           /\ phase' = "running" /\ body' \in [Tasks -> BodyStates]
           /\ age' \in [Tasks -> 0..EscapeWait]
           /\ watchdog' \in (0..WatchdogMs) \cup {Off}
           /\ grace' = Off /\ graceFor' = None
           /\ \/ /\ active' = None /\ body' = b /\ watchdog' = Off
                 /\ disposed \/ \A l \in Lanes : pending'[l] = <<>>
              \/ /\ active' \in Tasks /\ b[active'] = "queued"
                 /\ body' = [b EXCEPT ![active'] = "running"]
                 /\ watchdog' # Off <=> pending'["user"] # <<>>
<1> USE TasksAssumption, TimesAssumption, EscapeWaitLength
<1>1. CASE (disposed \/ NothingPending) /\ active' = None /\ phase' = "running"
           /\ body' = b /\ age' = ages /\ Disarmed /\ UNCHANGED pending
  <2>1. QueuesMatch(pending', body')
    BY <1>1 DEF PendingSound, QueuesMatch, Queued
  <2> QED
    BY <1>1, <2>1 DEF TypeOK, Disarmed, NothingPending, Off
<1>2. ASSUME ~disposed, NEW l \in Lanes, NEW i \in DOMAIN pending[l], IsNext(l, i),
             active' = pending[l][i] /\ phase' = "running",
             pending' = [pending EXCEPT ![l] = RemoveIndex(pending[l], i)],
             body' = [b EXCEPT ![pending[l][i]] = "running"],
             age' = [ages EXCEPT ![pending[l][i]] = 0],
             watchdog' = Armed(Off, pending'["user"], active', age'),
             grace' = Off /\ graceFor' = None
      PROVE  /\ pending' \in [Lanes -> Seq(Tasks)] /\ QueuesMatch(pending', body')
             /\ body' \in [Tasks -> BodyStates]
             /\ age' \in [Tasks -> 0..EscapeWait]
             /\ watchdog' \in (0..WatchdogMs) \cup {Off}
             /\ active' \in Tasks /\ b[active'] = "queued"
             /\ body' = [b EXCEPT ![active'] = "running"]
             /\ watchdog' # Off <=> pending'["user"] # <<>>
  <2> DEFINE q == pending[l]
             n == q[i]
  <2>1. q \in Seq(Tasks) /\ Injective(q) /\ Elements(q) = Queued(body, l)
    BY DEF TypeOK, PendingSound, QueuesMatch
  <2>2. /\ RemoveIndex(q, i) \in Seq(Tasks) /\ n \in Tasks
        /\ Injective(RemoveIndex(q, i)) /\ Elements(RemoveIndex(q, i)) = Elements(q) \ {n}
    BY <2>1, RemoveElements
  <2>3. n \in Elements(q)
    BY DEF Elements
  <2>4. body[n] = "queued" /\ LaneOf[n] = l
    BY <2>1, <2>3 DEF Queued
  <2> HIDE DEF q, n
  <2>5. pending' \in [Lanes -> Seq(Tasks)]
    BY <1>2, <2>2 DEF TypeOK, q
  <2>6. body' = [b EXCEPT ![n] = "running"] /\ n \in Tasks /\ b[n] = "queued" /\ active' = n
    BY <1>2, <2>2, <2>4 DEF q, n
  <2>7. ASSUME NEW k \in Lanes
        PROVE  Injective(pending'[k]) /\ Elements(pending'[k]) = Queued(body', k)
    <3>1. CASE k = l
      <4>1. pending'[k] = RemoveIndex(q, i)
        BY <1>2, <3>1 DEF TypeOK, q
      <4>2. Queued(body', k) = Queued(body, k) \ {n}
        BY <2>6 DEF Queued, BodyStates
      <4> QED
        BY <2>1, <2>2, <3>1, <4>1, <4>2
    <3>2. CASE k # l
      <4>1. pending'[k] = pending[k]
        BY <1>2, <3>2 DEF TypeOK
      <4>2. Queued(body', k) = Queued(body, k)
        BY <2>4, <2>6, <3>2 DEF Queued, BodyStates
      <4> QED
        BY <4>1, <4>2 DEF PendingSound, QueuesMatch
    <3> QED
      BY <3>1, <3>2
  <2>8. age' \in [Tasks -> 0..EscapeWait] /\ age'[n] = 0
    BY <1>2, <2>2 DEF n, q
  <2>9. /\ watchdog' \in (0..WatchdogMs) \cup {Off}
        /\ watchdog' # Off <=> pending'["user"] # <<>>
    <3>1. CASE pending'["user"] = <<>>
      BY <1>2, <3>1 DEF Armed
    <3>2. CASE pending'["user"] # <<>>
      <4>1. pending'["user"] \in Seq(Tasks) /\ active' \in Tasks
        BY <2>5, <2>6 DEF Lanes
      <4>2. WatchdogMs - Lesser(Waited(pending'["user"], active', age'), WatchdogMs) \in 0..WatchdogMs
        BY <2>8, <3>2, <4>1, WaitRange
      <4>3. watchdog' = WatchdogMs - Lesser(Waited(pending'["user"], active', age'), WatchdogMs)
        BY <1>2, <2>6, <3>2 DEF Armed
      <4> QED
        BY <3>2, <4>2, <4>3 DEF Off
    <3> QED
      BY <3>1, <3>2
  <2> QED
    BY <2>5, <2>6, <2>7, <2>8, <2>9 DEF QueuesMatch, BodyStates
<1> QED
  BY <1>1, <1>2 DEF PumpIdle

-------------------------------------------------------------------------------
(* The inductive invariant *)

LEMMA InitEstablishes == Init => IInv
<1> SUFFICES ASSUME Init PROVE IInv
  OBVIOUS
<1> USE TasksAssumption, TimesAssumption, EscapeWaitLength DEF Init
<1>1. TypeOK
  <2>1. pending \in [Lanes -> Seq(Tasks)]
    OBVIOUS
  <2>2. drain \in [waiting : BOOLEAN, runs : SUBSET Tasks, promises : SUBSET Tasks,
               ran : SUBSET Tasks]
    BY DEF IdleDrain
  <2>3. age \in [Tasks -> 0..EscapeWait]
    OBVIOUS
  <2>4. body \in [Tasks -> BodyStates] /\ promise \in [Tasks -> PromiseStates]
    BY DEF BodyStates, PromiseStates
  <2>5. /\ active \in Tasks \cup {None} /\ graceFor \in Tasks \cup {None}
        /\ phase \in {"running", "interrupted"} /\ zombies \subseteq Tasks
        /\ pumpsDue \in Nat /\ disposed \in BOOLEAN
        /\ watchdog \in (0..WatchdogMs) \cup {Off} /\ grace \in (0..GraceMs) \cup {Off}
    OBVIOUS
  <2> QED
    BY ONLY <2>1, <2>2, <2>3, <2>4, <2>5 DEF TypeOK
<1>2. PendingSound
  BY DEF PendingSound, QueuesMatch, Injective, Elements, Queued
<1>3. ExclusiveRun /\ WatchdogCovers /\ TimersActOnActive /\ PromiseTracksRun
  BY DEF ExclusiveRun, Running, WatchdogCovers, TimersActOnActive, PromiseTracksRun, Off
<1>4. NoIdleQueue
  BY DEF NoIdleQueue, NothingPending
<1> QED
  BY <1>1, <1>2, <1>3, <1>4 DEF IInv

\* The invariant survives a pump that follows the end or the escape of run a, or
\* that follows nothing (a = None), when the rest of the step keeps the promises.
LEMMA PumpPreserves ==
    ASSUME IInv, NEW b \in [Tasks -> BodyStates], NEW ages \in [Tasks -> 0..EscapeWait],
           active \in Tasks => b[active] \in {"running", "settled"},
           \A t \in Tasks : t # active => b[t] = body[t],
           PumpIdle(b, ages),
           zombies' = zombies \cup {t \in Tasks : t = active /\ b[t] = "running"},
           promise' \in [Tasks -> PromiseStates],
           active \in Tasks => promise'[active] # "open",
           \A t \in Tasks : t # active => promise'[t] = promise[t],
           pumpsDue' \in Nat, disposed' = disposed, drain' = drain
    PROVE  IInv'
<1> USE TasksAssumption, TimesAssumption, EscapeWaitLength DEF IInv
<1>1. \A t \in Tasks : b[t] = "queued" <=> body[t] = "queued"
  BY DEF TypeOK, ExclusiveRun, Running, BodyStates
<1>2. /\ pending' \in [Lanes -> Seq(Tasks)] /\ QueuesMatch(pending', body')
      /\ phase' = "running" /\ body' \in [Tasks -> BodyStates]
      /\ age' \in [Tasks -> 0..EscapeWait]
      /\ watchdog' \in (0..WatchdogMs) \cup {Off}
      /\ grace' = Off /\ graceFor' = None
      /\ \/ /\ active' = None /\ body' = b /\ watchdog' = Off
            /\ disposed \/ \A l \in Lanes : pending'[l] = <<>>
         \/ /\ active' \in Tasks /\ b[active'] = "queued"
            /\ body' = [b EXCEPT ![active'] = "running"]
            /\ watchdog' # Off <=> pending'["user"] # <<>>
  BY <1>1, PumpIdleEffect
<1>3. TypeOK'
  BY <1>2 DEF TypeOK
<1>4. PendingSound'
  BY <1>2 DEF PendingSound
<1>5. ExclusiveRun'
  BY <1>1, <1>2 DEF TypeOK, ExclusiveRun, Running, BodyStates
<1>6. WatchdogCovers' /\ TimersActOnActive' /\ NoIdleQueue'
  BY <1>2 DEF WatchdogCovers, TimersActOnActive, NoIdleQueue, NothingPending
<1>7. PromiseTracksRun'
  <2>1. ASSUME NEW t \in Tasks
        PROVE  promise'[t] = "open" <=> (body'[t] = "queued" \/ active' = t)
    <3>1. CASE t = active
      BY <1>2, <2>1, <3>1 DEF TypeOK
    <3>2. CASE t # active
      <4>1. promise'[t] = "open" <=> body[t] = "queued"
        BY <2>1, <3>2 DEF PromiseTracksRun
      <4>2. b[t] = "queued" <=> body[t] = "queued"
        BY <1>1, <2>1
      <4>3. CASE active' = None
        BY <1>2, <2>1, <4>1, <4>2, <4>3
      <4>4. CASE active' # None
        BY <1>2, <2>1, <4>1, <4>2, <4>4
      <4> QED
        BY <4>3, <4>4
    <3> QED
      BY <3>1, <3>2
  <2> QED
    BY <2>1 DEF PromiseTracksRun
<1> QED
  BY <1>3, <1>4, <1>5, <1>6, <1>7

\* Every step of the scheduler preserves the invariant.
LEMMA NextPreserves == IInv /\ [Next]_vars => IInv'
<1> SUFFICES ASSUME IInv, [Next]_vars PROVE IInv'
  OBVIOUS
<1> USE TasksAssumption, TimesAssumption, EscapeWaitLength
<1>1. ASSUME NEW t \in Tasks, Enqueue(t) PROVE IInv'
  <2> DEFINE l == LaneOf[t]
             users == pending'["user"]
  <2>1. TypeOK /\ body[t] = "new" /\ l \in Lanes
    BY <1>1 DEF IInv, Enqueue
  <2>2. pending[l] \in Seq(Tasks) /\ Injective(pending[l]) /\ Elements(pending[l]) = Queued(body, l)
    BY <2>1 DEF IInv, TypeOK, PendingSound, QueuesMatch
  <2>3. t \notin Elements(pending[l])
    BY <2>1, <2>2 DEF Queued
  <2>4. /\ pending' = [pending EXCEPT ![l] = Append(pending[l], t)]
        /\ pending' \in [Lanes -> Seq(Tasks)]
        /\ pending'[l] # <<>> /\ Injective(pending'[l])
        /\ Elements(pending'[l]) = Elements(pending[l]) \cup {t}
    <3>1. pending' = [pending EXCEPT ![l] = Append(pending[l], t)]
      BY <1>1 DEF Enqueue
    <3>2. /\ Append(pending[l], t) \in Seq(Tasks) /\ Append(pending[l], t) # <<>>
          /\ Elements(Append(pending[l], t)) = Elements(pending[l]) \cup {t}
          /\ Injective(Append(pending[l], t))
      BY <2>2, <2>3, AppendElements
    <3>3. pending'[l] = Append(pending[l], t)
      BY <2>1, <3>1 DEF TypeOK
    <3>4. pending' \in [Lanes -> Seq(Tasks)]
      BY <2>1, <3>1, <3>2 DEF TypeOK
    <3> QED
      BY <3>1, <3>2, <3>3, <3>4
  <2>5. body' = [body EXCEPT ![t] = "queued"] /\ body' \in [Tasks -> BodyStates]
    BY <1>1, <2>1 DEF Enqueue, TypeOK, BodyStates
  <2> HIDE DEF l
  <2>6. ASSUME NEW k \in Lanes
        PROVE  Injective(pending'[k]) /\ Elements(pending'[k]) = Queued(body', k)
    <3>1. CASE k = l
      <4>1. Queued(body', k) = Queued(body, k) \cup {t}
        BY <2>1, <2>5, <3>1 DEF Queued, TypeOK, l
      <4> QED
        BY <2>2, <2>4, <3>1, <4>1
    <3>2. CASE k # l
      <4>1. Queued(body', k) = Queued(body, k)
        BY <2>1, <2>5, <3>2 DEF Queued, TypeOK, l
      <4>2. pending'[k] = pending[k]
        BY <2>1, <2>4, <3>2 DEF TypeOK
      <4> QED
        BY <4>1, <4>2 DEF IInv, PendingSound, QueuesMatch
    <3> QED
      BY <3>1, <3>2
  <2>7. PendingSound'
    BY <2>6 DEF PendingSound, QueuesMatch
  <2>8. active # t /\ (active = None \/ body[active] = "running")
    BY <2>1 DEF IInv, ExclusiveRun, Running, TypeOK
  <2>9. /\ watchdog' \in (0..WatchdogMs) \cup {Off}
        /\ watchdog' = watchdog \/ (~disposed /\ active # None /\ users # <<>> /\ grace = Off)
        /\ (~disposed /\ active # None /\ users # <<>>) => (watchdog' # Off \/ grace # Off)
    <3>1. CASE grace # Off \/ disposed \/ watchdog # Off \/ users = <<>> \/ active = None
      BY <1>1, <2>1, <3>1 DEF Enqueue, Armed, TypeOK
    <3>2. CASE ~(grace # Off \/ disposed \/ watchdog # Off \/ users = <<>> \/ active = None)
      <4>1. users \in Seq(Tasks) /\ active \in Tasks /\ age \in [Tasks -> 0..EscapeWait]
        BY <2>1, <2>4, <3>2 DEF TypeOK, Lanes
      <4>2. WatchdogMs - Lesser(Waited(users, active, age), WatchdogMs) \in 0..WatchdogMs
        BY <3>2, <4>1, WaitRange
      <4>3. watchdog' = WatchdogMs - Lesser(Waited(users, active, age), WatchdogMs)
        BY <1>1, <3>2 DEF Enqueue, Armed
      <4> QED
        BY <3>2, <4>2, <4>3 DEF Off
    <3> QED
      BY <3>1, <3>2
  <2>10. TypeOK'
    <3>1. /\ promise' = [promise EXCEPT ![t] = "open"] /\ pumpsDue' = pumpsDue + 1
          /\ UNCHANGED <<active, phase, zombies, grace, graceFor, age, disposed, drain>>
      BY <1>1 DEF Enqueue
    <3>2. promise' \in [Tasks -> PromiseStates] /\ pumpsDue' \in Nat
      BY <2>1, <3>1 DEF TypeOK, PromiseStates
    <3>3. watchdog' \in (0..WatchdogMs) \cup {Off}
      BY <2>9
    <3> QED
      BY <2>1, <2>4, <2>5, <3>1, <3>2, <3>3 DEF TypeOK
  <2>11. ExclusiveRun'
    BY <1>1, <2>1, <2>5 DEF IInv, ExclusiveRun, Running, Enqueue, TypeOK
  <2>12. pending["user"] # <<>> => users # <<>>
    BY <2>1, <2>4 DEF TypeOK, Lanes
  <2>13. WatchdogCovers' /\ TimersActOnActive'
    <3>1. /\ active' = active /\ phase' = phase /\ disposed' = disposed
          /\ grace' = grace /\ graceFor' = graceFor
      BY <1>1 DEF Enqueue
    <3>2. WatchdogCovers'
      BY <2>9, <3>1 DEF WatchdogCovers
    <3>3. TimersActOnActive /\ phase \in {"running", "interrupted"}
      BY <2>1 DEF IInv, TypeOK
    <3>4. TimersActOnActive'
      BY <2>9, <2>12, <3>1, <3>3 DEF TimersActOnActive
    <3> QED
      BY <3>2, <3>4
  <2>15. NoIdleQueue'
    BY <1>1, <2>1 DEF NoIdleQueue, Enqueue, TypeOK
  <2>14. PromiseTracksRun'
    BY <1>1, <2>1, <2>5, <2>8 DEF IInv, PromiseTracksRun, Enqueue, TypeOK
  <2> QED
    BY <2>7, <2>10, <2>11, <2>13, <2>14, <2>15 DEF IInv
\* A pump that may follow the end or the escape of a run.
<1>2. ASSUME Pump PROVE IInv'
  <2>1. CASE disposed \/ active # None
    BY <1>2, <2>1 DEF Pump, IInv, TypeOK, PendingSound, QueuesMatch, Queued, ExclusiveRun, Running,
       WatchdogCovers, TimersActOnActive, NoIdleQueue, NothingPending, PromiseTracksRun, timers
  <2>2. CASE ~disposed /\ active = None
    <3>1. /\ PumpIdle(body, age) /\ zombies' = zombies /\ promise' = promise
          /\ pumpsDue' \in Nat /\ disposed' = disposed /\ drain' = drain
      BY <1>2, <2>2 DEF Pump, IInv, TypeOK
    <3>2. /\ body \in [Tasks -> BodyStates] /\ age \in [Tasks -> 0..EscapeWait]
          /\ promise \in [Tasks -> PromiseStates] /\ active \notin Tasks
      BY <2>2 DEF IInv, TypeOK
    <3>3. zombies' = zombies \cup {t \in Tasks : t = active /\ body[t] = "running"}
      BY <3>1, <3>2
    <3> QED
      BY <3>1, <3>2, <3>3, PumpPreserves
  <2> QED
    BY <2>1, <2>2
<1>3. ASSUME NEW t \in Tasks, NEW outcome \in {"resolved", "rejected"}, TaskSettles(t, outcome)
      PROVE  IInv'
  <2> DEFINE b == [body EXCEPT ![t] = "settled"]
             ages == [age EXCEPT ![t] = 0]
  <2>1. /\ body[t] = "running" /\ zombies' = zombies \ {t}
        /\ promise' = [promise EXCEPT ![t] = IF promise[t] = "open" THEN outcome ELSE promise[t]]
        /\ pumpsDue' = pumpsDue /\ disposed' = disposed /\ drain' = drain
    BY <1>3 DEF TaskSettles, SettlesPromise
  <2>2. TypeOK /\ b \in [Tasks -> BodyStates] /\ ages \in [Tasks -> 0..EscapeWait]
    BY DEF IInv, TypeOK, BodyStates
  <2>3. /\ promise' \in [Tasks -> PromiseStates] /\ promise'[t] # "open"
        /\ \A u \in Tasks : u # t => promise'[u] = promise[u]
    BY <2>1, <2>2 DEF TypeOK, PromiseStates
  <2>4. CASE active = t
    <3>1. PumpIdle(b, ages)
      BY <1>3, <2>4 DEF TaskSettles
    <3>2. zombies' = zombies \cup {u \in Tasks : u = active /\ b[u] = "running"}
      BY <2>1, <2>2, <2>4 DEF IInv, ExclusiveRun, Running, TypeOK
    <3>3. b[active] = "settled" /\ \A u \in Tasks : u # active => b[u] = body[u]
      BY <2>2, <2>4 DEF TypeOK
    <3>4. pumpsDue' \in Nat
      BY <2>1, <2>2 DEF TypeOK
    <3> QED
      BY <2>1, <2>2, <2>3, <2>4, <3>1, <3>2, <3>3, <3>4, PumpPreserves
  <2>5. CASE active # t
    <3>1. body' = b /\ UNCHANGED <<pending, active, phase, age, watchdog, grace, graceFor>>
      BY <1>3, <2>5 DEF TaskSettles, timers
    <3>2. TypeOK'
      BY <2>1, <2>2, <2>3, <3>1 DEF TypeOK
    <3>3. PendingSound'
      <4>1. \A l \in Lanes : Queued(body', l) = Queued(body, l)
        BY <2>1, <2>2, <3>1 DEF Queued, TypeOK
      <4> QED
        BY <3>1, <4>1 DEF IInv, PendingSound, QueuesMatch
    <3>4. ExclusiveRun'
      BY <2>1, <2>2, <2>5, <3>1 DEF IInv, ExclusiveRun, Running, TypeOK
    <3>5. WatchdogCovers' /\ TimersActOnActive' /\ NoIdleQueue'
      BY <2>1, <3>1 DEF IInv, WatchdogCovers, TimersActOnActive, NoIdleQueue, NothingPending
    <3>6. PromiseTracksRun'
      BY <2>1, <2>2, <2>3, <2>5, <3>1 DEF IInv, PromiseTracksRun, TypeOK
    <3> QED
      BY <3>2, <3>3, <3>4, <3>5, <3>6 DEF IInv
  <2> QED
    BY <2>4, <2>5
<1>4. ASSUME Escape PROVE IInv'
  <2> DEFINE ages == [age EXCEPT ![active] = 0]
  <2>1. /\ active \in Tasks /\ TypeOK /\ body[active] = "running" /\ active \notin zombies
    BY <1>4 DEF Escape, IInv, TypeOK, TimersActOnActive, ExclusiveRun, Running
  <2>2. /\ PumpIdle(body, ages) /\ zombies' = zombies \cup {active}
        /\ promise' = [promise EXCEPT ![active] = IF promise[active] = "open" THEN "resolved" ELSE promise[active]]
        /\ pumpsDue' = pumpsDue /\ disposed' = disposed /\ drain' = drain
    BY <1>4 DEF Escape
  <2>3. /\ promise' \in [Tasks -> PromiseStates] /\ promise'[active] # "open"
        /\ \A t \in Tasks : t # active => promise'[t] = promise[t]
    BY <2>1, <2>2 DEF TypeOK, PromiseStates
  <2>4. body \in [Tasks -> BodyStates] /\ ages \in [Tasks -> 0..EscapeWait] /\ pumpsDue' \in Nat
    BY <2>1, <2>2 DEF TypeOK
  <2>5. zombies' = zombies \cup {t \in Tasks : t = active /\ body[t] = "running"}
    BY <2>1, <2>2
  <2> HIDE DEF ages
  <2> QED
    BY <2>1, <2>2, <2>3, <2>4, <2>5, PumpPreserves
\* What these steps change of the queue: the timers, the clock, the flag, a caller.
<1>5. ASSUME WatchdogRearm \/ WatchdogDefer \/ WatchdogTrip PROVE IInv'
  <2>1. TypeOK /\ WatchdogDue
    BY <1>5 DEF IInv, WatchdogRearm, WatchdogDefer, WatchdogTrip
  <2>2. pending["user"] # <<>> /\ active \in Tasks /\ ~disposed /\ watchdog # Off
    BY <2>1 DEF TypeOK, WatchdogDue, TimersMayRun
  <2>3. grace = Off /\ phase = "running"
    BY <2>2 DEF IInv, TimersActOnActive
  <2>4. WatchdogMs - Lesser(Waited(pending["user"], active, age), WatchdogMs) \in 0..WatchdogMs
    <3>1. pending["user"] \in Seq(Tasks) /\ age \in [Tasks -> 0..EscapeWait]
      BY <2>1 DEF TypeOK, Lanes
    <3> QED
      BY <2>2, <3>1, WaitRange
  <2>5. UNCHANGED <<pending, active, body, promise, zombies, pumpsDue, age, disposed, drain>>
    BY <1>5 DEF WatchdogRearm, WatchdogDefer, WatchdogTrip
  <2>6. \/ watchdog' \in 0..WatchdogMs /\ UNCHANGED <<phase, grace, graceFor>>
        \/ watchdog' = Off /\ grace' = GraceMs /\ graceFor' = active /\ phase' = "interrupted"
    BY <1>5, <2>2, <2>4 DEF WatchdogRearm, WatchdogDefer, WatchdogTrip, Armed
  <2>7. TypeOK'
    BY <2>1, <2>2, <2>5, <2>6 DEF TypeOK
  <2>8. WatchdogCovers' /\ TimersActOnActive'
    BY <2>2, <2>3, <2>5, <2>6 DEF IInv, WatchdogCovers, TimersActOnActive, Off
  <2>9. PendingSound' /\ ExclusiveRun' /\ NoIdleQueue' /\ PromiseTracksRun'
    BY <2>5 DEF IInv, PendingSound, QueuesMatch, Queued, ExclusiveRun, Running, NoIdleQueue,
       NothingPending, PromiseTracksRun
  <2> QED
    BY <2>7, <2>8, <2>9 DEF IInv
<1>6. ASSUME Tick PROVE IInv'
  <2>1. /\ TypeOK /\ UNCHANGED <<pending, active, phase, body, promise, zombies, pumpsDue,
                                 graceFor, disposed, drain>>
    BY <1>6 DEF IInv, Tick
  <2>2. /\ watchdog' \in (0..WatchdogMs) \cup {Off} /\ (watchdog' = Off <=> watchdog = Off)
        /\ grace' \in (0..GraceMs) \cup {Off} /\ (grace' = Off <=> grace = Off)
    BY <1>6, <2>1 DEF Tick, TypeOK, Off
  <2>3. age' \in [Tasks -> 0..EscapeWait]
    <3>1. \A t \in Tasks : Lesser(age[t] + 1, EscapeWait) \in 0..EscapeWait
      BY <2>1 DEF TypeOK, Lesser
    <3> QED
      BY <1>6, <2>1, <3>1 DEF Tick, TypeOK
  <2>4. TypeOK'
    BY <2>1, <2>2, <2>3 DEF TypeOK
  <2>5. WatchdogCovers' /\ TimersActOnActive'
    BY <2>1, <2>2 DEF IInv, WatchdogCovers, TimersActOnActive
  <2>6. PendingSound' /\ ExclusiveRun' /\ NoIdleQueue' /\ PromiseTracksRun'
    BY <2>1 DEF IInv, PendingSound, QueuesMatch, Queued, ExclusiveRun, Running, NoIdleQueue,
       NothingPending, PromiseTracksRun
  <2> QED
    BY <2>4, <2>5, <2>6 DEF IInv
<1>7. ASSUME Dispose PROVE IInv'
  <2>1. /\ UNCHANGED <<pending, active, phase, body, promise, zombies, pumpsDue, age, drain>>
        /\ disposed' = TRUE /\ watchdog' = Off /\ grace' = Off /\ graceFor' = None
    BY <1>7 DEF Dispose, Disarmed
  <2>2. TypeOK'
    BY <2>1 DEF IInv, TypeOK
  <2>3. WatchdogCovers' /\ TimersActOnActive' /\ NoIdleQueue'
    BY <2>1 DEF WatchdogCovers, TimersActOnActive, NoIdleQueue
  <2>4. PendingSound' /\ ExclusiveRun' /\ PromiseTracksRun'
    BY <2>1 DEF IInv, PendingSound, QueuesMatch, Queued, ExclusiveRun, Running, PromiseTracksRun
  <2> QED
    BY <2>2, <2>3, <2>4 DEF IInv
<1>8. ASSUME DrainCall \/ DrainReturn PROVE IInv'
  <2>1. UNCHANGED <<pending, active, phase, body, promise, zombies, pumpsDue, age,
                    watchdog, grace, graceFor, disposed>>
    BY <1>8 DEF DrainCall, DrainReturn, timers
  <2>2. drain' \in [waiting : BOOLEAN, runs : SUBSET Tasks, promises : SUBSET Tasks,
               ran : SUBSET Tasks]
    <3>1. CASE DrainReturn
      BY <3>1 DEF DrainReturn, IdleDrain
    <3>2. CASE DrainCall
      <4>1. \A l \in Lanes : Elements(pending[l]) \subseteq Tasks
        BY DEF IInv, PendingSound, QueuesMatch, Queued
      <4>2. UNION {Elements(pending[l]) : l \in Lanes} \subseteq Tasks
        BY <4>1
      <4>3. zombies \cup ({active} \ {None}) \subseteq Tasks
        BY DEF IInv, TypeOK
      <4> QED
        BY <3>2, <4>2, <4>3 DEF DrainCall, Running
    <3> QED
      BY <1>8, <3>1, <3>2
  <2>3. TypeOK'
    BY <2>1, <2>2 DEF IInv, TypeOK
  <2>4. PendingSound' /\ ExclusiveRun' /\ WatchdogCovers' /\ TimersActOnActive' /\ NoIdleQueue'
            /\ PromiseTracksRun'
    BY <2>1 DEF IInv, PendingSound, QueuesMatch, Queued, ExclusiveRun, Running, WatchdogCovers,
       TimersActOnActive, NoIdleQueue, NothingPending, PromiseTracksRun
  <2> QED
    BY <2>3, <2>4 DEF IInv
<1>9. ASSUME UNCHANGED vars PROVE IInv'
  BY <1>9 DEF vars, IInv, TypeOK, PendingSound, QueuesMatch, Queued, ExclusiveRun, Running, WatchdogCovers,
     TimersActOnActive, NoIdleQueue, NothingPending, PromiseTracksRun
<1> QED
  BY <1>1, <1>2, <1>3, <1>4, <1>5, <1>6, <1>7, <1>8, <1>9 DEF Next

LEMMA Invariance == Spec => []IInv
<1>1. Init => IInv
  BY InitEstablishes
<1>2. IInv /\ [Next]_vars => IInv'
  BY NextPreserves
<1> QED
  BY <1>1, <1>2, PTL DEF Spec

\* With any number of tasks, timers have the run they were armed for to act on, and
\* the promises handed out follow the queue, across ends, escapes and late ends.
THEOREM QueueStaysConsistent == Spec => []QueueConsistent
<1>1. IInv => QueueConsistent
  BY DEF IInv, QueueConsistent
<1> QED
  BY <1>1, Invariance, PTL

\* onTaskSettled's generation check suffices: no two runs of an agent overlap
\* unless the watchdog abandoned all but the last of them.
THEOREM ExclusiveExecution == Spec => []ExclusiveRun
<1>1. IInv => ExclusiveRun
  BY DEF IInv
<1> QED
  BY <1>1, Invariance, PTL

\* No wake-up is lost: what is pending has a pump on its way, or, a user turn behind
\* a run, the watchdog or its grace timer.
THEOREM QueueStaysAttended == Spec => []QueueAttended
<1>1. IInv => QueueAttended
  BY DEF IInv, QueueAttended
<1> QED
  BY <1>1, Invariance, PTL

\* The bodies that ran at the call of drain() are in its snapshot.
LEMMA DrainInvariance == Spec => [](drain.ran \subseteq drain.runs)
<1> DEFINE Covered == drain.ran \subseteq drain.runs
<1>1. Init => Covered
  BY DEF Init, IdleDrain
<1>2. IInv /\ Covered /\ [Next]_vars => Covered'
  <2> SUFFICES ASSUME IInv, Covered, [Next]_vars PROVE Covered'
    OBVIOUS
  <2>1. CASE DrainCall
    BY <2>1 DEF DrainCall, IInv, ExclusiveRun
  <2>2. CASE DrainReturn
    BY <2>2 DEF DrainReturn, IdleDrain
  <2>3. CASE drain' = drain
    BY <2>3
  <2> QED
    BY <2>1, <2>2, <2>3 DEF Next, Enqueue, TaskSettles, SettlesPromise, Pump, WatchdogRearm,
       WatchdogDefer, WatchdogTrip, Escape, Tick, Dispose, vars
<1> QED
  BY <1>1, <1>2, Invariance, PTL DEF Spec

\* drain() returns only after every body that ran at its call has ended.
THEOREM DrainWaits == Spec => DrainSeesRunsEnd
<1>1. IInv /\ drain.ran \subseteq drain.runs /\ [Next]_vars =>
        [(drain.waiting /\ ~drain'.waiting) =>
            /\ drain.ran \cap Running = {}
            /\ drain.promises \cap Running \subseteq zombies]_vars
  <2> SUFFICES ASSUME IInv, drain.ran \subseteq drain.runs, Next, drain.waiting, ~drain'.waiting
               PROVE  /\ drain.ran \cap Running = {}
                      /\ drain.promises \cap Running \subseteq zombies
    OBVIOUS
  <2>1. drain' # drain
    OBVIOUS
  <2>2. DrainCall \/ DrainReturn
    BY <2>1 DEF Next, Enqueue, TaskSettles, SettlesPromise, Pump, WatchdogRearm, WatchdogDefer,
       WatchdogTrip, Escape, Tick, Dispose
  <2>3. DrainReturn
    BY <2>2 DEF DrainCall
  <2>4. drain.ran \cap Running = {}
    BY <2>3 DEF DrainReturn, Running
  <2>5. active \in Tasks => promise[active] = "open"
    BY DEF IInv, PromiseTracksRun
  <2>6. active \notin drain.promises
    BY <2>3, <2>5 DEF DrainReturn, IInv, TypeOK
  <2>7. Running = zombies \cup ({active} \ {None})
    BY DEF IInv, ExclusiveRun
  <2> QED
    BY <2>4, <2>6, <2>7
<1> QED
  BY <1>1, Invariance, DrainInvariance, PTL DEF Spec, DrainSeesRunsEnd

-------------------------------------------------------------------------------
(* No run is abandoned early *)

\* How long the first waiting user turn has waited behind the active run.
Wait == Waited(pending["user"], active, age)

\* While the grace timer runs, what it has left and what was waited make up both periods.
Enough(waited, left) == \/ waited >= EscapeWait
                        \/ waited >= WatchdogMs /\ waited + left >= WatchdogMs + GraceMs
GraceAfterFullWait == grace # Off => Enough(Wait, grace)

LEMMA GraceInvariance == Spec => []GraceAfterFullWait
<1> USE TasksAssumption, TimesAssumption, EscapeWaitLength
<1>1. Init => GraceAfterFullWait
  BY DEF Init, GraceAfterFullWait
<1>2. IInv /\ GraceAfterFullWait /\ [Next]_vars => GraceAfterFullWait'
  <2> SUFFICES ASSUME IInv, GraceAfterFullWait, [Next]_vars, grace' # Off
               PROVE  Enough(Wait', grace')
    BY DEF GraceAfterFullWait, Enough
  <2> DEFINE users == pending["user"]
  <2>1. TypeOK /\ users \in Seq(Tasks) /\ (active # None => active \in Tasks)
    BY DEF IInv, TypeOK, Lanes
  \* Enqueue adds behind the head of the list.
  <2>2. ASSUME NEW t \in Tasks, Enqueue(t)
        PROVE  Enough(Wait', grace')
    <3>1. grace # Off /\ grace' = grace /\ active' = active /\ age' = age
      BY <2>2 DEF Enqueue
    <3>2. Enough(Wait, grace) /\ users # <<>>
      BY <3>1 DEF GraceAfterFullWait, IInv, TimersActOnActive
    <3>3. users' = users \/ users' = Append(users, t)
      BY <2>1, <2>2 DEF Enqueue, TypeOK, Lanes
    <3>4. Head(users') = Head(users)
      BY <2>1, <3>2, <3>3
    <3>5. Wait' = Wait
      BY <3>1, <3>4 DEF Wait, Waited
    <3> QED
      BY <3>1, <3>2, <3>5
  \* A pump that starts a run, the end of the run and dispose leave no grace timer.
  <2>3. ~Escape /\ ~Dispose
    BY DEF PumpIdle, Disarmed, Escape, Dispose
  <2>4. CASE Pump \/ \E t \in Tasks, o \in {"resolved", "rejected"} : TaskSettles(t, o)
    <3>1. UNCHANGED <<pending, active, age, watchdog, grace, graceFor>>
      BY <2>4 DEF Pump, TaskSettles, SettlesPromise, PumpIdle, Disarmed, timers
    <3> QED
      BY <3>1 DEF GraceAfterFullWait, Wait
  <2>5. CASE WatchdogTrip
    <3>1. Wait >= WatchdogMs /\ Wait' = Wait /\ grace' = GraceMs
      BY <2>5 DEF WatchdogTrip, FullWait, Wait
    <3>2. Wait \in Nat
      <4>1. users # <<>> /\ active \in Tasks
        BY <2>1, <2>5 DEF WatchdogTrip, WatchdogDue
      <4>2. Head(users) \in Tasks
        BY <2>1, <4>1
      <4> QED
        BY <2>1, <4>1, <4>2 DEF Wait, Waited, Lesser, TypeOK, EscapeWait
    <3> QED
      BY <3>1, <3>2 DEF Enough
  <2>6. CASE WatchdogRearm \/ WatchdogDefer \/ DrainCall \/ DrainReturn \/ UNCHANGED vars
    BY <2>6 DEF WatchdogRearm, WatchdogDefer, DrainCall, DrainReturn, timers, vars,
       GraceAfterFullWait, Wait
  \* Each tick that the grace timer loses is waited, up to EscapeWait.
  <2>7. CASE Tick
    <3>1. /\ grace # Off /\ UNCHANGED <<pending, active>>
          /\ age' = [t \in Tasks |-> IF Aging(t) THEN Lesser(age[t] + 1, EscapeWait) ELSE age[t]]
          /\ grace' = IF grace > 0 THEN grace - 1 ELSE grace
      BY <2>1, <2>7 DEF Tick, TypeOK, Off
    <3>2. Enough(Wait, grace) /\ users # <<>> /\ active \in Tasks
      BY <2>1, <3>1 DEF GraceAfterFullWait, IInv, TimersActOnActive
    <3>3. Head(users) \in Tasks /\ Aging(Head(users)) /\ Aging(active)
      <4>1. Head(users) \in Elements(users) /\ Head(users) \in Tasks
        BY <2>1, <3>2 DEF Elements
      <4> QED
        BY <2>1, <3>2, <4>1 DEF Aging, IInv, PendingSound, QueuesMatch, Queued, Lanes
    <3>4. /\ age[Head(users)] \in 0..EscapeWait /\ age'[Head(users)] = Lesser(age[Head(users)] + 1, EscapeWait)
          /\ age[active] \in 0..EscapeWait /\ age'[active] = Lesser(age[active] + 1, EscapeWait)
          /\ EscapeWait \in Nat /\ grace \in Nat
      BY <2>1, <3>1, <3>2, <3>3 DEF TypeOK, EscapeWait
    <3>5. Wait \in Nat /\ (Wait' = Wait + 1 \/ Wait' >= EscapeWait)
      <4> HIDE DEF EscapeWait
      <4> QED
        BY <3>1, <3>4 DEF Wait, Waited, Lesser
    <3> QED
      BY <3>1, <3>2, <3>4, <3>5 DEF Enough, EscapeWait
  <2> QED
    BY <2>2, <2>3, <2>4, <2>5, <2>6, <2>7 DEF Next
<1> QED
  BY <1>1, <1>2, Invariance, PTL DEF Spec

\* A run is abandoned only after a user turn has waited behind it for the watchdog and
\* through the grace period, but for what the timer of the latter may be early.
THEOREM NoEarlyEscape == Spec => EscapeAfterFullWait
<1>1. IInv /\ GraceAfterFullWait /\ [Next]_vars =>
        [\A t \in zombies' \ zombies :
           /\ t = active /\ pending["user"] # <<>>
           /\ Waited(pending["user"], active, age) >= EscapeWait]_vars
  <2> SUFFICES ASSUME IInv, GraceAfterFullWait, Next, NEW t \in zombies' \ zombies
               PROVE  /\ t = active /\ pending["user"] # <<>>
                      /\ Waited(pending["user"], active, age) >= EscapeWait
    OBVIOUS
  <2>1. Escape
    BY DEF Next, Enqueue, TaskSettles, SettlesPromise, Pump, WatchdogRearm, WatchdogDefer,
       WatchdogTrip, Escape, Tick, Dispose, DrainCall, DrainReturn
  <2>2. t = active /\ pending["user"] # <<>> /\ grace # Off /\ grace <= TimerSlack
    BY <2>1 DEF Escape, IInv, TimersActOnActive
  <2>3. Enough(Wait, grace) /\ grace \in Nat /\ Wait \in Nat
    <3>1. pending["user"] \in Seq(Tasks) /\ active \in Tasks /\ age \in [Tasks -> 0..EscapeWait]
          /\ grace \in Nat
      BY <2>2, TimesAssumption DEF IInv, TypeOK, Lanes, TimersActOnActive
    <3>2. Head(pending["user"]) \in Tasks
      BY <2>2, <3>1
    <3> QED
      BY <2>2, <3>1, <3>2 DEF GraceAfterFullWait, Wait, Waited, Lesser
  <2>4. Wait >= EscapeWait
    BY <2>2, <2>3, TimesAssumption DEF Enough, EscapeWait
  <2> QED
    BY <2>2, <2>4 DEF Wait
<1> QED
  BY <1>1, Invariance, GraceInvariance, PTL DEF Spec, EscapeAfterFullWait

-------------------------------------------------------------------------------
(* Refinement *)

\* Seen by the executor, a pump begins the task it takes, or none.
LEMMA PumpIdleBegins ==
    ASSUME TypeOK, PendingSound,
           NEW b \in [Tasks -> BodyStates], NEW ages \in [Tasks -> 0..EscapeWait],
           \A t \in Tasks : b[t] = "queued" <=> body[t] = "queued",
           PumpIdle(b, ages)
    PROVE  active' \in Tasks \cup {None} /\ Executor!Begins(b, active')
<1>1. \/ active' = None /\ body' = b
      \/ active' \in Tasks /\ b[active'] = "queued" /\ body' = [b EXCEPT ![active'] = "running"]
  BY PumpIdleEffect
<1> QED
  BY <1>1 DEF Executor!Begins

\* The scheduler implements the exclusive executor: one run at a time, each task
\* once, and a promise settled by the end or the abandonment of its own run.
THEOREM SchedulerImplementsExecutor == Spec => ImplementsExecutor
<1> USE TasksAssumption, TimesAssumption, EscapeWaitLength
<1>1. Init => Executor!Init
  BY DEF Init, Executor!Init
<1>2. IInv /\ [Next]_vars => [Executor!Next]_(Executor!vars)
  <2> SUFFICES ASSUME IInv, [Next]_vars PROVE [Executor!Next]_(Executor!vars)
    OBVIOUS
  <2>1. TypeOK /\ PendingSound
    BY DEF IInv
  <2>2. \A t \in Tasks : Executor!Holds(t) <=> t = active
    BY DEF IInv, TypeOK, ExclusiveRun, Running, Executor!Holds
  <2>3. ASSUME NEW t \in Tasks, Enqueue(t) PROVE Executor!Next
    BY <2>3 DEF Enqueue, Executor!Next, Executor!Submit
  <2>4. ASSUME NEW t \in Tasks, NEW outcome \in {"resolved", "rejected"}, TaskSettles(t, outcome)
        PROVE  Executor!Next
    <3> DEFINE b == [body EXCEPT ![t] = "settled"]
               ages == [age EXCEPT ![t] = 0]
    <3>1. /\ body[t] = "running" /\ zombies' = zombies \ {t}
          /\ promise' = [promise EXCEPT ![t] = IF promise[t] = "open" THEN outcome ELSE promise[t]]
      BY <2>4 DEF TaskSettles, SettlesPromise
    <3>2. /\ b \in [Tasks -> BodyStates] /\ ages \in [Tasks -> 0..EscapeWait]
          /\ \A u \in Tasks : b[u] = "queued" <=> body[u] = "queued"
      BY <2>1, <3>1 DEF TypeOK, BodyStates
    <3>3. CASE active = t
      <4>1. active' \in Tasks \cup {None} /\ Executor!Begins(b, active')
        <5>1. PumpIdle(b, ages)
          BY <2>4, <3>3 DEF TaskSettles
        <5> HIDE DEF b, ages
        <5> QED
          BY <2>1, <3>2, <5>1, PumpIdleBegins
      <4>2. promise' = [promise EXCEPT ![t] = outcome] /\ zombies' = zombies
        BY <2>1, <3>1, <3>3 DEF IInv, PromiseTracksRun, ExclusiveRun, Running
      <4>3. Executor!Finish(t, outcome, active')
        BY <2>2, <3>3, <4>1, <4>2 DEF Executor!Finish
      <4> QED
        BY <4>1, <4>3 DEF Executor!Next, Executor!Outcomes
    <3>4. CASE active # t
      <4>1. t \in zombies
        BY <3>1, <3>4 DEF IInv, ExclusiveRun, Running
      <4>2. promise[t] # "open"
        BY <3>1, <3>4 DEF IInv, PromiseTracksRun
      <4>3. promise' = promise
        BY <2>1, <3>1, <4>2 DEF TypeOK
      <4>4. body' = b
        BY <2>4, <3>4 DEF TaskSettles
      <4>5. Executor!FinishLate(t)
        BY <3>1, <4>1, <4>3, <4>4 DEF Executor!FinishLate
      <4> QED
        BY <4>5 DEF Executor!Next
    <3> QED
      BY <3>3, <3>4
  <2>5. CASE Pump
    <3>1. promise' = promise /\ zombies' = zombies
      BY <2>5 DEF Pump
    <3>2. CASE disposed \/ active # None
      BY <2>5, <3>1, <3>2 DEF Pump, Executor!vars
    <3>3. CASE ~disposed /\ active = None
      <4>1. active' \in Tasks \cup {None} /\ Executor!Begins(body, active')
        BY <2>1, <2>5, <3>3, PumpIdleBegins DEF Pump, TypeOK
      <4>2. \A t \in Tasks : ~Executor!Holds(t)
        BY <2>2, <3>3
      <4>3. CASE active' = None
        BY <3>1, <4>1, <4>3 DEF Executor!Begins, Executor!vars
      <4>4. CASE active' # None
        <5>1. Executor!Start(active') /\ active' \in Tasks
          BY <3>1, <4>1, <4>2, <4>4 DEF Executor!Start
        <5> QED
          BY <5>1 DEF Executor!Next
      <4> QED
        BY <4>3, <4>4
    <3> QED
      BY <3>2, <3>3
  <2>6. CASE Escape
    <3> DEFINE ages == [age EXCEPT ![active] = 0]
    <3>1. active \in Tasks
      BY <2>6 DEF Escape, IInv, TypeOK, TimersActOnActive
    <3>2. ages \in [Tasks -> 0..EscapeWait] /\ PumpIdle(body, ages)
      BY <2>1, <2>6, <3>1 DEF Escape, TypeOK
    <3> HIDE DEF ages
    <3>3. active' \in Tasks \cup {None} /\ Executor!Begins(body, active')
      BY <2>1, <3>2, PumpIdleBegins DEF TypeOK
    <3>4. promise' = [promise EXCEPT ![active] = "resolved"] /\ zombies' = zombies \cup {active}
      BY <2>6, <3>1 DEF Escape, IInv, PromiseTracksRun
    <3>5. Executor!Abandon(active, active')
      BY <2>2, <3>1, <3>3, <3>4 DEF Executor!Abandon
    <3> QED
      BY <3>1, <3>3, <3>5 DEF Executor!Next
  <2>7. CASE WatchdogRearm \/ WatchdogDefer \/ WatchdogTrip \/ Tick \/ Dispose \/ DrainCall
               \/ DrainReturn \/ UNCHANGED vars
    BY <2>7 DEF WatchdogRearm, WatchdogDefer, WatchdogTrip, Tick, Dispose, DrainCall, DrainReturn,
       vars, Executor!vars
  <2> QED
    BY <2>3, <2>4, <2>5, <2>6, <2>7 DEF Next
<1> QED
  BY <1>1, <1>2, Invariance, PTL DEF Spec, ImplementsExecutor, Executor!Spec
===============================================================================
