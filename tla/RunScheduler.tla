----------------------------- MODULE RunScheduler -----------------------------
(***************************************************************************)
(* The exclusive run scheduler of one agent: class SandRunScheduler in     *)
(* source/host/extensions/transcript/run-scheduler.ts.                     *)
(*                                                                         *)
(* The scheduler keeps three pending lists, starts one run at a time, and  *)
(* guards turns of the user with a watchdog: when a user turn has waited   *)
(* WatchdogMs behind the active run, that run is interrupted, and when it  *)
(* has still not ended after GraceMs it is abandoned (it becomes a zombie) *)
(* and the queue moves on.  The queues of different agents share nothing   *)
(* but the disposed flag, so the module models one queue.                  *)
(*                                                                         *)
(* The code runs on one thread.  An action is one uninterrupted stretch of *)
(* it: a call of enqueue, drain or dispose, the microtask that pumps, the  *)
(* continuation of a task's promise, or a timer callback.  Microtasks run  *)
(* before any timer, which is why timers and time wait for pumpsDue = 0.   *)
(* Time is counted in ticks; a run is identified by its task, each task    *)
(* being started once, in place of generationCounter.                      *)
(***************************************************************************)
EXTENDS Integers, Sequences, Lists

CONSTANTS Tasks,        \* the tasks of one agent's queue
          LaneOf,       \* the lane each task is enqueued in
          GroupMember,  \* user-lane tasks whose source is "group-member"
          WatchdogMs,   \* options.watchdogMs, in ticks
          GraceMs,      \* options.watchdogGraceMs, in ticks
          TimerSlack,   \* how early, by clock.now(), a timer may fire
          None          \* no task

Lanes == {"user", "agent", "background"}
BodyStates == {"new", "queued", "running", "settled"}
PromiseStates == {"none", "open", "resolved", "rejected"}

ASSUME TasksAssumption == /\ LaneOf \in [Tasks -> Lanes]
                          /\ GroupMember \subseteq Tasks
                          /\ None \notin Tasks
ASSUME TimesAssumption == /\ WatchdogMs \in Nat \ {0}
                          /\ GraceMs \in Nat \ {0}
                          /\ TimerSlack \in Nat

VARIABLES pending,   \* pendingUser, pendingAgent, pendingBackground, by lane
          active,    \* the task of queue.active, or None
          phase,     \* queue.active.phase
          body,      \* the state of each task's body
          promise,   \* the state of the promise enqueue returned for it
          zombies,   \* abandoned runs whose body has not settled
          pumpsDue,  \* microtasks queued by enqueue that will call pump
          watchdog,  \* ticks left on queue.watchdogTimer, or Off
          grace,     \* ticks left on queue.graceTimer, or Off
          graceFor,  \* the run the grace callback has captured, or None
          age,       \* ticks since a queued task was enqueued, or since the
                     \* active one started; saturates at EscapeWait
          disposed,  \* this.disposed
          drain      \* one caller of drain(), the snapshot it awaits, and,
                     \* as history, the bodies that ran when it called

vars == <<pending, active, phase, body, promise, zombies, pumpsDue, watchdog,
          grace, graceFor, age, disposed, drain>>

Off == -1
timers == <<watchdog, grace, graceFor>>
IdleDrain == [waiting |-> FALSE, runs |-> {}, promises |-> {}, ran |-> {}]

\* The wait of a user turn after which the run ahead of it is abandoned: the watchdog
\* and the grace period, less what the timer of the latter may be early.
EscapeWait == WatchdogMs + (IF GraceMs > TimerSlack THEN GraceMs - TimerSlack ELSE 0)

Lesser(a, b) == IF a < b THEN a ELSE b

Init == /\ pending = [l \in Lanes |-> <<>>]
        /\ active = None /\ phase = "running"
        /\ body = [t \in Tasks |-> "new"]
        /\ promise = [t \in Tasks |-> "none"]
        /\ zombies = {} /\ pumpsDue = 0
        /\ watchdog = Off /\ grace = Off /\ graceFor = None
        /\ age = [t \in Tasks |-> 0]
        /\ disposed = FALSE
        /\ drain = IdleDrain

-------------------------------------------------------------------------------
(* The watchdog *)

\* waitedBehindActiveMs: how long the first waiting user task has waited
\* behind run a.  now - max(enqueuedAt, startedAt) is the lesser of two ages.
Waited(users, a, ages) == Lesser(ages[Head(users)], ages[a])

\* armWatchdog: the timer it leaves, given the queue the rest of the step left.
Armed(timer, users, a, ages) ==
    IF disposed \/ timer # Off \/ users = <<>> \/ a = None
    THEN timer
    ELSE WatchdogMs - Lesser(Waited(users, a, ages), WatchdogMs)

Disarmed == watchdog' = Off /\ grace' = Off /\ graceFor' = None

-------------------------------------------------------------------------------
(* pump *)

\* takeNextUserTask, then the agent lane, then the background lane: entry i of
\* lane l is the one pump takes.
IsNext(l, i) ==
    /\ i \in DOMAIN pending[l]
    /\ \/ /\ l = "user"
          /\ \/ pending[l][i] \notin GroupMember /\ \A j \in 1..(i - 1) : pending[l][j] \in GroupMember
             \/ i = 1 /\ Elements(pending[l]) \subseteq GroupMember
       \/ l = "agent" /\ i = 1 /\ pending["user"] = <<>>
       \/ l = "background" /\ i = 1 /\ pending["user"] = <<>> /\ pending["agent"] = <<>>

NothingPending == \A l \in Lanes : pending[l] = <<>>

\* pump() on a queue without active run; b and ages are what the rest of the
\* step left of body and age.
PumpIdle(b, ages) ==
    \/ /\ disposed \/ NothingPending
       /\ active' = None /\ phase' = "running" /\ body' = b /\ age' = ages
       /\ Disarmed
       /\ UNCHANGED pending
    \/ /\ ~disposed
       /\ \E l \in Lanes : \E i \in DOMAIN pending[l] :
             /\ IsNext(l, i)
             /\ active' = pending[l][i] /\ phase' = "running"
             /\ pending' = [pending EXCEPT ![l] = RemoveIndex(pending[l], i)]
             /\ body' = [b EXCEPT ![pending[l][i]] = "running"]
             /\ age' = [ages EXCEPT ![pending[l][i]] = 0]
             /\ watchdog' = Armed(Off, pending'["user"], active', age')
             /\ grace' = Off /\ graceFor' = None

\* The microtask enqueue queued.
Pump ==
    /\ pumpsDue > 0
    /\ pumpsDue' = pumpsDue - 1
    /\ IF disposed \/ active # None
       THEN UNCHANGED <<pending, active, phase, body, age, timers>>
       ELSE PumpIdle(body, age)
    /\ UNCHANGED <<promise, zombies, disposed, drain>>

-------------------------------------------------------------------------------
(* Calls and callbacks *)

\* Fault: armWatchdog forgets to look at graceTimer.
EnqueueIgnoringGrace(t) ==
    /\ body[t] = "new"
    /\ body' = [body EXCEPT ![t] = "queued"]
    /\ promise' = [promise EXCEPT ![t] = "open"]
    /\ pending' = [pending EXCEPT ![LaneOf[t]] = Append(@, t)]
    /\ watchdog' = Armed(watchdog, pending'["user"], active, age)
    /\ pumpsDue' = pumpsDue + 1
    /\ UNCHANGED <<active, phase, zombies, grace, graceFor, age, disposed, drain>>

\* enqueue(agentId, task, options)
Enqueue(t) ==
    /\ body[t] = "new"
    /\ body' = [body EXCEPT ![t] = "queued"]
    /\ promise' = [promise EXCEPT ![t] = "open"]
    /\ pending' = [pending EXCEPT ![LaneOf[t]] = Append(@, t)]
    /\ watchdog' = IF grace = Off THEN Armed(watchdog, pending'["user"], active, age)
                                  ELSE watchdog
    /\ pumpsDue' = pumpsDue + 1
    /\ UNCHANGED <<active, phase, zombies, grace, graceFor, age, disposed, drain>>

\* What onTaskSettled does to the promise and the set of zombies.
SettlesPromise(t, outcome) ==
    /\ body[t] = "running"
    /\ promise' = [promise EXCEPT ![t] = IF @ = "open" THEN outcome ELSE @]
    /\ zombies' = zombies \ {t}
    /\ UNCHANGED <<pumpsDue, disposed, drain>>

\* Fault: the settled run is not compared with the active one.
TaskSettlesAnyGeneration(t, outcome) ==
    SettlesPromise(t, outcome) /\ PumpIdle([body EXCEPT ![t] = "settled"], [age EXCEPT ![t] = 0])

\* Fault: the end of a run does not pump.
TaskSettlesWithoutPump(t, outcome) ==
    /\ SettlesPromise(t, outcome)
    /\ body' = [body EXCEPT ![t] = "settled"]
    /\ age' = [age EXCEPT ![t] = 0]
    /\ active' = IF active = t THEN None ELSE active
    /\ IF active = t THEN Disarmed ELSE UNCHANGED timers
    /\ phase' = IF active = t THEN "running" ELSE phase
    /\ UNCHANGED pending

\* The body of t settles and onTaskSettled runs.  Settling a promise that an
\* escape has resolved already does nothing.
TaskSettles(t, outcome) ==
    /\ SettlesPromise(t, outcome)
    /\ LET settled == [body EXCEPT ![t] = "settled"]
       IN  IF active = t
           THEN PumpIdle(settled, [age EXCEPT ![t] = 0])
           ELSE /\ body' = settled
                /\ UNCHANGED <<pending, active, phase, age, timers>>

TimersMayRun == pumpsDue = 0 /\ ~disposed

\* onWatchdogFired with a user task still waiting behind the active run.
WatchdogDue == /\ TimersMayRun
               /\ watchdog # Off /\ watchdog <= TimerSlack
               /\ active # None /\ pending["user"] # <<>>

FullWait == Waited(pending["user"], active, age) >= WatchdogMs

WatchdogRearm == /\ WatchdogDue /\ ~FullWait
                 /\ watchdog' = Armed(Off, pending["user"], active, age)
                 /\ UNCHANGED <<pending, active, phase, body, promise, zombies,
                                pumpsDue, grace, graceFor, age, disposed, drain>>

\* Fault: the deferred watchdog is not armed again.
WatchdogDeferForGood == /\ WatchdogDue /\ FullWait
                        /\ watchdog' = Off
                        /\ UNCHANGED <<pending, active, phase, body, promise, zombies,
                                       pumpsDue, grace, graceFor, age, disposed, drain>>

\* Fault: the fresh window is added to the grace period.
WatchdogDeferTooLong == /\ WatchdogDue /\ FullWait
                        /\ watchdog' = WatchdogMs + GraceMs
                        /\ UNCHANGED <<pending, active, phase, body, promise, zombies,
                                       pumpsDue, grace, graceFor, age, disposed, drain>>

\* isAwaitingUserSelection() holds: a fresh window in place of an interrupt.
WatchdogDefer == /\ WatchdogDue /\ FullWait
                 /\ watchdog' = WatchdogMs
                 /\ UNCHANGED <<pending, active, phase, body, promise, zombies,
                                pumpsDue, grace, graceFor, age, disposed, drain>>

\* Fault: the trip does not recheck how long the user turn has waited.
WatchdogTripUnchecked == /\ WatchdogDue
                         /\ phase' = "interrupted"
                         /\ watchdog' = Off
                         /\ grace' = GraceMs /\ graceFor' = active
                         /\ UNCHANGED <<pending, active, body, promise, zombies,
                                        pumpsDue, age, disposed, drain>>

\* The run is interrupted and given GraceMs to end.
WatchdogTrip == /\ WatchdogDue /\ FullWait
                /\ phase' = "interrupted"
                /\ watchdog' = Off
                /\ grace' = GraceMs /\ graceFor' = active
                /\ UNCHANGED <<pending, active, body, promise, zombies,
                               pumpsDue, age, disposed, drain>>

\* Fault: the caller of the abandoned run is not answered.
EscapeWithoutResolve ==
    /\ TimersMayRun
    /\ grace # Off /\ grace <= TimerSlack
    /\ active = graceFor
    /\ zombies' = zombies \cup {active}
    /\ PumpIdle(body, [age EXCEPT ![active] = 0])
    /\ UNCHANGED <<promise, pumpsDue, disposed, drain>>

\* escapeWedgedRun, for the run the grace callback has captured.
Escape ==
    /\ TimersMayRun
    /\ grace # Off /\ grace <= TimerSlack
    /\ active = graceFor
    /\ promise' = [promise EXCEPT ![active] = IF @ = "open" THEN "resolved" ELSE @]
    /\ zombies' = zombies \cup {active}
    /\ PumpIdle(body, [age EXCEPT ![active] = 0])
    /\ UNCHANGED <<pumpsDue, disposed, drain>>

Aging(t) == t = active \/ (body[t] = "queued" /\ LaneOf[t] = "user")

Tick == /\ TimersMayRun
        /\ watchdog' = IF watchdog > 0 THEN watchdog - 1 ELSE watchdog
        /\ grace' = IF grace > 0 THEN grace - 1 ELSE grace
        /\ age' = [t \in Tasks |-> IF Aging(t) THEN Lesser(age[t] + 1, EscapeWait) ELSE age[t]]
        /\ UNCHANGED <<pending, active, phase, body, promise, zombies, pumpsDue,
                       graceFor, disposed, drain>>

Dispose == /\ ~disposed
           /\ disposed' = TRUE
           /\ Disarmed
           /\ UNCHANGED <<pending, active, phase, body, promise, zombies,
                          pumpsDue, age, drain>>

Running == {t \in Tasks : body[t] = "running"}

\* Fault: drain awaits the active run's promise in place of its body.
DrainCallOfPromises == /\ ~drain.waiting
                       /\ drain' = [waiting |-> TRUE,
                                    runs |-> zombies,
                                    promises |-> UNION {Elements(pending[l]) : l \in Lanes}
                                                    \cup ({active} \ {None}),
                                    ran |-> Running]
                       /\ UNCHANGED <<pending, active, phase, body, promise, zombies,
                                      pumpsDue, age, timers, disposed>>

\* drain(agentId): the snapshot of running bodies and of pending promises.
DrainCall == /\ ~drain.waiting
             /\ drain' = [waiting |-> TRUE,
                          runs |-> zombies \cup ({active} \ {None}),
                          promises |-> UNION {Elements(pending[l]) : l \in Lanes},
                          ran |-> Running]
             /\ UNCHANGED <<pending, active, phase, body, promise, zombies,
                            pumpsDue, age, timers, disposed>>

\* await Promise.allSettled(snapshot)
DrainReturn == /\ drain.waiting
               /\ \A t \in drain.runs : body[t] = "settled"
               /\ \A t \in drain.promises : promise[t] # "open"
               /\ drain' = IdleDrain
               /\ UNCHANGED <<pending, active, phase, body, promise, zombies,
                              pumpsDue, age, timers, disposed>>

Next == \/ \E t \in Tasks : Enqueue(t)
        \/ \E t \in Tasks, outcome \in {"resolved", "rejected"} : TaskSettles(t, outcome)
        \/ Pump
        \/ WatchdogRearm \/ WatchdogDefer \/ WatchdogTrip \/ Escape
        \/ Tick
        \/ Dispose
        \/ DrainCall \/ DrainReturn

Spec == Init /\ [][Next]_vars

-------------------------------------------------------------------------------
(* Safety *)

TypeOK == /\ pending \in [Lanes -> Seq(Tasks)]
          /\ active \in Tasks \cup {None}
          /\ phase \in {"running", "interrupted"}
          /\ body \in [Tasks -> BodyStates]
          /\ promise \in [Tasks -> PromiseStates]
          /\ zombies \subseteq Tasks
          /\ pumpsDue \in Nat
          /\ watchdog \in (0..WatchdogMs) \cup {Off}
          /\ grace \in (0..GraceMs) \cup {Off}
          /\ graceFor \in Tasks \cup {None}
          /\ age \in [Tasks -> 0..EscapeWait]
          /\ disposed \in BOOLEAN
          /\ drain \in [waiting : BOOLEAN, runs : SUBSET Tasks, promises : SUBSET Tasks,
                        ran : SUBSET Tasks]

\* Exclusive execution: the bodies that run are the active one and those the
\* watchdog gave up on; the late end of such a body frees nothing.
ExclusiveRun == /\ Running = zombies \cup ({active} \ {None})
                /\ active \notin zombies

\* A user turn that waits behind a run is never left without a timer, whatever
\* was enqueued, settled, deferred or escaped before.
WatchdogCovers == (~disposed /\ active # None /\ pending["user"] # <<>>)
                     => (watchdog # Off \/ grace # Off)

\* A timer that is armed is the only one, still has a user turn and an active
\* run to act on, and the grace timer captured that run, not an earlier one; an
\* interrupted run always has its grace timer running.
TimersActOnActive ==
    /\ watchdog # Off => active # None /\ pending["user"] # <<>> /\ phase = "running"
    /\ grace # Off => /\ watchdog = Off /\ graceFor = active
                      /\ active # None /\ pending["user"] # <<>> /\ phase = "interrupted"
    /\ (phase = "interrupted" /\ ~disposed) => grace # Off

\* No lost wake-up: with work pending and nothing running, a pump is coming.
NoIdleQueue == (~disposed /\ active = None /\ ~NothingPending) => pumpsDue > 0

\* The promise enqueue returned is open exactly while its task is pending or
\* active: every other way out of the queue has settled it.
PromiseTracksRun ==
    \A t \in Tasks : promise[t] = "open" <=> (body[t] = "queued" \/ active = t)

\* The fields of the queue agree with one another and with the promises and
\* timers handed out.
QueueConsistent == TypeOK /\ TimersActOnActive /\ PromiseTracksRun

\* Whatever waits will be looked at: by a pump, or behind a run by a timer.
QueueAttended == NoIdleQueue /\ WatchdogCovers

\* No run is abandoned before a user turn has waited behind it for a full window of
\* the watchdog and the whole grace period, but for what the timer of the latter may
\* be early, however many other runs came and went while that turn was in the queue.
EscapeAfterFullWait ==
    [][\A t \in zombies' \ zombies :
          /\ t = active /\ pending["user"] # <<>>
          /\ Waited(pending["user"], active, age) >= EscapeWait]_vars

\* Every body that ran when drain() was called has ended when it returns, also
\* one the watchdog abandoned before or in between; a run that was still
\* pending has ended, or was abandoned since.
DrainSeesRunsEnd ==
    [][(drain.waiting /\ ~drain'.waiting) =>
          /\ drain.ran \cap Running = {}
          /\ drain.promises \cap Running \subseteq zombies]_vars

-------------------------------------------------------------------------------
(* Fairness and liveness *)

\* The event loop runs its microtasks and expired timers, and time passes.
\* Strong fairness of the trip: the active run does not await a selection of
\* the user at every expiry.  Callers and bodies owe nothing.
Scheduling == /\ WF_vars(Pump) /\ WF_vars(Tick)
              /\ WF_vars(WatchdogRearm) /\ SF_vars(WatchdogTrip) /\ WF_vars(Escape)

\* The bodies end and drain is resumed when its snapshot has settled.
BodiesEnd == /\ \A t \in Tasks : WF_vars(TaskSettles(t, "resolved") \/ TaskSettles(t, "rejected"))
             /\ WF_vars(DrainReturn)

FairSpec == Spec /\ Scheduling

\* A user turn starts although the runs ahead of it never end.
UserTurnStarts ==
    \A t \in Tasks : LaneOf[t] = "user" =>
        (body[t] = "queued" ~> (body[t] # "queued" \/ disposed))

\* When bodies end, every caller of enqueue hears back, in every lane.  (A task
\* is enqueued once, and a settled promise stays settled.)
PromiseSettles ==
    BodiesEnd => []<>(disposed \/ \A t \in Tasks : promise[t] # "open")

\* When bodies end, drain() returns.
DrainReturns == BodiesEnd => []<>(disposed \/ ~drain.waiting)

\* When bodies end, whoever waits for the queue hears of it: the callers of
\* enqueue and of drain.
EndsAreHeard == PromiseSettles /\ DrainReturns

-------------------------------------------------------------------------------
(* Refinement *)

Executor == INSTANCE ExclusiveExecutor WITH abandoned <- zombies

\* The scheduler is an exclusive executor.
ImplementsExecutor == Executor!Spec
===============================================================================
