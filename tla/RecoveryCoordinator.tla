-------------------------- MODULE RecoveryCoordinator --------------------------
(***************************************************************************)
(* The gate in front of local work and the recovery that opens it:         *)
(* LocalResumeCoordinator (source/host/local-resume-coordinator.ts) and    *)
(* LocalRecoveryGate (source/host/extensions/turn-execution/               *)
(* local-recovery-gate.ts).                                                *)
(*                                                                         *)
(* A host starts with the gate closed.  Each request closes it, and its    *)
(* attempt suspends the automation wakes, takes up the work a previous     *)
(* host left, and opens the gate; an attempt that fails is repeated.  A    *)
(* newer request supersedes the older ones wherever they are.  Work that   *)
(* calls wait() in between is held, unless the recovery itself started it. *)
(*                                                                         *)
(* An action is one stretch of the code between two awaits.  The lane is a *)
(* chain of promises; only the latest request enqueues on it, so its order *)
(* is that of the requests.  The delays of the retries are left out.       *)
(***************************************************************************)
EXTENDS Integers, FiniteSets

CONSTANTS MaxRequests,  \* bound: calls of request
          Carrying,     \* the requests with a prepare: work carried over
          Works         \* pieces of local work that pass the gate

Requests == 1..MaxRequests
ASSUME RequestsAssumption == MaxRequests \in Nat \ {0} /\ Carrying \subseteq Requests

VARIABLES generation, disposed, \* of the coordinator
          stage,      \* how far the attempt of each request has got
          retry,      \* the retry loop of each request
          prepared,   \* the requests whose prepare has run, or that need none
          suspended,  \* the automation wakes are suspended
          allowed, gateDisposed, \* of the gate
          work,       \* where each piece of work stands with the gate
          lease,      \* the request in whose active recovery scope it runs, or 0
          recovered   \* history: the last request whose recovery succeeded

vars == <<generation, disposed, stage, retry, prepared, suspended,
          allowed, gateDisposed, work, lease, recovered>>
gate == <<allowed, gateDisposed, work, lease>>

Recovering == {"checking", "preparing", "resuming", "rearming"}
Stages == {"none", "queued", "suspending", "releasing"} \cup Recovering

Current(g) == ~disposed /\ g = generation

Init == /\ generation = 0 /\ disposed = FALSE
        /\ stage = [g \in Requests |-> "none"] /\ retry = [g \in Requests |-> "none"]
        /\ prepared = {} /\ suspended = TRUE
        /\ allowed = FALSE /\ gateDisposed = FALSE
        /\ work = [w \in Works |-> "out"] /\ lease = [w \in Works |-> 0]
        /\ recovered = 0

-------------------------------------------------------------------------------
(* The gate *)

\* Fault: the work that waits is not woken.
GateOpensSilently == /\ allowed' = (allowed \/ ~gateDisposed)
                     /\ UNCHANGED work

\* setAllowed(true) wakes all that wait.
GateOpens == IF gateDisposed
             THEN UNCHANGED <<allowed, work>>
             ELSE /\ allowed' = TRUE
                  /\ work' = [w \in Works |-> IF work[w] = "waiting" THEN "woken" ELSE work[w]]

\* wait(), from its start or from its call of itself.
Asks(w) == work' = [work EXCEPT ![w] = IF gateDisposed THEN "refused"
                                       ELSE IF allowed \/ lease[w] # 0 THEN "in" ELSE "waiting"]

Call(w) == /\ work[w] = "out"
           /\ Asks(w)
           /\ UNCHANGED <<generation, disposed, stage, retry, prepared, suspended,
                          allowed, gateDisposed, lease, recovered>>

\* Fault: a waiter that was woken passes without another look.
ContinueUnchecked(w) ==
    /\ work[w] = "woken"
    /\ work' = [work EXCEPT ![w] = IF gateDisposed THEN "refused" ELSE "in"]
    /\ UNCHANGED <<generation, disposed, stage, retry, prepared, suspended,
                   allowed, gateDisposed, lease, recovered>>

\* A waiter that was woken looks again: the gate may have closed since.
Continue(w) == /\ work[w] = "woken"
               /\ Asks(w)
               /\ UNCHANGED <<generation, disposed, stage, retry, prepared, suspended,
                              allowed, gateDisposed, lease, recovered>>

\* The work is done, and other work of the same scope may ask.
Leave(w) == /\ work[w] = "in"
            /\ work' = [work EXCEPT ![w] = "out"]
            /\ UNCHANGED <<generation, disposed, stage, retry, prepared, suspended,
                           allowed, gateDisposed, lease, recovered>>

GateDispose == /\ disposed /\ ~gateDisposed
               /\ gateDisposed' = TRUE /\ allowed' = FALSE
               /\ work' = [w \in Works |-> IF work[w] = "waiting" THEN "refused" ELSE work[w]]
               /\ UNCHANGED <<generation, disposed, stage, retry, prepared, suspended,
                              lease, recovered>>

-------------------------------------------------------------------------------
(* Attempts *)

\* request: older attempts and loops are superseded, the gate closes, and an
\* attempt is enqueued.  A sleeping loop is aborted.
Request ==
    /\ ~disposed /\ generation < MaxRequests
    /\ generation' = generation + 1
    /\ allowed' = FALSE
    /\ stage' = [stage EXCEPT ![generation'] = "queued"]
    /\ retry' = [g \in Requests |-> IF g = generation' THEN "attempting"
                                    ELSE IF retry[g] = "sleeping" THEN "over" ELSE retry[g]]
    /\ prepared' = (IF generation' \in Carrying THEN prepared ELSE prepared \cup {generation'})
    /\ UNCHANGED <<disposed, suspended, gateDisposed, work, lease, recovered>>

\* The attempt of g ends, and its promise settles.
Ends(g, released) ==
    /\ stage' = [stage EXCEPT ![g] = "none"]
    /\ retry' = [retry EXCEPT ![g] = IF released THEN "over" ELSE "failed"]

\* Fault: an attempt does not wait for those enqueued before it.
BeginBeside(g) == /\ stage[g] = "queued"
                  /\ IF Current(g) THEN stage' = [stage EXCEPT ![g] = "suspending"] /\ UNCHANGED retry
                                   ELSE Ends(g, FALSE)
                  /\ UNCHANGED <<generation, disposed, prepared, suspended, gate, recovered>>

\* The attempts enqueued before are over, and this one begins, if it still may.
Begin(g) == /\ stage[g] = "queued"
            /\ \A h \in 1..(g - 1) : stage[h] = "none"
            /\ IF Current(g) THEN stage' = [stage EXCEPT ![g] = "suspending"] /\ UNCHANGED retry
                             ELSE Ends(g, FALSE)
            /\ UNCHANGED <<generation, disposed, prepared, suspended, gate, recovered>>

\* suspendWakes returns, and the recovery scope is entered.
WakesSuspended(g) == /\ stage[g] = "suspending"
                     /\ stage' = [stage EXCEPT ![g] = "checking"]
                     /\ suspended' = TRUE
                     /\ UNCHANGED <<generation, disposed, retry, prepared, gate, recovered>>

\* isReady answers true.
Ready(g) == /\ stage[g] = "checking"
            /\ stage' = [stage EXCEPT ![g] = IF g \in prepared THEN "resuming" ELSE "preparing"]
            /\ UNCHANGED <<generation, disposed, retry, prepared, suspended, gate, recovered>>

Prepared(g) == /\ stage[g] = "preparing"
               /\ stage' = [stage EXCEPT ![g] = "resuming"]
               /\ prepared' = prepared \cup {g}
               /\ UNCHANGED <<generation, disposed, retry, suspended, gate, recovered>>

\* resumeTurns starts a piece of old work within the scope of the recovery.
StartsWork(g, w) == /\ stage[g] = "resuming"
                    /\ work[w] = "out" /\ lease[w] = 0
                    /\ lease' = [lease EXCEPT ![w] = g]
                    /\ UNCHANGED <<generation, disposed, stage, retry, prepared, suspended,
                                   allowed, gateDisposed, work, recovered>>

\* resumeTurns returns, and all the old work is accepted.
Resumed(g) == /\ stage[g] = "resuming"
              /\ stage' = [stage EXCEPT ![g] = "rearming"]
              /\ UNCHANGED <<generation, disposed, retry, prepared, suspended, gate, recovered>>

\* Fault: the scope of a recovery outlives it.
ScopeKept(g) == UNCHANGED lease

\* runRecovery deactivates the lease of its scope.
ScopeEnds(g) == lease' = [w \in Works |-> IF lease[w] = g THEN 0 ELSE lease[w]]

\* Fault: no second look at the generation.
ReleaseSuperseded(g) ==
    /\ stage[g] = "rearming"
    /\ ScopeEnds(g)
    /\ GateOpens
    /\ suspended' = FALSE
    /\ stage' = [stage EXCEPT ![g] = "releasing"]
    /\ recovered' = g
    /\ UNCHANGED <<generation, disposed, retry, prepared, gateDisposed>>

\* rearmWakes answers true: the gate opens and afterRelease resumes the wakes,
\* unless the request was superseded meanwhile.
Release(g) ==
    /\ stage[g] = "rearming"
    /\ ScopeEnds(g)
    /\ \/ /\ Current(g)
          /\ GateOpens
          /\ suspended' = FALSE
          /\ stage' = [stage EXCEPT ![g] = "releasing"]
          /\ recovered' = g
          /\ UNCHANGED retry
       \/ /\ ~Current(g)
          /\ Ends(g, FALSE)
          /\ UNCHANGED <<allowed, work, suspended, recovered>>
    /\ UNCHANGED <<generation, disposed, prepared, gateDisposed>>

\* isReady or rearmWakes answers false, or some old work is not accepted.
NotRecovered(g) ==
    /\ stage[g] \in {"checking", "resuming", "rearming"}
    /\ ScopeEnds(g)
    /\ Ends(g, FALSE)
    /\ UNCHANGED <<generation, disposed, prepared, suspended, allowed, gateDisposed, work, recovered>>

\* Any of the calls throws, afterRelease included: the gate is closed again.
AttemptThrows(g) ==
    /\ stage[g] \in {"suspending", "releasing"} \cup Recovering
    /\ ScopeEnds(g)
    /\ allowed' = (allowed /\ ~Current(g))
    /\ Ends(g, FALSE)
    /\ UNCHANGED <<generation, disposed, prepared, suspended, gateDisposed, work, recovered>>

\* reconcileNow returns, and with it afterRelease.
Released(g) == /\ stage[g] = "releasing"
               /\ Ends(g, TRUE)
               /\ UNCHANGED <<generation, disposed, prepared, suspended, gate, recovered>>

-------------------------------------------------------------------------------
(* Retries *)

\* Fault: one retry, and no more.
LoopGivesUp(g) == /\ retry[g] = "failed"
                  /\ retry' = [retry EXCEPT ![g] = "over"]
                  /\ UNCHANGED <<generation, disposed, stage, prepared, suspended, gate, recovered>>

LoopContinues(g) == /\ retry[g] = "failed"
                    /\ retry' = [retry EXCEPT ![g] = IF Current(g) THEN "sleeping" ELSE "over"]
                    /\ UNCHANGED <<generation, disposed, stage, prepared, suspended, gate, recovered>>

\* Fault: the repeated attempt takes a new generation.
RetriesAnew(g) == /\ retry[g] = "sleeping"
                  /\ retry' = [retry EXCEPT ![g] = "attempting"]
                  /\ stage' = [stage EXCEPT ![g] = "queued"]
                  /\ generation' = generation + 1
                  /\ UNCHANGED <<disposed, prepared, suspended, gate, recovered>>

\* A loop sleeps only while its request is the current one: the others are aborted.
Retries(g) == /\ retry[g] = "sleeping"
              /\ retry' = [retry EXCEPT ![g] = "attempting"]
              /\ stage' = [stage EXCEPT ![g] = "queued"]
              /\ UNCHANGED <<generation, disposed, prepared, suspended, gate, recovered>>

Dispose == /\ ~disposed
           /\ disposed' = TRUE
           /\ allowed' = FALSE
           /\ retry' = [g \in Requests |-> IF retry[g] = "sleeping" THEN "over" ELSE retry[g]]
           /\ UNCHANGED <<generation, stage, prepared, suspended, gateDisposed, work, lease, recovered>>

Attempt(g) == \/ Begin(g) \/ WakesSuspended(g) \/ Ready(g) \/ Prepared(g) \/ Resumed(g)
              \/ Release(g) \/ NotRecovered(g) \/ AttemptThrows(g) \/ Released(g)

Next == \/ \E g \in Requests : \/ Attempt(g) \/ LoopContinues(g) \/ Retries(g)
                               \/ \E w \in Works : StartsWork(g, w)
        \/ \E w \in Works : Call(w) \/ Continue(w) \/ Leave(w)
        \/ Request \/ Dispose \/ GateDispose

Spec == Init /\ [][Next]_vars

-------------------------------------------------------------------------------
(* Liveness *)

\* The host makes its first request as it starts; the calls of an attempt
\* return, timers fire and continuations run.
Progress == /\ WF_vars(generation = 0 /\ Request)
            /\ \A g \in Requests : /\ WF_vars(Attempt(g))
                                   /\ WF_vars(LoopContinues(g)) /\ WF_vars(Retries(g))
            /\ \A w \in Works : WF_vars(Continue(w))

\* Recovery does not fail for ever: where it may fail again and again, the
\* calls succeed in the end.
Succeeds == \A g \in Requests : /\ SF_vars(WakesSuspended(g)) /\ SF_vars(Ready(g))
                                /\ SF_vars(Prepared(g)) /\ SF_vars(Resumed(g))
                                /\ SF_vars(Release(g)) /\ SF_vars(Released(g))

FairSpec == Spec /\ Progress
RecoveringSpec == FairSpec /\ Succeeds

-------------------------------------------------------------------------------
(* Properties *)

TypeOK == /\ generation \in 0..MaxRequests /\ disposed \in BOOLEAN
          /\ stage \in [Requests -> Stages]
          /\ retry \in [Requests -> {"none", "attempting", "failed", "sleeping", "over"}]
          /\ prepared \subseteq Requests /\ suspended \in BOOLEAN
          /\ allowed \in BOOLEAN /\ gateDisposed \in BOOLEAN
          /\ work \in [Works -> {"out", "waiting", "woken", "in", "refused"}]
          /\ lease \in [Works -> 0..MaxRequests]
          /\ recovered \in 0..MaxRequests

\* An open gate stands for the recovery of the latest request, with its carried
\* work taken up: no superseded attempt opens it, at whichever of its awaits it
\* was overtaken, and no attempt is still under way behind it.
UnderWay(g) == stage[g] \in {"suspending"} \cup Recovering
OpenMeansRecovered ==
    allowed => /\ recovered = generation /\ generation \in prepared /\ ~disposed
               /\ \A g \in Requests : ~UnderWay(g)

\* Two recoveries never overlap, so old work is not taken up twice: an attempt
\* that was overtaken comes to its end before the next one begins.
OneRecovery == \A g, h \in Requests :
    (UnderWay(g) \/ stage[g] = "releasing") /\ (UnderWay(h) \/ stage[h] = "releasing") => g = h

\* The coordinator keeps its shape, with one attempt at work.
AttemptsConsistent == TypeOK /\ OneRecovery

\* No work waits at a gate that is open or gone.
NoForgottenWaiter == allowed \/ gateDisposed => \A w \in Works : work[w] # "waiting"

\* Work passes only through an open gate, or as part of a recovery that is
\* running: a gate that closes between a waiter's waking and its next step holds
\* it again, and work a recovery started has no pass once that one is over.
PassesLegally ==
    [][\A w \in Works : (work[w] # "in" /\ work'[w] = "in")
          => allowed \/ \E g \in Requests : lease[w] = g /\ stage[g] \in Recovering]_vars

\* The gate opens for the latest request, however its attempts were overtaken or
\* have failed, if they do not fail for ever.
GateReleases == \A g \in Requests : (generation = g) ~> (allowed \/ ~Current(g))

\* Work that waits is let in, however often the gate closes again.
WorkAdmitted == \A w \in Works : (work[w] = "waiting") ~> (work[w] = "in" \/ disposed)

\* Local work goes on in the end: the gate opens, and who waits is let in.
WorkGoesOn == GateReleases /\ WorkAdmitted
===============================================================================
