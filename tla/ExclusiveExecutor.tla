--------------------------- MODULE ExclusiveExecutor ---------------------------
(***************************************************************************)
(* What the transcript engine promises its callers about the runs of one   *)
(* agent, whichever executor is configured: tasks that are submitted run   *)
(* one at a time, each is started once, and the promise a caller holds is  *)
(* settled by the end of its own run.  The one exception is a run that is  *)
(* abandoned because a user waits behind it: its promise is resolved       *)
(* early, its body goes on beside the next run, and nothing that body does *)
(* later touches the queue or the promise.                                 *)
(*                                                                         *)
(* RunScheduler.tla (the lane scheduler) implements this specification.    *)
(***************************************************************************)
CONSTANTS Tasks,   \* the tasks handed to enqueueExclusiveRun for one agent
          None     \* no task, a value outside Tasks

VARIABLES body,       \* what became of the body of each task
          promise,    \* the promise its caller holds
          abandoned   \* runs given up on whose bodies still run

vars == <<body, promise, abandoned>>

BodyStates == {"new", "queued", "running", "settled"}
Outcomes == {"resolved", "rejected"}
PromiseStates == {"none", "open"} \cup Outcomes

Init == /\ body = [t \in Tasks |-> "new"]
        /\ promise = [t \in Tasks |-> "none"]
        /\ abandoned = {}

\* Begin task nxt, or none, given the bodies b left by the rest of the step.
Begins(b, nxt) ==
    \/ nxt = None /\ body' = b
    \/ nxt \in Tasks /\ b[nxt] = "queued" /\ body' = [b EXCEPT ![nxt] = "running"]

Holds(t) == body[t] = "running" /\ t \notin abandoned

Submit(t) == /\ body[t] = "new"
             /\ body' = [body EXCEPT ![t] = "queued"]
             /\ promise' = [promise EXCEPT ![t] = "open"]
             /\ UNCHANGED abandoned

Start(nxt) == /\ \A t \in Tasks : ~Holds(t)
              /\ nxt # None
              /\ Begins(body, nxt)
              /\ UNCHANGED <<promise, abandoned>>

Finish(t, outcome, nxt) == /\ Holds(t)
                           /\ promise' = [promise EXCEPT ![t] = outcome]
                           /\ Begins([body EXCEPT ![t] = "settled"], nxt)
                           /\ UNCHANGED abandoned

Abandon(t, nxt) == /\ Holds(t)
                   /\ promise' = [promise EXCEPT ![t] = "resolved"]
                   /\ abandoned' = abandoned \cup {t}
                   /\ Begins(body, nxt)

FinishLate(t) == /\ t \in abandoned
                 /\ body' = [body EXCEPT ![t] = "settled"]
                 /\ abandoned' = abandoned \ {t}
                 /\ UNCHANGED promise

Next == \/ \E t \in Tasks : Submit(t) \/ Start(t) \/ FinishLate(t)
        \/ \E t \in Tasks, nxt \in Tasks \cup {None} :
              \/ Abandon(t, nxt)
              \/ \E outcome \in Outcomes : Finish(t, outcome, nxt)

Spec == Init /\ [][Next]_vars
================================================================================
