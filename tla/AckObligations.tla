---------------------------- MODULE AckObligations ----------------------------
(***************************************************************************)
(* From a user's send to a visible answer, for the conversation of one     *)
(* agent: SendPipeline (send-pipeline.ts), dispatchUserTurn                *)
(* (send-turn-dispatch.ts), AckObligations and its store, and the counting *)
(* of runs in run-lifecycle.ts, all in source/host/extensions/transcript.  *)
(*                                                                         *)
(* A send is recorded twice before a turn is queued for it: in the         *)
(* acceptance ledger, so that a retry is recognised, and as the agent's    *)
(* one acknowledgement obligation, which only a message shown to the user  *)
(* discharges.  When the agent is idle and still owes an answer, a timer   *)
(* queues a redrive, at most MAX_ACK_REDRIVES times.  Both files survive a *)
(* restart; turns, timers and tokens do not.                               *)
(*                                                                         *)
(* An action is one stretch of the code between two awaits.  The scheduler *)
(* is reduced to what ExclusiveExecutor promises, in no fixed order; the   *)
(* ledger is one that can write (AcceptanceLedger has its failures).  The  *)
(* process is not modelled while it shuts down: that is a Crash.           *)
(***************************************************************************)
EXTENDS Integers, FiniteSets

CONSTANTS Sends,            \* user sends, each with its client nonce
          Detached,         \* sends with awaitTurn = false
          Redrives,         \* redrives that can be under way at once (bound)
          MAX_ACK_REDRIVES,
          OwesAck,          \* FALSE for a group or a remote room
          StoreMayFail,     \* whether the obligation file can fail
          MaxTries,         \* bound: calls of sendPrompt per send
          MaxCrashes,       \* bound: crashes
          MaxQuiesces,      \* bound: quiesces for an upgrade
          None

Runs == Sends \cup Redrives
CallStates == {"idle", "pinned", "recorded", "dispatched"}
RunStates == {"none", "resolving", "queued", "running", "abandoned"}

ASSUME RunsAssumption == /\ Sends \cap Redrives = {}
                         /\ Detached \subseteq Sends
                         /\ None \notin Runs
                         /\ IsFiniteSet(Runs)
ASSUME LimitsAssumption == /\ MAX_ACK_REDRIVES \in Nat
                           /\ OwesAck \in BOOLEAN /\ StoreMayFail \in BOOLEAN
                           /\ MaxTries \in Nat /\ MaxCrashes \in Nat /\ MaxQuiesces \in Nat

VARIABLES call,      \* how far the call of sendPrompt for each send has got
          answer,    \* what the last call for a send returned
          ledger,    \* the ledger's record of each send
          run,       \* the state of the run of each send and of each redrive
          latest,    \* the send whose turn has the current epoch, or None
          tokens,    \* ackRunTokens: the runs that may discharge
          inFlight,  \* inFlightRunCounts of the agent's session
          owed,      \* redriveAttempts of the obligation in cache, or Nothing
          owedFile,  \* the same, in the file
          timer,     \* a redrive timer is armed
          quiescing, \* quiescingForUpgrade
          bootDue,   \* redriveUnfulfilledAckObligations is still to be called
          unanswered, \* history: sends with no visible message since they were
                      \* recorded, or dispatched, or failed
          storeFailed, torn, \* history: a write or read failed; a crash came
                             \* between the two records of a send
          tries, crashes, quiesces

vars == <<call, answer, ledger, run, latest, tokens, inFlight, owed, owedFile, timer,
          quiescing, bootDue, unanswered, storeFailed, torn, tries, crashes, quiesces>>
store == <<owed, owedFile, storeFailed>>
bounds == <<tries, crashes, quiesces>>
upgrade == <<quiescing, bootDue>>

Nothing == -1

Init == /\ call = [s \in Sends |-> "idle"] /\ answer = [s \in Sends |-> "none"]
        /\ ledger = [s \in Sends |-> "none"]
        /\ run = [r \in Runs |-> "none"] /\ latest = None /\ tokens = {}
        /\ inFlight = 0
        /\ owed = Nothing /\ owedFile = Nothing
        /\ timer = FALSE /\ quiescing = FALSE /\ bootDue = TRUE
        /\ unanswered = {} /\ storeFailed = FALSE /\ torn = FALSE
        /\ tries = [s \in Sends |-> 0] /\ crashes = 0 /\ quiesces = 0

-------------------------------------------------------------------------------
(* The obligation store, the timer and the count of runs *)

\* upsert and clear: a failed write is swallowed and changes nothing.
Store(value) == \/ owed' = value /\ owedFile' = value /\ UNCHANGED storeFailed
                \/ StoreMayFail /\ storeFailed' = TRUE /\ UNCHANGED <<owed, owedFile>>

\* recordSend keeps the redriveAttempts of an obligation that stands.
StoreSend == Store(IF owed = Nothing THEN 0 ELSE owed)

\* armAckRedriveTimer, with what the rest of the step left of the obligation.
ArmTimer == timer' = (IF owed' = Nothing \/ quiescing THEN timer ELSE TRUE)

\* n calls of endSessionRun.
EndSessionRuns(n) == /\ inFlight' = inFlight - n
                     /\ IF inFlight' = 0 THEN ArmTimer ELSE UNCHANGED timer

-------------------------------------------------------------------------------
(* sendPrompt *)

\* The in-flight and ledger checks pass and the session is pinned, which counts
\* as a run.
SendPrompt(s) ==
    /\ call[s] = "idle" /\ ledger[s] = "none" /\ tries[s] < MaxTries
    /\ call' = [call EXCEPT ![s] = "pinned"]
    /\ answer' = [answer EXCEPT ![s] = "none"]
    /\ tries' = [tries EXCEPT ![s] = @ + 1]
    /\ inFlight' = inFlight + 1
    /\ UNCHANGED <<ledger, run, latest, tokens, store, timer, upgrade, unanswered,
                   torn, crashes, quiesces>>

\* A send the ledger knows is answered at once.
SendDuplicate(s) ==
    /\ call[s] = "idle" /\ ledger[s] # "none" /\ tries[s] < MaxTries
    /\ answer' = [answer EXCEPT ![s] = "duplicate"]
    /\ tries' = [tries EXCEPT ![s] = @ + 1]
    /\ UNCHANGED <<call, ledger, run, latest, tokens, inFlight, store, timer, upgrade,
                   unanswered, torn, crashes, quiesces>>

\* The echo is in the transcript; recordPending and recordAckObligationSend.
RecordSend(s) ==
    /\ call[s] = "pinned"
    /\ call' = [call EXCEPT ![s] = "recorded"]
    /\ ledger' = [ledger EXCEPT ![s] = "pending"]
    /\ unanswered' = unanswered \cup {s}
    /\ IF OwesAck THEN StoreSend /\ timer' = FALSE ELSE UNCHANGED <<store, timer>>
    /\ UNCHANGED <<answer, run, latest, tokens, inFlight, upgrade, torn, bounds>>

\* The session or the attachments fail before the echo, or the echo does.
SendFailsEarly(s) ==
    /\ call[s] = "pinned"
    /\ call' = [call EXCEPT ![s] = "idle"]
    /\ answer' = [answer EXCEPT ![s] = "error"]
    /\ UNCHANGED store
    /\ EndSessionRuns(1)
    /\ UNCHANGED <<ledger, run, latest, tokens, upgrade, unanswered, torn, bounds>>

\* Fault: the session run is ended before the guard is disposed.
SendFailsGuardLast(s) ==
    /\ call[s] = "recorded"
    /\ call' = [call EXCEPT ![s] = "idle"]
    /\ answer' = [answer EXCEPT ![s] = "error"]
    /\ ledger' = [ledger EXCEPT ![s] = "none"]
    /\ inFlight' = inFlight - 1
    /\ IF OwesAck /\ owed = Nothing
       THEN StoreSend /\ timer' = FALSE
       ELSE UNCHANGED store /\ timer' = (IF inFlight' = 0 /\ owed # Nothing /\ ~quiescing THEN TRUE ELSE timer)
    /\ unanswered' = unanswered \cup {s}
    /\ UNCHANGED <<run, latest, tokens, upgrade, torn, bounds>>

\* A later step fails: the guard records the obligation again if a running turn
\* has discharged it, the run is ended, and sendPrompt clears the ledger.
SendFails(s) ==
    /\ call[s] = "recorded"
    /\ call' = [call EXCEPT ![s] = "idle"]
    /\ answer' = [answer EXCEPT ![s] = "error"]
    /\ ledger' = [ledger EXCEPT ![s] = "none"]
    /\ unanswered' = unanswered \cup {s}
    /\ IF OwesAck /\ owed = Nothing THEN StoreSend ELSE UNCHANGED store
    /\ EndSessionRuns(1)
    /\ UNCHANGED <<run, latest, tokens, upgrade, torn, bounds>>

\* Fault: the dispatch trusts the obligation recorded before the awaits.
DispatchWithoutConfirm(s) ==
    /\ call[s] = "recorded"
    /\ call' = [call EXCEPT ![s] = "dispatched"]
    /\ ledger' = [ledger EXCEPT ![s] = "accepted"]
    /\ latest' = s
    /\ inFlight' = inFlight + 1
    /\ run' = [run EXCEPT ![s] = "queued"]
    /\ unanswered' = unanswered \cup {s}
    /\ tokens' = (IF OwesAck THEN tokens \cup {s} ELSE tokens)
    /\ UNCHANGED <<store, timer, answer, upgrade, torn, bounds>>

\* Fault: the queued turn is not counted as a run.
DispatchWithoutBegin(s) ==
    /\ call[s] = "recorded"
    /\ call' = [call EXCEPT ![s] = "dispatched"]
    /\ ledger' = [ledger EXCEPT ![s] = "accepted"]
    /\ latest' = s
    /\ run' = [run EXCEPT ![s] = "queued"]
    /\ unanswered' = unanswered \cup {s}
    /\ tokens' = (IF OwesAck THEN tokens \cup {s} ELSE tokens)
    /\ UNCHANGED <<inFlight, store, timer, answer, upgrade, torn, bounds>>

\* dispatchUserTurn: the obligation is confirmed, a token minted, the turn
\* queued, the send marked accepted.
Dispatch(s) ==
    /\ call[s] = "recorded"
    /\ call' = [call EXCEPT ![s] = "dispatched"]
    /\ ledger' = [ledger EXCEPT ![s] = "accepted"]
    /\ latest' = s
    /\ inFlight' = inFlight + 1
    /\ run' = [run EXCEPT ![s] = "queued"]
    /\ unanswered' = unanswered \cup {s}
    /\ IF OwesAck
       THEN /\ tokens' = tokens \cup {s}
            /\ timer' = FALSE
            /\ IF owed = Nothing THEN StoreSend ELSE UNCHANGED store
       ELSE UNCHANGED <<tokens, timer, store>>
    /\ UNCHANGED <<answer, upgrade, torn, bounds>>

\* The call returns: at once if detached, else when its turn's promise settles.
SendReturns(s) ==
    /\ call[s] = "dispatched"
    /\ s \in Detached \/ run[s] \in {"none", "abandoned"}
    /\ call' = [call EXCEPT ![s] = "idle"]
    /\ answer' = [answer EXCEPT ![s] = "ok"]
    /\ UNCHANGED store
    /\ EndSessionRuns(1)
    /\ UNCHANGED <<ledger, run, latest, tokens, upgrade, unanswered, torn, bounds>>

-------------------------------------------------------------------------------
(* Runs *)

Idle == \A r \in Runs : run[r] # "running"

\* The task of a run ends: its token is retired, then its session run ended.
RunOver(r) == /\ run' = [run EXCEPT ![r] = "none"]
              /\ tokens' = tokens \ {r}
              /\ UNCHANGED store
              /\ EndSessionRuns(1)
              /\ UNCHANGED <<call, answer, ledger, latest, upgrade, unanswered, torn, bounds>>

\* A redrive finds the obligation discharged, a turn that a newer one replaces
\* it as part of that one's prompt: both end as they start.
EndsAtOnce(r) == /\ Idle /\ run[r] = "queued"
                 /\ IF r \in Redrives THEN owed = Nothing ELSE OwesAck /\ r # latest
                 /\ RunOver(r)

StartRun(r) == /\ Idle /\ run[r] = "queued"
               /\ r \in Redrives => owed # Nothing
               /\ run' = [run EXCEPT ![r] = "running"]
               /\ UNCHANGED <<call, answer, ledger, latest, tokens, inFlight, store, timer,
                              upgrade, unanswered, torn, bounds>>

EndRun(r) == run[r] \in {"running", "abandoned"} /\ RunOver(r)

\* Fault: the abandoned run keeps its token.
EscapeKeepingToken(r) ==
    /\ run[r] = "running"
    /\ \E s \in Sends : run[s] = "queued"
    /\ run' = [run EXCEPT ![r] = "abandoned"]
    /\ UNCHANGED <<call, answer, ledger, latest, tokens, inFlight, store, timer,
                   upgrade, unanswered, torn, bounds>>

\* The watchdog abandons a run a user turn waits for; onWatchdog retires its token.
Escape(r) ==
    /\ run[r] = "running"
    /\ \E s \in Sends : run[s] = "queued"
    /\ run' = [run EXCEPT ![r] = "abandoned"]
    /\ tokens' = tokens \ {r}
    /\ UNCHANGED <<call, answer, ledger, latest, inFlight, store, timer,
                   upgrade, unanswered, torn, bounds>>

\* A run, interrupted or abandoned as it may be, shows a message to the user;
\* with a live token it discharges the obligation.
ShowMessage(r) ==
    /\ run[r] \in {"running", "abandoned"}
    /\ unanswered # {} \/ owed # Nothing
    /\ unanswered' = {}
    /\ IF r \in tokens /\ owed # Nothing
       THEN Store(Nothing) /\ timer' = FALSE
       ELSE UNCHANGED <<store, timer>>
    /\ UNCHANGED <<call, answer, ledger, run, latest, tokens, inFlight, upgrade, torn, bounds>>

-------------------------------------------------------------------------------
(* Redrives *)

\* Fault: one redrive too many.
OnceMoreRedrivable == owed <= MAX_ACK_REDRIVES

Redrivable == owed < MAX_ACK_REDRIVES

\* redriveAckObligation up to its await.  After the last redrive the obligation
\* is given up, and reported as lost.
TimerFires ==
    /\ timer
    /\ timer' = FALSE
    /\ \/ /\ quiescing \/ owed = Nothing
          /\ UNCHANGED <<run, store, unanswered>>
       \/ /\ ~quiescing /\ owed # Nothing /\ ~Redrivable
          /\ Store(Nothing)
          /\ unanswered' = {}
          /\ UNCHANGED run
       \/ /\ ~quiescing /\ owed # Nothing /\ Redrivable
          /\ Store(owed + 1)
          /\ \E r \in Redrives : run[r] = "none" /\ run' = [run EXCEPT ![r] = "resolving"]
          /\ UNCHANGED unanswered
    /\ UNCHANGED <<call, answer, ledger, latest, tokens, inFlight, upgrade, torn, bounds>>

\* resolveBackgroundSession returns, and the redrive is queued.
RedriveQueued(r) ==
    /\ run[r] = "resolving"
    /\ run' = [run EXCEPT ![r] = "queued"]
    /\ inFlight' = inFlight + 1
    /\ tokens' = tokens \cup {r}
    /\ UNCHANGED <<call, answer, ledger, latest, store, timer, upgrade, unanswered, torn, bounds>>

\* Fault: a redrive whose session cannot be opened is dropped.
RedriveDropped(r) ==
    /\ run[r] = "resolving"
    /\ run' = [run EXCEPT ![r] = "none"]
    /\ UNCHANGED <<call, answer, ledger, latest, tokens, inFlight, store, timer, upgrade,
                   unanswered, torn, bounds>>

\* resolveBackgroundSession rejects: another redrive is scheduled.
RedriveUnresolved(r) ==
    /\ run[r] = "resolving"
    /\ run' = [run EXCEPT ![r] = "none"]
    /\ UNCHANGED store
    /\ ArmTimer
    /\ UNCHANGED <<call, answer, ledger, latest, tokens, inFlight, upgrade, unanswered,
                   torn, bounds>>

\* redriveUnfulfilledAckObligations, once recovery has released local work.
BootRedrive ==
    /\ bootDue /\ ~quiescing
    /\ bootDue' = FALSE
    /\ UNCHANGED store
    /\ ArmTimer
    /\ UNCHANGED <<call, answer, ledger, run, latest, tokens, inFlight, quiescing,
                   unanswered, torn, bounds>>

-------------------------------------------------------------------------------
(* Upgrades and crashes *)

Quiesce == /\ ~quiescing /\ quiesces < MaxQuiesces
           /\ quiescing' = TRUE
           /\ quiesces' = quiesces + 1
           /\ UNCHANGED <<call, answer, ledger, run, latest, tokens, inFlight, store, timer,
                          bootDue, unanswered, torn, tries, crashes>>

\* Fault: nothing looks at the obligations after the upgrade was called off.
ResumeWithoutRedrive ==
    /\ quiescing
    /\ quiescing' = FALSE
    /\ UNCHANGED <<call, answer, ledger, run, latest, tokens, inFlight, store, timer,
                   bootDue, unanswered, torn, bounds>>

\* resumeAfterRecreate, whose recovery ends in another BootRedrive.
ResumeAfterRecreate ==
    /\ quiescing
    /\ quiescing' = FALSE
    /\ bootDue' = TRUE
    /\ UNCHANGED <<call, answer, ledger, run, latest, tokens, inFlight, store, timer,
                   unanswered, torn, bounds>>

\* The process is gone and a new one has read the obligation file, if it could.
Restarted ==
    /\ crashes < MaxCrashes /\ crashes' = crashes + 1
    /\ call' = [s \in Sends |-> "idle"]
    /\ answer' = [s \in Sends |-> IF call[s] = "idle" THEN answer[s] ELSE "none"]
    /\ run' = [r \in Runs |-> "none"]
    /\ latest' = None /\ tokens' = {} /\ inFlight' = 0
    /\ timer' = FALSE /\ quiescing' = FALSE /\ bootDue' = TRUE
    /\ \/ owed' = owedFile /\ UNCHANGED storeFailed
       \/ StoreMayFail /\ owed' = Nothing /\ storeFailed' = TRUE
    /\ UNCHANGED <<owedFile, tries, quiesces>>

Crash == Restarted /\ UNCHANGED <<ledger, unanswered, torn>>

\* A crash within RecordSend: after the echo, before or after recordPending.
CrashWhileRecording(s) ==
    /\ call[s] = "pinned"
    /\ unanswered' = unanswered \cup {s}
    /\ ledger' \in {ledger, [ledger EXCEPT ![s] = "pending"]}
    /\ torn' = TRUE
    /\ Restarted

Next == \/ \E s \in Sends : \/ SendPrompt(s) \/ SendDuplicate(s)
                            \/ RecordSend(s) \/ SendFailsEarly(s) \/ SendFails(s)
                            \/ Dispatch(s) \/ SendReturns(s)
                            \/ CrashWhileRecording(s)
        \/ \E r \in Runs : EndsAtOnce(r) \/ StartRun(r) \/ EndRun(r) \/ Escape(r) \/ ShowMessage(r)
        \/ \E r \in Redrives : RedriveQueued(r) \/ RedriveUnresolved(r)
        \/ TimerFires \/ BootRedrive
        \/ Quiesce \/ ResumeAfterRecreate
        \/ Crash

Spec == Init /\ [][Next]_vars

\* Calls proceed, runs end, timers fire, an upgrade is carried out or called
\* off: nothing says when, and nothing says that a run shows a message.
Fairness == /\ \A s \in Sends : /\ WF_vars(RecordSend(s) \/ SendFailsEarly(s))
                                /\ WF_vars(Dispatch(s) \/ SendFails(s))
                                /\ WF_vars(SendReturns(s))
            /\ \A r \in Runs : /\ SF_vars(EndsAtOnce(r) \/ StartRun(r))
                               /\ WF_vars(EndRun(r))
            /\ \A r \in Redrives : WF_vars(RedriveQueued(r) \/ RedriveUnresolved(r))
            /\ WF_vars(TimerFires) /\ WF_vars(BootRedrive) /\ WF_vars(ResumeAfterRecreate)

FairSpec == Spec /\ Fairness

-------------------------------------------------------------------------------
(* Properties *)

TypeOK == /\ call \in [Sends -> CallStates]
          /\ answer \in [Sends -> {"none", "ok", "error", "duplicate"}]
          /\ ledger \in [Sends -> {"none", "pending", "accepted"}]
          /\ run \in [Runs -> RunStates]
          /\ latest \in Sends \cup {None} /\ tokens \subseteq Runs
          /\ inFlight \in Nat
          /\ owed \in (0..MAX_ACK_REDRIVES) \cup {Nothing}
          /\ owedFile \in (0..MAX_ACK_REDRIVES) \cup {Nothing}
          /\ timer \in BOOLEAN /\ quiescing \in BOOLEAN /\ bootDue \in BOOLEAN
          /\ unanswered \subseteq Sends /\ storeFailed \in BOOLEAN /\ torn \in BOOLEAN
          /\ tries \in [Sends -> 0..MaxTries]
          /\ crashes \in 0..MaxCrashes /\ quiesces \in 0..MaxQuiesces

\* Every run that is counted is ended once, on every path: the count is that of
\* the calls that hold the session and of the runs whose task has not ended.
\* While it is too high the agent never becomes idle; too low, it is retired
\* under a running turn.
Begun == {r \in Runs : run[r] \in {"queued", "running", "abandoned"}}
Holding == {s \in Sends : call[s] # "idle"}
InFlightExact == inFlight = Cardinality(Begun) + Cardinality(Holding)

\* The conversation keeps its shape, and its count of runs is exact.
RunsCounted == TypeOK /\ InFlightExact

\* A run may discharge the obligation from when it is queued until it ends or
\* is abandoned, and no longer: a run that was given up cannot answer for the
\* turns that took its place.
TokensAreOfLiveRuns ==
    tokens = IF OwesAck THEN {r \in Runs : run[r] \in {"queued", "running"}} ELSE {}

\* An idle agent that owes an answer will look at it again: no order of sends,
\* failures, redrives, upgrades and crashes leaves an obligation with no timer.
NoStrandedObligation ==
    (owed # Nothing /\ inFlight = 0 /\ ~quiescing /\ ~bootDue /\ ~storeFailed)
        => timer \/ \E r \in Redrives : run[r] = "resolving"

\* A send is owed an answer until a message is shown after its turn was queued,
\* or the obligation was given up, whatever fails or crashes, unless the
\* obligation file could not be used or the crash hit the instant between the
\* send's two records.  A message of an older turn that comes between the
\* record and the dispatch does not count.
OwedUntilAnswered ==
    (OwesAck /\ ~storeFailed /\ ~torn /\ unanswered # {}) => owed # Nothing /\ owedFile # Nothing

\* The log line of sendPrompt: a duplicate send is one whose nonce has already
\* been accepted.
DuplicateWasAccepted == \A s \in Sends : answer[s] = "duplicate" => ledger[s] = "accepted"

\* An obligation does not stand for ever: if runs end, each is discharged or,
\* after MAX_ACK_REDRIVES redrives, given up.
ObligationSettles == (owed # Nothing) ~> (owed = Nothing)
===============================================================================
