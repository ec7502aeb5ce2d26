----------------------------- MODULE UpgradeResume -----------------------------
(***************************************************************************)
(* Work cut short for an upgrade and taken up again: UpgradeRecreateResume *)
(* (T/upgrade-recreate-resume.ts), SandUpgradeResumeStore                  *)
(* (T/sand-upgrade-resume-store.ts), and their callers, with               *)
(* T = source/host/extensions/transcript.                                  *)
(*                                                                         *)
(* While the host quiesces, a run stops at its next checkpoint.  Whoever   *)
(* began the run marks its agent in a file, if it asks what became of the  *)
(* run: not all do.  A recovery, at the start of a host or when            *)
(* the upgrade is over, lets each marked agent continue, one after the     *)
(* other, and waits until each has started.  A marker goes when its work   *)
(* is done.                                                                *)
(*                                                                         *)
(* A marker is an agent and the number of the mark, which stands for the   *)
(* time and source in the key.  Writes of the file succeed.  An attempt to *)
(* recover may be superseded, which is the business of RecoveryCoordinator *)
(* and here happens to the request of the start only.                      *)
(***************************************************************************)
EXTENDS Integers, FiniteSets

CONSTANTS Agents, Groups, \* group sessions are not resumed
          MaxMarks,       \* bound: marks of an agent
          MaxQuiesces,    \* bound: upgrades prepared in the life of a process
          MaxCrashes      \* bound: ends of the process

Marks == 1..MaxMarks
Markers == Agents \X Marks
ASSUME UpgradeAssumption == /\ Groups \subseteq Agents
                            /\ MaxMarks \in Nat /\ MaxQuiesces \in Nat /\ MaxCrashes \in Nat

VARIABLES file, marks,        \* the mark of each agent in the file or 0, and the last one made
          gone,               \* agents deleted
          quiescing, accepted, starting, \* fields of UpgradeRecreateResume
          stage,              \* where the resume of each marker stands
          turn, cut,          \* the turn of each agent; whether its run was stopped at a checkpoint
          request, prepared, carried, \* the request for recovery, and the agents it carries until prepared
          attempt, ids, todo, awaited, \* the attempt under way, what its loops have left and wait for
          disposed, quiesces, crashes,
          debt                \* history: the work of each agent that was cut short and not resumed

process == <<quiescing, accepted, starting, stage, turn, cut, request, prepared, carried,
             attempt, ids, todo, awaited, disposed, quiesces>>
recovery == <<request, prepared, carried, attempt, ids, todo, awaited>>
host == <<disposed, quiesces, crashes>>
vars == <<file, marks, gone, process, crashes, debt>>

Listed == {m \in Markers : file[m[1]] = m[2]}
Attempts == {"none", "start", "recreate"}
NoAttempt == [of |-> "none", at |-> "over"]

\* What befell work that was cut short: a marker is due to it; or there is none, since the
\* resume of its marker was cut short itself and returned when the host no longer quiesced
\* (slipped), or since nobody asked whether its run was cut short (dropped).
Debts == {"none", "due", "slipped", "dropped"}

\* Whether a run in flight that is cut short will be marked is seen from its first run: if
\* it is unheeded, whoever began the run does not ask.
Turns == {"none", "queued", "running", "unheeded"}

Running(a) == turn[a] \in {"running", "unheeded"} \/ \E n \in Marks : stage[<<a, n>>] = "running"
InFlight(a) == turn[a] # "none" \/ \E n \in Marks : stage[<<a, n>>] \in {"queued", "running"}

\* The memory of a process that has just started.
FreshProcess ==
    /\ quiescing' = FALSE /\ accepted' = {} /\ starting' = {}
    /\ stage' = [m \in Markers |-> "none"]
    /\ turn' = [a \in Agents |-> "none"] /\ cut' = [a \in Agents |-> FALSE]
    /\ request' = "start" /\ prepared' = TRUE /\ carried' = {}
    /\ attempt' = NoAttempt /\ ids' = {} /\ todo' = {} /\ awaited' = {}
    /\ disposed' = FALSE /\ quiesces' = 0

Init == /\ file = [a \in Agents |-> 0] /\ marks = [a \in Agents |-> 0]
        /\ gone = {}
        /\ quiescing = FALSE /\ accepted = {} /\ starting = {}
        /\ stage = [m \in Markers |-> "none"]
        /\ turn = [a \in Agents |-> "none"] /\ cut = [a \in Agents |-> FALSE]
        /\ request = "start" /\ prepared = TRUE /\ carried = {}
        /\ attempt = NoAttempt /\ ids = {} /\ todo = {} /\ awaited = {}
        /\ disposed = FALSE /\ quiesces = 0 /\ crashes = 0
        /\ debt = [a \in Agents |-> "none"]

\* The bound on marks: what would need one begins only if one is left besides those
\* that turns cut short and a recovery under way may need.
Needed(a) == (IF turn[a] = "running" /\ cut[a] THEN 1 ELSE 0) + (IF prepared THEN 0 ELSE 1)
Room(a) == marks[a] + Needed(a) < MaxMarks

-------------------------------------------------------------------------------
(* The file *)

\* markPending: a new marker replaces the agent's old one.
MarkPending(S) == /\ marks' = [a \in Agents |-> IF a \in S THEN marks[a] + 1 ELSE marks[a]]
                  /\ file' = [a \in Agents |-> IF a \in S THEN marks[a] + 1 ELSE file[a]]

\* A marker is due again to work that had none, for whatever reason its agent got it.
Remedied(S) == debt' = [a \in Agents |-> IF a \in S /\ debt[a] # "none" THEN "due" ELSE debt[a]]

\* Fault: whatever marker the agent has is cleared.
ClearAny(m) == file' = [file EXCEPT ![m[1]] = 0]

\* clearIfUnchanged: a newer marker stays.
ClearIfUnchanged(m) == file' = [file EXCEPT ![m[1]] = IF @ = m[2] THEN 0 ELSE @]

-------------------------------------------------------------------------------
(* Turns *)

\* A turn passes the gate, which is open when no recovery is asked for.
Send(a) == /\ turn[a] = "none" /\ a \notin gone
           /\ request = "none" /\ ~disposed
           /\ turn' = [turn EXCEPT ![a] = "queued"]
           /\ UNCHANGED <<file, marks, gone, quiescing, accepted, starting, stage, cut,
                          recovery, host, debt>>

\* Work in the background asks for no gate.
Wakes(a) == /\ turn[a] = "none" /\ a \notin gone /\ a \notin Groups /\ ~disposed
            /\ turn' = [turn EXCEPT ![a] = "queued"]
            /\ UNCHANGED <<file, marks, gone, quiescing, accepted, starting, stage, cut,
                           recovery, host, debt>>

\* The first runs of turns, kickstarts, audits and automations are heeded; those of
\* redrives, inbound messages, events and broadcasts are not.
TurnStarts(a) == /\ turn[a] = "queued" /\ ~Running(a)
                 /\ \/ turn' = [turn EXCEPT ![a] = "running"]
                    \/ a \notin Groups /\ turn' = [turn EXCEPT ![a] = "unheeded"]
                 /\ UNCHANGED <<file, marks, gone, quiescing, accepted, starting, stage, cut,
                                recovery, host, debt>>

\* ensureUserReply, ensureHiddenTurnReply: a run of which too little was heard is followed
\* by another one.  It returns at once while the host quiesces, as one cut short, but
\* goes on where an earlier one was cut short if the upgrade was called off.
Nudge(a) == /\ (turn[a] = "running" /\ ~cut[a]) \/ turn[a] = "unheeded"
            /\ turn' = [turn EXCEPT ![a] = "unheeded"]
            /\ cut' = [cut EXCEPT ![a] = @ /\ quiescing]
            /\ UNCHANGED <<file, marks, gone, quiescing, accepted, starting, stage,
                           recovery, host, debt>>

\* A run comes to a checkpoint while its runner quiesces, and is cancelled.  Nobody asks
\* for the runs of a group's members, and no work of a group is resumed.
Checkpoint(a) == /\ quiescing /\ Running(a) /\ ~cut[a] /\ Room(a) /\ a \notin Groups
                 /\ cut' = [cut EXCEPT ![a] = TRUE]
                 /\ UNCHANGED <<file, marks, gone, quiescing, accepted, starting, stage, turn,
                                recovery, host, debt>>

\* Fault: the host is asked whether it quiesces, not the run whether it was cut short.
MarkTurnIfQuiescing(a) == IF quiescing THEN MarkPending({a}) ELSE UNCHANGED <<file, marks>>

\* A turn whose first run was cut short is marked, also when the upgrade has been
\* called off meanwhile.
MarkTurn(a) == MarkPending({a})

\* A turn returns, or a wake.  An unheeded run that was cut short is not marked.
TurnEnds(a) ==
    /\ turn[a] \in {"running", "unheeded"}
    /\ turn' = [turn EXCEPT ![a] = "none"] /\ cut' = [cut EXCEPT ![a] = FALSE]
    /\ \/ /\ cut[a] /\ turn[a] = "running"
          /\ MarkTurn(a)
          /\ debt' = [debt EXCEPT ![a] = "due"]
       \/ /\ cut[a] /\ turn[a] = "unheeded"
          /\ debt' = [debt EXCEPT ![a] = IF file[a] = 0 THEN "dropped" ELSE "due"]
          /\ UNCHANGED <<file, marks>>
       \/ ~cut[a] /\ UNCHANGED <<file, marks, debt>>
    /\ UNCHANGED <<gone, quiescing, accepted, starting, stage, recovery, host>>

-------------------------------------------------------------------------------
(* The resume of a marker *)

\* Fault: that the marker was accepted before is not asked.
AcceptAgain(m) == IF m \in starting
                  THEN awaited' = {m} /\ UNCHANGED <<starting, stage>>
                  ELSE /\ awaited' = {m} /\ starting' = starting \cup {m}
                       /\ stage' = [stage EXCEPT ![m] = "resolving"]

\* acceptResume: nothing if the marker was accepted before; else its start is
\* awaited, and begun unless it is under way.
Accept(m) == \/ /\ m \in accepted
                /\ awaited' = {} /\ UNCHANGED <<starting, stage>>
             \/ /\ m \notin accepted
                /\ awaited' = {m} /\ starting' = starting \cup {m}
                /\ stage' = IF m \in starting THEN stage ELSE [stage EXCEPT ![m] = "resolving"]

\* Fault: the entry of a resume that failed stays, and later ones join it.
SettledKept(m) == /\ stage' = [stage EXCEPT ![m] = "none"]
                  /\ awaited' = awaited \ {m} /\ UNCHANGED starting

\* Fault: only the start of a resume is told to those who wait.
SettledUnheard(m) == /\ stage' = [stage EXCEPT ![m] = "none"]
                     /\ starting' = starting \ {m} /\ UNCHANGED awaited

\* resumeUpgradeAgent settles, whatever the outcome, and whoever waits goes on.
Settled(m) == /\ stage' = [stage EXCEPT ![m] = "none"]
              /\ starting' = starting \ {m} /\ awaited' = awaited \ {m}

ResolveFails(m) == /\ stage[m] = "resolving"
                   /\ Settled(m)
                   /\ UNCHANGED <<file, marks, gone, quiescing, accepted, turn, cut, request, prepared,
                                  carried, attempt, ids, todo, host, debt>>

\* resolveBackgroundSession answers.  The agent queues in its background lane;
\* a group's marker is dropped.
Resolves(m) ==
    /\ stage[m] = "resolving" /\ m[1] \notin gone
    /\ IF m[1] \in Groups
       THEN ClearIfUnchanged(m) /\ Settled(m)
       ELSE /\ stage' = [stage EXCEPT ![m] = "queued"]
            /\ UNCHANGED <<file, starting, awaited>>
    /\ UNCHANGED <<marks, gone, quiescing, accepted, turn, cut, request, prepared,
                   carried, attempt, ids, todo, host, debt>>

ResumeStarts(m) == /\ stage[m] = "queued" /\ ~Running(m[1])
                   /\ stage' = [stage EXCEPT ![m] = "running"]
                   /\ accepted' = accepted \cup {m}
                   /\ awaited' = awaited \ {m}
                   /\ UNCHANGED <<file, marks, gone, quiescing, starting, turn, cut, request, prepared,
                                  carried, attempt, ids, todo, host, debt>>

\* A run that has returned clears its marker, unless the host quiesces.
ResumeEnds(m) ==
    /\ stage[m] = "running"
    /\ IF quiescing THEN UNCHANGED file ELSE ClearIfUnchanged(m)
    /\ Settled(m) /\ cut' = [cut EXCEPT ![m[1]] = FALSE]
    /\ debt' = [debt EXCEPT ![m[1]] = IF ~cut[m[1]] THEN "none"
                                       ELSE IF ~quiescing /\ file[m[1]] = m[2] THEN "slipped" ELSE "due"]
    /\ UNCHANGED <<marks, gone, quiescing, accepted, turn, request, prepared,
                   carried, attempt, ids, todo, host>>

\* The run throws.  The marker stays.
ResumeThrows(m) ==
    /\ stage[m] = "running" /\ ~cut[m[1]]
    /\ Settled(m)
    /\ UNCHANGED <<file, marks, gone, quiescing, accepted, turn, cut, request, prepared,
                   carried, attempt, ids, todo, host, debt>>

-------------------------------------------------------------------------------
(* Recovery *)

Attempting(stages) == attempt.at \in stages /\ awaited = {}

\* The gateway's resumeAfterRecreate.
ResumeAfterRecreate(A) ==
    /\ request # "recreate" /\ ~disposed /\ \A a \in Agents : Room(a)
    /\ request' = "recreate" /\ prepared' = FALSE /\ carried' = A
    /\ UNCHANGED <<file, marks, gone, quiescing, accepted, starting, stage, turn, cut, attempt, ids,
                   todo, awaited, host, debt>>

\* The attempt of the latest request begins when the one before is over.
Begin == /\ attempt = NoAttempt /\ request # "none" /\ ~disposed
         /\ attempt' = [of |-> request, at |-> "checking"]
         /\ UNCHANGED <<file, marks, gone, quiescing, accepted, starting, stage, turn, cut, request,
                        prepared, carried, ids, todo, awaited, host, debt>>

\* isReady, rearmWakes or sharing fails, and the attempt with it.
Fails == /\ \/ attempt.at = "checking"
            \/ Attempting({"resuming"}) /\ todo = {}
         /\ attempt' = NoAttempt
         /\ UNCHANGED <<file, marks, gone, quiescing, accepted, starting, stage, turn, cut, request,
                        prepared, carried, ids, todo, awaited, host, debt>>

\* resumeInterruptedUpgradeTurns reads the file.
Lists == /\ attempt' = [attempt EXCEPT !.at = "resuming"]
         /\ todo' = Listed

\* The host is ready.  The prepare step of the request, if it has one that has
\* not been taken, ends the quiescing.
Ready ==
    /\ attempt.at = "checking"
    /\ \/ /\ attempt.of = "recreate" /\ ~prepared
          /\ quiescing' = FALSE
          /\ attempt' = [attempt EXCEPT !.at = "preparing"]
          /\ ids' = carried \cup {m[1] : m \in Listed}
          /\ UNCHANGED todo
       \/ /\ attempt.of = "start" \/ prepared
          /\ Lists
          /\ UNCHANGED <<quiescing, ids>>
    /\ UNCHANGED <<file, marks, gone, accepted, starting, stage, turn, cut, request, prepared, carried,
                   awaited, host, debt>>

\* The loop of resumeAfterRecreate.  An agent without a marker gets one.
Prepare(a) ==
    /\ Attempting({"preparing"}) /\ a \in ids
    /\ ids' = ids \ {a}
    /\ \/ /\ a \in gone
          /\ UNCHANGED <<file, marks, starting, stage, awaited, debt>>
       \/ /\ a \notin gone /\ file[a] # 0
          /\ Accept(<<a, file[a]>>)
          /\ UNCHANGED <<file, marks, debt>>
       \/ /\ a \notin gone /\ file[a] = 0
          /\ MarkPending({a}) /\ Remedied({a})
          /\ Accept(<<a, file'[a]>>)
    /\ UNCHANGED <<gone, quiescing, accepted, turn, cut, request, prepared, carried, attempt, todo,
                   host>>

Prepared == /\ Attempting({"preparing"}) /\ ids = {}
            /\ prepared' = TRUE /\ carried' = {}
            /\ Lists
            /\ UNCHANGED <<file, marks, gone, quiescing, accepted, starting, stage, turn, cut, request,
                           ids, awaited, host, debt>>

\* Fault: an agent that was deleted is resumed like any other.
ResumeAlsoGone(m) ==
    /\ Attempting({"resuming"}) /\ m \in todo
    /\ todo' = todo \ {m}
    /\ Accept(m) /\ UNCHANGED file
    /\ UNCHANGED <<marks, gone, quiescing, accepted, turn, cut, request, prepared, carried, attempt, ids,
                   host, debt>>

\* The loop of resumeInterruptedUpgradeTurns.
Resume(m) ==
    /\ Attempting({"resuming"}) /\ m \in todo
    /\ todo' = todo \ {m}
    /\ \/ /\ m[1] \in gone
          /\ ClearIfUnchanged(m)
          /\ UNCHANGED <<starting, stage, awaited>>
       \/ /\ m[1] \notin gone
          /\ Accept(m)
          /\ UNCHANGED file
    /\ UNCHANGED <<marks, gone, quiescing, accepted, turn, cut, request, prepared, carried, attempt, ids,
                   host, debt>>

\* The attempt ends.  It has recovered if no marker is left that was not accepted,
\* and the gate opens unless it was superseded.
Finish ==
    /\ Attempting({"resuming"}) /\ todo = {}
    /\ request' = IF Listed \subseteq accepted /\ attempt.of = request /\ ~disposed
                  THEN "none" ELSE request
    /\ attempt' = NoAttempt
    /\ UNCHANGED <<file, marks, gone, quiescing, accepted, starting, stage, turn, cut, prepared, carried,
                   ids, todo, awaited, host, debt>>

-------------------------------------------------------------------------------
(* The host *)

Quiesce == /\ ~disposed /\ quiesces < MaxQuiesces
           /\ quiescing' = TRUE /\ quiesces' = quiesces + 1
           /\ UNCHANGED <<file, marks, gone, accepted, starting, stage, turn, cut, recovery,
                          disposed, crashes, debt>>

Delete(a) == /\ a \notin gone
             /\ gone' = gone \cup {a}
             /\ UNCHANGED <<file, marks, process, crashes, debt>>

\* An orderly end begins: a host that quiesces marks all work in flight.
Dispose == /\ ~disposed /\ disposed' = TRUE
           /\ \A a \in Agents : Room(a)
           /\ LET S == {a \in Agents : InFlight(a)}
              IN IF quiescing THEN MarkPending(S) /\ Remedied(S) ELSE UNCHANGED <<file, marks, debt>>
           /\ UNCHANGED <<gone, quiescing, accepted, starting, stage, turn, cut, recovery,
                          quiesces, crashes>>

\* The process ends, in order or not, and another one starts.  What an orderly
\* end for an upgrade interrupts is cut short as well.
Restart == /\ crashes < MaxCrashes
           /\ crashes' = crashes + 1
           /\ debt' = [a \in Agents |-> IF disposed /\ quiescing /\ Running(a) /\ a \notin Groups
                                        THEN "due" ELSE debt[a]]
           /\ FreshProcess
           /\ UNCHANGED <<file, marks, gone>>

ResumeStep(m) == Resolves(m) \/ ResumeStarts(m) \/ ResumeEnds(m)
Recover == \/ Begin \/ Ready \/ Prepared \/ Finish
           \/ \E a \in Agents : Prepare(a)
           \/ \E m \in Markers : Resume(m)

Next == \/ \E a \in Agents : \/ Send(a) \/ Wakes(a) \/ TurnStarts(a) \/ Checkpoint(a) \/ Nudge(a) \/ TurnEnds(a)
                          \/ Delete(a)
        \/ \E m \in Markers : ResumeStep(m) \/ ResolveFails(m) \/ ResumeThrows(m)
        \/ \E A \in SUBSET Agents : ResumeAfterRecreate(A)
        \/ Recover \/ Fails \/ Quiesce \/ Dispose \/ Restart

Spec == Init /\ [][Next]_vars

\* Runs end, and start in the order in which they queued; calls return, attempts are
\* repeated; sessions can be opened in the end, and an attempt does not fail for ever.
Fairness == /\ \A a \in Agents : WF_vars(TurnStarts(a)) /\ WF_vars(TurnEnds(a))
            /\ \A m \in Markers : /\ SF_vars(ResumeStarts(m)) /\ WF_vars(ResumeEnds(m) \/ ResumeThrows(m))
                                  /\ SF_vars(Resolves(m)) /\ WF_vars(Resolves(m) \/ ResolveFails(m))
            /\ WF_vars(Recover) /\ SF_vars(Ready) /\ SF_vars(Finish)

FairSpec == Spec /\ Fairness

-------------------------------------------------------------------------------
(* Properties *)

TypeOK == /\ marks \in [Agents -> 0..MaxMarks]
          /\ file \in [Agents -> 0..MaxMarks] /\ \A a \in Agents : file[a] <= marks[a]
          /\ gone \subseteq Agents /\ debt \in [Agents -> Debts] /\ \A a \in Groups : debt[a] = "none"
          /\ quiescing \in BOOLEAN /\ disposed \in BOOLEAN
          /\ accepted \subseteq Markers
          /\ stage \in [Markers -> {"none", "resolving", "queued", "running"}]
          /\ starting = {m \in Markers : stage[m] # "none"}
          /\ turn \in [Agents -> Turns]
          /\ cut \in [Agents -> BOOLEAN] /\ \A a \in Groups : ~cut[a]
          /\ request \in Attempts /\ prepared \in BOOLEAN /\ carried \subseteq Agents
          /\ attempt.of \in Attempts /\ attempt.at \in {"over", "checking", "preparing", "resuming"}
          /\ ids \subseteq Agents /\ todo \subseteq Markers
          /\ awaited \subseteq starting /\ Cardinality(awaited) <= 1
          /\ quiesces \in 0..MaxQuiesces /\ crashes \in 0..MaxCrashes

\* Work that was cut short for an upgrade has a marker until a later run of its
\* agent has ended otherwise: across replaced and cleared markers, upgrades called
\* off, further upgrades and the end of the process.  Slipped and dropped work has not.
CutWorkIsMarked == \A a \in Agents \ gone : debt[a] = "due" => file[a] # 0

\* The markers keep their shape, and none is missing.
MarkersKept == TypeOK /\ CutWorkIsMarked

\* What the title of a test says of the markers (tests/server-port-recovery.test.mjs:43):
\* they remain until the accepted work finishes.
RemainUntilFinished == \A a \in Agents \ gone : debt[a] \in {"due", "slipped"} => file[a] # 0

\* A marker goes only for its own reasons: the agent is deleted, it is a group, or
\* the resumed run of this very marker has returned while the host does not
\* quiesce.  A marker that an older resume does not know of outlives it.
ForgottenForItsOwnSake ==
    [][\A a \in Agents : file[a] # 0 /\ file'[a] = 0
          => \/ a \in gone \cup Groups
             \/ stage[<<a, file[a]>>] = "running" /\ ~quiescing]_vars

\* A process resumes the work of a marker at most once, also when its run failed,
\* its marker stayed, and recovery is asked for again.
ResumedOnce ==
    [][\A m \in Markers : stage[m] # "running" /\ stage'[m] = "running" => m \notin accepted]_vars

\* Recovery starts the work of every marker it was asked for, however often the
\* session cannot be opened at first.
TakenUp == \A m \in Markers :
    (m \in Listed /\ request # "none") ~> (m \in accepted \/ m \notin Listed \/ disposed)

\* Recovery ends, and the gate opens: deleted agents and markers that are written
\* meanwhile do not hold it up for ever.
RecoveryEnds == (request # "none") ~> (request = "none" \/ disposed)

\* A recovery comes to its end, with all it was asked for taken up.
RecoveryCompletes == TakenUp /\ RecoveryEnds
===============================================================================
