----------------------------- MODULE PendingWakes -----------------------------
(***************************************************************************)
(* The wakes of background work: PendingWakeRearm and SandPendingWakeStore *)
(* (pending-wake-rearm.ts, sand-pending-wake-store.ts), CompletionRevivals *)
(* (completion-revivals.ts) and the wakes a recreated computer carries     *)
(* over (upgrade-recreate-resume.ts), all in                               *)
(* source/host/extensions/transcript/.                                     *)
(*                                                                         *)
(* An agent starts work that outlives its turn: a shell command, a cloud   *)
(* agent, a subagent.  While the work runs the host watches it in memory,  *)
(* and a marker on disk says that its parent is owed a wake.  When it ends *)
(* its completion waits for a revival, a run of the parent that reports a  *)
(* batch of completions; the markers of a batch go when it is taken up.    *)
(* After a restart, and in every recovery that LocalResumeCoordinator      *)
(* starts, a pass rearms what is still marked.                             *)
(*                                                                         *)
(* One thread: an action is a stretch of code between two awaits.  The     *)
(* marker file is taken to be writable.  What a run of the parent does     *)
(* with a batch (it may be superseded, quiesced or fail) changes nothing   *)
(* here; the marker a quiesced one leaves is in UpgradeResume.tla.         *)
(***************************************************************************)
EXTENDS Naturals

CONSTANTS Works,       \* pieces of background work
          AgentOf,     \* the agent that started each
          KindOf,      \* its kind
          Groups,      \* agents that are group sessions
          None,
          MaxUpsets,   \* bound: crashes, quiesces, prunings and deletions
          Together,    \* bound: sets of works that are started in one behaviour
          MaxWatchers  \* bound: watches of one piece of work

Agents == {AgentOf[w] : w \in Works}
Kinds == {"shell", "cloud-agent", "subagent"}
Marks == {"none", "armed", "cut"}  \* cut: interruptedByRecreate
Markers == [work : Works, mark : {"armed", "cut"}]

MarkersFor(w) == {k \in Markers : k.work = w}

ASSUME WorksAssumption == /\ KindOf \in [Works -> Kinds] /\ None \notin Markers
                          /\ MaxUpsets \in Nat /\ MaxWatchers \in Nat \ {0}

VARIABLES mark,      \* the marker of each work in the pending wake file
          watchers,  \* watches of each in this process; a subagent's run is one
          waiting,   \* works in pendingShellCompletions or pendingSubagentCompletions
          reviving,  \* queues a revival works through: reviving...AgentIds
          deleted,   \* sessions.deletedAgentIds
          erased,    \* agents that no longer exist on disk
          pass,      \* the pass of rearmPendingWakes that runs
          released,  \* the last recovery asked for has succeeded
          prepare,   \* wakes the next attempt of a recovery has to restore, or None
          loose,     \* works restored whose rearm runs by itself
          carry,     \* wakes the client of a recreation holds, or None
          started,   \* history: works that were started
          taken,     \* history: works whose completion a revival has taken up
          stopped,   \* works the parent has aborted
          spared,    \* history: agents whose deletion failed in this process
          lost,      \* history: works whose marker was pruned or destroyed by a recreation, or
                     \* whose carried wake was refused as the agent was being deleted
          upsets

recovery == <<pass, released, prepare, loose>>
agents == <<deleted, erased, spared>>
vars == <<mark, watchers, waiting, reviving, agents, recovery, carry,
          started, taken, stopped, lost, upsets>>

Queue(w) == <<AgentOf[w], IF KindOf[w] = "shell" THEN "shell" ELSE "subagent">>
Queues == {Queue(w) : w \in Works}
Of(q) == {w \in Works : Queue(w) = q}
Gone == deleted \cup erased                                  \* isAgentGone
WorksOf(a) == {w \in Works : AgentOf[w] = a}

Upset == upsets < MaxUpsets /\ upsets' = upsets + 1

NoPass == [on |-> FALSE, left |-> {}, at |-> None, ok |-> TRUE, current |-> TRUE]

Init == /\ mark = [w \in Works |-> "none"]
        /\ watchers = [w \in Works |-> 0]
        /\ waiting = {} /\ reviving = {}
        /\ deleted = {} /\ erased = {} /\ spared = {}
        /\ pass = NoPass /\ released = FALSE /\ prepare = None /\ loose = {}
        /\ carry = None
        /\ started = {} /\ taken = {} /\ stopped = {} /\ lost = {}
        /\ upsets = 0

-------------------------------------------------------------------------------
(* Markers *)

\* markPending of a marker made now, by persistPendingWake: m is what the rest
\* of the step left of mark.  A deleted agent gets no marker.
Armed(w, m) == IF AgentOf[w] \in deleted THEN m ELSE [m EXCEPT ![w] = "armed"]

\* clearOne, for each work of S.
Cleared(S, m) == [w \in Works |-> IF w \in S THEN "none" ELSE m[w]]

Marked == {w \in Works : mark[w] # "none"}
MarkersOf(S) == {[work |-> w, mark |-> mark[w]] : w \in S}

-------------------------------------------------------------------------------
(* Completions and revivals *)

\* Fault: after a revival the queue is not looked at again.
TakeUpOnce(q) == /\ reviving' = reviving \ {q}
                 /\ UNCHANGED <<mark, waiting, taken>>

\* One round of the loops of reviveForSubagentCompletions and
\* reviveForShellCompletions.
TakeUp(q) ==
    LET next == waiting \cap Of(q)
    IN  /\ waiting' = waiting \ next
        /\ mark' = Cleared(next, mark)
        /\ reviving' = IF next = {} THEN reviving \ {q} ELSE reviving
        /\ taken' = taken \cup next

\* Fault: a subagent's completion is queued for a deleted agent.
DroppedForShells(w) == KindOf[w] = "shell" /\ AgentOf[w] \in Gone

\* handleBackgroundSubagentCompletion looks at the deleted agents only,
\* enqueuePendingWake at those that are gone.
Dropped(w) == AgentOf[w] \in IF KindOf[w] = "shell" THEN Gone ELSE deleted

\* Fault: the marker goes when the completion is queued.
CompletedAndCleared(S, m) ==
    LET heard == {w \in S : ~Dropped(w)}
        idle == {q \in Queues \ reviving : heard \cap Of(q) # {}}
        now == {w \in waiting \cup heard : Queue(w) \in idle}
    IN  /\ waiting' = (waiting \cup heard) \ now
        /\ mark' = Cleared(heard \cup now, m)
        /\ reviving' = reviving \cup idle
        /\ taken' = taken \cup now

\* handleBackgroundShellCompletion and handleBackgroundSubagentCompletion for
\* the works of S one after the other: the first of a queue whose revival is
\* idle is taken up at once, the others wait.  A completion that waits already
\* is not told from a second one of the same work.
Completed(S, m) ==
    LET heard == {w \in S : ~Dropped(w)}
        idle == {q \in Queues \ reviving : heard \cap Of(q) # {}}
    IN  \E first \in [idle -> heard] :
            LET now == {first[q] : q \in idle} \cup {w \in waiting : Queue(w) \in idle}
            IN  /\ \A q \in idle : Queue(first[q]) = q
                /\ waiting' = (waiting \cup heard) \ now
                /\ mark' = Cleared(now, m)
                /\ reviving' = reviving \cup idle
                /\ taken' = taken \cup now

\* resolveBackgroundSession throws, or the run has ended: on to the next batch.
RevivalEnds(q) ==
    /\ q \in reviving
    /\ TakeUp(q)
    /\ UNCHANGED <<watchers, agents, recovery, carry, started, stopped, lost, upsets>>

-------------------------------------------------------------------------------
(* Background work *)

\* A turn of the parent starts work: dispatchBackgroundSubagent, watchCloudAgent,
\* or onShellWorkRegistered.
Start(w) ==
    /\ w \notin started /\ AgentOf[w] \notin Gone
    /\ \E S \in Together : started \cup {w} \subseteq S
    /\ started' = started \cup {w}
    /\ watchers' = [watchers EXCEPT ![w] = 1]
    /\ mark' = Armed(w, mark)
    /\ UNCHANGED <<waiting, reviving, agents, recovery, carry, taken, stopped,
                   lost, upsets>>

\* A watch ends: the work has ended, or the watch gives up.
Settle(w) ==
    /\ watchers[w] > 0 /\ w \notin stopped
    /\ watchers' = [watchers EXCEPT ![w] = @ - 1]
    /\ Completed({w}, mark)
    /\ UNCHANGED <<agents, recovery, carry, started, stopped, lost, upsets>>

\* abortSubagent
Abort(w) ==
    /\ KindOf[w] = "subagent" /\ watchers[w] > 0 /\ w \notin stopped
    /\ stopped' = stopped \cup {w}
    /\ mark' = Cleared({w}, mark)
    /\ UNCHANGED <<watchers, waiting, reviving, agents, recovery, carry,
                   started, taken, lost, upsets>>

\* settleBackgroundSubagentTurn of an aborted subagent.
AbortedEnds(w) ==
    /\ w \in stopped /\ watchers[w] > 0
    /\ watchers' = [watchers EXCEPT ![w] = 0]
    /\ mark' = Cleared({w}, mark)
    /\ UNCHANGED <<waiting, reviving, agents, recovery, carry, started,
                   taken, stopped, lost, upsets>>

-------------------------------------------------------------------------------
(* Rearming *)

\* rearmPendingWakes starts: pruneStale of the markers that are past
\* PENDING_WAKE_STALE_MAX_AGE_MS, then listPending.
RearmPendingWakes(stale) ==
    /\ ~released /\ ~pass.on /\ prepare = None
    /\ stale \subseteq Marked
    /\ IF stale = {} THEN UNCHANGED upsets ELSE Upset
    /\ mark' = Cleared(stale, mark) /\ lost' = lost \cup stale
    /\ pass' = [NoPass EXCEPT !.on = TRUE, !.left = MarkersOf(Marked \ stale)]
    /\ UNCHANGED <<watchers, waiting, reviving, agents, released, prepare,
                   loose, carry, started, taken, stopped>>

\* The next marker of the list, as it was when it was read: a gone agent is
\* passed over, for another one the session is awaited.
RearmNext(k) ==
    /\ pass.on /\ pass.at = None /\ k \in pass.left
    /\ pass' = [pass EXCEPT !.left = @ \ {k}, !.at = IF AgentOf[k.work] \in Gone THEN None ELSE k]
    /\ UNCHANGED <<mark, watchers, waiting, reviving, agents, released,
                   prepare, loose, carry, started, taken, stopped, lost, upsets>>

\* Fault: that the runner watches the work already is not asked.
WatchedAgain(w) == watchers' = [watchers EXCEPT ![w] = @ + 1]

\* watchBackgroundShell or watchCloudAgent.  The runner that watches the work
\* already may have been retired, and then a new one watches it too.
Watched(w) ==
    watchers' \in {[watchers EXCEPT ![w] = n] :
                      n \in {IF watchers[w] = 0 THEN 1 ELSE watchers[w],
                             IF watchers[w] < MaxWatchers THEN watchers[w] + 1 ELSE watchers[w]}}

\* rearmPendingWake, with the session open, for the marker k.
Rearmed(k) ==
    LET w == k.work
    IN  \/ /\ AgentOf[w] \in Groups
           /\ mark' = Cleared({w}, mark)
           /\ UNCHANGED <<watchers, waiting, reviving, taken>>
        \/ /\ AgentOf[w] \notin Groups /\ KindOf[w] # "subagent" /\ k.mark = "armed"
           /\ Watched(w)
           /\ mark' = Armed(w, mark)
           /\ UNCHANGED <<waiting, reviving, taken>>
        \/ /\ AgentOf[w] \notin Groups /\ KindOf[w] = "shell" /\ k.mark = "cut"
           /\ Completed({w}, mark)
           /\ UNCHANGED <<watchers>>
        \/ /\ AgentOf[w] \notin Groups /\ KindOf[w] = "subagent"
           /\ Completed({w}, Armed(w, mark))
           /\ UNCHANGED watchers

RearmSucceeds == /\ pass.at # None
                 /\ Rearmed(pass.at)
                 /\ pass' = [pass EXCEPT !.at = None]
                 /\ UNCHANGED <<agents, released, prepare, loose, carry, started, stopped,
                                lost, upsets>>

\* The session cannot be opened, or the watch is not armed: the marker is
\* written back as it was read.
RearmFails == /\ pass.at # None
              /\ mark' = [mark EXCEPT ![pass.at.work] = pass.at.mark]
              /\ pass' = [pass EXCEPT !.at = None, !.ok = FALSE]
              /\ UNCHANGED <<watchers, waiting, reviving, agents, released,
                             prepare, loose, carry, started, taken, stopped, lost, upsets>>

\* Fault: the failure of a rearm is not reported to the attempt.
RearmEndsDespiteFailure == /\ pass.on /\ pass.at = None /\ pass.left = {}
                           /\ released' = pass.current
                           /\ pass' = NoPass
                           /\ UNCHANGED <<mark, watchers, waiting, reviving, agents, prepare,
                                          loose, carry, started, taken, stopped, lost, upsets>>

\* Fault: an attempt in which a rearm failed never ends.
RearmEndsOnlyWell == /\ pass.on /\ pass.at = None /\ pass.left = {} /\ pass.ok
                     /\ released' = pass.current
                     /\ pass' = NoPass
                     /\ UNCHANGED <<mark, watchers, waiting, reviving, agents, prepare,
                                    loose, carry, started, taken, stopped, lost, upsets>>

\* The attempt ends; it releases the host unless a newer recovery was asked for.
RearmEnds == /\ pass.on /\ pass.at = None /\ pass.left = {}
             /\ released' = (pass.ok /\ pass.current)
             /\ pass' = NoPass
             /\ UNCHANGED <<mark, watchers, waiting, reviving, agents, prepare,
                            loose, carry, started, taken, stopped, lost, upsets>>

-------------------------------------------------------------------------------
(* Recreation of the computer *)

Held == IF carry = None THEN {} ELSE {k.work : k \in carry}
Restoring == IF prepare = None THEN {} ELSE {k.work : k \in prepare}

\* quiesceForRecreate hands the client the wakes of shells and cloud agents.
QuiesceForRecreate ==
    /\ carry = None /\ Upset
    /\ carry' = MarkersOf({w \in Marked : KindOf[w] # "subagent"})
    /\ UNCHANGED <<mark, watchers, waiting, reviving, agents, recovery, started,
                   taken, stopped, lost>>

\* The client asks for a recovery that restores them, of a recreated computer
\* or, if nothing came of that, of the same one.
ResumeAfterRecreate ==
    /\ carry # None
    /\ prepare' = carry /\ carry' = None
    /\ lost' = lost \cup {w \in Restoring : mark[w] = "none" /\ w \notin Held}
    /\ released' = FALSE /\ pass' = [pass EXCEPT !.current = FALSE]
    /\ UNCHANGED <<mark, watchers, waiting, reviving, agents, loose, started,
                   taken, stopped, upsets>>

\* restoreCarriedPendingWakes, at the start of the attempt.
RestoreCarriedPendingWakes ==
    /\ prepare # None /\ ~pass.on
    /\ LET accepted == {k.work : k \in {k \in prepare : /\ mark[k.work] = "none"
                                                        /\ AgentOf[k.work] \notin Gone \cup Groups}}
           shells == {w \in accepted : KindOf[w] = "shell"}
       IN  /\ Completed(shells, [w \in Works |-> IF w \in shells THEN "cut"
                                                 ELSE IF w \in accepted THEN "armed" ELSE mark[w]])
           /\ loose' = loose \cup (accepted \ shells)
    /\ prepare' = None
    /\ lost' = lost \cup {w \in Restoring : mark[w] = "none" /\ w \notin Held /\ AgentOf[w] \in deleted}
    /\ UNCHANGED <<watchers, agents, pass, released, carry, started, stopped, upsets>>

\* The rearm of a cloud agent's wake that restoreCarriedPendingWakes did not
\* await succeeds or fails.
LooseRearmed(w) ==
    /\ w \in loose /\ loose' = loose \ {w}
    /\ Rearmed([work |-> w, mark |-> "armed"])
    /\ UNCHANGED <<agents, pass, released, prepare, carry, started, stopped, lost, upsets>>

LooseFails(w) ==
    /\ w \in loose /\ loose' = loose \ {w}
    /\ mark' = [mark EXCEPT ![w] = "armed"]
    /\ UNCHANGED <<watchers, waiting, reviving, agents, pass, released, prepare,
                   carry, started, taken, stopped, lost, upsets>>

-------------------------------------------------------------------------------
(* Deletion and restart *)

\* interruptAgentForDeletion.  Shells watched since a restart are no longer.
InterruptForDeletion(a) ==
    /\ a \notin Gone /\ Upset
    /\ deleted' = deleted \cup {a}
    /\ waiting' = waiting \ WorksOf(a)
    /\ \E rewatched \in SUBSET {w \in WorksOf(a) : KindOf[w] = "shell"} :
          watchers' = [w \in Works |-> IF w \in rewatched THEN 0 ELSE watchers[w]]
    /\ UNCHANGED <<mark, reviving, erased, spared, recovery, carry,
                   started, taken, stopped, lost>>

\* deleteSession and clearAgent, once the subagents have ended.  A revival may
\* still be opening the session, or its run may have been given up: see
\* RunScheduler.tla.
Erase(a) ==
    /\ a \in deleted \ erased
    /\ \A w \in WorksOf(a) : KindOf[w] = "subagent" => watchers[w] = 0
    /\ erased' = erased \cup {a}
    /\ mark' = Cleared(WorksOf(a), mark)
    /\ UNCHANGED <<watchers, waiting, reviving, deleted, spared, recovery, carry,
                   started, taken, stopped, lost, upsets>>

\* deleteAgents fails with the agent still on disk.
DeletionFails(a) ==
    /\ a \in deleted \ erased
    /\ deleted' = deleted \ {a}
    /\ spared' = spared \cup {a}
    /\ UNCHANGED <<mark, watchers, waiting, reviving, erased, recovery, carry,
                   started, taken, stopped, lost, upsets>>

\* A new process, which finds the markers m: what was in memory is gone, and
\* startup asks for a recovery.
Restarted(m) ==
    /\ mark' = m
    /\ lost' = lost \cup {w \in Marked \cup Restoring : m[w] = "none" /\ w \notin Held}
    /\ watchers' = [w \in Works |-> 0]
    /\ waiting' = {} /\ reviving' = {}
    /\ deleted' = {} /\ spared' = {}
    /\ pass' = NoPass /\ released' = FALSE /\ prepare' = None /\ loose' = {}
    /\ UNCHANGED <<erased, carry, started, taken, stopped>>

Crash == Upset /\ Restarted(mark)

\* The computer is recreated without its files.
Recreate == /\ carry # None
            /\ Restarted([w \in Works |-> "none"])
            /\ UNCHANGED upsets

Next == \/ \E w \in Works : \/ Start(w) \/ Settle(w) \/ Abort(w) \/ AbortedEnds(w)
                            \/ LooseRearmed(w) \/ LooseFails(w)
        \/ \E q \in Queues : RevivalEnds(q)
        \/ (\E stale \in SUBSET Works : RearmPendingWakes(stale))
        \/ (\E k \in Markers : RearmNext(k))
        \/ RearmSucceeds \/ RearmFails \/ RearmEnds
        \/ QuiesceForRecreate \/ ResumeAfterRecreate \/ RestoreCarriedPendingWakes
        \/ \E a \in Agents : InterruptForDeletion(a) \/ Erase(a) \/ DeletionFails(a)
        \/ Crash \/ Recreate

Spec == Init /\ [][Next]_vars

\* Watches end or give up, runs end, attempts follow one another and do not find
\* a session closed for ever, and the client of a recreation resumes it.
Attempts == \/ RearmPendingWakes({}) \/ (\E k \in Markers : RearmNext(k))
            \/ RearmSucceeds \/ RearmFails \/ RearmEnds \/ RestoreCarriedPendingWakes

Fairness == /\ \A w \in Works : WF_vars(Settle(w) \/ AbortedEnds(w))
            /\ WF_vars(\E w \in Works : LooseRearmed(w) \/ LooseFails(w))
            /\ \A q \in Queues : WF_vars(RevivalEnds(q))
            /\ WF_vars(Attempts)
            /\ \A w \in Works : SF_vars(pass.at \in MarkersFor(w) /\ RearmSucceeds)
            /\ WF_vars(ResumeAfterRecreate)

FairSpec == Spec /\ Fairness

-------------------------------------------------------------------------------
(* Properties *)

TypeOK == /\ mark \in [Works -> Marks]
          /\ watchers \in [Works -> 0..MaxWatchers]
          /\ waiting \subseteq Works
          /\ reviving \subseteq Queues
          /\ deleted \subseteq Agents /\ erased \subseteq Agents /\ spared \subseteq Agents
          /\ pass \in [on : BOOLEAN, left : SUBSET Markers, at : Markers \cup {None},
                       ok : BOOLEAN, current : BOOLEAN]
          /\ released \in BOOLEAN
          /\ prepare \in (SUBSET Markers) \cup {None} /\ carry \in (SUBSET Markers) \cup {None}
          /\ loose \subseteq Works
          /\ started \subseteq Works /\ taken \subseteq Works
          /\ stopped \subseteq Works /\ lost \subseteq Works
          /\ upsets \in 0..MaxUpsets

\* Works whose parent is still owed a wake: started, not yet taken up by a
\* revival, not aborted, of an agent that is there and is no group.  An agent
\* whose deletion failed has lost its completions and its rearms till the next
\* restart.
Owed == {w \in started \ (taken \cup stopped) :
            AgentOf[w] \notin deleted \cup erased \cup spared \cup Groups}

\* A wake that is owed survives a crash at any point: its marker is on disk, or
\* the client of a recreation holds it, until a revival takes the completion
\* up, whatever pass, retry, deletion or recreation came in between.
OwedIsMarked ==
    \A w \in Owed \ lost : mark[w] # "none" \/ w \in Held \cup Restoring

\* Once a recovery has released the host, every wake owed is also followed in
\* memory: its work is watched or its completion waits for a running revival.
\* A marker nobody follows would be noticed only after the next restart.
ReleasedIsFollowed ==
    released => \A w \in Owed \ lost : mark[w] # "none" => watchers[w] > 0 \/ w \in waiting

\* No completion waits in a queue that nobody is working through.
NoStrandedCompletion == \A w \in waiting : Queue(w) \in reviving

\* What the host knows of is followed to its end: the watches, the queues of
\* completions and the revivals agree.
WakesFollowed == TypeOK /\ ReleasedIsFollowed /\ NoStrandedCompletion

\* Once an agent is being deleted no completion of its work is queued or taken
\* up any more, also not by the passes and watches that were under way.
DeletedAreLeftAlone ==
    [][\A w \in Works : AgentOf[w] \in deleted \cap deleted' =>
          /\ w \in waiting' => w \in waiting
          /\ w \in taken' => w \in taken]_vars

\* Every piece of work is taken up by a revival in the end, through failing
\* passes, crashes and recreations.
WakesArrive == []<>(Owed \ lost = {})
===============================================================================
