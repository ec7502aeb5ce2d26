---------------------------- MODULE AutomationFires ----------------------------
(***************************************************************************)
(* The fires of one routine that a relay server schedules: class           *)
(* SandAutomationFireConsumer (source/host/extensions/automations/         *)
(* sand-automation-fire-consumer.ts), the batches of AutomationEventFires  *)
(* (source/host/extensions/transcript/automation-event-fires.ts),          *)
(* fireAutomation (automation-run-path.ts) and the run history             *)
(* (source/host/automations/automation-store.ts).                          *)
(*                                                                         *)
(* The consumer polls the server for fires, runs each and reports how the  *)
(* run ended.  It forgets a fire only when a later poll no longer returns  *)
(* it.  What it knows is in memory; after a restart the server returns the *)
(* fires that were not completed again, and the run history, a file, tells *)
(* which of them have run.  Event fires are collected and run in batches,  *)
(* named by their first fire; the history keeps the others as coalesced.   *)
(*                                                                         *)
(* Left out: why a fire is rejected, the delays, and who else uses the run *)
(* queue of the agent.  A report and its answer are one step, and so are   *)
(* the sending of a poll and what the server does with it: the answer of a *)
(* poll arrives later, and may be out of date by then.                     *)
(***************************************************************************)
EXTENDS Naturals, Sequences, FiniteSets, Lists

CONSTANTS EventFires,     \* fires with an event
          ScheduleFires,  \* fires of a schedule
          LocalEvents,    \* events of the host's own sources, which no server waits for
          MAX_QUEUED_EVENT_FIRES_PER_AUTOMATION,
          MAX_EVENTS_IN_AUTOMATION_WAKE,
          AUTOMATION_MAX_RUN_HISTORY,
          MaxUpsets       \* bound: failures and restarts in a behaviour

Fires == EventFires \cup ScheduleFires
Items == EventFires \cup LocalEvents

ASSUME FiresAssumption ==
    /\ EventFires \cap ScheduleFires = {} /\ LocalEvents \cap Fires = {}
    /\ MAX_QUEUED_EVENT_FIRES_PER_AUTOMATION \in Nat \ {0}
    /\ MAX_EVENTS_IN_AUTOMATION_WAKE \in Nat \ {0}
    /\ AUTOMATION_MAX_RUN_HISTORY \in Nat \ {0}
    /\ MaxUpsets \in Nat

VARIABLES server,    \* what the server knows of each fire
          records,   \* runs.json, the newest first
          stopped,   \* of the consumer
          tick,      \* how far the poll is, and the fires it is about
          states,    \* the consumer's states
          delivery,  \* how far deliver(event) is for each fire
          batch,     \* items of the routine's batch
          timer,     \* its debounce is armed
          flushing,
          runs,      \* calls of fireAutomation that have not ended
          locals,    \* local events still to come
          upsets,
          finished,  \* history: fires of a run whose record was finished
          done,      \* history: fires of a run that ended well
          misnamed,  \* history: fires of a run that are looked up in another record, or
                     \* looked up in the record of a run they are not of
          forgotten  \* history: fires whose record has left the history

vars == <<server, records, stopped, tick, states, delivery, batch, timer, flushing,
          runs, locals, upsets, finished, done, misnamed, forgotten>>
history == <<finished, done, misnamed, forgotten>>
queue == <<batch, timer, flushing>>

Idle == [phase |-> "idle", fires |-> {}]

\* Fires the server has for the routine, local events and failures to come: any.
Init == /\ server \in [Fires -> {"pending", "gone"}]
        /\ records = <<>>
        /\ stopped = FALSE
        /\ tick = Idle
        /\ states = [f \in Fires |-> "absent"]
        /\ delivery = [f \in Fires |-> "none"]
        /\ batch = <<>> /\ timer = FALSE /\ flushing = FALSE
        /\ runs = {}
        /\ locals \in SUBSET LocalEvents
        /\ upsets \in 0..MaxUpsets
        /\ finished = {} /\ done = {} /\ misnamed = {} /\ forgotten = {}

Upset == upsets < MaxUpsets /\ upsets' = upsets + 1

Completed == {"succeeded", "failed"}

-------------------------------------------------------------------------------
(* The run history *)

Names(rec) == {rec.id} \cup rec.also

Naming(f) == {i \in DOMAIN records : f \in Names(records[i])}

\* existing(target, id) finds the newest record that names f.
Found(f) == records[CHOOSE i \in Naming(f) : \A j \in Naming(f) : i <= j]
FoundIn(f, id) == Naming(f) # {} /\ Found(f).id = id
Existing(f) == IF Naming(f) = {} THEN "none" ELSE Found(f).status

Known(f) == Existing(f) \in {"ok", "error"}

\* The record of a run is named by its first fire, or by an id of its own.
FiresOf(r) == {f \in Elements(r.fires) : f \in Fires}
RunId(r) == IF FiresOf(r) = {} THEN r.fires[1]
            ELSE r.fires[CHOOSE i \in DOMAIN r.fires :
                    r.fires[i] \in Fires /\ \A j \in 1..(i - 1) : r.fires[j] \notin Fires]

\* The records that are kept.
Newest(recs) == IF Len(recs) <= AUTOMATION_MAX_RUN_HISTORY THEN recs
                ELSE SubSeq(recs, 1, AUTOMATION_MAX_RUN_HISTORY)

\* Fault: the record does not name the coalesced fires.
BeginRunAlone(r) ==
    /\ records' = Newest(<<[id |-> RunId(r), also |-> {}, status |-> "running"]>> \o records)
    /\ UNCHANGED <<misnamed, forgotten>>

\* Fault: the history grows without bound.
BeginRunUncut(r) ==
    /\ records' = <<[id |-> RunId(r), also |-> FiresOf(r) \ {RunId(r)}, status |-> "running"]>> \o records
    /\ UNCHANGED <<misnamed, forgotten>>

\* beginRun: a record with this id is taken as it is, and stays where it is.
BeginRun(r) ==
    LET same == {i \in DOMAIN records : records[i].id = RunId(r)}
        mine == FiresOf(r)
        looked == {f \in Fires : FoundIn(f, RunId(r))}
        rec == [id |-> RunId(r), also |-> mine \ {RunId(r)}, status |-> "running"]
        all == <<rec>> \o records
        kept == Newest(all)
    IN  IF same # {}
        THEN /\ misnamed' = misnamed \cup (mine \ looked) \cup (looked \ mine)
             /\ UNCHANGED <<records, forgotten>>
        ELSE /\ records' = kept
             /\ forgotten' = forgotten \cup
                    ((UNION {Names(x) : x \in Elements(all)}) \ (UNION {Names(x) : x \in Elements(kept)}))
             /\ UNCHANGED misnamed

\* finishRun: of a record that is still there.
FinishRun(r, status) ==
    LET i == {j \in DOMAIN records : records[j].id = RunId(r)}
    IN  /\ records' = [j \in DOMAIN records |->
                          IF j \in i THEN [records[j] EXCEPT !.status = status] ELSE records[j]]
        /\ finished' = finished \cup FiresOf(r)
        /\ done' = (IF status = "ok" THEN done \cup FiresOf(r) ELSE done)
        /\ UNCHANGED <<misnamed, forgotten>>

-------------------------------------------------------------------------------
(* Polling *)

\* tick() asks the server, which is told the fires that were reported.  The server
\* returns a fire until it is completed; then it may keep it until it is told that
\* the consumer knows.  What it has once left out it never returns again.
PollServed ==
    /\ tick.phase = "idle" /\ ~stopped
    /\ \E left \in SUBSET {f \in Fires : server[f] \in Completed} :
          /\ {f \in Fires : states[f] = "reported" /\ server[f] \in Completed} \subseteq left
          /\ server' = [f \in Fires |-> IF f \in left THEN "gone" ELSE server[f]]
          /\ tick' = [phase |-> "answered", fires |-> {f \in Fires : server'[f] \in Completed \cup {"pending"}}]
    /\ UNCHANGED <<records, stopped, states, delivery, queue, runs, locals, upsets, history>>

\* The answer is lost.
PollFailed == /\ tick.phase = "answered"
              /\ Upset
              /\ tick' = Idle
              /\ UNCHANGED <<server, records, stopped, states, delivery, queue, runs, locals, history>>

\* The tick reports what is completed, one fire after the other, fires being those it
\* has reported; with nothing left it is over.
Reporting(fires, completed) ==
    tick' = IF completed \subseteq fires THEN Idle ELSE [phase |-> "reporting", fires |-> fires]

CompletedIn(st) == {f \in Fires : st[f] \in Completed}

\* Reported fires the server does not return are forgotten, and those that are not
\* known are delivered.
PollReceived ==
    LET dropped == {f \in Fires : states[f] = "reported" /\ f \notin tick.fires}
        new == {f \in tick.fires : states[f] = "absent"}
    IN  /\ tick.phase = "answered"
        /\ states' = [f \in Fires |-> IF f \in new THEN "running"
                                      ELSE IF f \in dropped THEN "absent" ELSE states[f]]
        /\ delivery' = [f \in Fires |-> IF f \in new THEN "listing" ELSE delivery[f]]
        /\ Reporting({}, CompletedIn(states'))
        /\ UNCHANGED <<server, records, stopped, queue, runs, locals, upsets, history>>

\* The server learns how f has ended; it knows of one end only.
Served(f) == server' = [server EXCEPT ![f] = IF @ = "pending" THEN states[f] ELSE @]

TickReports(f) ==
    /\ tick.phase = "reporting" /\ f \notin tick.fires /\ states[f] \in Completed
    /\ \/ /\ Served(f)
          /\ states' = [states EXCEPT ![f] = "reported"]
          /\ UNCHANGED upsets
       \/ /\ Upset                               \* the request or its answer is lost
          /\ Served(f) \/ UNCHANGED server
          /\ UNCHANGED states
    /\ Reporting(tick.fires \cup {f}, CompletedIn(states'))
    /\ UNCHANGED <<records, stopped, delivery, queue, runs, locals, history>>

\* What it would have reported is reported, or not known, meanwhile.
TickDone == /\ tick.phase = "reporting" /\ CompletedIn(states) \subseteq tick.fires
            /\ tick' = Idle
            /\ UNCHANGED <<server, records, stopped, states, delivery, queue, runs, locals, upsets, history>>

-------------------------------------------------------------------------------
(* Delivery *)

\* Fault: the fire stays known as running.
AbandonStuck(f) == /\ delivery' = [delivery EXCEPT ![f] = "none"]
                   /\ UNCHANGED <<server, records, stopped, tick, states, queue, runs, locals, history>>

\* The delivery of f is over, and the fire is not known any more.
Abandon(f) == /\ states' = [states EXCEPT ![f] = "absent"]
              /\ delivery' = [delivery EXCEPT ![f] = "none"]
              /\ UNCHANGED <<server, records, stopped, tick, queue, runs, locals, history>>

\* The delivery of f knows how the fire has ended, and reports it.
Complete(f, end) == /\ states' = [states EXCEPT ![f] = end]
                    /\ delivery' = [delivery EXCEPT ![f] = "reporting"]
                    /\ UNCHANGED <<server, records, stopped, tick, queue, runs, locals, history>>

\* The routines are listed after the consumer was stopped, or cannot be listed.
DeliveryStopped(f) == delivery[f] = "listing" /\ stopped /\ Abandon(f) /\ UNCHANGED upsets
DeliveryFailed(f) == delivery[f] = "listing" /\ Upset /\ Abandon(f)

\* Fault: a record is taken for a finished one whatever its status.
DeliveryOfAnyRecord(f) ==
    /\ delivery[f] = "listing" /\ ~stopped /\ Existing(f) # "none"
    /\ Complete(f, IF Existing(f) = "error" THEN "failed" ELSE "succeeded")
    /\ UNCHANGED upsets

\* The history tells that f has run.
DeliveryOfKnown(f) == /\ delivery[f] = "listing" /\ ~stopped /\ Known(f)
                      /\ Complete(f, IF Existing(f) = "ok" THEN "succeeded" ELSE "failed")
                      /\ UNCHANGED upsets

\* reject(): the routine is gone, paused, changed or does not match the event.
DeliveryRejected(f) == /\ delivery[f] = "listing" /\ ~stopped /\ ~Known(f)
                       /\ Upset
                       /\ Complete(f, "failed")

\* Fault: the shed items are not resolved.
EnqueueSilently(x) ==
    LET items == Append(batch, x)
        excess == IF Len(items) > MAX_QUEUED_EVENT_FIRES_PER_AUTOMATION
                  THEN Len(items) - MAX_QUEUED_EVENT_FIRES_PER_AUTOMATION ELSE 0
    IN  /\ batch' = SubSeq(items, excess + 1, Len(items))
        /\ timer' = ~flushing
        /\ delivery' = [f \in Fires |-> IF f = x THEN "firing" ELSE delivery[f]]
        /\ UNCHANGED <<states, flushing>>

\* The batch with an item more, the oldest ones shed if it is too long; the shed
\* fires have failed.
Enqueue(x) ==
    LET items == Append(batch, x)
        excess == IF Len(items) > MAX_QUEUED_EVENT_FIRES_PER_AUTOMATION
                  THEN Len(items) - MAX_QUEUED_EVENT_FIRES_PER_AUTOMATION ELSE 0
        shed == {f \in Fires : \E i \in 1..excess : items[i] = f}
    IN  /\ batch' = SubSeq(items, excess + 1, Len(items))
        /\ timer' = ~flushing
        /\ states' = [f \in Fires |-> IF f \in shed THEN "failed" ELSE states[f]]
        /\ delivery' = [f \in Fires |-> IF f \in shed THEN "reporting"
                                        ELSE IF f = x THEN "firing" ELSE delivery[f]]
        /\ UNCHANGED flushing

\* deliver calls fireForEvent.
DeliveryOfEvent(f) == /\ f \in EventFires /\ delivery[f] = "listing" /\ ~stopped /\ ~Known(f)
                      /\ Enqueue(f)
                      /\ UNCHANGED <<server, records, stopped, tick, runs, locals, upsets, history>>

\* The trigger hub hands an event of a local source over.
LocalEvent(x) == /\ x \in locals
                 /\ locals' = locals \ {x}
                 /\ Enqueue(x)
                 /\ UNCHANGED <<server, records, stopped, tick, runs, upsets, history>>

IsSchedule(r) == r.fires[1] \in ScheduleFires
InFlight == \E r \in runs : IsSchedule(r) /\ r.stage # "abandoned"

\* deliver calls fire: refused while another fire of the routine is in flight.
DeliveryOfSchedule(f) ==
    /\ f \in ScheduleFires /\ delivery[f] = "listing" /\ ~stopped /\ ~Known(f) /\ ~InFlight
    /\ runs' = runs \cup {[fires |-> <<f>>, stage |-> "waiting"]}
    /\ delivery' = [delivery EXCEPT ![f] = "firing"]
    /\ UNCHANGED <<server, records, stopped, tick, states, queue, locals, upsets, history>>

DeliveryWhileInFlight(f) ==
    /\ f \in ScheduleFires /\ delivery[f] = "listing" /\ ~stopped /\ ~Known(f) /\ InFlight
    /\ Abandon(f) /\ UNCHANGED upsets

\* The report of a delivery is answered.
ReportAnswered(f) == /\ delivery[f] = "reporting"
                     /\ Served(f)
                     /\ states' = [states EXCEPT ![f] = "reported"]
                     /\ delivery' = [delivery EXCEPT ![f] = "none"]
                     /\ UNCHANGED <<records, stopped, tick, queue, runs, locals, upsets, history>>

\* Fault: a report that is lost is taken for one that was answered.
ReportLostUnseen(f) == /\ delivery[f] = "reporting"
                       /\ Upset
                       /\ Served(f) \/ UNCHANGED server
                       /\ states' = [states EXCEPT ![f] = "reported"]
                       /\ delivery' = [delivery EXCEPT ![f] = "none"]
                       /\ UNCHANGED <<records, stopped, tick, queue, runs, locals, history>>

\* The report, or its answer, is lost: the next tick repeats it.
ReportLost(f) == /\ delivery[f] = "reporting"
                 /\ Upset
                 /\ Served(f) \/ UNCHANGED server
                 /\ delivery' = [delivery EXCEPT ![f] = "none"]
                 /\ UNCHANGED <<records, stopped, tick, states, queue, runs, locals, history>>

-------------------------------------------------------------------------------
(* Runs *)

\* flushEventBatch
Flush ==
    LET n == IF Len(batch) < MAX_EVENTS_IN_AUTOMATION_WAKE THEN Len(batch) ELSE MAX_EVENTS_IN_AUTOMATION_WAKE
    IN  /\ timer
        /\ runs' = runs \cup {[fires |-> SubSeq(batch, 1, n), stage |-> "waiting"]}
        /\ batch' = SubSeq(batch, n + 1, Len(batch))
        /\ timer' = FALSE
        /\ flushing' = TRUE
        /\ UNCHANGED <<server, records, stopped, tick, states, delivery, locals, upsets, history>>

Occupying == {"active", "ok", "error"}

\* The body of a run starts: the queue of the agent runs one at a time.
RunStarts(r) ==
    /\ r \in runs /\ r.stage = "waiting"
    /\ \A other \in runs : other.stage \notin Occupying
    /\ runs' = (runs \ {r}) \cup {[r EXCEPT !.stage = "active"]}
    /\ BeginRun(r)
    /\ UNCHANGED <<server, stopped, tick, states, delivery, queue, locals, upsets, finished, done>>

\* Fault: the remaining items get no timer.
SettleWithoutRearm(r, end) ==
    /\ states' = [f \in Fires |-> IF f \in FiresOf(r) THEN end ELSE states[f]]
    /\ delivery' = [f \in Fires |-> IF f \notin FiresOf(r) THEN delivery[f]
                                    ELSE IF end = "absent" THEN "none" ELSE "reporting"]
    /\ flushing' = (flushing /\ IsSchedule(r))
    /\ UNCHANGED <<batch, timer>>

\* The call returns: its fires have ended, or are not known any more; the rest of the
\* batch is flushed next.
Settle(r, end) ==
    /\ states' = [f \in Fires |-> IF f \in FiresOf(r) THEN end ELSE states[f]]
    /\ delivery' = [f \in Fires |-> IF f \notin FiresOf(r) THEN delivery[f]
                                    ELSE IF end = "absent" THEN "none" ELSE "reporting"]
    /\ IF IsSchedule(r) THEN UNCHANGED <<timer, flushing>>
       ELSE flushing' = FALSE /\ timer' = (batch # <<>>)
    /\ UNCHANGED batch

\* The call returns without a run: no session, routine gone or paused, queue full.
RunDropped(r) == /\ r \in runs /\ r.stage = "waiting"
                 /\ Upset
                 /\ runs' = runs \ {r}
                 /\ Settle(r, "absent")
                 /\ UNCHANGED <<server, records, stopped, tick, locals, history>>

\* The runner returns and the record is finished, also of a run that was given up.
RunEnds(r, status) ==
    /\ r \in runs /\ r.stage \in {"active", "abandoned"}
    /\ runs' = (runs \ {r}) \cup (IF r.stage = "active" THEN {[r EXCEPT !.stage = status]} ELSE {})
    /\ FinishRun(r, status)
    /\ UNCHANGED <<server, stopped, tick, states, delivery, queue, locals, upsets>>

\* fireAutomation returns, after the awaits that follow the end of the run.
RunReturns(r) == /\ r \in runs /\ r.stage \in {"ok", "error"}
                 /\ runs' = runs \ {r}
                 /\ Settle(r, IF r.stage = "ok" THEN "succeeded" ELSE "failed")
                 /\ UNCHANGED <<server, records, stopped, tick, locals, upsets, history>>

\* The watchdog of the queue gives the run up: fireAutomation returns "error".
RunEscaped(r) == /\ r \in runs /\ r.stage \in Occupying
                 /\ Upset
                 /\ runs' = (runs \ {r}) \cup
                        (IF r.stage = "active" THEN {[r EXCEPT !.stage = "abandoned"]} ELSE {})
                 /\ Settle(r, "failed")
                 /\ UNCHANGED <<server, records, stopped, tick, locals, history>>

-------------------------------------------------------------------------------
(* The environment *)

\* suspendWakes and resumeWakes
Stop == /\ ~stopped /\ Upset /\ stopped' = TRUE
        /\ UNCHANGED <<server, records, tick, states, delivery, queue, runs, locals, history>>
Start == /\ stopped /\ stopped' = FALSE
         /\ UNCHANGED <<server, records, tick, states, delivery, queue, runs, locals, upsets, history>>

\* The host dies and is started again.
Crash == /\ Upset
         /\ stopped' = FALSE
         /\ tick' = Idle
         /\ states' = [f \in Fires |-> "absent"]
         /\ delivery' = [f \in Fires |-> "none"]
         /\ batch' = <<>> /\ timer' = FALSE /\ flushing' = FALSE
         /\ runs' = {}
         /\ UNCHANGED <<server, records, locals, history>>

Delivering(f) == \/ DeliveryStopped(f) \/ DeliveryOfKnown(f) \/ DeliveryOfEvent(f)
                 \/ DeliveryOfSchedule(f) \/ DeliveryWhileInFlight(f)
                 \/ ReportAnswered(f)
Running(r) == RunStarts(r) \/ RunReturns(r) \/ \E status \in {"ok", "error"} : RunEnds(r, status)

Next == \/ PollServed \/ PollFailed \/ PollReceived \/ TickDone
        \/ \E f \in Fires : \/ TickReports(f) \/ Delivering(f)
                            \/ DeliveryFailed(f) \/ DeliveryRejected(f) \/ ReportLost(f)
        \/ \E x \in LocalEvents : LocalEvent(x)
        \/ Flush
        \/ \E r \in runs : Running(r) \/ RunDropped(r) \/ RunEscaped(r)
        \/ Stop \/ Start \/ Crash

Spec == Init /\ [][Next]_vars

\* The hub ticks for ever, the server answers, requests and lists come back, timers
\* go off, runs end and a suspended host is resumed; what may fail does so at most
\* MaxUpsets times.
Fairness == /\ WF_vars(PollServed \/ PollReceived \/ TickDone \/ \E f \in Fires : TickReports(f))
            /\ \A f \in Fires : WF_vars(Delivering(f))
            /\ WF_vars(Flush)
            /\ WF_vars(\E r \in runs : Running(r))
            /\ WF_vars(Start)

FairSpec == Spec /\ Fairness

-------------------------------------------------------------------------------
(* Properties *)

TypeOK ==
    /\ server \in [Fires -> {"pending", "gone"} \cup Completed]
    /\ records \in Seq([id : Fires \cup LocalEvents, also : SUBSET Fires, status : {"running", "ok", "error"}])
    /\ Len(records) <= AUTOMATION_MAX_RUN_HISTORY
    /\ tick \in [phase : {"idle", "answered", "reporting"}, fires : SUBSET Fires]
    /\ states \in [Fires -> {"absent", "running", "reported"} \cup Completed]
    /\ delivery \in [Fires -> {"none", "listing", "firing", "reporting"}]
    /\ batch \in Seq(Items) /\ Len(batch) <= MAX_QUEUED_EVENT_FIRES_PER_AUTOMATION
    /\ runs \subseteq [fires : Seq(Items \cup ScheduleFires),
                       stage : {"waiting", "abandoned"} \cup Occupying]
    /\ stopped \in BOOLEAN /\ timer \in BOOLEAN /\ flushing \in BOOLEAN
    /\ locals \subseteq LocalEvents /\ upsets \in 0..MaxUpsets
    /\ finished \cup done \cup misnamed \cup forgotten \subseteq Fires \cup LocalEvents

\* The places where the outcome of f is awaited: the batch, and the calls of
\* fireAutomation that nobody has given up.
Places(f) == Cardinality({i \in DOMAIN batch : batch[i] = f})
             + Cardinality({r \in runs : f \in FiresOf(r) /\ r.stage # "abandoned"})

\* A delivery that awaits an outcome is held in one place, from which the outcome
\* will come, and nothing is held there for anybody else: whatever is shed, dropped,
\* given up or flushed meanwhile.
HeldOnce == \A f \in Fires : Places(f) = (IF delivery[f] = "firing" THEN 1 ELSE 0)

\* A batch with items is waiting for its timer or for the flush that goes on, and
\* that flush is a call which will return.
BatchMoves == /\ batch # <<>> => timer \/ flushing
              /\ flushing => \E r \in runs : ~IsSchedule(r) /\ r.stage # "abandoned"

\* Each delivery is in one place and on its way from there.
DeliveriesHeld == HeldOnce /\ BatchMoves

\* The consumer takes a fire for reported, and tells so, only when the server
\* knows how it has ended: a report that was lost is repeated.
ReportedIsKnown == \A f \in Fires : states[f] = "reported" => server[f] \in {"gone"} \cup Completed

\* The server is told of a success only if a run that had this fire's event ended
\* well, across restarts and batches of different make-up: unless a restarted batch
\* took over the record of another one.
SuccessIsTrue == \A f \in Fires : server[f] = "succeeded" => f \in done \cup misnamed

\* A fire whose run was finished is not run again, whatever reports are lost and
\* whenever the host restarts: unless its record has left the history, or the record
\* was another batch's.
FinishedIsNotRerun ==
    [][\A r \in runs' \ runs :
          r.stage = "active" => FiresOf(r) \cap finished \subseteq misnamed \cup forgotten]_vars

\* In the end the server knows how every fire has ended, and the consumer remembers
\* none: a fire is neither left pending nor kept.
FiresSettle == \A f \in Fires : []<>(server[f] # "pending" /\ states[f] = "absent")
================================================================================
