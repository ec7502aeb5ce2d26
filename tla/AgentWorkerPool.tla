---------------------------- MODULE AgentWorkerPool ----------------------------
(***************************************************************************)
(* AgentWorkerPool and AgentWorkerConnection, which give every database of *)
(* conversation blobs a worker thread of its own                           *)
(* (source/host/agent-isolation/agent-worker-pool.ts), and what the worker *)
(* answers (agent-store-worker.ts).                                        *)
(*                                                                         *)
(* An operation retains its store, asks ensure for a connection, sends one *)
(* request and releases the store.  A worker may answer, fail, exit or say *)
(* nothing; a request that is not answered before its deadline retires the *)
(* whole connection.  Connections leave the pool when they die, for another*)
(* store when the pool is full, and when they are idle.                    *)
(*                                                                         *)
(* A connection is named by the operation whose ensure has spawned it.     *)
(* What is stored, and how long a connection has been idle, are left out:  *)
(* the victim of an eviction, which is the one that has been idle for      *)
(* longest, and the idle ones of a sweep are any that are not retained.    *)
(***************************************************************************)
EXTENDS Naturals, FiniteSets

CONSTANTS Ops,        \* calls of setBlob, getBlob, collectConversationGarbage...
          StoreOf,    \* the blobDbPath of each
          MaxWorkers,
          None

Stores == {StoreOf[o] : o \in Ops}
Close == "close"

ASSUME PoolAssumption == /\ IsFiniteSet(Ops) /\ None \notin Ops /\ Close \notin Ops
                         /\ MaxWorkers \in Nat \ {0}

VARIABLES phase,    \* how far each operation is
          pool,     \* connections: the connection of each store, or None
          active,   \* activeOps
          pending,  \* the requests of each connection that wait for an answer
          thread,   \* the worker thread of each connection
          dead,     \* connections with isDead
          via,      \* the connection each running operation was given
          sweeping, \* sweepTimer is set
          peak      \* history: the most stores ever retained at a time

vars == <<phase, pool, active, pending, thread, dead, via, sweeping, peak>>

Phases == {"new", "init", "given", "call", "done"}
Busy(o) == phase[o] \in {"init", "given", "call"}
Retained(s) == active[s] > 0
Pooled(p) == {s \in Stores : p[s] # None}

Init == /\ phase = [o \in Ops |-> "new"]
        /\ pool = [s \in Stores |-> None]
        /\ active = [s \in Stores |-> 0]
        /\ pending = [c \in Ops |-> {}]
        /\ thread = [c \in Ops |-> "none"]
        /\ dead = {}
        /\ via = [o \in Ops |-> None]
        /\ sweeping = FALSE
        /\ peak = 0

-------------------------------------------------------------------------------
(* Connections *)

\* Fault: an operation releases its store at each of its ends.
EndedTwice(S) ==
    /\ phase' = [o \in Ops |-> IF o \in S THEN "done" ELSE phase[o]]
    /\ active' = [s \in Stores |-> active[s] - 2 * Cardinality({o \in S : StoreOf[o] = s})]
    /\ via' = [o \in Ops |-> IF o \in S THEN None ELSE via[o]]

\* The operations of S come to an end: each releases its store.
Ended(S) ==
    /\ phase' = [o \in Ops |-> IF o \in S THEN "done" ELSE phase[o]]
    /\ active' = [s \in Stores |-> active[s] - Cardinality({o \in S : StoreOf[o] = s})]
    /\ via' = [o \in Ops |-> IF o \in S THEN None ELSE via[o]]

\* Fault: a dead connection is dropped, and the sweep goes on.
DroppedSweeping(c) ==
    /\ pool' = [pool EXCEPT ![StoreOf[c]] = IF @ = c THEN None ELSE @]
    /\ UNCHANGED sweeping

\* Fault: whatever connection the store has now is dropped.
DroppedUnseen(c) ==
    /\ pool' = [pool EXCEPT ![StoreOf[c]] = None]
    /\ sweeping' = (sweeping /\ Pooled(pool') # {})

\* Fault: the pool is not told.
DroppedNever(c) == UNCHANGED <<pool, sweeping>>

\* onExit: the connection leaves the pool, unless it has left it before.
Dropped(c) ==
    /\ pool' = [pool EXCEPT ![StoreOf[c]] = IF @ = c THEN None ELSE @]
    /\ sweeping' = (sweeping /\ Pooled(pool') # {})

\* die: every request that waits is rejected; that of a close as well, which
\* then terminates the thread.
Die(c) == /\ dead' = dead \cup {c}
          /\ Ended(pending[c] \ {Close})
          /\ pending' = [pending EXCEPT ![c] = {}]
          /\ Dropped(c)

\* close() of the connections of C that are not dead.
Closing(C) == pending' = [c \in Ops |-> IF c \in C \ dead THEN pending[c] \cup {Close} ELSE pending[c]]

-------------------------------------------------------------------------------
(* Operations *)

RetainedAlso(s) == /\ active' = [active EXCEPT ![s] = @ + 1]
                   /\ LET held == Cardinality({r \in Stores : active'[r] > 0})
                      IN  peak' = IF held > peak THEN held ELSE peak

\* retain, and an ensure that finds a connection.
BeginWithExisting(o) ==
    LET s == StoreOf[o]
    IN  /\ phase[o] = "new" /\ pool[s] # None
        /\ RetainedAlso(s)
        /\ phase' = [phase EXCEPT ![o] = "given"] /\ via' = [via EXCEPT ![o] = pool[s]]
        /\ UNCHANGED <<pool, pending, thread, dead, sweeping>>

\* Fault: one worker more than the pool may hold.
VictimsLate(s) == IF Cardinality(Pooled(pool)) <= MaxWorkers THEN {}
                  ELSE {r \in Pooled(pool) : active[r] = 0 /\ r # s}

\* evictForCapacity, for the spawn of a worker for s: the stores that may be
\* chosen.
Victims(s) == IF Cardinality(Pooled(pool)) < MaxWorkers THEN {}
              ELSE {r \in Pooled(pool) : ~Retained(r) /\ r # s}

\* retain, and an ensure that spawns a worker.
BeginWithNew(o) ==
    LET s == StoreOf[o]
        victims == Victims(s)
        Spawned(p, q) == /\ pool' = [p EXCEPT ![s] = o]
                         /\ pending' = [q EXCEPT ![o] = {o}]
    IN  /\ phase[o] = "new" /\ pool[s] = None
        /\ RetainedAlso(s)
        /\ phase' = [phase EXCEPT ![o] = "init"] /\ via' = [via EXCEPT ![o] = o]
        /\ thread' = [thread EXCEPT ![o] = "runs"]
        /\ sweeping' = TRUE
        /\ \/ victims = {} /\ Spawned(pool, pending)
           \/ \E v \in victims : Spawned([pool EXCEPT ![v] = None],
                                         [pending EXCEPT ![pool[v]] = @ \cup {Close}])
        /\ UNCHANGED dead

\* send, of the operation's own request.
Send(o) == /\ phase[o] = "given"
           /\ IF via[o] \in dead
              THEN Ended({o}) /\ UNCHANGED pending
              ELSE /\ pending' = [pending EXCEPT ![via[o]] = @ \cup {o}]
                   /\ phase' = [phase EXCEPT ![o] = "call"]
                   /\ UNCHANGED <<active, via>>
           /\ UNCHANGED <<pool, thread, dead, sweeping, peak>>

-------------------------------------------------------------------------------
(* Workers *)

\* The worker answers, for better or worse: an init is only answered well (a
\* worker that cannot open its database exits), anything else ends the operation.
Answered(c, o) ==
    /\ thread[c] = "runs" /\ o \in pending[c]
    /\ pending' = [pending EXCEPT ![c] = @ \ {o}]
    /\ IF phase[o] = "init"
       THEN phase' = [phase EXCEPT ![o] = "given"] /\ UNCHANGED <<active, via>>
       ELSE Ended({o})
    /\ UNCHANGED <<pool, thread, dead, sweeping, peak>>

\* The worker answers close: the thread ends, and is terminated.
CloseAnswered(c) ==
    /\ thread[c] = "runs" /\ Close \in pending[c]
    /\ pending' = [pending EXCEPT ![c] = @ \ {Close}]
    /\ thread' = [thread EXCEPT ![c] = "ending"]
    /\ UNCHANGED <<phase, pool, active, dead, via, sweeping, peak>>

\* Fault: the request is forgotten before the connection dies.
DeadlineForgetting(c, r) ==
    /\ r \in pending[c]
    /\ dead' = dead \cup {c}
    /\ Ended(pending[c] \ {r, Close})
    /\ pending' = [pending EXCEPT ![c] = {}]
    /\ Dropped(c)
    /\ thread' = [thread EXCEPT ![c] = "ending"]
    /\ UNCHANGED peak

\* Fault: the thread that does not answer is left alone.
DeadlineLeaving(c, r) == r \in pending[c] /\ Die(c) /\ UNCHANGED <<thread, peak>>

\* The timer of a request: the connection dies and its thread is terminated.
Deadline(c, r) ==
    /\ r \in pending[c]
    /\ Die(c)
    /\ thread' = [thread EXCEPT ![c] = "ending"]
    /\ UNCHANGED peak

\* The thread fails or ends: the error and exit events.
ThreadEnds(c) ==
    /\ thread' = [thread EXCEPT ![c] = "gone"]
    /\ IF c \in dead THEN UNCHANGED <<phase, pool, active, pending, dead, via, sweeping>> ELSE Die(c)
    /\ UNCHANGED peak

Fails(c) == thread[c] = "runs" /\ ThreadEnds(c)
Exits(c) == thread[c] = "ending" /\ ThreadEnds(c)

-------------------------------------------------------------------------------
(* Closing *)

\* Fault: an idle worker is taken for one that nobody uses.
SweepIdleAny(idle) ==
    /\ sweeping /\ idle \subseteq Pooled(pool)
    /\ pool' = [s \in Stores |-> IF s \in idle THEN None ELSE pool[s]]
    /\ Closing({pool[s] : s \in idle})
    /\ sweeping' = (Pooled(pool') # {})
    /\ UNCHANGED <<phase, active, thread, dead, via, peak>>

\* sweepIdle, when the workers of the stores idle have been so for long.
SweepIdle(idle) ==
    /\ sweeping /\ idle \subseteq {s \in Pooled(pool) : ~Retained(s)}
    /\ pool' = [s \in Stores |-> IF s \in idle THEN None ELSE pool[s]]
    /\ Closing({pool[s] : s \in idle})
    /\ sweeping' = (Pooled(pool') # {})
    /\ UNCHANGED <<phase, active, thread, dead, via, peak>>

\* closeStore looks neither at activeOps nor at requests.
CloseStore(s) ==
    /\ pool[s] # None
    /\ pool' = [pool EXCEPT ![s] = None]
    /\ Closing({pool[s]})
    /\ sweeping' = (sweeping /\ Pooled(pool') # {})
    /\ UNCHANGED <<phase, active, thread, dead, via, peak>>

CloseAll ==
    /\ Pooled(pool) # {}
    /\ pool' = [s \in Stores |-> None]
    /\ Closing({pool[s] : s \in Pooled(pool)})
    /\ sweeping' = FALSE
    /\ UNCHANGED <<phase, active, thread, dead, via, peak>>

Next == \/ \E o \in Ops : BeginWithExisting(o) \/ BeginWithNew(o) \/ Send(o)
        \/ \E c, o \in Ops : Answered(c, o)
        \/ \E c \in Ops : CloseAnswered(c) \/ Fails(c) \/ Exits(c)
        \/ \E c \in Ops, r \in Ops \cup {Close} : Deadline(c, r)
        \/ \E idle \in SUBSET Stores : SweepIdle(idle)
        \/ (\E s \in Stores : CloseStore(s)) \/ CloseAll

Spec == Init /\ [][Next]_vars

\* Microtasks and timers run, terminated threads exit, and a worker that is not
\* used is idle for long in the end.  Workers owe no answer.
Fairness == /\ WF_vars(\E o \in Ops : Send(o))
            /\ WF_vars(\E c \in Ops, r \in Ops \cup {Close} : Deadline(c, r))
            /\ WF_vars(\E c \in Ops : Exits(c))
            /\ WF_vars(\E idle \in SUBSET Stores \ {{}} : SweepIdle(idle))

FairSpec == Spec /\ Fairness

-------------------------------------------------------------------------------
(* Properties *)

TypeOK == /\ phase \in [Ops -> Phases]
          /\ pool \in [Stores -> Ops \cup {None}]
          /\ active \in [Stores -> Nat]
          /\ pending \in [Ops -> SUBSET (Ops \cup {Close})]
          /\ thread \in [Ops -> {"none", "runs", "ending", "gone"}]
          /\ dead \subseteq Ops
          /\ via \in [Ops -> Ops \cup {None}]
          /\ sweeping \in BOOLEAN
          /\ peak \in Nat

\* A connection in the pool can be used: it is neither dead nor being closed, so
\* no new operation is given a worker that is on its way out.
PooledIsUsable ==
    \A s \in Pooled(pool) : pool[s] \notin dead /\ Close \notin pending[pool[s]]
                            /\ thread[pool[s]] = "runs"

\* A thread the pool no longer knows is being closed: nothing else would ever
\* end it, and it holds the database open.
NoLostThread ==
    \A c \in Ops : thread[c] = "runs" => pool[StoreOf[c]] = c \/ Close \in pending[c]

\* The timer of the sweep runs exactly while there is something to sweep.
SweepCovers == sweeping <=> Pooled(pool) # {}

\* The pool outgrows its bound only as far as stores had to be served at the
\* same time.
PoolBounded == LET size == Cardinality(Pooled(pool))
               IN  size <= MaxWorkers \/ size <= peak

\* What is pooled can be used, what is not is ending, and the pool keeps to its
\* size, whatever the workers do.
PoolConsistent == TypeOK /\ PooledIsUsable /\ NoLostThread /\ SweepCovers /\ PoolBounded

\* Neither an eviction nor a sweep closes a worker that an operation uses, be it
\* initialised, just given, or asked.
InUseIsKept ==
    [][\A c \in Ops : (Close \in pending'[c] \ pending[c] /\ \E o \in Ops : Busy(o) /\ via[o] = c)
                         => CloseStore(StoreOf[c]) \/ CloseAll]_vars

\* Every operation comes to an end, whatever its worker does.  (Each runs once, so
\* this is that all the begun ones are over again and again.)
OpsEnd == []<>(\A o \in Ops : ~Busy(o))

\* Every thread ends, also one that does not answer, once nobody uses it.
ThreadsEnd == []<>(\A c \in Ops : thread[c] # "runs")

\* Nothing waits for ever for a worker, and no worker for ever for work.
NothingHangs == OpsEnd /\ ThreadsEnd
================================================================================
