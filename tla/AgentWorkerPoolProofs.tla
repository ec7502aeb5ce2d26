------------------------- MODULE AgentWorkerPoolProofs -------------------------
(***************************************************************************)
(* Safety of AgentWorkerPool for any number of operations, any stores and  *)
(* any size of the pool.                                                   *)
(*                                                                         *)
(* The invariant WInv adds to the properties what they rest on: activeOps  *)
(* counts the operations of each store (ActiveExact), a request in flight  *)
(* belongs to an operation that awaits it (PendingSound), an operation has *)
(* a connection to its own store (ViaSound), the pool holds each           *)
(* connection under its own store (PoolSound), and a connection not yet    *)
(* spawned has left no trace (FreshSound).                                 *)
(***************************************************************************)
EXTENDS AgentWorkerPool, FiniteSetTheorems, TLAPS

Threads == {"none", "runs", "ending", "gone"}

UsersOf(s) == {o \in Ops : Busy(o) /\ StoreOf[o] = s}

ActiveExact == \A s \in Stores : active[s] = Cardinality(UsersOf(s))

PendingSound == \A c, o \in Ops : o \in pending[c] => phase[o] \in {"init", "call"} /\ via[o] = c

ViaSound == \A o \in Ops : Busy(o) => /\ via[o] \in Ops
                                      /\ StoreOf[via[o]] = StoreOf[o]
                                      /\ phase[via[o]] # "new"

PoolSound == \A s \in Stores : pool[s] # None => StoreOf[pool[s]] = s

FreshSound == \A o \in Ops : phase[o] = "new" => thread[o] = "none" /\ o \notin dead /\ pending[o] = {}

\* The parts of WInv that speak of operations, and those that speak of connections.
OpsSound == ActiveExact /\ PendingSound /\ ViaSound
ConnsSound == PoolSound /\ FreshSound /\ PooledIsUsable /\ NoLostThread /\ SweepCovers

WInv == TypeOK /\ OpsSound /\ ConnsSound

-------------------------------------------------------------------------------
(* Counting *)

\* Taking a subset away takes away its size.
LEMMA CardinalityMinus ==
    ASSUME NEW A, IsFiniteSet(A), NEW B \in SUBSET A
    PROVE  /\ Cardinality(A) \in Nat /\ Cardinality(B) \in Nat /\ Cardinality(A \ B) \in Nat
           /\ Cardinality(A \ B) = Cardinality(A) - Cardinality(B)
<1>1. IsFiniteSet(B) /\ IsFiniteSet(A \ B)
  BY FS_Subset
<1>2. /\ Cardinality(A) \in Nat /\ Cardinality(B) \in Nat /\ Cardinality(A \ B) \in Nat
  BY <1>1, FS_CardinalityType
<1>3. (A \ B) \cup B = A /\ (A \ B) \cap B = {}
  OBVIOUS
<1>4. Cardinality((A \ B) \cup B) = Cardinality(A \ B) + Cardinality(B) - Cardinality((A \ B) \cap B)
  BY <1>1, FS_Union
<1>5. Cardinality(A) = Cardinality(A \ B) + Cardinality(B) - Cardinality({})
  BY <1>3, <1>4, Zenon
<1> DEFINE a == Cardinality(A)
           b == Cardinality(B)
           d == Cardinality(A \ B)
<1>6. a = d + b - 0
  BY <1>5, FS_EmptySet, Zenon
<1> HIDE DEF a, b, d
<1>7. d = a - b
  BY <1>2, <1>6 DEF a, b, d
<1> QED
  BY <1>2, <1>7 DEF a, b, d

\* The operations that end are no longer counted for their stores.
LEMMA EndedEffect ==
    ASSUME TypeOK, ActiveExact, NEW S \in SUBSET Ops, \A o \in S : Busy(o), Ended(S)
    PROVE  /\ phase' \in [Ops -> Phases] /\ via' \in [Ops -> Ops \cup {None}]
           /\ active' \in [Stores -> Nat] /\ ActiveExact'
           /\ \A o \in Ops : /\ phase'[o] = (IF o \in S THEN "done" ELSE phase[o])
                             /\ via'[o] = (IF o \in S THEN None ELSE via[o])
<1>1. /\ phase' = [o \in Ops |-> IF o \in S THEN "done" ELSE phase[o]]
      /\ via' = [o \in Ops |-> IF o \in S THEN None ELSE via[o]]
      /\ active' = [s \in Stores |-> active[s] - Cardinality({o \in S : StoreOf[o] = s})]
  BY DEF Ended
<1>2. phase' \in [Ops -> Phases] /\ via' \in [Ops -> Ops \cup {None}]
  BY <1>1 DEF TypeOK, Phases
<1>3. ASSUME NEW s \in Stores
      PROVE  active'[s] \in Nat /\ active'[s] = Cardinality(UsersOf(s)')
  <2> DEFINE ending == {o \in S : StoreOf[o] = s}
  <2>1. ending \in SUBSET UsersOf(s)
    BY DEF UsersOf
  <2>2. IsFiniteSet(UsersOf(s))
    BY PoolAssumption, FS_Subset DEF UsersOf
  <2>3. UsersOf(s)' = UsersOf(s) \ ending
    BY <1>1 DEF UsersOf, Busy
  <2>4. /\ Cardinality(UsersOf(s) \ ending) = Cardinality(UsersOf(s)) - Cardinality(ending)
        /\ Cardinality(UsersOf(s) \ ending) \in Nat
    BY <2>1, <2>2, CardinalityMinus
  <2> QED
    BY <1>1, <2>3, <2>4 DEF ActiveExact
<1>4. active' \in [Stores -> Nat] /\ ActiveExact'
  BY <1>1, <1>3 DEF ActiveExact
<1> QED
  BY <1>1, <1>2, <1>4

LEMMA StoresFinite == IsFiniteSet(Stores)
<1> DEFINE f == [o \in Ops |-> StoreOf[o]]
<1>1. f \in Surjection(Ops, Stores)
  BY DEF Surjection, Stores
<1> QED
  BY <1>1, PoolAssumption, FS_Surjection

\* An operation that begins is counted for its store, and the peak with it.
LEMMA RetainEffect ==
    ASSUME TypeOK, ActiveExact, NEW o \in Ops, phase[o] = "new", RetainedAlso(StoreOf[o]),
           NEW p \in {"init", "given"}, phase' = [phase EXCEPT ![o] = p]
    PROVE  /\ phase' \in [Ops -> Phases] /\ active' \in [Stores -> Nat] /\ ActiveExact'
           /\ active' = [active EXCEPT ![StoreOf[o]] = @ + 1]
           /\ peak' \in Nat /\ peak' >= peak
           /\ peak' >= Cardinality({r \in Stores : active'[r] > 0})
<1> DEFINE s == StoreOf[o]
           held == Cardinality({r \in Stores : active'[r] > 0})
<1>1. s \in Stores
  BY DEF Stores
<1>2. active' = [active EXCEPT ![s] = @ + 1] /\ peak' = (IF held > peak THEN held ELSE peak)
  BY DEF RetainedAlso
<1>3. held \in Nat
  BY StoresFinite, FS_Subset, FS_CardinalityType
<1>4. /\ UsersOf(s)' = UsersOf(s) \cup {o} /\ o \notin UsersOf(s)
      /\ \A r \in Stores : r # s => UsersOf(r)' = UsersOf(r)
  BY DEF UsersOf, Busy, TypeOK
<1>5. Cardinality(UsersOf(s)') = Cardinality(UsersOf(s)) + 1
  <2>1. IsFiniteSet(UsersOf(s))
    BY PoolAssumption, FS_Subset DEF UsersOf
  <2> QED
    BY <1>4, <2>1, FS_AddElement
<1>6. ASSUME NEW r \in Stores PROVE active'[r] \in Nat /\ active'[r] = Cardinality(UsersOf(r)')
  <2>1. active[r] \in Nat /\ active[r] = Cardinality(UsersOf(r))
    BY DEF ActiveExact, TypeOK
  <2>2. active'[r] = IF r = s THEN active[r] + 1 ELSE active[r]
    BY <1>2 DEF TypeOK
  <2>3. CASE r = s
    BY <1>5, <2>1, <2>2, <2>3
  <2>4. CASE r # s
    BY <1>4, <2>1, <2>2, <2>4
  <2> QED
    BY <2>3, <2>4
<1>7. active' \in [Stores -> Nat] /\ ActiveExact'
  BY <1>2, <1>6 DEF ActiveExact, TypeOK
<1>8. phase' \in [Ops -> Phases]
  BY DEF TypeOK, Phases
<1> HIDE DEF held
<1>9. peak' \in Nat /\ peak' >= peak /\ peak' >= held
  BY <1>2, <1>3 DEF TypeOK
<1> QED
  BY <1>2, <1>7, <1>8, <1>9 DEF held

-------------------------------------------------------------------------------
(* Connections *)

\* A connection that dies takes its operations along and leaves the pool sound.
LEMMA DieEffect ==
    ASSUME WInv, NEW c \in Ops, phase[c] # "new", Die(c),
           NEW x \in {"ending", "gone"}, thread' = [thread EXCEPT ![c] = x], peak' = peak
    PROVE  WInv'
<1> USE PoolAssumption
<1> DEFINE S == pending[c] \ {Close}
<1>1. TypeOK /\ ActiveExact /\ PendingSound /\ ViaSound /\ ConnsSound
  BY DEF WInv, OpsSound
<1>2. S \in SUBSET Ops /\ \A o \in S : Busy(o) /\ o \in pending[c]
  BY <1>1 DEF TypeOK, PendingSound, Busy
<1>3. /\ dead' = dead \cup {c} /\ Ended(S)
      /\ pending' = [pending EXCEPT ![c] = {}]
      /\ pool' = [pool EXCEPT ![StoreOf[c]] = IF @ = c THEN None ELSE @]
      /\ sweeping' = (sweeping /\ Pooled(pool') # {})
  BY DEF Die, Dropped
<1> HIDE DEF S
<1>4. /\ phase' \in [Ops -> Phases] /\ via' \in [Ops -> Ops \cup {None}]
      /\ active' \in [Stores -> Nat] /\ ActiveExact'
      /\ \A o \in Ops : /\ phase'[o] = (IF o \in S THEN "done" ELSE phase[o])
                        /\ via'[o] = (IF o \in S THEN None ELSE via[o])
  BY <1>1, <1>2, <1>3, EndedEffect
<1>5. TypeOK'
  BY <1>1, <1>3, <1>4 DEF TypeOK, Stores
<1>6. PendingSound'
  BY <1>1, <1>2, <1>3, <1>4 DEF PendingSound, TypeOK, S
<1>7. ViaSound'
  BY <1>1, <1>2, <1>4 DEF ViaSound, Busy
<1>8. \A s \in Stores : pool'[s] = IF s = StoreOf[c] /\ pool[s] = c THEN None ELSE pool[s]
  BY <1>1, <1>3 DEF TypeOK
<1>9. PoolSound' /\ SweepCovers'
  <2>1. PoolSound'
    BY <1>1, <1>8 DEF PoolSound, ConnsSound
  <2>2. Pooled(pool') \subseteq Pooled(pool)
    BY <1>8 DEF Pooled
  <2>3. sweeping \in BOOLEAN /\ (sweeping <=> Pooled(pool) # {})
    BY <1>1 DEF TypeOK, ConnsSound, SweepCovers
  <2>4. SweepCovers'
    BY <1>3, <2>2, <2>3, Zenon DEF SweepCovers
  <2> QED
    BY <2>1, <2>4
<1>10. FreshSound'
  BY <1>1, <1>3, <1>4 DEF FreshSound, ConnsSound, TypeOK
<1>11. PooledIsUsable'
  BY <1>1, <1>3, <1>8 DEF PooledIsUsable, Pooled, PoolSound, ConnsSound, TypeOK
<1>12. NoLostThread'
  BY <1>1, <1>3, <1>8 DEF NoLostThread, ConnsSound, TypeOK, Stores
<1> QED
  BY <1>4, <1>5, <1>6, <1>7, <1>9, <1>10, <1>11, <1>12 DEF WInv, OpsSound, ConnsSound

\* Closing connections that leave the pool: they are asked to close, and nothing
\* else is.
LEMMA CloseEffect ==
    ASSUME WInv, NEW R \in SUBSET Pooled(pool),
           pool' = [s \in Stores |-> IF s \in R THEN None ELSE pool[s]],
           Closing({pool[s] : s \in R}), sweeping' = (Pooled(pool') # {}),
           UNCHANGED <<phase, active, thread, dead, via, peak>>
    PROVE  WInv'
<1> USE PoolAssumption
<1>1. TypeOK /\ ActiveExact /\ PendingSound /\ ViaSound /\ ConnsSound
  BY DEF WInv, OpsSound
<1>2. \A c \in Ops : pending'[c] = IF \E s \in R : c = pool[s] THEN pending[c] \cup {Close} ELSE pending[c]
  <2> SUFFICES ASSUME NEW c \in Ops
               PROVE  pending'[c] = IF \E s \in R : c = pool[s] THEN pending[c] \cup {Close} ELSE pending[c]
    OBVIOUS
  <2>1. (\E s \in R : c = pool[s]) <=> c \in {pool[s] : s \in R} \ dead
    BY <1>1 DEF ConnsSound, PooledIsUsable
  <2>2. pending'[c] = IF c \in {pool[s] : s \in R} \ dead THEN pending[c] \cup {Close} ELSE pending[c]
    BY DEF Closing
  <2> QED
    BY <2>1, <2>2, Zenon
<1>3. TypeOK'
  BY <1>1 DEF TypeOK, Closing
<1>4. OpsSound'
  <2>1. ActiveExact'
    BY <1>1, Zenon DEF ActiveExact, UsersOf, Busy
  <2>2. ASSUME NEW c \in Ops, NEW o \in Ops, o \in pending'[c] PROVE o \in pending[c]
    <3>1. pending'[c] = pending[c] \/ pending'[c] = pending[c] \cup {Close}
      BY <1>2
    <3> QED
      BY <2>2, <3>1
  <2>3. PendingSound'
    BY <1>1, <2>2, Zenon DEF PendingSound
  <2>4. ViaSound'
    BY <1>1, Zenon DEF ViaSound, Busy
  <2> QED
    BY <2>1, <2>3, <2>4 DEF OpsSound
<1>5. PoolSound' /\ SweepCovers'
  <2>1. PoolSound'
    BY <1>1 DEF PoolSound, ConnsSound
  <2>2. SweepCovers'
    BY Zenon DEF SweepCovers
  <2> QED
    BY <2>1, <2>2
<1>6. FreshSound'
  BY <1>1, <1>2 DEF FreshSound, ConnsSound, PooledIsUsable
<1>7. PooledIsUsable'
  <2> SUFFICES ASSUME NEW s \in Stores, pool'[s] # None
               PROVE  pool[s] \notin dead /\ Close \notin pending'[pool[s]] /\ thread[pool[s]] = "runs"
                      /\ pool'[s] = pool[s]
    BY DEF PooledIsUsable, Pooled
  <2>1. s \notin R /\ pool'[s] = pool[s] /\ pool[s] \in Ops
    BY <1>1 DEF TypeOK
  <2>2. \A r \in R : pool[r] # pool[s]
    BY <1>1, <2>1 DEF ConnsSound, PoolSound, Pooled
  <2>3. pool[s] \notin dead /\ Close \notin pending[pool[s]] /\ thread[pool[s]] = "runs"
    BY <1>1, <2>1 DEF ConnsSound, PooledIsUsable, Pooled
  <2> QED
    BY <1>2, <2>1, <2>2, <2>3
<1>8. NoLostThread'
  <2> SUFFICES ASSUME NEW c \in Ops, thread[c] = "runs"
               PROVE  pool'[StoreOf[c]] = c \/ Close \in pending'[c]
    BY DEF NoLostThread
  <2>1. pool[StoreOf[c]] = c \/ Close \in pending[c]
    BY <1>1 DEF ConnsSound, NoLostThread
  <2>2. StoreOf[c] \in Stores
    BY DEF Stores
  <2>3. StoreOf[c] \in R /\ pool[StoreOf[c]] = c => Close \in pending'[c]
    BY <1>2
  <2>4. Close \in pending[c] => Close \in pending'[c]
    BY <1>2
  <2> QED
    BY <2>1, <2>2, <2>3, <2>4
<1> QED
  BY <1>3, <1>4, <1>5, <1>6, <1>7, <1>8 DEF WInv, ConnsSound

-------------------------------------------------------------------------------
(* Operations *)

\* An operation that is given the connection of its store.
LEMMA BeginWithExistingStep ==
    ASSUME WInv, NEW o \in Ops, BeginWithExisting(o)
    PROVE  WInv'
<1> USE PoolAssumption
<1> DEFINE s == StoreOf[o]
<1>1. TypeOK /\ ActiveExact /\ PendingSound /\ ViaSound /\ ConnsSound /\ s \in Stores
  BY DEF WInv, OpsSound, Stores
<1>2. /\ phase[o] = "new" /\ pool[s] # None /\ RetainedAlso(s)
      /\ phase' = [phase EXCEPT ![o] = "given"] /\ via' = [via EXCEPT ![o] = pool[s]]
      /\ pool' = pool /\ pending' = pending /\ thread' = thread /\ dead' = dead
      /\ sweeping' = sweeping
  BY DEF BeginWithExisting
<1>3. /\ phase' \in [Ops -> Phases] /\ active' \in [Stores -> Nat] /\ ActiveExact' /\ peak' \in Nat
  BY <1>1, <1>2, RetainEffect
<1>4. pool[s] \in Ops /\ StoreOf[pool[s]] = s /\ thread[pool[s]] = "runs"
  BY <1>1, <1>2 DEF TypeOK, ConnsSound, PoolSound, PooledIsUsable, Pooled
<1>5. phase[pool[s]] # "new" /\ pool[s] # o
  BY <1>1, <1>2, <1>4 DEF ConnsSound, FreshSound
<1>6. TypeOK'
  BY <1>1, <1>2, <1>3, <1>4 DEF TypeOK
<1>7. PendingSound'
  BY <1>1, <1>2 DEF PendingSound, TypeOK
<1>8. ViaSound'
  BY <1>1, <1>2, <1>4, <1>5 DEF ViaSound, Busy, TypeOK
<1>9. FreshSound'
  BY <1>1, <1>2 DEF ConnsSound, FreshSound, TypeOK
<1>10. PoolSound' /\ PooledIsUsable' /\ NoLostThread' /\ SweepCovers'
  BY <1>1, <1>2, Zenon DEF ConnsSound, PoolSound, PooledIsUsable, NoLostThread, SweepCovers, Pooled
<1> QED
  BY <1>3, <1>6, <1>7, <1>8, <1>9, <1>10 DEF WInv, OpsSound, ConnsSound

\* What a spawn for o makes of the pool and of the requests, when the stores of V,
\* at most one, lose their connection.
SpawnShape(o, V) ==
    /\ V \subseteq {v \in Pooled(pool) : active[v] = 0 /\ v # StoreOf[o]}
    /\ \A v, w \in V : v = w
    /\ V = {} => Victims(StoreOf[o]) = {}
    /\ pool' \in [Stores -> Ops \cup {None}]
    /\ pending' \in [Ops -> SUBSET (Ops \cup {Close})]
    /\ \A r \in Stores : pool'[r] = IF r = StoreOf[o] THEN o ELSE IF r \in V THEN None ELSE pool[r]
    /\ \A c \in Ops : pending'[c] = IF c = o THEN {o}
                                    ELSE IF \E v \in V : c = pool[v] THEN pending[c] \cup {Close}
                                    ELSE pending[c]

LEMMA SpawnEffect ==
    ASSUME WInv, NEW o \in Ops, BeginWithNew(o)
    PROVE  \E V : SpawnShape(o, V)
<1> USE PoolAssumption
<1> DEFINE s == StoreOf[o]
<1>1. TypeOK /\ ConnsSound /\ s \in Stores /\ phase[o] = "new" /\ pool[s] = None
  BY DEF WInv, Stores, BeginWithNew
<1>2. ASSUME Victims(s) = {},
             pool' = [pool EXCEPT ![s] = o], pending' = [pending EXCEPT ![o] = {o}]
      PROVE  SpawnShape(o, {})
  <2>1. /\ pool' \in [Stores -> Ops \cup {None}] /\ pending' \in [Ops -> SUBSET (Ops \cup {Close})]
        /\ \A r \in Stores : pool'[r] = IF r = s THEN o ELSE pool[r]
        /\ \A c \in Ops : pending'[c] = IF c = o THEN {o} ELSE pending[c]
    BY <1>1, <1>2 DEF TypeOK
  <2> QED
    BY <1>2, <2>1 DEF SpawnShape
<1>3. ASSUME NEW v \in Victims(s),
             pool' = [[pool EXCEPT ![v] = None] EXCEPT ![s] = o],
             pending' = [[pending EXCEPT ![pool[v]] = @ \cup {Close}] EXCEPT ![o] = {o}]
      PROVE  SpawnShape(o, {v})
  <2>1. v \in Pooled(pool) /\ v # s /\ v \in Stores /\ active[v] = 0 /\ pool[v] \in Ops
    BY <1>1 DEF Victims, Retained, TypeOK, Pooled
  <2>2. pool' \in [Stores -> Ops \cup {None}] /\ pending' \in [Ops -> SUBSET (Ops \cup {Close})]
    BY <1>1, <1>3, <2>1 DEF TypeOK
  <2>3. \A r \in Stores : pool'[r] = IF r = s THEN o ELSE IF r = v THEN None ELSE pool[r]
    BY <1>1, <1>3, <2>1 DEF TypeOK
  <2>4. ASSUME NEW c \in Ops
        PROVE  pending'[c] = IF c = o THEN {o} ELSE IF c = pool[v] THEN pending[c] \cup {Close} ELSE pending[c]
    <3> DEFINE q == [pending EXCEPT ![pool[v]] = @ \cup {Close}]
    <3>1. q \in [Ops -> SUBSET (Ops \cup {Close})] /\ q[c] = IF c = pool[v] THEN pending[c] \cup {Close} ELSE pending[c]
      BY <1>1, <2>1 DEF TypeOK
    <3>2. pending' = [q EXCEPT ![o] = {o}]
      BY <1>3
    <3> HIDE DEF q
    <3> QED
      BY <3>1, <3>2
  <2> QED
    BY <2>1, <2>2, <2>3, <2>4 DEF SpawnShape
<1>4. \/ Victims(s) = {} /\ pool' = [pool EXCEPT ![s] = o] /\ pending' = [pending EXCEPT ![o] = {o}]
      \/ \E v \in Victims(s) : /\ pool' = [[pool EXCEPT ![v] = None] EXCEPT ![s] = o]
                               /\ pending' = [[pending EXCEPT ![pool[v]] = @ \cup {Close}] EXCEPT ![o] = {o}]
  BY DEF BeginWithNew
<1> QED
  BY <1>2, <1>3, <1>4

\* An operation that has a worker spawned.
LEMMA BeginWithNewStep ==
    ASSUME WInv, NEW o \in Ops, BeginWithNew(o)
    PROVE  WInv'
<1> USE PoolAssumption
<1> DEFINE s == StoreOf[o]
<1>1. TypeOK /\ ActiveExact /\ PendingSound /\ ViaSound /\ ConnsSound /\ s \in Stores
  BY DEF WInv, OpsSound, Stores
<1>2. /\ phase[o] = "new" /\ pool[s] = None /\ RetainedAlso(s)
      /\ phase' = [phase EXCEPT ![o] = "init"] /\ via' = [via EXCEPT ![o] = o]
      /\ thread' = [thread EXCEPT ![o] = "runs"] /\ sweeping' = TRUE /\ dead' = dead
  BY DEF BeginWithNew
<1>3. /\ phase' \in [Ops -> Phases] /\ active' \in [Stores -> Nat] /\ ActiveExact' /\ peak' \in Nat
  BY <1>1, <1>2, RetainEffect
<1>4. PICK V : SpawnShape(o, V)
  BY SpawnEffect
<1>5. \A r \in Stores : pool[r] # None => /\ pool[r] \in Ops /\ pool[r] # o /\ StoreOf[pool[r]] = r
                                        /\ thread[pool[r]] = "runs" /\ phase[pool[r]] # "new"
                                        /\ pool[r] \notin dead /\ Close \notin pending[pool[r]]
  BY <1>1, <1>2 DEF TypeOK, ConnsSound, PoolSound, PooledIsUsable, Pooled, FreshSound
<1>6. TypeOK'
  BY <1>1, <1>2, <1>3, <1>4 DEF TypeOK, SpawnShape
<1>7. PendingSound'
  <2> SUFFICES ASSUME NEW c \in Ops, NEW p \in Ops, p \in pending'[c]
               PROVE  phase'[p] \in {"init", "call"} /\ via'[p] = c
    BY DEF PendingSound
  <2>1. (c = o /\ p = o) \/ p \in pending[c]
    BY <1>4 DEF SpawnShape
  <2> QED
    BY <1>1, <1>2, <2>1 DEF PendingSound, TypeOK
<1>8. ViaSound'
  BY <1>1, <1>2 DEF ViaSound, Busy, TypeOK
<1>9. FreshSound'
  <2> SUFFICES ASSUME NEW p \in Ops, phase'[p] = "new"
               PROVE  thread'[p] = "none" /\ p \notin dead' /\ pending'[p] = {}
    BY DEF FreshSound
  <2>1. p # o /\ phase[p] = "new"
    BY <1>1, <1>2 DEF TypeOK
  <2>2. \A v \in V : p # pool[v]
    BY <1>4, <1>5, <2>1 DEF Pooled, SpawnShape
  <2> QED
    BY <1>1, <1>2, <1>4, <2>1, <2>2 DEF ConnsSound, FreshSound, TypeOK, SpawnShape
<1>10. PoolSound'
  BY <1>4, <1>5 DEF PoolSound, SpawnShape
<1>11. PooledIsUsable'
  <2> SUFFICES ASSUME NEW r \in Stores, pool'[r] # None
               PROVE  pool'[r] \notin dead' /\ Close \notin pending'[pool'[r]] /\ thread'[pool'[r]] = "runs"
    BY DEF PooledIsUsable, Pooled
  <2>1. CASE r = s
    <3>1. pool'[r] = o /\ pending'[o] = {o} /\ thread'[o] = "runs" /\ o \notin dead
      BY <1>1, <1>2, <1>4, <2>1 DEF ConnsSound, FreshSound, TypeOK, SpawnShape
    <3> QED
      BY <1>2, <3>1
  <2>2. CASE r # s
    <3>1. pool'[r] = pool[r] /\ r \notin V
      BY <1>4, <2>2 DEF SpawnShape
    <3>2. pool[r] \in Ops /\ pool[r] # o /\ \A v \in V : pool[r] # pool[v]
      BY <1>4, <1>5, <3>1 DEF Pooled, SpawnShape
    <3>3. pending'[pool[r]] = pending[pool[r]]
      BY <1>4, <3>2 DEF SpawnShape
    <3>4. thread'[pool[r]] = thread[pool[r]]
      BY <1>1, <1>2, <3>2 DEF TypeOK
    <3> QED
      BY <1>2, <1>5, <3>1, <3>3, <3>4
  <2> QED
    BY <2>1, <2>2
<1>12. NoLostThread'
  <2> SUFFICES ASSUME NEW c \in Ops, thread'[c] = "runs", pool'[StoreOf[c]] # c
               PROVE  Close \in pending'[c]
    BY DEF NoLostThread
  <2>1. StoreOf[c] \in Stores /\ c # o
    BY <1>1, <1>4 DEF Stores, SpawnShape
  <2>2. pool[StoreOf[c]] = c \/ Close \in pending[c]
    BY <1>1, <1>2, <2>1 DEF ConnsSound, NoLostThread, TypeOK
  <2>3. CASE Close \in pending[c]
    BY <1>4, <2>1, <2>3 DEF SpawnShape
  <2>4. CASE pool[StoreOf[c]] = c
    <3>1. StoreOf[c] \in V
      BY <1>2, <1>4, <2>1, <2>4 DEF SpawnShape
    <3> QED
      BY <1>4, <2>1, <2>4, <3>1 DEF SpawnShape
  <2> QED
    BY <2>2, <2>3, <2>4
<1>13. SweepCovers'
  <2>1. s \in Pooled(pool')
    BY <1>1, <1>4 DEF Pooled, SpawnShape
  <2> QED
    BY <1>2, <2>1 DEF SweepCovers
<1> QED
  BY <1>3, <1>6, <1>7, <1>8, <1>9, <1>10, <1>11, <1>12, <1>13 DEF WInv, OpsSound, ConnsSound

LEMMA SendStep ==
    ASSUME WInv, NEW o \in Ops, Send(o)
    PROVE  WInv'
<1> USE PoolAssumption
<1> DEFINE c == via[o]
<1>1. TypeOK /\ ActiveExact /\ PendingSound /\ ViaSound /\ ConnsSound
  BY DEF WInv, OpsSound
<1>2. /\ phase[o] = "given" /\ pool' = pool /\ thread' = thread /\ dead' = dead
      /\ sweeping' = sweeping /\ peak' = peak
  BY DEF Send
<1>3. c \in Ops /\ phase[c] # "new"
  BY <1>1, <1>2 DEF ViaSound, Busy
<1>4. CASE c \in dead
  <2>1. Ended({o}) /\ pending' = pending
    BY <1>4 DEF Send
  <2>2. {o} \in SUBSET Ops /\ \A p \in {o} : Busy(p)
    BY <1>2 DEF Busy
  <2>3. /\ phase' \in [Ops -> Phases] /\ via' \in [Ops -> Ops \cup {None}]
        /\ active' \in [Stores -> Nat] /\ ActiveExact'
        /\ \A p \in Ops : /\ phase'[p] = (IF p \in {o} THEN "done" ELSE phase[p])
                          /\ via'[p] = (IF p \in {o} THEN None ELSE via[p])
    BY <1>1, <2>1, <2>2, EndedEffect
  <2>4. TypeOK'
    BY <1>1, <1>2, <2>1, <2>3 DEF TypeOK
  <2>5. PendingSound'
    BY <1>1, <1>2, <2>1, <2>3 DEF PendingSound
  <2>6. ViaSound'
    BY <1>1, <2>3 DEF ViaSound, Busy
  <2>7. FreshSound'
    BY <1>1, <1>2, <2>1, <2>3 DEF ConnsSound, FreshSound
  <2>8. PoolSound' /\ PooledIsUsable' /\ NoLostThread' /\ SweepCovers'
    BY <1>1, <1>2, <2>1, Zenon DEF ConnsSound, PoolSound, PooledIsUsable, NoLostThread, SweepCovers, Pooled
  <2> QED
    BY <2>3, <2>4, <2>5, <2>6, <2>7, <2>8 DEF WInv, OpsSound, ConnsSound
<1>5. CASE c \notin dead
  <2>1. /\ pending' = [pending EXCEPT ![c] = @ \cup {o}]
        /\ phase' = [phase EXCEPT ![o] = "call"] /\ active' = active /\ via' = via
    BY <1>5 DEF Send
  <2>2. TypeOK'
    BY <1>1, <1>2, <1>3, <2>1 DEF TypeOK, Phases
  <2>3. \A p \in Ops : Busy(p)' <=> Busy(p)
    BY <1>1, <1>2, <2>1 DEF Busy, TypeOK
  <2>4. ActiveExact'
    <3>1. \A s \in Stores : UsersOf(s)' = UsersOf(s)
      BY <2>3 DEF UsersOf
    <3> QED
      BY <1>1, <2>1, <3>1, Zenon DEF ActiveExact
  <2>5. PendingSound'
    BY <1>1, <1>2, <1>3, <2>1 DEF PendingSound, TypeOK
  <2>6. ViaSound'
    BY <1>1, <1>2, <2>1, <2>3 DEF ViaSound, TypeOK
  <2>7. FreshSound'
    BY <1>1, <1>2, <1>3, <2>1 DEF ConnsSound, FreshSound, TypeOK
  <2>8. \A d \in Ops : Close \in pending'[d] <=> Close \in pending[d]
    BY <1>1, <1>3, <2>1 DEF TypeOK
  <2>9. PooledIsUsable'
    <3>1. \A s \in Pooled(pool) : pool[s] \in Ops
      BY <1>1 DEF TypeOK, Pooled
    <3> QED
      BY <1>1, <1>2, <2>8, <3>1, Zenon DEF ConnsSound, PooledIsUsable, Pooled
  <2>10. PoolSound' /\ NoLostThread' /\ SweepCovers'
    BY <1>1, <1>2, <2>8, Zenon DEF ConnsSound, PoolSound, NoLostThread, SweepCovers, Pooled
  <2> QED
    BY <2>2, <2>4, <2>5, <2>6, <2>7, <2>9, <2>10 DEF WInv, OpsSound, ConnsSound
<1> QED
  BY <1>4, <1>5

-------------------------------------------------------------------------------
(* Workers *)

LEMMA AnsweredStep ==
    ASSUME WInv, NEW c \in Ops, NEW o \in Ops, Answered(c, o)
    PROVE  WInv'
<1> USE PoolAssumption
<1>1. TypeOK /\ ActiveExact /\ PendingSound /\ ViaSound /\ ConnsSound
  BY DEF WInv, OpsSound
<1>2. /\ o \in pending[c] /\ pending' = [pending EXCEPT ![c] = @ \ {o}]
      /\ pool' = pool /\ thread' = thread /\ dead' = dead
      /\ sweeping' = sweeping /\ peak' = peak
  BY DEF Answered
<1>3. phase[o] \in {"init", "call"} /\ via[o] = c
  BY <1>1, <1>2 DEF PendingSound
<1>4. \A d \in Ops : Close \in pending'[d] <=> Close \in pending[d]
  BY <1>1, <1>2 DEF TypeOK
<1>5. PooledIsUsable'
  <2>1. \A s \in Pooled(pool) : pool[s] \in Ops
    BY <1>1 DEF TypeOK, Pooled
  <2> QED
    BY <1>1, <1>2, <1>4, <2>1, Zenon DEF ConnsSound, PooledIsUsable, Pooled
<1>6. PoolSound' /\ NoLostThread' /\ SweepCovers'
  BY <1>1, <1>2, <1>4, Zenon DEF ConnsSound, PoolSound, NoLostThread, SweepCovers, Pooled
<1>7. \A d, p \in Ops : p \in pending'[d] => p \in pending[d] /\ p # o
  BY <1>1, <1>2, <1>3 DEF TypeOK, PendingSound
<1>8. CASE phase[o] = "init"
  <2>1. phase' = [phase EXCEPT ![o] = "given"] /\ active' = active /\ via' = via
    BY <1>8 DEF Answered
  <2>2. TypeOK'
    BY <1>1, <1>2, <2>1 DEF TypeOK, Phases
  <2>3. \A p \in Ops : Busy(p)' <=> Busy(p)
    BY <1>1, <1>8, <2>1 DEF Busy, TypeOK
  <2>4. ActiveExact'
    <3>1. \A s \in Stores : UsersOf(s)' = UsersOf(s)
      BY <2>3 DEF UsersOf
    <3> QED
      BY <1>1, <2>1, <3>1, Zenon DEF ActiveExact
  <2>5. PendingSound'
    BY <1>1, <1>7, <2>1 DEF PendingSound, TypeOK
  <2>6. ViaSound'
    BY <1>1, <1>3, <2>1, <2>3 DEF ViaSound, TypeOK
  <2>7. FreshSound'
    BY <1>1, <1>2, <2>1 DEF ConnsSound, FreshSound, TypeOK
  <2> QED
    BY <1>5, <1>6, <2>2, <2>4, <2>5, <2>6, <2>7 DEF WInv, OpsSound, ConnsSound
<1>9. CASE phase[o] # "init"
  <2>1. Ended({o})
    BY <1>9 DEF Answered
  <2>2. {o} \in SUBSET Ops /\ \A p \in {o} : Busy(p)
    BY <1>3 DEF Busy
  <2>3. /\ phase' \in [Ops -> Phases] /\ via' \in [Ops -> Ops \cup {None}]
        /\ active' \in [Stores -> Nat] /\ ActiveExact'
        /\ \A p \in Ops : /\ phase'[p] = (IF p \in {o} THEN "done" ELSE phase[p])
                          /\ via'[p] = (IF p \in {o} THEN None ELSE via[p])
    BY <1>1, <2>1, <2>2, EndedEffect
  <2>4. TypeOK'
    BY <1>1, <1>2, <2>3 DEF TypeOK
  <2>5. PendingSound'
    BY <1>1, <1>7, <2>3 DEF PendingSound
  <2>6. ViaSound'
    BY <1>1, <2>3 DEF ViaSound, Busy
  <2>7. FreshSound'
    BY <1>1, <1>2, <2>3 DEF ConnsSound, FreshSound, TypeOK
  <2> QED
    BY <1>5, <1>6, <2>3, <2>4, <2>5, <2>6, <2>7 DEF WInv, OpsSound, ConnsSound
<1> QED
  BY <1>8, <1>9

LEMMA CloseAnsweredStep ==
    ASSUME WInv, NEW c \in Ops, CloseAnswered(c)
    PROVE  WInv'
<1> USE PoolAssumption
<1>1. TypeOK /\ ActiveExact /\ PendingSound /\ ViaSound /\ ConnsSound
  BY DEF WInv, OpsSound
<1>2. /\ thread[c] = "runs" /\ Close \in pending[c]
      /\ pending' = [pending EXCEPT ![c] = @ \ {Close}] /\ thread' = [thread EXCEPT ![c] = "ending"]
      /\ phase' = phase /\ pool' = pool /\ active' = active /\ dead' = dead /\ via' = via
      /\ sweeping' = sweeping /\ peak' = peak
  BY DEF CloseAnswered
<1>3. TypeOK'
  BY <1>1, <1>2 DEF TypeOK
<1>4. ActiveExact' /\ ViaSound'
  BY <1>1, <1>2, Zenon DEF ActiveExact, UsersOf, ViaSound, Busy
<1>5. PendingSound'
  BY <1>1, <1>2 DEF PendingSound, TypeOK
<1>6. FreshSound'
  BY <1>1, <1>2 DEF ConnsSound, FreshSound, TypeOK
<1>7. PooledIsUsable'
  BY <1>1, <1>2 DEF ConnsSound, PooledIsUsable, Pooled, TypeOK
<1>8. NoLostThread'
  BY <1>1, <1>2 DEF ConnsSound, NoLostThread, TypeOK
<1>9. PoolSound' /\ SweepCovers'
  BY <1>1, <1>2, Zenon DEF ConnsSound, PoolSound, SweepCovers, Pooled
<1> QED
  BY <1>3, <1>4, <1>5, <1>6, <1>7, <1>8, <1>9 DEF WInv, OpsSound, ConnsSound

LEMMA DeadlineStep ==
    ASSUME WInv, NEW c \in Ops, NEW r \in Ops \cup {Close}, Deadline(c, r)
    PROVE  WInv'
<1>1. phase[c] # "new"
  BY DEF WInv, ConnsSound, FreshSound, Deadline
<1>2. Die(c) /\ thread' = [thread EXCEPT ![c] = "ending"] /\ peak' = peak
  BY DEF Deadline
<1> QED
  BY <1>1, <1>2, DieEffect

LEMMA ThreadEndsStep ==
    ASSUME WInv, NEW c \in Ops, thread[c] \in {"runs", "ending"}, ThreadEnds(c)
    PROVE  WInv'
<1> USE PoolAssumption
<1>1. TypeOK /\ ActiveExact /\ PendingSound /\ ViaSound /\ ConnsSound
  BY DEF WInv, OpsSound
<1>2. phase[c] # "new"
  BY <1>1 DEF ConnsSound, FreshSound
<1>3. thread' = [thread EXCEPT ![c] = "gone"] /\ peak' = peak
  BY DEF ThreadEnds
<1>4. CASE c \in dead
  <2>1. /\ phase' = phase /\ pool' = pool /\ active' = active /\ pending' = pending
        /\ dead' = dead /\ via' = via /\ sweeping' = sweeping
    BY <1>4 DEF ThreadEnds
  <2>2. TypeOK'
    BY <1>1, <1>3, <2>1 DEF TypeOK
  <2>3. ActiveExact' /\ PendingSound' /\ ViaSound'
    <3>1. ActiveExact'
      BY <1>1, <2>1, Zenon DEF ActiveExact, UsersOf, Busy
    <3>2. PendingSound'
      BY <1>1, <2>1, Zenon DEF PendingSound
    <3>3. ViaSound'
      BY <1>1, <2>1, Zenon DEF ViaSound, Busy
    <3> QED
      BY <3>1, <3>2, <3>3
  <2>4. FreshSound' /\ PooledIsUsable'
    BY <1>1, <1>2, <1>3, <1>4, <2>1 DEF ConnsSound, FreshSound, PooledIsUsable, Pooled, TypeOK
  <2>5. NoLostThread'
    BY <1>1, <1>3, <2>1 DEF ConnsSound, NoLostThread, TypeOK
  <2>6. PoolSound' /\ SweepCovers'
    BY <1>1, <2>1, Zenon DEF ConnsSound, PoolSound, SweepCovers, Pooled
  <2> QED
    BY <2>2, <2>3, <2>4, <2>5, <2>6 DEF WInv, OpsSound, ConnsSound
<1>5. CASE c \notin dead
  <2>1. Die(c)
    BY <1>5 DEF ThreadEnds
  <2> QED
    BY <1>2, <1>3, <2>1, DieEffect
<1> QED
  BY <1>4, <1>5

-------------------------------------------------------------------------------
(* Closing *)

LEMMA SweepIdleStep ==
    ASSUME WInv, NEW idle \in SUBSET Stores, SweepIdle(idle)
    PROVE  WInv'
<1>1. idle \in SUBSET Pooled(pool)
  BY DEF SweepIdle
<1> QED
  BY <1>1, CloseEffect DEF SweepIdle

LEMMA CloseStoreStep ==
    ASSUME WInv, NEW s \in Stores, CloseStore(s)
    PROVE  WInv'
<1>1. s \in Pooled(pool)
  BY DEF CloseStore, Pooled
<1>2. sweeping = TRUE
  BY <1>1 DEF WInv, TypeOK, ConnsSound, SweepCovers
<1>3. pool' = [r \in Stores |-> IF r \in {s} THEN None ELSE pool[r]]
  BY DEF WInv, TypeOK, CloseStore
<1>4. {pool[r] : r \in {s}} = {pool[s]}
  OBVIOUS
<1>5. /\ Closing({pool[r] : r \in {s}}) /\ sweeping' = (Pooled(pool') # {})
      /\ UNCHANGED <<phase, active, thread, dead, via, peak>>
  BY <1>2, <1>4, Zenon DEF CloseStore
<1> QED
  BY <1>1, <1>3, <1>5, CloseEffect

LEMMA CloseAllStep ==
    ASSUME WInv, CloseAll
    PROVE  WInv'
<1>1. pool' = [r \in Stores |-> IF r \in Pooled(pool) THEN None ELSE pool[r]]
  BY DEF CloseAll, Pooled
<1>2. sweeping' = (Pooled(pool') # {})
  BY DEF CloseAll, Pooled
<1>3. Closing({pool[r] : r \in Pooled(pool)}) /\ UNCHANGED <<phase, active, thread, dead, via, peak>>
  BY DEF CloseAll
<1> QED
  BY <1>1, <1>2, <1>3, CloseEffect

-------------------------------------------------------------------------------
(* The invariant *)

LEMMA WInvInit == Init => WInv
<1> USE PoolAssumption
<1> SUFFICES ASSUME Init PROVE WInv
  OBVIOUS
<1>1. TypeOK
  BY DEF Init, TypeOK, Phases
<1>2. ActiveExact
  <2>1. \A s \in Stores : UsersOf(s) = {}
    BY DEF Init, UsersOf, Busy
  <2>2. \A s \in Stores : active[s] = 0
    BY DEF Init
  <2> QED
    BY <2>1, <2>2, FS_EmptySet, Zenon DEF ActiveExact
<1>3. PendingSound /\ ViaSound /\ PoolSound /\ FreshSound /\ PooledIsUsable /\ NoLostThread /\ SweepCovers
  BY DEF Init, PendingSound, ViaSound, Busy, PoolSound, FreshSound, PooledIsUsable, NoLostThread,
         SweepCovers, Pooled
<1> QED
  BY <1>1, <1>2, <1>3 DEF WInv, OpsSound, ConnsSound

LEMMA WInvStep == WInv /\ [Next]_vars => WInv'
<1> SUFFICES ASSUME WInv, [Next]_vars PROVE WInv'
  OBVIOUS
<1>1. ASSUME NEW o \in Ops, BeginWithExisting(o) PROVE WInv'
  BY <1>1, BeginWithExistingStep
<1>2. ASSUME NEW o \in Ops, BeginWithNew(o) PROVE WInv'
  BY <1>2, BeginWithNewStep
<1>3. ASSUME NEW o \in Ops, Send(o) PROVE WInv'
  BY <1>3, SendStep
<1>4. ASSUME NEW c \in Ops, NEW o \in Ops, Answered(c, o) PROVE WInv'
  BY <1>4, AnsweredStep
<1>5. ASSUME NEW c \in Ops, CloseAnswered(c) PROVE WInv'
  BY <1>5, CloseAnsweredStep
<1>6. ASSUME NEW c \in Ops, Fails(c) PROVE WInv'
  BY <1>6, ThreadEndsStep DEF Fails
<1>7. ASSUME NEW c \in Ops, Exits(c) PROVE WInv'
  BY <1>7, ThreadEndsStep DEF Exits
<1>8. ASSUME NEW c \in Ops, NEW r \in Ops \cup {Close}, Deadline(c, r) PROVE WInv'
  BY <1>8, DeadlineStep
<1>9. ASSUME NEW idle \in SUBSET Stores, SweepIdle(idle) PROVE WInv'
  BY <1>9, SweepIdleStep
<1>10. ASSUME NEW s \in Stores, CloseStore(s) PROVE WInv'
  BY <1>10, CloseStoreStep
<1>11. CASE CloseAll
  BY <1>11, CloseAllStep
<1>12. CASE UNCHANGED vars
  <2>1. /\ phase' = phase /\ pool' = pool /\ active' = active /\ pending' = pending /\ thread' = thread
        /\ dead' = dead /\ via' = via /\ sweeping' = sweeping /\ peak' = peak
    BY <1>12 DEF vars
  <2>2. TypeOK'
    BY <2>1 DEF WInv, TypeOK
  <2>3. ActiveExact'
    BY <2>1, Zenon DEF WInv, OpsSound, ActiveExact, UsersOf, Busy
  <2>4. PendingSound'
    BY <2>1, Zenon DEF WInv, OpsSound, PendingSound
  <2>5. ViaSound'
    BY <2>1, Zenon DEF WInv, OpsSound, ViaSound, Busy
  <2>6. PoolSound' /\ SweepCovers'
    BY <2>1, Zenon DEF WInv, ConnsSound, PoolSound, SweepCovers, Pooled
  <2>7. FreshSound' /\ PooledIsUsable' /\ NoLostThread'
    BY <2>1, Zenon DEF WInv, ConnsSound, FreshSound, PooledIsUsable, Pooled, NoLostThread
  <2> QED
    BY <2>2, <2>3, <2>4, <2>5, <2>6, <2>7 DEF WInv, OpsSound, ConnsSound
<1> QED
  BY <1>1, <1>2, <1>3, <1>4, <1>5, <1>6, <1>7, <1>8, <1>9, <1>10, <1>11, <1>12 DEF Next

LEMMA Invariance == Spec => []WInv
BY WInvInit, WInvStep, PTL DEF Spec

-------------------------------------------------------------------------------
(* Theorems *)

\* A store that is not retained has no operation under way.
LEMMA UnretainedIsUnused ==
    ASSUME WInv, NEW s \in Stores, active[s] = 0, NEW o \in Ops, Busy(o)
    PROVE  StoreOf[o] # s
<1>1. Cardinality(UsersOf(s)) = 0
  BY DEF WInv, OpsSound, ActiveExact
<1>2. IsFiniteSet(UsersOf(s))
  BY PoolAssumption, FS_Subset DEF UsersOf
<1>3. UsersOf(s) = {}
  BY <1>1, <1>2, FS_EmptySet
<1> QED
  BY <1>3 DEF UsersOf

\* Which connections a step asks to close.
LEMMA ClosedByStep ==
    ASSUME WInv, [Next]_vars, NEW c \in Ops, Close \in pending'[c], Close \notin pending[c]
    PROVE  \/ \E v \in Pooled(pool) : c = pool[v] /\ active[v] = 0
           \/ CloseStore(StoreOf[c]) \/ CloseAll
<1> USE PoolAssumption
<1>1. TypeOK /\ ConnsSound
  BY DEF WInv
<1>2. ASSUME NEW o \in Ops, BeginWithExisting(o) \/ Send(o) PROVE FALSE
  BY <1>1, <1>2 DEF TypeOK, BeginWithExisting, Send
<1>3. ASSUME NEW o \in Ops, BeginWithNew(o) PROVE \E v \in Pooled(pool) : c = pool[v] /\ active[v] = 0
  <2>1. PICK V : SpawnShape(o, V)
    BY <1>3, SpawnEffect
  <2> QED
    BY <2>1 DEF SpawnShape
<1>4. ASSUME NEW d \in Ops, NEW o \in Ops, Answered(d, o) PROVE FALSE
  BY <1>1, <1>4 DEF TypeOK, Answered
<1>5. ASSUME NEW d \in Ops, CloseAnswered(d) PROVE FALSE
  BY <1>1, <1>5 DEF TypeOK, CloseAnswered
<1>6. ASSUME NEW d \in Ops, Die(d) \/ UNCHANGED pending PROVE FALSE
  BY <1>1, <1>6 DEF TypeOK, Die
<1>7. ASSUME NEW idle \in SUBSET Stores, SweepIdle(idle)
      PROVE  \E v \in Pooled(pool) : c = pool[v] /\ active[v] = 0
  <2>1. idle \subseteq {s \in Pooled(pool) : ~Retained(s)} /\ Closing({pool[s] : s \in idle})
    BY <1>7 DEF SweepIdle
  <2>2. c \in {pool[s] : s \in idle}
    BY <2>1 DEF Closing
  <2> QED
    BY <1>1, <2>1, <2>2 DEF Retained, TypeOK, Pooled
<1>8. ASSUME NEW s \in Stores, CloseStore(s) PROVE CloseStore(StoreOf[c])
  <2>1. c = pool[s] /\ pool[s] # None
    BY <1>8 DEF CloseStore, Closing
  <2> QED
    BY <1>1, <1>8, <2>1 DEF ConnsSound, PoolSound
<1>9. CASE UNCHANGED vars
  BY <1>9 DEF vars
<1> QED
  BY <1>2, <1>3, <1>4, <1>5, <1>6, <1>7, <1>8, <1>9 DEF Next, Fails, Exits, ThreadEnds, Deadline

\* Only closeStore and closeAll close a worker that an operation uses: evictions
\* and sweeps never do.
THEOREM UsedWorkersAreKept == Spec => InUseIsKept
<1>1. ASSUME WInv, [Next]_vars, NEW c \in Ops, Close \in pending'[c] \ pending[c],
             NEW o \in Ops, Busy(o), via[o] = c
      PROVE  CloseStore(StoreOf[c]) \/ CloseAll
  <2>1. ASSUME NEW v \in Pooled(pool), c = pool[v], active[v] = 0 PROVE FALSE
    <3>1. v \in Stores /\ StoreOf[c] = v
      BY <1>1, <2>1 DEF WInv, ConnsSound, PoolSound, Pooled
    <3>2. StoreOf[o] = StoreOf[c]
      BY <1>1 DEF WInv, OpsSound, ViaSound
    <3> QED
      BY <1>1, <2>1, <3>1, <3>2, UnretainedIsUnused
  <2> QED
    BY <1>1, <2>1, ClosedByStep
<1>2. WInv /\ [Next]_vars =>
        [\A c \in Ops : (Close \in pending'[c] \ pending[c] /\ \E o \in Ops : Busy(o) /\ via[o] = c)
                            => CloseStore(StoreOf[c]) \/ CloseAll]_vars
  BY <1>1
<1> QED
  BY <1>2, Invariance, PTL DEF Spec, InUseIsKept

-------------------------------------------------------------------------------
(* The size of the pool *)

\* Only a spawn adds to the pool.
LEMMA OnlySpawnsGrow ==
    ASSUME WInv, [Next]_vars
    PROVE  \/ Pooled(pool') \subseteq Pooled(pool) /\ peak' \in Nat /\ peak' >= peak
           \/ \E o \in Ops : BeginWithNew(o)
<1> USE PoolAssumption
<1>1. TypeOK /\ ActiveExact
  BY DEF WInv, OpsSound
<1>2. ASSUME NEW o \in Ops, BeginWithExisting(o) PROVE pool' = pool /\ peak' \in Nat /\ peak' >= peak
  BY <1>1, <1>2, RetainEffect DEF BeginWithExisting
<1>3. ASSUME NEW o \in Ops, Send(o) PROVE pool' = pool /\ peak' = peak
  BY <1>3 DEF Send
<1>4. ASSUME NEW c \in Ops, NEW o \in Ops, Answered(c, o) PROVE pool' = pool /\ peak' = peak
  BY <1>4 DEF Answered
<1>5. ASSUME NEW c \in Ops, CloseAnswered(c) PROVE pool' = pool /\ peak' = peak
  BY <1>5 DEF CloseAnswered
<1>6. ASSUME NEW c \in Ops, Die(c) \/ UNCHANGED pool PROVE Pooled(pool') \subseteq Pooled(pool)
  BY <1>1, <1>6 DEF Die, Dropped, Pooled, TypeOK
<1>7. ASSUME NEW idle \in SUBSET Stores, SweepIdle(idle) PROVE Pooled(pool') \subseteq Pooled(pool) /\ peak' = peak
  BY <1>7 DEF SweepIdle, Pooled
<1>8. ASSUME NEW s \in Stores, CloseStore(s) PROVE Pooled(pool') \subseteq Pooled(pool) /\ peak' = peak
  BY <1>1, <1>8 DEF CloseStore, Pooled, TypeOK
<1>9. CloseAll => Pooled(pool') \subseteq Pooled(pool) /\ peak' = peak
  BY DEF CloseAll, Pooled
<1>10. UNCHANGED vars => pool' = pool /\ peak' = peak
  BY DEF vars
<1> QED
  BY <1>1, <1>2, <1>3, <1>4, <1>5, <1>6, <1>7, <1>8, <1>9, <1>10
     DEF Next, Fails, Exits, ThreadEnds, Deadline, TypeOK

\* A spawn takes the place of a victim, or there is room, or every store that has
\* a connection is retained, and so is the one that gets it.
LEMMA SpawnBounded ==
    ASSUME WInv, PoolBounded, NEW o \in Ops, BeginWithNew(o)
    PROVE  PoolBounded'
<1> USE PoolAssumption
<1> DEFINE s == StoreOf[o]
           old == Pooled(pool)
           new == Pooled(pool')
           held == {r \in Stores : active'[r] > 0}
<1>1. TypeOK /\ ActiveExact /\ s \in Stores /\ s \notin old
  BY DEF WInv, OpsSound, Stores, BeginWithNew, Pooled
<1>2. /\ active' = [active EXCEPT ![s] = @ + 1]
      /\ peak' \in Nat /\ peak' >= peak /\ peak' >= Cardinality(held)
  <2>1. phase[o] = "new" /\ RetainedAlso(s) /\ phase' = [phase EXCEPT ![o] = "init"]
    BY DEF BeginWithNew
  <2> QED
    BY <1>1, <2>1, RetainEffect
<1>3. PICK V : SpawnShape(o, V)
  BY SpawnEffect
<1>4. V \subseteq old /\ new = (old \ V) \cup {s}
  BY <1>1, <1>3 DEF SpawnShape, Pooled
<1>5. IsFiniteSet(old) /\ IsFiniteSet(new) /\ IsFiniteSet(held)
  BY StoresFinite, FS_Subset DEF Pooled
<1> DEFINE size == Cardinality(old)
           size2 == Cardinality(new)
<1>6. size \in Nat /\ size2 \in Nat /\ Cardinality(held) \in Nat
  BY <1>5, FS_CardinalityType
<1>7. size <= MaxWorkers \/ size <= peak
  BY DEF PoolBounded
<1>8. CASE V # {}
  <2> PICK v : v \in V
    BY <1>8
  <2>1. V = {v}
    BY <1>3 DEF SpawnShape
  <2>2. v \in old /\ new = (old \ {v}) \cup {s} /\ s \notin old \ {v}
    BY <1>1, <1>4, <2>1
  <2>3. IsFiniteSet(old \ {v}) /\ Cardinality(old \ {v}) = size - 1
    BY <1>5, <2>2, FS_RemoveElement
  <2>4. Cardinality((old \ {v}) \cup {s}) = Cardinality(old \ {v}) + 1
    BY <2>2, <2>3, FS_AddElement
  <2> HIDE DEF old, new
  <2>5. size2 = Cardinality(old \ {v}) + 1
    BY <2>2, <2>4, Zenon
  <2> HIDE DEF size, size2
  <2>6. size2 <= MaxWorkers \/ size2 <= peak'
    BY <1>1, <1>2, <1>6, <1>7, <2>3, <2>5 DEF TypeOK
  <2> QED
    BY <2>6 DEF PoolBounded, size2, new
<1>9. CASE V = {} /\ size < MaxWorkers
  <2>1. new = old \cup {s}
    BY <1>4, <1>9
  <2>2. Cardinality(old \cup {s}) = size + 1
    BY <1>1, <1>5, FS_AddElement
  <2> HIDE DEF old, new
  <2>3. size2 = size + 1
    BY <2>1, <2>2, Zenon
  <2> HIDE DEF size, size2
  <2>4. size2 <= MaxWorkers
    BY <1>6, <1>9, <2>3
  <2> QED
    BY <2>4 DEF PoolBounded, size2, new
<1>10. CASE V = {} /\ ~(size < MaxWorkers)
  <2>1. Victims(s) = {}
    BY <1>3, <1>10 DEF SpawnShape
  <2>2. ~(Cardinality(Pooled(pool)) < MaxWorkers)
    BY <1>10
  <2>3. {r \in Pooled(pool) : ~Retained(r) /\ r # s} = {}
    BY <2>1, <2>2 DEF Victims
  <2>4. ASSUME NEW r \in new PROVE r \in held
    <3>1. r = s \/ (r \in old /\ r # s /\ active[r] > 0)
      BY <1>1, <1>4, <2>3, <2>4 DEF Retained
    <3>2. r \in Stores /\ active[r] \in Nat /\ active'[r] = IF r = s THEN active[r] + 1 ELSE active[r]
      BY <1>1, <1>2, <2>4 DEF TypeOK, Pooled
    <3> QED
      BY <3>1, <3>2
  <2>5. size2 <= Cardinality(held)
    <3>1. new \in SUBSET held
      BY <2>4
    <3> QED
      BY <1>5, <3>1, FS_Subset
  <2> HIDE DEF size2, held, new, old
  <2>6. size2 <= peak'
    BY <1>2, <1>6, <2>5
  <2> QED
    BY <2>6 DEF PoolBounded, size2, new
<1> QED
  BY <1>8, <1>9, <1>10

\* The pool outgrows MaxWorkers only as far as stores had to be served at once.
THEOREM PoolStaysBounded == Spec => []PoolBounded
<1>1. Init => PoolBounded
  <2> SUFFICES ASSUME Init PROVE PoolBounded
    OBVIOUS
  <2>1. Pooled(pool) = {}
    BY DEF Init, Pooled
  <2>2. Cardinality(Pooled(pool)) = 0
    BY <2>1, FS_EmptySet, Zenon
  <2> QED
    BY <2>2, PoolAssumption DEF PoolBounded
<1>2. WInv /\ PoolBounded /\ [Next]_vars => PoolBounded'
  <2> SUFFICES ASSUME WInv, PoolBounded, [Next]_vars PROVE PoolBounded'
    OBVIOUS
  <2>1. ASSUME Pooled(pool') \subseteq Pooled(pool), peak' \in Nat, peak' >= peak
        PROVE  PoolBounded'
    <3> DEFINE size == Cardinality(Pooled(pool))
               size2 == Cardinality(Pooled(pool'))
    <3>1. IsFiniteSet(Pooled(pool)) /\ IsFiniteSet(Pooled(pool'))
      BY StoresFinite, FS_Subset DEF Pooled
    <3>2. size \in Nat /\ size2 \in Nat /\ size2 <= size
      BY <2>1, <3>1, FS_Subset, FS_CardinalityType
    <3>3. size <= MaxWorkers \/ size <= peak
      BY DEF PoolBounded
    <3> HIDE DEF size, size2
    <3>4. size2 <= MaxWorkers \/ size2 <= peak'
      BY <2>1, <3>2, <3>3, PoolAssumption DEF WInv, TypeOK
    <3> QED
      BY <3>4 DEF PoolBounded, size2
  <2> QED
    BY <2>1, OnlySpawnsGrow, SpawnBounded
<1> QED
  BY <1>1, <1>2, Invariance, PTL DEF Spec

\* The pool never holds a connection that has died or is being closed, forgets no
\* thread, sweeps exactly while there is something to sweep, and keeps to its size.
THEOREM PoolStaysConsistent == Spec => []PoolConsistent
<1>1. WInv /\ PoolBounded => PoolConsistent
  BY DEF WInv, ConnsSound, PoolConsistent
<1> QED
  BY <1>1, Invariance, PoolStaysBounded, PTL
=============================================================================
