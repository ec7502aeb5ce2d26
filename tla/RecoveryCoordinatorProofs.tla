---------------------- MODULE RecoveryCoordinatorProofs ----------------------
(***************************************************************************)
(* Safety of RecoveryCoordinator for any number of requests and any work.  *)
(*                                                                         *)
(* That the gate opens only for the latest recovery rests on where the     *)
(* attempts can be: only the latest request still sleeps or begins         *)
(* (AttemptsSound), so at most one recovery is under way, and once it has  *)
(* opened the gate its request neither sleeps nor is queued again          *)
(* (GateSound).  That work passes legally rests on LeaseSound: a scope is  *)
(* left with the recovery that entered it.                                 *)
(***************************************************************************)
EXTENDS RecoveryCoordinator, TLAPS

\* A request has an attempt exactly while its loop awaits one; later requests
\* have none yet; only the current one sleeps.
AttemptsSound ==
    \A g \in Requests : /\ stage[g] # "none" <=> retry[g] = "attempting"
                        /\ g > generation => retry[g] = "none"
                        /\ retry[g] = "sleeping" => Current(g)

PreparedSound == \A g \in Requests : stage[g] \in {"resuming", "rearming", "releasing"} => g \in prepared

LeaseSound == \A w \in Works : lease[w] # 0 => stage[lease[w]] \in Recovering

GateSound == /\ allowed => /\ generation \in Requests
                           /\ stage[generation] = "releasing" \/ retry[generation] = "over"
             /\ gateDisposed => disposed

RInv == /\ TypeOK /\ AttemptsSound /\ PreparedSound /\ LeaseSound /\ GateSound
        /\ OneRecovery /\ OpenMeansRecovered /\ NoForgottenWaiter

-------------------------------------------------------------------------------
(* The invariant *)

LEMMA InitEstablishes == Init => RInv
<1> SUFFICES ASSUME Init PROVE RInv
  OBVIOUS
<1> USE RequestsAssumption DEF Requests
<1>1. TypeOK
  <2>1. /\ stage \in [Requests -> Stages]
        /\ retry \in [Requests -> {"none", "attempting", "failed", "sleeping", "over"}]
    BY DEF Init, Stages
  <2>2. work \in [Works -> {"out", "waiting", "woken", "in", "refused"}] /\ lease \in [Works -> 0..MaxRequests]
    BY DEF Init
  <2>3. generation \in 0..MaxRequests /\ recovered \in 0..MaxRequests
    BY DEF Init
  <2>4. prepared \subseteq Requests
    BY DEF Init
  <2> HIDE DEF Requests
  <2> QED
    BY <2>1, <2>2, <2>3, <2>4 DEF Init, TypeOK
<1>2. AttemptsSound /\ PreparedSound /\ LeaseSound /\ GateSound
  BY DEF Init, AttemptsSound, PreparedSound, LeaseSound, GateSound
<1>3. OneRecovery /\ OpenMeansRecovered /\ NoForgottenWaiter
  BY DEF Init, OneRecovery, OpenMeansRecovered, NoForgottenWaiter, UnderWay, Recovering
<1> QED
  BY <1>1, <1>2, <1>3 DEF RInv

\* What happens at the gate alone moves no attempt.
LEMMA GatePreserves ==
    ASSUME RInv, NEW w \in Works, Call(w) \/ Continue(w) \/ Leave(w)
    PROVE  RInv'
<1>1. /\ UNCHANGED <<generation, disposed, stage, retry, prepared, suspended, allowed,
                     gateDisposed, lease, recovered>>
      /\ \E v \in {"out", "waiting", "in", "refused"} :
            /\ work' = [work EXCEPT ![w] = v]
            /\ v = "waiting" => ~allowed /\ ~gateDisposed
  BY DEF Call, Continue, Leave, Asks
<1>2. TypeOK' /\ NoForgottenWaiter'
  BY <1>1 DEF RInv, TypeOK, NoForgottenWaiter
<1>3. /\ AttemptsSound' /\ PreparedSound' /\ LeaseSound' /\ GateSound'
      /\ OneRecovery' /\ OpenMeansRecovered'
  BY <1>1 DEF RInv, AttemptsSound, PreparedSound, LeaseSound, GateSound, OneRecovery,
              OpenMeansRecovered, UnderWay, Current
<1> QED
  BY <1>2, <1>3 DEF RInv

\* A request that is made, or a coordinator that is disposed, closes the gate.
LEMMA RequestPreserves == RInv /\ Request => RInv'
<1> SUFFICES ASSUME RInv, Request PROVE RInv'
  OBVIOUS
<1> USE RequestsAssumption DEF Requests, RInv, Request
<1>1. generation' \in Requests /\ generation' = generation + 1 /\ stage[generation'] = "none"
  BY DEF TypeOK, AttemptsSound
<1>2. TypeOK'
  <2>1. stage' \in [Requests -> Stages]
    BY <1>1 DEF TypeOK, Stages
  <2>2. retry' \in [Requests -> {"none", "attempting", "failed", "sleeping", "over"}]
    BY DEF TypeOK
  <2>3. prepared' \subseteq Requests
    BY <1>1 DEF TypeOK
  <2>4. generation' \in 0..MaxRequests
    BY <1>1
  <2> HIDE DEF Requests
  <2> QED
    BY <2>1, <2>2, <2>3, <2>4 DEF TypeOK
<1>3. AttemptsSound'
  BY <1>1 DEF TypeOK, AttemptsSound, Current
<1>4. PreparedSound' /\ OneRecovery'
  BY <1>1 DEF TypeOK, PreparedSound, OneRecovery, UnderWay, Recovering
<1>5. LeaseSound'
  BY <1>1 DEF TypeOK, LeaseSound, Recovering
<1>6. GateSound' /\ OpenMeansRecovered' /\ NoForgottenWaiter'
  BY DEF GateSound, OpenMeansRecovered, NoForgottenWaiter
<1> QED
  BY <1>2, <1>3, <1>4, <1>5, <1>6

LEMMA DisposalPreserves == RInv /\ (Dispose \/ GateDispose) => RInv'
<1> SUFFICES ASSUME RInv, Dispose \/ GateDispose PROVE RInv'
  OBVIOUS
<1> USE DEF RInv, Dispose, GateDispose
<1>1. TypeOK'
  BY DEF TypeOK
<1>2. AttemptsSound'
  BY DEF TypeOK, AttemptsSound, Current
<1>3. PreparedSound' /\ OneRecovery' /\ LeaseSound'
  BY DEF PreparedSound, OneRecovery, LeaseSound, UnderWay
<1>4. GateSound' /\ OpenMeansRecovered' /\ NoForgottenWaiter'
  BY DEF TypeOK, GateSound, OpenMeansRecovered, NoForgottenWaiter
<1> QED
  BY <1>1, <1>2, <1>3, <1>4

\* A loop goes on only for the current request, which then has not opened the gate.
LEMMA LoopPreserves ==
    ASSUME RInv, NEW g \in Requests, LoopContinues(g) \/ Retries(g)
    PROVE  RInv'
<1> USE DEF RInv, LoopContinues, Retries
<1>1. TypeOK'
  BY DEF TypeOK, Stages, Recovering, gate
<1>2. AttemptsSound'
  BY DEF TypeOK, AttemptsSound, Current
<1>3. PreparedSound' /\ OneRecovery'
  BY DEF TypeOK, AttemptsSound, PreparedSound, OneRecovery, UnderWay, Recovering
<1>4. LeaseSound'
  BY RequestsAssumption DEF TypeOK, AttemptsSound, LeaseSound, Recovering, Requests, gate
<1>5. GateSound'
  BY DEF TypeOK, AttemptsSound, GateSound, Current, gate
<1>6. OpenMeansRecovered' /\ NoForgottenWaiter'
  BY DEF TypeOK, OpenMeansRecovered, NoForgottenWaiter, UnderWay, Recovering, gate
<1> QED
  BY <1>1, <1>2, <1>3, <1>4, <1>5, <1>6

\* An attempt begins when it alone is there: the earlier ones are over, and the
\* later ones not made, for it is the current one.
LEMMA BeginPreserves ==
    ASSUME RInv, NEW g \in Requests, Begin(g)
    PROVE  RInv'
<1> USE DEF RInv, Begin, Ends
<1>1. Current(g) => \A h \in Requests : h # g => stage[h] = "none"
  <2> SUFFICES ASSUME Current(g), NEW h \in Requests, h # g PROVE stage[h] = "none"
    OBVIOUS
  <2>1. g \in Int /\ h \in Int /\ generation = g
    BY DEF Requests, Current
  <2>2. CASE h < g
    BY <2>1, <2>2, RequestsAssumption DEF Requests
  <2>3. CASE h > g
    BY <2>1, <2>3 DEF AttemptsSound
  <2> QED
    BY <2>1, <2>2, <2>3
<1>2. Current(g) => ~allowed
  BY DEF GateSound, AttemptsSound, Current
<1>3. TypeOK'
  BY DEF TypeOK, Stages, Recovering, gate
<1>4. AttemptsSound'
  BY DEF TypeOK, AttemptsSound, Current
<1>5. PreparedSound' /\ OneRecovery'
  BY <1>1 DEF TypeOK, PreparedSound, OneRecovery, UnderWay, Recovering
<1>6. LeaseSound'
  BY RequestsAssumption DEF TypeOK, LeaseSound, Recovering, Requests, gate
<1>7. GateSound' /\ OpenMeansRecovered' /\ NoForgottenWaiter'
  BY <1>2 DEF TypeOK, AttemptsSound, GateSound, OpenMeansRecovered, NoForgottenWaiter, UnderWay,
              Recovering, Current, gate
<1> QED
  BY <1>3, <1>4, <1>5, <1>6, <1>7

\* The attempt that is under way goes on.
LEMMA AdvancePreserves ==
    ASSUME RInv, NEW g \in Requests,
           \/ WakesSuspended(g) \/ Ready(g) \/ Prepared(g) \/ Resumed(g)
           \/ \E w \in Works : StartsWork(g, w)
    PROVE  RInv'
<1> USE DEF RInv, WakesSuspended, Ready, Prepared, Resumed, StartsWork
<1>1. UnderWay(g) /\ ~allowed
  BY DEF UnderWay, Recovering, OpenMeansRecovered
<1>2. TypeOK'
  <2>1. CASE \E w \in Works : StartsWork(g, w)
    <3>1. g \in 0..MaxRequests
      BY DEF Requests
    <3> QED
      BY <2>1, <3>1 DEF TypeOK
  <2>2. CASE WakesSuspended(g) \/ Ready(g) \/ Prepared(g) \/ Resumed(g)
    BY <2>2 DEF TypeOK, Stages, Recovering, gate
  <2> QED
    BY <2>1, <2>2
<1>3. AttemptsSound'
  BY DEF TypeOK, AttemptsSound, Current
<1>4. PreparedSound'
  BY DEF TypeOK, PreparedSound
<1>5. OneRecovery'
  BY <1>1 DEF TypeOK, OneRecovery, UnderWay, Recovering
<1>6. LeaseSound'
  BY RequestsAssumption DEF TypeOK, LeaseSound, Recovering, Requests, gate
<1>7. GateSound' /\ OpenMeansRecovered' /\ NoForgottenWaiter'
  BY <1>1 DEF GateSound, OpenMeansRecovered, NoForgottenWaiter, gate
<1> QED
  BY <1>2, <1>3, <1>4, <1>5, <1>6, <1>7

\* An attempt ends, with the gate open or without.
LEMMA EndPreserves ==
    ASSUME RInv, NEW g \in Requests,
           Release(g) \/ NotRecovered(g) \/ AttemptThrows(g) \/ Released(g)
    PROVE  RInv'
<1> USE DEF RInv
<1>1. CASE Release(g) /\ Current(g)
  <2> USE <1>1 DEF Release, Current
  <2>1. stage[g] = "rearming" /\ UnderWay(g) /\ ~gateDisposed /\ ~disposed
    BY DEF UnderWay, Recovering, GateSound
  <2>2. /\ stage' = [stage EXCEPT ![g] = "releasing"]
        /\ allowed' = TRUE /\ recovered' = g /\ g = generation /\ suspended' = FALSE
        /\ lease' = [w \in Works |-> IF lease[w] = g THEN 0 ELSE lease[w]]
        /\ UNCHANGED <<generation, disposed, prepared, gateDisposed, retry>>
        /\ work' = [w \in Works |-> IF work[w] = "waiting" THEN "woken" ELSE work[w]]
    BY <2>1 DEF GateOpens, ScopeEnds
  <2> HIDE <1>1 DEF Release
  <2>3. TypeOK'
    <3>1. stage' \in [Requests -> Stages]
      BY <2>2 DEF TypeOK, Stages
    <3>2. lease' \in [Works -> 0..MaxRequests]
      BY <2>2, RequestsAssumption DEF TypeOK
    <3>3. work' \in [Works -> {"out", "waiting", "woken", "in", "refused"}]
      BY <2>2 DEF TypeOK
    <3>4. recovered' \in 0..MaxRequests
      BY <2>2 DEF Requests
    <3> QED
      BY <2>2, <3>1, <3>2, <3>3, <3>4 DEF TypeOK
  <2>4. AttemptsSound' /\ PreparedSound' /\ GateSound'
    BY <2>1, <2>2 DEF TypeOK, AttemptsSound, PreparedSound, GateSound
  <2>5. OneRecovery'
    BY <2>1, <2>2 DEF TypeOK, OneRecovery, UnderWay, Recovering
  <2>6. LeaseSound'
    BY <2>2 DEF TypeOK, LeaseSound, ScopeEnds, Recovering
  <2>7. OpenMeansRecovered' /\ NoForgottenWaiter'
    BY <2>1, <2>2 DEF TypeOK, OpenMeansRecovered, NoForgottenWaiter, OneRecovery, PreparedSound,
                      UnderWay, Recovering
  <2> QED
    BY <2>3, <2>4, <2>5, <2>6, <2>7
<1>2. CASE ~(Release(g) /\ Current(g))
  <2>1. /\ stage[g] \in {"suspending", "releasing"} \cup Recovering
        /\ stage' = [stage EXCEPT ![g] = "none"]
        /\ \/ retry' = [retry EXCEPT ![g] = "failed"] /\ allowed' = (allowed /\ ~Current(g))
           \/ retry' = [retry EXCEPT ![g] = "over"] /\ allowed' = allowed
        /\ \A w \in Works : lease'[w] \in {0, lease[w]} /\ lease'[w] # g
        /\ lease' \in [Works -> 0..MaxRequests]
        /\ UNCHANGED <<generation, disposed, prepared, suspended, gateDisposed, work, recovered>>
    <3>1. CASE Release(g) \/ NotRecovered(g) \/ AttemptThrows(g)
      <4>1. /\ stage[g] \in {"suspending", "releasing"} \cup Recovering
            /\ Ends(g, FALSE) /\ ScopeEnds(g)
            /\ allowed' = (allowed /\ ~Current(g))
            /\ UNCHANGED <<generation, disposed, prepared, suspended, gateDisposed, work, recovered>>
        BY <1>2, <3>1 DEF Release, NotRecovered, AttemptThrows, Recovering, TypeOK,
                          OpenMeansRecovered, UnderWay
      <4>2. lease' \in [Works -> 0..MaxRequests]
        BY <4>1, RequestsAssumption DEF ScopeEnds, TypeOK
      <4>3. \A w \in Works : lease'[w] \in {0, lease[w]} /\ lease'[w] # g
        BY <4>1 DEF ScopeEnds, Requests
      <4> QED
        BY <4>1, <4>2, <4>3 DEF Ends
    <3>2. CASE Released(g)
      <4>1. \A w \in Works : lease[w] # g
        BY <3>2 DEF Released, LeaseSound, Recovering, Requests
      <4> QED
        BY <3>2, <4>1 DEF Released, Ends, gate, TypeOK
    <3> QED
      BY <1>2, <3>1, <3>2
  <2>2. TypeOK'
    BY <2>1 DEF TypeOK, Stages
  <2>3. AttemptsSound' /\ PreparedSound' /\ OneRecovery'
    BY <2>1 DEF TypeOK, AttemptsSound, PreparedSound, OneRecovery, UnderWay, Recovering, Current
  <2>4. LeaseSound'
    BY <2>1 DEF TypeOK, LeaseSound, Recovering
  <2>5. GateSound'
    BY <2>1 DEF TypeOK, AttemptsSound, GateSound, Current, OpenMeansRecovered
  <2>6. OpenMeansRecovered' /\ NoForgottenWaiter'
    BY <2>1 DEF TypeOK, OpenMeansRecovered, NoForgottenWaiter, UnderWay, Recovering
  <2> QED
    BY <2>2, <2>3, <2>4, <2>5, <2>6
<1> QED
  BY <1>1, <1>2

LEMMA NextPreserves == RInv /\ [Next]_vars => RInv'
<1> SUFFICES ASSUME RInv, [Next]_vars PROVE RInv'
  OBVIOUS
<1>1. ASSUME NEW g \in Requests, Attempt(g) PROVE RInv'
  BY <1>1, BeginPreserves, AdvancePreserves, EndPreserves DEF Attempt
<1>2. ASSUME NEW g \in Requests, NEW w \in Works, StartsWork(g, w) PROVE RInv'
  BY <1>2, AdvancePreserves
<1>3. CASE UNCHANGED vars
  BY <1>3 DEF vars, RInv, TypeOK, AttemptsSound, PreparedSound, LeaseSound, GateSound,
              OneRecovery, OpenMeansRecovered, NoForgottenWaiter, UnderWay, Current
<1> QED
  BY <1>1, <1>2, <1>3, LoopPreserves, GatePreserves, RequestPreserves, DisposalPreserves DEF Next

LEMMA Invariance == Spec => []RInv
<1>1. RInv /\ [Next]_vars => RInv'
  BY NextPreserves
<1> QED
  BY <1>1, InitEstablishes, PTL DEF Spec

-------------------------------------------------------------------------------
(* Theorems *)

\* The gate is open only when the latest request has been recovered, with the
\* work it carried.
THEOREM GateOpensForLatest == Spec => []OpenMeansRecovered
<1>1. RInv => OpenMeansRecovered
  BY DEF RInv
<1> QED
  BY <1>1, Invariance, PTL

\* Two recoveries never overlap, also when one overtakes the other.
THEOREM RecoveriesDoNotOverlap == Spec => []AttemptsConsistent
<1>1. RInv => AttemptsConsistent
  BY DEF RInv, AttemptsConsistent
<1> QED
  BY <1>1, Invariance, PTL

\* Nothing waits at an open gate or at one that is gone.
THEOREM NobodyForgotten == Spec => []NoForgottenWaiter
<1>1. RInv => NoForgottenWaiter
  BY DEF RInv
<1> QED
  BY <1>1, Invariance, PTL

\* Work passes only an open gate, or within the recovery that started it while
\* that recovery lasts.
THEOREM LegalPassage == Spec => PassesLegally
<1> DEFINE Passes == \A w \in Works : (work[w] # "in" /\ work'[w] = "in")
                        => allowed \/ \E g \in Requests : lease[w] = g /\ stage[g] \in Recovering
<1>1. RInv /\ [Next]_vars => [Passes]_vars
  <2> SUFFICES ASSUME RInv, Next, NEW w \in Works, work[w] # "in", work'[w] = "in"
               PROVE  allowed \/ \E g \in Requests : lease[w] = g /\ stage[g] \in Recovering
    OBVIOUS
  <2>1. Call(w) \/ Continue(w)
    <3>1. ASSUME NEW g \in Requests, Attempt(g) \/ LoopContinues(g) \/ Retries(g)
                                      \/ \E v \in Works : StartsWork(g, v)
          PROVE  FALSE
      BY <3>1 DEF Attempt, Begin, WakesSuspended, Ready, Prepared, Resumed, Release, NotRecovered,
                  AttemptThrows, Released, LoopContinues, Retries, StartsWork, GateOpens, gate
    <3>2. ~Request /\ ~Dispose /\ ~GateDispose
      BY DEF Request, Dispose, GateDispose
    <3>3. ASSUME NEW v \in Works, Call(v) \/ Continue(v) \/ Leave(v)
          PROVE  Call(w) \/ Continue(w)
      <4>1. CASE v # w
        BY <3>3, <4>1 DEF Call, Continue, Leave, Asks, RInv, TypeOK
      <4>2. CASE v = w
        BY <3>3, <4>2 DEF Leave, RInv, TypeOK
      <4> QED
        BY <4>1, <4>2
    <3> QED
      BY <3>1, <3>2, <3>3 DEF Next
  <2>2. allowed \/ lease[w] # 0
    BY <2>1 DEF Call, Continue, Asks, RInv, TypeOK
  <2> QED
    BY <2>2, RequestsAssumption DEF RInv, TypeOK, LeaseSound, Requests
<1> QED
  BY <1>1, Invariance, PTL DEF Spec, PassesLegally
===============================================================================
