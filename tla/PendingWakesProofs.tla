--------------------------- MODULE PendingWakesProofs ---------------------------
(***************************************************************************)
(* No wake that is owed gets lost, and a released host follows each: for   *)
(* any pieces of work, agents, groups and kinds, and any number of crashes,*)
(* recreations, prunings and deletions.                                    *)
(*                                                                         *)
(* Who is owed a wake changes as deletions fail and processes end, so the  *)
(* inductive invariant speaks of work whose agent is not erased (Kept).    *)
(* That a released host follows every marker rests on the pass before:     *)
(* each marker is followed, or the pass still has it to rearm (PassSound). *)
(* A rearm that nobody awaits may still write a marker back, which is      *)
(* harmless as it is there already (LooseKept).                            *)
(***************************************************************************)
EXTENDS PendingWakes, TLAPS

Due == {w \in started \ (taken \cup stopped \cup lost) : AgentOf[w] \notin erased \cup Groups}

Kept == \A w \in Due : mark[w] # "none" \/ w \in Held \cup Restoring
LooseKept == \A w \in loose \cap Due : mark[w] # "none"
NoneWaitForDeleted == \A w \in waiting : AgentOf[w] \notin deleted

Followed(w) == watchers[w] > 0 \/ w \in waiting
Pending(w) == (\E k \in pass.left : k.work = w) \/ (pass.at # None /\ pass.at.work = w)

PassSound ==
    /\ released => ~pass.on /\ prepare = None
    /\ pass.on /\ pass.current => prepare = None
    /\ pass.at # None => pass.on
    /\ pass.on /\ pass.ok /\ pass.current =>
          \A w \in Owed \ lost : mark[w] # "none" => Followed(w) \/ Pending(w)

WInv == /\ TypeOK /\ Kept /\ LooseKept /\ NoneWaitForDeleted
        /\ NoStrandedCompletion /\ ReleasedIsFollowed /\ PassSound

Passes == [on : BOOLEAN, left : SUBSET Markers, at : Markers \cup {None}, ok : BOOLEAN, current : BOOLEAN]

-------------------------------------------------------------------------------
(* Markers, completions and revivals *)

LEMMA MarkerParts ==
    ASSUME NEW k \in Markers
    PROVE  k.work \in Works /\ k.mark \in {"armed", "cut"} /\ k.mark \in Marks /\ k.mark # "none" /\ k # None
BY WorksAssumption DEF Markers, Marks

LEMMA OwedIsDue == Owed \ lost \subseteq Due
BY DEF Owed, Due

LEMMA QueueOfWork ==
    ASSUME NEW w \in Works
    PROVE  Queue(w) \in Queues
BY DEF Queues

LEMMA ClearedEffect ==
    ASSUME NEW m \in [Works -> Marks], NEW S
    PROVE  /\ Cleared(S, m) \in [Works -> Marks]
           /\ \A w \in Works : Cleared(S, m)[w] = IF w \in S THEN "none" ELSE m[w]
BY DEF Cleared, Marks

LEMMA ArmedEffect ==
    ASSUME NEW m \in [Works -> Marks], NEW w \in Works
    PROVE  /\ Armed(w, m) \in [Works -> Marks]
           /\ \A v \in Works : v # w => Armed(w, m)[v] = m[v]
           /\ Armed(w, m)[w] = IF AgentOf[w] \in deleted THEN m[w] ELSE "armed"
BY DEF Armed, Marks

\* What a round of revival, or the completions of S, do to what waits and was taken up.
HandedOn == /\ waiting' \subseteq Works /\ reviving' \subseteq Queues /\ taken' \subseteq Works
            /\ taken \subseteq taken' /\ waiting \subseteq waiting' \cup taken'
            /\ \A w \in waiting' : Queue(w) \in reviving' /\ AgentOf[w] \notin deleted
            /\ \A w \in taken' : w \in taken \/ AgentOf[w] \notin deleted

LEMMA CompletedEffect ==
    ASSUME WInv, NEW S \in SUBSET Works, NEW m \in [Works -> Marks], Completed(S, m)
    PROVE  /\ HandedOn
           /\ mark' \in [Works -> Marks]
           /\ \A w \in Works : mark'[w] = m[w] \/ w \in taken'
           /\ \A w \in S : AgentOf[w] \notin Gone => w \in waiting' \cup taken'
<1> DEFINE heard == {w \in S : ~Dropped(w)}
           idle == {q \in Queues \ reviving : heard \cap Of(q) # {}}
<1>1. TypeOK /\ NoneWaitForDeleted /\ NoStrandedCompletion
  BY DEF WInv
<1>2. PICK first \in [idle -> heard] :
         LET now == {first[q] : q \in idle} \cup {w \in waiting : Queue(w) \in idle}
         IN  /\ \A q \in idle : Queue(first[q]) = q
             /\ waiting' = (waiting \cup heard) \ now
             /\ mark' = Cleared(now, m)
             /\ reviving' = reviving \cup idle
             /\ taken' = taken \cup now
  BY DEF Completed
<1> DEFINE now == {first[q] : q \in idle} \cup {w \in waiting : Queue(w) \in idle}
<1>3. heard \subseteq S /\ \A w \in heard : AgentOf[w] \notin deleted
  BY DEF Dropped, Gone
<1>4. \A w \in S : AgentOf[w] \notin Gone => w \in heard
  BY DEF Dropped, Gone
<1>5. \A w \in heard : Queue(w) \in reviving \cup idle
  BY QueueOfWork DEF Of
<1>6. idle \subseteq Queues
  OBVIOUS
<1> HIDE DEF heard, idle
<1>7. now \subseteq heard \cup waiting
  OBVIOUS
<1>8. \A w \in waiting \cup heard : w \in Works /\ AgentOf[w] \notin deleted /\ Queue(w) \in reviving \cup idle
  BY <1>1, <1>3, <1>5 DEF TypeOK, NoneWaitForDeleted, NoStrandedCompletion
<1>9. waiting' = (waiting \cup heard) \ now /\ taken' = taken \cup now
      /\ reviving' = reviving \cup idle /\ mark' = Cleared(now, m)
  BY <1>2
<1> HIDE DEF now
<1>10. HandedOn
  BY <1>1, <1>6, <1>7, <1>8, <1>9 DEF HandedOn, TypeOK
<1>11. mark' \in [Works -> Marks] /\ \A w \in Works : mark'[w] = m[w] \/ w \in taken'
  BY <1>9, ClearedEffect
<1> QED
  BY <1>4, <1>9, <1>10, <1>11

LEMMA TakeUpEffect ==
    ASSUME WInv, NEW q \in Queues, TakeUp(q)
    PROVE  /\ HandedOn
           /\ mark' \in [Works -> Marks]
           /\ \A w \in Works : mark'[w] = mark[w] \/ w \in taken'
<1> DEFINE next == waiting \cap Of(q)
<1>1. TypeOK /\ NoneWaitForDeleted /\ NoStrandedCompletion
  BY DEF WInv
<1>2. /\ waiting' = waiting \ next /\ mark' = Cleared(next, mark) /\ taken' = taken \cup next
      /\ reviving' = IF next = {} THEN reviving \ {q} ELSE reviving
  BY DEF TakeUp
<1>3. \A w \in waiting : w \in Works /\ Queue(w) \in reviving /\ AgentOf[w] \notin deleted
                         /\ (next = {} => Queue(w) # q)
  BY <1>1 DEF TypeOK, NoneWaitForDeleted, NoStrandedCompletion, Of
<1>4. next \subseteq waiting
  OBVIOUS
<1> HIDE DEF next
<1>5. HandedOn
  BY <1>1, <1>2, <1>3, <1>4 DEF HandedOn, TypeOK
<1>6. mark' \in [Works -> Marks] /\ \A w \in Works : mark'[w] = mark[w] \/ w \in taken'
  BY <1>1, <1>2, ClearedEffect DEF TypeOK
<1> QED
  BY <1>5, <1>6

-------------------------------------------------------------------------------
(* Steps *)

LEMMA InitEstablishes == Init => WInv
<1> SUFFICES ASSUME Init PROVE WInv
  OBVIOUS
<1> USE WorksAssumption DEF Init
<1>1. TypeOK
  <2>1. /\ mark \in [Works -> Marks] /\ watchers \in [Works -> 0..MaxWatchers] /\ upsets \in 0..MaxUpsets
    BY DEF Marks
  <2>2. pass \in Passes
    BY DEF NoPass, Passes
  <2> QED
    BY <2>1, <2>2 DEF TypeOK, Passes
<1>2. Kept /\ LooseKept /\ NoneWaitForDeleted /\ NoStrandedCompletion
  BY DEF Kept, LooseKept, NoneWaitForDeleted, NoStrandedCompletion, Due
<1>3. ReleasedIsFollowed /\ PassSound
  BY DEF ReleasedIsFollowed, PassSound, NoPass
<1> QED
  BY <1>1, <1>2, <1>3 DEF WInv

\* A step that leaves recoveries alone keeps the invariant if what is due keeps its
\* marker, and what is owed and marked is followed, or as much in hand as before.
LEMMA WorkStep ==
    ASSUME WInv, TypeOK', \A w \in waiting' : Queue(w) \in reviving' /\ AgentOf[w] \notin deleted',
           UNCHANGED <<prepare, released, carry>>,
           pass'.on = pass.on, pass'.current = pass.current, pass'.ok => pass.ok,
           pass'.at # None => pass.on, loose' \subseteq loose,
           \A w \in Due' : mark'[w] # "none" \/ (w \in Due /\ mark[w] = "none"),
           \A w \in Owed' \ lost' : mark'[w] # "none" =>
               \/ Followed(w)'
               \/ pass.on /\ ~pass'.ok
               \/ /\ w \in Owed \ lost /\ mark[w] # "none" /\ ~Followed(w)
                  /\ Pending(w) => Pending(w)'
    PROVE  WInv'
<1>1. TypeOK /\ Kept /\ LooseKept /\ ReleasedIsFollowed /\ PassSound
  BY DEF WInv
<1>2. Kept'
  BY <1>1 DEF Kept, Held, Restoring
<1>3. LooseKept'
  BY <1>1 DEF LooseKept
<1>4. NoneWaitForDeleted' /\ NoStrandedCompletion'
  BY DEF NoneWaitForDeleted, NoStrandedCompletion
<1>5. ReleasedIsFollowed'
  <2> SUFFICES ASSUME released, NEW w \in Owed' \ lost', mark'[w] # "none" PROVE Followed(w)'
    BY DEF ReleasedIsFollowed, Followed
  <2>1. ~pass.on
    BY <1>1 DEF PassSound
  <2>2. w \in Owed \ lost /\ mark[w] # "none" => Followed(w)
    BY <1>1 DEF ReleasedIsFollowed, Followed
  <2> QED
    BY <2>1, <2>2
<1>6. PassSound'
  <2> SUFFICES ASSUME pass.on, pass'.ok, pass.current, NEW w \in Owed' \ lost', mark'[w] # "none"
               PROVE  Followed(w)' \/ Pending(w)'
    BY <1>1 DEF PassSound
  <2>1. w \in Owed \ lost /\ mark[w] # "none" => Followed(w) \/ Pending(w)
    BY <1>1 DEF PassSound
  <2> QED
    BY <2>1
<1> QED
  BY <1>2, <1>3, <1>4, <1>5, <1>6 DEF WInv

LEMMA RevivalEndsStep ==
    ASSUME WInv, NEW q \in Queues, RevivalEnds(q)
    PROVE  WInv'
<1>1. TypeOK /\ PassSound
  BY DEF WInv
<1>2. /\ HandedOn /\ mark' \in [Works -> Marks]
      /\ \A w \in Works : mark'[w] = mark[w] \/ w \in taken'
      /\ UNCHANGED <<watchers, agents, recovery, carry, started, stopped, lost, upsets>>
  BY TakeUpEffect DEF RevivalEnds
<1>3. TypeOK'
  BY <1>1, <1>2 DEF TypeOK, HandedOn, agents, recovery
<1>4. \A w \in Due' : w \in Due /\ w \in Works /\ mark'[w] = mark[w]
  BY <1>1, <1>2 DEF Due, HandedOn, TypeOK, agents
<1>5. \A w \in Owed' \ lost' : w \in Owed \ lost /\ mark'[w] = mark[w] /\ (Followed(w) => Followed(w)')
  BY <1>1, <1>2 DEF Owed, Followed, HandedOn, TypeOK, agents
<1>6. \A w : Pending(w)' = Pending(w)
  BY <1>2 DEF Pending, recovery
<1> QED
  BY <1>1, <1>2, <1>3, <1>4, <1>5, <1>6, WorkStep DEF HandedOn, agents, recovery, PassSound

LEMMA StartStep ==
    ASSUME WInv, NEW w \in Works, Start(w)
    PROVE  WInv'
<1>1. TypeOK /\ NoneWaitForDeleted /\ NoStrandedCompletion /\ PassSound
  BY DEF WInv
<1>2. /\ AgentOf[w] \notin Gone
      /\ started' = started \cup {w} /\ watchers' = [watchers EXCEPT ![w] = 1] /\ mark' = Armed(w, mark)
      /\ UNCHANGED <<waiting, reviving, agents, recovery, carry, taken, stopped, lost, upsets>>
  BY DEF Start
<1>3. /\ mark' \in [Works -> Marks] /\ mark'[w] = "armed"
      /\ \A v \in Works : v # w => mark'[v] = mark[v]
  BY <1>1, <1>2, ArmedEffect DEF TypeOK, Gone
<1>4. TypeOK'
  <2>1. watchers' \in [Works -> 0..MaxWatchers] /\ started' \subseteq Works
    BY <1>1, <1>2, WorksAssumption DEF TypeOK
  <2> QED
    BY <1>1, <1>2, <1>3, <2>1 DEF TypeOK, agents, recovery
<1>5. \A v \in waiting' : Queue(v) \in reviving' /\ AgentOf[v] \notin deleted'
  BY <1>1, <1>2 DEF NoneWaitForDeleted, NoStrandedCompletion, agents
<1>6. \A v \in Due' : mark'[v] # "none" \/ (v \in Due /\ mark[v] = "none")
  BY <1>1, <1>2, <1>3 DEF Due, agents, TypeOK
<1>7. \A v \in Owed' \ lost' : v = w \/ (v \in Owed \ lost /\ mark'[v] = mark[v] /\ (Followed(v) => Followed(v)'))
  BY <1>1, <1>2, <1>3 DEF Owed, Followed, TypeOK, agents
<1>8. Followed(w)'
  BY <1>1, <1>2 DEF Followed, TypeOK
<1>9. \A v : Pending(v)' = Pending(v)
  BY <1>2 DEF Pending, recovery
<1> QED
  BY <1>1, <1>2, <1>4, <1>5, <1>6, <1>7, <1>8, <1>9, WorkStep DEF recovery, PassSound

LEMMA SettleStep ==
    ASSUME WInv, NEW w \in Works, Settle(w)
    PROVE  WInv'
<1>1. TypeOK /\ PassSound
  BY DEF WInv
<1>2. /\ watchers[w] > 0 /\ watchers' = [watchers EXCEPT ![w] = @ - 1]
      /\ UNCHANGED <<agents, recovery, carry, started, stopped, lost, upsets>>
  BY DEF Settle
<1>3. /\ HandedOn /\ mark' \in [Works -> Marks]
      /\ \A v \in Works : mark'[v] = mark[v] \/ v \in taken'
      /\ AgentOf[w] \notin Gone => w \in waiting' \cup taken'
  BY <1>1, CompletedEffect DEF Settle, TypeOK
<1>4. watchers' \in [Works -> 0..MaxWatchers] /\ \A v \in Works : v # w => watchers'[v] = watchers[v]
  BY <1>1, <1>2, WorksAssumption DEF TypeOK
<1>5. TypeOK'
  BY <1>1, <1>2, <1>3, <1>4 DEF TypeOK, HandedOn, agents, recovery
<1>6. \A v \in Due' : v \in Due /\ v \in Works /\ mark'[v] = mark[v]
  BY <1>1, <1>2, <1>3 DEF Due, HandedOn, TypeOK, agents
<1>7. \A v \in Owed' \ lost' : v \in Owed \ lost /\ mark'[v] = mark[v] /\ (Followed(v) => Followed(v)')
  BY <1>1, <1>2, <1>3, <1>4 DEF Owed, Gone, Followed, HandedOn, TypeOK, agents
<1>8. \A v : Pending(v)' = Pending(v)
  BY <1>2 DEF Pending, recovery
<1> QED
  BY <1>1, <1>2, <1>3, <1>5, <1>6, <1>7, <1>8, WorkStep DEF HandedOn, agents, recovery, PassSound

LEMMA AbortSteps ==
    ASSUME WInv, NEW w \in Works, Abort(w) \/ AbortedEnds(w)
    PROVE  WInv'
<1>1. TypeOK /\ NoneWaitForDeleted /\ NoStrandedCompletion /\ PassSound
  BY DEF WInv
<1>2. /\ stopped \subseteq stopped' /\ w \in stopped' /\ stopped' \subseteq Works
      /\ watchers' \in [Works -> 0..MaxWatchers]
      /\ \A v \in Works : v # w => watchers'[v] = watchers[v]
      /\ mark' = Cleared({w}, mark)
      /\ UNCHANGED <<waiting, reviving, agents, recovery, carry, started, taken, lost, upsets>>
  BY <1>1, WorksAssumption DEF Abort, AbortedEnds, TypeOK
<1>3. mark' \in [Works -> Marks] /\ \A v \in Works : v # w => mark'[v] = mark[v]
  BY <1>1, <1>2, ClearedEffect DEF TypeOK
<1>4. TypeOK'
  BY <1>1, <1>2, <1>3 DEF TypeOK, agents, recovery
<1>5. \A v \in waiting' : Queue(v) \in reviving' /\ AgentOf[v] \notin deleted'
  BY <1>1, <1>2 DEF NoneWaitForDeleted, NoStrandedCompletion, agents
<1>6. \A v \in Due' : v \in Due /\ mark'[v] = mark[v]
  BY <1>1, <1>2, <1>3 DEF Due, agents, TypeOK
<1>7. \A v \in Owed' \ lost' : v \in Owed \ lost /\ mark'[v] = mark[v] /\ (Followed(v) => Followed(v)')
  BY <1>1, <1>2, <1>3 DEF Owed, Followed, TypeOK, agents
<1>8. \A v : Pending(v)' = Pending(v)
  BY <1>2 DEF Pending, recovery
<1> QED
  BY <1>1, <1>2, <1>4, <1>5, <1>6, <1>7, <1>8, WorkStep DEF recovery, PassSound

-------------------------------------------------------------------------------
(* Rearming *)

LEMMA RearmedEffect ==
    ASSUME WInv, NEW k \in Markers, Rearmed(k)
    PROVE  /\ HandedOn /\ mark' \in [Works -> Marks] /\ watchers' \in [Works -> 0..MaxWatchers]
           /\ \A v \in Works : v # k.work => mark'[v] = mark[v] \/ v \in taken'
           /\ \A v \in Works : watchers[v] > 0 => watchers'[v] > 0
           /\ AgentOf[k.work] \notin Groups =>
                 /\ mark'[k.work] # "none" \/ k.work \in taken' \/ mark[k.work] = "none"
                 /\ AgentOf[k.work] \notin Gone => watchers'[k.work] > 0 \/ k.work \in waiting' \cup taken'
<1>1. TypeOK /\ NoneWaitForDeleted /\ NoStrandedCompletion
  BY DEF WInv
<1>2. k.work \in Works /\ mark \in [Works -> Marks] /\ watchers \in [Works -> 0..MaxWatchers]
  BY <1>1, MarkerParts DEF TypeOK
<1>3. UNCHANGED <<waiting, reviving, taken>> => HandedOn
  BY <1>1 DEF HandedOn, TypeOK, NoneWaitForDeleted, NoStrandedCompletion
<1> DEFINE w == k.work
<1>4. CASE AgentOf[w] \in Groups /\ mark' = Cleared({w}, mark) /\ UNCHANGED <<watchers, waiting, reviving, taken>>
  BY <1>2, <1>3, <1>4, ClearedEffect
<1>5. CASE Watched(w) /\ mark' = Armed(w, mark) /\ UNCHANGED <<waiting, reviving, taken>>
  <2>1. /\ mark' \in [Works -> Marks] /\ \A v \in Works : v # w => mark'[v] = mark[v]
        /\ mark'[w] # "none" \/ mark[w] = "none"
    BY <1>2, <1>5, ArmedEffect
  <2>2. PICK n \in {IF watchers[w] = 0 THEN 1 ELSE watchers[w],
                    IF watchers[w] < MaxWatchers THEN watchers[w] + 1 ELSE watchers[w]} :
               watchers' = [watchers EXCEPT ![w] = n]
    BY <1>5 DEF Watched
  <2>3. n \in 0..MaxWatchers /\ n > 0
    BY <1>2, <2>2, WorksAssumption
  <2>4. watchers' \in [Works -> 0..MaxWatchers] /\ watchers'[w] > 0
        /\ \A v \in Works : watchers[v] > 0 => watchers'[v] > 0
    BY <1>2, <2>2, <2>3
  <2> QED
    BY <1>3, <1>5, <2>1, <2>4
<1>6. CASE Completed({w}, mark) /\ UNCHANGED watchers
  <2>1. /\ HandedOn /\ mark' \in [Works -> Marks]
        /\ \A v \in Works : mark'[v] = mark[v] \/ v \in taken'
        /\ AgentOf[w] \notin Gone => w \in waiting' \cup taken'
    BY <1>2, <1>6, CompletedEffect
  <2> QED
    BY <1>2, <1>6, <2>1
<1>7. CASE Completed({w}, Armed(w, mark)) /\ UNCHANGED watchers
  <2>1. Armed(w, mark) \in [Works -> Marks] /\ (\A v \in Works : v # w => Armed(w, mark)[v] = mark[v])
        /\ (Armed(w, mark)[w] # "none" \/ mark[w] = "none")
    BY <1>2, ArmedEffect
  <2>2. /\ HandedOn /\ mark' \in [Works -> Marks]
        /\ \A v \in Works : mark'[v] = Armed(w, mark)[v] \/ v \in taken'
        /\ AgentOf[w] \notin Gone => w \in waiting' \cup taken'
    BY <1>2, <1>7, <2>1, CompletedEffect
  <2> QED
    BY <1>2, <1>7, <2>1, <2>2
<1> QED
  BY <1>4, <1>5, <1>6, <1>7 DEF Rearmed

LEMMA RearmSucceedsStep ==
    ASSUME WInv, RearmSucceeds
    PROVE  WInv'
<1>1. TypeOK /\ PassSound
  BY DEF WInv
<1>2. pass.at \in Markers /\ Rearmed(pass.at)
  BY <1>1 DEF RearmSucceeds, TypeOK
<1>3. /\ pass' = [pass EXCEPT !.at = None]
      /\ UNCHANGED <<agents, released, prepare, loose, carry, started, stopped, lost, upsets>>
  BY DEF RearmSucceeds
<1>4. /\ pass' \in Passes /\ pass'.on = pass.on /\ pass'.current = pass.current /\ pass'.ok = pass.ok
      /\ pass'.left = pass.left /\ pass'.at = None
  BY <1>1, <1>3 DEF TypeOK, Passes
<1>5. /\ HandedOn /\ mark' \in [Works -> Marks] /\ watchers' \in [Works -> 0..MaxWatchers]
      /\ \A v \in Works : v # pass.at.work => mark'[v] = mark[v] \/ v \in taken'
      /\ \A v \in Works : watchers[v] > 0 => watchers'[v] > 0
      /\ AgentOf[pass.at.work] \notin Groups =>
            /\ mark'[pass.at.work] # "none" \/ pass.at.work \in taken' \/ mark[pass.at.work] = "none"
            /\ AgentOf[pass.at.work] \notin Gone =>
                  watchers'[pass.at.work] > 0 \/ pass.at.work \in waiting' \cup taken'
  BY <1>2, RearmedEffect
<1>6. TypeOK'
  BY <1>1, <1>3, <1>4, <1>5 DEF TypeOK, Passes, HandedOn, agents
<1>7. \A v \in Due' : mark'[v] # "none" \/ (v \in Due /\ mark[v] = "none")
  BY <1>1, <1>3, <1>5 DEF Due, HandedOn, TypeOK, agents
<1>8. \A v \in Owed' \ lost' :
         \/ Followed(v)'
         \/ /\ v # pass.at.work
            /\ v \in Owed \ lost /\ mark'[v] = mark[v] /\ (Followed(v) => Followed(v)')
  BY <1>1, <1>3, <1>5 DEF Owed, Gone, Followed, HandedOn, TypeOK, agents
<1>9. \A v : v # pass.at.work => (Pending(v) => Pending(v)')
  BY <1>4 DEF Pending
<1> QED
  BY <1>1, <1>3, <1>4, <1>5, <1>6, <1>7, <1>8, <1>9, WorkStep DEF HandedOn, agents

LEMMA LooseRearmedStep ==
    ASSUME WInv, NEW w \in Works, LooseRearmed(w)
    PROVE  WInv'
<1>1. TypeOK /\ PassSound
  BY DEF WInv
<1> DEFINE k == [work |-> w, mark |-> "armed"]
<1>2. k \in Markers /\ k.work = w /\ Rearmed(k)
  BY DEF Markers, LooseRearmed
<1>3. /\ loose' = loose \ {w}
      /\ UNCHANGED <<agents, pass, released, prepare, carry, started, stopped, lost, upsets>>
  BY DEF LooseRearmed
<1>4. /\ HandedOn /\ mark' \in [Works -> Marks] /\ watchers' \in [Works -> 0..MaxWatchers]
      /\ \A v \in Works : v # w => mark'[v] = mark[v] \/ v \in taken'
      /\ \A v \in Works : watchers[v] > 0 => watchers'[v] > 0
      /\ AgentOf[w] \notin Groups =>
            /\ mark'[w] # "none" \/ w \in taken' \/ mark[w] = "none"
            /\ AgentOf[w] \notin Gone => watchers'[w] > 0 \/ w \in waiting' \cup taken'
  <2> HIDE DEF k
  <2> QED
    BY <1>2, RearmedEffect
<1> HIDE DEF k
<1>5. TypeOK'
  BY <1>1, <1>3, <1>4 DEF TypeOK, HandedOn, agents
<1>6. \A v \in Due' : mark'[v] # "none" \/ (v \in Due /\ mark[v] = "none")
  BY <1>1, <1>3, <1>4 DEF Due, HandedOn, TypeOK, agents
<1>7. \A v \in Owed' \ lost' :
         \/ Followed(v)'
         \/ v \in Owed \ lost /\ mark'[v] = mark[v] /\ (Followed(v) => Followed(v)')
  BY <1>1, <1>3, <1>4 DEF Owed, Gone, Followed, HandedOn, TypeOK, agents
<1>8. \A v : Pending(v)' = Pending(v)
  BY <1>3 DEF Pending
<1> QED
  BY <1>1, <1>3, <1>4, <1>5, <1>6, <1>7, <1>8, WorkStep DEF HandedOn, agents, PassSound

LEMMA LooseFailsStep ==
    ASSUME WInv, NEW w \in Works, LooseFails(w)
    PROVE  WInv'
<1>1. TypeOK /\ NoneWaitForDeleted /\ NoStrandedCompletion /\ LooseKept /\ PassSound
  BY DEF WInv
<1>2. /\ w \in loose /\ loose' = loose \ {w} /\ mark' = [mark EXCEPT ![w] = "armed"]
      /\ UNCHANGED <<watchers, waiting, reviving, agents, pass, released, prepare,
                     carry, started, taken, stopped, lost, upsets>>
  BY DEF LooseFails
<1>3. mark' \in [Works -> Marks] /\ mark'[w] # "none" /\ \A v \in Works : v # w => mark'[v] = mark[v]
  BY <1>1, <1>2 DEF TypeOK, Marks
<1>4. TypeOK'
  BY <1>1, <1>2, <1>3 DEF TypeOK, agents
<1>5. \A v \in waiting' : Queue(v) \in reviving' /\ AgentOf[v] \notin deleted'
  BY <1>1, <1>2 DEF NoneWaitForDeleted, NoStrandedCompletion, agents
<1>6. \A v \in Due' : v \in Due /\ v \in Works
  BY <1>1, <1>2 DEF Due, agents, TypeOK
<1>7. \A v \in Owed' \ lost' : v \in Owed \ lost /\ v \in Works /\ (Followed(v) => Followed(v)')
                               /\ (Pending(v) => Pending(v)')
  BY <1>1, <1>2 DEF Owed, Followed, Pending, TypeOK, agents
\* The marker was there already, if it mattered.
<1>8. w \in Owed \ lost => mark[w] # "none"
  BY <1>1, <1>2, OwedIsDue DEF LooseKept
<1> QED
  BY <1>1, <1>2, <1>3, <1>4, <1>5, <1>6, <1>7, <1>8, WorkStep DEF PassSound

LEMMA RearmNextStep ==
    ASSUME WInv, NEW k \in Markers, RearmNext(k)
    PROVE  WInv'
<1>1. TypeOK /\ NoneWaitForDeleted /\ NoStrandedCompletion
  BY DEF WInv
<1>2. /\ pass.on /\ pass.at = None /\ k \in pass.left
      /\ pass' = [pass EXCEPT !.left = @ \ {k}, !.at = IF AgentOf[k.work] \in Gone THEN None ELSE k]
      /\ UNCHANGED <<mark, watchers, waiting, reviving, agents, released,
                     prepare, loose, carry, started, taken, stopped, lost, upsets>>
  BY DEF RearmNext
<1>3. /\ pass' \in Passes /\ pass'.on = pass.on /\ pass'.current = pass.current /\ pass'.ok = pass.ok
      /\ pass'.left = pass.left \ {k} /\ pass'.at = IF AgentOf[k.work] \in Gone THEN None ELSE k
  BY <1>1, <1>2 DEF TypeOK, Passes
<1>4. TypeOK'
  BY <1>1, <1>2, <1>3 DEF TypeOK, Passes, agents
<1>5. \A v \in waiting' : Queue(v) \in reviving' /\ AgentOf[v] \notin deleted'
  BY <1>1, <1>2 DEF NoneWaitForDeleted, NoStrandedCompletion, agents
<1>6. Due' = Due /\ Owed' = Owed
  BY <1>2 DEF Due, Owed, agents
<1>7. \A v \in Owed' : Followed(v)' = Followed(v) /\ AgentOf[v] \notin Gone
  BY <1>2 DEF Owed, Gone, Followed, agents
<1>8. \A v : AgentOf[v] \notin Gone => (Pending(v) => Pending(v)')
  BY <1>2, <1>3, MarkerParts DEF Pending
<1> QED
  BY <1>1, <1>2, <1>3, <1>4, <1>5, <1>6, <1>7, <1>8, WorkStep

LEMMA RearmFailsStep ==
    ASSUME WInv, RearmFails
    PROVE  WInv'
<1>1. TypeOK /\ NoneWaitForDeleted /\ NoStrandedCompletion /\ PassSound
  BY DEF WInv
<1>2. /\ pass.at # None
      /\ mark' = [mark EXCEPT ![pass.at.work] = pass.at.mark]
      /\ pass' = [pass EXCEPT !.at = None, !.ok = FALSE]
      /\ UNCHANGED <<watchers, waiting, reviving, agents, released,
                     prepare, loose, carry, started, taken, stopped, lost, upsets>>
  BY DEF RearmFails
<1>3. pass.on /\ pass.at.work \in Works /\ pass.at.mark \in Marks \ {"none"}
  BY <1>1, <1>2, MarkerParts DEF TypeOK, PassSound
<1>4. /\ pass' \in Passes /\ pass'.on = pass.on /\ pass'.current = pass.current /\ ~pass'.ok /\ pass'.at = None
  BY <1>1, <1>2 DEF TypeOK, Passes
<1>5. mark' \in [Works -> Marks] /\ \A v \in Works : mark'[v] # "none" \/ mark'[v] = mark[v]
  BY <1>1, <1>2, <1>3 DEF TypeOK
<1>6. TypeOK'
  BY <1>1, <1>2, <1>4, <1>5 DEF TypeOK, Passes, agents
<1>7. \A v \in waiting' : Queue(v) \in reviving' /\ AgentOf[v] \notin deleted'
  BY <1>1, <1>2 DEF NoneWaitForDeleted, NoStrandedCompletion, agents
<1>8. \A v \in Due' : v \in Due /\ v \in Works
  BY <1>1, <1>2 DEF Due, agents, TypeOK
<1> QED
  BY <1>2, <1>3, <1>4, <1>5, <1>6, <1>7, <1>8, WorkStep

LEMMA RearmPendingWakesStep ==
    ASSUME WInv, NEW stale \in SUBSET Works, RearmPendingWakes(stale)
    PROVE  WInv'
<1>1. TypeOK /\ Kept /\ LooseKept /\ NoneWaitForDeleted /\ NoStrandedCompletion
  BY DEF WInv
<1> DEFINE left == MarkersOf(Marked \ stale)
<1>2. /\ ~released /\ prepare = None
      /\ mark' = Cleared(stale, mark) /\ lost' = lost \cup stale
      /\ pass' = [NoPass EXCEPT !.on = TRUE, !.left = left]
      /\ UNCHANGED <<watchers, waiting, reviving, agents, released, prepare,
                     loose, carry, started, taken, stopped>>
  BY DEF RearmPendingWakes
<1>3. mark' \in [Works -> Marks] /\ \A w \in Works : mark'[w] = IF w \in stale THEN "none" ELSE mark[w]
  BY <1>1, <1>2, ClearedEffect DEF TypeOK
<1>4. left \subseteq Markers /\ \A w \in Works \ stale : mark[w] # "none" => \E k \in left : k.work = w
  <2>1. \A w \in Marked : w \in Works /\ mark[w] \in {"armed", "cut"}
    BY <1>1 DEF Marked, TypeOK, Marks
  <2>2. left \subseteq Markers
    BY <2>1 DEF MarkersOf, Markers
  <2>3. ASSUME NEW w \in Works \ stale, mark[w] # "none" PROVE \E k \in left : k.work = w
    <3>1. [work |-> w, mark |-> mark[w]] \in left
      BY <2>3 DEF MarkersOf, Marked
    <3> QED
      BY <3>1
  <2> QED
    BY <2>2, <2>3
<1> HIDE DEF left
<1>5. /\ pass' \in Passes /\ pass'.on /\ pass'.left = left /\ pass'.at = None
  BY <1>2, <1>4 DEF NoPass, Passes
<1>6. TypeOK'
  <2>1. upsets' \in 0..MaxUpsets
    BY <1>1, WorksAssumption DEF RearmPendingWakes, Upset, TypeOK
  <2>2. lost' \subseteq Works
    BY <1>1, <1>2 DEF TypeOK
  <2> QED
    BY <1>1, <1>2, <1>3, <1>5, <2>1, <2>2 DEF TypeOK, Passes, agents
<1>7. \A w \in Due' : w \in Due /\ mark'[w] = mark[w]
  BY <1>1, <1>2, <1>3 DEF Due, TypeOK, agents
<1>8. Kept' /\ LooseKept'
  BY <1>1, <1>2, <1>7 DEF Kept, LooseKept, Held, Restoring
<1>9. NoneWaitForDeleted' /\ NoStrandedCompletion' /\ ReleasedIsFollowed'
  BY <1>1, <1>2 DEF NoneWaitForDeleted, NoStrandedCompletion, ReleasedIsFollowed, agents
<1>10. PassSound'
  <2>1. \A w \in Owed' \ lost' : w \in Works \ stale
    BY <1>1, <1>2 DEF Owed, TypeOK
  <2>2. \A w \in Owed' \ lost' : mark'[w] # "none" => Pending(w)'
    BY <1>3, <1>4, <1>5, <2>1 DEF Pending
  <2> QED
    BY <1>2, <1>5, <2>2 DEF PassSound
<1> QED
  BY <1>6, <1>8, <1>9, <1>10 DEF WInv

LEMMA RearmEndsStep ==
    ASSUME WInv, RearmEnds
    PROVE  WInv'
<1>1. TypeOK /\ Kept /\ LooseKept /\ NoneWaitForDeleted /\ NoStrandedCompletion /\ PassSound
  BY DEF WInv
<1>2. /\ pass.on /\ pass.at = None /\ pass.left = {}
      /\ released' = (pass.ok /\ pass.current) /\ pass' = NoPass
      /\ UNCHANGED <<mark, watchers, waiting, reviving, agents, prepare,
                     loose, carry, started, taken, stopped, lost, upsets>>
  BY DEF RearmEnds
<1>3. TypeOK'
  <2>1. pass' \in Passes /\ released' \in BOOLEAN
    BY <1>1, <1>2 DEF NoPass, Passes, TypeOK
  <2> QED
    BY <1>1, <1>2, <2>1 DEF TypeOK, Passes, agents
<1>4. Due' = Due /\ Owed' = Owed
  BY <1>2 DEF Due, Owed, agents
<1>5. Kept' /\ LooseKept' /\ NoneWaitForDeleted' /\ NoStrandedCompletion'
  BY <1>1, <1>2, <1>4 DEF Kept, LooseKept, NoneWaitForDeleted, NoStrandedCompletion, Held, Restoring, agents
<1>6. ReleasedIsFollowed'
  <2> SUFFICES ASSUME released', NEW w \in Owed \ lost, mark[w] # "none" PROVE Followed(w)
    BY <1>2, <1>4 DEF ReleasedIsFollowed, Followed
  <2>1. Followed(w) \/ Pending(w)
    BY <1>1, <1>2 DEF PassSound
  <2> QED
    BY <1>2, <2>1 DEF Pending
<1>7. PassSound'
  BY <1>1, <1>2 DEF PassSound, NoPass
<1> QED
  BY <1>3, <1>5, <1>6, <1>7 DEF WInv

-------------------------------------------------------------------------------
(* Recreation *)

LEMMA QuiesceForRecreateStep ==
    ASSUME WInv, QuiesceForRecreate
    PROVE  WInv'
<1>1. /\ TypeOK /\ Kept /\ LooseKept /\ NoneWaitForDeleted
      /\ NoStrandedCompletion /\ ReleasedIsFollowed /\ PassSound
  BY DEF WInv
<1>2. /\ carry = None /\ Upset
      /\ carry' = MarkersOf({w \in Marked : KindOf[w] # "subagent"})
      /\ UNCHANGED <<mark, watchers, waiting, reviving, agents, recovery, started, taken, stopped, lost>>
  BY DEF QuiesceForRecreate
<1>3. carry' \subseteq Markers
  BY <1>1, <1>2 DEF MarkersOf, Marked, Markers, TypeOK, Marks
<1>4. upsets' \in 0..MaxUpsets
  BY <1>1, <1>2, WorksAssumption DEF Upset, TypeOK
<1>5. TypeOK'
  BY <1>1, <1>2, <1>3, <1>4 DEF TypeOK, agents, recovery
<1>6. Due' = Due /\ Owed' = Owed
  BY <1>2 DEF Due, Owed, agents
<1>7. Kept'
  <2>1. Held = {} /\ Restoring' = Restoring
    BY <1>2 DEF Held, Restoring, recovery
  <2> QED
    BY <1>1, <1>2, <1>6, <2>1 DEF Kept
<1>8. LooseKept' /\ NoneWaitForDeleted' /\ NoStrandedCompletion' /\ ReleasedIsFollowed'
  BY <1>1, <1>2, <1>6
  DEF LooseKept, NoneWaitForDeleted, NoStrandedCompletion, ReleasedIsFollowed, agents, recovery
<1>9. PassSound'
  BY <1>1, <1>2, <1>6 DEF PassSound, Followed, Pending, recovery
<1> QED
  BY <1>5, <1>7, <1>8, <1>9 DEF WInv

LEMMA ResumeAfterRecreateStep ==
    ASSUME WInv, ResumeAfterRecreate
    PROVE  WInv'
<1>1. TypeOK /\ Kept /\ LooseKept /\ NoneWaitForDeleted /\ NoStrandedCompletion /\ PassSound
  BY DEF WInv
<1>2. /\ carry # None /\ prepare' = carry /\ carry' = None
      /\ lost' = lost \cup {w \in Restoring : mark[w] = "none" /\ w \notin Held}
      /\ released' = FALSE /\ pass' = [pass EXCEPT !.current = FALSE]
      /\ UNCHANGED <<mark, watchers, waiting, reviving, agents, loose, started, taken, stopped, upsets>>
  BY DEF ResumeAfterRecreate
<1>3. pass' \in Passes /\ ~pass'.current /\ pass'.at = pass.at /\ pass'.on = pass.on
  BY <1>1, <1>2 DEF TypeOK, Passes
<1>4. Restoring \subseteq Works
  <2>1. prepare # None => prepare \subseteq Markers
    BY <1>1 DEF TypeOK
  <2> QED
    BY <2>1, MarkerParts DEF Restoring
<1>5. TypeOK'
  <2>1. lost' \subseteq Works
    BY <1>1, <1>2, <1>4 DEF TypeOK
  <2> QED
    BY <1>1, <1>2, <1>3, <2>1 DEF TypeOK, Passes, agents
<1>6. \A w \in Due' : w \in Due /\ w \notin lost'
  BY <1>2 DEF Due, agents
<1>7. Kept'
  <2>1. Restoring' = Held
    BY <1>2 DEF Held, Restoring
  <2> QED
    BY <1>1, <1>2, <1>6, <2>1 DEF Kept
<1>8. LooseKept' /\ NoneWaitForDeleted' /\ NoStrandedCompletion' /\ ReleasedIsFollowed'
  BY <1>1, <1>2, <1>6 DEF LooseKept, NoneWaitForDeleted, NoStrandedCompletion, ReleasedIsFollowed, agents
<1>9. PassSound'
  BY <1>1, <1>2, <1>3 DEF PassSound
<1> QED
  BY <1>5, <1>7, <1>8, <1>9 DEF WInv

LEMMA RestoreStep ==
    ASSUME WInv, RestoreCarriedPendingWakes
    PROVE  WInv'
<1>1. TypeOK /\ Kept /\ LooseKept /\ PassSound
  BY DEF WInv
<1> DEFINE accepted == {k.work : k \in {k \in prepare : /\ mark[k.work] = "none"
                                                        /\ AgentOf[k.work] \notin Gone \cup Groups}}
           shells == {w \in accepted : KindOf[w] = "shell"}
           restored == [w \in Works |-> IF w \in shells THEN "cut"
                                        ELSE IF w \in accepted THEN "armed" ELSE mark[w]]
<1>2. /\ prepare # None /\ ~pass.on /\ prepare' = None
      /\ Completed(shells, restored)
      /\ loose' = loose \cup (accepted \ shells)
      /\ lost' = lost \cup {w \in Restoring : mark[w] = "none" /\ w \notin Held /\ AgentOf[w] \in deleted}
      /\ UNCHANGED <<watchers, agents, pass, released, carry, started, stopped, upsets>>
  BY DEF RestoreCarriedPendingWakes
<1>3. prepare \subseteq Markers
  BY <1>1, <1>2 DEF TypeOK
<1>4. Restoring = {k.work : k \in prepare} /\ Restoring \subseteq Works
  BY <1>2, <1>3, MarkerParts DEF Restoring
<1>5. /\ accepted \subseteq Works
      /\ \A w \in accepted : mark[w] = "none"
      /\ \A w \in Restoring : mark[w] = "none" /\ AgentOf[w] \notin Gone \cup Groups => w \in accepted
  BY <1>3, <1>4, MarkerParts
<1> HIDE DEF accepted
<1>6. shells \subseteq accepted
  OBVIOUS
<1> HIDE DEF shells
<1>7. restored \in [Works -> Marks]
      /\ \A w \in Works : restored[w] # "none" \/ (w \notin accepted /\ mark[w] = "none")
  BY <1>1, <1>6 DEF TypeOK, Marks
<1> HIDE DEF restored
<1>8. /\ HandedOn /\ mark' \in [Works -> Marks]
      /\ \A w \in Works : mark'[w] = restored[w] \/ w \in taken'
  BY <1>2, <1>5, <1>6, <1>7, CompletedEffect
<1>9. TypeOK'
  <2>1. lost' \subseteq Works /\ loose' \subseteq Works
    BY <1>1, <1>2, <1>4, <1>5 DEF TypeOK
  <2> QED
    BY <1>1, <1>2, <1>8, <2>1 DEF TypeOK, HandedOn, agents
<1>10. \A w \in Due' : /\ w \in Due /\ w \in Works /\ w \notin lost' /\ mark'[w] = restored[w]
                       /\ AgentOf[w] \notin erased \cup Groups
  BY <1>1, <1>2, <1>8 DEF Due, HandedOn, TypeOK, agents
<1>11. Kept'
  <2> SUFFICES ASSUME NEW w \in Due', mark'[w] = "none" PROVE w \in Held
    BY <1>2 DEF Kept, Held
  <2>1. w \in Works /\ w \notin accepted /\ mark[w] = "none"
    BY <1>7, <1>10
  <2>2. CASE w \in Restoring
    BY <1>2, <1>5, <1>10, <2>1, <2>2 DEF Gone
  <2> QED
    BY <1>1, <1>10, <2>1, <2>2 DEF Kept
<1>12. LooseKept'
  BY <1>1, <1>2, <1>7, <1>10 DEF LooseKept
<1>13. NoneWaitForDeleted' /\ NoStrandedCompletion'
  BY <1>2, <1>8 DEF HandedOn, NoneWaitForDeleted, NoStrandedCompletion, agents
<1>14. ReleasedIsFollowed' /\ PassSound'
  BY <1>1, <1>2 DEF ReleasedIsFollowed, PassSound
<1> QED
  BY <1>9, <1>11, <1>12, <1>13, <1>14 DEF WInv

-------------------------------------------------------------------------------
(* Deletion and restart *)

LEMMA DeletionSteps ==
    ASSUME WInv, NEW a \in Agents, InterruptForDeletion(a) \/ Erase(a) \/ DeletionFails(a)
    PROVE  WInv'
<1>1. TypeOK /\ NoneWaitForDeleted /\ NoStrandedCompletion /\ PassSound
  BY DEF WInv
<1>2. /\ UNCHANGED <<reviving, recovery, carry, started, taken, stopped, lost>>
      /\ deleted' \subseteq Agents /\ erased' \subseteq Agents /\ spared' \subseteq Agents
      /\ erased \subseteq erased' /\ deleted \subseteq deleted' \cup spared' /\ spared \subseteq spared'
      /\ waiting' \subseteq waiting /\ \A w \in waiting' : AgentOf[w] \notin deleted'
  BY <1>1 DEF InterruptForDeletion, Erase, DeletionFails, TypeOK, NoneWaitForDeleted, WorksOf
<1>3. /\ mark' \in [Works -> Marks] /\ watchers' \in [Works -> 0..MaxWatchers] /\ upsets' \in 0..MaxUpsets
      /\ \A w \in Works : mark'[w] = mark[w] \/ AgentOf[w] \in erased'
      /\ \A w \in Works : \/ watchers'[w] = watchers[w] /\ (w \in waiting => w \in waiting')
                          \/ AgentOf[w] \in deleted'
  <2>1. CASE InterruptForDeletion(a)
    <3>1. PICK rewatched \in SUBSET {w \in WorksOf(a) : KindOf[w] = "shell"} :
             watchers' = [w \in Works |-> IF w \in rewatched THEN 0 ELSE watchers[w]]
      BY <2>1 DEF InterruptForDeletion
    <3>2. \A w \in rewatched : AgentOf[w] = a
      BY DEF WorksOf
    <3>3. mark' = mark /\ waiting' = waiting \ WorksOf(a) /\ a \in deleted' /\ Upset
      BY <2>1 DEF InterruptForDeletion
    <3>4. upsets' \in 0..MaxUpsets
      BY <1>1, <3>3, WorksAssumption DEF Upset, TypeOK
    <3>5. watchers' \in [Works -> 0..MaxWatchers]
      BY <1>1, <3>1, WorksAssumption DEF TypeOK
    <3> QED
      BY <1>1, <3>1, <3>2, <3>3, <3>4, <3>5 DEF TypeOK, WorksOf
  <2>2. CASE Erase(a)
    BY <1>1, <2>2, ClearedEffect DEF Erase, TypeOK, WorksOf
  <2>3. CASE DeletionFails(a)
    BY <1>1, <2>3 DEF DeletionFails, TypeOK
  <2> QED
    BY <2>1, <2>2, <2>3
<1>4. TypeOK'
  BY <1>1, <1>2, <1>3 DEF TypeOK, recovery
<1>5. \A w \in waiting' : Queue(w) \in reviving' /\ AgentOf[w] \notin deleted'
  BY <1>1, <1>2 DEF NoStrandedCompletion
<1>6. \A w \in Due' : w \in Due /\ mark'[w] = mark[w]
  BY <1>1, <1>2, <1>3 DEF Due, TypeOK
<1>7. \A w \in Owed' \ lost' : w \in Owed \ lost /\ mark'[w] = mark[w] /\ (Followed(w) => Followed(w)')
  BY <1>1, <1>2, <1>3 DEF Owed, Followed, TypeOK
<1>8. \A w : Pending(w)' = Pending(w)
  BY <1>2 DEF Pending, recovery
<1> QED
  BY <1>1, <1>2, <1>4, <1>5, <1>6, <1>7, <1>8, WorkStep DEF recovery, PassSound

LEMMA RestartSteps ==
    ASSUME WInv, Crash \/ Recreate
    PROVE  WInv'
<1>1. TypeOK /\ Kept
  BY DEF WInv
<1>2. /\ \E m \in [Works -> Marks] : Restarted(m)
      /\ upsets' \in 0..MaxUpsets
  <2>1. [w \in Works |-> "none"] \in [Works -> Marks] /\ mark \in [Works -> Marks]
    BY <1>1 DEF TypeOK, Marks
  <2> QED
    BY <1>1, <2>1, WorksAssumption DEF Crash, Recreate, Upset, TypeOK
<1>3. PICK m \in [Works -> Marks] : Restarted(m)
  BY <1>2
<1>4. /\ mark' = m
      /\ lost' = lost \cup {w \in Marked \cup Restoring : m[w] = "none" /\ w \notin Held}
      /\ watchers' = [w \in Works |-> 0] /\ waiting' = {} /\ reviving' = {}
      /\ deleted' = {} /\ spared' = {}
      /\ pass' = NoPass /\ released' = FALSE /\ prepare' = None /\ loose' = {}
      /\ UNCHANGED <<erased, carry, started, taken, stopped>>
  BY <1>3 DEF Restarted
<1>5. TypeOK'
  <2>1. Restoring \subseteq Works
    <3>1. prepare # None => prepare \subseteq Markers
      BY <1>1 DEF TypeOK
    <3> QED
      BY <3>1, MarkerParts DEF Restoring
  <2>2. lost' \subseteq Works
    BY <1>1, <1>4, <2>1 DEF TypeOK, Marked
  <2>3. pass' \in Passes /\ watchers' \in [Works -> 0..MaxWatchers]
    BY <1>4, WorksAssumption DEF NoPass, Passes
  <2> QED
    BY <1>1, <1>2, <1>4, <2>2, <2>3 DEF TypeOK, Passes
<1>6. Kept'
  <2> SUFFICES ASSUME NEW w \in Due', m[w] = "none" PROVE w \in Held
    BY <1>4 DEF Kept, Held
  <2>1. w \in Due /\ w \in Works /\ w \notin lost'
    BY <1>1, <1>4 DEF Due, TypeOK
  <2>2. w \in Marked \/ w \in Held \cup Restoring
    BY <1>1, <2>1 DEF Kept, Marked
  <2> QED
    BY <1>4, <2>1, <2>2
<1>7. LooseKept' /\ NoneWaitForDeleted' /\ NoStrandedCompletion' /\ ReleasedIsFollowed'
  BY <1>4 DEF LooseKept, NoneWaitForDeleted, NoStrandedCompletion, ReleasedIsFollowed
<1>8. PassSound'
  BY <1>4 DEF PassSound, NoPass
<1> QED
  BY <1>5, <1>6, <1>7, <1>8 DEF WInv

LEMMA NextPreserves == WInv /\ [Next]_vars => WInv'
<1> SUFFICES ASSUME WInv, [Next]_vars PROVE WInv'
  OBVIOUS
<1>1. ASSUME NEW w \in Works,
             Start(w) \/ Settle(w) \/ Abort(w) \/ AbortedEnds(w) \/ LooseRearmed(w) \/ LooseFails(w)
      PROVE  WInv'
  BY <1>1, StartStep, SettleStep, AbortSteps, LooseRearmedStep, LooseFailsStep
<1>2. ASSUME NEW q \in Queues, RevivalEnds(q) PROVE WInv'
  BY <1>2, RevivalEndsStep
<1>3. ASSUME NEW stale \in SUBSET Works, RearmPendingWakes(stale) PROVE WInv'
  BY <1>3, RearmPendingWakesStep
<1>4. ASSUME NEW k \in Markers, RearmNext(k) PROVE WInv'
  BY <1>4, RearmNextStep
<1>5. CASE RearmSucceeds \/ RearmFails \/ RearmEnds
  BY <1>5, RearmSucceedsStep, RearmFailsStep, RearmEndsStep
<1>6. CASE QuiesceForRecreate \/ ResumeAfterRecreate \/ RestoreCarriedPendingWakes
  BY <1>6, QuiesceForRecreateStep, ResumeAfterRecreateStep, RestoreStep
<1>7. ASSUME NEW a \in Agents, InterruptForDeletion(a) \/ Erase(a) \/ DeletionFails(a) PROVE WInv'
  BY <1>7, DeletionSteps
<1>8. CASE Crash \/ Recreate
  BY <1>8, RestartSteps
<1>9. CASE UNCHANGED vars
  <2>1. /\ TypeOK /\ Kept /\ LooseKept /\ NoneWaitForDeleted
        /\ NoStrandedCompletion /\ ReleasedIsFollowed /\ PassSound
    BY DEF WInv
  <2>2. Due' = Due /\ Owed' = Owed /\ Held' = Held /\ Restoring' = Restoring
    BY <1>9 DEF vars, recovery, agents, Due, Owed, Held, Restoring
  <2>3. TypeOK'
    BY <1>9, <2>1 DEF vars, recovery, agents, TypeOK
  <2>4. Kept' /\ LooseKept' /\ NoneWaitForDeleted' /\ NoStrandedCompletion' /\ ReleasedIsFollowed'
    BY <1>9, <2>1, <2>2 DEF vars, recovery, agents,
       Kept, LooseKept, NoneWaitForDeleted, NoStrandedCompletion, ReleasedIsFollowed
  <2>5. PassSound'
    BY <1>9, <2>1, <2>2 DEF vars, recovery, PassSound, Followed, Pending
  <2> QED
    BY <2>3, <2>4, <2>5 DEF WInv
<1> QED
  BY <1>1, <1>2, <1>3, <1>4, <1>5, <1>6, <1>7, <1>8, <1>9 DEF Next

LEMMA WInvariance == Spec => []WInv
BY InitEstablishes, NextPreserves, PTL DEF Spec

-------------------------------------------------------------------------------
(* What is shown *)

\* A wake that is owed survives: until a revival takes the completion up its marker
\* is on disk, or the client of a recreation holds it, whatever pass, retry,
\* deletion, recreation or crash comes in between.
THEOREM OwedWakesSurvive == Spec => []OwedIsMarked
<1>1. WInv => OwedIsMarked
  BY OwedIsDue DEF WInv, Kept, OwedIsMarked
<1> QED
  BY <1>1, WInvariance, PTL

\* In a host that a recovery has released every wake owed and marked is followed in
\* memory, and no completion waits in a queue that nobody works through.
THEOREM EveryWakeIsFollowed == Spec => []WakesFollowed
<1>1. WInv => WakesFollowed
  BY DEF WInv, WakesFollowed
<1> QED
  BY <1>1, WInvariance, PTL

\* No completion of an agent that is being deleted is queued or taken up, also not by
\* the passes, restorations and watches that were under way.
THEOREM DeletedAgentsAreLeftAlone == Spec => DeletedAreLeftAlone
<1> DEFINE LeftAlone == \A w \in Works : AgentOf[w] \in deleted \cap deleted' =>
                            /\ w \in waiting' => w \in waiting
                            /\ w \in taken' => w \in taken
<1>1. WInv /\ [Next]_vars => [LeftAlone]_vars
  <2> SUFFICES ASSUME WInv, Next PROVE LeftAlone
    OBVIOUS
  <2>1. TypeOK
    BY DEF WInv
  <2>2. HandedOn => LeftAlone
    BY DEF HandedOn
  <2>3. ASSUME waiting' \subseteq waiting, taken' = taken PROVE LeftAlone
    BY <2>3
  <2> HIDE DEF LeftAlone
  <2>4. ASSUME NEW w \in Works, Settle(w) PROVE LeftAlone
    <3>1. HandedOn
      BY <2>1, <2>4, CompletedEffect DEF Settle, TypeOK
    <3> QED
      BY <2>2, <3>1
  <2>5. ASSUME NEW q \in Queues, RevivalEnds(q) PROVE LeftAlone
    BY <2>2, <2>5, TakeUpEffect DEF RevivalEnds
  <2>6. CASE RearmSucceeds
    <3>1. pass.at \in Markers /\ Rearmed(pass.at)
      BY <2>1, <2>6 DEF RearmSucceeds, TypeOK
    <3> QED
      BY <2>2, <3>1, RearmedEffect
  <2>7. ASSUME NEW w \in Works, LooseRearmed(w) PROVE LeftAlone
    <3>1. PICK k \in Markers : k = [work |-> w, mark |-> "armed"]
      BY DEF Markers
    <3>2. Rearmed(k)
      BY <2>7, <3>1 DEF LooseRearmed
    <3> QED
      BY <2>2, <3>2, RearmedEffect
  <2>8. CASE RestoreCarriedPendingWakes
    <3>1. \E S \in SUBSET Works, m \in [Works -> Marks] : Completed(S, m)
      <4> DEFINE accepted == {k.work : k \in {k \in prepare : /\ mark[k.work] = "none"
                                                              /\ AgentOf[k.work] \notin Gone \cup Groups}}
                 shells == {w \in accepted : KindOf[w] = "shell"}
                 restored == [w \in Works |-> IF w \in shells THEN "cut"
                                              ELSE IF w \in accepted THEN "armed" ELSE mark[w]]
      <4>1. Completed(shells, restored)
        BY <2>8 DEF RestoreCarriedPendingWakes
      <4>2. prepare \subseteq Markers
        BY <2>1, <2>8 DEF RestoreCarriedPendingWakes, TypeOK
      <4>3. accepted \subseteq Works
        BY <4>2, MarkerParts
      <4> HIDE DEF accepted
      <4>4. shells \subseteq Works
        BY <4>3
      <4> HIDE DEF shells
      <4>5. restored \in [Works -> Marks]
        BY <2>1 DEF TypeOK, Marks
      <4> HIDE DEF restored
      <4> QED
        BY <4>1, <4>4, <4>5
    <3> QED
      BY <2>2, <3>1, CompletedEffect
  <2>9. CASE \E w \in Works : Start(w) \/ Abort(w) \/ AbortedEnds(w) \/ LooseFails(w)
    BY <2>3, <2>9 DEF Start, Abort, AbortedEnds, LooseFails
  <2>10. CASE \/ \E stale \in SUBSET Works : RearmPendingWakes(stale)
              \/ \E k \in Markers : RearmNext(k)
              \/ RearmFails \/ RearmEnds \/ QuiesceForRecreate \/ ResumeAfterRecreate
    BY <2>3, <2>10 DEF RearmPendingWakes, RearmNext, RearmFails, RearmEnds, QuiesceForRecreate, ResumeAfterRecreate
  <2>11. CASE \E a \in Agents : InterruptForDeletion(a) \/ Erase(a) \/ DeletionFails(a)
    BY <2>3, <2>11 DEF InterruptForDeletion, Erase, DeletionFails
  <2>12. CASE Crash \/ Recreate
    BY <2>3, <2>12 DEF Crash, Recreate, Restarted
  <2> QED
    BY <2>4, <2>5, <2>6, <2>7, <2>8, <2>9, <2>10, <2>11, <2>12 DEF Next
<1> QED
  BY <1>1, WInvariance, PTL DEF Spec, DeletedAreLeftAlone
===============================================================================
