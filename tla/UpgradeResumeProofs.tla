-------------------------- MODULE UpgradeResumeProofs --------------------------
(***************************************************************************)
(* Work cut short for an upgrade stays marked, markers go for their own    *)
(* reasons, and a process resumes each once: for any agents and groups,    *)
(* any number of marks, of upgrades prepared and of ends of the process.   *)
(*                                                                         *)
(* That a marker outlives the resumed run it belongs to rests on the order *)
(* of the resumes of one agent.  An attempt waits for each to start        *)
(* (StagesSound), so a marker's resume ends before that of a later marker  *)
(* starts (Backed), and a recovery never has an outdated marker of an      *)
(* agent left to take up (TodoSound).  UInv is their conjunction with the  *)
(* bound on marks (RoomLeft), the shape of attempts and what an orderly    *)
(* end has marked (DisposeSound).                                          *)
(***************************************************************************)
EXTENDS UpgradeResume, FiniteSetTheorems, TLAPS

Here(a) == a \notin gone \cup Groups

\* Marks that a run cut short and the recovery under way may still make.
Owing(a) == (IF turn[a] = "running" /\ cut[a] THEN 1 ELSE 0)
            + (IF ~prepared /\ (attempt.at = "preparing" => a \in ids) THEN 1 ELSE 0)
RoomLeft == \A a \in Agents : marks[a] + Owing(a) <= MaxMarks

AttemptSound ==
    /\ attempt \in [of : Attempts, at : {"over", "checking", "preparing", "resuming"}]
    /\ attempt.of = "recreate" => request = "recreate"
    /\ attempt.at = "preparing" => attempt.of = "recreate" /\ ~prepared
    /\ attempt.at # "resuming" => todo = {}

StagesSound ==
    /\ awaited = {m \in Markers : stage[m] \in {"resolving", "queued"}}
    /\ \A k, m \in awaited : k = m
    /\ \A m \in awaited : m \notin accepted
    /\ \A m \in Markers : stage[m] = "running" => m \in accepted
    /\ \A m \in Markers : stage[m] \in {"queued", "running"} => m[1] \notin Groups
    /\ \A k, m \in Markers : stage[k] = "running" /\ stage[m] = "running" /\ k[1] = m[1] => k = m

CutSound == \A a \in Agents : cut[a] => Running(a)

\* An agent whose resume is under way has its marker, or a later one.
Backed ==
    /\ \A m \in Markers : stage[m] # "none" /\ Here(m[1]) => m[2] <= file[m[1]]
    /\ \A k, m \in Markers : stage[k] = "running" /\ Here(k[1]) /\ m[1] = k[1] /\ m[2] < k[2]
                                => stage[m] = "none"

TodoSound ==
    /\ \A k, m \in todo : k[1] = m[1] => k = m
    /\ \A m \in todo : Here(m[1]) => /\ m \in accepted \/ m[2] <= file[m[1]]
                                     /\ \A k \in Markers : k[1] = m[1] /\ m[2] < k[2] => stage[k] = "none"

DisposeSound ==
    disposed /\ quiescing => \A a \in Agents : Here(a) /\ turn[a] # "none" => file[a] # 0

UInv == /\ TypeOK /\ RoomLeft /\ AttemptSound /\ StagesSound /\ CutSound
        /\ Backed /\ TodoSound /\ DisposeSound /\ CutWorkIsMarked

-------------------------------------------------------------------------------
(* Markers *)

LEMMA MarkerParts ==
    ASSUME NEW m \in Markers
    PROVE  m[1] \in Agents /\ m[2] \in Marks /\ m[2] \in Nat \ {0} /\ m = <<m[1], m[2]>>
BY UpgradeAssumption DEF Markers, Marks

LEMMA SameMarker ==
    ASSUME NEW k \in Markers, NEW m \in Markers, k[1] = m[1], k[2] = m[2]
    PROVE  k = m
BY DEF Markers

LEMMA MarkerOf ==
    ASSUME NEW a \in Agents, NEW n \in Marks
    PROVE  <<a, n>> \in Markers /\ <<a, n>>[1] = a /\ <<a, n>>[2] = n
BY DEF Markers

\* An agent runs if its turn does, or the resume of one of its markers.
RunsIn(a, t, s) == t[a] \in {"running", "unheeded"} \/ \E m \in Markers : m[1] = a /\ s[m] = "running"

LEMMA RunningMeans ==
    ASSUME NEW a \in Agents
    PROVE  (Running(a) <=> RunsIn(a, turn, stage)) /\ (Running(a)' <=> RunsIn(a, turn', stage'))
<1>1. \A n \in Marks : <<a, n>> \in Markers /\ <<a, n>>[1] = a
  BY MarkerOf
<1>2. \A m \in Markers : m[1] = a => m[2] \in Marks /\ m = <<a, m[2]>>
  BY MarkerParts
<1> QED
  BY <1>1, <1>2 DEF Running, RunsIn

\* A set of at most one element.
LEMMA AtMostOne ==
    ASSUME NEW S, \A x, y \in S : x = y
    PROVE  Cardinality(S) <= 1
<1>1. CASE S = {}
  BY <1>1, FS_EmptySet
<1>2. CASE S # {}
  <2>1. PICK x \in S : TRUE
    BY <1>2
  <2>2. S = {x}
    BY <2>1
  <2>3. Cardinality({x}) = 1
    BY FS_Singleton
  <2> QED
    BY <2>2, <2>3
<1> QED
  BY <1>1, <1>2

\* markPending raises the marks of the agents of S, and puts them in the file.
LEMMA MarkEffect ==
    ASSUME TypeOK, NEW S \in SUBSET Agents, MarkPending(S), \A a \in S : marks[a] < MaxMarks
    PROVE  /\ marks' \in [Agents -> 0..MaxMarks] /\ file' \in [Agents -> 0..MaxMarks]
           /\ \A a \in Agents : /\ file'[a] <= marks'[a] /\ file[a] <= file'[a]
                                /\ marks'[a] = IF a \in S THEN marks[a] + 1 ELSE marks[a]
           /\ \A a \in S : file'[a] = marks[a] + 1 /\ file'[a] # 0
BY UpgradeAssumption DEF TypeOK, MarkPending

\* Work has a marker due to it that had not, only where a marker was made.
LEMMA RemediedEffect ==
    ASSUME TypeOK, NEW S \in SUBSET Agents, Remedied(S)
    PROVE  /\ debt' \in [Agents -> Debts] /\ \A a \in Groups : debt'[a] = "none"
           /\ \A a \in Agents : debt'[a] = "due" => debt[a] = "due" \/ a \in S
BY UpgradeAssumption DEF TypeOK, Remedied, Debts

\* A marker that is cleared leaves a newer one alone.
LEMMA ClearEffect ==
    ASSUME TypeOK, NEW m \in Markers, ClearIfUnchanged(m)
    PROVE  /\ file' \in [Agents -> 0..MaxMarks]
           /\ \A a \in Agents : /\ file'[a] <= marks[a]
                                /\ file'[a] = file[a] \/ (a = m[1] /\ file[a] = m[2] /\ file'[a] = 0)
<1>1. m[1] \in Agents
  BY MarkerParts
<1>2. file \in [Agents -> 0..MaxMarks] /\ marks \in [Agents -> 0..MaxMarks] /\ MaxMarks \in Nat
      /\ \A a \in Agents : file[a] <= marks[a]
  BY UpgradeAssumption DEF TypeOK
<1>3. file' = [file EXCEPT ![m[1]] = IF file[m[1]] = m[2] THEN 0 ELSE file[m[1]]]
  BY DEF ClearIfUnchanged
<1> QED
  BY <1>1, <1>2, <1>3

-------------------------------------------------------------------------------
(* Turns *)

LEMMA InitEstablishes == Init => UInv
<1> SUFFICES ASSUME Init PROVE UInv
  OBVIOUS
<1> USE UpgradeAssumption DEF Init
<1>1. \A m \in Markers : stage[m] = "none"
  OBVIOUS
<1>2. TypeOK
  <2>1. Cardinality(awaited) <= 1
    BY AtMostOne
  <2>2. starting = {m \in Markers : stage[m] # "none"}
    BY <1>1
  <2>3. /\ marks \in [Agents -> 0..MaxMarks] /\ file \in [Agents -> 0..MaxMarks]
        /\ \A a \in Agents : file[a] <= marks[a]
        /\ quiesces \in 0..MaxQuiesces /\ crashes \in 0..MaxCrashes
    OBVIOUS
  <2>4. attempt.of \in Attempts /\ attempt.at = "over" /\ request \in Attempts
    BY DEF Attempts, NoAttempt
  <2>5. stage \in [Markers -> {"none", "resolving", "queued", "running"}]
    OBVIOUS
  <2>6. /\ turn \in [Agents -> Turns] /\ cut \in [Agents -> BOOLEAN] /\ \A a \in Groups : ~cut[a]
        /\ debt \in [Agents -> Debts] /\ \A a \in Groups : debt[a] = "none"
    BY DEF Turns, Debts
  <2> QED
    BY <2>1, <2>2, <2>3, <2>4, <2>5, <2>6 DEF TypeOK
<1>3. RoomLeft
  BY DEF RoomLeft, Owing
<1>4. AttemptSound
  BY DEF AttemptSound, Attempts, NoAttempt
<1>5. StagesSound /\ CutSound /\ Backed
  BY <1>1 DEF StagesSound, CutSound, Backed
<1> QED
  BY <1>2, <1>3, <1>4, <1>5 DEF UInv, TodoSound, DisposeSound, CutWorkIsMarked

LEMMA TurnBeginsSteps ==
    ASSUME UInv, NEW a \in Agents, Send(a) \/ Wakes(a) \/ TurnStarts(a)
    PROVE  UInv'
<1>1. /\ TypeOK /\ RoomLeft /\ AttemptSound /\ StagesSound /\ CutSound
      /\ Backed /\ TodoSound /\ DisposeSound /\ CutWorkIsMarked
  BY DEF UInv
<1>2. /\ UNCHANGED <<file, marks, gone, quiescing, accepted, starting, stage, cut, recovery, host, debt>>
      /\ turn' \in [Agents -> Turns]
      /\ \A b \in Agents : b # a => turn'[b] = turn[b]
      /\ \/ turn[a] = "none" /\ turn'[a] = "queued" /\ ~disposed
         \/ turn[a] = "queued" /\ turn'[a] \in {"running", "unheeded"} /\ ~Running(a)
  BY <1>1 DEF Send, Wakes, TurnStarts, TypeOK, Turns
<1>3. \A b \in Agents : cut[b] => Running(b) /\ Running(b)'
  <2> SUFFICES ASSUME NEW b \in Agents, cut[b] PROVE Running(b) /\ Running(b)'
    OBVIOUS
  <2>1. Running(b) /\ RunsIn(b, turn, stage)
    BY <1>1, RunningMeans DEF CutSound
  <2>2. RunsIn(b, turn', stage')
    BY <1>2, <2>1 DEF RunsIn
  <2> QED
    BY <2>1, <2>2, RunningMeans
<1>4. TypeOK'
  BY <1>1, <1>2 DEF TypeOK, recovery, host
<1>5. RoomLeft'
  <2> SUFFICES ASSUME NEW b \in Agents PROVE marks[b] + Owing(b)' <= MaxMarks
    BY <1>2 DEF RoomLeft
  <2>1. turn'[b] = "running" /\ cut[b] => turn[b] = "running"
    BY <1>2, <1>3
  <2>2. marks[b] + Owing(b) <= MaxMarks /\ marks[b] \in Nat /\ MaxMarks \in Nat
    BY <1>1, UpgradeAssumption DEF RoomLeft, TypeOK
  <2> QED
    BY <1>2, <2>1, <2>2 DEF Owing, recovery
<1>6. AttemptSound' /\ StagesSound' /\ Backed' /\ TodoSound' /\ CutWorkIsMarked'
  BY <1>1, <1>2 DEF AttemptSound, StagesSound, Backed, TodoSound, CutWorkIsMarked, Here, recovery
<1>7. CutSound'
  BY <1>2, <1>3 DEF CutSound
<1>8. DisposeSound'
  BY <1>1, <1>2 DEF DisposeSound, Here, host
<1> QED
  BY <1>4, <1>5, <1>6, <1>7, <1>8 DEF UInv

LEMMA CheckpointStep ==
    ASSUME UInv, NEW a \in Agents, Checkpoint(a)
    PROVE  UInv'
<1>1. /\ TypeOK /\ RoomLeft /\ AttemptSound /\ StagesSound /\ CutSound
      /\ Backed /\ TodoSound /\ DisposeSound /\ CutWorkIsMarked
  BY DEF UInv
<1>2. /\ UNCHANGED <<file, marks, gone, quiescing, accepted, starting, stage, turn, recovery, host, debt>>
      /\ cut' = [cut EXCEPT ![a] = TRUE] /\ Running(a) /\ Room(a) /\ a \notin Groups
  BY DEF Checkpoint
<1>3. TypeOK'
  BY <1>1, <1>2 DEF TypeOK, recovery, host
<1>4. RoomLeft'
  <2> SUFFICES ASSUME NEW b \in Agents PROVE marks[b] + Owing(b)' <= MaxMarks
    BY <1>2 DEF RoomLeft
  <2>1. CASE b = a
    BY <1>1, <1>2, <2>1, UpgradeAssumption DEF Room, Needed, Owing, recovery, TypeOK
  <2>2. CASE b # a
    BY <1>1, <1>2, <2>2 DEF RoomLeft, Owing, recovery, TypeOK
  <2> QED
    BY <2>1, <2>2
<1>5. AttemptSound' /\ StagesSound' /\ Backed' /\ TodoSound' /\ DisposeSound' /\ CutWorkIsMarked'
  BY <1>1, <1>2
  DEF AttemptSound, StagesSound, Backed, TodoSound, DisposeSound, CutWorkIsMarked, Here, recovery, host
<1>6. CutSound'
  <2> SUFFICES ASSUME NEW b \in Agents, cut'[b] PROVE Running(b)'
    BY DEF CutSound
  <2>1. Running(b)
    BY <1>1, <1>2 DEF CutSound, TypeOK
  <2> QED
    BY <1>2, <2>1, RunningMeans
<1> QED
  BY <1>3, <1>4, <1>5, <1>6 DEF UInv

LEMMA NudgeStep ==
    ASSUME UInv, NEW a \in Agents, Nudge(a)
    PROVE  UInv'
<1>1. /\ TypeOK /\ RoomLeft /\ AttemptSound /\ StagesSound /\ CutSound
      /\ Backed /\ TodoSound /\ DisposeSound /\ CutWorkIsMarked
  BY DEF UInv
<1>2. /\ UNCHANGED <<file, marks, gone, quiescing, accepted, starting, stage, recovery, host, debt>>
      /\ turn' \in [Agents -> Turns] /\ turn[a] # "none" /\ turn'[a] = "unheeded"
      /\ \A b \in Agents : b # a => turn'[b] = turn[b]
      /\ cut' \in [Agents -> BOOLEAN] /\ \A b \in Agents : cut'[b] => cut[b]
  BY <1>1 DEF Nudge, TypeOK, Turns
<1>3. TypeOK'
  BY <1>1, <1>2, UpgradeAssumption DEF TypeOK, recovery, host
<1>4. RoomLeft'
  <2> SUFFICES ASSUME NEW b \in Agents PROVE marks[b] + Owing(b)' <= MaxMarks
    BY <1>2 DEF RoomLeft
  <2>1. marks[b] + Owing(b) <= MaxMarks /\ marks[b] \in Nat /\ MaxMarks \in Nat
    BY <1>1, UpgradeAssumption DEF RoomLeft, TypeOK
  <2> QED
    BY <1>2, <2>1 DEF Owing, recovery
<1>5. AttemptSound' /\ StagesSound' /\ Backed' /\ TodoSound' /\ CutWorkIsMarked'
  BY <1>1, <1>2 DEF AttemptSound, StagesSound, Backed, TodoSound, CutWorkIsMarked, Here, recovery
<1>6. CutSound'
  <2> SUFFICES ASSUME NEW b \in Agents, cut'[b] PROVE Running(b)'
    BY DEF CutSound
  <2>1. RunsIn(b, turn, stage)
    BY <1>1, <1>2, RunningMeans DEF CutSound
  <2>2. RunsIn(b, turn', stage')
    BY <1>2, <2>1 DEF RunsIn
  <2> QED
    BY <2>2, RunningMeans
<1>7. DisposeSound'
  BY <1>1, <1>2 DEF DisposeSound, Here, host
<1> QED
  BY <1>3, <1>4, <1>5, <1>6, <1>7 DEF UInv

LEMMA TurnEndsStep ==
    ASSUME UInv, NEW a \in Agents, TurnEnds(a)
    PROVE  UInv'
<1>1. /\ TypeOK /\ RoomLeft /\ AttemptSound /\ StagesSound /\ CutSound
      /\ Backed /\ TodoSound /\ DisposeSound /\ CutWorkIsMarked
  BY DEF UInv
<1>2. /\ UNCHANGED <<gone, quiescing, accepted, starting, stage, recovery, host>>
      /\ turn' = [turn EXCEPT ![a] = "none"] /\ cut' = [cut EXCEPT ![a] = FALSE]
      /\ \/ cut[a] /\ turn[a] = "running" /\ debt' = [debt EXCEPT ![a] = "due"] /\ MarkPending({a})
         \/ /\ cut[a] /\ turn[a] = "unheeded" /\ UNCHANGED <<file, marks>>
            /\ debt' = [debt EXCEPT ![a] = IF file[a] = 0 THEN "dropped" ELSE "due"]
         \/ UNCHANGED <<file, marks, debt>>
  BY DEF TurnEnds, MarkTurn
<1>3. /\ marks' \in [Agents -> 0..MaxMarks] /\ file' \in [Agents -> 0..MaxMarks]
      /\ \A b \in Agents : /\ file'[b] <= marks'[b] /\ file[b] <= file'[b]
                           /\ \/ marks'[b] = marks[b]
                              \/ b = a /\ cut[a] /\ turn[a] = "running" /\ marks'[b] = marks[b] + 1
      /\ debt' \in [Agents -> Debts] /\ \A b \in Groups : debt'[b] = "none"
      /\ \A b \in Agents : debt'[b] = "due" => debt[b] = "due" \/ file'[b] # 0
  <2>1. CASE cut[a] /\ turn[a] = "running" /\ debt' = [debt EXCEPT ![a] = "due"] /\ MarkPending({a})
    <3>1. marks[a] < MaxMarks
      BY <1>1, <2>1, UpgradeAssumption DEF RoomLeft, Owing, TypeOK
    <3>2. /\ marks' \in [Agents -> 0..MaxMarks] /\ file' \in [Agents -> 0..MaxMarks]
          /\ \A b \in Agents : /\ file'[b] <= marks'[b] /\ file[b] <= file'[b]
                               /\ marks'[b] = IF b = a THEN marks[b] + 1 ELSE marks[b]
          /\ file'[a] # 0
      BY <1>1, <2>1, <3>1, MarkEffect
    <3>3. /\ debt' \in [Agents -> Debts] /\ \A b \in Groups : debt'[b] = "none"
          /\ \A b \in Agents : b # a => debt'[b] = debt[b]
      BY <1>1, <2>1, UpgradeAssumption DEF TypeOK, Debts
    <3> QED
      BY <2>1, <3>2, <3>3
  <2>2. CASE /\ cut[a] /\ UNCHANGED <<file, marks>>
             /\ debt' = [debt EXCEPT ![a] = IF file[a] = 0 THEN "dropped" ELSE "due"]
    BY <1>1, <2>2, UpgradeAssumption DEF TypeOK, Debts
  <2>3. CASE UNCHANGED <<file, marks, debt>>
    BY <1>1, <2>3, UpgradeAssumption DEF TypeOK
  <2> QED
    BY <1>2, <2>1, <2>2, <2>3
<1>4. file \in [Agents -> Nat] /\ \A b \in Agents : file'[b] \in Nat
  BY <1>1, <1>3, UpgradeAssumption DEF TypeOK
<1>5. turn' \in [Agents -> Turns] /\ cut' \in [Agents -> BOOLEAN] /\ \A b \in Groups : ~cut'[b]
  BY <1>1, <1>2, UpgradeAssumption DEF TypeOK, Turns
<1>6. TypeOK'
  BY <1>1, <1>2, <1>3, <1>5 DEF TypeOK, recovery, host
<1>7. RoomLeft'
  <2> SUFFICES ASSUME NEW b \in Agents PROVE marks'[b] + Owing(b)' <= MaxMarks
    BY DEF RoomLeft
  <2>1. marks[b] + Owing(b) <= MaxMarks /\ marks[b] \in Nat /\ MaxMarks \in Nat
    BY <1>1, UpgradeAssumption DEF RoomLeft, TypeOK
  <2>2. CASE b = a
    BY <1>1, <1>2, <1>3, <2>1, <2>2 DEF Owing, recovery, TypeOK
  <2>3. CASE b # a
    BY <1>1, <1>2, <1>3, <2>1, <2>3 DEF Owing, recovery, TypeOK
  <2> QED
    BY <2>2, <2>3
<1>8. AttemptSound' /\ StagesSound'
  BY <1>1, <1>2 DEF AttemptSound, StagesSound, recovery
<1>9. CutSound'
  <2> SUFFICES ASSUME NEW b \in Agents, cut'[b] PROVE Running(b)'
    BY DEF CutSound
  <2>1. b # a /\ Running(b)
    BY <1>1, <1>2 DEF CutSound, TypeOK
  <2>2. RunsIn(b, turn', stage')
    BY <1>1, <1>2, <2>1, RunningMeans DEF RunsIn, TypeOK
  <2> QED
    BY <2>2, RunningMeans
<1>10. Backed'
  BY <1>1, <1>2, <1>3, <1>4, MarkerParts DEF Backed, Here
<1>11. TodoSound'
  <2>1. todo' = todo /\ todo \subseteq Markers
    BY <1>1, <1>2 DEF recovery, TypeOK
  <2> QED
    BY <1>1, <1>2, <1>3, <1>4, <2>1, MarkerParts DEF TodoSound, Here
<1>12. DisposeSound'
  BY <1>1, <1>2, <1>3, <1>4 DEF DisposeSound, Here, host, TypeOK
<1>13. CutWorkIsMarked'
  BY <1>1, <1>2, <1>3, <1>4 DEF CutWorkIsMarked
<1> QED
  BY <1>6, <1>7, <1>8, <1>9, <1>10, <1>11, <1>12, <1>13 DEF UInv

LEMMA DeleteStep ==
    ASSUME UInv, NEW a \in Agents, Delete(a)
    PROVE  UInv'
<1>1. /\ TypeOK /\ RoomLeft /\ AttemptSound /\ StagesSound /\ CutSound
      /\ Backed /\ TodoSound /\ DisposeSound /\ CutWorkIsMarked
  BY DEF UInv
<1>2. gone' = gone \cup {a} /\ UNCHANGED <<file, marks, process, crashes, debt>>
  BY DEF Delete
<1>3. TypeOK' /\ RoomLeft' /\ AttemptSound' /\ StagesSound'
  BY <1>1, <1>2 DEF TypeOK, RoomLeft, Owing, AttemptSound, StagesSound, process
<1>4. CutSound'
  BY <1>1, <1>2 DEF CutSound, Running, process
<1>5. Backed' /\ TodoSound' /\ DisposeSound' /\ CutWorkIsMarked'
  BY <1>1, <1>2 DEF Backed, TodoSound, DisposeSound, CutWorkIsMarked, Here, process
<1> QED
  BY <1>3, <1>4, <1>5 DEF UInv
-------------------------------------------------------------------------------
(* The resume of a marker *)

\* What a resume that settles, whatever its outcome, leaves as it was.
LEMMA SettledStep ==
    ASSUME UInv, NEW m \in Markers, Settled(m),
           UNCHANGED <<marks, gone, quiescing, accepted, turn, request, prepared, carried, attempt, ids, todo, host>>,
           file' \in [Agents -> 0..MaxMarks], \A a \in Agents : file'[a] <= marks[a],
           \A a \in Agents : \/ file'[a] = file[a]
                             \/ /\ a = m[1] /\ file[a] = m[2]
                                /\ a \in Groups \/ (stage[m] = "running" /\ ~quiescing),
           cut' \in [Agents -> BOOLEAN], \A a \in Agents : cut'[a] => cut[a],
           stage[m] = "running" => ~cut'[m[1]],
           debt' \in [Agents -> Debts], \A a \in Groups : debt'[a] = "none", CutWorkIsMarked'
    PROVE  UInv'
<1>1. /\ TypeOK /\ RoomLeft /\ AttemptSound /\ StagesSound /\ CutSound
      /\ Backed /\ TodoSound /\ DisposeSound /\ CutWorkIsMarked
  BY DEF UInv
<1>2. /\ stage' \in [Markers -> {"none", "resolving", "queued", "running"}]
      /\ \A k \in Markers : stage'[k] = IF k = m THEN "none" ELSE stage[k]
      /\ starting' = starting \ {m} /\ awaited' = awaited \ {m}
  BY <1>1 DEF Settled, TypeOK
<1>3. StagesSound'
  BY <1>1, <1>2 DEF StagesSound
<1>4. TypeOK'
  <2>1. starting' = {k \in Markers : stage'[k] # "none"} /\ awaited' \subseteq starting'
    BY <1>1, <1>2 DEF TypeOK
  <2>2. Cardinality(awaited') <= 1
    BY <1>3, AtMostOne DEF StagesSound
  <2>3. \A a \in Groups : ~cut'[a]
    BY <1>1, UpgradeAssumption DEF TypeOK
  <2> QED
    BY <1>1, <1>2, <2>1, <2>2, <2>3 DEF TypeOK, host
<1>5. RoomLeft'
  <2> SUFFICES ASSUME NEW b \in Agents PROVE marks[b] + Owing(b)' <= MaxMarks
    BY DEF RoomLeft
  <2>1. marks[b] + Owing(b) <= MaxMarks /\ marks[b] \in Nat /\ MaxMarks \in Nat
    BY <1>1, UpgradeAssumption DEF RoomLeft, TypeOK
  <2> QED
    BY <2>1 DEF Owing
<1>6. AttemptSound'
  BY <1>1 DEF AttemptSound
<1>7. CutSound'
  <2> SUFFICES ASSUME NEW b \in Agents, cut'[b] PROVE Running(b)'
    BY DEF CutSound
  <2>1. RunsIn(b, turn, stage)
    BY <1>1, RunningMeans DEF CutSound
  <2>2. RunsIn(b, turn', stage')
    BY <1>2, <2>1 DEF RunsIn
  <2> QED
    BY <2>2, RunningMeans
<1>8. Backed'
  <2>1. ASSUME NEW k \in Markers, stage'[k] # "none", Here(k[1])
        PROVE  k[2] <= file'[k[1]]
    <3>1. k # m /\ stage[k] # "none" /\ k[2] <= file[k[1]]
      BY <1>1, <1>2, <2>1 DEF Backed
    <3>2. file'[k[1]] = file[k[1]]
      <4> SUFFICES ASSUME k[1] = m[1], file[m[1]] = m[2], stage[m] = "running" PROVE FALSE
        BY <2>1, MarkerParts DEF Here
      <4>1. k[2] < m[2]
        BY <3>1, SameMarker, MarkerParts
      <4> QED
        BY <1>1, <2>1, <3>1, <4>1 DEF Backed
    <3> QED
      BY <3>1, <3>2
  <2>2. \A k, n \in Markers : stage'[k] = "running" /\ Here(k[1]) /\ n[1] = k[1] /\ n[2] < k[2]
                                 => stage'[n] = "none"
    BY <1>1, <1>2 DEF Backed
  <2> QED
    BY <2>1, <2>2 DEF Backed, Here
<1>9. TodoSound'
  <2>1. \A k, n \in todo : k[1] = n[1] => k = n
    BY <1>1 DEF TodoSound
  <2>2. ASSUME NEW k \in todo, Here(k[1])
        PROVE  k \in accepted \/ k[2] <= file'[k[1]]
    <3>1. k \in Markers /\ (k \in accepted \/ k[2] <= file[k[1]])
          /\ \A n \in Markers : n[1] = k[1] /\ k[2] < n[2] => stage[n] = "none"
      BY <1>1, <2>2 DEF TodoSound, TypeOK
    <3>2. CASE file'[k[1]] = file[k[1]]
      BY <3>1, <3>2
    <3>3. CASE k[1] = m[1] /\ file[m[1]] = m[2] /\ stage[m] = "running"
      <4>1. m \in accepted
        BY <1>1, <3>3 DEF StagesSound
      <4>2. ~(k[2] < m[2])
        BY <3>1, <3>3
      <4> QED
        BY <3>1, <3>3, <4>1, <4>2, SameMarker, MarkerParts
    <3> QED
      BY <2>2, <3>1, <3>2, <3>3, MarkerParts DEF Here
  <2>3. ASSUME NEW k \in todo, Here(k[1]), NEW n \in Markers, n[1] = k[1], k[2] < n[2]
        PROVE  stage'[n] = "none"
    BY <1>1, <1>2, <2>3 DEF TodoSound
  <2> QED
    BY <2>1, <2>2, <2>3 DEF TodoSound, Here
<1>10. DisposeSound'
  BY <1>1, MarkerParts DEF DisposeSound, Here, host
<1> QED
  BY <1>3, <1>4, <1>5, <1>6, <1>7, <1>8, <1>9, <1>10 DEF UInv

LEMMA ResolveFailsStep ==
    ASSUME UInv, NEW m \in Markers, ResolveFails(m)
    PROVE  UInv'
<1>1. TypeOK /\ CutWorkIsMarked
  BY DEF UInv
<1>2. /\ stage[m] = "resolving" /\ Settled(m)
      /\ UNCHANGED <<file, marks, gone, quiescing, accepted, turn, cut, request, prepared,
                     carried, attempt, ids, todo, host, debt>>
  BY DEF ResolveFails
<1>3. CutWorkIsMarked'
  BY <1>1, <1>2 DEF CutWorkIsMarked
<1> QED
  BY <1>1, <1>2, <1>3, SettledStep DEF TypeOK

LEMMA ResumeThrowsStep ==
    ASSUME UInv, NEW m \in Markers, ResumeThrows(m)
    PROVE  UInv'
<1>1. TypeOK /\ CutWorkIsMarked
  BY DEF UInv
<1>2. /\ ~cut[m[1]] /\ Settled(m)
      /\ UNCHANGED <<file, marks, gone, quiescing, accepted, turn, cut, request, prepared,
                     carried, attempt, ids, todo, host, debt>>
  BY DEF ResumeThrows
<1>3. CutWorkIsMarked'
  BY <1>1, <1>2 DEF CutWorkIsMarked
<1> QED
  BY <1>1, <1>2, <1>3, SettledStep DEF TypeOK

LEMMA ResumeEndsStep ==
    ASSUME UInv, NEW m \in Markers, ResumeEnds(m)
    PROVE  UInv'
<1>1. TypeOK /\ CutWorkIsMarked /\ Backed /\ StagesSound
  BY DEF UInv
<1>2. /\ stage[m] = "running" /\ Settled(m) /\ cut' = [cut EXCEPT ![m[1]] = FALSE]
      /\ UNCHANGED <<marks, gone, quiescing, accepted, turn, request, prepared,
                     carried, attempt, ids, todo, host>>
      /\ debt' = [debt EXCEPT ![m[1]] = IF ~cut[m[1]] THEN "none"
                                         ELSE IF ~quiescing /\ file[m[1]] = m[2] THEN "slipped" ELSE "due"]
  BY DEF ResumeEnds
<1>3. /\ file' \in [Agents -> 0..MaxMarks] /\ \A a \in Agents : file'[a] <= marks[a]
      /\ \A a \in Agents : file'[a] = file[a] \/ (a = m[1] /\ file[a] = m[2] /\ ~quiescing)
  <2>1. CASE quiescing
    BY <1>1, <2>1 DEF ResumeEnds, TypeOK
  <2>2. CASE ~quiescing
    BY <1>1, <2>2, ClearEffect DEF ResumeEnds
  <2> QED
    BY <2>1, <2>2
<1>4. m[1] \in Agents \ Groups
  BY <1>1, <1>2, MarkerParts DEF StagesSound
<1>5. cut' \in [Agents -> BOOLEAN] /\ (\A a \in Agents : cut'[a] => cut[a]) /\ ~cut'[m[1]]
  BY <1>1, <1>2, <1>4 DEF TypeOK
<1>6. debt' \in [Agents -> Debts] /\ \A a \in Groups : debt'[a] = "none"
  BY <1>1, <1>2, <1>4, UpgradeAssumption DEF TypeOK, Debts
<1>7. CutWorkIsMarked'
  <2> SUFFICES ASSUME NEW a \in Agents \ gone, debt'[a] = "due" PROVE file'[a] # 0
    BY <1>2 DEF CutWorkIsMarked
  <2>2. CASE a = m[1]
    <3>1. quiescing \/ file[a] # m[2]
      BY <1>1, <1>2, <2>2 DEF TypeOK
    <3>2. m[2] <= file[a]
      BY <1>1, <1>2, <1>4, <2>2 DEF Backed, Here
    <3>3. file'[a] = file[a] /\ file[a] \in Nat /\ m[2] \in Nat \ {0}
      BY <1>1, <1>3, <3>1, MarkerParts, UpgradeAssumption DEF TypeOK
    <3> QED
      BY <3>2, <3>3
  <2>3. CASE a # m[1]
    BY <1>1, <1>2, <1>3, <2>3 DEF CutWorkIsMarked, TypeOK
  <2> QED
    BY <2>2, <2>3
<1> QED
  BY <1>2, <1>3, <1>5, <1>6, <1>7, SettledStep

LEMMA ResolvesStep ==
    ASSUME UInv, NEW m \in Markers, Resolves(m)
    PROVE  UInv'
<1>1. /\ TypeOK /\ RoomLeft /\ AttemptSound /\ StagesSound /\ CutSound
      /\ Backed /\ TodoSound /\ DisposeSound /\ CutWorkIsMarked
  BY DEF UInv
<1>2. /\ stage[m] = "resolving"
      /\ UNCHANGED <<marks, gone, quiescing, accepted, turn, cut, request, prepared,
                     carried, attempt, ids, todo, host, debt>>
  BY DEF Resolves
<1>3. CASE m[1] \in Groups
  <2>1. Settled(m) /\ ClearIfUnchanged(m)
    BY <1>3 DEF Resolves
  <2>2. /\ file' \in [Agents -> 0..MaxMarks] /\ \A a \in Agents : file'[a] <= marks[a]
        /\ \A a \in Agents : file'[a] = file[a] \/ (a = m[1] /\ file[a] = m[2])
    BY <1>1, <2>1, ClearEffect
  <2>3. CutWorkIsMarked'
    BY <1>1, <1>2, <1>3, <2>2 DEF CutWorkIsMarked, TypeOK
  <2> QED
    BY <1>1, <1>2, <1>3, <2>1, <2>2, <2>3, SettledStep DEF TypeOK
<1>4. CASE m[1] \notin Groups
  <2>1. /\ UNCHANGED <<file, starting, awaited>>
        /\ stage' \in [Markers -> {"none", "resolving", "queued", "running"}]
        /\ \A k \in Markers : stage'[k] = IF k = m THEN "queued" ELSE stage[k]
    BY <1>1, <1>4 DEF Resolves, TypeOK
  <2>2. TypeOK'
    BY <1>1, <1>2, <2>1 DEF TypeOK, host
  <2>3. StagesSound'
    BY <1>1, <1>2, <1>4, <2>1 DEF StagesSound
  <2>4. CutSound'
    <3> SUFFICES ASSUME NEW b \in Agents, cut[b] PROVE Running(b)'
      BY <1>2 DEF CutSound
    <3>1. RunsIn(b, turn, stage)
      BY <1>1, RunningMeans DEF CutSound
    <3>2. RunsIn(b, turn', stage')
      BY <1>2, <2>1, <3>1 DEF RunsIn
    <3> QED
      BY <3>2, RunningMeans
  <2>5. Backed'
    BY <1>1, <1>2, <2>1 DEF Backed, Here
  <2>6. TodoSound'
    BY <1>1, <1>2, <2>1 DEF TodoSound, Here, TypeOK
  <2>7. RoomLeft' /\ AttemptSound' /\ DisposeSound' /\ CutWorkIsMarked'
    BY <1>1, <1>2, <2>1
    DEF RoomLeft, Owing, AttemptSound, DisposeSound, CutWorkIsMarked, Here, host
  <2> QED
    BY <2>2, <2>3, <2>4, <2>5, <2>6, <2>7 DEF UInv
<1> QED
  BY <1>3, <1>4

LEMMA ResumeStartsStep ==
    ASSUME UInv, NEW m \in Markers, ResumeStarts(m)
    PROVE  UInv'
<1>1. /\ TypeOK /\ RoomLeft /\ AttemptSound /\ StagesSound /\ CutSound
      /\ Backed /\ TodoSound /\ DisposeSound /\ CutWorkIsMarked
  BY DEF UInv
<1>2. /\ stage[m] = "queued" /\ accepted' = accepted \cup {m} /\ awaited' = awaited \ {m}
      /\ UNCHANGED <<file, marks, gone, quiescing, starting, turn, cut, request, prepared,
                     carried, attempt, ids, todo, host, debt>>
      /\ stage' \in [Markers -> {"none", "resolving", "queued", "running"}]
      /\ \A k \in Markers : stage'[k] = IF k = m THEN "running" ELSE stage[k]
  BY <1>1 DEF ResumeStarts, TypeOK
\* Nothing else of this agent is under way.
<1>3. \A k \in Markers : k[1] = m[1] /\ k # m => stage[k] = "none"
  <2> SUFFICES ASSUME NEW k \in Markers, k[1] = m[1], k # m PROVE stage[k] = "none"
    OBVIOUS
  <2>1. stage[k] # "running"
    BY MarkerParts, RunningMeans DEF ResumeStarts, RunsIn
  <2>2. stage[k] \notin {"resolving", "queued"}
    BY <1>1, <1>2 DEF StagesSound
  <2> QED
    BY <1>1, <2>1, <2>2 DEF TypeOK
<1>4. StagesSound'
  <2>1. awaited' = {k \in Markers : stage'[k] \in {"resolving", "queued"}}
    BY <1>1, <1>2 DEF StagesSound
  <2>2. \A k, n \in Markers : stage'[k] = "running" /\ stage'[n] = "running" /\ k[1] = n[1] => k = n
    BY <1>1, <1>2, <1>3 DEF StagesSound
  <2> QED
    BY <1>1, <1>2, <2>1, <2>2 DEF StagesSound
<1>5. TypeOK'
  <2>1. Cardinality(awaited') <= 1
    BY <1>4, AtMostOne DEF StagesSound
  <2> QED
    BY <1>1, <1>2, <2>1 DEF TypeOK, host
<1>6. CutSound'
  <2> SUFFICES ASSUME NEW b \in Agents, cut[b] PROVE Running(b)'
    BY <1>2 DEF CutSound
  <2>1. RunsIn(b, turn, stage)
    BY <1>1, RunningMeans DEF CutSound
  <2>2. RunsIn(b, turn', stage')
    BY <1>2, <2>1 DEF RunsIn
  <2> QED
    BY <2>2, RunningMeans
<1>7. Backed'
  <2>1. \A k \in Markers : stage'[k] # "none" /\ Here(k[1]) => k[2] <= file[k[1]]
    BY <1>1, <1>2 DEF Backed
  <2>2. ASSUME NEW k \in Markers, NEW n \in Markers,
               stage'[k] = "running", Here(k[1]), n[1] = k[1], n[2] < k[2]
        PROVE  stage'[n] = "none"
    <3>1. CASE k = m
      BY <1>2, <1>3, <2>2, <3>1, MarkerParts
    <3>2. CASE k # m
      BY <1>1, <1>2, <2>2, <3>2 DEF Backed
    <3> QED
      BY <3>1, <3>2
  <2> QED
    BY <1>2, <2>1, <2>2 DEF Backed, Here
<1>8. TodoSound'
  BY <1>1, <1>2 DEF TodoSound, Here, TypeOK
<1>9. RoomLeft' /\ AttemptSound' /\ DisposeSound' /\ CutWorkIsMarked'
  BY <1>1, <1>2 DEF RoomLeft, Owing, AttemptSound, DisposeSound, CutWorkIsMarked, Here, host
<1> QED
  BY <1>4, <1>5, <1>6, <1>7, <1>8, <1>9 DEF UInv

-------------------------------------------------------------------------------
(* Recovery *)

\* When nothing is awaited, accepting a marker starts at most its own resume.
LEMMA AcceptEffect ==
    ASSUME TypeOK, StagesSound, NEW m \in Markers, awaited = {}, Accept(m), accepted' = accepted
    PROVE  /\ stage' \in [Markers -> {"none", "resolving", "queued", "running"}]
           /\ \A k \in Markers : \/ stage'[k] = stage[k]
                                 \/ k = m /\ m \notin accepted /\ stage[m] = "none" /\ stage'[m] = "resolving"
           /\ starting' = {k \in Markers : stage'[k] # "none"} /\ awaited' \subseteq starting'
           /\ Cardinality(awaited') <= 1 /\ StagesSound'
<1>1. CASE m \in accepted
  <2>1. awaited' = {} /\ starting' = starting /\ stage' = stage
    BY <1>1 DEF Accept
  <2>2. Cardinality(awaited') <= 1
    BY <2>1, AtMostOne
  <2>3. StagesSound'
    BY <2>1 DEF StagesSound
  <2> QED
    BY <2>1, <2>2, <2>3 DEF TypeOK
<1>2. CASE m \notin accepted
  <2>1. stage[m] = "none" /\ m \notin starting
    BY <1>2 DEF StagesSound, TypeOK
  <2>2. awaited' = {m} /\ starting' = starting \cup {m} /\ stage' = [stage EXCEPT ![m] = "resolving"]
    BY <1>2, <2>1 DEF Accept
  <2>3. /\ stage' \in [Markers -> {"none", "resolving", "queued", "running"}]
        /\ \A k \in Markers : stage'[k] = IF k = m THEN "resolving" ELSE stage[k]
    BY <2>2 DEF TypeOK
  <2>4. starting' = {k \in Markers : stage'[k] # "none"}
    BY <2>2, <2>3 DEF TypeOK
  <2>5. Cardinality(awaited') <= 1
    BY <2>2, AtMostOne
  <2>6. \A k \in Markers : stage[k] \notin {"resolving", "queued"}
    BY DEF StagesSound
  <2>7. awaited' = {k \in Markers : stage'[k] \in {"resolving", "queued"}}
    BY <2>2, <2>3, <2>6
  <2>8. StagesSound'
    BY <1>2, <2>2, <2>3, <2>7 DEF StagesSound
  <2> QED
    BY <1>2, <2>1, <2>2, <2>3, <2>4, <2>5, <2>8
<1> QED
  BY <1>1, <1>2

\* An attempt accepts a marker of which its agent has no later one under way or to do.
LEMMA AcceptStep ==
    ASSUME UInv, NEW m \in Markers, awaited = {}, Accept(m), RoomLeft',
           UNCHANGED <<gone, quiescing, accepted, turn, cut, request, prepared, carried, attempt,
                       host>>,
           debt' \in [Agents -> Debts], \A a \in Groups : debt'[a] = "none",
           \A a \in Agents : debt'[a] = "due" => debt[a] = "due" \/ file'[a] # 0,
           marks' \in [Agents -> 0..MaxMarks], file' \in [Agents -> 0..MaxMarks],
           \A a \in Agents : file'[a] <= marks'[a] /\ file[a] <= file'[a],
           ids' \subseteq Agents, todo' \subseteq todo,
           m \notin accepted /\ Here(m[1]) =>
               /\ m[2] <= file'[m[1]]
               /\ \A k \in Markers : stage[k] = "running" /\ k[1] = m[1] => ~(m[2] < k[2])
               /\ \A k \in todo' : k[1] = m[1] => ~(k[2] < m[2])
    PROVE  UInv'
<1>1. /\ TypeOK /\ RoomLeft /\ AttemptSound /\ StagesSound /\ CutSound
      /\ Backed /\ TodoSound /\ DisposeSound /\ CutWorkIsMarked
  BY DEF UInv
<1>2. /\ stage' \in [Markers -> {"none", "resolving", "queued", "running"}]
      /\ \A k \in Markers : \/ stage'[k] = stage[k]
                            \/ k = m /\ m \notin accepted /\ stage[m] = "none" /\ stage'[m] = "resolving"
      /\ starting' = {k \in Markers : stage'[k] # "none"} /\ awaited' \subseteq starting'
      /\ Cardinality(awaited') <= 1 /\ StagesSound'
  BY <1>1, AcceptEffect
<1>3. \A a \in Agents : file[a] \in Nat /\ file'[a] \in Nat
  BY <1>1, UpgradeAssumption DEF TypeOK
<1>4. TypeOK'
  BY <1>1, <1>2 DEF TypeOK, host
<1>5. AttemptSound'
  BY <1>1 DEF AttemptSound
<1>6. CutSound'
  <2> SUFFICES ASSUME NEW b \in Agents, cut[b] PROVE Running(b)'
    BY DEF CutSound
  <2>1. RunsIn(b, turn, stage)
    BY <1>1, RunningMeans DEF CutSound
  <2>2. RunsIn(b, turn', stage')
    BY <1>2, <2>1 DEF RunsIn
  <2> QED
    BY <2>2, RunningMeans
<1>7. Backed'
  <2>1. ASSUME NEW k \in Markers, stage'[k] # "none", Here(k[1])
        PROVE  k[2] <= file'[k[1]]
    <3>1. CASE stage[k] = "none"
      BY <1>2, <2>1, <3>1
    <3>2. CASE stage[k] # "none"
      <4>1. k[2] <= file[k[1]] /\ file[k[1]] <= file'[k[1]]
        BY <1>1, <2>1, <3>2, MarkerParts DEF Backed
      <4> QED
        BY <1>3, <4>1, MarkerParts
    <3> QED
      BY <3>1, <3>2
  <2>2. ASSUME NEW k \in Markers, NEW n \in Markers,
               stage'[k] = "running", Here(k[1]), n[1] = k[1], n[2] < k[2]
        PROVE  stage'[n] = "none"
    <3>1. stage[k] = "running"
      BY <1>2, <2>2
    <3>2. stage[n] = "none"
      BY <1>1, <2>2, <3>1 DEF Backed
    <3> QED
      BY <1>2, <2>2, <3>1, <3>2
  <2> QED
    BY <2>1, <2>2 DEF Backed, Here
<1>8. TodoSound'
  <2>1. \A k, n \in todo' : k[1] = n[1] => k = n
    BY <1>1 DEF TodoSound
  <2>2. ASSUME NEW k \in todo', Here(k[1])
        PROVE  k \in accepted \/ k[2] <= file'[k[1]]
    <3>1. k \in Markers /\ (k \in accepted \/ k[2] <= file[k[1]])
      BY <1>1, <2>2 DEF TodoSound, TypeOK
    <3> QED
      BY <1>3, <3>1, MarkerParts
  <2>3. ASSUME NEW k \in todo', Here(k[1]), NEW n \in Markers, n[1] = k[1], k[2] < n[2]
        PROVE  stage'[n] = "none"
    <3>1. stage[n] = "none"
      BY <1>1, <2>3 DEF TodoSound
    <3> QED
      BY <1>2, <2>3, <3>1
  <2> QED
    BY <2>1, <2>2, <2>3 DEF TodoSound, Here
<1>9. DisposeSound' /\ CutWorkIsMarked'
  <2>1. \A a \in Agents : file[a] # 0 => file'[a] # 0
    BY <1>3
  <2> QED
    BY <1>1, <2>1 DEF DisposeSound, CutWorkIsMarked, Here, host, TypeOK
<1> QED
  BY <1>2, <1>4, <1>5, <1>6, <1>7, <1>8, <1>9 DEF UInv

LEMMA PrepareStep ==
    ASSUME UInv, NEW a \in Agents, Prepare(a)
    PROVE  UInv'
<1>1. TypeOK /\ RoomLeft /\ AttemptSound /\ StagesSound /\ Backed /\ TodoSound
      /\ CutSound /\ DisposeSound /\ CutWorkIsMarked
  BY DEF UInv
<1>2. /\ attempt.at = "preparing" /\ awaited = {} /\ a \in ids /\ ids' = ids \ {a}
      /\ UNCHANGED <<gone, quiescing, accepted, turn, cut, request, prepared, carried, attempt, todo,
                     host>>
  BY DEF Prepare, Attempting
<1>3. ~prepared /\ todo = {} /\ ids' \subseteq Agents
  BY <1>1, <1>2 DEF AttemptSound, TypeOK
<1>4. marks[a] < MaxMarks
  BY <1>1, <1>2, <1>3, UpgradeAssumption DEF RoomLeft, Owing, TypeOK
<1>5. ASSUME marks' \in [Agents -> 0..MaxMarks],
             \A b \in Agents : marks'[b] = marks[b] \/ (b = a /\ marks'[b] = marks[b] + 1)
      PROVE  RoomLeft'
  <2> SUFFICES ASSUME NEW b \in Agents PROVE marks'[b] + Owing(b)' <= MaxMarks
    BY DEF RoomLeft
  <2>1. marks[b] + Owing(b) <= MaxMarks /\ marks[b] \in Nat /\ MaxMarks \in Nat
    BY <1>1, UpgradeAssumption DEF RoomLeft, TypeOK
  <2>2. CASE b = a
    BY <1>2, <1>3, <1>5, <2>1, <2>2 DEF Owing
  <2>3. CASE b # a
    BY <1>2, <1>3, <1>5, <2>1, <2>3 DEF Owing
  <2> QED
    BY <2>2, <2>3
<1>6. CASE a \in gone /\ UNCHANGED <<file, marks, starting, stage, awaited, debt>>
  <2>1. RoomLeft'
    BY <1>1, <1>5, <1>6 DEF TypeOK
  <2>2. TypeOK'
    BY <1>1, <1>2, <1>3, <1>6 DEF TypeOK, host
  <2>3. CutSound'
    BY <1>1, <1>2, <1>6 DEF CutSound, Running
  <2>4. AttemptSound' /\ StagesSound' /\ Backed' /\ TodoSound' /\ DisposeSound' /\ CutWorkIsMarked'
    BY <1>1, <1>2, <1>6
    DEF AttemptSound, StagesSound, Backed, TodoSound, DisposeSound, CutWorkIsMarked, Here, host
  <2> QED
    BY <2>1, <2>2, <2>3, <2>4 DEF UInv
<1>7. CASE a \notin gone /\ file[a] # 0 /\ Accept(<<a, file[a]>>) /\ UNCHANGED <<file, marks, debt>>
  <2>1. file[a] \in Marks
    BY <1>1, <1>7, UpgradeAssumption DEF TypeOK, Marks
  <2>2. PICK m \in Markers : m = <<a, file[a]>>
    BY <2>1, MarkerOf
  <2>3. m[1] = a /\ m[2] = file[a] /\ Accept(m)
    BY <1>7, <2>2
  <2>4. RoomLeft'
    BY <1>1, <1>5, <1>7 DEF TypeOK
  <2>5. \A b \in Agents : file'[b] <= marks'[b] /\ file[b] <= file'[b]
    BY <1>1, <1>7, UpgradeAssumption DEF TypeOK
  <2>6. Here(a) => /\ m[2] <= file'[a]
                   /\ \A k \in Markers : stage[k] = "running" /\ k[1] = a => ~(m[2] < k[2])
    BY <1>1, <1>7, <2>1, <2>3, MarkerParts, UpgradeAssumption DEF Backed, Marks
  <2> QED
    BY <1>1, <1>2, <1>3, <1>7, <2>3, <2>4, <2>5, <2>6, AcceptStep DEF TypeOK
<1>8. CASE a \notin gone /\ file[a] = 0 /\ MarkPending({a}) /\ Remedied({a}) /\ Accept(<<a, file'[a]>>)
  <2>1. /\ marks' \in [Agents -> 0..MaxMarks] /\ file' \in [Agents -> 0..MaxMarks]
        /\ \A b \in Agents : /\ file'[b] <= marks'[b] /\ file[b] <= file'[b]
                             /\ marks'[b] = IF b = a THEN marks[b] + 1 ELSE marks[b]
        /\ file'[a] = marks[a] + 1 /\ file'[a] # 0
    BY <1>1, <1>4, <1>8, MarkEffect
  <2>2. file'[a] \in Marks
    BY <2>1, UpgradeAssumption DEF Marks
  <2>3. PICK m \in Markers : m = <<a, file'[a]>>
    BY <2>2, MarkerOf
  <2>4. m[1] = a /\ m[2] = file'[a] /\ Accept(m)
    BY <1>8, <2>3
  <2>5. RoomLeft'
    BY <1>5, <2>1
  <2>6. Here(a) => \A k \in Markers : stage[k] = "running" /\ k[1] = a => ~(m[2] < k[2])
    <3> SUFFICES ASSUME Here(a), NEW k \in Markers, stage[k] = "running", k[1] = a, m[2] < k[2]
                 PROVE  FALSE
      OBVIOUS
    <3>1. k[2] <= file[a]
      BY <1>1 DEF Backed
    <3> QED
      BY <1>1, <1>8, <2>2, <2>4, <3>1, MarkerParts, UpgradeAssumption DEF Marks
  <2>7. m[2] <= file'[a]
    BY <2>2, <2>4, UpgradeAssumption DEF Marks
  <2>8. /\ debt' \in [Agents -> Debts] /\ \A b \in Groups : debt'[b] = "none"
        /\ \A b \in Agents : debt'[b] = "due" => debt[b] = "due" \/ file'[b] # 0
    BY <1>1, <1>8, <2>1, RemediedEffect
  <2> QED
    BY <1>1, <1>2, <1>3, <2>1, <2>4, <2>5, <2>6, <2>7, <2>8, AcceptStep
<1> QED
  BY <1>6, <1>7, <1>8 DEF Prepare

LEMMA TakeUpStep ==
    ASSUME UInv, NEW m \in Markers, Resume(m)
    PROVE  UInv'
<1>1. TypeOK /\ RoomLeft /\ AttemptSound /\ StagesSound /\ Backed /\ TodoSound
      /\ CutSound /\ DisposeSound /\ CutWorkIsMarked
  BY DEF UInv
<1>2. /\ attempt.at = "resuming" /\ awaited = {} /\ m \in todo /\ todo' = todo \ {m}
      /\ UNCHANGED <<marks, gone, quiescing, accepted, turn, cut, request, prepared, carried, attempt, ids,
                     host, debt>>
  BY DEF Resume, Attempting
<1>3. RoomLeft'
  BY <1>1, <1>2 DEF RoomLeft, Owing
<1>4. CASE m[1] \in gone /\ ClearIfUnchanged(m) /\ UNCHANGED <<starting, stage, awaited>>
  <2>1. /\ file' \in [Agents -> 0..MaxMarks] /\ \A b \in Agents : file'[b] <= marks[b]
        /\ \A b \in Agents : b \notin gone => file'[b] = file[b]
    BY <1>1, <1>4, ClearEffect
  <2>2. TypeOK'
    BY <1>1, <1>2, <1>4, <2>1 DEF TypeOK, host
  <2>3. AttemptSound' /\ StagesSound'
    BY <1>1, <1>2, <1>4 DEF AttemptSound, StagesSound
  <2>4. CutSound'
    BY <1>1, <1>2, <1>4 DEF CutSound, Running
  <2>5. Backed'
    BY <1>1, <1>2, <1>4, <2>1, MarkerParts DEF Backed, Here
  <2>6. TodoSound'
    BY <1>1, <1>2, <1>4, <2>1, MarkerParts DEF TodoSound, Here, TypeOK
  <2>7. DisposeSound' /\ CutWorkIsMarked'
    BY <1>1, <1>2, <2>1 DEF DisposeSound, CutWorkIsMarked, Here, host, TypeOK
  <2> QED
    BY <1>3, <2>2, <2>3, <2>4, <2>5, <2>6, <2>7 DEF UInv
<1>5. CASE m[1] \notin gone /\ Accept(m) /\ UNCHANGED file
  <2>1. m \notin accepted /\ Here(m[1]) => m[2] <= file'[m[1]]
    BY <1>1, <1>2, <1>5 DEF TodoSound
  <2>2. Here(m[1]) => \A k \in Markers : stage[k] = "running" /\ k[1] = m[1] => ~(m[2] < k[2])
    BY <1>1, <1>2 DEF TodoSound
  <2>3. \A k \in todo' : k[1] = m[1] => ~(k[2] < m[2])
    BY <1>1, <1>2 DEF TodoSound
  <2>4. \A b \in Agents : file'[b] <= marks'[b] /\ file[b] <= file'[b]
    BY <1>1, <1>2, <1>5, UpgradeAssumption DEF TypeOK
  <2>5. marks' \in [Agents -> 0..MaxMarks] /\ file' \in [Agents -> 0..MaxMarks] /\ ids' \subseteq Agents
        /\ debt' \in [Agents -> Debts] /\ (\A b \in Groups : debt'[b] = "none") /\ debt' = debt
    BY <1>1, <1>2, <1>5 DEF TypeOK
  <2> QED
    BY <1>2, <1>3, <1>5, <2>1, <2>2, <2>3, <2>4, <2>5, AcceptStep
<1> QED
  BY <1>4, <1>5 DEF Resume

\* The other steps of requests and attempts leave the work alone.
LEMMA MoveStep ==
    ASSUME UInv, UNCHANGED <<file, marks, gone, accepted, starting, stage, turn, cut, awaited,
                             host, debt>>,
           request' \in Attempts, prepared' \in BOOLEAN, carried' \subseteq Agents, ids' \subseteq Agents,
           quiescing' = quiescing \/ quiescing' = FALSE,
           todo' = todo \/ todo' = Listed,
           AttemptSound', RoomLeft'
    PROVE  UInv'
<1>1. TypeOK /\ StagesSound /\ Backed /\ TodoSound /\ CutSound /\ DisposeSound /\ CutWorkIsMarked
  BY DEF UInv
<1>2. TypeOK'
  <2>1. Listed \subseteq Markers
    BY DEF Listed
  <2> QED
    BY <1>1, <2>1 DEF TypeOK, AttemptSound, host
<1>3. CutSound'
  BY <1>1 DEF CutSound, Running
<1>4. StagesSound' /\ Backed' /\ DisposeSound' /\ CutWorkIsMarked'
  BY <1>1 DEF StagesSound, Backed, DisposeSound, CutWorkIsMarked, Here, host
<1>5. TodoSound'
  <2>1. CASE todo' = todo
    BY <1>1, <2>1 DEF TodoSound, Here
  <2>2. CASE todo' = Listed
    <3>1. \A k, m \in Listed : k[1] = m[1] => k = m
      BY SameMarker DEF Listed
    <3>2. \A m \in Listed : m \in Markers /\ m[2] = file[m[1]] /\ m[2] \in Nat
      BY MarkerParts DEF Listed
    <3>3. ASSUME NEW m \in Listed, Here(m[1]), NEW k \in Markers, k[1] = m[1], m[2] < k[2]
          PROVE  stage[k] = "none"
      <4>1. stage[k] # "none" => k[2] <= m[2]
        BY <1>1, <3>2, <3>3 DEF Backed
      <4> QED
        BY <3>2, <3>3, <4>1, MarkerParts
    <3> QED
      BY <2>2, <3>1, <3>2, <3>3 DEF TodoSound, Here
  <2> QED
    BY <2>1, <2>2
<1> QED
  BY <1>2, <1>3, <1>4, <1>5 DEF UInv

LEMMA MoveSteps ==
    ASSUME UInv,
           \/ \E A \in SUBSET Agents : ResumeAfterRecreate(A)
           \/ Begin \/ Fails \/ Ready \/ Prepared \/ Finish
    PROVE  UInv'
<1>1. TypeOK /\ AttemptSound
  BY DEF UInv
<1>2. \A a \in Agents : /\ marks[a] + Owing(a) <= MaxMarks
                        /\ marks[a] \in Nat /\ Owing(a) \in Nat /\ MaxMarks \in Nat
  BY UpgradeAssumption DEF UInv, RoomLeft, TypeOK, Owing
<1>3. NoAttempt.of = "none" /\ NoAttempt.at = "over"
      /\ NoAttempt \in [of : Attempts, at : {"over", "checking", "preparing", "resuming"}]
  BY DEF NoAttempt, Attempts
<1>4. ASSUME NEW A \in SUBSET Agents, ResumeAfterRecreate(A) PROVE UInv'
  <2>1. /\ request' = "recreate" /\ prepared' = FALSE /\ carried' = A
        /\ \A a \in Agents : Room(a)
        /\ UNCHANGED <<file, marks, gone, quiescing, accepted, starting, stage, turn, cut, attempt, ids,
                       todo, awaited, host, debt>>
    BY <1>4 DEF ResumeAfterRecreate
  <2>2. AttemptSound'
    BY <1>1, <2>1 DEF AttemptSound
  <2>3. RoomLeft'
    <3> SUFFICES ASSUME NEW a \in Agents PROVE marks[a] + Owing(a)' <= MaxMarks
      BY <2>1 DEF RoomLeft
    <3>1. Owing(a)' <= 1 + (IF turn[a] = "running" /\ cut[a] THEN 1 ELSE 0) /\ Owing(a)' \in Nat
      BY <2>1 DEF Owing
    <3> QED
      BY <1>2, <2>1, <3>1 DEF Room, Needed
  <2>4. request' \in Attempts
    BY <2>1 DEF Attempts
  <2> QED
    BY <1>1, <2>1, <2>2, <2>3, <2>4, MoveStep DEF TypeOK
<1>5. ASSUME Begin \/ Fails \/ Ready \/ Prepared \/ Finish PROVE UInv'
  <2>1. /\ UNCHANGED <<file, marks, gone, accepted, starting, stage, turn, cut, awaited,
                       host, debt>>
        /\ carried' \subseteq Agents
    BY <1>1, <1>5 DEF Begin, Fails, Ready, Prepared, Finish, TypeOK
  <2>2. /\ quiescing' = quiescing \/ quiescing' = FALSE
        /\ todo' = todo \/ todo' = Listed
    BY <1>5 DEF Begin, Fails, Ready, Prepared, Finish, Lists
  <2>3. /\ request' \in Attempts /\ prepared' \in BOOLEAN /\ ids' \subseteq Agents
        /\ prepared' = prepared \/ prepared' = TRUE
    BY <1>1, <1>5 DEF Begin, Fails, Ready, Prepared, Finish, TypeOK, Attempts, Listed, Markers
  <2>4. AttemptSound'
    <3>1. CASE Begin
      BY <1>1, <1>3, <3>1 DEF Begin, AttemptSound, TypeOK
    <3>2. CASE Fails
      BY <1>1, <1>3, <3>2 DEF Fails, Attempting, AttemptSound
    <3>3. CASE Ready
      BY <1>1, <3>3 DEF Ready, Lists, AttemptSound
    <3>4. CASE Prepared
      BY <1>1, <3>4 DEF Prepared, Attempting, Lists, AttemptSound
    <3>5. CASE Finish
      BY <1>1, <1>3, <3>5 DEF Finish, Attempting, AttemptSound
    <3> QED
      BY <1>5, <3>1, <3>2, <3>3, <3>4, <3>5
  <2>5. RoomLeft'
    <3> SUFFICES ASSUME NEW a \in Agents PROVE Owing(a)' <= Owing(a) /\ Owing(a)' \in Nat
      BY <1>2, <2>1 DEF RoomLeft
    <3>1. attempt'.at = "preparing" \/ attempt.at # "preparing" \/ prepared'
      BY <1>1, <1>3, <1>5 DEF Begin, Fails, Ready, Prepared, Finish, Attempting, Lists, AttemptSound
    <3>2. attempt.at = "preparing" /\ attempt'.at = "preparing" => ids' = ids
      BY <1>1, <1>5 DEF Begin, Fails, Ready, Prepared, Finish, AttemptSound
    <3> QED
      BY <1>1, <2>1, <2>3, <3>1, <3>2 DEF Owing, TypeOK
  <2> QED
    BY <1>1, <2>1, <2>2, <2>3, <2>4, <2>5, MoveStep DEF TypeOK
<1> QED
  BY <1>4, <1>5

-------------------------------------------------------------------------------
(* The host *)

LEMMA QuiesceStep ==
    ASSUME UInv, Quiesce
    PROVE  UInv'
<1>1. /\ TypeOK /\ RoomLeft /\ AttemptSound /\ StagesSound /\ CutSound
      /\ Backed /\ TodoSound /\ CutWorkIsMarked
  BY DEF UInv
<1>2. /\ ~disposed /\ disposed' = disposed /\ quiescing' = TRUE
      /\ quiesces' = quiesces + 1 /\ quiesces < MaxQuiesces
      /\ UNCHANGED <<file, marks, gone, accepted, starting, stage, turn, cut, recovery, crashes, debt>>
  BY DEF Quiesce
<1>3. TypeOK'
  BY <1>1, <1>2, UpgradeAssumption DEF TypeOK, recovery
<1>4. CutSound' /\ RoomLeft' /\ AttemptSound' /\ StagesSound'
  BY <1>1, <1>2 DEF CutSound, Running, RoomLeft, Owing, AttemptSound, StagesSound, recovery
<1>5. Backed' /\ TodoSound' /\ DisposeSound' /\ CutWorkIsMarked'
  BY <1>1, <1>2 DEF Backed, TodoSound, DisposeSound, CutWorkIsMarked, Here, recovery
<1> QED
  BY <1>3, <1>4, <1>5 DEF UInv

LEMMA DisposeStep ==
    ASSUME UInv, Dispose
    PROVE  UInv'
<1>1. /\ TypeOK /\ RoomLeft /\ AttemptSound /\ StagesSound /\ CutSound
      /\ Backed /\ TodoSound /\ CutWorkIsMarked
  BY DEF UInv
<1>2. /\ disposed' = TRUE /\ \A a \in Agents : Room(a)
      /\ UNCHANGED <<gone, quiescing, accepted, starting, stage, turn, cut, recovery,
                     quiesces, crashes>>
  BY DEF Dispose
<1>3. \A a \in Agents : marks[a] \in Nat /\ marks[a] < MaxMarks
  BY <1>1, <1>2, UpgradeAssumption DEF Room, Needed, TypeOK
<1>4. /\ marks' \in [Agents -> 0..MaxMarks] /\ file' \in [Agents -> 0..MaxMarks]
      /\ \A a \in Agents : /\ file'[a] <= marks'[a] /\ file[a] <= file'[a]
                           /\ marks'[a] = marks[a] \/ marks'[a] = marks[a] + 1
      /\ quiescing => \A a \in Agents : turn[a] # "none" => file'[a] # 0
      /\ debt' \in [Agents -> Debts] /\ \A a \in Groups : debt'[a] = "none"
      /\ \A a \in Agents : debt'[a] = "due" => debt[a] = "due" \/ file'[a] # 0
  <2>1. CASE quiescing
    <3> DEFINE S == {a \in Agents : InFlight(a)}
    <3>1. MarkPending(S) /\ Remedied(S)
      BY <2>1 DEF Dispose
    <3>2. \A a \in Agents : turn[a] # "none" => a \in S
      BY DEF InFlight
    <3>3. S \in SUBSET Agents
      OBVIOUS
    <3> HIDE DEF S
    <3>4. /\ debt' \in [Agents -> Debts] /\ \A a \in Groups : debt'[a] = "none"
          /\ \A a \in Agents : debt'[a] = "due" => debt[a] = "due" \/ a \in S
      BY <1>1, <3>1, <3>3, RemediedEffect
    <3>5. /\ marks' \in [Agents -> 0..MaxMarks] /\ file' \in [Agents -> 0..MaxMarks]
          /\ \A a \in Agents : /\ file'[a] <= marks'[a] /\ file[a] <= file'[a]
                               /\ marks'[a] = IF a \in S THEN marks[a] + 1 ELSE marks[a]
          /\ \A a \in S : file'[a] # 0
      BY <1>1, <1>3, <3>1, <3>3, MarkEffect
    <3> QED
      BY <3>2, <3>4, <3>5
  <2>2. CASE ~quiescing
    BY <1>1, <2>2, UpgradeAssumption DEF Dispose, TypeOK
  <2> QED
    BY <2>1, <2>2
<1>5. \A a \in Agents : file[a] \in Nat /\ file'[a] \in Nat
  BY <1>1, <1>4, UpgradeAssumption DEF TypeOK
<1>6. TypeOK'
  BY <1>1, <1>2, <1>4 DEF TypeOK, recovery
<1>7. RoomLeft'
  <2> SUFFICES ASSUME NEW a \in Agents PROVE marks'[a] + Owing(a)' <= MaxMarks
    BY DEF RoomLeft
  <2>1. Room(a) /\ Owing(a)' = Owing(a) /\ marks[a] \in Nat /\ MaxMarks \in Nat
    BY <1>2, <1>3, UpgradeAssumption DEF Owing, recovery
  <2>2. Owing(a) <= Needed(a) /\ Owing(a) \in Nat /\ Needed(a) \in Nat
    BY DEF Owing, Needed
  <2> QED
    BY <1>4, <2>1, <2>2 DEF Room
<1>8. CutSound' /\ AttemptSound' /\ StagesSound'
  BY <1>1, <1>2 DEF CutSound, Running, AttemptSound, StagesSound, recovery
<1>9. Backed'
  BY <1>1, <1>2, <1>4, <1>5, MarkerParts DEF Backed, Here
<1>10. TodoSound'
  <2>1. todo' = todo /\ todo \subseteq Markers
    BY <1>1, <1>2 DEF recovery, TypeOK
  <2> QED
    BY <1>1, <1>2, <1>4, <1>5, <2>1, MarkerParts DEF TodoSound, Here
<1>11. DisposeSound'
  BY <1>2, <1>4 DEF DisposeSound, Here
<1>12. CutWorkIsMarked'
  BY <1>1, <1>2, <1>4, <1>5 DEF CutWorkIsMarked, TypeOK
<1> QED
  BY <1>6, <1>7, <1>8, <1>9, <1>10, <1>11, <1>12 DEF UInv

LEMMA RestartStep ==
    ASSUME UInv, Restart
    PROVE  UInv'
<1>1. TypeOK /\ RoomLeft /\ Backed /\ DisposeSound /\ CutWorkIsMarked
  BY DEF UInv
<1>2. /\ UNCHANGED <<file, marks, gone>> /\ FreshProcess
      /\ crashes' = crashes + 1 /\ crashes < MaxCrashes
  BY DEF Restart
<1>3. \A m \in Markers : stage'[m] = "none"
  BY <1>2 DEF FreshProcess
<1>4. /\ debt' \in [Agents -> Debts] /\ \A a \in Groups : debt'[a] = "none"
      /\ \A a \in Agents : debt'[a] = "due" => debt[a] = "due" \/ (a \notin Groups /\ disposed /\ quiescing /\ Running(a))
  <2>1. \A a \in Agents : debt'[a] = IF disposed /\ quiescing /\ Running(a) /\ a \notin Groups
                                     THEN "due" ELSE debt[a]
    BY DEF Restart
  <2>2. DOMAIN debt' = Agents /\ debt' = [a \in Agents |-> debt'[a]]
    BY DEF Restart
  <2> HIDE DEF Running
  <2> QED
    BY <1>1, <2>1, <2>2, UpgradeAssumption DEF TypeOK, Debts
<1>5. TypeOK'
  <2>1. starting' = {m \in Markers : stage'[m] # "none"}
    BY <1>2, <1>3 DEF FreshProcess
  <2>2. Cardinality(awaited') <= 1
    BY <1>2, AtMostOne DEF FreshProcess
  <2>3. /\ stage' \in [Markers -> {"none", "resolving", "queued", "running"}]
        /\ turn' \in [Agents -> Turns] /\ cut' \in [Agents -> BOOLEAN] /\ (\A a \in Groups : ~cut'[a])
        /\ quiesces' \in 0..MaxQuiesces /\ crashes' \in 0..MaxCrashes
    BY <1>1, <1>2, UpgradeAssumption DEF FreshProcess, TypeOK, Turns
  <2>4. attempt'.of \in Attempts /\ attempt'.at = "over" /\ request' \in Attempts
    BY <1>2 DEF FreshProcess, NoAttempt, Attempts
  <2> QED
    BY <1>1, <1>2, <1>4, <2>1, <2>2, <2>3, <2>4 DEF FreshProcess, TypeOK
<1>6. RoomLeft'
  <2> SUFFICES ASSUME NEW a \in Agents PROVE marks[a] + Owing(a)' <= MaxMarks
    BY <1>2 DEF RoomLeft
  <2>1. Owing(a)' = 0
    BY <1>2 DEF FreshProcess, Owing
  <2>2. marks[a] + 0 <= MaxMarks
    BY <1>1, UpgradeAssumption DEF TypeOK
  <2> QED
    BY <2>1, <2>2
<1>7. AttemptSound'
  BY <1>2 DEF FreshProcess, NoAttempt, Attempts, AttemptSound
<1>8. StagesSound' /\ CutSound' /\ Backed'
  BY <1>2, <1>3 DEF FreshProcess, StagesSound, CutSound, Backed
<1>9. TodoSound' /\ DisposeSound'
  BY <1>2 DEF FreshProcess, TodoSound, DisposeSound
<1>10. CutWorkIsMarked'
  <2> SUFFICES ASSUME NEW a \in Agents \ gone, debt'[a] = "due" PROVE file[a] # 0
    BY <1>2 DEF CutWorkIsMarked
  <2>1. CASE debt[a] = "due"
    BY <1>1, <2>1 DEF CutWorkIsMarked
  <2>2. CASE a \in Agents \ Groups /\ disposed /\ quiescing /\ Running(a)
    <3>1. RunsIn(a, turn, stage) /\ Here(a)
      BY <2>2, RunningMeans DEF Here
    <3>2. CASE turn[a] \in {"running", "unheeded"}
      BY <1>1, <2>2, <3>1, <3>2 DEF DisposeSound
    <3>3. CASE \E m \in Markers : m[1] = a /\ stage[m] = "running"
      <4>1. PICK m \in Markers : m[1] = a /\ stage[m] = "running"
        BY <3>3
      <4>2. m[2] <= file[a] /\ m[2] \in Nat \ {0}
        BY <1>1, <3>1, <4>1, MarkerParts DEF Backed
      <4>3. file[a] \in Nat
        BY <1>1, <2>2, UpgradeAssumption DEF TypeOK
      <4> QED
        BY <4>2, <4>3
    <3> QED
      BY <3>1, <3>2, <3>3 DEF RunsIn
  <2> QED
    BY <1>4, <2>1, <2>2
<1> QED
  BY <1>5, <1>6, <1>7, <1>8, <1>9, <1>10 DEF UInv

LEMMA NextPreserves == UInv /\ [Next]_vars => UInv'
<1> SUFFICES ASSUME UInv, [Next]_vars PROVE UInv'
  OBVIOUS
<1>1. ASSUME NEW a \in Agents, \/ Send(a) \/ Wakes(a) \/ TurnStarts(a) \/ Checkpoint(a) \/ Nudge(a)
                                \/ TurnEnds(a) \/ Delete(a)
      PROVE  UInv'
  BY <1>1, TurnBeginsSteps, CheckpointStep, NudgeStep, TurnEndsStep, DeleteStep
<1>2. ASSUME NEW m \in Markers, ResumeStep(m) \/ ResolveFails(m) \/ ResumeThrows(m) \/ Resume(m)
      PROVE  UInv'
  BY <1>2, ResolvesStep, ResumeStartsStep, ResumeEndsStep, ResolveFailsStep, ResumeThrowsStep, TakeUpStep
  DEF ResumeStep
<1>3. ASSUME NEW a \in Agents, Prepare(a) PROVE UInv'
  BY <1>3, PrepareStep
<1>4. CASE \/ \E A \in SUBSET Agents : ResumeAfterRecreate(A)
           \/ Begin \/ Fails \/ Ready \/ Prepared \/ Finish
  BY <1>4, MoveSteps
<1>5. CASE Quiesce \/ Dispose \/ Restart
  BY <1>5, QuiesceStep, DisposeStep, RestartStep
<1>6. CASE UNCHANGED vars
  <2>1. /\ TypeOK /\ RoomLeft /\ AttemptSound /\ StagesSound /\ CutSound
        /\ Backed /\ TodoSound /\ DisposeSound /\ CutWorkIsMarked
    BY DEF UInv
  <2>2. TypeOK' /\ RoomLeft' /\ AttemptSound' /\ StagesSound'
    BY <1>6, <2>1 DEF TypeOK, RoomLeft, Owing, AttemptSound, StagesSound, vars, process
  <2>3. CutSound'
    BY <1>6, <2>1 DEF CutSound, Running, vars, process
  <2>4. Backed' /\ TodoSound' /\ DisposeSound' /\ CutWorkIsMarked'
    BY <1>6, <2>1 DEF Backed, TodoSound, DisposeSound, CutWorkIsMarked, Here, vars, process
  <2> QED
    BY <2>2, <2>3, <2>4 DEF UInv
<1> QED
  BY <1>1, <1>2, <1>3, <1>4, <1>5, <1>6 DEF Next, Recover

LEMMA UInvariance == Spec => []UInv
BY InitEstablishes, NextPreserves, PTL DEF Spec

-------------------------------------------------------------------------------
(* What is shown *)

\* Work that was cut short for an upgrade has a marker until a later run of its
\* agent ended otherwise, across markers that are replaced and cleared, upgrades
\* called off, further upgrades, and ends of the process, in order or not.
\* Excepted are a resume that was cut short for an upgrade called off before it returned
\* (slipped), and runs of which nobody asks whether they were cut short (dropped).
THEOREM CutWorkStaysMarked == Spec => []MarkersKept
<1>1. UInv => MarkersKept
  BY DEF UInv, MarkersKept
<1> QED
  BY <1>1, UInvariance, PTL

\* A marker is forgotten only for a deleted agent, for a group, or because the
\* resumed run of this very marker returned while the host did not quiesce.
THEOREM MarkersGoForTheirReasons == Spec => ForgottenForItsOwnSake
<1> DEFINE Reasoned == \A a \in Agents : file[a] # 0 /\ file'[a] = 0
                          => \/ a \in gone \cup Groups
                             \/ stage[<<a, file[a]>>] = "running" /\ ~quiescing
<1>1. UInv /\ [Next]_vars => [Reasoned]_vars
  <2> SUFFICES ASSUME UInv, Next, NEW a \in Agents, file[a] # 0, file'[a] = 0
               PROVE  \/ a \in gone \cup Groups
                      \/ stage[<<a, file[a]>>] = "running" /\ ~quiescing
    OBVIOUS
  <2>1. TypeOK /\ AttemptSound /\ RoomLeft
    BY DEF UInv
  <2>2. /\ marks[a] \in Nat /\ file[a] \in Nat /\ \A m \in Markers : m = <<m[1], m[2]>>
        /\ \A S : MarkPending(S) => file'[a] # 0
    <3>1. \A b \in Agents : marks[b] \in Nat /\ file[b] \in Nat
      BY <2>1, UpgradeAssumption DEF TypeOK
    <3> QED
      BY <3>1, MarkerParts DEF MarkPending
  <2>3. ASSUME NEW m \in Markers, ClearIfUnchanged(m)
        PROVE  a = m[1] /\ m = <<a, file[a]>>
    BY <2>1, <2>2, <2>3, ClearEffect
  <2>4. CASE \E b \in Agents : \/ Send(b) \/ Wakes(b) \/ TurnStarts(b) \/ Checkpoint(b) \/ Nudge(b)
                               \/ TurnEnds(b) \/ Delete(b) \/ Prepare(b)
    BY <2>2, <2>4 DEF Send, Wakes, TurnStarts, Checkpoint, Nudge, TurnEnds, MarkTurn, Delete, Prepare
  <2>5. ASSUME NEW m \in Markers, ResumeStep(m) \/ ResolveFails(m) \/ ResumeThrows(m) \/ Resume(m)
        PROVE  \/ a \in gone \cup Groups
               \/ stage[<<a, file[a]>>] = "running" /\ ~quiescing
    <3>1. \/ ClearIfUnchanged(m) /\ (m[1] \in gone \cup Groups \/ (stage[m] = "running" /\ ~quiescing))
          \/ UNCHANGED file
      BY <2>5 DEF ResumeStep, Resolves, ResumeStarts, ResumeEnds, ResolveFails, ResumeThrows, Resume
    <3> QED
      BY <2>3, <3>1
  <2>6. CASE (\E A \in SUBSET Agents : ResumeAfterRecreate(A)) \/ Begin \/ Fails \/ Ready \/ Prepared \/ Finish
             \/ Quiesce \/ Restart
    BY <2>6 DEF ResumeAfterRecreate, Begin, Fails, Ready, Prepared, Finish, Quiesce, Restart
  <2>7. CASE Dispose
    BY <2>2, <2>7 DEF Dispose
  <2> QED
    BY <2>4, <2>5, <2>6, <2>7 DEF Next, Recover
<1> QED
  BY <1>1, UInvariance, PTL DEF Spec, ForgottenForItsOwnSake

\* A process starts the resumed run of a marker only if it has not accepted it yet:
\* a marker that stays, as its run failed, is not resumed twice by one process.
THEOREM ResumesHappenOnce == Spec => ResumedOnce
<1> DEFINE Once == \A m \in Markers : stage[m] # "running" /\ stage'[m] = "running" => m \notin accepted
<1>1. UInv /\ [Next]_vars => [Once]_vars
  <2> SUFFICES ASSUME UInv, Next, NEW m \in Markers, stage[m] # "running", stage'[m] = "running"
               PROVE  m \notin accepted
    OBVIOUS
  <2>1. TypeOK /\ StagesSound
    BY DEF UInv
  <2>2. ASSUME NEW k \in Markers, ResumeStarts(k) PROVE m \notin accepted
    <3>1. k = m /\ stage[m] = "queued"
      BY <2>1, <2>2 DEF ResumeStarts, TypeOK
    <3> QED
      BY <2>1, <3>1 DEF StagesSound
  <2>3. ASSUME NEW k \in Markers, Settled(k) PROVE FALSE
    BY <2>1, <2>3 DEF Settled, TypeOK
  <2>4. ASSUME NEW k, Accept(k) PROVE FALSE
    BY <2>1, <2>4 DEF Accept, TypeOK
  <2>5. ASSUME NEW k \in Markers, Resolves(k) PROVE FALSE
    BY <2>1, <2>3, <2>5 DEF Resolves, TypeOK
  <2>6. CASE \E k \in Markers : ResumeStep(k) \/ ResolveFails(k) \/ ResumeThrows(k) \/ Resume(k)
    BY <2>2, <2>3, <2>4, <2>5, <2>6 DEF ResumeStep, ResumeEnds, ResolveFails, ResumeThrows, Resume
  <2>7. CASE \E b \in Agents : \/ Send(b) \/ Wakes(b) \/ TurnStarts(b) \/ Checkpoint(b) \/ Nudge(b)
                               \/ TurnEnds(b) \/ Delete(b)
    BY <2>7 DEF Send, Wakes, TurnStarts, Checkpoint, Nudge, TurnEnds, Delete, process
  <2>8. ASSUME NEW b \in Agents, Prepare(b) PROVE FALSE
    <3>1. UNCHANGED stage \/ Accept(<<b, file[b]>>) \/ Accept(<<b, file'[b]>>)
      BY <2>8 DEF Prepare
    <3> QED
      BY <2>1, <3>1 DEF Accept, TypeOK
  <2>9. CASE (\E A \in SUBSET Agents : ResumeAfterRecreate(A)) \/ Begin \/ Fails \/ Ready \/ Prepared \/ Finish
             \/ Quiesce \/ Dispose
    BY <2>9 DEF ResumeAfterRecreate, Begin, Fails, Ready, Prepared, Finish, Quiesce, Dispose
  <2>10. CASE Restart
    BY <2>10 DEF Restart, FreshProcess
  <2> QED
    BY <2>6, <2>7, <2>8, <2>9, <2>10 DEF Next, Recover
<1> QED
  BY <1>1, UInvariance, PTL DEF Spec, ResumedOnce
===============================================================================
