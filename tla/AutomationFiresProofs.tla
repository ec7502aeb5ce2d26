------------------------- MODULE AutomationFiresProofs -------------------------
(***************************************************************************)
(* Safety of AutomationFires for any fires, any local events and any       *)
(* bounds of the batches and of the history.                               *)
(*                                                                         *)
(* The invariant AInv has four parts: the shape of the variables the       *)
(* properties speak of (Shape), what the consumer's two views of a fire    *)
(* say of the server's (ReportSound), that a batch is always under way     *)
(* (QueueSound), and that every item is in one place (HoldSound).  On top  *)
(* of it, HistoryInv says what the run history tells: of a run that has    *)
(* begun the record that its fires find (RunsFound), of a fire that was    *)
(* finished or has succeeded what a look at the history shows of it        *)
(* (FinishedKnown, RecordsTrue), and that no two runs, given up or not,    *)
(* share a fire (Apart, SpentSound).                                       *)
(***************************************************************************)
EXTENDS AutomationFires, SequenceTheorems, FiniteSetTheorems, WellFoundedInduction, TLAPS

InList(b, f) == \E i \in DOMAIN b : b[i] = f
OnceIn(b) == \A i, j \in DOMAIN b : b[i] = b[j] /\ b[i] \in Fires => i = j
Holds(r, f) == f \in FiresOf(r) /\ r.stage # "abandoned"

Stages == {"waiting", "abandoned"} \cup Occupying

Shape == /\ server \in [Fires -> {"pending", "gone"} \cup Completed]
         /\ states \in [Fires -> {"absent", "running", "reported"} \cup Completed]
         /\ delivery \in [Fires -> {"none", "listing", "firing", "reporting"}]
         /\ batch \in Seq(Items)
         /\ runs \subseteq [fires : Seq(Items \cup ScheduleFires), stage : Stages]
         /\ timer \in BOOLEAN /\ flushing \in BOOLEAN

ReportSound == \A f \in Fires :
                  /\ states[f] = "reported" => server[f] # "pending"
                  /\ delivery[f] = "reporting" => states[f] \in Completed \/ server[f] # "pending"
                  /\ delivery[f] \in {"listing", "firing"} => states[f] = "running"

QueueSound == BatchMoves /\ (timer => batch # <<>>)

HoldSound ==
    /\ OnceIn(batch)
    /\ \A r, q \in runs, f \in Fires : Holds(r, f) /\ Holds(q, f) => r = q
    /\ \A r \in runs, f \in Fires : Holds(r, f) => ~InList(batch, f)
    /\ \A f \in Fires : delivery[f] = "firing" <=> InList(batch, f) \/ \E r \in runs : Holds(r, f)

AInv == Shape /\ ReportSound /\ QueueSound /\ HoldSound

-------------------------------------------------------------------------------
(* Lists *)

\* The first k entries of a list, and the others.
Oldest(b, k) == SubSeq(b, 1, k)
Others(b, k) == SubSeq(b, k + 1, Len(b))

LEMMA SplitList ==
    ASSUME NEW S, NEW b \in Seq(S), NEW k \in 0..Len(b)
    PROVE  /\ Oldest(b, k) \in Seq(S) /\ Others(b, k) \in Seq(S)
           /\ Len(Oldest(b, k)) = k /\ Len(Others(b, k)) = Len(b) - k
           /\ k > 0 => Oldest(b, k)[1] = b[1]
           /\ \A f : InList(Oldest(b, k), f) <=> \E i \in 1..k : b[i] = f
           /\ \A f : InList(b, f) <=> InList(Oldest(b, k), f) \/ InList(Others(b, k), f)
           /\ OnceIn(b) => OnceIn(Others(b, k)) /\ \A f \in Fires : ~(InList(Oldest(b, k), f) /\ InList(Others(b, k), f))
<1> DEFINE n == Len(b)
           a == Oldest(b, k)
           c == Others(b, k)
<1>1. n \in Nat /\ k \in 0..n /\ DOMAIN b = 1..n /\ \A i \in 1..n : b[i] \in S
  OBVIOUS
<1>2. /\ a \in Seq(S) /\ Len(a) = k /\ \A i \in 1..k : a[i] = b[i]
  <2>1. \A i \in 1..k : b[i] \in S
    BY <1>1
  <2>2. /\ SubSeq(b, 1, k) \in Seq(S)
        /\ Len(SubSeq(b, 1, k)) = IF 1 <= k THEN k - 1 + 1 ELSE 0
        /\ \A i \in 1..(k - 1 + 1) : SubSeq(b, 1, k)[i] = b[1 + i - 1]
    BY <1>1, <2>1, SubSeqProperties
  <2> QED
    BY <1>1, <2>2 DEF Oldest
<1>3. /\ c \in Seq(S) /\ Len(c) = n - k /\ \A i \in 1..(n - k) : c[i] = b[k + i]
  <2>1. \A i \in (k + 1)..n : b[i] \in S
    BY <1>1
  <2>2. /\ SubSeq(b, k + 1, n) \in Seq(S)
        /\ Len(SubSeq(b, k + 1, n)) = IF k + 1 <= n THEN n - (k + 1) + 1 ELSE 0
        /\ \A i \in 1..(n - (k + 1) + 1) : SubSeq(b, k + 1, n)[i] = b[(k + 1) + i - 1]
    BY <1>1, <2>1, SubSeqProperties
  <2> HIDE DEF n
  <2>3. /\ n - (k + 1) + 1 = n - k
        /\ \A i \in 1..(n - k) : (k + 1) + i - 1 = k + i
        /\ (IF k + 1 <= n THEN n - (k + 1) + 1 ELSE 0) = n - k
    BY <1>1
  <2> QED
    <3>1. c \in Seq(S)
      BY <2>2 DEF n, Others
    <3>2. Len(c) = n - k
      BY <2>2, <2>3, Zenon DEF n, Others
    <3>3. ASSUME NEW i \in 1..(n - k) PROVE c[i] = b[k + i]
      <4>1. c[i] = b[(k + 1) + i - 1]
        BY <2>2, <2>3 DEF n, Others
      <4> QED
        BY <2>3, <4>1
    <3> QED
      BY <3>1, <3>2, <3>3
<1>4. DOMAIN a = 1..k /\ DOMAIN c = 1..(n - k)
  BY <1>2, <1>3
<1> HIDE DEF n, a, c
<1>5. ASSUME NEW f PROVE InList(a, f) <=> \E i \in 1..k : b[i] = f
  BY <1>2, <1>4 DEF InList
<1>6. ASSUME NEW f PROVE InList(c, f) <=> \E i \in (k + 1)..n : b[i] = f
  <2>1. ASSUME NEW i \in (k + 1)..n, b[i] = f PROVE InList(c, f)
    <3>1. i - k \in 1..(n - k) /\ k + (i - k) = i
      BY <1>1
    <3> QED
      BY <1>3, <1>4, <2>1, <3>1 DEF InList
  <2>2. ASSUME NEW i \in DOMAIN c, c[i] = f PROVE \E j \in (k + 1)..n : b[j] = f
    <3>1. k + i \in (k + 1)..n
      BY <1>1, <1>4
    <3> QED
      BY <1>3, <1>4, <2>2, <3>1
  <2> QED
    BY <2>1, <2>2 DEF InList
<1>7. ASSUME NEW f PROVE InList(b, f) <=> InList(a, f) \/ InList(c, f)
  <2>1. \A i : i \in 1..n <=> i \in 1..k \/ i \in (k + 1)..n
    BY <1>1 DEF n
  <2> QED
    BY <1>1, <1>5, <1>6, <2>1 DEF InList
<1>8. ASSUME OnceIn(b) PROVE OnceIn(c) /\ \A f \in Fires : ~(InList(a, f) /\ InList(c, f))
  <2>1. ASSUME NEW i \in DOMAIN c, NEW j \in DOMAIN c, c[i] = c[j], c[i] \in Fires PROVE i = j
    <3>1. k + i \in 1..n /\ k + j \in 1..n
      BY <1>1, <1>4
    <3>2. k + i = k + j
      BY <1>1, <1>3, <1>4, <1>8, <2>1, <3>1 DEF OnceIn
    <3> QED
      BY <1>4, <3>2
  <2>2. ASSUME NEW f \in Fires, InList(a, f), InList(c, f) PROVE FALSE
    <3>1. PICK i \in 1..k : b[i] = f
      BY <1>5, <2>2
    <3>2. PICK j \in (k + 1)..n : b[j] = f
      BY <1>6, <2>2
    <3>3. i \in 1..n /\ j \in 1..n /\ i # j
      BY <1>1 DEF n
    <3> QED
      BY <1>1, <1>8, <3>1, <3>2, <3>3 DEF OnceIn
  <2> QED
    BY <2>1, <2>2 DEF OnceIn
<1>9. k > 0 => a[1] = b[1]
  BY <1>1, <1>2
<1> QED
  BY <1>2, <1>3, <1>5, <1>7, <1>8, <1>9, Zenon DEF n, a, c

\* An item more.
LEMMA AppendList ==
    ASSUME NEW S, NEW b \in Seq(S), NEW x \in S
    PROVE  /\ Append(b, x) \in Seq(S) /\ Len(Append(b, x)) = Len(b) + 1
           /\ \A f : InList(Append(b, x), f) <=> InList(b, f) \/ f = x
           /\ (OnceIn(b) /\ (x \in Fires => ~InList(b, x))) => OnceIn(Append(b, x))
           /\ \A i \in DOMAIN b : Append(b, x)[i] = b[i]
<1> DEFINE a == Append(b, x)
<1>1. /\ a \in Seq(S) /\ Len(a) = Len(b) + 1 /\ Len(b) \in Nat
      /\ DOMAIN b = 1..Len(b) /\ DOMAIN a = 1..(Len(b) + 1)
      /\ \A i \in 1..Len(b) : a[i] = b[i]
      /\ a[Len(b) + 1] = x
  OBVIOUS
<1> HIDE DEF a
<1>2. ASSUME NEW f PROVE InList(a, f) <=> InList(b, f) \/ f = x
  BY <1>1 DEF InList
<1>3. ASSUME OnceIn(b), x \in Fires => ~InList(b, x) PROVE OnceIn(a)
  BY <1>1, <1>3 DEF OnceIn, InList
<1> QED
  BY <1>1, <1>2, <1>3 DEF a

-------------------------------------------------------------------------------
(* What steps have in common *)

\* Nothing moves in the queue, and no delivery starts or stops to await a run.
LEMMA QueueQuiet ==
    ASSUME AInv, batch' = batch, timer' = timer, flushing' = flushing, runs' = runs,
           \A f \in Fires : delivery'[f] = "firing" <=> delivery[f] = "firing"
    PROVE  QueueSound' /\ HoldSound'
<1>1. QueueSound'
  BY DEF AInv, QueueSound, BatchMoves
<1>2. HoldSound'
  BY DEF AInv, HoldSound, OnceIn, InList
<1> QED
  BY <1>1, <1>2

\* An item joins the batch, and the oldest ones may be shed.
LEMMA EnqueueEffect ==
    ASSUME AInv, NEW x \in Items, x \in Fires => delivery[x] = "listing", Enqueue(x),
           server' = server, runs' = runs
    PROVE  AInv'
<1> USE FiresAssumption
<1> DEFINE items == Append(batch, x)
           cap == MAX_QUEUED_EVENT_FIRES_PER_AUTOMATION
           excess == IF Len(items) > cap THEN Len(items) - cap ELSE 0
           shed == {f \in Fires : \E i \in 1..excess : items[i] = f}
<1>1. Shape /\ ReportSound /\ QueueSound /\ HoldSound
  BY DEF AInv
<1>2. /\ batch' = SubSeq(items, excess + 1, Len(items)) /\ timer' = ~flushing /\ flushing' = flushing
      /\ states' = [f \in Fires |-> IF f \in shed THEN "failed" ELSE states[f]]
      /\ delivery' = [f \in Fires |-> IF f \in shed THEN "reporting" ELSE IF f = x THEN "firing" ELSE delivery[f]]
  BY DEF Enqueue
<1>3. batch \in Seq(Items) /\ Len(batch) \in Nat /\ DOMAIN batch = 1..Len(batch)
  BY <1>1 DEF Shape
<1>4. x \in Fires => ~InList(batch, x)
  BY <1>1 DEF HoldSound
<1>5. /\ items \in Seq(Items) /\ Len(items) = Len(batch) + 1 /\ OnceIn(items)
      /\ \A f : InList(items, f) <=> InList(batch, f) \/ f = x
      /\ \A i \in DOMAIN batch : items[i] = batch[i]
  BY <1>1, <1>3, <1>4, AppendList DEF HoldSound
<1> HIDE DEF items
<1>6. excess \in 0..Len(batch) /\ excess \in 0..Len(items)
  BY <1>3, <1>5
<1> HIDE DEF excess
<1>7. /\ batch' \in Seq(Items) /\ Len(batch') = Len(items) - excess
      /\ \A f : InList(Oldest(items, excess), f) <=> \E i \in 1..excess : items[i] = f
      /\ \A f : InList(items, f) <=> InList(Oldest(items, excess), f) \/ InList(batch', f)
      /\ OnceIn(batch') /\ \A f \in Fires : ~(InList(Oldest(items, excess), f) /\ InList(batch', f))
  <2>1. items \in Seq(Items) /\ excess \in 0..Len(items)
    BY <1>5, <1>6
  <2>2. batch' = Others(items, excess)
    BY <1>2 DEF Others
  <2>3. /\ Others(items, excess) \in Seq(Items) /\ Len(Others(items, excess)) = Len(items) - excess
        /\ \A f : InList(Oldest(items, excess), f) <=> \E i \in 1..excess : items[i] = f
        /\ \A f : InList(items, f) <=> InList(Oldest(items, excess), f) \/ InList(Others(items, excess), f)
        /\ OnceIn(items) => /\ OnceIn(Others(items, excess))
                            /\ \A f \in Fires : ~(InList(Oldest(items, excess), f) /\ InList(Others(items, excess), f))
    BY <2>1, SplitList
  <2> QED
    BY <1>5, <2>2, <2>3, Zenon
<1>8. batch' # <<>>
  BY <1>3, <1>5, <1>6, <1>7
<1>9. \A f \in shed : InList(batch, f)
  <2> SUFFICES ASSUME NEW f \in shed PROVE InList(batch, f)
    OBVIOUS
  <2>1. PICK i \in 1..excess : items[i] = f
    OBVIOUS
  <2>2. i \in DOMAIN batch /\ batch[i] = f
    BY <1>3, <1>5, <1>6, <2>1
  <2> QED
    BY <2>2 DEF InList
<1>10. \A f \in Fires : InList(batch', f) <=> (InList(batch, f) \/ f = x) /\ f \notin shed
  BY <1>5, <1>7
<1>11. x \in Fires => x \notin shed
  BY <1>4, <1>9
<1>12. shed \subseteq Fires
  OBVIOUS
<1> HIDE DEF shed
<1>13. Shape'
  BY <1>1, <1>2, <1>7 DEF Shape, Completed
<1>14. ReportSound'
  BY <1>1, <1>2, <1>11 DEF ReportSound, Completed
<1>15. QueueSound'
  BY <1>1, <1>2, <1>8 DEF QueueSound, BatchMoves
<1>16. HoldSound'
  <2>1. \A r \in runs, f \in Fires : Holds(r, f) => ~InList(batch', f)
    BY <1>1, <1>10 DEF HoldSound
  <2>2. ASSUME NEW f \in Fires
        PROVE  delivery'[f] = "firing" <=> InList(batch', f) \/ \E r \in runs : Holds(r, f)
    <3>1. f \in shed => ~\E r \in runs : Holds(r, f)
      BY <1>1, <1>9 DEF HoldSound
    <3>2. delivery[f] = "firing" <=> InList(batch, f) \/ \E r \in runs : Holds(r, f)
      BY <1>1 DEF HoldSound
    <3>3. delivery'[f] = "firing" <=> f \notin shed /\ (f = x \/ delivery[f] = "firing")
      BY <1>2
    <3> QED
      BY <1>10, <3>1, <3>2, <3>3
  <2>3. \A r, q \in runs, f \in Fires : Holds(r, f) /\ Holds(q, f) => r = q
    BY <1>1 DEF HoldSound
  <2> QED
    BY <1>7, <2>1, <2>2, <2>3 DEF HoldSound
<1> QED
  BY <1>13, <1>14, <1>15, <1>16 DEF AInv

\* A call that is not given up returns, or is given up: its fires are settled.
LEMMA SettleEffect ==
    ASSUME AInv, NEW r \in runs, r.stage # "abandoned", NEW end \in {"absent"} \cup Completed,
           Settle(r, end), server' = server,
           runs' = runs \ {r} \/ runs' = (runs \ {r}) \cup {[r EXCEPT !.stage = "abandoned"]}
    PROVE  AInv'
<1> USE FiresAssumption
<1>1. Shape /\ ReportSound /\ QueueSound /\ HoldSound
  BY DEF AInv
<1>2. /\ states' = [f \in Fires |-> IF f \in FiresOf(r) THEN end ELSE states[f]]
      /\ delivery' = [f \in Fires |-> IF f \notin FiresOf(r) THEN delivery[f]
                                      ELSE IF end = "absent" THEN "none" ELSE "reporting"]
      /\ IF IsSchedule(r) THEN timer' = timer /\ flushing' = flushing
         ELSE flushing' = FALSE /\ timer' = (batch # <<>>)
      /\ batch' = batch
  BY DEF Settle
<1> DEFINE gone == [r EXCEPT !.stage = "abandoned"]
<1>3. r \in [fires : Seq(Items \cup ScheduleFires), stage : Stages]
  BY <1>1 DEF Shape
<1>4. gone \in [fires : Seq(Items \cup ScheduleFires), stage : Stages] /\ gone.stage = "abandoned"
  BY <1>3 DEF Stages
<1>5. \A q \in runs' : (q \in runs /\ q # r) \/ q = gone
  OBVIOUS
<1>6. \A q \in runs : q # r => q \in runs'
  OBVIOUS
<1> HIDE DEF gone
<1>7. Shape'
  <2>1. runs' \subseteq [fires : Seq(Items \cup ScheduleFires), stage : Stages]
    BY <1>1, <1>4, <1>5 DEF Shape
  <2>2. timer' \in BOOLEAN /\ flushing' \in BOOLEAN
    BY <1>1, <1>2 DEF Shape
  <2> QED
    BY <1>1, <1>2, <2>1, <2>2 DEF Shape, Completed
<1>8. ReportSound'
  BY <1>1, <1>2 DEF ReportSound, Completed
<1>9. QueueSound'
  <2>1. CASE IsSchedule(r)
    <3>1. timer' = timer /\ flushing' = flushing /\ batch' = batch
      BY <1>2, <2>1
    <3>2. \A q \in runs : ~IsSchedule(q) => q \in runs'
      BY <1>6, <2>1
    <3> QED
      BY <1>1, <3>1, <3>2 DEF QueueSound, BatchMoves
  <2>2. CASE ~IsSchedule(r)
    BY <1>2, <2>2 DEF QueueSound, BatchMoves
  <2> QED
    BY <2>1, <2>2
<1>10. HoldSound'
  <2>1. \A q \in runs', f \in Fires : Holds(q, f) => q \in runs /\ q # r
    BY <1>4, <1>5 DEF Holds
  <2>2. \A f \in Fires : f \in FiresOf(r) <=> Holds(r, f)
    BY DEF Holds
  <2>3. ASSUME NEW f \in Fires
        PROVE  delivery'[f] = "firing" <=> InList(batch, f) \/ \E q \in runs' : Holds(q, f)
    <3>1. CASE f \in FiresOf(r)
      <4>1. ~InList(batch, f) /\ \A q \in runs : Holds(q, f) => q = r
        BY <1>1, <2>2, <3>1 DEF HoldSound
      <4>2. delivery'[f] # "firing"
        BY <1>2, <3>1
      <4> QED
        BY <2>1, <4>1, <4>2
    <3>2. CASE f \notin FiresOf(r)
      <4>1. (\E q \in runs' : Holds(q, f)) <=> (\E q \in runs : Holds(q, f))
        BY <1>6, <2>1, <2>2, <3>2
      <4>2. delivery'[f] = delivery[f]
        BY <1>2, <3>2
      <4> QED
        BY <1>1, <4>1, <4>2 DEF HoldSound
    <3> QED
      BY <3>1, <3>2
  <2>4. OnceIn(batch) /\ batch' = batch
    BY <1>1, <1>2 DEF HoldSound
  <2>5. /\ \A q, p \in runs', f \in Fires : Holds(q, f) /\ Holds(p, f) => q = p
        /\ \A q \in runs', f \in Fires : Holds(q, f) => ~InList(batch, f)
    BY <1>1, <2>1 DEF HoldSound
  <2> QED
    BY <2>3, <2>4, <2>5, Zenon DEF HoldSound
<1> QED
  BY <1>7, <1>8, <1>9, <1>10 DEF AInv

\* A run that is not given up gets on.
LEMMA RestageEffect ==
    ASSUME AInv, NEW r \in runs, r.stage # "abandoned", NEW stage \in Occupying,
           runs' = (runs \ {r}) \cup {[r EXCEPT !.stage = stage]},
           server' = server, states' = states, delivery' = delivery,
           batch' = batch, timer' = timer, flushing' = flushing
    PROVE  AInv'
<1> USE FiresAssumption
<1>1. Shape /\ ReportSound /\ QueueSound /\ HoldSound
  BY DEF AInv
<1> DEFINE next == [r EXCEPT !.stage = stage]
<1>2. r \in [fires : Seq(Items \cup ScheduleFires), stage : Stages]
  BY <1>1 DEF Shape
<1>3. /\ next \in [fires : Seq(Items \cup ScheduleFires), stage : Stages]
      /\ next.fires = r.fires /\ next.stage # "abandoned"
  BY <1>2 DEF Stages, Occupying
<1>4. /\ \A f \in Fires : Holds(next, f) <=> Holds(r, f)
      /\ IsSchedule(next) <=> IsSchedule(r)
  BY <1>3 DEF Holds, FiresOf, IsSchedule
<1>5. /\ \A q \in runs' : (q \in runs /\ q # r) \/ q = next
      /\ \A q \in runs : q # r => q \in runs'
      /\ next \in runs'
  OBVIOUS
<1> HIDE DEF next
<1>6. Shape'
  BY <1>1, <1>3, <1>5 DEF Shape
<1>7. ReportSound'
  BY <1>1 DEF ReportSound
<1>8. QueueSound'
  BY <1>1, <1>3, <1>4, <1>5 DEF QueueSound, BatchMoves
<1>9. HoldSound'
  <2>1. \A q \in runs', f \in Fires : Holds(q, f) => \/ q \in runs /\ q # r
                                                     \/ q = next /\ Holds(r, f)
    BY <1>4, <1>5
  <2>2. \A f \in Fires : (\E q \in runs' : Holds(q, f)) <=> (\E q \in runs : Holds(q, f))
    BY <1>4, <1>5
  <2>3. \A q, p \in runs', f \in Fires : Holds(q, f) /\ Holds(p, f) => q = p
    BY <1>1, <2>1 DEF HoldSound
  <2>4. \A q \in runs', f \in Fires : Holds(q, f) => ~InList(batch, f)
    BY <1>1, <2>1 DEF HoldSound
  <2>5. OnceIn(batch) /\ \A f \in Fires : delivery[f] = "firing" <=> InList(batch, f) \/ \E q \in runs' : Holds(q, f)
    BY <1>1, <2>2 DEF HoldSound
  <2> QED
    BY <2>3, <2>4, <2>5, Zenon DEF HoldSound
<1> QED
  BY <1>6, <1>7, <1>8, <1>9 DEF AInv

-------------------------------------------------------------------------------
(* The steps *)

\* The consumer learns something of f, or gives it up; the queue is not concerned.
LEMMA FireEffect ==
    ASSUME AInv, NEW f \in Fires, delivery[f] # "firing", delivery'[f] # "firing",
           batch' = batch, timer' = timer, flushing' = flushing, runs' = runs,
           NEW sv \in {"pending", "gone"} \cup Completed, NEW st \in {"absent", "running", "reported"} \cup Completed,
           NEW d \in {"none", "listing", "reporting"},
           server' = [server EXCEPT ![f] = sv], states' = [states EXCEPT ![f] = st],
           delivery' = [delivery EXCEPT ![f] = d],
           st = "reported" => sv # "pending",
           d = "reporting" => st \in Completed \/ sv # "pending",
           d = "listing" => st = "running"
    PROVE  AInv'
<1>1. Shape /\ ReportSound
  BY DEF AInv
<1>2. Shape'
  BY <1>1 DEF Shape
<1>3. ReportSound'
  BY <1>1 DEF ReportSound, Shape
<1>4. \A g \in Fires : delivery'[g] = "firing" <=> delivery[g] = "firing"
  BY <1>1 DEF Shape
<1>5. QueueSound' /\ HoldSound'
  BY <1>4, QueueQuiet
<1> QED
  BY <1>2, <1>3, <1>5 DEF AInv

\* What the server makes of a report on f.
LEMMA ServedEffect ==
    ASSUME AInv, NEW f \in Fires, Served(f), states[f] \in Completed \/ server[f] # "pending"
    PROVE  \E sv \in {"gone"} \cup Completed : server' = [server EXCEPT ![f] = sv]
<1>1. server[f] \in {"pending", "gone"} \cup Completed
  BY DEF AInv, Shape
<1>2. CASE server[f] = "pending"
  BY <1>2 DEF Served
<1>3. CASE server[f] # "pending"
  BY <1>1, <1>3 DEF Served
<1> QED
  BY <1>2, <1>3

LEMMA PollSteps ==
    ASSUME AInv, PollServed \/ PollFailed \/ PollReceived \/ TickDone
    PROVE  AInv'
<1>1. Shape /\ ReportSound
  BY DEF AInv
<1>2. batch' = batch /\ timer' = timer /\ flushing' = flushing /\ runs' = runs
  BY DEF PollServed, PollFailed, PollReceived, TickDone, queue
<1>3. CASE PollServed
  <2>1. PICK left \in SUBSET {f \in Fires : server[f] \in Completed} :
            server' = [f \in Fires |-> IF f \in left THEN "gone" ELSE server[f]]
    BY <1>3 DEF PollServed
  <2>2. states' = states /\ delivery' = delivery
    BY <1>3 DEF PollServed
  <2>3. Shape'
    BY <1>1, <1>2, <2>1, <2>2 DEF Shape
  <2>4. ReportSound'
    BY <1>1, <2>1, <2>2 DEF ReportSound
  <2>5. QueueSound' /\ HoldSound'
    BY <1>2, <2>2, QueueQuiet
  <2> QED
    BY <2>3, <2>4, <2>5 DEF AInv
<1>4. CASE PollReceived
  <2> DEFINE dropped == {f \in Fires : states[f] = "reported" /\ f \notin tick.fires}
             new == {f \in tick.fires : states[f] = "absent"}
  <2>1. /\ states' = [f \in Fires |-> IF f \in new THEN "running" ELSE IF f \in dropped THEN "absent" ELSE states[f]]
        /\ delivery' = [f \in Fires |-> IF f \in new THEN "listing" ELSE delivery[f]]
        /\ server' = server
    BY <1>4 DEF PollReceived
  <2>2. /\ \A f \in Fires : f \in new => states[f] = "absent"
        /\ \A f \in Fires : f \in dropped => states[f] = "reported"
    OBVIOUS
  <2> HIDE DEF new, dropped
  <2>3. Shape'
    BY <1>1, <1>2, <2>1 DEF Shape
  <2>4. ReportSound'
    BY <1>1, <2>1, <2>2 DEF ReportSound, Completed
  <2>5. \A f \in Fires : delivery'[f] = "firing" <=> delivery[f] = "firing"
    BY <1>1, <2>1, <2>2 DEF ReportSound
  <2>6. QueueSound' /\ HoldSound'
    BY <1>2, <2>5, QueueQuiet
  <2> QED
    BY <2>3, <2>4, <2>6 DEF AInv
<1>5. CASE PollFailed \/ TickDone
  <2>1. server' = server /\ states' = states /\ delivery' = delivery
    BY <1>5 DEF PollFailed, TickDone
  <2>2. Shape' /\ ReportSound'
    BY <1>1, <1>2, <2>1 DEF Shape, ReportSound
  <2>3. QueueSound' /\ HoldSound'
    BY <1>2, <2>1, QueueQuiet
  <2> QED
    BY <2>2, <2>3 DEF AInv
<1> QED
  BY <1>3, <1>4, <1>5

LEMMA TickReportsStep ==
    ASSUME AInv, NEW f \in Fires, TickReports(f)
    PROVE  AInv'
<1>1. Shape /\ ReportSound
  BY DEF AInv
<1>2. /\ states[f] \in Completed /\ delivery' = delivery
      /\ batch' = batch /\ timer' = timer /\ flushing' = flushing /\ runs' = runs
  BY DEF TickReports, queue
<1>3. QueueSound' /\ HoldSound'
  BY <1>2, QueueQuiet
<1>4. CASE Served(f) /\ states' = [states EXCEPT ![f] = "reported"]
  <2>1. PICK sv \in {"gone"} \cup Completed : server' = [server EXCEPT ![f] = sv]
    BY <1>2, <1>4, ServedEffect
  <2>2. Shape'
    BY <1>1, <1>2, <1>4, <2>1 DEF Shape
  <2>3. ReportSound'
    BY <1>1, <1>2, <1>4, <2>1 DEF ReportSound, Shape, Completed
  <2> QED
    BY <1>3, <2>2, <2>3 DEF AInv
<1>5. CASE Served(f) /\ states' = states
  <2>1. PICK sv \in {"gone"} \cup Completed : server' = [server EXCEPT ![f] = sv]
    BY <1>2, <1>5, ServedEffect
  <2>2. Shape'
    BY <1>1, <1>2, <1>5, <2>1 DEF Shape
  <2>3. ReportSound'
    BY <1>1, <1>2, <1>5, <2>1 DEF ReportSound, Shape, Completed
  <2> QED
    BY <1>3, <2>2, <2>3 DEF AInv
<1>6. CASE server' = server /\ states' = states
  <2>1. Shape' /\ ReportSound'
    BY <1>1, <1>2, <1>6 DEF Shape, ReportSound
  <2> QED
    BY <1>3, <2>1 DEF AInv
<1> QED
  BY <1>4, <1>5, <1>6 DEF TickReports

\* A delivery is given up before it awaits a run, or knows how the fire has ended.
LEMMA DeliveryEnds ==
    ASSUME AInv, NEW f \in Fires, delivery[f] = "listing",
           Abandon(f) \/ \E end \in Completed : Complete(f, end)
    PROVE  AInv'
<1>1. Shape
  BY DEF AInv
<1>2. /\ server' = server /\ batch' = batch /\ timer' = timer /\ flushing' = flushing /\ runs' = runs
  BY DEF Abandon, Complete, queue
<1>3. server' = [server EXCEPT ![f] = server[f]] /\ server[f] \in {"pending", "gone"} \cup Completed
  BY <1>1, <1>2 DEF Shape
<1>4. CASE Abandon(f)
  <2>1. states' = [states EXCEPT ![f] = "absent"] /\ delivery' = [delivery EXCEPT ![f] = "none"]
    BY <1>4 DEF Abandon
  <2>2. delivery'[f] # "firing"
    BY <1>1, <2>1 DEF Shape
  <2> QED
    BY <1>2, <1>3, <2>1, <2>2, FireEffect
<1>5. ASSUME NEW end \in Completed, Complete(f, end) PROVE AInv'
  <2>1. states' = [states EXCEPT ![f] = end] /\ delivery' = [delivery EXCEPT ![f] = "reporting"]
    BY <1>5 DEF Complete
  <2>2. delivery'[f] # "firing"
    BY <1>1, <2>1 DEF Shape
  <2>3. end # "reported"
    BY DEF Completed
  <2> QED
    BY <1>2, <1>3, <2>1, <2>2, <2>3, FireEffect
<1> QED
  BY <1>4, <1>5

\* A report of a delivery arrives or is lost.
LEMMA ReportSteps ==
    ASSUME AInv, NEW f \in Fires, ReportAnswered(f) \/ ReportLost(f)
    PROVE  AInv'
<1>1. Shape /\ ReportSound
  BY DEF AInv
<1>2. /\ delivery[f] = "reporting" /\ delivery' = [delivery EXCEPT ![f] = "none"]
      /\ batch' = batch /\ timer' = timer /\ flushing' = flushing /\ runs' = runs
  BY DEF ReportAnswered, ReportLost, queue
<1>3. (states[f] \in Completed \/ server[f] # "pending") /\ delivery'[f] # "firing"
  BY <1>1, <1>2 DEF ReportSound, Shape
<1>4. /\ states = [states EXCEPT ![f] = states[f]] /\ server = [server EXCEPT ![f] = server[f]]
      /\ states[f] \in {"absent", "running", "reported"} \cup Completed
      /\ server[f] \in {"pending", "gone"} \cup Completed
      /\ states[f] = "reported" => server[f] # "pending"
  BY <1>1 DEF Shape, ReportSound
<1>5. CASE Served(f)
  <2>1. PICK sv \in {"gone"} \cup Completed : server' = [server EXCEPT ![f] = sv]
    BY <1>3, <1>5, ServedEffect
  <2>2. sv # "pending"
    BY DEF Completed
  <2>3. states' = [states EXCEPT ![f] = "reported"] \/ states' = [states EXCEPT ![f] = states[f]]
    BY <1>4 DEF ReportAnswered, ReportLost
  <2> QED
    BY <1>2, <1>3, <1>4, <2>1, <2>2, <2>3, FireEffect
<1>6. CASE server' = server /\ states' = states
  BY <1>2, <1>3, <1>4, <1>6, FireEffect
<1> QED
  BY <1>5, <1>6 DEF ReportAnswered, ReportLost

\* A call of fireAutomation that begins holds what it was given, which nothing held.
LEMMA NewRunHolds ==
    ASSUME AInv, NEW r \in [fires : Seq(Items \cup ScheduleFires), stage : Stages],
           r.stage = "waiting", runs' = runs \cup {r}, OnceIn(batch'),
           \A f \in Fires : f \in FiresOf(r) => \A q \in runs : ~Holds(q, f),
           \A f \in Fires : f \in FiresOf(r) => ~InList(batch', f),
           \A f \in Fires : InList(batch', f) => InList(batch, f),
           \A f \in Fires : (delivery'[f] = "firing") <=> (InList(batch', f) \/ f \in FiresOf(r) \/ \E q \in runs : Holds(q, f))
    PROVE  HoldSound'
<1>1. HoldSound
  BY DEF AInv
<1>2. \A f \in Fires : Holds(r, f) <=> f \in FiresOf(r)
  BY DEF Holds
<1>3. \A q \in runs', f \in Fires : Holds(q, f) => (q \in runs /\ Holds(q, f)) \/ (q = r /\ f \in FiresOf(r))
  BY <1>2
<1>4. \A q, p \in runs', f \in Fires : Holds(q, f) /\ Holds(p, f) => q = p
  BY <1>1, <1>3 DEF HoldSound
<1>5. \A q \in runs', f \in Fires : Holds(q, f) => ~InList(batch', f)
  BY <1>1, <1>3 DEF HoldSound
<1>6. \A f \in Fires : (\E q \in runs' : Holds(q, f)) <=> (f \in FiresOf(r) \/ \E q \in runs : Holds(q, f))
  BY <1>2, <1>3
<1>7. \A f \in Fires : delivery'[f] = "firing" <=> InList(batch', f) \/ \E q \in runs' : Holds(q, f)
  BY <1>6
<1> QED
  BY <1>4, <1>5, <1>7, Zenon DEF HoldSound

LEMMA DeliveryOfScheduleStep ==
    ASSUME AInv, NEW f \in Fires, DeliveryOfSchedule(f)
    PROVE  AInv'
<1> DEFINE r == [fires |-> <<f>>, stage |-> "waiting"]
<1>1. Shape /\ ReportSound /\ QueueSound /\ HoldSound
  BY DEF AInv
<1>2. /\ f \in ScheduleFires /\ delivery[f] = "listing"
      /\ runs' = runs \cup {r} /\ delivery' = [delivery EXCEPT ![f] = "firing"]
      /\ server' = server /\ states' = states /\ batch' = batch /\ timer' = timer /\ flushing' = flushing
  BY DEF DeliveryOfSchedule, queue
<1>3. r \in [fires : Seq(Items \cup ScheduleFires), stage : Stages] /\ r.stage = "waiting"
  BY <1>2 DEF Stages
<1>4. \A g \in Fires : g \in FiresOf(r) <=> g = f
  BY DEF FiresOf, Elements
<1> HIDE DEF r
<1>5. Shape'
  BY <1>1, <1>2, <1>3 DEF Shape
<1>6. ReportSound'
  BY <1>1, <1>2 DEF ReportSound, Shape
<1>7. QueueSound'
  BY <1>1, <1>2 DEF QueueSound, BatchMoves
<1>8. ~InList(batch, f) /\ \A q \in runs : ~Holds(q, f)
  BY <1>1, <1>2 DEF HoldSound
<1>9. \A g \in Fires : delivery'[g] = "firing" <=> g = f \/ delivery[g] = "firing"
  BY <1>1, <1>2 DEF Shape
<1>10. \A g \in Fires : delivery[g] = "firing" <=> InList(batch, g) \/ \E q \in runs : Holds(q, g)
  BY <1>1 DEF HoldSound
<1>11. HoldSound'
  <2>1. OnceIn(batch')
    BY <1>1, <1>2 DEF HoldSound
  <2>2. /\ \A g \in Fires : g \in FiresOf(r) => \A q \in runs : ~Holds(q, g)
        /\ \A g \in Fires : g \in FiresOf(r) => ~InList(batch', g)
    BY <1>2, <1>4, <1>8
  <2>3. \A g \in Fires : InList(batch', g) => InList(batch, g)
    BY <1>2
  <2>4. \A g \in Fires : (delivery'[g] = "firing") <=> (InList(batch', g) \/ g \in FiresOf(r) \/ \E q \in runs : Holds(q, g))
    BY <1>2, <1>4, <1>9, <1>10
  <2> QED
    BY <1>2, <1>3, <2>1, <2>2, <2>3, <2>4, NewRunHolds
<1> QED
  BY <1>5, <1>6, <1>7, <1>11 DEF AInv

LEMMA FlushStep ==
    ASSUME AInv, Flush
    PROVE  AInv'
<1> USE FiresAssumption
<1> DEFINE n == IF Len(batch) < MAX_EVENTS_IN_AUTOMATION_WAKE THEN Len(batch) ELSE MAX_EVENTS_IN_AUTOMATION_WAKE
           r == [fires |-> Oldest(batch, n), stage |-> "waiting"]
<1>1. Shape /\ ReportSound /\ QueueSound /\ HoldSound
  BY DEF AInv
<1>2. /\ timer /\ runs' = runs \cup {r} /\ batch' = Others(batch, n) /\ timer' = FALSE /\ flushing' = TRUE
      /\ server' = server /\ states' = states /\ delivery' = delivery
  BY DEF Flush, Oldest, Others
<1>3. batch \in Seq(Items) /\ batch # <<>> /\ Len(batch) \in Nat \ {0} /\ batch[1] \in Items
  BY <1>1, <1>2 DEF Shape, QueueSound
<1>4. n \in 0..Len(batch) /\ n > 0
  BY <1>3
<1> HIDE DEF n
<1>5. /\ Oldest(batch, n) \in Seq(Items) /\ batch' \in Seq(Items) /\ Oldest(batch, n)[1] = batch[1]
      /\ Len(Oldest(batch, n)) = n
      /\ \A f : InList(batch, f) <=> InList(Oldest(batch, n), f) \/ InList(batch', f)
      /\ OnceIn(batch) => OnceIn(batch') /\ \A f \in Fires : ~(InList(Oldest(batch, n), f) /\ InList(batch', f))
  <2>1. /\ Oldest(batch, n) \in Seq(Items) /\ Others(batch, n) \in Seq(Items)
        /\ Len(Oldest(batch, n)) = n
        /\ n > 0 => Oldest(batch, n)[1] = batch[1]
        /\ \A f : InList(batch, f) <=> InList(Oldest(batch, n), f) \/ InList(Others(batch, n), f)
        /\ OnceIn(batch) => /\ OnceIn(Others(batch, n))
                           /\ \A f \in Fires : ~(InList(Oldest(batch, n), f) /\ InList(Others(batch, n), f))
    <3>1. batch \in Seq(Items) /\ n \in 0..Len(batch)
      BY <1>3, <1>4
    <3> HIDE DEF r
    <3> QED
      BY <3>1, SplitList, SMTT(20)
  <2>2. batch' = Others(batch, n)
    BY <1>2
  <2> QED
    BY <1>4, <2>1, <2>2, Zenon
<1>6. r \in [fires : Seq(Items \cup ScheduleFires), stage : Stages] /\ r.stage = "waiting"
  <2>1. Oldest(batch, n) \in Seq(Items \cup ScheduleFires)
    BY <1>5
  <2> QED
    BY <2>1 DEF Stages
<1>7. ~IsSchedule(r)
  <2>1. batch[1] \notin ScheduleFires
    BY <1>3 DEF Items, Fires
  <2> QED
    BY <1>5, <2>1 DEF IsSchedule
<1>8. \A f \in Fires : f \in FiresOf(r) <=> InList(Oldest(batch, n), f)
  BY DEF FiresOf, Elements, InList
<1> HIDE DEF r
<1>9. Shape'
  BY <1>1, <1>2, <1>5, <1>6 DEF Shape
<1>10. ReportSound'
  BY <1>1, <1>2 DEF ReportSound
<1>11. QueueSound'
  BY <1>2, <1>6, <1>7 DEF QueueSound, BatchMoves
<1>12. \A f \in Fires : delivery[f] = "firing" <=> InList(batch, f) \/ \E q \in runs : Holds(q, f)
  BY <1>1 DEF HoldSound
<1>13. HoldSound'
  <2>1. OnceIn(batch') /\ \A f \in Fires : f \in FiresOf(r) => ~InList(batch', f)
    BY <1>1, <1>5, <1>8 DEF HoldSound
  <2>2. \A f \in Fires : f \in FiresOf(r) => \A q \in runs : ~Holds(q, f)
    BY <1>1, <1>5, <1>8 DEF HoldSound
  <2>3. \A f \in Fires : InList(batch', f) => InList(batch, f)
    BY <1>5
  <2>4. \A f \in Fires : (delivery'[f] = "firing") <=> (InList(batch', f) \/ f \in FiresOf(r) \/ \E q \in runs : Holds(q, f))
    BY <1>2, <1>5, <1>8, <1>12
  <2> QED
    BY <1>2, <1>6, <2>1, <2>2, <2>3, <2>4, NewRunHolds
<1> QED
  BY <1>9, <1>10, <1>11, <1>13 DEF AInv

LEMMA RunSteps ==
    ASSUME AInv, NEW r \in runs, Running(r) \/ RunDropped(r) \/ RunEscaped(r)
    PROVE  AInv'
<1>1. Shape /\ ReportSound /\ QueueSound /\ HoldSound
  BY DEF AInv
<1>2. CASE RunStarts(r)
  <2>1. /\ r.stage = "waiting" /\ runs' = (runs \ {r}) \cup {[r EXCEPT !.stage = "active"]}
        /\ server' = server /\ states' = states /\ delivery' = delivery
        /\ batch' = batch /\ timer' = timer /\ flushing' = flushing
    BY <1>2 DEF RunStarts, queue
  <2>2. "active" \in Occupying /\ r.stage # "abandoned"
    BY <2>1 DEF Occupying
  <2> QED
    BY <2>1, <2>2, RestageEffect
<1>3. ASSUME NEW status \in {"ok", "error"}, RunEnds(r, status) PROVE AInv'
  <2>1. /\ r.stage \in {"active", "abandoned"}
        /\ runs' = (runs \ {r}) \cup (IF r.stage = "active" THEN {[r EXCEPT !.stage = status]} ELSE {})
        /\ server' = server /\ states' = states /\ delivery' = delivery
        /\ batch' = batch /\ timer' = timer /\ flushing' = flushing
    BY <1>3 DEF RunEnds, queue
  <2>2. CASE r.stage = "active"
    <3>1. runs' = (runs \ {r}) \cup {[r EXCEPT !.stage = status]}
      BY <2>1, <2>2
    <3>2. status \in Occupying /\ r.stage # "abandoned"
      BY <2>2 DEF Occupying
    <3> QED
      BY <2>1, <3>1, <3>2, RestageEffect
  \* A run that was given up holds nothing.
  <2>3. CASE r.stage = "abandoned"
    <3>1. runs' = runs \ {r}
      BY <2>1, <2>3
    <3>2. \A f \in Fires : ~Holds(r, f)
      BY <2>3 DEF Holds
    <3>3. Shape' /\ ReportSound'
      BY <1>1, <2>1, <3>1 DEF Shape, ReportSound
    <3>4. QueueSound'
      BY <1>1, <2>1, <2>3, <3>1 DEF QueueSound, BatchMoves
    <3>5. HoldSound'
      <4>1. \A f \in Fires : (\E q \in runs' : Holds(q, f)) <=> (\E q \in runs : Holds(q, f))
        BY <3>1, <3>2
      <4>2. /\ OnceIn(batch)
            /\ \A q, p \in runs', f \in Fires : Holds(q, f) /\ Holds(p, f) => q = p
            /\ \A q \in runs', f \in Fires : Holds(q, f) => ~InList(batch, f)
        BY <1>1, <3>1 DEF HoldSound
      <4>3. \A f \in Fires : delivery[f] = "firing" <=> InList(batch, f) \/ \E q \in runs' : Holds(q, f)
        BY <1>1, <4>1 DEF HoldSound
      <4> QED
        BY <2>1, <4>2, <4>3, Zenon DEF HoldSound
    <3> QED
      BY <3>3, <3>4, <3>5 DEF AInv
  <2> QED
    BY <2>1, <2>2, <2>3
<1>4. CASE RunReturns(r)
  <2>1. /\ r.stage \in {"ok", "error"} /\ runs' = runs \ {r} /\ server' = server
        /\ Settle(r, IF r.stage = "ok" THEN "succeeded" ELSE "failed")
    BY <1>4 DEF RunReturns
  <2>2. (IF r.stage = "ok" THEN "succeeded" ELSE "failed") \in {"absent"} \cup Completed
    BY DEF Completed
  <2>3. r.stage # "abandoned"
    BY <2>1
  <2> QED
    BY <2>1, <2>2, <2>3, SettleEffect
<1>5. CASE RunDropped(r)
  <2>1. r.stage = "waiting" /\ runs' = runs \ {r} /\ server' = server /\ Settle(r, "absent")
    BY <1>5 DEF RunDropped
  <2> QED
    BY <2>1, SettleEffect
<1>6. CASE RunEscaped(r)
  <2>1. /\ r.stage # "abandoned" /\ server' = server /\ Settle(r, "failed")
        /\ runs' = runs \ {r} \/ runs' = (runs \ {r}) \cup {[r EXCEPT !.stage = "abandoned"]}
    BY <1>6 DEF RunEscaped, Occupying
  <2>2. "failed" \in {"absent"} \cup Completed
    BY DEF Completed
  <2> QED
    BY <2>1, <2>2, SettleEffect
<1> QED
  BY <1>2, <1>3, <1>4, <1>5, <1>6 DEF Running

LEMMA FiresInit == Init => AInv
<1> SUFFICES ASSUME Init PROVE AInv
  OBVIOUS
<1>1. Shape
  <2>1. <<>> \in Seq(Items)
    OBVIOUS
  <2> QED
    BY <2>1 DEF Init, Shape, Completed
<1>2. ReportSound /\ QueueSound
  BY DEF Init, ReportSound, QueueSound, BatchMoves
<1>3. HoldSound
  BY DEF Init, HoldSound, OnceIn, InList
<1> QED
  BY <1>1, <1>2, <1>3 DEF AInv

LEMMA CrashStep ==
    ASSUME AInv, Crash
    PROVE  AInv'
<1>1. /\ states' = [f \in Fires |-> "absent"] /\ delivery' = [f \in Fires |-> "none"] /\ server' = server
      /\ batch' = <<>> /\ timer' = FALSE /\ flushing' = FALSE /\ runs' = {}
  BY DEF Crash
<1>2. Shape'
  <2>1. <<>> \in Seq(Items)
    OBVIOUS
  <2> QED
    BY <1>1, <2>1 DEF AInv, Shape
<1>3. ReportSound' /\ QueueSound'
  BY <1>1 DEF ReportSound, QueueSound, BatchMoves
<1>4. HoldSound'
  BY <1>1 DEF HoldSound, OnceIn, InList
<1> QED
  BY <1>2, <1>3, <1>4 DEF AInv

LEMMA FiresStep == AInv /\ [Next]_vars => AInv'
<1> SUFFICES ASSUME AInv, [Next]_vars PROVE AInv'
  OBVIOUS
<1> USE FiresAssumption
<1>1. CASE PollServed \/ PollFailed \/ PollReceived \/ TickDone
  BY <1>1, PollSteps
<1>2. ASSUME NEW f \in Fires, TickReports(f) PROVE AInv'
  BY <1>2, TickReportsStep
<1>3. ASSUME NEW f \in Fires,
             \/ DeliveryStopped(f) \/ DeliveryFailed(f) \/ DeliveryWhileInFlight(f)
             \/ DeliveryOfKnown(f) \/ DeliveryRejected(f)
      PROVE  AInv'
  <2>1. delivery[f] = "listing" /\ (Abandon(f) \/ \E end \in Completed : Complete(f, end))
    BY <1>3 DEF DeliveryStopped, DeliveryFailed, DeliveryWhileInFlight, DeliveryOfKnown, DeliveryRejected, Completed
  <2> QED
    BY <2>1, DeliveryEnds
<1>4. ASSUME NEW f \in Fires, ReportAnswered(f) \/ ReportLost(f) PROVE AInv'
  BY <1>4, ReportSteps
<1>5. ASSUME NEW f \in Fires, DeliveryOfSchedule(f) PROVE AInv'
  BY <1>5, DeliveryOfScheduleStep
<1>6. ASSUME NEW f \in Fires, DeliveryOfEvent(f) PROVE AInv'
  <2>1. f \in Items /\ delivery[f] = "listing" /\ Enqueue(f) /\ server' = server /\ runs' = runs
    BY <1>6 DEF DeliveryOfEvent, Items
  <2> QED
    BY <2>1, EnqueueEffect
<1>7. ASSUME NEW x \in LocalEvents, LocalEvent(x) PROVE AInv'
  <2>1. x \in Items /\ x \notin Fires /\ Enqueue(x) /\ server' = server /\ runs' = runs
    BY <1>7 DEF LocalEvent, Items
  <2> QED
    BY <2>1, EnqueueEffect
<1>8. CASE Flush
  BY <1>8, FlushStep
<1>9. ASSUME NEW r \in runs, Running(r) \/ RunDropped(r) \/ RunEscaped(r) PROVE AInv'
  BY <1>9, RunSteps
<1>10. CASE Crash
  BY <1>10, CrashStep
<1>11. CASE Stop \/ Start \/ UNCHANGED vars
  <2>1. /\ server' = server /\ states' = states /\ delivery' = delivery /\ runs' = runs
        /\ batch' = batch /\ timer' = timer /\ flushing' = flushing
    BY <1>11 DEF Stop, Start, vars, queue
  <2>2. Shape' /\ ReportSound'
    BY <2>1 DEF AInv, Shape, ReportSound
  <2>3. QueueSound' /\ HoldSound'
    BY <2>1, QueueQuiet
  <2> QED
    BY <2>2, <2>3 DEF AInv
<1> QED
  BY <1>1, <1>2, <1>3, <1>4, <1>5, <1>6, <1>7, <1>8, <1>9, <1>10, <1>11 DEF Next, Delivering

LEMMA FiresInvariance == Spec => []AInv
BY FiresInit, FiresStep, PTL DEF Spec

-------------------------------------------------------------------------------
(* Theorems *)

\* The consumer takes a fire for reported only when the server knows its end.
THEOREM ReportsAreKnown == Spec => []ReportedIsKnown
<1>1. AInv => ReportedIsKnown
  BY DEF AInv, Shape, ReportSound, ReportedIsKnown
<1> QED
  BY <1>1, FiresInvariance, PTL

\* A set with at most one element has the size one or zero.
LEMMA AtMostOne ==
    ASSUME NEW S, \A x, y \in S : x = y
    PROVE  Cardinality(S) = IF S = {} THEN 0 ELSE 1
<1>1. CASE S = {}
  BY <1>1, FS_EmptySet
<1>2. CASE S # {}
  <2>1. PICK x : x \in S
    BY <1>2
  <2>2. S = {x}
    BY <2>1
  <2> QED
    BY <1>2, <2>2, FS_Singleton
<1> QED
  BY <1>1, <1>2

\* A delivery that awaits an outcome is held in exactly one place, and nothing is
\* held that nobody awaits.
THEOREM EveryFireIsHeldOnce == Spec => []HeldOnce
<1>1. AInv => HeldOnce
  <2> SUFFICES ASSUME AInv, NEW f \in Fires
               PROVE  Places(f) = IF delivery[f] = "firing" THEN 1 ELSE 0
    BY DEF HeldOnce
  <2> DEFINE inBatch == {i \in DOMAIN batch : batch[i] = f}
             inRuns == {r \in runs : f \in FiresOf(r) /\ r.stage # "abandoned"}
  <2>1. HoldSound
    BY DEF AInv
  <2>2. inBatch # {} <=> InList(batch, f)
    BY DEF InList
  <2>3. inRuns # {} <=> \E r \in runs : Holds(r, f)
    BY DEF Holds
  <2>4. \A i, j \in inBatch : i = j
    BY <2>1 DEF HoldSound, OnceIn
  <2>5. \A r, q \in inRuns : r = q
    BY <2>1 DEF HoldSound, Holds
  <2>6. inBatch = {} \/ inRuns = {}
    BY <2>1, <2>2, <2>3 DEF HoldSound
  <2>7. delivery[f] = "firing" <=> inBatch # {} \/ inRuns # {}
    BY <2>1, <2>2, <2>3 DEF HoldSound
  <2>8. Places(f) = Cardinality(inBatch) + Cardinality(inRuns)
    BY DEF Places
  <2> HIDE DEF inBatch, inRuns
  <2>9. /\ Cardinality(inBatch) = (IF inBatch = {} THEN 0 ELSE 1)
        /\ Cardinality(inRuns) = (IF inRuns = {} THEN 0 ELSE 1)
    BY <2>4, <2>5, AtMostOne
  <2> QED
    BY <2>6, <2>7, <2>8, <2>9
<1> QED
  BY <1>1, FiresInvariance, PTL

\* Each delivery is in one place, and a batch with items has a timer or a flush under
\* way.
THEOREM DeliveriesStayHeld == Spec => []DeliveriesHeld
<1>1. AInv /\ HeldOnce => DeliveriesHeld
  BY DEF AInv, QueueSound, DeliveriesHeld
<1> QED
  BY <1>1, FiresInvariance, EveryFireIsHeldOnce, PTL

-------------------------------------------------------------------------------
(* Records and runs *)

LEMMA LeastIndex ==
    ASSUME NEW S \in SUBSET Nat, S # {}
    PROVE  \E i \in S : \A j \in S : i <= j
<1> DEFINE R == OpToRel(<, Nat)
<1>1. \A x, y \in Nat : x < y => <<x, y>> \in R
  BY DEF OpToRel
<1>2. IsWellFoundedOn(R, Nat)
  BY NatLessThanWellFounded
<1> HIDE DEF R
<1>3. PICK i \in S : \A j \in S : ~ (<<j, i>> \in R)
  BY <1>2, WFMin
<1>4. ASSUME NEW j \in S PROVE i <= j
  <2>1. i \in Nat /\ j \in Nat
    OBVIOUS
  <2>2. ~(j < i)
    BY <1>1, <1>3, <2>1, Zenon
  <2> QED
    BY <2>1, <2>2
<1> QED
  BY <1>4

Records == [id : Fires \cup LocalEvents, also : SUBSET Fires, status : {"running", "ok", "error"}]
Calls == [fires : Seq(Items \cup ScheduleFires), stage : Stages]

\* What a call runs does not change with its stage, and its record is named by one
\* of its fires if it has any.
LEMMA CallOf ==
    ASSUME NEW r \in Calls, r.fires # <<>>
    PROVE  /\ FiresOf(r) \subseteq Fires
           /\ RunId(r) \in Fires \cup LocalEvents
           /\ RunId(r) \in Fires => RunId(r) \in FiresOf(r)
           /\ RunId(r) \notin Fires => FiresOf(r) = {}
<1> USE FiresAssumption
<1>1. /\ r.fires \in Seq(Items \cup ScheduleFires) /\ Len(r.fires) \in Nat \ {0}
      /\ DOMAIN r.fires = 1..Len(r.fires)
      /\ \A i \in DOMAIN r.fires : r.fires[i] \in Fires \cup LocalEvents
  BY DEF Calls, Items, Fires
<1>2. \A f : f \in FiresOf(r) <=> f \in Fires /\ \E i \in DOMAIN r.fires : r.fires[i] = f
  BY DEF FiresOf, Elements
<1>3. CASE FiresOf(r) = {}
  <2>1. RunId(r) = r.fires[1] /\ 1 \in DOMAIN r.fires
    BY <1>1, <1>3 DEF RunId
  <2>2. r.fires[1] \notin Fires
    BY <1>2, <1>3, <2>1
  <2> QED
    BY <1>1, <1>3, <2>1, <2>2
<1>4. CASE FiresOf(r) # {}
  <2> DEFINE Good(i) == r.fires[i] \in Fires /\ \A j \in 1..(i - 1) : r.fires[j] \notin Fires
             S == {i \in DOMAIN r.fires : r.fires[i] \in Fires}
  <2>1. S \in SUBSET Nat /\ S # {}
    BY <1>1, <1>2, <1>4
  <2>2. PICK i \in S : \A j \in S : i <= j
    <3> HIDE DEF S
    <3> QED
      BY <2>1, LeastIndex
  <2>3. i \in DOMAIN r.fires /\ Good(i)
    BY <1>1, <2>2
  <2>4. RunId(r) = r.fires[CHOOSE k \in DOMAIN r.fires : Good(k)]
    BY <1>4 DEF RunId
  <2> HIDE DEF Good
  <2>5. (CHOOSE k \in DOMAIN r.fires : Good(k)) \in DOMAIN r.fires /\ Good(CHOOSE k \in DOMAIN r.fires : Good(k))
    BY <2>3, Zenon
  <2>6. \E k \in DOMAIN r.fires : RunId(r) = r.fires[k] /\ r.fires[k] \in Fires
    BY <2>4, <2>5 DEF Good
  <2> QED
    BY <1>2, <2>6
<1> QED
  BY <1>2, <1>3, <1>4

LEMMA Restaged ==
    ASSUME NEW r \in Calls, NEW stage \in Stages
    PROVE  /\ [r EXCEPT !.stage = stage] \in Calls
           /\ [r EXCEPT !.stage = stage].stage = stage
           /\ [r EXCEPT !.stage = stage].fires = r.fires
           /\ FiresOf([r EXCEPT !.stage = stage]) = FiresOf(r)
           /\ RunId([r EXCEPT !.stage = stage]) = RunId(r)
<1> DEFINE next == [r EXCEPT !.stage = stage]
<1>1. next \in Calls /\ next.stage = stage /\ next.fires = r.fires
  BY DEF Calls
<1> HIDE DEF next
<1>2. FiresOf(next) = FiresOf(r)
  BY <1>1 DEF FiresOf
<1>3. RunId(next) = RunId(r)
  BY <1>1, <1>2 DEF RunId
<1> QED
  BY <1>1, <1>2, <1>3 DEF next

\* The records that begin with a new one, and are cut.
LEMMA RecordsWithNew ==
    ASSUME NEW recs \in Seq(Records), NEW rec \in Records
    PROVE  LET all == <<rec>> \o recs
               kept == Newest(all)
           IN  /\ kept \in Seq(Records) /\ Len(kept) \in 1..(Len(recs) + 1)
               /\ Len(kept) <= AUTOMATION_MAX_RUN_HISTORY
               /\ kept[1] = rec /\ \A i \in 2..Len(kept) : kept[i] = recs[i - 1]
               /\ rec \in Elements(all) /\ \A i \in DOMAIN recs : recs[i] \in Elements(all)
<1> USE FiresAssumption
<1> DEFINE all == <<rec>> \o recs
           n == Len(all)
           cap == AUTOMATION_MAX_RUN_HISTORY
           kept == Newest(all)
<1>1. <<rec>> \in Seq(Records) /\ Len(<<rec>>) = 1 /\ <<rec>>[1] = rec
  OBVIOUS
<1>2. /\ all \in Seq(Records) /\ Len(all) = Len(recs) + 1
      /\ \A i \in 1..(Len(recs) + 1) : all[i] = IF i <= 1 THEN <<rec>>[i] ELSE recs[i - 1]
  BY <1>1, ConcatProperties
<1>3. Len(recs) \in Nat /\ DOMAIN recs = 1..Len(recs) /\ DOMAIN all = 1..(Len(recs) + 1)
  BY <1>2
<1> HIDE DEF all
<1>4. all[1] = rec /\ \A i \in 2..(Len(recs) + 1) : all[i] = recs[i - 1]
  BY <1>1, <1>2, <1>3
<1>5. rec \in Elements(all) /\ \A i \in DOMAIN recs : recs[i] \in Elements(all)
  <2>1. 1 \in DOMAIN all
    BY <1>3
  <2>2. ASSUME NEW i \in DOMAIN recs PROVE i + 1 \in DOMAIN all /\ all[i + 1] = recs[i]
    BY <1>3, <1>4
  <2> QED
    BY <1>4, <2>1, <2>2 DEF Elements
<1> DEFINE Cut(k) == /\ k \in Seq(Records) /\ Len(k) \in 1..(Len(recs) + 1) /\ Len(k) <= cap
                     /\ k[1] = rec /\ \A i \in 2..Len(k) : k[i] = recs[i - 1]
<1>6. ASSUME Len(all) <= cap PROVE Cut(kept)
  <2>1. kept = all
    BY <1>6 DEF Newest
  <2>2. Cut(all)
    BY <1>2, <1>3, <1>4, <1>6
  <2> QED
    BY <2>1, <2>2
<1>7. ASSUME ~(Len(all) <= cap) PROVE Cut(kept)
  <2> DEFINE cut == SubSeq(all, 1, cap)
  <2>1. kept = cut
    BY <1>7 DEF Newest
  <2>2. cap \in 1..Len(all) /\ \A i \in 1..cap : all[i] \in Records
    BY <1>2, <1>3, <1>7
  <2>3. /\ cut \in Seq(Records)
        /\ Len(cut) = IF 1 <= cap THEN cap - 1 + 1 ELSE 0
        /\ \A i \in 1..(cap - 1 + 1) : cut[i] = all[1 + i - 1]
    BY <1>2, <2>2, SubSeqProperties
  <2> HIDE DEF cut
  <2>4. Len(cut) = cap /\ \A i \in 1..cap : cut[i] = all[i]
    BY <2>2, <2>3
  <2>5. cap \in Nat \ {0} /\ cap \in 1..(Len(recs) + 1)
    BY <1>2, <1>3, <2>2
  <2>6. \A i \in 2..cap : cut[i] = recs[i - 1]
    BY <1>3, <1>4, <2>4, <2>5
  <2>7. cut[1] = rec
    BY <1>4, <2>4, <2>5
  <2>8. Cut(cut)
    BY <2>3, <2>4, <2>5, <2>6, <2>7
  <2> QED
    BY <2>1, <2>8
<1>8. Cut(kept)
  BY <1>6, <1>7
<1> QED
  BY <1>5, <1>8 DEF all

-------------------------------------------------------------------------------
(* Looking a fire up *)

NamingIn(recs, f) == {i \in DOMAIN recs : f \in Names(recs[i])}
LookedUpIn(recs, f) == recs[CHOOSE i \in NamingIn(recs, f) : \A j \in NamingIn(recs, f) : i <= j]

LEMMA Lookups ==
    ASSUME NEW f
    PROVE  /\ Naming(f) = NamingIn(records, f) /\ Found(f) = LookedUpIn(records, f)
           /\ Naming(f)' = NamingIn(records', f) /\ Found(f)' = LookedUpIn(records', f)
BY DEF Naming, NamingIn, Found, LookedUpIn

\* The record found is the first that names the fire.
LEMMA LookupAt ==
    ASSUME NEW recs \in Seq(Records), NEW f, NEW i \in NamingIn(recs, f),
           \A j \in NamingIn(recs, f) : i <= j
    PROVE  LookedUpIn(recs, f) = recs[i]
<1>1. \A j \in NamingIn(recs, f) : j \in Nat
  BY DEF NamingIn
<1>2. \A k \in NamingIn(recs, f) : (\A j \in NamingIn(recs, f) : k <= j) => k = i
  BY <1>1
<1>3. (CHOOSE k \in NamingIn(recs, f) : \A j \in NamingIn(recs, f) : k <= j) = i
  BY <1>2, Zenon
<1> QED
  BY <1>3 DEF LookedUpIn

LEMMA LookupExists ==
    ASSUME NEW recs \in Seq(Records), NEW f, NamingIn(recs, f) # {}
    PROVE  \E i \in NamingIn(recs, f) : /\ \A j \in NamingIn(recs, f) : i <= j
                                        /\ LookedUpIn(recs, f) = recs[i]
<1>1. NamingIn(recs, f) \in SUBSET Nat
  BY DEF NamingIn
<1>2. PICK i \in NamingIn(recs, f) : \A j \in NamingIn(recs, f) : i <= j
  BY <1>1, LeastIndex
<1> QED
  BY <1>2, LookupAt

\* A new record is found for what it names; the others find what they found, or nothing.
LEMMA LookupWithNew ==
    ASSUME NEW recs \in Seq(Records), NEW new \in Seq(Records), NEW f,
           Len(new) \in 1..(Len(recs) + 1), \A i \in 2..Len(new) : new[i] = recs[i - 1]
    PROVE  /\ f \in Names(new[1]) => NamingIn(new, f) # {} /\ LookedUpIn(new, f) = new[1]
           /\ f \notin Names(new[1]) /\ NamingIn(new, f) # {} =>
                  NamingIn(recs, f) # {} /\ LookedUpIn(new, f) = LookedUpIn(recs, f)
<1>1. /\ Len(new) \in Nat \ {0} /\ DOMAIN new = 1..Len(new)
      /\ Len(recs) \in Nat /\ DOMAIN recs = 1..Len(recs)
  OBVIOUS
<1>2. ASSUME f \in Names(new[1]) PROVE NamingIn(new, f) # {} /\ LookedUpIn(new, f) = new[1]
  <2>1. 1 \in NamingIn(new, f) /\ \A j \in NamingIn(new, f) : 1 <= j
    BY <1>1, <1>2 DEF NamingIn
  <2> QED
    BY <2>1, LookupAt
<1>3. ASSUME f \notin Names(new[1]), NamingIn(new, f) # {}
      PROVE  NamingIn(recs, f) # {} /\ LookedUpIn(new, f) = LookedUpIn(recs, f)
  <2>1. PICK i \in NamingIn(new, f) : /\ \A j \in NamingIn(new, f) : i <= j
                                      /\ LookedUpIn(new, f) = new[i]
    BY <1>3, LookupExists
  <2>2. i \in 1..Len(new) /\ i # 1 /\ f \in Names(new[i])
    BY <1>1, <1>3, <2>1 DEF NamingIn
  <2>3. i - 1 \in NamingIn(recs, f) /\ new[i] = recs[i - 1]
    BY <1>1, <2>2 DEF NamingIn
  <2>4. ASSUME NEW j \in NamingIn(recs, f) PROVE i - 1 <= j
    <3>1. j \in 1..Len(recs) /\ f \in Names(recs[j])
      BY <1>1 DEF NamingIn
    <3>2. CASE j + 1 <= Len(new)
      <4>1. j + 1 \in 2..Len(new) /\ (j + 1) - 1 = j
        BY <1>1, <3>1, <3>2
      <4>2. j + 1 \in NamingIn(new, f)
        BY <1>1, <3>1, <4>1 DEF NamingIn
      <4> QED
        BY <1>1, <2>1, <2>2, <3>1, <4>2
    <3>3. CASE ~(j + 1 <= Len(new))
      BY <1>1, <2>2, <3>1, <3>3
    <3> QED
      BY <3>2, <3>3
  <2>5. LookedUpIn(recs, f) = recs[i - 1]
    BY <2>3, <2>4, LookupAt
  <2> QED
    BY <2>1, <2>3, <2>5
<1> QED
  BY <1>2, <1>3

\* Another status of the records does not change which of them are found.
LEMMA LookupFinished ==
    ASSUME NEW recs \in Seq(Records), NEW new \in Seq(Records), NEW f, DOMAIN new = DOMAIN recs,
           \A i \in DOMAIN recs : new[i].id = recs[i].id /\ new[i].also = recs[i].also
    PROVE  /\ NamingIn(new, f) = NamingIn(recs, f)
           /\ NamingIn(recs, f) # {} =>
                  \E i \in DOMAIN recs : LookedUpIn(recs, f) = recs[i] /\ LookedUpIn(new, f) = new[i]
<1>1. NamingIn(new, f) = NamingIn(recs, f)
  BY DEF NamingIn, Names
<1>2. ASSUME NamingIn(recs, f) # {}
      PROVE  \E i \in DOMAIN recs : LookedUpIn(recs, f) = recs[i] /\ LookedUpIn(new, f) = new[i]
  <2>1. PICK i \in NamingIn(recs, f) : /\ \A j \in NamingIn(recs, f) : i <= j
                                       /\ LookedUpIn(recs, f) = recs[i]
    BY <1>2, LookupExists
  <2>2. LookedUpIn(new, f) = new[i]
    BY <1>1, <2>1, LookupAt
  <2> QED
    BY <2>1, <2>2 DEF NamingIn
<1> QED
  BY <1>1, <1>2

-------------------------------------------------------------------------------
(* The second invariant: the other variables, and what the history tells. *)

RecordShape == /\ records \in Seq(Records) /\ Len(records) <= AUTOMATION_MAX_RUN_HISTORY
               /\ finished \subseteq Fires /\ done \subseteq Fires
               /\ misnamed \subseteq Fires /\ forgotten \subseteq Fires \cup LocalEvents

CallShape == \A r \in runs : r.fires # <<>>

OtherShape == /\ tick \in [phase : {"idle", "answered", "reporting"}, fires : SUBSET Fires]
              /\ Len(batch) <= MAX_QUEUED_EVENT_FIRES_PER_AUTOMATION
              /\ stopped \in BOOLEAN /\ locals \subseteq LocalEvents /\ upsets \in 0..MaxUpsets

\* A poll that is answered leaves out only what the server will not return again.
TickSound == tick.phase = "answered" => \A f \in Fires : f \notin tick.fires => server[f] = "gone"

\* The fires of a run that was given up are not delivered again.
Spent(f) == \/ states[f] \in {"failed", "reported"}
            \/ /\ states[f] = "absent" /\ server[f] = "gone"
               /\ tick.phase = "answered" => f \notin tick.fires
SpentSound == \A r \in runs : r.stage = "abandoned" => \A f \in FiresOf(r) : Spent(f)

Apart == \A r, q \in runs, f \in Fires : f \in FiresOf(r) /\ f \in FiresOf(q) => r = q

\* The record of a run that has begun is looked up for its fires, and for no others.
RunsFound == \A r \in runs, f \in Fires :
                r.stage # "waiting" /\ f \notin misnamed =>
                    /\ f \in FiresOf(r) => FoundIn(f, RunId(r)) \/ f \in forgotten
                    /\ FoundIn(f, RunId(r)) => f \in FiresOf(r)

OkIsDone == \A r \in runs : r.stage = "ok" => FiresOf(r) \subseteq done
RecordsTrue == \A f \in Fires : Existing(f) = "ok" => f \in done \cup misnamed
StatesTrue == \A f \in Fires : states[f] = "succeeded" => f \in done \cup misnamed

Excused == misnamed \cup forgotten
FinishedKnown == \A f \in Fires : f \in finished => f \in Excused \/ Known(f)

\* What waits for its run has not been finished.
WaitingFresh == \A f \in Fires : f \in finished =>
                   \/ f \in Excused
                   \/ /\ ~InList(batch, f)
                      /\ \A r \in runs : r.stage = "waiting" => f \notin FiresOf(r)

ShapeInv == RecordShape /\ CallShape /\ OtherShape
HistoryInv == /\ TickSound /\ SpentSound /\ Apart /\ RunsFound
              /\ OkIsDone /\ RecordsTrue /\ StatesTrue /\ FinishedKnown /\ WaitingFresh
              /\ SuccessIsTrue

-------------------------------------------------------------------------------
(* What begins and finishes a record *)

LEMMA FoundHere ==
    ASSUME RecordShape, NEW f, Naming(f) # {}
    PROVE  \E i \in DOMAIN records : Found(f) = records[i]
<1>1. records \in Seq(Records)
  BY DEF RecordShape
<1>2. NamingIn(records, f) # {}
  BY Lookups
<1>3. PICK i \in NamingIn(records, f) : LookedUpIn(records, f) = records[i]
  BY <1>1, <1>2, LookupExists
<1> QED
  BY <1>3, Lookups DEF NamingIn

\* beginRun of a run that has a record already.
LEMMA BeginTaken ==
    ASSUME NEW r, BeginRun(r), \E i \in DOMAIN records : records[i].id = RunId(r)
    PROVE  /\ records' = records /\ forgotten' = forgotten
           /\ misnamed' \subseteq misnamed \cup FiresOf(r) \cup Fires /\ misnamed \subseteq misnamed'
           /\ \A f \in Fires : f \notin misnamed' => (f \in FiresOf(r) <=> FoundIn(f, RunId(r)))
<1> DEFINE looked == {f \in Fires : FoundIn(f, RunId(r))}
<1>1. /\ records' = records /\ forgotten' = forgotten
      /\ misnamed' = misnamed \cup (FiresOf(r) \ looked) \cup (looked \ FiresOf(r))
  BY DEF BeginRun
<1>2. \A f \in Fires : f \in looked <=> FoundIn(f, RunId(r))
  OBVIOUS
<1>3. looked \subseteq Fires
  OBVIOUS
<1> HIDE DEF looked
<1> QED
  BY <1>1, <1>2, <1>3

\* beginRun of another run.
LEMMA BeginNew ==
    ASSUME RecordShape, NEW r \in Calls, r.fires # <<>>, BeginRun(r),
           ~ \E i \in DOMAIN records : records[i].id = RunId(r)
    PROVE  /\ misnamed' = misnamed /\ forgotten \subseteq forgotten'
           /\ records' \in Seq(Records) /\ Len(records') <= AUTOMATION_MAX_RUN_HISTORY
           /\ forgotten' \subseteq Fires \cup LocalEvents
           /\ \A f \in Fires : f \in FiresOf(r) => /\ Naming(f)' # {} /\ Found(f)'.id = RunId(r)
                                                   /\ Found(f)'.status = "running"
           /\ \A f \in Fires : f \notin FiresOf(r) /\ Naming(f)' # {} => Naming(f) # {} /\ Found(f)' = Found(f)
           /\ \A f \in Fires : f \notin FiresOf(r) /\ Naming(f)' = {} /\ Naming(f) # {} => f \in forgotten'
<1> DEFINE rec == [id |-> RunId(r), also |-> FiresOf(r) \ {RunId(r)}, status |-> "running"]
           all == <<rec>> \o records
           kept == Newest(all)
           before == UNION {Names(x) : x \in Elements(all)}
           after == UNION {Names(x) : x \in Elements(kept)}
           same == {i \in DOMAIN records : records[i].id = RunId(r)}
           looked == {f \in Fires : FoundIn(f, RunId(r))}
<1>1. same = {}
  OBVIOUS
<1>2. records' = kept /\ forgotten' = forgotten \cup (before \ after) /\ misnamed' = misnamed
  <2>1. IF same # {}
        THEN /\ misnamed' = misnamed \cup (FiresOf(r) \ looked) \cup (looked \ FiresOf(r))
             /\ UNCHANGED <<records, forgotten>>
        ELSE /\ records' = kept
             /\ forgotten' = forgotten \cup (before \ after)
             /\ UNCHANGED misnamed
    BY DEF BeginRun
  <2> HIDE DEF same, looked, kept, before, after
  <2> QED
    BY <1>1, <2>1
<1> HIDE DEF same, looked
<1>3. /\ FiresOf(r) \subseteq Fires /\ RunId(r) \in Fires \cup LocalEvents
      /\ RunId(r) \in Fires => RunId(r) \in FiresOf(r)
  BY CallOf
<1>4. rec \in Records /\ rec.id = RunId(r) /\ rec.status = "running"
  BY <1>3 DEF Records
<1>5. \A f \in Fires : f \in Names(rec) <=> f \in FiresOf(r)
  BY <1>3 DEF Names
<1>6. records \in Seq(Records)
  BY DEF RecordShape
<1> HIDE DEF rec
<1>7. /\ kept \in Seq(Records) /\ Len(kept) \in 1..(Len(records) + 1)
      /\ Len(kept) <= AUTOMATION_MAX_RUN_HISTORY
      /\ kept[1] = rec /\ \A i \in 2..Len(kept) : kept[i] = records[i - 1]
      /\ rec \in Elements(all) /\ \A i \in DOMAIN records : records[i] \in Elements(all)
  BY <1>4, <1>6, RecordsWithNew
<1>8. ASSUME NEW f
      PROVE  /\ f \in Names(rec) => NamingIn(kept, f) # {} /\ LookedUpIn(kept, f) = rec
             /\ f \notin Names(rec) /\ NamingIn(kept, f) # {} =>
                    NamingIn(records, f) # {} /\ LookedUpIn(kept, f) = LookedUpIn(records, f)
  <2> HIDE DEF kept
  <2> QED
    BY <1>6, <1>7, LookupWithNew
<1>9. \A x \in Elements(all) : x \in Records
  <2>1. all \in Seq(Records)
    <3>1. <<rec>> \in Seq(Records)
      BY <1>4
    <3> QED
      BY <1>6, <3>1, ConcatProperties
  <2> HIDE DEF all
  <2> QED
    BY <2>1 DEF Elements
<1>10. before \subseteq Fires \cup LocalEvents
  <2> HIDE DEF all
  <2>1. \A x \in Records : Names(x) \subseteq Fires \cup LocalEvents
    BY DEF Records, Names
  <2> QED
    BY <1>9, <2>1
<1>11. ASSUME NEW f, NamingIn(records, f) # {}, NamingIn(kept, f) = {} PROVE f \in before \ after
  <2> HIDE DEF all, kept
  <2>1. f \in before
    <3>1. PICK i \in DOMAIN records : f \in Names(records[i])
      BY <1>11 DEF NamingIn
    <3>2. records[i] \in Elements(all)
      BY <1>7
    <3> QED
      BY <3>1, <3>2
  <2>2. \A i \in DOMAIN kept : f \notin Names(kept[i])
    BY <1>11 DEF NamingIn
  <2>3. f \notin after
    BY <2>2 DEF Elements
  <2> QED
    BY <2>1, <2>3
<1> HIDE DEF kept, all, before, after
<1>12. \A f : Naming(f)' = NamingIn(kept, f) /\ Found(f)' = LookedUpIn(kept, f)
  BY <1>2, Lookups
<1>13. \A f : Naming(f) = NamingIn(records, f) /\ Found(f) = LookedUpIn(records, f)
  BY Lookups
<1>14. ASSUME NEW f \in Fires, f \in FiresOf(r)
       PROVE  Naming(f)' # {} /\ Found(f)'.id = RunId(r) /\ Found(f)'.status = "running"
  <2>1. NamingIn(kept, f) # {} /\ LookedUpIn(kept, f) = rec
    BY <1>5, <1>8, <1>14
  <2> QED
    BY <1>4, <1>12, <2>1
<1>15. ASSUME NEW f \in Fires, f \notin FiresOf(r)
       PROVE  /\ Naming(f)' # {} => Naming(f) # {} /\ Found(f)' = Found(f)
              /\ Naming(f)' = {} /\ Naming(f) # {} => f \in forgotten'
  BY <1>2, <1>5, <1>8, <1>11, <1>12, <1>13, <1>15
<1>16. forgotten' \subseteq Fires \cup LocalEvents
  BY <1>2, <1>10 DEF RecordShape
<1> QED
  BY <1>2, <1>7, <1>14, <1>15, <1>16

\* finishRun tells the status of the record of the run, for the fires that find it.
LEMMA FinishEffect ==
    ASSUME RecordShape, NEW r \in Calls, NEW status \in {"ok", "error"}, FinishRun(r, status)
    PROVE  /\ records' \in Seq(Records) /\ Len(records') = Len(records)
           /\ finished' = finished \cup FiresOf(r) /\ done \subseteq done' /\ done' \subseteq done \cup FiresOf(r)
           /\ status = "ok" => FiresOf(r) \subseteq done'
           /\ misnamed' = misnamed /\ forgotten' = forgotten
           /\ \A f : /\ Naming(f)' = Naming(f)
                     /\ Naming(f) # {} => /\ Found(f)'.id = Found(f).id
                                          /\ Found(f)'.status = IF Found(f).id = RunId(r) THEN status
                                                                ELSE Found(f).status
<1>1. /\ records' = [j \in DOMAIN records |->
                        IF j \in {k \in DOMAIN records : records[k].id = RunId(r)}
                        THEN [records[j] EXCEPT !.status = status] ELSE records[j]]
      /\ finished' = finished \cup FiresOf(r)
      /\ done' = (IF status = "ok" THEN done \cup FiresOf(r) ELSE done)
      /\ misnamed' = misnamed /\ forgotten' = forgotten
  BY DEF FinishRun
<1>2. /\ records \in Seq(Records) /\ Len(records) \in Nat /\ DOMAIN records = 1..Len(records)
      /\ \A i \in DOMAIN records : records[i] \in Records
  BY DEF RecordShape
<1>3. DOMAIN records' = DOMAIN records
  BY <1>1
<1>4. ASSUME NEW i \in DOMAIN records
      PROVE  /\ records'[i] \in Records /\ records'[i].id = records[i].id /\ records'[i].also = records[i].also
             /\ records'[i].status = IF records[i].id = RunId(r) THEN status ELSE records[i].status
  <2>1. records[i] \in Records
    BY <1>2
  <2>2. CASE records[i].id = RunId(r)
    <3>1. records'[i] = [records[i] EXCEPT !.status = status]
      BY <1>1, <2>2
    <3> QED
      BY <2>1, <2>2, <3>1 DEF Records
  <2>3. CASE records[i].id # RunId(r)
    <3>1. records'[i] = records[i]
      BY <1>1, <2>3
    <3> QED
      BY <2>1, <2>3, <3>1
  <2> QED
    BY <2>2, <2>3
<1>5. records' \in Seq(Records) /\ Len(records') = Len(records)
  <2>1. /\ \A i \in 1..Len(records) : records'[i] \in Records
        /\ DOMAIN records' = 1..Len(records)
        /\ \E g : records' = [j \in 1..Len(records) |-> g[j]]
    <3>1. records' = [j \in 1..Len(records) |-> records'[j]]
      BY <1>1, <1>2
    <3>2. \A i \in 1..Len(records) : records'[i] \in Records
      BY <1>2, <1>4
    <3> QED
      BY <1>2, <1>3, <3>1, <3>2
  <2>2. records' \in [1..Len(records) -> Records]
    BY <1>1, <1>2, <2>1
  <2> QED
    BY <1>2, <2>2
<1>6. ASSUME NEW f
      PROVE  /\ Naming(f)' = Naming(f)
             /\ Naming(f) # {} => /\ Found(f)'.id = Found(f).id
                                  /\ Found(f)'.status = IF Found(f).id = RunId(r) THEN status
                                                        ELSE Found(f).status
  <2>1. /\ Naming(f) = NamingIn(records, f) /\ Found(f) = LookedUpIn(records, f)
        /\ Naming(f)' = NamingIn(records', f) /\ Found(f)' = LookedUpIn(records', f)
    BY Lookups
  <2>2. /\ NamingIn(records', f) = NamingIn(records, f)
        /\ NamingIn(records, f) # {} =>
               \E i \in DOMAIN records : LookedUpIn(records, f) = records[i] /\ LookedUpIn(records', f) = records'[i]
    BY <1>2, <1>3, <1>4, <1>5, LookupFinished
  <2> QED
    BY <1>4, <2>1, <2>2
<1> QED
  BY <1>1, <1>5, <1>6

-------------------------------------------------------------------------------
(* What the other steps do to the runs and the batch *)

\* f awaits its run, or its delivery has not found it in the history.
Entering(f) == InList(batch, f) \/ (delivery[f] = "listing" /\ ~Known(f))

NewCall(q) == q.stage = "waiting" /\ q.fires # <<>> /\ \A f \in FiresOf(q) : Entering(f)

CallsMove ==
    \/ runs' \subseteq runs
    \/ \E q \in Calls : NewCall(q) /\ runs' = runs \cup {q}
    \/ \E r \in runs : /\ r.stage = "active" /\ runs' = (runs \ {r}) \cup {[r EXCEPT !.stage = "abandoned"]}
                       /\ \A f \in FiresOf(r) : states'[f] = "failed"

BatchMove == \A f \in Fires : InList(batch', f) => Entering(f)

\* A step that neither begins nor finishes a record.
Quiet == /\ UNCHANGED <<records, finished, done, misnamed, forgotten>>
         /\ CallsMove /\ BatchMove
         /\ Len(batch) <= MAX_QUEUED_EVENT_FIRES_PER_AUTOMATION =>
                Len(batch') <= MAX_QUEUED_EVENT_FIRES_PER_AUTOMATION

LEMMA EnqueueKeeps ==
    ASSUME AInv, NEW x \in Items, Enqueue(x)
    PROVE  /\ Len(batch') <= MAX_QUEUED_EVENT_FIRES_PER_AUTOMATION
           /\ \A f : InList(batch', f) => InList(batch, f) \/ f = x
<1> USE FiresAssumption
<1> DEFINE items == Append(batch, x)
           cap == MAX_QUEUED_EVENT_FIRES_PER_AUTOMATION
           excess == IF Len(items) > cap THEN Len(items) - cap ELSE 0
<1>1. batch \in Seq(Items) /\ Len(batch) \in Nat
  BY DEF AInv, Shape
<1>2. /\ items \in Seq(Items) /\ Len(items) = Len(batch) + 1
      /\ \A f : InList(items, f) <=> InList(batch, f) \/ f = x
  BY <1>1, AppendList
<1>3. batch' = Others(items, excess)
  BY DEF Enqueue, Others
<1> HIDE DEF items
<1>4. excess \in 0..Len(items) /\ Len(items) - excess <= cap
  BY <1>1, <1>2
<1> HIDE DEF excess, cap
<1>5. /\ Len(Others(items, excess)) = Len(items) - excess
      /\ \A f : InList(items, f) <=> InList(Oldest(items, excess), f) \/ InList(Others(items, excess), f)
  BY <1>2, <1>4, SplitList
<1> QED
  BY <1>2, <1>3, <1>4, <1>5 DEF cap

LEMMA FlushMoves ==
    ASSUME AInv, Flush
    PROVE  Quiet
<1> USE FiresAssumption
<1> DEFINE n == IF Len(batch) < MAX_EVENTS_IN_AUTOMATION_WAKE THEN Len(batch) ELSE MAX_EVENTS_IN_AUTOMATION_WAKE
           q == [fires |-> Oldest(batch, n), stage |-> "waiting"]
<1>1. /\ timer /\ runs' = runs \cup {q} /\ batch' = Others(batch, n)
      /\ UNCHANGED <<records, finished, done, misnamed, forgotten>>
  BY DEF Flush, Oldest, Others, history
<1>2. batch \in Seq(Items) /\ Len(batch) \in Nat \ {0}
  BY <1>1 DEF AInv, Shape, QueueSound
<1>3. n \in 0..Len(batch) /\ n > 0
  BY <1>2
<1> HIDE DEF n
<1>4. /\ Oldest(batch, n) \in Seq(Items) /\ Len(Oldest(batch, n)) = n
      /\ Len(Others(batch, n)) = Len(batch) - n
      /\ \A f : InList(batch, f) <=> InList(Oldest(batch, n), f) \/ InList(Others(batch, n), f)
  <2>1. batch \in Seq(Items) /\ n \in 0..Len(batch)
    BY <1>2, <1>3
  <2> HIDE DEF q
  <2> QED
    BY <2>1, SplitList, SMTT(20)
<1>5. q \in Calls
  <2>1. Oldest(batch, n) \in Seq(Items \cup ScheduleFires)
    BY <1>4
  <2> QED
    BY <2>1 DEF Calls, Stages
<1>6. \A f : f \in FiresOf(q) => InList(Oldest(batch, n), f)
  BY DEF FiresOf, Elements, InList
<1>7. q.stage = "waiting" /\ q.fires = Oldest(batch, n)
  OBVIOUS
<1> HIDE DEF q
<1>8. NewCall(q)
  BY <1>3, <1>4, <1>6, <1>7 DEF NewCall, Entering
<1>9. CallsMove
  BY <1>1, <1>5, <1>8 DEF CallsMove
<1>10. BatchMove
  BY <1>1, <1>4 DEF BatchMove, Entering
<1>11. Len(batch) <= MAX_QUEUED_EVENT_FIRES_PER_AUTOMATION => Len(batch') <= MAX_QUEUED_EVENT_FIRES_PER_AUTOMATION
  BY <1>1, <1>2, <1>3, <1>4
<1> QED
  BY <1>1, <1>9, <1>10, <1>11 DEF Quiet

LEMMA QuietIfSmaller ==
    ASSUME UNCHANGED <<records, finished, done, misnamed, forgotten>>, runs' \subseteq runs, batch' = batch
    PROVE  Quiet
BY DEF Quiet, CallsMove, BatchMove, Entering, InList

LEMMA QuietSteps ==
    ASSUME AInv, [Next]_vars
    PROVE  \/ Quiet
           \/ \E r \in runs : RunStarts(r) \/ \E status \in {"ok", "error"} : RunEnds(r, status)
<1>1. CASE PollServed \/ PollFailed \/ PollReceived \/ TickDone \/ \E f \in Fires : TickReports(f)
  <2>1. UNCHANGED <<records, finished, done, misnamed, forgotten>> /\ runs' \subseteq runs /\ batch' = batch
    BY <1>1 DEF PollServed, PollFailed, PollReceived, TickDone, TickReports, history, queue
  <2> QED
    BY <2>1, QuietIfSmaller
<1>2. ASSUME NEW f \in Fires,
             \/ DeliveryStopped(f) \/ DeliveryFailed(f) \/ DeliveryWhileInFlight(f)
             \/ DeliveryOfKnown(f) \/ DeliveryRejected(f) \/ ReportAnswered(f) \/ ReportLost(f)
      PROVE  Quiet
  <2>1. UNCHANGED <<records, finished, done, misnamed, forgotten>> /\ runs' \subseteq runs /\ batch' = batch
    BY <1>2 DEF DeliveryStopped, DeliveryFailed, DeliveryWhileInFlight, DeliveryOfKnown, DeliveryRejected,
                Abandon, Complete, ReportAnswered, ReportLost, history, queue
  <2> QED
    BY <2>1, QuietIfSmaller
<1>3. ASSUME NEW x \in Items, Enqueue(x), runs' = runs,
             UNCHANGED <<records, finished, done, misnamed, forgotten>>,
             x \in Fires => delivery[x] = "listing" /\ ~Known(x)
      PROVE  Quiet
  <2>1. /\ Len(batch') <= MAX_QUEUED_EVENT_FIRES_PER_AUTOMATION
        /\ \A f : InList(batch', f) => InList(batch, f) \/ f = x
    BY <1>3, EnqueueKeeps
  <2>2. BatchMove
    BY <1>3, <2>1 DEF BatchMove, Entering
  <2>3. CallsMove
    BY <1>3 DEF CallsMove
  <2> QED
    BY <1>3, <2>1, <2>2, <2>3 DEF Quiet
<1>4. ASSUME NEW f \in Fires, DeliveryOfEvent(f) PROVE Quiet
  <2>1. /\ f \in Items /\ delivery[f] = "listing" /\ ~Known(f) /\ Enqueue(f) /\ runs' = runs
        /\ UNCHANGED <<records, finished, done, misnamed, forgotten>>
    BY <1>4 DEF DeliveryOfEvent, Items, history
  <2> QED
    BY <1>3, <2>1
<1>5. ASSUME NEW x \in LocalEvents, LocalEvent(x) PROVE Quiet
  <2>1. /\ x \in Items /\ x \notin Fires /\ Enqueue(x) /\ runs' = runs
        /\ UNCHANGED <<records, finished, done, misnamed, forgotten>>
    BY <1>5, FiresAssumption DEF LocalEvent, Items, history
  <2> QED
    BY <1>3, <2>1
<1>6. ASSUME NEW f \in Fires, DeliveryOfSchedule(f) PROVE Quiet
  <2> DEFINE q == [fires |-> <<f>>, stage |-> "waiting"]
  <2>1. /\ f \in ScheduleFires /\ delivery[f] = "listing" /\ ~Known(f) /\ runs' = runs \cup {q} /\ batch' = batch
        /\ UNCHANGED <<records, finished, done, misnamed, forgotten>>
    BY <1>6 DEF DeliveryOfSchedule, queue, history
  <2>2. q \in Calls /\ q.stage = "waiting" /\ q.fires = <<f>>
    BY <2>1 DEF Calls, Stages
  <2>3. \A g \in FiresOf(q) : g = f
    BY DEF FiresOf, Elements
  <2> HIDE DEF q
  <2>4. NewCall(q)
    BY <2>1, <2>2, <2>3 DEF NewCall, Entering
  <2>5. CallsMove
    BY <2>1, <2>2, <2>4 DEF CallsMove
  <2> QED
    BY <2>1, <2>5 DEF Quiet, BatchMove, Entering, InList
<1>7. CASE Flush
  BY <1>7, FlushMoves
<1>8. ASSUME NEW r \in runs, RunDropped(r) \/ RunReturns(r) PROVE Quiet
  <2>1. UNCHANGED <<records, finished, done, misnamed, forgotten>> /\ runs' \subseteq runs /\ batch' = batch
    BY <1>8 DEF RunDropped, RunReturns, Settle, history
  <2> QED
    BY <2>1, QuietIfSmaller
<1>9. ASSUME NEW r \in runs, RunEscaped(r) PROVE Quiet
  <2>1. /\ UNCHANGED <<records, finished, done, misnamed, forgotten>> /\ batch' = batch
        /\ states' = [f \in Fires |-> IF f \in FiresOf(r) THEN "failed" ELSE states[f]]
        /\ runs' = (runs \ {r}) \cup (IF r.stage = "active" THEN {[r EXCEPT !.stage = "abandoned"]} ELSE {})
    BY <1>9 DEF RunEscaped, Settle, history
  <2>2. CASE r.stage = "active"
    <3>1. \A f \in FiresOf(r) : states'[f] = "failed"
      BY <2>1 DEF FiresOf
    <3>2. CallsMove
      BY <2>1, <2>2, <3>1 DEF CallsMove
    <3> QED
      BY <2>1, <3>2 DEF Quiet, BatchMove, Entering, InList
  <2>3. CASE r.stage # "active"
    BY <2>1, <2>3, QuietIfSmaller
  <2> QED
    BY <2>2, <2>3
<1>10. CASE Crash
  <2>1. UNCHANGED <<records, finished, done, misnamed, forgotten>> /\ runs' \subseteq runs /\ batch' = <<>>
    BY <1>10 DEF Crash, history
  <2> QED
    BY <2>1, FiresAssumption DEF Quiet, CallsMove, BatchMove, InList
<1>11. CASE Stop \/ Start \/ UNCHANGED vars
  <2>1. UNCHANGED <<records, finished, done, misnamed, forgotten>> /\ runs' \subseteq runs /\ batch' = batch
    BY <1>11 DEF Stop, Start, vars, history, queue
  <2> QED
    BY <2>1, QuietIfSmaller
<1> QED
  BY <1>1, <1>2, <1>4, <1>5, <1>6, <1>7, <1>8, <1>9, <1>10, <1>11 DEF Next, Delivering, Running

-------------------------------------------------------------------------------
(* The shape of the other variables *)

\* A call at another stage is the same call, or it is over.
LEMMA Restaging ==
    ASSUME AInv, NEW r \in runs, NEW stage \in Stages, NEW S \in SUBSET {[r EXCEPT !.stage = stage]},
           runs' = (runs \ {r}) \cup S
    PROVE  /\ r \in Calls
           /\ \A q \in runs' : \/ q \in runs /\ q # r
                               \/ /\ q \in Calls /\ q.stage = stage /\ q.fires = r.fires
                                  /\ FiresOf(q) = FiresOf(r) /\ RunId(q) = RunId(r)
<1> DEFINE next == [r EXCEPT !.stage = stage]
<1>1. r \in Calls
  BY DEF AInv, Shape, Calls
<1>2. /\ next \in Calls /\ next.stage = stage /\ next.fires = r.fires
      /\ FiresOf(next) = FiresOf(r) /\ RunId(next) = RunId(r)
  BY <1>1, Restaged
<1>3. \A q \in runs' : (q \in runs /\ q # r) \/ q = next
  OBVIOUS
<1> HIDE DEF next
<1> QED
  BY <1>1, <1>2, <1>3

LEMMA StartsCalls ==
    ASSUME AInv, NEW r \in runs, RunStarts(r)
    PROVE  /\ r \in Calls /\ r.stage = "waiting"
           /\ batch' = batch /\ states' = states /\ server' = server /\ delivery' = delivery /\ tick' = tick
           /\ \A q \in runs' : \/ q \in runs /\ q # r
                               \/ /\ q \in Calls /\ q.stage = "active" /\ q.fires = r.fires
                                  /\ FiresOf(q) = FiresOf(r) /\ RunId(q) = RunId(r)
<1>1. /\ runs' = (runs \ {r}) \cup {[r EXCEPT !.stage = "active"]} /\ r.stage = "waiting"
      /\ batch' = batch /\ states' = states /\ server' = server /\ delivery' = delivery /\ tick' = tick
  BY DEF RunStarts, queue
<1>2. "active" \in Stages
  BY DEF Stages, Occupying
<1> QED
  BY <1>1, <1>2, Restaging

LEMMA EndsCalls ==
    ASSUME AInv, NEW r \in runs, NEW status \in {"ok", "error"}, RunEnds(r, status)
    PROVE  /\ r \in Calls /\ r.stage \in {"active", "abandoned"}
           /\ batch' = batch /\ states' = states /\ server' = server /\ delivery' = delivery /\ tick' = tick
           /\ \A q \in runs' : \/ q \in runs /\ q # r
                               \/ /\ q \in Calls /\ q.stage = status /\ q.fires = r.fires
                                  /\ FiresOf(q) = FiresOf(r) /\ RunId(q) = RunId(r)
<1> DEFINE S == IF r.stage = "active" THEN {[r EXCEPT !.stage = status]} ELSE {}
<1>1. /\ runs' = (runs \ {r}) \cup S /\ r.stage \in {"active", "abandoned"}
      /\ batch' = batch /\ states' = states /\ server' = server /\ delivery' = delivery /\ tick' = tick
  BY DEF RunEnds, queue
<1>2. status \in Stages /\ S \in SUBSET {[r EXCEPT !.stage = status]}
  BY DEF Stages, Occupying
<1> HIDE DEF S
<1> QED
  BY <1>1, <1>2, Restaging

LEMMA ShapeInit == Init => ShapeInv
<1> SUFFICES ASSUME Init PROVE ShapeInv
  OBVIOUS
<1> USE FiresAssumption
<1>1. RecordShape
  <2>1. <<>> \in Seq(Records) /\ Len(<<>>) = 0
    OBVIOUS
  <2> QED
    BY <2>1 DEF Init, RecordShape
<1>2. CallShape
  BY DEF Init, CallShape
<1>3. OtherShape
  <2>1. Len(batch) = 0
    BY DEF Init
  <2>2. tick \in [phase : {"idle", "answered", "reporting"}, fires : SUBSET Fires]
    BY DEF Init, Idle
  <2>3. stopped \in BOOLEAN /\ locals \subseteq LocalEvents /\ upsets \in 0..MaxUpsets
    BY DEF Init
  <2> QED
    BY <2>1, <2>2, <2>3 DEF OtherShape
<1> QED
  BY <1>1, <1>2, <1>3 DEF ShapeInv

\* The poll, the local events and the failures.
LEMMA OtherStep ==
    ASSUME OtherShape, [Next]_vars
    PROVE  /\ tick' \in [phase : {"idle", "answered", "reporting"}, fires : SUBSET Fires]
           /\ stopped' \in BOOLEAN /\ locals' \subseteq LocalEvents /\ upsets' \in 0..MaxUpsets
<1> USE FiresAssumption DEF OtherShape
<1> DEFINE Ticks == [phase : {"idle", "answered", "reporting"}, fires : SUBSET Fires]
           Rest == stopped' \in BOOLEAN /\ locals' \subseteq LocalEvents /\ upsets' \in 0..MaxUpsets
<1>1. Idle \in Ticks
  BY DEF Idle
<1>2. ASSUME Upset PROVE upsets' \in 0..MaxUpsets
  BY <1>2 DEF Upset
<1>3. ASSUME NEW fires \in SUBSET Fires, NEW left, Reporting(fires, left) PROVE tick' \in Ticks
  BY <1>1, <1>3 DEF Reporting
<1>4. CASE PollServed
  BY <1>4 DEF PollServed
<1>5. CASE PollFailed
  BY <1>1, <1>2, <1>5 DEF PollFailed
<1>6. CASE PollReceived
  BY <1>3, <1>6 DEF PollReceived
<1>7. CASE TickDone
  BY <1>1, <1>7 DEF TickDone
<1>8. ASSUME NEW f \in Fires, TickReports(f) PROVE tick' \in Ticks /\ Rest
  <2>1. tick' \in Ticks
    <3>1. tick.fires \cup {f} \in SUBSET Fires
      OBVIOUS
    <3> QED
      BY <1>3, <1>8, <3>1 DEF TickReports
  <2>2. Rest
    BY <1>2, <1>8 DEF TickReports
  <2> QED
    BY <2>1, <2>2
<1>9. ASSUME NEW f \in Fires,
             \/ DeliveryStopped(f) \/ DeliveryFailed(f) \/ DeliveryWhileInFlight(f)
             \/ DeliveryOfKnown(f) \/ DeliveryRejected(f) \/ DeliveryOfEvent(f) \/ DeliveryOfSchedule(f)
             \/ ReportAnswered(f) \/ ReportLost(f)
      PROVE  tick' \in Ticks /\ Rest
  BY <1>2, <1>9 DEF DeliveryStopped, DeliveryFailed, DeliveryWhileInFlight, DeliveryOfKnown, DeliveryRejected,
                    DeliveryOfEvent, DeliveryOfSchedule, Abandon, Complete, ReportAnswered, ReportLost
<1>10. ASSUME NEW x \in LocalEvents, LocalEvent(x) PROVE tick' \in Ticks /\ Rest
  BY <1>10 DEF LocalEvent
<1>11. CASE Flush
  BY <1>11 DEF Flush
<1>12. ASSUME NEW r \in runs, \/ RunStarts(r) \/ RunDropped(r) \/ RunReturns(r) \/ RunEscaped(r)
                              \/ \E status \in {"ok", "error"} : RunEnds(r, status)
       PROVE  tick' \in Ticks /\ Rest
  BY <1>2, <1>12 DEF RunStarts, RunDropped, RunReturns, RunEscaped, RunEnds
<1>13. CASE Crash
  BY <1>1, <1>2, <1>13 DEF Crash
<1>14. CASE Stop \/ Start \/ UNCHANGED vars
  BY <1>2, <1>14 DEF Stop, Start, vars
<1> QED
  BY <1>4, <1>5, <1>6, <1>7, <1>8, <1>9, <1>10, <1>11, <1>12, <1>13, <1>14 DEF Next, Delivering, Running

LEMMA ShapeStep == AInv /\ ShapeInv /\ [Next]_vars => ShapeInv'
<1> SUFFICES ASSUME AInv, ShapeInv, [Next]_vars PROVE ShapeInv'
  OBVIOUS
<1> USE FiresAssumption
<1>1. RecordShape /\ CallShape /\ OtherShape
  BY DEF ShapeInv
<1>2. /\ tick' \in [phase : {"idle", "answered", "reporting"}, fires : SUBSET Fires]
      /\ stopped' \in BOOLEAN /\ locals' \subseteq LocalEvents /\ upsets' \in 0..MaxUpsets
  BY <1>1, OtherStep
<1>3. CASE Quiet
  <2>1. RecordShape'
    BY <1>1, <1>3 DEF RecordShape, Quiet
  <2>2. CallShape'
    <3>1. CASE runs' \subseteq runs
      BY <1>1, <3>1 DEF CallShape
    <3>2. ASSUME NEW q \in Calls, NewCall(q), runs' = runs \cup {q} PROVE CallShape'
      BY <1>1, <3>2 DEF CallShape, NewCall
    <3>3. ASSUME NEW r \in runs, runs' = (runs \ {r}) \cup {[r EXCEPT !.stage = "abandoned"]} PROVE CallShape'
      <4>1. "abandoned" \in Stages
        BY DEF Stages
      <4>2. \A q \in runs' : (q \in runs /\ q # r) \/ q.fires = r.fires
        BY <3>3, <4>1, Restaging
      <4> QED
        BY <1>1, <4>2 DEF CallShape
    <3> QED
      BY <1>3, <3>1, <3>2, <3>3 DEF Quiet, CallsMove
  <2>3. OtherShape'
    BY <1>1, <1>2, <1>3 DEF Quiet, OtherShape
  <2> QED
    BY <2>1, <2>2, <2>3 DEF ShapeInv
<1>4. ASSUME NEW r \in runs, RunStarts(r) PROVE ShapeInv'
  <2>1. /\ r \in Calls /\ batch' = batch
        /\ \A q \in runs' : (q \in runs /\ q # r) \/ q.fires = r.fires
    BY <1>4, StartsCalls
  <2>2. BeginRun(r) /\ finished' = finished /\ done' = done /\ r.fires # <<>> /\ FiresOf(r) \subseteq Fires
    BY <1>1, <1>4 DEF RunStarts, CallShape, FiresOf
  <2>3. RecordShape'
    <3>1. CASE \E i \in DOMAIN records : records[i].id = RunId(r)
      <4>1. records' = records /\ forgotten' = forgotten /\ misnamed' \subseteq misnamed \cup FiresOf(r) \cup Fires
        BY <2>2, <3>1, BeginTaken
      <4> QED
        BY <1>1, <2>2, <4>1 DEF RecordShape
    <3>2. CASE ~ \E i \in DOMAIN records : records[i].id = RunId(r)
      <4>1. /\ misnamed' = misnamed
            /\ records' \in Seq(Records) /\ Len(records') <= AUTOMATION_MAX_RUN_HISTORY
            /\ forgotten' \subseteq Fires \cup LocalEvents
        BY <1>1, <2>1, <2>2, <3>2, BeginNew
      <4> QED
        BY <1>1, <2>2, <4>1 DEF RecordShape
    <3> QED
      BY <3>1, <3>2
  <2>4. CallShape'
    BY <1>1, <2>1 DEF CallShape
  <2>5. OtherShape'
    BY <1>1, <1>2, <2>1 DEF OtherShape
  <2> QED
    BY <2>3, <2>4, <2>5 DEF ShapeInv
<1>5. ASSUME NEW r \in runs, NEW status \in {"ok", "error"}, RunEnds(r, status) PROVE ShapeInv'
  <2>1. /\ r \in Calls /\ batch' = batch
        /\ \A q \in runs' : (q \in runs /\ q # r) \/ q.fires = r.fires
    BY <1>5, EndsCalls
  <2>2. FinishRun(r, status) /\ FiresOf(r) \subseteq Fires
    BY <1>5 DEF RunEnds, FiresOf
  <2>3. /\ records' \in Seq(Records) /\ Len(records') = Len(records)
        /\ finished' = finished \cup FiresOf(r) /\ done' \subseteq done \cup FiresOf(r)
        /\ misnamed' = misnamed /\ forgotten' = forgotten
    BY <1>1, <2>1, <2>2, FinishEffect
  <2>4. RecordShape'
    BY <1>1, <2>2, <2>3 DEF RecordShape
  <2>5. CallShape'
    BY <1>1, <2>1 DEF CallShape
  <2>6. OtherShape'
    BY <1>1, <1>2, <2>1 DEF OtherShape
  <2> QED
    BY <2>4, <2>5, <2>6 DEF ShapeInv
<1> QED
  BY <1>3, <1>4, <1>5, QuietSteps

-------------------------------------------------------------------------------
(* What becomes of a fire that is spent *)

LEMMA ServerMoves ==
    ASSUME [Next]_vars
    PROVE  PollServed \/ server' = server \/ \E f \in Fires : Served(f)
<1>1. CASE PollFailed \/ PollReceived \/ TickDone
  BY <1>1 DEF PollFailed, PollReceived, TickDone
<1>2. ASSUME NEW f \in Fires, TickReports(f) \/ ReportAnswered(f) \/ ReportLost(f)
      PROVE  server' = server \/ Served(f)
  BY <1>2 DEF TickReports, ReportAnswered, ReportLost
<1>3. ASSUME NEW f \in Fires,
             \/ DeliveryStopped(f) \/ DeliveryFailed(f) \/ DeliveryWhileInFlight(f)
             \/ DeliveryOfKnown(f) \/ DeliveryRejected(f) \/ DeliveryOfEvent(f) \/ DeliveryOfSchedule(f)
      PROVE  server' = server
  BY <1>3 DEF DeliveryStopped, DeliveryFailed, DeliveryWhileInFlight, DeliveryOfKnown, DeliveryRejected,
              DeliveryOfEvent, DeliveryOfSchedule, Abandon, Complete
<1>4. ASSUME NEW x \in LocalEvents, LocalEvent(x) PROVE server' = server
  BY <1>4 DEF LocalEvent
<1>5. ASSUME NEW r \in runs, \/ RunStarts(r) \/ RunDropped(r) \/ RunReturns(r) \/ RunEscaped(r)
                             \/ \E status \in {"ok", "error"} : RunEnds(r, status)
      PROVE  server' = server
  BY <1>5 DEF RunStarts, RunDropped, RunReturns, RunEscaped, RunEnds
<1>6. CASE Flush \/ Crash \/ Stop \/ Start \/ UNCHANGED vars
  BY <1>6 DEF Flush, Crash, Stop, Start, vars
<1> QED
  BY <1>1, <1>2, <1>3, <1>4, <1>5, <1>6 DEF Next, Delivering, Running

LEMMA GoneStays ==
    ASSUME AInv, [Next]_vars, NEW f \in Fires, server[f] = "gone"
    PROVE  server'[f] = "gone"
<1>1. server \in [Fires -> {"pending", "gone"} \cup Completed] /\ "gone" \notin Completed
  BY DEF AInv, Shape, Completed
<1>2. ASSUME NEW g \in Fires, Served(g) PROVE server'[f] = "gone"
  BY <1>1, <1>2 DEF Served
<1>3. CASE PollServed
  BY <1>1, <1>3 DEF PollServed
<1> QED
  BY <1>2, <1>3, ServerMoves

\* A poll is answered once it is served, and only then.
LEMMA AnsweredPoll ==
    ASSUME [Next]_vars, tick'.phase = "answered"
    PROVE  PollServed \/ tick' = tick
<1>1. CASE PollFailed \/ PollReceived \/ TickDone
  BY <1>1 DEF PollFailed, PollReceived, TickDone, Reporting, Idle
<1>2. ASSUME NEW f \in Fires, TickReports(f) PROVE FALSE
  BY <1>2 DEF TickReports, Reporting, Idle
<1>3. ASSUME NEW f \in Fires,
             \/ DeliveryStopped(f) \/ DeliveryFailed(f) \/ DeliveryWhileInFlight(f)
             \/ DeliveryOfKnown(f) \/ DeliveryRejected(f) \/ DeliveryOfEvent(f) \/ DeliveryOfSchedule(f)
             \/ ReportAnswered(f) \/ ReportLost(f)
      PROVE  tick' = tick
  BY <1>3 DEF DeliveryStopped, DeliveryFailed, DeliveryWhileInFlight, DeliveryOfKnown, DeliveryRejected,
              DeliveryOfEvent, DeliveryOfSchedule, Abandon, Complete, ReportAnswered, ReportLost
<1>4. ASSUME NEW x \in LocalEvents, LocalEvent(x) PROVE tick' = tick
  BY <1>4 DEF LocalEvent
<1>5. ASSUME NEW r \in runs, \/ RunStarts(r) \/ RunDropped(r) \/ RunReturns(r) \/ RunEscaped(r)
                             \/ \E status \in {"ok", "error"} : RunEnds(r, status)
      PROVE  tick' = tick
  BY <1>5 DEF RunStarts, RunDropped, RunReturns, RunEscaped, RunEnds
<1>6. CASE Crash
  BY <1>6 DEF Crash, Idle
<1>7. CASE Flush \/ Stop \/ Start \/ UNCHANGED vars
  BY <1>7 DEF Flush, Stop, Start, vars
<1> QED
  BY <1>1, <1>2, <1>3, <1>4, <1>5, <1>6, <1>7 DEF Next, Delivering, Running

LEMMA ServedPoll ==
    ASSUME PollServed, NEW f \in Fires, f \notin tick'.fires, server'[f] \in {"pending", "gone"} \cup Completed
    PROVE  server'[f] = "gone"
BY DEF PollServed

LEMMA TickStep ==
    ASSUME AInv, AInv', TickSound, [Next]_vars
    PROVE  TickSound'
<1> SUFFICES ASSUME tick'.phase = "answered", NEW f \in Fires, f \notin tick'.fires
             PROVE  server'[f] = "gone"
  BY DEF TickSound
<1>1. server'[f] \in {"pending", "gone"} \cup Completed
  BY DEF AInv, Shape
<1>2. CASE PollServed
  BY <1>1, <1>2, ServedPoll
<1>3. CASE tick' = tick
  BY <1>3, GoneStays DEF TickSound
<1> QED
  BY <1>2, <1>3, AnsweredPoll

\* What has ended, or is not known, is not held.
LEMMA SpentIsFree ==
    ASSUME AInv, NEW f \in Fires, states[f] # "running"
    PROVE  /\ delivery[f] \notin {"listing", "firing"} /\ ~InList(batch, f)
           /\ \A r \in runs : ~Holds(r, f)
BY DEF AInv, ReportSound, HoldSound

\* The consumer's state of such a fire.
LEMMA SpentStates ==
    ASSUME AInv, [Next]_vars, ~Crash, NEW f \in Fires, Spent(f)
    PROVE  \/ states'[f] \in {states[f], "failed", "reported"}
           \/ /\ states[f] = "reported" /\ tick.phase = "answered" /\ f \notin tick.fires
              /\ states'[f] = "absent" /\ tick'.phase # "answered"
<1> DEFINE Goal == \/ states'[f] \in {states[f], "failed", "reported"}
                   \/ /\ states[f] = "reported" /\ tick.phase = "answered" /\ f \notin tick.fires
                      /\ states'[f] = "absent" /\ tick'.phase # "answered"
<1>1. states \in [Fires -> {"absent", "running", "reported"} \cup Completed]
  BY DEF AInv, Shape
<1>2. states[f] # "running"
  BY DEF Spent
<1>3. /\ delivery[f] \notin {"listing", "firing"} /\ \A r \in runs : ~Holds(r, f)
  BY <1>2, SpentIsFree
<1>4. CASE PollServed \/ PollFailed \/ TickDone
  BY <1>4 DEF PollServed, PollFailed, TickDone
<1>5. CASE PollReceived
  <2> DEFINE dropped == {g \in Fires : states[g] = "reported" /\ g \notin tick.fires}
             new == {g \in tick.fires : states[g] = "absent"}
  <2>1. /\ states' = [g \in Fires |-> IF g \in new THEN "running" ELSE IF g \in dropped THEN "absent" ELSE states[g]]
        /\ tick.phase = "answered"
    BY <1>5 DEF PollReceived
  <2>2. tick'.phase # "answered"
    BY <1>5 DEF PollReceived, Reporting, Idle
  <2>3. f \notin new
    BY <2>1 DEF Spent
  <2>4. f \in dropped => states[f] = "reported" /\ f \notin tick.fires
    OBVIOUS
  <2> HIDE DEF dropped, new
  <2> QED
    BY <2>1, <2>2, <2>3, <2>4
<1>6. ASSUME NEW g \in Fires, TickReports(g) \/ ReportAnswered(g) \/ ReportLost(g) PROVE Goal
  BY <1>1, <1>6 DEF TickReports, ReportAnswered, ReportLost
<1>7. ASSUME NEW g \in Fires,
             \/ DeliveryStopped(g) \/ DeliveryFailed(g) \/ DeliveryWhileInFlight(g)
             \/ DeliveryOfKnown(g) \/ DeliveryRejected(g)
      PROVE  Goal
  <2>1. delivery[g] = "listing" /\ (Abandon(g) \/ \E end \in Completed : Complete(g, end))
    BY <1>7 DEF DeliveryStopped, DeliveryFailed, DeliveryWhileInFlight, DeliveryOfKnown, DeliveryRejected, Completed
  <2>2. g # f
    BY <1>3, <2>1
  <2> QED
    BY <1>1, <2>1, <2>2 DEF Abandon, Complete
<1>8. ASSUME NEW x, Enqueue(x) PROVE Goal
  BY <1>1, <1>8 DEF Enqueue
<1>9. ASSUME NEW g \in Fires, DeliveryOfEvent(g) \/ DeliveryOfSchedule(g) PROVE Goal
  BY <1>8, <1>9 DEF DeliveryOfEvent, DeliveryOfSchedule
<1>10. ASSUME NEW x \in LocalEvents, LocalEvent(x) PROVE Goal
  BY <1>8, <1>10 DEF LocalEvent
<1>11. ASSUME NEW r \in runs, RunDropped(r) \/ RunReturns(r) \/ RunEscaped(r) PROVE Goal
  <2>1. r.stage # "abandoned" /\ \E end : Settle(r, end)
    BY <1>11 DEF RunDropped, RunReturns, RunEscaped, Occupying
  <2>2. f \notin FiresOf(r)
    BY <1>3, <2>1 DEF Holds
  <2>3. states'[f] = states[f]
    BY <2>1, <2>2 DEF Settle
  <2> QED
    BY <2>3
<1>12. ASSUME NEW r \in runs, RunStarts(r) \/ \E status \in {"ok", "error"} : RunEnds(r, status) PROVE Goal
  BY <1>12 DEF RunStarts, RunEnds
<1>13. CASE Flush \/ Stop \/ Start \/ UNCHANGED vars
  BY <1>13 DEF Flush, Stop, Start, vars
<1> QED
  BY <1>4, <1>5, <1>6, <1>7, <1>9, <1>10, <1>11, <1>12, <1>13 DEF Next, Delivering, Running

LEMMA SpentStays ==
    ASSUME AInv, AInv', TickSound, [Next]_vars, ~Crash, NEW f \in Fires, Spent(f)
    PROVE  Spent(f)'
<1>1. server[f] = "gone" => server'[f] = "gone"
  BY GoneStays
<1>2. CASE states'[f] \in {"failed", "reported"}
  BY <1>2 DEF Spent
<1>3. CASE states[f] = "absent" /\ states'[f] = "absent"
  <2>1. server[f] = "gone" /\ (tick.phase = "answered" => f \notin tick.fires)
    BY <1>3 DEF Spent
  <2>2. ASSUME tick'.phase = "answered" PROVE f \notin tick'.fires
    <3>1. CASE PollServed
      <4>1. server'[f] = "gone" /\ "gone" \notin Completed \cup {"pending"}
        BY <1>1, <2>1 DEF Completed
      <4> QED
        BY <3>1, <4>1 DEF PollServed
    <3>2. CASE tick' = tick
      BY <2>1, <2>2, <3>2
    <3> QED
      BY <2>2, <3>1, <3>2, AnsweredPoll
  <2> QED
    BY <1>1, <1>3, <2>1, <2>2 DEF Spent
<1>4. CASE /\ states[f] = "reported" /\ tick.phase = "answered" /\ f \notin tick.fires
           /\ states'[f] = "absent" /\ tick'.phase # "answered"
  BY <1>1, <1>4 DEF Spent, TickSound
<1> QED
  BY <1>2, <1>3, <1>4, SpentStates DEF Spent

-------------------------------------------------------------------------------
(* What the consumer takes for a success, and tells the server *)

LEMMA SuccessFrom ==
    ASSUME AInv, [Next]_vars, NEW f \in Fires, states'[f] = "succeeded"
    PROVE  \/ states[f] = "succeeded"
           \/ Existing(f) = "ok"
           \/ \E r \in runs : r.stage = "ok" /\ f \in FiresOf(r)
<1> DEFINE Goal == \/ states[f] = "succeeded" \/ Existing(f) = "ok"
                   \/ \E r \in runs : r.stage = "ok" /\ f \in FiresOf(r)
<1>1. states \in [Fires -> {"absent", "running", "reported"} \cup Completed]
  BY DEF AInv, Shape
<1>2. CASE PollServed \/ PollFailed \/ TickDone \/ PollReceived
  BY <1>2 DEF PollServed, PollFailed, TickDone, PollReceived
<1>3. ASSUME NEW g \in Fires, TickReports(g) \/ ReportAnswered(g) \/ ReportLost(g) PROVE Goal
  BY <1>1, <1>3 DEF TickReports, ReportAnswered, ReportLost
<1>4. ASSUME NEW g \in Fires,
             \/ DeliveryStopped(g) \/ DeliveryFailed(g) \/ DeliveryWhileInFlight(g) \/ DeliveryRejected(g)
      PROVE  Goal
  BY <1>1, <1>4 DEF DeliveryStopped, DeliveryFailed, DeliveryWhileInFlight, DeliveryRejected, Abandon, Complete
<1>5. ASSUME NEW g \in Fires, DeliveryOfKnown(g) PROVE Goal
  BY <1>1, <1>5 DEF DeliveryOfKnown, Complete
<1>6. ASSUME NEW x, Enqueue(x) PROVE Goal
  BY <1>1, <1>6 DEF Enqueue
<1>7. ASSUME NEW g \in Fires, DeliveryOfEvent(g) \/ DeliveryOfSchedule(g) PROVE Goal
  BY <1>6, <1>7 DEF DeliveryOfEvent, DeliveryOfSchedule
<1>8. ASSUME NEW x \in LocalEvents, LocalEvent(x) PROVE Goal
  BY <1>6, <1>8 DEF LocalEvent
<1>9. ASSUME NEW r \in runs, RunDropped(r) \/ RunEscaped(r) PROVE Goal
  BY <1>9 DEF RunDropped, RunEscaped, Settle
<1>10. ASSUME NEW r \in runs, RunReturns(r) PROVE Goal
  BY <1>10 DEF RunReturns, Settle
<1>11. ASSUME NEW r \in runs, RunStarts(r) \/ \E status \in {"ok", "error"} : RunEnds(r, status) PROVE Goal
  BY <1>11 DEF RunStarts, RunEnds
<1>12. CASE Crash \/ Flush \/ Stop \/ Start \/ UNCHANGED vars
  BY <1>12 DEF Crash, Flush, Stop, Start, vars
<1> QED
  BY <1>2, <1>3, <1>4, <1>5, <1>7, <1>8, <1>9, <1>10, <1>11, <1>12 DEF Next, Delivering, Running

LEMMA ToldFrom ==
    ASSUME AInv, [Next]_vars, NEW f \in Fires, server'[f] = "succeeded"
    PROVE  server[f] = "succeeded" \/ states[f] = "succeeded"
<1>1. server \in [Fires -> {"pending", "gone"} \cup Completed]
  BY DEF AInv, Shape
<1>2. ASSUME NEW g \in Fires, Served(g) PROVE server[f] = "succeeded" \/ states[f] = "succeeded"
  BY <1>1, <1>2 DEF Served
<1>3. CASE PollServed
  BY <1>1, <1>3 DEF PollServed
<1> QED
  BY <1>2, <1>3, ServerMoves

-------------------------------------------------------------------------------
(* The runs have their fires to themselves *)

LEMMA EnteringIsFree ==
    ASSUME AInv, SpentSound, NEW f \in Fires, Entering(f)
    PROVE  \A r \in runs : f \notin FiresOf(r)
<1>1. states[f] = "running" /\ \A r \in runs : ~Holds(r, f)
  BY DEF AInv, ReportSound, HoldSound, Entering
<1>2. ~Spent(f)
  BY <1>1 DEF Spent
<1> QED
  BY <1>1, <1>2 DEF SpentSound, Holds

\* A run at another stage keeps the others apart.
LEMMA RestagedApart ==
    ASSUME Apart, NEW r \in runs,
           \A q \in runs' : (q \in runs /\ q # r) \/ FiresOf(q) = FiresOf(r),
           \A q, p \in runs' : (q \in runs /\ q # r) \/ (p \in runs /\ p # r) \/ q = p
    PROVE  Apart'
<1> SUFFICES ASSUME NEW q \in runs', NEW p \in runs', NEW f \in Fires, f \in FiresOf(q), f \in FiresOf(p)
             PROVE  q = p
  BY DEF Apart
<1>1. CASE q \in runs /\ q # r
  <2>1. CASE p \in runs /\ p # r
    BY <1>1, <2>1 DEF Apart
  <2>2. CASE FiresOf(p) = FiresOf(r)
    BY <1>1, <2>2 DEF Apart
  <2> QED
    BY <2>1, <2>2
<1>2. CASE p \in runs /\ p # r
  <2>1. CASE FiresOf(q) = FiresOf(r)
    BY <1>2, <2>1 DEF Apart
  <2> QED
    BY <1>1, <2>1
<1> QED
  BY <1>1, <1>2

LEMMA ApartStep ==
    ASSUME AInv, SpentSound, Apart, [Next]_vars
    PROVE  Apart'
<1>1. ASSUME NEW r \in runs, NEW stage \in Stages, NEW S \in SUBSET {[r EXCEPT !.stage = stage]},
             runs' = (runs \ {r}) \cup S
      PROVE  Apart'
  <2>1. \A q \in runs' : (q \in runs /\ q # r) \/ FiresOf(q) = FiresOf(r)
    BY <1>1, Restaging
  <2>2. \A q, p \in runs' : (q \in runs /\ q # r) \/ (p \in runs /\ p # r) \/ q = p
    <3> DEFINE next == [r EXCEPT !.stage = stage]
    <3>1. \A q \in runs' : (q \in runs /\ q # r) \/ q = next
      BY <1>1
    <3> HIDE DEF next
    <3> QED
      BY <3>1
  <2> QED
    BY <2>1, <2>2, RestagedApart
<1>2. CASE Quiet
  <2>1. CASE runs' \subseteq runs
    BY <2>1 DEF Apart
  <2>2. ASSUME NEW q \in Calls, NewCall(q), runs' = runs \cup {q} PROVE Apart'
    <3>1. \A f \in FiresOf(q) : f \in Fires /\ \A r \in runs : f \notin FiresOf(r)
      <4>1. FiresOf(q) \subseteq Fires
        BY DEF FiresOf
      <4> QED
        BY <2>2, <4>1, EnteringIsFree DEF NewCall
    <3> QED
      BY <2>2, <3>1 DEF Apart
  <2>3. ASSUME NEW r \in runs, runs' = (runs \ {r}) \cup {[r EXCEPT !.stage = "abandoned"]} PROVE Apart'
    <3>1. "abandoned" \in Stages
      BY DEF Stages
    <3> QED
      BY <1>1, <2>3, <3>1
  <2> QED
    BY <1>2, <2>1, <2>2, <2>3 DEF Quiet, CallsMove
<1>3. ASSUME NEW r \in runs, RunStarts(r) PROVE Apart'
  <2>1. runs' = (runs \ {r}) \cup {[r EXCEPT !.stage = "active"]} /\ "active" \in Stages
    BY <1>3 DEF RunStarts, Stages, Occupying
  <2> QED
    BY <1>1, <2>1
<1>4. ASSUME NEW r \in runs, NEW status \in {"ok", "error"}, RunEnds(r, status) PROVE Apart'
  <2> DEFINE S == IF r.stage = "active" THEN {[r EXCEPT !.stage = status]} ELSE {}
  <2>1. runs' = (runs \ {r}) \cup S /\ status \in Stages /\ S \in SUBSET {[r EXCEPT !.stage = status]}
    BY <1>4 DEF RunEnds, Stages, Occupying
  <2> HIDE DEF S
  <2> QED
    BY <1>1, <2>1
<1> QED
  BY <1>2, <1>3, <1>4, QuietSteps

LEMMA SpentStep ==
    ASSUME AInv, AInv', TickSound, SpentSound, [Next]_vars
    PROVE  SpentSound'
<1>1. CASE Crash
  BY <1>1 DEF Crash, SpentSound
<1>2. CASE ~Crash
  <2>1. ASSUME NEW q \in runs, q.stage = "abandoned", NEW f \in FiresOf(q) PROVE Spent(f)'
    <3>1. f \in Fires
      BY DEF FiresOf
    <3> QED
      BY <1>2, <2>1, <3>1, SpentStays DEF SpentSound
  <2>2. CASE Quiet
    <3>1. CASE runs' \subseteq runs
      BY <2>1, <3>1 DEF SpentSound
    <3>2. ASSUME NEW q \in Calls, NewCall(q), runs' = runs \cup {q} PROVE SpentSound'
      BY <2>1, <3>2 DEF SpentSound, NewCall
    <3>3. ASSUME NEW r \in runs, runs' = (runs \ {r}) \cup {[r EXCEPT !.stage = "abandoned"]},
                 \A f \in FiresOf(r) : states'[f] = "failed"
          PROVE  SpentSound'
      <4>1. "abandoned" \in Stages
        BY DEF Stages
      <4>2. \A q \in runs' : (q \in runs /\ q # r) \/ FiresOf(q) = FiresOf(r)
        BY <3>3, <4>1, Restaging
      <4>3. \A f \in FiresOf(r) : Spent(f)'
        BY <3>3 DEF Spent
      <4> QED
        BY <2>1, <4>2, <4>3 DEF SpentSound
    <3> QED
      BY <2>2, <3>1, <3>2, <3>3 DEF Quiet, CallsMove
  <2>3. ASSUME NEW r \in runs, RunStarts(r) PROVE SpentSound'
    <3>1. \A q \in runs' : (q \in runs /\ q # r) \/ q.stage = "active"
      BY <2>3, StartsCalls
    <3> QED
      BY <2>1, <3>1 DEF SpentSound
  <2>4. ASSUME NEW r \in runs, NEW status \in {"ok", "error"}, RunEnds(r, status) PROVE SpentSound'
    <3>1. \A q \in runs' : (q \in runs /\ q # r) \/ q.stage = status
      BY <2>4, EndsCalls
    <3> QED
      BY <2>1, <3>1 DEF SpentSound
  <2> QED
    BY <2>2, <2>3, <2>4, QuietSteps
<1> QED
  BY <1>1, <1>2

-------------------------------------------------------------------------------
(* What the history tells, while no record begins or is finished *)

LEMMA QuietHistory ==
    ASSUME AInv, RunsFound, OkIsDone, RecordsTrue, FinishedKnown, WaitingFresh, Quiet
    PROVE  RunsFound' /\ OkIsDone' /\ RecordsTrue' /\ FinishedKnown' /\ WaitingFresh'
<1>1. UNCHANGED <<records, finished, done, misnamed, forgotten>> /\ CallsMove /\ BatchMove
  BY DEF Quiet
<1>2. /\ \A f, id : FoundIn(f, id)' <=> FoundIn(f, id)
      /\ \A f : Existing(f)' = Existing(f) /\ (Known(f)' <=> Known(f))
      /\ Excused' = Excused
  BY <1>1 DEF FoundIn, Existing, Known, Naming, Found, Excused
<1>3. \A q \in runs' : \/ q \in runs
                       \/ (q.stage = "waiting" /\ \A f \in FiresOf(q) : Entering(f))
                       \/ (q.stage = "abandoned" /\ \E r \in runs : r.stage = "active" /\ FiresOf(q) = FiresOf(r) /\ RunId(q) = RunId(r))
  <2>1. CASE runs' \subseteq runs
    BY <2>1
  <2>2. ASSUME NEW c \in Calls, NewCall(c), runs' = runs \cup {c}
        PROVE  \A q \in runs' : q \in runs \/ (q.stage = "waiting" /\ \A f \in FiresOf(q) : Entering(f))
    BY <2>2 DEF NewCall
  <2>3. ASSUME NEW r \in runs, r.stage = "active", runs' = (runs \ {r}) \cup {[r EXCEPT !.stage = "abandoned"]}
        PROVE  \A q \in runs' : q \in runs \/ (q.stage = "abandoned" /\ FiresOf(q) = FiresOf(r) /\ RunId(q) = RunId(r))
    <3>1. "abandoned" \in Stages
      BY DEF Stages
    <3> QED
      BY <2>3, <3>1, Restaging
  <2> QED
    BY <1>1, <2>1, <2>2, <2>3 DEF CallsMove
<1>4. RunsFound'
  <2> SUFFICES ASSUME NEW q \in runs', NEW f \in Fires, q.stage # "waiting", f \notin misnamed
               PROVE  /\ f \in FiresOf(q) => FoundIn(f, RunId(q)) \/ f \in forgotten
                      /\ FoundIn(f, RunId(q)) => f \in FiresOf(q)
    BY <1>1, <1>2 DEF RunsFound
  <2>1. PICK r \in runs : r.stage # "waiting" /\ FiresOf(q) = FiresOf(r) /\ RunId(q) = RunId(r)
    BY <1>3
  <2> QED
    BY <2>1 DEF RunsFound
<1>5. OkIsDone'
  BY <1>1, <1>3 DEF OkIsDone
<1>6. RecordsTrue' /\ FinishedKnown'
  BY <1>1, <1>2 DEF RecordsTrue, FinishedKnown
<1>7. WaitingFresh'
  <2> SUFFICES ASSUME NEW f \in Fires, f \in finished, f \notin Excused
               PROVE  ~InList(batch', f) /\ \A q \in runs' : q.stage = "waiting" => f \notin FiresOf(q)
    BY <1>1, <1>2 DEF WaitingFresh, InList
  <2>1. ~InList(batch, f) /\ \A q \in runs : q.stage = "waiting" => f \notin FiresOf(q)
    BY DEF WaitingFresh
  <2>2. Known(f)
    BY DEF FinishedKnown
  <2>3. ~Entering(f)
    BY <2>1, <2>2 DEF Entering
  <2> QED
    BY <1>1, <1>3, <2>1, <2>3 DEF BatchMove
<1> QED
  BY <1>4, <1>5, <1>6, <1>7

\* A run begins with the record it has already.
LEMMA TakenHistory ==
    ASSUME AInv, ShapeInv, RunsFound, OkIsDone, RecordsTrue, FinishedKnown, WaitingFresh,
           NEW r \in runs, RunStarts(r), \E i \in DOMAIN records : records[i].id = RunId(r)
    PROVE  RunsFound' /\ OkIsDone' /\ RecordsTrue' /\ FinishedKnown' /\ WaitingFresh'
<1>1. BeginRun(r) /\ finished' = finished /\ done' = done
  BY DEF RunStarts
<1>2. /\ batch' = batch
      /\ \A q \in runs' : \/ q \in runs /\ q # r
                          \/ /\ q.stage = "active" /\ FiresOf(q) = FiresOf(r) /\ RunId(q) = RunId(r)
  BY StartsCalls
<1>3. /\ records' = records /\ forgotten' = forgotten /\ misnamed \subseteq misnamed'
      /\ \A f \in Fires : f \notin misnamed' => (f \in FiresOf(r) <=> FoundIn(f, RunId(r)))
  BY <1>1, BeginTaken
<1>4. /\ \A f, id : FoundIn(f, id)' <=> FoundIn(f, id)
      /\ \A f : Existing(f)' = Existing(f) /\ (Known(f)' <=> Known(f))
      /\ Excused \subseteq Excused'
  BY <1>3 DEF FoundIn, Existing, Known, Naming, Found, Excused
<1>5. RunsFound'
  <2> SUFFICES ASSUME NEW q \in runs', NEW f \in Fires, q.stage # "waiting", f \notin misnamed'
               PROVE  /\ f \in FiresOf(q) => FoundIn(f, RunId(q)) \/ f \in forgotten
                      /\ FoundIn(f, RunId(q)) => f \in FiresOf(q)
    BY <1>3, <1>4 DEF RunsFound
  <2>1. CASE q \in runs
    BY <1>3, <2>1 DEF RunsFound
  <2>2. CASE FiresOf(q) = FiresOf(r) /\ RunId(q) = RunId(r)
    BY <1>3, <2>2
  <2> QED
    BY <1>2, <2>1, <2>2
<1>6. OkIsDone'
  BY <1>1, <1>2 DEF OkIsDone
<1>7. RecordsTrue' /\ FinishedKnown'
  BY <1>1, <1>3, <1>4 DEF RecordsTrue, FinishedKnown
<1>8. WaitingFresh'
  BY <1>1, <1>2, <1>4 DEF WaitingFresh, InList
<1> QED
  BY <1>5, <1>6, <1>7, <1>8

\* A run begins with a record of its own, the newest.
LEMMA NewHistory ==
    ASSUME AInv, ShapeInv, Apart, RunsFound, OkIsDone, RecordsTrue, FinishedKnown, WaitingFresh,
           NEW r \in runs, RunStarts(r), ~ \E i \in DOMAIN records : records[i].id = RunId(r)
    PROVE  RunsFound' /\ OkIsDone' /\ RecordsTrue' /\ FinishedKnown' /\ WaitingFresh'
<1>1. BeginRun(r) /\ finished' = finished /\ done' = done
  BY DEF RunStarts
<1>2. /\ batch' = batch /\ r \in Calls /\ r.stage = "waiting"
      /\ \A q \in runs' : \/ q \in runs /\ q # r
                          \/ /\ q.stage = "active" /\ FiresOf(q) = FiresOf(r) /\ RunId(q) = RunId(r)
  BY StartsCalls
<1>3. RecordShape /\ r.fires # <<>>
  BY DEF ShapeInv, CallShape
<1>4. /\ misnamed' = misnamed /\ forgotten \subseteq forgotten'
      /\ \A f \in Fires : f \in FiresOf(r) => /\ Naming(f)' # {} /\ Found(f)'.id = RunId(r)
                                              /\ Found(f)'.status = "running"
      /\ \A f \in Fires : f \notin FiresOf(r) /\ Naming(f)' # {} => Naming(f) # {} /\ Found(f)' = Found(f)
      /\ \A f \in Fires : f \notin FiresOf(r) /\ Naming(f)' = {} /\ Naming(f) # {} => f \in forgotten'
  BY <1>1, <1>2, <1>3, BeginNew
<1>5. \A f : ~FoundIn(f, RunId(r))
  BY <1>3, FoundHere DEF FoundIn
<1>6. \A f \in FiresOf(r) : FoundIn(f, RunId(r))' /\ Existing(f)' = "running"
  <2>1. FiresOf(r) \subseteq Fires
    BY DEF FiresOf
  <2>2. ASSUME NEW f \in FiresOf(r) PROVE FoundIn(f, RunId(r))' /\ Existing(f)' = "running"
    <3>1. /\ Naming(f)' # {} /\ Found(f)'.id = RunId(r)
          /\ Found(f)'.status = "running"
      BY <1>4, <2>1
    <3>2. RunId(r)' = RunId(r)
      OBVIOUS
    <3> QED
      BY <3>1, <3>2 DEF FoundIn, Existing
  <2> QED
    BY <2>2
<1>7. ASSUME NEW f \in Fires, f \notin FiresOf(r)
      PROVE  /\ \A id : FoundIn(f, id)' => FoundIn(f, id)
             /\ \A id : FoundIn(f, id) => FoundIn(f, id)' \/ f \in forgotten'
             /\ Existing(f)' = "ok" => Existing(f) = "ok"
             /\ Known(f) => Known(f)' \/ f \in forgotten'
  BY <1>4, <1>7 DEF FoundIn, Existing, Known
<1>8. Excused \subseteq Excused'
  BY <1>4 DEF Excused
<1>9. RunsFound'
  <2> SUFFICES ASSUME NEW q \in runs', NEW f \in Fires, q.stage # "waiting", f \notin misnamed
               PROVE  /\ f \in FiresOf(q) => FoundIn(f, RunId(q))' \/ f \in forgotten'
                      /\ FoundIn(f, RunId(q))' => f \in FiresOf(q)
    BY <1>4 DEF RunsFound
  <2>1. CASE FiresOf(q) = FiresOf(r) /\ RunId(q) = RunId(r)
    BY <1>5, <1>6, <1>7, <2>1
  <2>2. CASE q \in runs /\ q # r
    <3>1. CASE f \in FiresOf(r)
      <4>1. f \notin FiresOf(q)
        BY <2>2, <3>1 DEF Apart
      <4>2. ASSUME FoundIn(f, RunId(q))' PROVE FALSE
        <5>1. RunId(q) = RunId(r)
          BY <1>4, <3>1, <4>2 DEF FoundIn
        <5>2. q \in Calls /\ q.fires # <<>>
          BY <2>2 DEF AInv, Shape, Calls, ShapeInv, CallShape
        <5>3. RunId(r) \in FiresOf(r) /\ RunId(r) \in Fires
          BY <1>2, <1>3, <3>1, CallOf
        <5>4. RunId(q) \in FiresOf(q)
          BY <5>1, <5>2, <5>3, CallOf
        <5> QED
          BY <2>2, <5>1, <5>3, <5>4 DEF Apart
      <4> QED
        BY <4>1, <4>2
    <3>2. CASE f \notin FiresOf(r)
      BY <1>4, <1>7, <2>2, <3>2 DEF RunsFound
    <3> QED
      BY <3>1, <3>2
  <2> QED
    BY <1>2, <2>1, <2>2
<1>10. OkIsDone'
  BY <1>1, <1>2 DEF OkIsDone
<1>11. RecordsTrue'
  <2> SUFFICES ASSUME NEW f \in Fires, Existing(f)' = "ok" PROVE f \in done \cup misnamed
    BY <1>1, <1>4 DEF RecordsTrue
  <2>1. f \notin FiresOf(r)
    BY <1>6
  <2> QED
    BY <1>7, <2>1 DEF RecordsTrue
<1>12. FinishedKnown'
  <2> SUFFICES ASSUME NEW f \in Fires, f \in finished, f \notin Excused' PROVE Known(f)'
    BY <1>1 DEF FinishedKnown
  <2>1. f \notin Excused /\ f \notin forgotten'
    BY <1>8 DEF Excused
  <2>2. f \notin FiresOf(r)
    BY <1>2, <2>1 DEF WaitingFresh
  <2> QED
    BY <1>7, <2>1, <2>2 DEF FinishedKnown
<1>13. WaitingFresh'
  BY <1>1, <1>2, <1>8 DEF WaitingFresh, InList
<1> QED
  BY <1>9, <1>10, <1>11, <1>12, <1>13

\* A run ends, and its record is finished.
LEMMA EndHistory ==
    ASSUME AInv, ShapeInv, SpentSound, Apart, RunsFound, OkIsDone, RecordsTrue, FinishedKnown, WaitingFresh,
           NEW r \in runs, NEW status \in {"ok", "error"}, RunEnds(r, status)
    PROVE  RunsFound' /\ OkIsDone' /\ RecordsTrue' /\ FinishedKnown' /\ WaitingFresh'
<1>1. /\ batch' = batch /\ r \in Calls /\ r.stage \in {"active", "abandoned"}
      /\ \A q \in runs' : \/ q \in runs /\ q # r
                          \/ /\ q.stage = status /\ FiresOf(q) = FiresOf(r) /\ RunId(q) = RunId(r)
  BY EndsCalls
<1>2. FinishRun(r, status) /\ RecordShape
  BY DEF RunEnds, ShapeInv
<1>3. /\ finished' = finished \cup FiresOf(r) /\ done \subseteq done'
      /\ status = "ok" => FiresOf(r) \subseteq done'
      /\ misnamed' = misnamed /\ forgotten' = forgotten
      /\ \A f : /\ Naming(f)' = Naming(f)
                /\ Naming(f) # {} => /\ Found(f)'.id = Found(f).id
                                     /\ Found(f)'.status = IF Found(f).id = RunId(r) THEN status
                                                           ELSE Found(f).status
  BY <1>1, <1>2, FinishEffect
<1>4. \A f, id : FoundIn(f, id)' <=> FoundIn(f, id)
  BY <1>3 DEF FoundIn
<1>5. \A f : Existing(f)' = IF FoundIn(f, RunId(r)) THEN status ELSE Existing(f)
  BY <1>3 DEF Existing, FoundIn
<1>6. Excused' = Excused
  BY <1>3 DEF Excused
<1>7. RunsFound'
  <2> SUFFICES ASSUME NEW q \in runs', NEW f \in Fires, q.stage # "waiting", f \notin misnamed
               PROVE  /\ f \in FiresOf(q) => FoundIn(f, RunId(q)) \/ f \in forgotten
                      /\ FoundIn(f, RunId(q)) => f \in FiresOf(q)
    BY <1>3, <1>4 DEF RunsFound
  <2>1. \E p \in runs : p.stage # "waiting" /\ FiresOf(q) = FiresOf(p) /\ RunId(q) = RunId(p)
    BY <1>1
  <2> QED
    BY <2>1 DEF RunsFound
<1>8. OkIsDone'
  BY <1>1, <1>3 DEF OkIsDone
<1>9. RecordsTrue'
  <2> SUFFICES ASSUME NEW f \in Fires, Existing(f)' = "ok" PROVE f \in done' \cup misnamed
    BY <1>3 DEF RecordsTrue
  <2>1. CASE FoundIn(f, RunId(r)) /\ f \notin misnamed
    <3>1. f \in FiresOf(r) /\ status = "ok"
      BY <1>1, <1>5, <2>1 DEF RunsFound
    <3> QED
      BY <1>3, <3>1
  <2>2. CASE ~FoundIn(f, RunId(r))
    BY <1>3, <1>5, <2>2 DEF RecordsTrue
  <2> QED
    BY <2>1, <2>2
<1>10. FinishedKnown'
  <2> SUFFICES ASSUME NEW f \in Fires, f \in finished', f \notin Excused PROVE Known(f)'
    BY <1>6 DEF FinishedKnown
  <2>1. CASE f \in FiresOf(r)
    <3>1. FoundIn(f, RunId(r))
      BY <1>1, <2>1 DEF RunsFound, Excused
    <3> QED
      BY <1>5, <3>1 DEF Known
  <2>2. CASE f \in finished
    BY <1>5, <2>2 DEF FinishedKnown, Known
  <2> QED
    BY <1>3, <2>1, <2>2
<1>11. WaitingFresh'
  <2> SUFFICES ASSUME NEW f \in Fires, f \in finished', f \notin Excused
               PROVE  ~InList(batch, f) /\ \A q \in runs' : q.stage = "waiting" => f \notin FiresOf(q)
    BY <1>1, <1>6 DEF WaitingFresh, InList
  <2>1. CASE f \in finished
    BY <1>1, <2>1 DEF WaitingFresh
  <2>2. CASE f \in FiresOf(r)
    <3>1. ~InList(batch, f)
      BY <2>2, EnteringIsFree DEF Entering
    <3>2. \A q \in runs : q # r => f \notin FiresOf(q)
      BY <2>2 DEF Apart
    <3> QED
      BY <1>1, <3>1, <3>2
  <2> QED
    BY <1>3, <2>1, <2>2
<1> QED
  BY <1>7, <1>8, <1>9, <1>10, <1>11

LEMMA HistoryInit == Init => HistoryInv
<1> SUFFICES ASSUME Init PROVE HistoryInv
  OBVIOUS
<1>1. runs = {} /\ records = <<>> /\ finished = {} /\ tick.phase = "idle"
  BY DEF Init, Idle
<1>2. \A f : Existing(f) = "none"
  BY <1>1 DEF Existing, Naming
<1>3. TickSound /\ SpentSound /\ Apart /\ RunsFound /\ OkIsDone
  BY <1>1 DEF TickSound, SpentSound, Apart, RunsFound, OkIsDone
<1>4. RecordsTrue /\ FinishedKnown /\ WaitingFresh
  BY <1>1, <1>2 DEF RecordsTrue, FinishedKnown, WaitingFresh
<1>5. StatesTrue /\ SuccessIsTrue
  BY DEF Init, StatesTrue, SuccessIsTrue
<1> QED
  BY <1>3, <1>4, <1>5 DEF HistoryInv

LEMMA HistoryGrows ==
    ASSUME AInv, ShapeInv, [Next]_vars
    PROVE  done \subseteq done' /\ misnamed \subseteq misnamed'
<1>1. CASE Quiet
  BY <1>1 DEF Quiet
<1>2. ASSUME NEW r \in runs, RunStarts(r) PROVE done \subseteq done' /\ misnamed \subseteq misnamed'
  BY <1>2 DEF RunStarts, BeginRun
<1>3. ASSUME NEW r \in runs, NEW status \in {"ok", "error"}, RunEnds(r, status)
      PROVE  done \subseteq done' /\ misnamed \subseteq misnamed'
  BY <1>3 DEF RunEnds, FinishRun
<1> QED
  BY <1>1, <1>2, <1>3, QuietSteps

LEMMA HistoryStep == AInv /\ AInv' /\ ShapeInv /\ HistoryInv /\ [Next]_vars => HistoryInv'
<1> SUFFICES ASSUME AInv, AInv', ShapeInv, HistoryInv, [Next]_vars PROVE HistoryInv'
  OBVIOUS
<1>1. /\ TickSound /\ SpentSound /\ Apart /\ RunsFound /\ OkIsDone /\ RecordsTrue
      /\ StatesTrue /\ FinishedKnown /\ WaitingFresh /\ SuccessIsTrue
  BY DEF HistoryInv
<1>2. TickSound'
  BY <1>1, TickStep
<1>3. SpentSound'
  BY <1>1, SpentStep
<1>4. Apart'
  BY <1>1, ApartStep
<1>5. RunsFound' /\ OkIsDone' /\ RecordsTrue' /\ FinishedKnown' /\ WaitingFresh'
  <2>1. CASE Quiet
    BY <1>1, <2>1, QuietHistory
  <2>2. ASSUME NEW r \in runs, RunStarts(r)
        PROVE  RunsFound' /\ OkIsDone' /\ RecordsTrue' /\ FinishedKnown' /\ WaitingFresh'
    BY <1>1, <2>2, TakenHistory, NewHistory
  <2>3. ASSUME NEW r \in runs, NEW status \in {"ok", "error"}, RunEnds(r, status)
        PROVE  RunsFound' /\ OkIsDone' /\ RecordsTrue' /\ FinishedKnown' /\ WaitingFresh'
    BY <1>1, <2>3, EndHistory
  <2> QED
    BY <2>1, <2>2, <2>3, QuietSteps
<1>6. done \subseteq done' /\ misnamed \subseteq misnamed'
  BY HistoryGrows
<1>7. StatesTrue'
  BY <1>1, <1>6, SuccessFrom DEF StatesTrue, RecordsTrue, OkIsDone
<1>8. SuccessIsTrue'
  BY <1>1, <1>6, ToldFrom DEF StatesTrue, SuccessIsTrue
<1> QED
  BY <1>2, <1>3, <1>4, <1>5, <1>7, <1>8 DEF HistoryInv

LEMMA HistoryInvariance == Spec => [](AInv /\ ShapeInv /\ HistoryInv)
<1>1. Spec => []ShapeInv
  BY FiresInvariance, ShapeInit, ShapeStep, PTL DEF Spec
<1> QED
  BY <1>1, FiresInvariance, HistoryInit, HistoryStep, PTL DEF Spec

-------------------------------------------------------------------------------
(* Theorems about the history *)

\* The variables have their types, and the batch and the history their bounds.
THEOREM FiresTyped == Spec => []TypeOK
<1>1. AInv /\ ShapeInv => TypeOK
  <2> SUFFICES ASSUME AInv, ShapeInv PROVE TypeOK
    OBVIOUS
  <2>1. Shape /\ RecordShape /\ OtherShape
    BY DEF AInv, ShapeInv
  <2>2. runs \subseteq [fires : Seq(Items \cup ScheduleFires), stage : {"waiting", "abandoned"} \cup Occupying]
    BY <2>1 DEF Shape, Stages
  <2>3. records \in Seq([id : Fires \cup LocalEvents, also : SUBSET Fires, status : {"running", "ok", "error"}])
    BY <2>1 DEF RecordShape, Records
  <2>4. finished \cup done \cup misnamed \cup forgotten \subseteq Fires \cup LocalEvents
    BY <2>1 DEF RecordShape
  <2> QED
    BY <2>1, <2>2, <2>3, <2>4 DEF TypeOK, Shape, RecordShape, OtherShape
<1> QED
  BY <1>1, HistoryInvariance, PTL

\* The server is told of a success only if a run with this fire's event ended well,
\* unless another run took over its record.
THEOREM ToldSuccessesAreTrue == Spec => []SuccessIsTrue
<1>1. HistoryInv => SuccessIsTrue
  BY DEF HistoryInv
<1> QED
  BY <1>1, HistoryInvariance, PTL

LEMMA NothingRerunStep ==
    ASSUME AInv, HistoryInv, [Next]_vars, NEW q \in runs' \ runs, q.stage = "active"
    PROVE  FiresOf(q) \cap finished \subseteq misnamed \cup forgotten
<1>1. WaitingFresh
  BY DEF HistoryInv
<1>2. CASE Quiet
  <2>1. CASE runs' \subseteq runs
    BY <2>1
  <2>2. ASSUME NEW c \in Calls, NewCall(c), runs' = runs \cup {c} PROVE FALSE
    BY <2>2 DEF NewCall
  <2>3. ASSUME NEW r \in runs, runs' = (runs \ {r}) \cup {[r EXCEPT !.stage = "abandoned"]} PROVE FALSE
    <3>1. "abandoned" \in Stages
      BY DEF Stages
    <3>2. q \in runs \/ q.stage = "abandoned"
      BY <2>3, <3>1, Restaging
    <3> QED
      BY <3>2
  <2> QED
    BY <1>2, <2>1, <2>2, <2>3 DEF Quiet, CallsMove
<1>3. ASSUME NEW r \in runs, RunStarts(r) PROVE FiresOf(q) \cap finished \subseteq misnamed \cup forgotten
  <2>1. r.stage = "waiting" /\ FiresOf(q) = FiresOf(r) /\ FiresOf(r) \subseteq Fires
    BY <1>3, StartsCalls DEF FiresOf
  <2> QED
    BY <1>1, <2>1 DEF WaitingFresh, Excused
<1>4. ASSUME NEW r \in runs, NEW status \in {"ok", "error"}, RunEnds(r, status) PROVE FALSE
  <2>1. q \in runs \/ q.stage = status
    BY <1>4, EndsCalls
  <2> QED
    BY <2>1
<1> QED
  BY <1>2, <1>3, <1>4, QuietSteps

\* A fire whose run was finished is not run again, unless its record has left the
\* history or is not the one that is looked up.
THEOREM NothingIsRerun == Spec => FinishedIsNotRerun
<1> DEFINE Fresh == \A r \in runs' \ runs :
                       r.stage = "active" => FiresOf(r) \cap finished \subseteq misnamed \cup forgotten
<1>1. AInv /\ ShapeInv /\ HistoryInv /\ [Next]_vars => [Fresh]_vars
  BY NothingRerunStep
<1> QED
  BY <1>1, HistoryInvariance, PTL DEF FinishedIsNotRerun, Spec
================================================================================
