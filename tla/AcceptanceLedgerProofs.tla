------------------------ MODULE AcceptanceLedgerProofs ------------------------
(***************************************************************************)
(* "not-found" and "found" can be believed, a doubt never decays, and the  *)
(* cap holds, for any nonces and any cap; and the gaps cover every loss,   *)
(* for any times and any number of windows kept.                           *)
(*                                                                         *)
(* What memory can answer follows from memory alone (MemoryCovers), but it *)
(* has to be rebuilt from the disk after a crash, so the invariant says    *)
(* what the disk holds whenever the ledger is not degraded (DiskCovers),   *)
(* and that a degraded ledger has left a marker unless the marker could    *)
(* not be written (MarkerRaised).  That is LInv.  FInv, for what is found  *)
(* and for the cap, says that memory and the file hold each nonce once,    *)
(* within the cap, and nothing that was not recorded.                      *)
(***************************************************************************)
EXTENDS AcceptanceLedger, AcceptanceGaps, SequenceTheorems, TLAPS

DiskDoubts == file.gaps # {} \/ file.damaged \/ marker

MemoryCovers == (loaded /\ ~blind) => \A n \in recorded : n \in Keys(records) \/ gaps # {} \/ degraded
DiskCovers == (~blind /\ ~degraded) => DiskDoubts \/ (gaps = {} /\ recorded \subseteq Keys(file.records))
MarkerKnown == markerMayExist => marker
MarkerRaised == (degraded /\ ~blind) => unmarked \/ marker
Unloaded == ~loaded => gaps = {} /\ ~degraded

LInv == TypeOK /\ MemoryCovers /\ DiskCovers /\ MarkerKnown /\ MarkerRaised /\ Unloaded

-------------------------------------------------------------------------------
(* The records *)

\* r is recs without its entry i: each entry left has a place in recs other than i,
\* and each entry but i has a place in r.
LeavesOut(r, recs, i) ==
    /\ r \in Seq(Records) /\ Len(r) = Len(recs) - 1
    /\ Len(r) \in Nat /\ DOMAIN r = 1..Len(r)
    /\ \A j \in 1..Len(r) : \E k \in DOMAIN recs :
          k # i /\ r[j] = recs[k] /\ k = (IF j < i THEN j ELSE j + 1)
    /\ \A k \in DOMAIN recs : k # i => \E j \in 1..Len(r) : r[j] = recs[k]

LEMMA Removal ==
    ASSUME NEW recs \in Seq(Records), NEW i \in DOMAIN recs
    PROVE  LeavesOut(RemoveIndex(recs, i), recs, i)
<1> DEFINE n == Len(recs)
           r == RemoveIndex(recs, i)
<1>1. n \in Nat /\ i \in 1..n /\ DOMAIN recs = 1..n /\ \A k \in 1..n : recs[k] \in Records
  OBVIOUS
<1>2. /\ n - 1 \in Nat /\ r \in [1..(n - 1) -> Records]
      /\ \A j \in 1..(n - 1) : r[j] = IF j < i THEN recs[j] ELSE recs[j + 1]
  <2>1. \A j \in 1..(n - 1) : (IF j < i THEN recs[j] ELSE recs[j + 1]) \in Records
    BY <1>1
  <2> QED
    BY <1>1, <2>1 DEF RemoveIndex
<1>3. r \in Seq(Records) /\ Len(r) = n - 1 /\ DOMAIN r = 1..(n - 1)
  <2>1. r \in Seq(Records)
    BY <1>2, SeqDef
  <2> QED
    BY <1>2, <2>1
<1> HIDE DEF n, r
<1>4. ASSUME NEW j \in 1..(n - 1)
      PROVE  \E k \in 1..n : k # i /\ r[j] = recs[k] /\ k = (IF j < i THEN j ELSE j + 1)
  <2> DEFINE k == IF j < i THEN j ELSE j + 1
  <2>1. k \in 1..n /\ k # i /\ r[j] = recs[k]
    BY <1>1, <1>2
  <2> QED
    BY <2>1
<1>5. ASSUME NEW k \in 1..n, k # i PROVE \E j \in 1..(n - 1) : r[j] = recs[k]
  <2> DEFINE j == IF k < i THEN k ELSE k - 1
  <2>1. j \in 1..(n - 1) /\ r[j] = recs[k]
    BY <1>1, <1>2, <1>5
  <2> QED
    BY <2>1
<1> QED
  <2>1. LeavesOut(r, recs, i)
    BY <1>1, <1>2, <1>3, <1>4, <1>5 DEF n, LeavesOut
  <2> QED
    BY <2>1 DEF r

\* A record more, at the end.
LEMMA AppendRecord ==
    ASSUME NEW recs \in Seq(Records), NEW rec \in Records
    PROVE  /\ Append(recs, rec) \in Seq(Records)
           /\ Keys(Append(recs, rec)) = Keys(recs) \cup {rec.nonce}
<1> DEFINE a == Append(recs, rec)
           n == Len(recs)
<1>1. /\ n \in Nat /\ DOMAIN recs = 1..n /\ DOMAIN a = 1..(n + 1)
      /\ a \in Seq(Records) /\ a[n + 1] = rec /\ \A i \in 1..n : a[i] = recs[i]
  OBVIOUS
<1> HIDE DEF a, n
<1>2. \A v : v \in Elements(a) <=> v \in Elements(recs) \/ v = rec
  BY <1>1 DEF Elements
<1>3. Elements(a) = Elements(recs) \cup {rec}
  BY <1>2
<1> QED
  BY <1>1, <1>3 DEF Keys, a

\* A mark changes no key.
LEMMA WithStatusKeys ==
    ASSUME NEW recs \in Seq(Records), NEW n \in Nonces, NEW status \in Statuses
    PROVE  /\ WithStatus(recs, n, status) \in Seq(Records)
           /\ Keys(WithStatus(recs, n, status)) = Keys(recs)
<1> DEFINE ws == WithStatus(recs, n, status)
           len == Len(recs)
<1>1. len \in Nat /\ DOMAIN recs = 1..len /\ \A i \in 1..len : recs[i] \in Records
  OBVIOUS
<1>2. DOMAIN ws = 1..len
  BY <1>1 DEF WithStatus
<1>3. \A i \in 1..len : ws[i] \in Records /\ ws[i].nonce = recs[i].nonce
  BY <1>1 DEF WithStatus, Records
<1>4. ws \in [1..len -> Records]
  BY <1>1, <1>2, <1>3 DEF WithStatus
<1>5. ws \in Seq(Records)
  BY <1>1, <1>4, SeqDef
<1> HIDE DEF ws, len
<1>6. Keys(ws) = {ws[i].nonce : i \in 1..len}
  BY <1>2 DEF Keys, Elements
<1>7. Keys(recs) = {recs[i].nonce : i \in 1..len}
  BY <1>1 DEF Keys, Elements
<1> QED
  BY <1>3, <1>5, <1>6, <1>7 DEF ws

\* Removing a record removes at most its own nonce.
LEMMA RemoveKeys ==
    ASSUME NEW recs \in Seq(Records), NEW i \in DOMAIN recs
    PROVE  /\ RemoveIndex(recs, i) \in Seq(Records)
           /\ recs[i].nonce \in Nonces
           /\ Keys(recs) \ {recs[i].nonce} \subseteq Keys(RemoveIndex(recs, i))
<1> DEFINE r == RemoveIndex(recs, i)
<1>1. LeavesOut(r, recs, i)
  BY Removal
<1>2. recs[i] \in Records
  OBVIOUS
<1> HIDE DEF r
<1>3. ASSUME NEW v \in Elements(recs), v # recs[i] PROVE v \in Elements(r)
  <2>1. PICK k \in DOMAIN recs : v = recs[k] /\ k # i
    BY <1>3 DEF Elements
  <2> QED
    BY <1>1, <2>1 DEF LeavesOut, Elements
<1> QED
  BY <1>1, <1>2, <1>3 DEF LeavesOut, Keys, Records, r

-------------------------------------------------------------------------------
(* persist *)

\* A write that succeeds leaves the disk equal to memory with a gap for the
\* degraded period it ends; one that fails leaves a marker, if it can.
LEMMA PersistEffect ==
    ASSUME TypeOK, NEW recs \in Seq(Records), NEW gs \in SUBSET GapKinds, NEW known \in BOOLEAN,
           known => marker, Persist(recs, gs, known)
    PROVE  /\ records' = recs /\ gs \subseteq gaps' /\ gaps' \subseteq GapKinds
           /\ degraded' \in BOOLEAN /\ markerMayExist' \in BOOLEAN /\ unmarked' \in BOOLEAN
           /\ marker' \in BOOLEAN /\ (markerMayExist' => marker')
           /\ file' \in [records : Seq(Records), gaps : SUBSET GapKinds, damaged : BOOLEAN]
           /\ \/ /\ ~degraded' /\ file'.records = recs /\ file'.gaps = gaps' /\ ~file'.damaged
                 /\ degraded => gaps' # {}
              \/ degraded' /\ gaps' = gs /\ file' = file /\ (unmarked' \/ marker')
<1>1. PICK markerDone \in BOOLEAN : \/ PersistWritten(recs, gs, known, markerDone)
                                    \/ PersistFailed(recs, gs, known, markerDone)
  BY DEF Persist
<1>2. records' = recs
  BY DEF Persist
<1>3. CASE PersistWritten(recs, gs, known, markerDone)
  <2> DEFINE g == gs \cup (IF degraded THEN {"degraded"} ELSE {})
  <2>1. g \subseteq GapKinds /\ gs \subseteq g /\ (degraded => g # {})
    BY DEF GapKinds
  <2>2. /\ file' = [records |-> recs, gaps |-> g, damaged |-> FALSE] /\ gaps' = g
        /\ degraded' = FALSE /\ unmarked' = FALSE
        /\ marker' = (marker /\ ~(known /\ markerDone)) /\ markerMayExist' = (known /\ ~markerDone)
    BY <1>3 DEF PersistWritten
  <2>3. marker' \in BOOLEAN /\ markerMayExist' \in BOOLEAN /\ (markerMayExist' => marker')
    BY <2>2 DEF TypeOK
  <2> HIDE DEF g
  <2> QED
    BY <1>2, <2>1, <2>2, <2>3
<1>4. CASE PersistFailed(recs, gs, known, markerDone)
  <2>1. /\ gaps' = gs /\ degraded' = TRUE /\ file' = file
        /\ marker' = (marker \/ (~known /\ markerDone)) /\ markerMayExist' = (known \/ markerDone)
        /\ unmarked' = (~known /\ ~markerDone)
    BY <1>4 DEF PersistFailed
  <2>2. /\ marker' \in BOOLEAN /\ markerMayExist' \in BOOLEAN /\ unmarked' \in BOOLEAN
        /\ (markerMayExist' => marker') /\ (unmarked' \/ marker')
    BY <2>1 DEF TypeOK
  <2> QED
    BY <1>2, <2>1, <2>2 DEF TypeOK
<1> QED
  BY <1>1, <1>3, <1>4

\* A write keeps the invariant if what is written covers what is recorded.
LEMMA PersistKeeps ==
    ASSUME LInv, NEW recs \in Seq(Records), NEW gs \in SUBSET GapKinds, NEW known \in BOOLEAN,
           known => marker, Persist(recs, gs, known),
           loaded', recorded' \subseteq Nonces, blind' \in BOOLEAN, stale' \in BOOLEAN,
           blind' \/ gs # {} \/ degraded \/ recorded' \subseteq Keys(recs)
    PROVE  LInv' /\ (gs # {} \/ degraded => Doubtful')
<1>1. /\ records' = recs /\ gs \subseteq gaps' /\ gaps' \subseteq GapKinds
      /\ degraded' \in BOOLEAN /\ markerMayExist' \in BOOLEAN /\ unmarked' \in BOOLEAN
      /\ marker' \in BOOLEAN /\ (markerMayExist' => marker')
      /\ file' \in [records : Seq(Records), gaps : SUBSET GapKinds, damaged : BOOLEAN]
      /\ \/ /\ ~degraded' /\ file'.records = recs /\ file'.gaps = gaps' /\ ~file'.damaged
            /\ degraded => gaps' # {}
         \/ degraded' /\ gaps' = gs /\ file' = file /\ (unmarked' \/ marker')
  BY PersistEffect DEF LInv
<1>2. TypeOK'
  BY <1>1 DEF TypeOK
<1>3. MemoryCovers'
  BY <1>1 DEF MemoryCovers
<1>4. DiskCovers'
  BY <1>1 DEF DiskCovers, DiskDoubts
<1>5. MarkerKnown' /\ MarkerRaised' /\ Unloaded'
  BY <1>1 DEF MarkerKnown, MarkerRaised, Unloaded
<1> QED
  BY <1>1, <1>2, <1>3, <1>4, <1>5 DEF LInv, Doubtful

-------------------------------------------------------------------------------
(* The steps *)

LEMMA NoRecords == <<>> \in Seq(Records)
  OBVIOUS

LEMMA LedgerInit == Init => LInv
<1> SUFFICES ASSUME Init PROVE LInv
  OBVIOUS
<1>1. file \in [records : Seq(Records), gaps : SUBSET GapKinds, damaged : BOOLEAN]
  BY NoRecords DEF Init
<1>2. TypeOK
  BY <1>1, NoRecords DEF Init, TypeOK
<1> QED
  BY <1>2 DEF Init, LInv, MemoryCovers, DiskCovers, DiskDoubts, MarkerKnown, MarkerRaised, Unloaded

\* Every step keeps the invariant and every doubt.
LEMMA LedgerStep == LInv /\ [Next]_vars => LInv' /\ (Doubtful => Doubtful' \/ blind')
<1> SUFFICES ASSUME LInv, [Next]_vars PROVE LInv' /\ (Doubtful => Doubtful' \/ blind')
  OBVIOUS
<1> USE CapAssumption
<1>1. TypeOK /\ records \in Seq(Records) /\ gaps \in SUBSET GapKinds /\ markerMayExist \in BOOLEAN
      /\ (markerMayExist => marker)
  BY DEF LInv, TypeOK, MarkerKnown
\* What an operation of a loaded ledger writes has to cover what is recorded.
<1>2. ASSUME loaded, loaded', blind' = blind, stale' = stale, recorded' \subseteq Nonces,
             NEW recs \in Seq(Records), NEW gs \in SUBSET GapKinds, gaps \subseteq gs,
             Persist(recs, gs, markerMayExist),
             blind \/ gs # {} \/ degraded \/ recorded' \subseteq Keys(recs)
      PROVE  LInv' /\ (Doubtful => Doubtful' \/ blind')
  <2>1. blind' \in BOOLEAN /\ stale' \in BOOLEAN
    BY <1>1, <1>2 DEF TypeOK
  <2>2. LInv' /\ (gs # {} \/ degraded => Doubtful')
    BY <1>1, <1>2, <2>1, PersistKeeps
  <2> QED
    BY <1>2, <2>2 DEF Doubtful
<1>3. loaded /\ ~blind => gaps # {} \/ degraded \/ recorded \subseteq Keys(records)
  BY DEF LInv, MemoryCovers
<1>4. ASSUME NEW n \in Nonces, RecordPending(n) PROVE LInv' /\ (Doubtful => Doubtful' \/ blind')
  <2> DEFINE rec == [nonce |-> n, status |-> "pending"]
             recs == Append(records, rec)
  <2>1. loaded /\ loaded' /\ blind' = blind /\ stale' = stale /\ recorded' = recorded \cup {n}
    BY <1>4 DEF RecordPending
  <2>2. rec \in Records
    BY DEF Records, Statuses
  <2>3. recs \in Seq(Records)
    BY <1>1, <2>2
  <2>4. Keys(recs) = Keys(records) \cup {n}
    BY <1>1, <2>2, AppendRecord
  <2>5. recorded' \subseteq Nonces
    BY <1>1, <2>1 DEF TypeOK
  <2>6. blind \/ gaps # {} \/ degraded \/ recorded' \subseteq Keys(recs)
    BY <1>3, <2>1, <2>4
  <2> HIDE DEF recs
  <2>7. CASE Persist(recs, gaps, markerMayExist)
    BY <1>1, <1>2, <2>1, <2>3, <2>5, <2>6, <2>7
  <2>8. ASSUME NEW i \in DOMAIN recs,
               Persist(RemoveIndex(recs, i), WithEvictionHorizon(gaps), markerMayExist)
        PROVE  LInv' /\ (Doubtful => Doubtful' \/ blind')
    <3>1. RemoveIndex(recs, i) \in Seq(Records)
      BY <2>3, RemoveKeys
    <3>2. /\ WithEvictionHorizon(gaps) \in SUBSET GapKinds /\ WithEvictionHorizon(gaps) # {}
          /\ gaps \subseteq WithEvictionHorizon(gaps)
      BY <1>1 DEF WithEvictionHorizon, GapKinds
    <3> QED
      BY <1>2, <2>1, <2>5, <2>8, <3>1, <3>2
  <2> QED
    BY <1>4, <2>7, <2>8 DEF RecordPending, AddPending, recs
<1>5. ASSUME NEW n \in Nonces, NEW status \in {"accepted", "rejected"}, Mark(n, status)
      PROVE  LInv' /\ (Doubtful => Doubtful' \/ blind')
  <2>1. /\ loaded /\ loaded' /\ blind' = blind /\ stale' = stale /\ recorded' = recorded
        /\ Persist(WithStatus(records, n, status), gaps, markerMayExist)
    BY <1>5 DEF Mark, history
  <2>2. /\ WithStatus(records, n, status) \in Seq(Records)
        /\ Keys(WithStatus(records, n, status)) = Keys(records)
    BY <1>1, WithStatusKeys DEF Statuses
  <2>3. recorded' \subseteq Nonces
    BY <1>1, <2>1 DEF TypeOK
  <2> QED
    BY <1>1, <1>2, <1>3, <2>1, <2>2, <2>3
<1>6. ASSUME NEW n \in Nonces, Clear(n) PROVE LInv' /\ (Doubtful => Doubtful' \/ blind')
  <2>1. PICK i \in DOMAIN records :
            records[i].nonce = n /\ Persist(RemoveIndex(records, i), gaps, markerMayExist)
    BY <1>6 DEF Clear
  <2>2. loaded /\ loaded' /\ blind' = blind /\ stale' = stale /\ recorded' = recorded \ {n}
    BY <1>6 DEF Clear
  <2>3. /\ RemoveIndex(records, i) \in Seq(Records)
        /\ Keys(records) \ {n} \subseteq Keys(RemoveIndex(records, i))
    BY <1>1, <2>1, RemoveKeys
  <2>4. recorded' \subseteq Nonces
    BY <1>1, <2>2 DEF TypeOK
  <2>5. blind \/ gaps # {} \/ degraded \/ recorded' \subseteq Keys(RemoveIndex(records, i))
    BY <1>3, <2>2, <2>3
  <2> QED
    BY <1>1, <1>2, <2>1, <2>2, <2>3, <2>4, <2>5
<1>7. CASE Dispose
  <2>1. /\ loaded /\ loaded' /\ blind' = blind /\ stale' = stale /\ recorded' = recorded
        /\ Persist(records, gaps, markerMayExist)
    BY <1>7 DEF Dispose, history
  <2>2. recorded' \subseteq Nonces
    BY <1>1, <2>1 DEF TypeOK
  <2> QED
    BY <1>1, <1>2, <1>3, <2>1, <2>2
\* A restart rebuilds memory from the disk.
<1>8. ASSUME NEW fileRead \in BOOLEAN, NEW markerRead \in BOOLEAN, Load(fileRead, markerRead)
      PROVE  LInv' /\ (Doubtful => Doubtful' \/ blind')
  <2> DEFINE recs == IF fileRead THEN file.records ELSE <<>>
             damaged == fileRead /\ file.damaged
             marked == marker /\ markerRead
             gs == (IF fileRead THEN file.gaps ELSE {})
                     \cup (IF damaged THEN {"corrupt"} ELSE {})
                     \cup (IF marked THEN {"degraded"} ELSE {})
  <2>1. /\ ~loaded /\ loaded' /\ blind' = (blind \/ ~fileRead \/ (marker /\ ~markerRead))
        /\ recorded' = recorded /\ stale' = stale
    BY <1>8 DEF Load
  <2>2. recs \in Seq(Records) /\ gs \in SUBSET GapKinds /\ marked \in BOOLEAN /\ (marked => marker)
    BY <1>1 DEF TypeOK, GapKinds
  <2>3. gaps = {} /\ ~degraded
    BY <2>1 DEF LInv, Unloaded
  <2>4. blind' \in BOOLEAN /\ stale' \in BOOLEAN /\ recorded' \subseteq Nonces
    BY <1>1, <2>1 DEF TypeOK
  <2>5. ~blind' => /\ recs = file.records /\ (DiskDoubts => gs # {})
                   /\ gs # {} \/ recorded' \subseteq Keys(recs)
    BY <2>1, <2>3 DEF LInv, DiskCovers, DiskDoubts
  <2>6. Doubtful => DiskDoubts
    BY <2>1 DEF Doubtful, DiskDoubts
  <2>7. CASE damaged \/ marked
    <3>1. Persist(recs, gs, marked)
      BY <1>8, <2>7 DEF Load
    <3> HIDE DEF recs, gs, marked
    <3>2. LInv' /\ (gs # {} \/ degraded => Doubtful')
      BY <2>1, <2>2, <2>4, <2>5, <3>1, PersistKeeps
    <3> QED
      BY <2>5, <2>6, <3>2
  <2>8. CASE ~(damaged \/ marked)
    <3>1. /\ records' = recs /\ gaps' = gs /\ degraded' = degraded /\ markerMayExist' = markerMayExist
          /\ file' = file /\ marker' = marker /\ unmarked' = unmarked
      BY <1>8, <2>8 DEF Load
    <3>2. ~blind' => DiskDoubts' \/ (gs = {} /\ recorded' \subseteq Keys(file'.records))
      BY <2>1, <2>5, <2>8, <3>1 DEF DiskDoubts
    <3> HIDE DEF recs, gs
    <3>3. TypeOK'
      BY <1>1, <2>1, <2>2, <2>4, <3>1 DEF TypeOK
    <3>4. MemoryCovers' /\ DiskCovers'
      BY <2>5, <3>1, <3>2 DEF MemoryCovers, DiskCovers
    <3>5. MarkerKnown' /\ MarkerRaised' /\ Unloaded'
      BY <1>1, <2>1, <2>3, <3>1 DEF MarkerKnown, MarkerRaised, Unloaded
    <3> QED
      BY <2>1, <2>5, <2>6, <3>1, <3>3, <3>4, <3>5 DEF LInv, Doubtful
  <2> QED
    BY <2>7, <2>8
<1>9. CASE Crash
  <2>1. /\ loaded /\ ~loaded' /\ records' = <<>> /\ gaps' = {} /\ ~degraded' /\ ~markerMayExist'
        /\ degraded' = FALSE /\ markerMayExist' = FALSE /\ loaded' = FALSE
        /\ blind' = (blind \/ (degraded /\ unmarked)) /\ stale' = (stale \/ degraded)
        /\ unmarked' = FALSE /\ recorded' = recorded /\ file' = file /\ marker' = marker
    BY <1>9 DEF Crash, disk
  <2>2. TypeOK'
    <3>1. blind' \in BOOLEAN /\ stale' \in BOOLEAN
      BY <1>1, <2>1 DEF TypeOK
    <3> QED
      BY <1>1, <2>1, <3>1, NoRecords DEF TypeOK
  <2>3. ~blind' => DiskDoubts \/ (recorded \subseteq Keys(file.records) /\ gaps = {} /\ ~degraded)
    BY <2>1 DEF LInv, DiskCovers, MarkerRaised, DiskDoubts
  <2>4. DiskCovers' /\ (DiskDoubts => Doubtful')
    BY <2>1, <2>3 DEF DiskCovers, DiskDoubts, Doubtful
  <2>5. MemoryCovers' /\ MarkerKnown' /\ MarkerRaised' /\ Unloaded'
    BY <2>1 DEF MemoryCovers, MarkerKnown, MarkerRaised, Unloaded
  <2> QED
    BY <2>1, <2>2, <2>3, <2>4, <2>5 DEF LInv, Doubtful
<1>10. CASE Damage
  <2>1. PICK recs \in {<<>>, file.records} \cup {RemoveIndex(file.records, i) : i \in DOMAIN file.records},
             gs \in {{}, file.gaps} :
            file' = [records |-> recs, gaps |-> gs, damaged |-> TRUE]
    BY <1>10 DEF Damage
  <2>2. /\ UNCHANGED <<loaded, records, gaps, degraded, markerMayExist, marker, unmarked,
                       recorded, blind, stale>>
    BY <1>10 DEF Damage, memory, history
  <2>3. recs \in Seq(Records) /\ gs \subseteq GapKinds
    <3>1. file.records \in Seq(Records) /\ file.gaps \subseteq GapKinds
      BY <1>1 DEF TypeOK
    <3>2. \A i \in DOMAIN file.records : RemoveIndex(file.records, i) \in Seq(Records)
      BY <3>1, RemoveKeys
    <3> QED
      BY <2>1, <3>1, <3>2, NoRecords
  <2>4. TypeOK'
    BY <1>1, <2>1, <2>2, <2>3 DEF TypeOK
  <2>5. DiskDoubts' /\ (~loaded => Doubtful')
    BY <2>1, <2>2 DEF DiskDoubts, Doubtful
  <2>6. MemoryCovers' /\ DiskCovers' /\ MarkerKnown' /\ MarkerRaised' /\ Unloaded'
    BY <2>2, <2>5 DEF LInv, MemoryCovers, DiskCovers, MarkerKnown, MarkerRaised, Unloaded
  <2> QED
    BY <2>2, <2>4, <2>5, <2>6 DEF LInv, Doubtful
<1>11. CASE UNCHANGED vars
  BY <1>11 DEF vars, LInv, TypeOK, MemoryCovers, DiskCovers, DiskDoubts, MarkerKnown, MarkerRaised,
     Unloaded, Doubtful
<1> QED
  BY <1>4, <1>5, <1>6, <1>7, <1>8, <1>9, <1>10, <1>11 DEF Next, ClearUnlessAccepted

-------------------------------------------------------------------------------
(* The theorems *)

LEMMA LedgerInvariance == Spec => []LInv
<1>1. LInv /\ [Next]_vars => LInv'
  BY LedgerStep
<1> QED
  BY <1>1, LedgerInit, PTL DEF Spec

\* The answer "not-found" is never given for a nonce that was recorded, unless
\* its trace could not be written or not be read.
THEOREM NotFoundTheorem == Spec => []NotFoundIsTruthful
<1>1. LInv => NotFoundIsTruthful
  BY DEF LInv, MemoryCovers, NotFoundIsTruthful, Lookup
<1> QED
  BY <1>1, LedgerInvariance, PTL

\* A gap in the history stays visible across writes, failures and restarts.
THEOREM DoubtTheorem == Spec => DoubtNeverDecays
<1>1. LInv /\ [Next]_vars => [Doubtful => Doubtful' \/ blind']_vars
  BY LedgerStep
<1> QED
  BY <1>1, LedgerInvariance, PTL DEF Spec, DoubtNeverDecays

-------------------------------------------------------------------------------
(* What is found *)

\* recs holds a nonce only once, and keeps within the cap.
NoncesDistinct(recs) == \A i, j \in DOMAIN recs : recs[i].nonce = recs[j].nonce => i = j
WellKept(recs) == Len(recs) <= MAX_RECORDS /\ NoncesDistinct(recs)

\* What memory has, and what the file has unless it is behind, was recorded.
MemoryBacked == (loaded /\ ~stale) => Keys(records) \subseteq recorded
FileBacked == (~stale /\ ~degraded) => Keys(file.records) \subseteq recorded

FInv == WellKept(records) /\ WellKept(file.records) /\ MemoryBacked /\ FileBacked

\* Removing a record removes its nonce and leaves the others.
LEMMA RemoveKept ==
    ASSUME NEW recs \in Seq(Records), NEW i \in DOMAIN recs, NoncesDistinct(recs)
    PROVE  /\ NoncesDistinct(RemoveIndex(recs, i)) /\ Len(RemoveIndex(recs, i)) = Len(recs) - 1
           /\ Keys(RemoveIndex(recs, i)) \subseteq Keys(recs) \ {recs[i].nonce}
<1> DEFINE r == RemoveIndex(recs, i)
<1>1. Len(recs) \in Nat /\ i \in 1..Len(recs) /\ DOMAIN recs = 1..Len(recs)
  OBVIOUS
<1>2. LeavesOut(r, recs, i)
  BY Removal
<1> HIDE DEF r
<1>3. ASSUME NEW j \in DOMAIN r, NEW x \in DOMAIN r, r[j].nonce = r[x].nonce PROVE j = x
  <2>1. PICK k \in DOMAIN recs : r[j] = recs[k] /\ k = (IF j < i THEN j ELSE j + 1)
    BY <1>2 DEF LeavesOut
  <2>2. PICK y \in DOMAIN recs : r[x] = recs[y] /\ y = (IF x < i THEN x ELSE x + 1)
    BY <1>2 DEF LeavesOut
  <2>3. k = y
    BY <1>3, <2>1, <2>2 DEF NoncesDistinct
  <2>4. j \in Int /\ x \in Int /\ i \in Int
    BY <1>1, <1>2 DEF LeavesOut
  <2>5. (IF j < i THEN j ELSE j + 1) = (IF x < i THEN x ELSE x + 1)
    BY <2>1, <2>2, <2>3
  <2> QED
    BY <2>4, <2>5
<1>4. ASSUME NEW key \in Keys(r) PROVE key \in Keys(recs) /\ key # recs[i].nonce
  <2>1. PICK j \in DOMAIN r : key = r[j].nonce
    BY DEF Keys, Elements
  <2>2. PICK k \in DOMAIN recs : k # i /\ r[j] = recs[k]
    BY <1>2 DEF LeavesOut
  <2> QED
    BY <2>1, <2>2 DEF Keys, Elements, NoncesDistinct
<1> QED
  BY <1>2, <1>3, <1>4 DEF LeavesOut, NoncesDistinct, r

\* A new record of a nonce that has none.
LEMMA AppendKept ==
    ASSUME NEW recs \in Seq(Records), NEW rec \in Records, NoncesDistinct(recs), rec.nonce \notin Keys(recs)
    PROVE  /\ NoncesDistinct(Append(recs, rec)) /\ Len(Append(recs, rec)) = Len(recs) + 1
           /\ Keys(Append(recs, rec)) = Keys(recs) \cup {rec.nonce}
<1> DEFINE a == Append(recs, rec)
<1>1. /\ Len(recs) \in Nat /\ DOMAIN recs = 1..Len(recs)
      /\ Len(a) = Len(recs) + 1 /\ DOMAIN a = 1..(Len(recs) + 1)
      /\ \A i \in 1..Len(recs) : a[i] = recs[i]
      /\ a[Len(recs) + 1] = rec
  OBVIOUS
<1>2. Keys(a) = Keys(recs) \cup {rec.nonce}
  BY AppendRecord
<1> HIDE DEF a
<1>3. \A i \in 1..Len(recs) : a[i].nonce \in Keys(recs)
  BY <1>1 DEF Keys, Elements
<1>4. ASSUME NEW i \in DOMAIN a, NEW j \in DOMAIN a, a[i].nonce = a[j].nonce PROVE i = j
  <2>1. CASE i \in 1..Len(recs) /\ j \in 1..Len(recs)
    BY <1>1, <1>4, <2>1 DEF NoncesDistinct
  <2>2. CASE i = Len(recs) + 1 \/ j = Len(recs) + 1
    BY <1>1, <1>3, <1>4, <2>2
  <2> QED
    BY <1>1, <2>1, <2>2
<1> QED
  BY <1>1, <1>2, <1>4 DEF NoncesDistinct, a

\* A new status.
LEMMA MarkKept ==
    ASSUME NEW recs \in Seq(Records), NEW n \in Nonces, NEW status \in Statuses, WellKept(recs)
    PROVE  WellKept(WithStatus(recs, n, status))
<1> DEFINE ws == WithStatus(recs, n, status)
           len == Len(recs)
<1>1. len \in Nat /\ DOMAIN recs = 1..len /\ \A i \in 1..len : recs[i] \in Records
  OBVIOUS
<1>2. ws \in Seq(Records) /\ DOMAIN ws = 1..len
  BY <1>1, WithStatusKeys DEF WithStatus
<1>3. Len(ws) = len
  BY <1>1, <1>2
<1>4. \A i \in 1..len : ws[i].nonce = recs[i].nonce
  BY <1>1 DEF WithStatus, Records
<1> HIDE DEF ws
<1> QED
  BY <1>1, <1>2, <1>3, <1>4 DEF WellKept, NoncesDistinct, ws

\* A write keeps FInv if what is written was recorded and is well kept.
LEMMA PersistBacked ==
    ASSUME LInv, FInv, NEW recs \in Seq(Records), NEW gs \in SUBSET GapKinds, NEW known \in BOOLEAN,
           known => marker, Persist(recs, gs, known),
           WellKept(recs), stale' \/ Keys(recs) \subseteq recorded'
    PROVE  FInv'
<1>1. records' = recs /\ (file'.records = recs \/ (degraded' /\ file' = file))
  BY PersistEffect DEF LInv
<1> QED
  BY <1>1 DEF FInv, WellKept, NoncesDistinct, MemoryBacked, FileBacked

LEMMA NothingKept == NoncesDistinct(<<>>) /\ WellKept(<<>>) /\ Keys(<<>>) = {}
BY CapAssumption DEF NoncesDistinct, WellKept, Keys, Elements

LEMMA FInvInit == Init => FInv
BY NothingKept DEF Init, FInv, MemoryBacked, FileBacked

LEMMA FInvStep == LInv /\ FInv /\ [Next]_vars => FInv'
<1> SUFFICES ASSUME LInv, FInv, [Next]_vars PROVE FInv'
  OBVIOUS
<1> USE CapAssumption
<1>1. /\ TypeOK /\ records \in Seq(Records) /\ file.records \in Seq(Records)
      /\ gaps \in SUBSET GapKinds /\ markerMayExist \in BOOLEAN /\ (markerMayExist => marker)
  BY DEF LInv, TypeOK, MarkerKnown
<1>2. /\ WellKept(records) /\ NoncesDistinct(records) /\ Len(records) \in Nat
      /\ WellKept(file.records) /\ NoncesDistinct(file.records)
  BY <1>1 DEF FInv, WellKept
<1>3. loaded => stale \/ Keys(records) \subseteq recorded
  BY DEF FInv, MemoryBacked
<1>4. ASSUME NEW n \in Nonces, RecordPending(n) PROVE FInv'
  <2> DEFINE rec == [nonce |-> n, status |-> "pending"]
             recs == Append(records, rec)
  <2>1. loaded /\ n \notin Keys(records) /\ AddPending(n) /\ recorded' = recorded \cup {n} /\ stale' = stale
    BY <1>4 DEF RecordPending
  <2>2. rec \in Records /\ rec.nonce = n
    BY DEF Records, Statuses
  <2>3. /\ recs \in Seq(Records) /\ NoncesDistinct(recs) /\ Len(recs) = Len(records) + 1
        /\ Keys(recs) = Keys(records) \cup {n}
    BY <1>1, <1>2, <2>1, <2>2, AppendKept
  <2>4. stale' \/ Keys(recs) \subseteq recorded'
    BY <1>3, <2>1, <2>3
  <2>5. \/ Len(recs) <= MAX_RECORDS /\ Persist(recs, gaps, markerMayExist)
        \/ \E i \in DOMAIN recs : Persist(RemoveIndex(recs, i), WithEvictionHorizon(gaps), markerMayExist)
    BY <2>1 DEF AddPending
  <2> HIDE DEF recs
  <2>6. CASE Len(recs) <= MAX_RECORDS /\ Persist(recs, gaps, markerMayExist)
    BY <1>1, <2>3, <2>4, <2>6, PersistBacked DEF WellKept
  <2>7. ASSUME NEW i \in DOMAIN recs, Persist(RemoveIndex(recs, i), WithEvictionHorizon(gaps), markerMayExist)
        PROVE  FInv'
    <3>1. RemoveIndex(recs, i) \in Seq(Records)
      BY <2>3, RemoveKeys
    <3>2. /\ NoncesDistinct(RemoveIndex(recs, i)) /\ Len(RemoveIndex(recs, i)) = Len(recs) - 1
          /\ Keys(RemoveIndex(recs, i)) \subseteq Keys(recs)
      BY <2>3, RemoveKept
    <3>3. WellKept(RemoveIndex(recs, i))
      BY <1>2, <2>3, <3>2 DEF WellKept
    <3>4. WithEvictionHorizon(gaps) \in SUBSET GapKinds
      BY <1>1 DEF WithEvictionHorizon, GapKinds
    <3> QED
      BY <1>1, <2>4, <2>7, <3>1, <3>2, <3>3, <3>4, PersistBacked
  <2> QED
    BY <2>5, <2>6, <2>7
<1>5. ASSUME NEW n \in Nonces, NEW status \in {"accepted", "rejected"}, Mark(n, status) PROVE FInv'
  <2>1. /\ loaded /\ stale' = stale /\ recorded' = recorded
        /\ Persist(WithStatus(records, n, status), gaps, markerMayExist)
    BY <1>5 DEF Mark, history
  <2>2. /\ WithStatus(records, n, status) \in Seq(Records)
        /\ Keys(WithStatus(records, n, status)) = Keys(records)
        /\ WellKept(WithStatus(records, n, status))
    BY <1>1, <1>2, WithStatusKeys, MarkKept DEF Statuses
  <2> QED
    BY <1>1, <1>3, <2>1, <2>2, PersistBacked
<1>6. ASSUME NEW n \in Nonces, Clear(n) PROVE FInv'
  <2>1. PICK i \in DOMAIN records :
            records[i].nonce = n /\ Persist(RemoveIndex(records, i), gaps, markerMayExist)
    BY <1>6 DEF Clear
  <2>2. loaded /\ stale' = stale /\ recorded' = recorded \ {n}
    BY <1>6 DEF Clear
  <2>3. /\ RemoveIndex(records, i) \in Seq(Records)
        /\ NoncesDistinct(RemoveIndex(records, i)) /\ Len(RemoveIndex(records, i)) = Len(records) - 1
        /\ Keys(RemoveIndex(records, i)) \subseteq Keys(records) \ {n}
    BY <1>1, <1>2, <2>1, RemoveKeys, RemoveKept
  <2>4. WellKept(RemoveIndex(records, i))
    BY <1>2, <2>3 DEF WellKept
  <2>5. stale' \/ Keys(RemoveIndex(records, i)) \subseteq recorded'
    BY <1>3, <2>2, <2>3
  <2> QED
    BY <1>1, <2>1, <2>3, <2>4, <2>5, PersistBacked
<1>7. CASE Dispose
  <2>1. /\ loaded /\ stale' = stale /\ recorded' = recorded /\ Persist(records, gaps, markerMayExist)
    BY <1>7 DEF Dispose, history
  <2> QED
    BY <1>1, <1>2, <1>3, <2>1, PersistBacked
\* What is loaded is what the file has, which is not behind.
<1>8. ASSUME NEW fileRead \in BOOLEAN, NEW markerRead \in BOOLEAN, Load(fileRead, markerRead) PROVE FInv'
  <2> DEFINE recs == IF fileRead THEN file.records ELSE <<>>
             damaged == fileRead /\ file.damaged
             marked == marker /\ markerRead
             gs == (IF fileRead THEN file.gaps ELSE {})
                     \cup (IF damaged THEN {"corrupt"} ELSE {})
                     \cup (IF marked THEN {"degraded"} ELSE {})
  <2>1. ~loaded /\ loaded' /\ recorded' = recorded /\ stale' = stale
    BY <1>8 DEF Load
  <2>2. /\ recs \in Seq(Records) /\ gs \in SUBSET GapKinds /\ marked \in BOOLEAN /\ (marked => marker)
    BY <1>1 DEF TypeOK, GapKinds
  <2>3. WellKept(recs) /\ (stale' \/ Keys(recs) \subseteq recorded')
    BY <1>2, <2>1, NothingKept DEF LInv, Unloaded, FInv, FileBacked
  <2>4. CASE damaged \/ marked
    <3>1. Persist(recs, gs, marked)
      BY <1>8, <2>4 DEF Load
    <3> HIDE DEF recs, gs, marked
    <3> QED
      BY <2>2, <2>3, <3>1, PersistBacked
  <2>5. CASE ~(damaged \/ marked)
    <3>1. records' = recs /\ degraded' = degraded /\ file' = file
      BY <1>8, <2>5 DEF Load
    <3> HIDE DEF recs
    <3> QED
      BY <1>2, <2>1, <2>3, <3>1 DEF FInv, MemoryBacked, FileBacked, WellKept, NoncesDistinct
  <2> QED
    BY <2>4, <2>5
<1>9. CASE Crash
  <2>1. /\ ~loaded' /\ records' = <<>> /\ stale' = (stale \/ degraded)
        /\ recorded' = recorded /\ file' = file
    BY <1>9 DEF Crash, disk
  <2>2. WellKept(records') /\ WellKept(file'.records)
    BY <1>2, <2>1, NothingKept
  <2> QED
    BY <2>1, <2>2 DEF FInv, MemoryBacked, FileBacked, WellKept, NoncesDistinct
<1>10. CASE Damage
  <2>1. PICK recs \in {<<>>, file.records} \cup {RemoveIndex(file.records, i) : i \in DOMAIN file.records},
             gs \in {{}, file.gaps} :
            file' = [records |-> recs, gaps |-> gs, damaged |-> TRUE]
    BY <1>10 DEF Damage
  <2>2. /\ loaded' = loaded /\ records' = records /\ degraded' = degraded
        /\ recorded' = recorded /\ stale' = stale
    BY <1>10 DEF Damage, memory, history
  <2>3. WellKept(recs) /\ Keys(recs) \subseteq Keys(file.records)
    <3>1. ASSUME NEW i \in DOMAIN file.records
          PROVE  /\ WellKept(RemoveIndex(file.records, i))
                 /\ Keys(RemoveIndex(file.records, i)) \subseteq Keys(file.records)
      <4>1. /\ NoncesDistinct(RemoveIndex(file.records, i))
            /\ Len(RemoveIndex(file.records, i)) = Len(file.records) - 1
            /\ Keys(RemoveIndex(file.records, i)) \subseteq Keys(file.records)
        BY <1>1, <1>2, RemoveKept
      <4> QED
        BY <1>1, <1>2, <4>1 DEF WellKept
    <3> QED
      BY <1>2, <2>1, <3>1, NothingKept
  <2>4. file'.records = recs
    BY <2>1
  <2> QED
    BY <2>2, <2>3, <2>4 DEF FInv, MemoryBacked, FileBacked, WellKept, NoncesDistinct
<1>11. CASE UNCHANGED vars
  BY <1>11 DEF vars, FInv, WellKept, NoncesDistinct, MemoryBacked, FileBacked
<1> QED
  BY <1>4, <1>5, <1>6, <1>7, <1>8, <1>9, <1>10, <1>11 DEF Next, ClearUnlessAccepted

LEMMA FInvariance == Spec => []FInv
BY FInvInit, FInvStep, LedgerInvariance, PTL DEF Spec

\* The answer "found" is never given for a nonce whose record was cleared, unless
\* the process died before the clearing was written.
THEOREM FoundTheorem == Spec => []FoundIsTruthful
<1>1. FInv => FoundIsTruthful
  BY DEF FInv, MemoryBacked, FoundIsTruthful, Lookup
<1> QED
  BY <1>1, FInvariance, PTL

\* The ledger keeps its shape, one record for a nonce and the cap, whatever fails.
THEOREM LedgerStaysConsistent == Spec => []LedgerConsistent
<1>1. LInv /\ FInv => LedgerConsistent
  BY DEF LInv, FInv, WellKept, NoncesDistinct, RecordsBounded, LedgerConsistent
<1> QED
  BY <1>1, LedgerInvariance, FInvariance, PTL

-------------------------------------------------------------------------------
(* The gaps *)

Covers(v, w) == v.fromMs <= w.fromMs /\ w.toMs <= v.toMs

\* The hull of two windows is a window that covers both.
LEMMA HullCovers ==
    ASSUME NEW v \in Windows, NEW w \in Windows
    PROVE  Hull(v, w) \in Windows /\ Covers(Hull(v, w), v) /\ Covers(Hull(v, w), w)
<1>1. /\ v.fromMs \in Times /\ v.toMs \in Times /\ w.fromMs \in Times /\ w.toMs \in Times
      /\ v.fromMs \in Nat /\ v.toMs \in Nat /\ w.fromMs \in Nat /\ w.toMs \in Nat
  BY TimesAreNumbers DEF Windows
<1> QED
  BY <1>1 DEF Hull, Covers, Windows, Larger, Smaller

\* A window within another is within whatever covers that.
LEMMA CoversTransitive ==
    ASSUME NEW u \in Windows, NEW v \in Windows, NEW w \in Windows, Covers(u, v), Covers(v, w)
    PROVE  Covers(u, w)
<1>1. \A x \in Windows : x.fromMs \in Nat /\ x.toMs \in Nat
  BY TimesAreNumbers DEF Windows
<1> QED
  BY <1>1 DEF Covers

\* A window more, appended or merged: the bound is kept, and all that was covered
\* is covered, with the new one.
LEMMA WindowAdded ==
    ASSUME NEW ws \in Seq(Windows), Len(ws) <= MAX_DEGRADED_WINDOWS, NEW w \in Windows, NEW new,
           new = WithDegradedWindow(ws, w)
    PROVE  /\ new \in Seq(Windows) /\ Len(new) <= MAX_DEGRADED_WINDOWS
           /\ \E i \in DOMAIN new : Covers(new[i], w)
           /\ \A i \in DOMAIN ws : i \in DOMAIN new /\ Covers(new[i], ws[i])
<1> USE WindowsAssumption
<1> DEFINE n == Len(ws)
<1>1. n \in Nat /\ DOMAIN ws = 1..n /\ \A i \in 1..n : ws[i] \in Windows
  OBVIOUS
<1>2. ASSUME NEW x \in Windows PROVE Covers(x, x)
  <2>1. x.fromMs \in Nat /\ x.toMs \in Nat
    BY TimesAreNumbers DEF Windows
  <2> QED
    BY <2>1 DEF Covers
<1>3. CASE n >= MAX_DEGRADED_WINDOWS
  <2>1. new = [ws EXCEPT ![n] = Hull(ws[n], w)] /\ n \in 1..n
    BY <1>1, <1>3 DEF WithDegradedWindow
  <2>2. Hull(ws[n], w) \in Windows /\ Covers(Hull(ws[n], w), ws[n]) /\ Covers(Hull(ws[n], w), w)
    BY <1>1, <2>1, HullCovers
  <2>3. new \in Seq(Windows) /\ Len(new) = n
    BY <1>1, <2>1, <2>2, ExceptSeq
  <2>4. DOMAIN new = 1..n /\ new[n] = Hull(ws[n], w) /\ \A i \in 1..n : i # n => new[i] = ws[i]
    BY <1>1, <2>1
  <2>5. \A i \in 1..n : Covers(new[i], ws[i])
    BY <1>1, <1>2, <2>2, <2>4
  <2> QED
    BY <1>1, <1>3, <2>1, <2>2, <2>3, <2>4, <2>5
<1>4. CASE ~(n >= MAX_DEGRADED_WINDOWS)
  <2>1. new = Append(ws, w)
    BY <1>4 DEF WithDegradedWindow
  <2>2. new \in Seq(Windows) /\ Len(new) = n + 1 /\ DOMAIN new = 1..(n + 1)
        /\ new[n + 1] = w /\ \A i \in 1..n : new[i] = ws[i]
    BY <1>1, <2>1
  <2> QED
    BY <1>1, <1>2, <1>4, <2>2
<1> QED
  BY <1>3, <1>4

LEMMA RaisedIsLater ==
    ASSUME NEW h \in Times \cup {Null}, NEW t \in Times
    PROVE  RaisedTo(h, t) \in Times /\ t <= RaisedTo(h, t) /\ h <= RaisedTo(h, t)
BY TimesAreNumbers DEF RaisedTo, Larger, Null

LEMMA GapsStart == GapsInit => GapsCover
<1>1. <<>> \in Seq(Windows) /\ Len(<<>>) = 0
  OBVIOUS
<1> QED
  BY <1>1, WindowsAssumption DEF GapsInit, GapsCover, GapsTypeOK, WindowsCover, HorizonCovers

LEMMA GapsStep == GapsCover /\ [GapsNext]_gapsVars => GapsCover'
<1> SUFFICES ASSUME GapsCover, [GapsNext]_gapsVars PROVE GapsCover'
  OBVIOUS
<1>1. GapsTypeOK /\ WindowsCover /\ HorizonCovers
  BY DEF GapsCover
<1>2. ASSUME NEW t \in Times, NoteEviction(t) PROVE GapsCover'
  <2>1. /\ horizon' = RaisedTo(horizon, t) /\ evicted' = evicted \cup {t}
        /\ windows' = windows /\ reset' = reset /\ degradedOver' = degradedOver /\ resetAt' = resetAt
    BY <1>2 DEF NoteEviction
  <2>2. RaisedTo(horizon, t) \in Times /\ t <= RaisedTo(horizon, t) /\ horizon <= RaisedTo(horizon, t)
    BY <1>1, RaisedIsLater DEF GapsTypeOK
  <2>3. GapsTypeOK'
    BY <1>1, <2>1, <2>2 DEF GapsTypeOK
  <2>4. HorizonCovers'
    <3>1. \A x \in evicted : x <= horizon /\ x \in Int
      BY <1>1, TimesAreNumbers DEF HorizonCovers, GapsTypeOK
    <3>2. horizon \in Int /\ RaisedTo(horizon, t) \in Int
      <4>1. Null \in Int /\ \A x \in Times : x \in Int
        BY TimesAreNumbers DEF Null
      <4> QED
        BY <1>1, <2>2, <4>1 DEF GapsTypeOK
    <3> HIDE DEF RaisedTo
    <3> QED
      BY <2>1, <2>2, <3>1, <3>2 DEF HorizonCovers
  <2>5. WindowsCover'
    BY <1>1, <2>1 DEF WindowsCover
  <2> QED
    BY <2>3, <2>4, <2>5 DEF GapsCover
<1>3. ASSUME NEW t \in Times, NoteReset(t) PROVE GapsCover'
  <2>1. /\ reset' = RaisedTo(reset, t) /\ resetAt' = resetAt \cup {t}
        /\ windows' = windows /\ horizon' = horizon /\ degradedOver' = degradedOver /\ evicted' = evicted
    BY <1>3 DEF NoteReset
  <2>2. RaisedTo(reset, t) \in Times
    BY <1>1, RaisedIsLater DEF GapsTypeOK
  <2> QED
    BY <1>1, <2>1, <2>2 DEF GapsCover, GapsTypeOK, WindowsCover, HorizonCovers
<1>4. ASSUME NEW w \in Windows, NoteDegraded(w) PROVE GapsCover'
  <2>1. /\ windows' = WithDegradedWindow(windows, w) /\ degradedOver' = degradedOver \cup {w}
        /\ horizon' = horizon /\ reset' = reset /\ evicted' = evicted /\ resetAt' = resetAt
    BY <1>4 DEF NoteDegraded
  <2>2. /\ windows' \in Seq(Windows) /\ Len(windows') <= MAX_DEGRADED_WINDOWS
        /\ \E i \in DOMAIN windows' : Covers(windows'[i], w)
        /\ \A i \in DOMAIN windows : i \in DOMAIN windows' /\ Covers(windows'[i], windows[i])
    BY <1>1, <2>1, WindowAdded DEF GapsTypeOK
  <2>3. GapsTypeOK' /\ HorizonCovers'
    BY <1>1, <2>1, <2>2 DEF GapsTypeOK, HorizonCovers
  <2>4. ASSUME NEW x \in degradedOver' PROVE \E i \in DOMAIN windows' : Covers(windows'[i], x)
    <3>1. CASE x = w
      BY <2>2, <3>1
    <3>2. CASE x \in degradedOver
      <4>1. PICK i \in DOMAIN windows : Covers(windows[i], x)
        BY <1>1, <3>2 DEF WindowsCover, Covers
      <4>2. windows[i] \in Windows /\ windows'[i] \in Windows /\ x \in Windows
        BY <1>1, <2>2, <3>2 DEF GapsTypeOK
      <4> QED
        BY <2>2, <4>1, <4>2, CoversTransitive
    <3> QED
      BY <2>1, <3>1, <3>2
  <2> QED
    BY <2>3, <2>4 DEF GapsCover, WindowsCover, Covers
<1>5. CASE UNCHANGED gapsVars
  BY <1>1, <1>5 DEF gapsVars, GapsCover, GapsTypeOK, WindowsCover, HorizonCovers
<1> QED
  BY <1>2, <1>3, <1>4, <1>5 DEF GapsNext

LEMMA GapsInvariance == GapsSpec => []GapsCover
BY GapsStart, GapsStep, PTL DEF GapsSpec

\* However many windows are merged and however the clock steps, each degraded
\* period that was noted lies within one of the windows kept, no record accepted
\* after the horizon has been evicted, and the bound on the windows is kept.
THEOREM MergingLosesNothing == GapsSpec => []GapsCover
BY GapsInvariance
===============================================================================
