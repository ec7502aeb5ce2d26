--------------------------- MODULE AcceptanceLedger ---------------------------
(***************************************************************************)
(* The prompt acceptance ledger: class PromptAcceptanceLedger in           *)
(* source/host/extensions/transcript/prompt-acceptance-ledger.ts.          *)
(*                                                                         *)
(* The ledger remembers which client nonces a send was recorded under, so  *)
(* that a client which lost the answer can ask whether its message was     *)
(* taken.  lookup answers "found", "not-found", or "unknown-durability"    *)
(* when the history has a gap.  What makes this hard is that any write may *)
(* fail and the process may die between any two of them: a failed write is *)
(* remembered in memory (degradedSinceMs) and, if possible, in a marker    *)
(* file next to the ledger, and the next load turns the marker into a gap. *)
(*                                                                         *)
(* One account slot.  The digest of a record is left out: a mismatch       *)
(* raises before anything changes.  Of the gaps only their presence        *)
(* matters to lookup; AcceptanceGaps.tla models their times.  A write of   *)
(* the ledger file is atomic (writeFileSync to .part, then rename).  A     *)
(* crash inside persist() is a failure of the writes not yet done followed *)
(* by Crash.                                                               *)
(***************************************************************************)
EXTENDS Naturals, Sequences, Lists

CONSTANTS Nonces,      \* client nonces
          MAX_RECORDS  \* records kept before one is evicted

ASSUME CapAssumption == MAX_RECORDS \in Nat \ {0}

Statuses == {"pending", "accepted", "rejected"}
Records == [nonce : Nonces, status : Statuses]
GapKinds == {"eviction", "degraded", "corrupt"}

VARIABLES loaded,          \* this.loaded # null
          records,         \* this.loaded.records, in insertion order
          gaps,            \* the kinds of gap in this.loaded.gaps; null is {}
          degraded,        \* this.degradedSinceMs # null
          markerMayExist,  \* this.markerMayExist
          file,            \* the ledger file: records, gaps, whether damaged
          marker,          \* the .degraded file exists
          recorded,        \* history: nonces recorded and not cleared since
          unmarked,        \* history: the last attempt to write the marker failed
          blind,           \* history: something was lost that left no trace on disk
          stale            \* history: the process died with an unwritten change

vars == <<loaded, records, gaps, degraded, markerMayExist, file, marker,
          recorded, unmarked, blind, stale>>
memory == <<loaded, records, gaps, degraded, markerMayExist>>
disk == <<file, marker>>
history == <<recorded, blind, stale>>  \* but unmarked, which Persist sets

Keys(recs) == {r.nonce : r \in Elements(recs)}
\* Fault: the record with a new status keeps nothing of the old one.
WithStatusOnly(recs, n, status) ==
    [i \in DOMAIN recs |-> IF recs[i].nonce = n THEN [status |-> status] ELSE recs[i]]
WithStatus(recs, n, status) ==
    [i \in DOMAIN recs |-> IF recs[i].nonce = n THEN [recs[i] EXCEPT !.status = status] ELSE recs[i]]

Init == /\ loaded = FALSE /\ records = <<>> /\ gaps = {}
        /\ degraded = FALSE /\ markerMayExist = FALSE
        /\ file = [records |-> <<>>, gaps |-> {}, damaged |-> FALSE]
        /\ marker = FALSE
        /\ recorded = {} /\ unmarked = FALSE /\ blind = FALSE /\ stale = FALSE

-------------------------------------------------------------------------------
(* Answers *)

\* lookup(nonce) on a loaded ledger.
Lookup(n) == IF n \in Keys(records) THEN "found"
             ELSE IF gaps # {} \/ degraded THEN "unknown-durability"
             ELSE "not-found"

-------------------------------------------------------------------------------
(* persist *)

\* The write succeeds: a degraded period ends as a gap in the file, and the
\* marker goes, if it can be removed.
PersistWritten(recs, gs, known, markerDone) ==
    LET g == gs \cup (IF degraded THEN {"degraded"} ELSE {})
    IN  /\ file' = [records |-> recs, gaps |-> g, damaged |-> FALSE]
        /\ gaps' = g
        /\ degraded' = FALSE
        /\ marker' = (marker /\ ~(known /\ markerDone))
        /\ markerMayExist' = (known /\ ~markerDone)
        /\ unmarked' = FALSE

\* The write fails: the ledger is degraded, and says so in the marker, if that
\* can be written.
PersistFailed(recs, gs, known, markerDone) ==
    /\ gaps' = gs
    /\ degraded' = TRUE
    /\ marker' = (marker \/ (~known /\ markerDone))
    /\ markerMayExist' = (known \/ markerDone)
    /\ unmarked' = (~known /\ ~markerDone)
    /\ UNCHANGED file

\* Fault: no marker is written for a failed write.
PersistFailedSilently(recs, gs, known, markerDone) ==
    /\ gaps' = gs
    /\ degraded' = TRUE
    /\ markerMayExist' = known
    /\ UNCHANGED <<file, marker, unmarked>>

\* persist() of recs and gs, known being markerMayExist at that point.
Persist(recs, gs, known) ==
    /\ records' = recs
    /\ \E markerDone \in BOOLEAN : \/ PersistWritten(recs, gs, known, markerDone)
                                   \/ PersistFailed(recs, gs, known, markerDone)

-------------------------------------------------------------------------------
(* load *)

\* Fault: a marker found at load is removed, not turned into a gap.
LoadForgettingMarker(fileRead, markerRead) ==
    LET recs == IF fileRead THEN file.records ELSE <<>>
        own == IF fileRead THEN file.gaps \cup (IF file.damaged THEN {"corrupt"} ELSE {}) ELSE {}
        damaged == fileRead /\ file.damaged
    IN  /\ ~loaded
        /\ loaded' = TRUE
        /\ IF damaged \/ (marker /\ markerRead)
           THEN Persist(recs, own, marker /\ markerRead)
           ELSE /\ records' = recs /\ gaps' = own
                /\ UNCHANGED <<degraded, markerMayExist, file, marker, unmarked>>
        /\ blind' = (blind \/ ~fileRead \/ (marker /\ ~markerRead))
        /\ UNCHANGED <<recorded, stale>>

\* The first call of any operation reads the file and the marker.  A file that
\* cannot be read is taken for a missing one, and so is a marker.
Load(fileRead, markerRead) ==
    LET recs == IF fileRead THEN file.records ELSE <<>>
        damaged == fileRead /\ file.damaged
        marked == marker /\ markerRead
        gs == (IF fileRead THEN file.gaps ELSE {})
                \cup (IF damaged THEN {"corrupt"} ELSE {})
                \cup (IF marked THEN {"degraded"} ELSE {})
    IN  /\ ~loaded
        /\ loaded' = TRUE
        /\ IF damaged \/ marked
           THEN Persist(recs, gs, marked)
           ELSE /\ records' = recs /\ gaps' = gs
                /\ UNCHANGED <<degraded, markerMayExist, file, marker, unmarked>>
        /\ blind' = (blind \/ ~fileRead \/ (marker /\ ~markerRead))
        /\ UNCHANGED <<recorded, stale>>

-------------------------------------------------------------------------------
(* Operations *)

\* evictPastCap: the first completed record, or the first pending one.
IsVictim(recs, i) ==
    /\ i \in DOMAIN recs
    /\ \/ recs[i].status # "pending" /\ \A j \in 1..(i - 1) : recs[j].status = "pending"
       \/ i = 1 /\ \A j \in DOMAIN recs : recs[j].status = "pending"

\* Fault: the eviction leaves no horizon in the gaps.
WithoutEvictionHorizon(gs) == gs

WithEvictionHorizon(gs) == gs \cup {"eviction"}

\* Adding a pending record for n, with the eviction it may cause.
AddPending(n) ==
    LET recs == Append(records, [nonce |-> n, status |-> "pending"])
    IN  \/ Len(recs) <= MAX_RECORDS /\ Persist(recs, gaps, markerMayExist)
        \/ /\ Len(recs) > MAX_RECORDS
           /\ \E i \in DOMAIN recs :
                 IsVictim(recs, i) /\ Persist(RemoveIndex(recs, i), WithEvictionHorizon(gaps), markerMayExist)

\* Fault: a nonce that is known is recorded again.
RecordPendingTwice(n) ==
    /\ loaded
    /\ AddPending(n)
    /\ recorded' = recorded \cup {n}
    /\ UNCHANGED <<loaded, blind, stale>>

\* recordPending of a nonce without a record; with one it changes nothing.
RecordPending(n) ==
    /\ loaded /\ n \notin Keys(records)
    /\ AddPending(n)
    /\ recorded' = recorded \cup {n}
    /\ UNCHANGED <<loaded, blind, stale>>

\* markAccepted and markRejected, of a pending record.
Mark(n, status) ==
    /\ loaded
    /\ \E i \in DOMAIN records : records[i].nonce = n /\ records[i].status = "pending"
    /\ Persist(WithStatus(records, n, status), gaps, markerMayExist)
    /\ UNCHANGED <<loaded, history>>

\* Fault: the clearing is not written.
ClearWithoutPersist(n) ==
    /\ loaded
    /\ \E i \in DOMAIN records : records[i].nonce = n /\ records' = RemoveIndex(records, i)
    /\ recorded' = recorded \ {n}
    /\ UNCHANGED <<loaded, gaps, degraded, markerMayExist, disk, unmarked, blind, stale>>

\* clear(nonce)
Clear(n) ==
    /\ loaded
    /\ \E i \in DOMAIN records :
          records[i].nonce = n /\ Persist(RemoveIndex(records, i), gaps, markerMayExist)
    /\ recorded' = recorded \ {n}
    /\ UNCHANGED <<loaded, blind, stale>>

\* clearUnlessAccepted(nonce): what sendPrompt does for a send that failed.
ClearUnlessAccepted(n) ==
    /\ \A i \in DOMAIN records : records[i].nonce = n => records[i].status # "accepted"
    /\ Clear(n)

\* dispose()
Dispose == /\ loaded
           /\ Persist(records, gaps, markerMayExist)
           /\ UNCHANGED <<loaded, history>>

-------------------------------------------------------------------------------
(* The environment *)

\* The process dies.
Crash == /\ loaded
         /\ loaded' = FALSE /\ records' = <<>> /\ gaps' = {}
         /\ degraded' = FALSE /\ markerMayExist' = FALSE
         /\ blind' = (blind \/ (degraded /\ unmarked))
         /\ stale' = (stale \/ degraded)
         /\ unmarked' = FALSE
         /\ UNCHANGED <<disk, recorded>>

\* The ledger file no longer parses: all of it, one record, or its gaps.
Damage == /\ ~file.damaged
          /\ \E recs \in {<<>>, file.records} \cup {RemoveIndex(file.records, i) : i \in DOMAIN file.records},
                gs \in {{}, file.gaps} :
                file' = [records |-> recs, gaps |-> gs, damaged |-> TRUE]
          /\ UNCHANGED <<memory, marker, unmarked, history>>

Next == \/ \E fileRead, markerRead \in BOOLEAN : Load(fileRead, markerRead)
        \/ \E n \in Nonces : \/ RecordPending(n)
                             \/ \E status \in {"accepted", "rejected"} : Mark(n, status)
                             \/ Clear(n)
                             \/ ClearUnlessAccepted(n)
        \/ Dispose
        \/ Crash
        \/ Damage

Spec == Init /\ [][Next]_vars

-------------------------------------------------------------------------------
(* Properties *)

TypeOK == /\ loaded \in BOOLEAN /\ degraded \in BOOLEAN /\ markerMayExist \in BOOLEAN
          /\ records \in Seq(Records)
          /\ gaps \subseteq GapKinds
          /\ file \in [records : Seq(Records), gaps : SUBSET GapKinds, damaged : BOOLEAN]
          /\ marker \in BOOLEAN
          /\ recorded \subseteq Nonces /\ unmarked \in BOOLEAN
          /\ blind \in BOOLEAN /\ stale \in BOOLEAN

\* "not-found" can be believed: a nonce that was recorded is answered with its
\* record or with a doubt, across evictions, failed writes, damage and restarts,
\* unless the process died when neither file could be written or could not read
\* what it had written.
NotFoundIsTruthful ==
    (loaded /\ ~blind) => \A n \in recorded : Lookup(n) # "not-found"

\* "found" can be believed: a nonce is answered with a record only if its record
\* was not cleared, unless the process died before the clearing was written.
FoundIsTruthful ==
    (loaded /\ ~stale) => \A n \in Nonces : Lookup(n) = "found" => n \in recorded

\* The ledger has, in memory or on disk, a reason to doubt its history.
Doubtful == IF loaded THEN gaps # {} \/ degraded
                      ELSE file.gaps # {} \/ file.damaged \/ marker

\* A doubt is never forgotten: no write, restart or failure makes the ledger
\* certain again of a history that has a gap.
DoubtNeverDecays == [][Doubtful => Doubtful' \/ blind']_vars

\* A nonce has one record, and the records do not outgrow their cap, also when
\* evictions, failed writes and restarts alternate.
RecordsBounded == /\ Len(records) <= MAX_RECORDS
                  /\ \A i, j \in DOMAIN records : records[i].nonce = records[j].nonce => i = j

\* The ledger and its file keep their shape and their bounds.
LedgerConsistent == TypeOK /\ RecordsBounded
===============================================================================
