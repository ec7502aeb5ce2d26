-------------------------- MODULE MCAcceptanceLedger --------------------------
(* Instances of AcceptanceLedger and of AcceptanceGaps for TLC.  They share    *)
(* nothing but the kinds of gap, so each is explored while the other rests in  *)
(* its initial state.                                                          *)
EXTENDS AcceptanceLedger, AcceptanceGaps, FiniteSets, TLC

BothInit == Init /\ GapsInit

LedgerStep == GapsInit /\ Next /\ UNCHANGED gapsVars
GapsStep == Init /\ GapsNext /\ UNCHANGED vars

BothSpec == BothInit /\ [][LedgerStep \/ GapsStep]_<<vars, gapsVars>>

\* Behaviours are followed until both kinds of loss have happened: from then on
\* the two answers are excused, and no step depends on these two variables.
NotAllLost == ~blind \/ ~stale

\* Periods and evictions noted in one behaviour: two more than windows are kept.
FewNotes == /\ Cardinality(degradedOver) <= MAX_DEGRADED_WINDOWS + 2
            /\ Cardinality(resetAt) <= 1

Symmetry == Permutations(Nonces)
===============================================================================
