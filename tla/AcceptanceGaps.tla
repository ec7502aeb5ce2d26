---------------------------- MODULE AcceptanceGaps ----------------------------
(***************************************************************************)
(* The gaps of the acceptance history and their times: withEvictionHorizon,*)
(* withDegradedWindow and withCorruptReset of                              *)
(* source/host/extensions/transcript/prompt-acceptance-ledger.ts.          *)
(*                                                                         *)
(* A client that is told "unknown-durability" reads these to learn for     *)
(* which times the history is incomplete.  At most MAX_DEGRADED_WINDOWS    *)
(* windows are kept: further ones are merged into the last.  The times     *)
(* come from Date.now(), which may step back, so nothing orders them.  The *)
(* names begin with Gaps so that one instance can extend the ledger too.   *)
(***************************************************************************)
EXTENDS Integers, Sequences

CONSTANTS Times,                \* times in milliseconds
          MAX_DEGRADED_WINDOWS  \* windows kept

ASSUME TimesAreNumbers == Times \subseteq Nat
ASSUME WindowsAssumption == MAX_DEGRADED_WINDOWS \in Nat \ {0}

VARIABLES horizon,   \* evictionHorizonMs, or Null
          windows,   \* degradedWindows
          reset,     \* corruptResetAtMs, or Null
          evicted, degradedOver, resetAt  \* history: what was noted

gapsVars == <<horizon, windows, reset, evicted, degradedOver, resetAt>>

Null == -1
Windows == [fromMs : Times, toMs : Times]
Larger(a, b) == IF a > b THEN a ELSE b
Smaller(a, b) == IF a < b THEN a ELSE b

GapsInit == /\ horizon = Null /\ windows = <<>> /\ reset = Null
            /\ evicted = {} /\ degradedOver = {} /\ resetAt = {}

\* Fault: the horizon is the time of the last eviction.
LatestHorizon(h, t) == t

\* Math.max(base ?? at, at), of the eviction horizon and of the corrupt reset.
RaisedTo(h, t) == Larger(IF h = Null THEN t ELSE h, t)

\* Fault: the merged window ends where the new one does.
HullEndingAt(last, w) == [fromMs |-> Smaller(last.fromMs, w.fromMs), toMs |-> w.toMs]

Hull(last, w) == [fromMs |-> Smaller(last.fromMs, w.fromMs), toMs |-> Larger(last.toMs, w.toMs)]

\* Fault: one window too many is kept.
WithDegradedWindowLate(ws, w) ==
    IF Len(ws) > MAX_DEGRADED_WINDOWS THEN [ws EXCEPT ![Len(ws)] = Hull(@, w)] ELSE Append(ws, w)

WithDegradedWindow(ws, w) ==
    IF Len(ws) >= MAX_DEGRADED_WINDOWS THEN [ws EXCEPT ![Len(ws)] = Hull(@, w)] ELSE Append(ws, w)

NoteEviction(t) == /\ horizon' = RaisedTo(horizon, t)
                   /\ evicted' = evicted \cup {t}
                   /\ UNCHANGED <<windows, reset, degradedOver, resetAt>>

NoteDegraded(w) == /\ windows' = WithDegradedWindow(windows, w)
                   /\ degradedOver' = degradedOver \cup {w}
                   /\ UNCHANGED <<horizon, reset, evicted, resetAt>>

NoteReset(t) == /\ reset' = RaisedTo(reset, t)
                /\ resetAt' = resetAt \cup {t}
                /\ UNCHANGED <<horizon, windows, evicted, degradedOver>>

GapsNext == \/ \E t \in Times : NoteEviction(t) \/ NoteReset(t)
            \/ \E w \in Windows : NoteDegraded(w)

GapsSpec == GapsInit /\ [][GapsNext]_gapsVars

\* Shape, and the bound on the windows kept.
GapsTypeOK == /\ horizon \in Times \cup {Null} /\ reset \in Times \cup {Null}
              /\ windows \in Seq(Windows) /\ Len(windows) <= MAX_DEGRADED_WINDOWS
              /\ evicted \subseteq Times /\ resetAt \subseteq Times /\ degradedOver \subseteq Windows

\* Merging loses nothing: each degraded period noted lies within one window
\* kept, however many were merged and however the clock stepped.
WindowsCover ==
    \A w \in degradedOver : \E i \in DOMAIN windows :
        windows[i].fromMs <= w.fromMs /\ w.toMs <= windows[i].toMs

\* No record accepted after the horizon has been evicted.
HorizonCovers == \A t \in evicted : t <= horizon

\* The gaps a client is told of, few as they may be, cover all that was lost.
GapsCover == GapsTypeOK /\ WindowsCover /\ HorizonCovers
===============================================================================
