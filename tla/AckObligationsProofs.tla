------------------------- MODULE AckObligationsProofs -------------------------
(***************************************************************************)
(* Safety of AckObligations for any sends, any number of redrives and any  *)
(* limit.                                                                  *)
(*                                                                         *)
(* The invariant KInv adds to the properties what they rest on: a send's   *)
(* run exists only once its turn was queued, which the ledger shows        *)
(* (RunsSound), so that a send is counted once; and the cache agrees with  *)
(* the file unless the file failed, and a conversation that owes nothing   *)
(* has neither obligation nor redrive (OweSound).                          *)
(***************************************************************************)
EXTENDS AckObligations, FiniteSetTheorems, TLAPS

RunsSound == \A s \in Sends : /\ run[s] # "none" => ledger[s] = "accepted"
                              /\ call[s] = "pinned" => ledger[s] = "none"
                              /\ call[s] = "recorded" => ledger[s] = "pending"

OweSound == /\ ~OwesAck => owed = Nothing /\ owedFile = Nothing /\ \A r \in Redrives : run[r] = "none"
            /\ ~storeFailed => owed = owedFile

KInv == /\ TypeOK /\ InFlightExact /\ TokensAreOfLiveRuns /\ RunsSound /\ OweSound
        /\ NoStrandedObligation /\ OwedUntilAnswered

-------------------------------------------------------------------------------
(* The count of runs *)

LEMMA CountsAreNumbers ==
    /\ IsFiniteSet(Begun) /\ IsFiniteSet(Holding)
    /\ Cardinality(Begun) \in Nat /\ Cardinality(Holding) \in Nat
<1>1. IsFiniteSet(Runs) /\ Begun \subseteq Runs /\ Holding \subseteq Runs
  BY RunsAssumption DEF Runs, Begun, Holding
<1>2. IsFiniteSet(Begun) /\ IsFiniteSet(Holding)
  BY <1>1, FS_Subset
<1> QED
  BY <1>2, FS_CardinalityType

LEMMA CountsAreNumbersNext == Cardinality(Begun') \in Nat /\ Cardinality(Holding') \in Nat
<1>1. IsFiniteSet(Runs) /\ Begun' \subseteq Runs /\ Holding' \subseteq Runs
  BY RunsAssumption DEF Runs, Begun, Holding
<1>2. IsFiniteSet(Begun') /\ IsFiniteSet(Holding')
  BY <1>1, FS_Subset
<1> QED
  BY <1>2, FS_CardinalityType

\* What an action does to the two sets that are counted, and to the count.
Grows(S, T) == \E x : x \notin S /\ T = S \cup {x}
Shrinks(S, T) == \E x : x \in S /\ T = S \ {x}

LEMMA GrowsByOne ==
    ASSUME NEW S, IsFiniteSet(S), NEW T, Grows(S, T)
    PROVE  Cardinality(T) = Cardinality(S) + 1
BY FS_AddElement DEF Grows

LEMMA ShrinksByOne ==
    ASSUME NEW S, IsFiniteSet(S), NEW T, Shrinks(S, T)
    PROVE  Cardinality(T) = Cardinality(S) - 1 /\ Cardinality(S) > 0
<1>1. PICK x : x \in S /\ T = S \ {x}
  BY DEF Shrinks
<1>2. IsFiniteSet(T) /\ Cardinality(T) = Cardinality(S) - 1
  BY <1>1, FS_RemoveElement
<1>3. Cardinality(T) \in Nat /\ Cardinality(S) \in Nat
  BY <1>2, FS_CardinalityType
<1> QED
  BY <1>2, <1>3

LEMMA CountKept ==
    ASSUME InFlightExact,
           \/ Begun' = Begun /\ Holding' = Holding /\ inFlight' = inFlight
           \/ Begun' = Begun /\ Grows(Holding, Holding') /\ inFlight' = inFlight + 1
           \/ Begun' = Begun /\ Shrinks(Holding, Holding') /\ inFlight' = inFlight - 1
           \/ Grows(Begun, Begun') /\ Holding' = Holding /\ inFlight' = inFlight + 1
           \/ Shrinks(Begun, Begun') /\ Holding' = Holding /\ inFlight' = inFlight - 1
           \/ Begun' = {} /\ Holding' = {} /\ inFlight' = 0
    PROVE  InFlightExact' /\ inFlight' \in Nat
<1> DEFINE b == Cardinality(Begun)
           h == Cardinality(Holding)
           b2 == Cardinality(Begun')
           h2 == Cardinality(Holding')
<1>1. b \in Nat /\ h \in Nat /\ b2 \in Nat /\ h2 \in Nat
  BY CountsAreNumbers, CountsAreNumbersNext
<1>2. inFlight = b + h
  BY DEF InFlightExact
<1>3. Grows(Begun, Begun') => b2 = b + 1
  BY CountsAreNumbers, GrowsByOne
<1>4. Grows(Holding, Holding') => h2 = h + 1
  BY CountsAreNumbers, GrowsByOne
<1>5. Shrinks(Begun, Begun') => b2 = b - 1
  BY CountsAreNumbers, ShrinksByOne
<1>6. Shrinks(Holding, Holding') => h2 = h - 1
  BY CountsAreNumbers, ShrinksByOne
<1>7. Begun' = Begun => b2 = b
  BY Zenon
<1>8. Holding' = Holding => h2 = h
  BY Zenon
<1>9. Begun' = {} => b2 = 0
  BY FS_EmptySet, Zenon
<1>10. Holding' = {} => h2 = 0
  BY FS_EmptySet, Zenon
<1> HIDE DEF b, h, b2, h2
<1>11. inFlight' = b2 + h2
  BY <1>1, <1>2, <1>3, <1>4, <1>5, <1>6, <1>7, <1>8, <1>9, <1>10
<1>12. inFlight' \in Nat
  BY <1>1, <1>11
<1> QED
  BY <1>11, <1>12 DEF InFlightExact, b2, h2

\* What holds the session is counted, so the count is not zero.
LEMMA Counted ==
    ASSUME InFlightExact, Begun # {} \/ Holding # {}
    PROVE  inFlight # 0
<1>1. Begun # {} => Cardinality(Begun) # 0
  BY CountsAreNumbers, FS_EmptySet
<1>2. Holding # {} => Cardinality(Holding) # 0
  BY CountsAreNumbers, FS_EmptySet
<1> DEFINE b == Cardinality(Begun)
           h == Cardinality(Holding)
<1>3. b \in Nat /\ h \in Nat /\ inFlight = b + h /\ (b # 0 \/ h # 0)
  BY <1>1, <1>2, CountsAreNumbers DEF InFlightExact
<1> HIDE DEF b, h
<1> QED
  BY <1>3

-------------------------------------------------------------------------------
(* Each part of the invariant *)

LEMMA CountStep ==
    ASSUME KInv, [Next]_vars PROVE InFlightExact' /\ inFlight' \in Nat
<1> USE DEF KInv
<1>1. ASSUME NEW s \in Sends, SendPrompt(s)
      PROVE  InFlightExact' /\ inFlight' \in Nat
  <2>1. s \notin Holding /\ Holding' = Holding \cup {s} /\ Begun' = Begun /\ inFlight' = inFlight + 1
    BY <1>1, RunsAssumption DEF SendPrompt, Begun, Holding, Runs, TypeOK
  <2>2. Grows(Holding, Holding')
    BY <2>1 DEF Grows
  <2> QED
    BY <2>1, <2>2, CountKept
<1>2. ASSUME NEW s \in Sends, SendDuplicate(s)
      PROVE  InFlightExact' /\ inFlight' \in Nat
  <2>1. Begun' = Begun /\ Holding' = Holding /\ inFlight' = inFlight
    BY <1>2, RunsAssumption DEF SendDuplicate, Begun, Holding, Runs, TypeOK
  <2> QED
    BY <2>1, CountKept
<1>3. ASSUME NEW s \in Sends, RecordSend(s)
      PROVE  InFlightExact' /\ inFlight' \in Nat
  <2>1. Begun' = Begun /\ Holding' = Holding /\ inFlight' = inFlight
    BY <1>3, RunsAssumption DEF RecordSend, Begun, Holding, Runs, TypeOK
  <2> QED
    BY <2>1, CountKept
<1>4. ASSUME NEW s \in Sends, SendFailsEarly(s)
      PROVE  InFlightExact' /\ inFlight' \in Nat
  <2>1. s \in Holding /\ Holding' = Holding \ {s} /\ Begun' = Begun /\ inFlight' = inFlight - 1
    BY <1>4, RunsAssumption DEF SendFailsEarly, EndSessionRuns, Begun, Holding, Runs, TypeOK
  <2>2. Shrinks(Holding, Holding')
    BY <2>1 DEF Shrinks
  <2> QED
    BY <2>1, <2>2, CountKept
<1>5. ASSUME NEW s \in Sends, SendFails(s)
      PROVE  InFlightExact' /\ inFlight' \in Nat
  <2>1. s \in Holding /\ Holding' = Holding \ {s} /\ Begun' = Begun /\ inFlight' = inFlight - 1
    BY <1>5, RunsAssumption DEF SendFails, EndSessionRuns, Begun, Holding, Runs, TypeOK
  <2>2. Shrinks(Holding, Holding')
    BY <2>1 DEF Shrinks
  <2> QED
    BY <2>1, <2>2, CountKept
<1>6. ASSUME NEW s \in Sends, Dispatch(s)
      PROVE  InFlightExact' /\ inFlight' \in Nat
  <2>1. s \notin Begun /\ Begun' = Begun \cup {s} /\ Holding' = Holding /\ inFlight' = inFlight + 1
    BY <1>6, RunsAssumption DEF Dispatch, RunsSound, Begun, Holding, Runs, TypeOK
  <2>2. Grows(Begun, Begun')
    BY <2>1 DEF Grows
  <2> QED
    BY <2>1, <2>2, CountKept
<1>7. ASSUME NEW s \in Sends, SendReturns(s)
      PROVE  InFlightExact' /\ inFlight' \in Nat
  <2>1. s \in Holding /\ Holding' = Holding \ {s} /\ Begun' = Begun /\ inFlight' = inFlight - 1
    BY <1>7, RunsAssumption DEF SendReturns, EndSessionRuns, Begun, Holding, Runs, TypeOK
  <2>2. Shrinks(Holding, Holding')
    BY <2>1 DEF Shrinks
  <2> QED
    BY <2>1, <2>2, CountKept
<1>8. ASSUME NEW s \in Sends, CrashWhileRecording(s)
      PROVE  InFlightExact' /\ inFlight' \in Nat
  <2>1. Begun' = {} /\ Holding' = {} /\ inFlight' = 0
    BY <1>8 DEF CrashWhileRecording, Restarted, Begun, Holding
  <2> QED
    BY <2>1, CountKept
<1>9. ASSUME NEW r \in Runs, EndsAtOnce(r)
      PROVE  InFlightExact' /\ inFlight' \in Nat
  <2>1. r \in Begun /\ Begun' = Begun \ {r} /\ Holding' = Holding /\ inFlight' = inFlight - 1
    BY <1>9, RunsAssumption DEF EndsAtOnce, RunOver, EndSessionRuns, Begun, Holding, Runs,
       TypeOK
  <2>2. Shrinks(Begun, Begun')
    BY <2>1 DEF Shrinks
  <2> QED
    BY <2>1, <2>2, CountKept
<1>10. ASSUME NEW r \in Runs, StartRun(r)
      PROVE  InFlightExact' /\ inFlight' \in Nat
  <2>1. Begun' = Begun /\ Holding' = Holding /\ inFlight' = inFlight
    BY <1>10, RunsAssumption DEF StartRun, Begun, Holding, Runs, TypeOK
  <2> QED
    BY <2>1, CountKept
<1>11. ASSUME NEW r \in Runs, EndRun(r)
      PROVE  InFlightExact' /\ inFlight' \in Nat
  <2>1. r \in Begun /\ Begun' = Begun \ {r} /\ Holding' = Holding /\ inFlight' = inFlight - 1
    BY <1>11, RunsAssumption DEF EndRun, RunOver, EndSessionRuns, Begun, Holding, Runs,
       TypeOK
  <2>2. Shrinks(Begun, Begun')
    BY <2>1 DEF Shrinks
  <2> QED
    BY <2>1, <2>2, CountKept
<1>12. ASSUME NEW r \in Runs, Escape(r)
      PROVE  InFlightExact' /\ inFlight' \in Nat
  <2>1. Begun' = Begun /\ Holding' = Holding /\ inFlight' = inFlight
    BY <1>12, RunsAssumption DEF Escape, Begun, Holding, Runs, TypeOK
  <2> QED
    BY <2>1, CountKept
<1>13. ASSUME NEW r \in Runs, ShowMessage(r)
      PROVE  InFlightExact' /\ inFlight' \in Nat
  <2>1. Begun' = Begun /\ Holding' = Holding /\ inFlight' = inFlight
    BY <1>13, RunsAssumption DEF ShowMessage, Begun, Holding, Runs, TypeOK
  <2> QED
    BY <2>1, CountKept
<1>14. ASSUME NEW r \in Redrives, RedriveQueued(r)
      PROVE  InFlightExact' /\ inFlight' \in Nat
  <2>1. r \notin Begun /\ Begun' = Begun \cup {r} /\ Holding' = Holding /\ inFlight' = inFlight + 1
    BY <1>14, RunsAssumption DEF RedriveQueued, Begun, Holding, Runs, TypeOK
  <2>2. Grows(Begun, Begun')
    BY <2>1 DEF Grows
  <2> QED
    BY <2>1, <2>2, CountKept
<1>15. ASSUME NEW r \in Redrives, RedriveUnresolved(r)
      PROVE  InFlightExact' /\ inFlight' \in Nat
  <2>1. Begun' = Begun /\ Holding' = Holding /\ inFlight' = inFlight
    BY <1>15, RunsAssumption DEF RedriveUnresolved, Begun, Holding, Runs, TypeOK
  <2> QED
    BY <2>1, CountKept
<1>16. ASSUME TimerFires
      PROVE  InFlightExact' /\ inFlight' \in Nat
  <2>1. Begun' = Begun /\ Holding' = Holding /\ inFlight' = inFlight
    BY <1>16, RunsAssumption DEF TimerFires, Begun, Holding, Runs, TypeOK
  <2> QED
    BY <2>1, CountKept
<1>17. ASSUME BootRedrive
      PROVE  InFlightExact' /\ inFlight' \in Nat
  <2>1. Begun' = Begun /\ Holding' = Holding /\ inFlight' = inFlight
    BY <1>17, RunsAssumption DEF BootRedrive, Begun, Holding, Runs, TypeOK
  <2> QED
    BY <2>1, CountKept
<1>18. ASSUME Quiesce
      PROVE  InFlightExact' /\ inFlight' \in Nat
  <2>1. Begun' = Begun /\ Holding' = Holding /\ inFlight' = inFlight
    BY <1>18, RunsAssumption DEF Quiesce, Begun, Holding, Runs, TypeOK
  <2> QED
    BY <2>1, CountKept
<1>19. ASSUME ResumeAfterRecreate
      PROVE  InFlightExact' /\ inFlight' \in Nat
  <2>1. Begun' = Begun /\ Holding' = Holding /\ inFlight' = inFlight
    BY <1>19, RunsAssumption DEF ResumeAfterRecreate, Begun, Holding, Runs, TypeOK
  <2> QED
    BY <2>1, CountKept
<1>20. ASSUME Crash
      PROVE  InFlightExact' /\ inFlight' \in Nat
  <2>1. Begun' = {} /\ Holding' = {} /\ inFlight' = 0
    BY <1>20 DEF Crash, Restarted, Begun, Holding
  <2> QED
    BY <2>1, CountKept
<1>21. ASSUME UNCHANGED vars
      PROVE  InFlightExact' /\ inFlight' \in Nat
  <2>1. Begun' = Begun /\ Holding' = Holding /\ inFlight' = inFlight
    BY <1>21, RunsAssumption DEF vars, Begun, Holding, Runs, TypeOK
  <2> QED
    BY <2>1, CountKept
<1> QED
  BY <1>1, <1>2, <1>3, <1>4, <1>5, <1>6, <1>7, <1>8, <1>9, <1>10, <1>11, <1>12, <1>13,
     <1>14, <1>15, <1>16, <1>17, <1>18, <1>19, <1>20, <1>21 DEF Next

\* Tokens come and go with the runs that are queued or running.
LEMMA TokensStep ==
    ASSUME KInv, [Next]_vars PROVE TokensAreOfLiveRuns'
<1> USE DEF KInv
<1>1. ASSUME NEW s \in Sends, SendPrompt(s)
      PROVE  TokensAreOfLiveRuns'
  BY <1>1, RunsAssumption DEF SendPrompt, TokensAreOfLiveRuns, OweSound, Runs, TypeOK
<1>2. ASSUME NEW s \in Sends, SendDuplicate(s)
      PROVE  TokensAreOfLiveRuns'
  BY <1>2, RunsAssumption DEF SendDuplicate, TokensAreOfLiveRuns, OweSound, Runs, TypeOK
<1>3. ASSUME NEW s \in Sends, RecordSend(s)
      PROVE  TokensAreOfLiveRuns'
  BY <1>3, RunsAssumption DEF RecordSend, TokensAreOfLiveRuns, OweSound, Runs, TypeOK
<1>4. ASSUME NEW s \in Sends, SendFailsEarly(s)
      PROVE  TokensAreOfLiveRuns'
  BY <1>4, RunsAssumption DEF SendFailsEarly, EndSessionRuns, TokensAreOfLiveRuns,
     OweSound, Runs, TypeOK
<1>5. ASSUME NEW s \in Sends, SendFails(s)
      PROVE  TokensAreOfLiveRuns'
  BY <1>5, RunsAssumption DEF SendFails, EndSessionRuns, TokensAreOfLiveRuns, OweSound,
     Runs, TypeOK
<1>6. ASSUME NEW s \in Sends, Dispatch(s)
      PROVE  TokensAreOfLiveRuns'
  BY <1>6, RunsAssumption DEF Dispatch, TokensAreOfLiveRuns, OweSound, Runs, TypeOK
<1>7. ASSUME NEW s \in Sends, SendReturns(s)
      PROVE  TokensAreOfLiveRuns'
  BY <1>7, RunsAssumption DEF SendReturns, EndSessionRuns, TokensAreOfLiveRuns, OweSound,
     Runs, TypeOK
<1>8. ASSUME NEW s \in Sends, CrashWhileRecording(s)
      PROVE  TokensAreOfLiveRuns'
  BY <1>8, RunsAssumption DEF CrashWhileRecording, Restarted, TokensAreOfLiveRuns,
     OweSound, Runs, TypeOK
<1>9. ASSUME NEW r \in Runs, EndsAtOnce(r)
      PROVE  TokensAreOfLiveRuns'
  BY <1>9, RunsAssumption DEF EndsAtOnce, RunOver, EndSessionRuns, TokensAreOfLiveRuns,
     OweSound, Runs, TypeOK
<1>10. ASSUME NEW r \in Runs, StartRun(r)
      PROVE  TokensAreOfLiveRuns'
  BY <1>10, RunsAssumption DEF StartRun, TokensAreOfLiveRuns, OweSound, Runs, TypeOK
<1>11. ASSUME NEW r \in Runs, EndRun(r)
      PROVE  TokensAreOfLiveRuns'
  BY <1>11, RunsAssumption DEF EndRun, RunOver, EndSessionRuns, TokensAreOfLiveRuns,
     OweSound, Runs, TypeOK
<1>12. ASSUME NEW r \in Runs, Escape(r)
      PROVE  TokensAreOfLiveRuns'
  BY <1>12, RunsAssumption DEF Escape, TokensAreOfLiveRuns, OweSound, Runs, TypeOK
<1>13. ASSUME NEW r \in Runs, ShowMessage(r)
      PROVE  TokensAreOfLiveRuns'
  BY <1>13, RunsAssumption DEF ShowMessage, TokensAreOfLiveRuns, OweSound, Runs, TypeOK
<1>14. ASSUME NEW r \in Redrives, RedriveQueued(r)
      PROVE  TokensAreOfLiveRuns'
  BY <1>14, RunsAssumption DEF RedriveQueued, TokensAreOfLiveRuns, OweSound, Runs, TypeOK
<1>15. ASSUME NEW r \in Redrives, RedriveUnresolved(r)
      PROVE  TokensAreOfLiveRuns'
  BY <1>15, RunsAssumption DEF RedriveUnresolved, TokensAreOfLiveRuns, OweSound, Runs,
     TypeOK
<1>16. ASSUME TimerFires
      PROVE  TokensAreOfLiveRuns'
  BY <1>16, RunsAssumption DEF TimerFires, TokensAreOfLiveRuns, OweSound, Runs, TypeOK
<1>17. ASSUME BootRedrive
      PROVE  TokensAreOfLiveRuns'
  BY <1>17, RunsAssumption DEF BootRedrive, TokensAreOfLiveRuns, OweSound, Runs, TypeOK
<1>18. ASSUME Quiesce
      PROVE  TokensAreOfLiveRuns'
  BY <1>18, RunsAssumption DEF Quiesce, TokensAreOfLiveRuns, OweSound, Runs, TypeOK
<1>19. ASSUME ResumeAfterRecreate
      PROVE  TokensAreOfLiveRuns'
  BY <1>19, RunsAssumption DEF ResumeAfterRecreate, TokensAreOfLiveRuns, OweSound, Runs,
     TypeOK
<1>20. ASSUME Crash
      PROVE  TokensAreOfLiveRuns'
  BY <1>20, RunsAssumption DEF Crash, Restarted, TokensAreOfLiveRuns, OweSound, Runs, TypeOK
<1>21. ASSUME UNCHANGED vars
      PROVE  TokensAreOfLiveRuns'
  BY <1>21, RunsAssumption DEF vars, store, TokensAreOfLiveRuns, OweSound, Runs, TypeOK
<1> QED
  BY <1>1, <1>2, <1>3, <1>4, <1>5, <1>6, <1>7, <1>8, <1>9, <1>10, <1>11, <1>12, <1>13,
     <1>14, <1>15, <1>16, <1>17, <1>18, <1>19, <1>20, <1>21 DEF Next

\* A send's run exists only once the send is accepted.
LEMMA RunsStep ==
    ASSUME KInv, [Next]_vars PROVE RunsSound'
<1> USE DEF KInv
<1>1. ASSUME NEW s \in Sends, SendPrompt(s)
      PROVE  RunsSound'
  BY <1>1, RunsAssumption DEF SendPrompt, RunsSound, TypeOK, Runs
<1>2. ASSUME NEW s \in Sends, SendDuplicate(s)
      PROVE  RunsSound'
  BY <1>2, RunsAssumption DEF SendDuplicate, RunsSound, TypeOK, Runs
<1>3. ASSUME NEW s \in Sends, RecordSend(s)
      PROVE  RunsSound'
  BY <1>3, RunsAssumption DEF RecordSend, bounds, RunsSound, TypeOK, Runs
<1>4. ASSUME NEW s \in Sends, SendFailsEarly(s)
      PROVE  RunsSound'
  BY <1>4, RunsAssumption DEF SendFailsEarly, EndSessionRuns, bounds, RunsSound, TypeOK,
     Runs
<1>5. ASSUME NEW s \in Sends, SendFails(s)
      PROVE  RunsSound'
  BY <1>5, RunsAssumption DEF SendFails, EndSessionRuns, bounds, RunsSound, TypeOK, Runs
<1>6. ASSUME NEW s \in Sends, Dispatch(s)
      PROVE  RunsSound'
  BY <1>6, RunsAssumption DEF Dispatch, bounds, RunsSound, TypeOK, Runs
<1>7. ASSUME NEW s \in Sends, SendReturns(s)
      PROVE  RunsSound'
  BY <1>7, RunsAssumption DEF SendReturns, EndSessionRuns, bounds, RunsSound, TypeOK, Runs
<1>8. ASSUME NEW s \in Sends, CrashWhileRecording(s)
      PROVE  RunsSound'
  BY <1>8, RunsAssumption DEF CrashWhileRecording, Restarted, RunsSound, TypeOK, Runs
<1>9. ASSUME NEW r \in Runs, EndsAtOnce(r)
      PROVE  RunsSound'
  BY <1>9, RunsAssumption DEF EndsAtOnce, RunOver, EndSessionRuns, bounds, RunsSound,
     TypeOK, Runs
<1>10. ASSUME NEW r \in Runs, StartRun(r)
      PROVE  RunsSound'
  BY <1>10, RunsAssumption DEF StartRun, bounds, RunsSound, TypeOK, Runs
<1>11. ASSUME NEW r \in Runs, EndRun(r)
      PROVE  RunsSound'
  BY <1>11, RunsAssumption DEF EndRun, RunOver, EndSessionRuns, bounds, RunsSound, TypeOK,
     Runs
<1>12. ASSUME NEW r \in Runs, Escape(r)
      PROVE  RunsSound'
  BY <1>12, RunsAssumption DEF Escape, bounds, RunsSound, TypeOK, Runs
<1>13. ASSUME NEW r \in Runs, ShowMessage(r)
      PROVE  RunsSound'
  BY <1>13, RunsAssumption DEF ShowMessage, bounds, RunsSound, TypeOK, Runs
<1>14. ASSUME NEW r \in Redrives, RedriveQueued(r)
      PROVE  RunsSound'
  BY <1>14, RunsAssumption DEF RedriveQueued, bounds, RunsSound, TypeOK, Runs
<1>15. ASSUME NEW r \in Redrives, RedriveUnresolved(r)
      PROVE  RunsSound'
  BY <1>15, RunsAssumption DEF RedriveUnresolved, bounds, RunsSound, TypeOK, Runs
<1>16. ASSUME TimerFires
      PROVE  RunsSound'
  BY <1>16, RunsAssumption DEF TimerFires, bounds, RunsSound, TypeOK, Runs
<1>17. ASSUME BootRedrive
      PROVE  RunsSound'
  BY <1>17, RunsAssumption DEF BootRedrive, bounds, RunsSound, TypeOK, Runs
<1>18. ASSUME Quiesce
      PROVE  RunsSound'
  BY <1>18, RunsAssumption DEF Quiesce, RunsSound, TypeOK, Runs
<1>19. ASSUME ResumeAfterRecreate
      PROVE  RunsSound'
  BY <1>19, RunsAssumption DEF ResumeAfterRecreate, bounds, RunsSound, TypeOK, Runs
<1>20. ASSUME Crash
      PROVE  RunsSound'
  BY <1>20, RunsAssumption DEF Crash, Restarted, RunsSound, TypeOK, Runs
<1>21. ASSUME UNCHANGED vars
      PROVE  RunsSound'
  BY <1>21, RunsAssumption DEF vars, store, RunsSound, TypeOK, Runs
<1> QED
  BY <1>1, <1>2, <1>3, <1>4, <1>5, <1>6, <1>7, <1>8, <1>9, <1>10, <1>11, <1>12, <1>13,
     <1>14, <1>15, <1>16, <1>17, <1>18, <1>19, <1>20, <1>21 DEF Next

\* Cache and file agree, and a group owes nothing.
LEMMA OweStep ==
    ASSUME KInv, [Next]_vars PROVE OweSound'
<1> USE DEF KInv
<1>1. ASSUME NEW s \in Sends, SendPrompt(s)
      PROVE  OweSound'
  BY <1>1, RunsAssumption DEF SendPrompt, store, OweSound, Runs, TypeOK
<1>2. ASSUME NEW s \in Sends, SendDuplicate(s)
      PROVE  OweSound'
  BY <1>2, RunsAssumption DEF SendDuplicate, store, OweSound, Runs, TypeOK
<1>3. ASSUME NEW s \in Sends, RecordSend(s)
      PROVE  OweSound'
  BY <1>3, RunsAssumption DEF RecordSend, StoreSend, store, Store, OweSound, Runs, TypeOK
<1>4. ASSUME NEW s \in Sends, SendFailsEarly(s)
      PROVE  OweSound'
  BY <1>4, RunsAssumption DEF SendFailsEarly, EndSessionRuns, store, OweSound, Runs, TypeOK
<1>5. ASSUME NEW s \in Sends, SendFails(s)
      PROVE  OweSound'
  BY <1>5, RunsAssumption DEF SendFails, StoreSend, EndSessionRuns, store, Store, OweSound,
     Runs, TypeOK
<1>6. ASSUME NEW s \in Sends, Dispatch(s)
      PROVE  OweSound'
  BY <1>6, RunsAssumption DEF Dispatch, StoreSend, store, Store, OweSound, Runs, TypeOK
<1>7. ASSUME NEW s \in Sends, SendReturns(s)
      PROVE  OweSound'
  BY <1>7, RunsAssumption DEF SendReturns, EndSessionRuns, store, OweSound, Runs, TypeOK
<1>8. ASSUME NEW s \in Sends, CrashWhileRecording(s)
      PROVE  OweSound'
  BY <1>8, RunsAssumption DEF CrashWhileRecording, Restarted, OweSound, Runs, TypeOK
<1>9. ASSUME NEW r \in Runs, EndsAtOnce(r)
      PROVE  OweSound'
  BY <1>9, RunsAssumption DEF EndsAtOnce, RunOver, EndSessionRuns, store, OweSound, Runs,
     TypeOK
<1>10. ASSUME NEW r \in Runs, StartRun(r)
      PROVE  OweSound'
  BY <1>10, RunsAssumption DEF StartRun, store, OweSound, Runs, TypeOK
<1>11. ASSUME NEW r \in Runs, EndRun(r)
      PROVE  OweSound'
  BY <1>11, RunsAssumption DEF EndRun, RunOver, EndSessionRuns, store, OweSound, Runs,
     TypeOK
<1>12. ASSUME NEW r \in Runs, Escape(r)
      PROVE  OweSound'
  BY <1>12, RunsAssumption DEF Escape, store, OweSound, Runs, TypeOK
<1>13. ASSUME NEW r \in Runs, ShowMessage(r)
      PROVE  OweSound'
  BY <1>13, RunsAssumption DEF ShowMessage, Store, store, OweSound, Runs, TypeOK
<1>14. ASSUME NEW r \in Redrives, RedriveQueued(r)
      PROVE  OweSound'
  BY <1>14, RunsAssumption DEF RedriveQueued, store, OweSound, Runs, TypeOK
<1>15. ASSUME NEW r \in Redrives, RedriveUnresolved(r)
      PROVE  OweSound'
  BY <1>15, RunsAssumption DEF RedriveUnresolved, store, OweSound, Runs, TypeOK
<1>16. ASSUME TimerFires
      PROVE  OweSound'
  BY <1>16, RunsAssumption DEF TimerFires, Store, store, OweSound, Runs, TypeOK
<1>17. ASSUME BootRedrive
      PROVE  OweSound'
  BY <1>17, RunsAssumption DEF BootRedrive, store, OweSound, Runs, TypeOK
<1>18. ASSUME Quiesce
      PROVE  OweSound'
  BY <1>18, RunsAssumption DEF Quiesce, store, OweSound, Runs, TypeOK
<1>19. ASSUME ResumeAfterRecreate
      PROVE  OweSound'
  BY <1>19, RunsAssumption DEF ResumeAfterRecreate, store, OweSound, Runs, TypeOK
<1>20. ASSUME Crash
      PROVE  OweSound'
  BY <1>20, RunsAssumption DEF Crash, Restarted, OweSound, Runs, TypeOK
<1>21. ASSUME UNCHANGED vars
      PROVE  OweSound'
  BY <1>21, RunsAssumption DEF vars, store, OweSound, Runs, TypeOK
<1> QED
  BY <1>1, <1>2, <1>3, <1>4, <1>5, <1>6, <1>7, <1>8, <1>9, <1>10, <1>11, <1>12, <1>13,
     <1>14, <1>15, <1>16, <1>17, <1>18, <1>19, <1>20, <1>21 DEF Next

\* What is unanswered is owed.
LEMMA OwedStep ==
    ASSUME KInv, [Next]_vars PROVE OwedUntilAnswered'
<1> USE DEF KInv
<1>1. ASSUME NEW s \in Sends, SendPrompt(s)
      PROVE  OwedUntilAnswered'
  BY <1>1, LimitsAssumption DEF SendPrompt, store, OwedUntilAnswered, OweSound, TypeOK,
     Nothing
<1>2. ASSUME NEW s \in Sends, SendDuplicate(s)
      PROVE  OwedUntilAnswered'
  BY <1>2, LimitsAssumption DEF SendDuplicate, store, OwedUntilAnswered, OweSound, TypeOK,
     Nothing
<1>3. ASSUME NEW s \in Sends, RecordSend(s)
      PROVE  OwedUntilAnswered'
  BY <1>3, LimitsAssumption DEF RecordSend, StoreSend, store, Store, OwedUntilAnswered,
     OweSound, TypeOK, Nothing
<1>4. ASSUME NEW s \in Sends, SendFailsEarly(s)
      PROVE  OwedUntilAnswered'
  BY <1>4, LimitsAssumption DEF SendFailsEarly, store, OwedUntilAnswered, OweSound, TypeOK,
     Nothing
<1>5. ASSUME NEW s \in Sends, SendFails(s)
      PROVE  OwedUntilAnswered'
  BY <1>5, LimitsAssumption DEF SendFails, StoreSend, store, Store, OwedUntilAnswered,
     OweSound, TypeOK, Nothing
<1>6. ASSUME NEW s \in Sends, Dispatch(s)
      PROVE  OwedUntilAnswered'
  BY <1>6, LimitsAssumption DEF Dispatch, StoreSend, store, Store, OwedUntilAnswered,
     OweSound, TypeOK, Nothing
<1>7. ASSUME NEW s \in Sends, SendReturns(s)
      PROVE  OwedUntilAnswered'
  BY <1>7, LimitsAssumption DEF SendReturns, store, OwedUntilAnswered, OweSound, TypeOK,
     Nothing
<1>8. ASSUME NEW s \in Sends, CrashWhileRecording(s)
      PROVE  OwedUntilAnswered'
  BY <1>8, LimitsAssumption DEF CrashWhileRecording, Restarted, OwedUntilAnswered,
     OweSound, TypeOK, Nothing
<1>9. ASSUME NEW r \in Runs, EndsAtOnce(r)
      PROVE  OwedUntilAnswered'
  BY <1>9, LimitsAssumption DEF EndsAtOnce, RunOver, store, OwedUntilAnswered, OweSound,
     TypeOK, Nothing
<1>10. ASSUME NEW r \in Runs, StartRun(r)
      PROVE  OwedUntilAnswered'
  BY <1>10, LimitsAssumption DEF StartRun, store, OwedUntilAnswered, OweSound, TypeOK,
     Nothing
<1>11. ASSUME NEW r \in Runs, EndRun(r)
      PROVE  OwedUntilAnswered'
  BY <1>11, LimitsAssumption DEF EndRun, RunOver, store, OwedUntilAnswered, OweSound,
     TypeOK, Nothing
<1>12. ASSUME NEW r \in Runs, Escape(r)
      PROVE  OwedUntilAnswered'
  BY <1>12, LimitsAssumption DEF Escape, store, OwedUntilAnswered, OweSound, TypeOK, Nothing
<1>13. ASSUME NEW r \in Runs, ShowMessage(r)
      PROVE  OwedUntilAnswered'
  BY <1>13, LimitsAssumption DEF ShowMessage, Store, store, OwedUntilAnswered, OweSound,
     TypeOK, Nothing
<1>14. ASSUME NEW r \in Redrives, RedriveQueued(r)
      PROVE  OwedUntilAnswered'
  BY <1>14, LimitsAssumption DEF RedriveQueued, store, OwedUntilAnswered, OweSound, TypeOK,
     Nothing
<1>15. ASSUME NEW r \in Redrives, RedriveUnresolved(r)
      PROVE  OwedUntilAnswered'
  BY <1>15, LimitsAssumption DEF RedriveUnresolved, store, OwedUntilAnswered, OweSound,
     TypeOK, Nothing
<1>16. ASSUME TimerFires
      PROVE  OwedUntilAnswered'
  BY <1>16, LimitsAssumption DEF TimerFires, Store, Redrivable, store, OwedUntilAnswered,
     OweSound, TypeOK, Nothing
<1>17. ASSUME BootRedrive
      PROVE  OwedUntilAnswered'
  BY <1>17, LimitsAssumption DEF BootRedrive, store, OwedUntilAnswered, OweSound, TypeOK,
     Nothing
<1>18. ASSUME Quiesce
      PROVE  OwedUntilAnswered'
  BY <1>18, LimitsAssumption DEF Quiesce, store, OwedUntilAnswered, OweSound, TypeOK,
     Nothing
<1>19. ASSUME ResumeAfterRecreate
      PROVE  OwedUntilAnswered'
  BY <1>19, LimitsAssumption DEF ResumeAfterRecreate, store, OwedUntilAnswered, OweSound,
     TypeOK, Nothing
<1>20. ASSUME Crash
      PROVE  OwedUntilAnswered'
  BY <1>20, LimitsAssumption DEF Crash, Restarted, OwedUntilAnswered, OweSound, TypeOK,
     Nothing
<1>21. ASSUME UNCHANGED vars
      PROVE  OwedUntilAnswered'
  BY <1>21, LimitsAssumption DEF vars, store, OwedUntilAnswered, OweSound, TypeOK, Nothing
<1> QED
  BY <1>1, <1>2, <1>3, <1>4, <1>5, <1>6, <1>7, <1>8, <1>9, <1>10, <1>11, <1>12, <1>13,
     <1>14, <1>15, <1>16, <1>17, <1>18, <1>19, <1>20, <1>21 DEF Next

\* Wherever the last run ends or the timer goes off, a timer is armed or a redrive
\* is under way.
LEMMA StrandedStep ==
    ASSUME KInv, [Next]_vars PROVE NoStrandedObligation'
<1> USE DEF KInv
<1>1. ASSUME NEW s \in Sends, SendPrompt(s)
      PROVE  NoStrandedObligation'
  <2>1. inFlight' # 0
    BY <1>1 DEF SendPrompt, TypeOK
  <2> QED
    BY <2>1 DEF NoStrandedObligation
<1>2. ASSUME NEW s \in Sends, SendDuplicate(s)
      PROVE  NoStrandedObligation'
  BY <1>2, RunsAssumption DEF SendDuplicate, store, upgrade, NoStrandedObligation, TypeOK,
     Runs
<1>3. ASSUME NEW s \in Sends, RecordSend(s)
      PROVE  NoStrandedObligation'
  <2>1. s \in Holding
    BY <1>3 DEF RecordSend, Holding
  <2>2. inFlight' # 0
    BY <1>3, <2>1, Counted DEF RecordSend
  <2> QED
    BY <2>2 DEF NoStrandedObligation
<1>4. ASSUME NEW s \in Sends, SendFailsEarly(s)
      PROVE  NoStrandedObligation'
  BY <1>4, RunsAssumption DEF SendFailsEarly, EndSessionRuns, store, upgrade, ArmTimer,
     NoStrandedObligation, TypeOK, Runs
<1>5. ASSUME NEW s \in Sends, SendFails(s)
      PROVE  NoStrandedObligation'
  BY <1>5, RunsAssumption DEF SendFails, EndSessionRuns, store, upgrade, ArmTimer,
     NoStrandedObligation, TypeOK, Runs
<1>6. ASSUME NEW s \in Sends, Dispatch(s)
      PROVE  NoStrandedObligation'
  <2>1. inFlight' # 0
    BY <1>6 DEF Dispatch, TypeOK
  <2> QED
    BY <2>1 DEF NoStrandedObligation
<1>7. ASSUME NEW s \in Sends, SendReturns(s)
      PROVE  NoStrandedObligation'
  BY <1>7, RunsAssumption DEF SendReturns, EndSessionRuns, store, upgrade, ArmTimer,
     NoStrandedObligation, TypeOK, Runs
<1>8. ASSUME NEW s \in Sends, CrashWhileRecording(s)
      PROVE  NoStrandedObligation'
  BY <1>8, RunsAssumption DEF CrashWhileRecording, Restarted, NoStrandedObligation, TypeOK,
     Runs
<1>9. ASSUME NEW r \in Runs, EndsAtOnce(r)
      PROVE  NoStrandedObligation'
  BY <1>9, RunsAssumption DEF EndsAtOnce, RunOver, EndSessionRuns, store, upgrade,
     ArmTimer, NoStrandedObligation, TypeOK, Runs
<1>10. ASSUME NEW r \in Runs, StartRun(r)
      PROVE  NoStrandedObligation'
  BY <1>10, RunsAssumption DEF StartRun, store, upgrade, NoStrandedObligation, TypeOK, Runs
<1>11. ASSUME NEW r \in Runs, EndRun(r)
      PROVE  NoStrandedObligation'
  BY <1>11, RunsAssumption DEF EndRun, RunOver, EndSessionRuns, store, upgrade, ArmTimer,
     NoStrandedObligation, TypeOK, Runs
<1>12. ASSUME NEW r \in Runs, Escape(r)
      PROVE  NoStrandedObligation'
  BY <1>12, RunsAssumption DEF Escape, store, upgrade, NoStrandedObligation, TypeOK, Runs
<1>13. ASSUME NEW r \in Runs, ShowMessage(r)
      PROVE  NoStrandedObligation'
  <2>1. r \in Begun
    BY <1>13 DEF ShowMessage, Begun
  <2>2. inFlight' # 0
    BY <1>13, <2>1, Counted DEF ShowMessage
  <2> QED
    BY <2>2 DEF NoStrandedObligation
<1>14. ASSUME NEW r \in Redrives, RedriveQueued(r)
      PROVE  NoStrandedObligation'
  <2>1. inFlight' # 0
    BY <1>14 DEF RedriveQueued, TypeOK
  <2> QED
    BY <2>1 DEF NoStrandedObligation
<1>15. ASSUME NEW r \in Redrives, RedriveUnresolved(r)
      PROVE  NoStrandedObligation'
  BY <1>15, RunsAssumption DEF RedriveUnresolved, ArmTimer, store, upgrade,
     NoStrandedObligation, TypeOK, Runs
<1>16. ASSUME TimerFires
      PROVE  NoStrandedObligation'
  BY <1>16, RunsAssumption DEF TimerFires, Store, store, upgrade, NoStrandedObligation,
     TypeOK, Nothing, Runs
<1>17. ASSUME BootRedrive
      PROVE  NoStrandedObligation'
  BY <1>17, RunsAssumption DEF BootRedrive, ArmTimer, store, NoStrandedObligation, TypeOK,
     Runs
<1>18. ASSUME Quiesce
      PROVE  NoStrandedObligation'
  BY <1>18, RunsAssumption DEF Quiesce, store, NoStrandedObligation, TypeOK, Runs
<1>19. ASSUME ResumeAfterRecreate
      PROVE  NoStrandedObligation'
  BY <1>19, RunsAssumption DEF ResumeAfterRecreate, store, NoStrandedObligation, TypeOK,
     Runs
<1>20. ASSUME Crash
      PROVE  NoStrandedObligation'
  BY <1>20, RunsAssumption DEF Crash, Restarted, NoStrandedObligation, TypeOK, Runs
<1>21. ASSUME UNCHANGED vars
      PROVE  NoStrandedObligation'
  BY <1>21, RunsAssumption DEF vars, store, upgrade, NoStrandedObligation, TypeOK, Runs
<1> QED
  BY <1>1, <1>2, <1>3, <1>4, <1>5, <1>6, <1>7, <1>8, <1>9, <1>10, <1>11, <1>12, <1>13,
     <1>14, <1>15, <1>16, <1>17, <1>18, <1>19, <1>20, <1>21 DEF Next

Attempts == (0..MAX_ACK_REDRIVES) \cup {Nothing}

LEMMA StoreTyped ==
    ASSUME TypeOK, NEW value \in Attempts, Store(value)
    PROVE  owed' \in Attempts /\ owedFile' \in Attempts /\ storeFailed' \in BOOLEAN
BY DEF Store, TypeOK, Attempts

LEMMA RestartTyped ==
    ASSUME TypeOK, Restarted
    PROVE  /\ call' \in [Sends -> CallStates] /\ run' \in [Runs -> RunStates]
           /\ answer' \in [Sends -> {"none", "ok", "error", "duplicate"}]
           /\ latest' \in Sends \cup {None} /\ tokens' \subseteq Runs
           /\ owed' \in (0..MAX_ACK_REDRIVES) \cup {Nothing}
           /\ owedFile' \in (0..MAX_ACK_REDRIVES) \cup {Nothing}
           /\ timer' \in BOOLEAN /\ quiescing' \in BOOLEAN /\ bootDue' \in BOOLEAN
           /\ storeFailed' \in BOOLEAN /\ tries' \in [Sends -> 0..MaxTries]
           /\ crashes' \in 0..MaxCrashes /\ quiesces' \in 0..MaxQuiesces
<1>1. call' \in [Sends -> CallStates] /\ run' \in [Runs -> RunStates]
  BY DEF Restarted, CallStates, RunStates
<1>2. answer' \in [Sends -> {"none", "ok", "error", "duplicate"}]
  BY DEF Restarted, TypeOK
<1>3. /\ latest' \in Sends \cup {None} /\ tokens' \subseteq Runs
      /\ timer' \in BOOLEAN /\ quiescing' \in BOOLEAN /\ bootDue' \in BOOLEAN
  BY DEF Restarted
<1>4. /\ owed' \in (0..MAX_ACK_REDRIVES) \cup {Nothing}
      /\ owedFile' \in (0..MAX_ACK_REDRIVES) \cup {Nothing} /\ storeFailed' \in BOOLEAN
  BY DEF Restarted, TypeOK
<1>5. /\ tries' \in [Sends -> 0..MaxTries]
      /\ crashes' \in 0..MaxCrashes /\ quiesces' \in 0..MaxQuiesces
  BY LimitsAssumption DEF Restarted, TypeOK
<1> QED
  BY <1>1, <1>2, <1>3, <1>4, <1>5

LEMMA TypeStep ==
    ASSUME KInv, [Next]_vars PROVE TypeOK'
<1> USE DEF KInv
<1>count. inFlight' \in Nat
  BY CountStep
<1>1. ASSUME NEW s \in Sends, SendPrompt(s)
      PROVE  TypeOK'
  BY <1>1, <1>count, RunsAssumption, LimitsAssumption DEF SendPrompt, store, upgrade,
     TypeOK, Runs, CallStates, RunStates, Nothing
<1>2. ASSUME NEW s \in Sends, SendDuplicate(s)
      PROVE  TypeOK'
  BY <1>2, <1>count, RunsAssumption, LimitsAssumption DEF SendDuplicate, store, upgrade,
     TypeOK, Runs, CallStates, RunStates, Nothing
<1>3. ASSUME NEW s \in Sends, RecordSend(s)
      PROVE  TypeOK'
  <2>1. owed' \in Attempts /\ owedFile' \in Attempts /\ storeFailed' \in BOOLEAN
    <3>1. CASE UNCHANGED store
      BY <3>1 DEF store, Attempts, TypeOK
    <3>2. CASE StoreSend
      <4>1. (IF owed = Nothing THEN 0 ELSE owed) \in Attempts
        BY LimitsAssumption DEF Attempts, TypeOK
      <4> QED
        BY <3>2, <4>1, StoreTyped DEF StoreSend
    <3> QED
      BY <1>3, <3>1, <3>2 DEF RecordSend
  <2> QED
    BY <1>3, <1>count, <2>1, RunsAssumption DEF RecordSend, bounds, upgrade, Attempts,
       TypeOK, Runs, CallStates, RunStates
<1>4. ASSUME NEW s \in Sends, SendFailsEarly(s)
      PROVE  TypeOK'
  BY <1>4, <1>count, RunsAssumption, LimitsAssumption DEF SendFailsEarly, EndSessionRuns,
     store, bounds, upgrade, ArmTimer, TypeOK, Runs, CallStates, RunStates, Nothing
<1>5. ASSUME NEW s \in Sends, SendFails(s)
      PROVE  TypeOK'
  <2>1. owed' \in Attempts /\ owedFile' \in Attempts /\ storeFailed' \in BOOLEAN
    <3>1. CASE UNCHANGED store
      BY <3>1 DEF store, Attempts, TypeOK
    <3>2. CASE StoreSend
      <4>1. (IF owed = Nothing THEN 0 ELSE owed) \in Attempts
        BY LimitsAssumption DEF Attempts, TypeOK
      <4> QED
        BY <3>2, <4>1, StoreTyped DEF StoreSend
    <3> QED
      BY <1>5, <3>1, <3>2 DEF SendFails
  <2> QED
    BY <1>5, <1>count, <2>1, RunsAssumption DEF SendFails, EndSessionRuns, bounds,
       ArmTimer, upgrade, Attempts, TypeOK, Runs, CallStates, RunStates
<1>6. ASSUME NEW s \in Sends, Dispatch(s)
      PROVE  TypeOK'
  <2>1. owed' \in Attempts /\ owedFile' \in Attempts /\ storeFailed' \in BOOLEAN
    <3>1. CASE UNCHANGED store
      BY <3>1 DEF store, Attempts, TypeOK
    <3>2. CASE StoreSend
      <4>1. (IF owed = Nothing THEN 0 ELSE owed) \in Attempts
        BY LimitsAssumption DEF Attempts, TypeOK
      <4> QED
        BY <3>2, <4>1, StoreTyped DEF StoreSend
    <3> QED
      BY <1>6, <3>1, <3>2 DEF Dispatch
  <2> QED
    BY <1>6, <1>count, <2>1, RunsAssumption DEF Dispatch, bounds, upgrade, Attempts,
       TypeOK, Runs, CallStates, RunStates
<1>7. ASSUME NEW s \in Sends, SendReturns(s)
      PROVE  TypeOK'
  BY <1>7, <1>count, RunsAssumption, LimitsAssumption DEF SendReturns, EndSessionRuns,
     store, bounds, upgrade, ArmTimer, TypeOK, Runs, CallStates, RunStates, Nothing
<1>8. ASSUME NEW s \in Sends, CrashWhileRecording(s)
      PROVE  TypeOK'
  <2>1. Restarted
    BY <1>8 DEF CrashWhileRecording
  <2>2. ledger' \in [Sends -> {"none", "pending", "accepted"}] /\ unanswered' \subseteq Sends /\ torn' \in BOOLEAN
    BY <1>8 DEF CrashWhileRecording, TypeOK
  <2> QED
    BY <1>count, <2>1, <2>2, RestartTyped DEF Restarted, TypeOK
<1>9. ASSUME NEW r \in Runs, EndsAtOnce(r)
      PROVE  TypeOK'
  BY <1>9, <1>count, RunsAssumption, LimitsAssumption DEF EndsAtOnce, RunOver,
     EndSessionRuns, store, bounds, upgrade, ArmTimer, TypeOK, Runs, CallStates, RunStates,
        Nothing
<1>10. ASSUME NEW r \in Runs, StartRun(r)
      PROVE  TypeOK'
  BY <1>10, <1>count, RunsAssumption, LimitsAssumption DEF StartRun, store, bounds,
     upgrade, TypeOK, Runs, CallStates, RunStates, Nothing
<1>11. ASSUME NEW r \in Runs, EndRun(r)
      PROVE  TypeOK'
  BY <1>11, <1>count, RunsAssumption, LimitsAssumption DEF EndRun, RunOver, EndSessionRuns,
     store, bounds, upgrade, ArmTimer, TypeOK, Runs, CallStates, RunStates, Nothing
<1>12. ASSUME NEW r \in Runs, Escape(r)
      PROVE  TypeOK'
  BY <1>12, <1>count, RunsAssumption, LimitsAssumption DEF Escape, store, bounds, upgrade,
     TypeOK, Runs, CallStates, RunStates, Nothing
<1>13. ASSUME NEW r \in Runs, ShowMessage(r)
      PROVE  TypeOK'
  BY <1>13, <1>count, RunsAssumption, LimitsAssumption DEF ShowMessage, Store, store,
     bounds, upgrade, TypeOK, Runs, CallStates, RunStates, Nothing
<1>14. ASSUME NEW r \in Redrives, RedriveQueued(r)
      PROVE  TypeOK'
  BY <1>14, <1>count, RunsAssumption, LimitsAssumption DEF RedriveQueued, store, bounds,
     upgrade, TypeOK, Runs, CallStates, RunStates, Nothing
<1>15. ASSUME NEW r \in Redrives, RedriveUnresolved(r)
      PROVE  TypeOK'
  BY <1>15, <1>count, RunsAssumption, LimitsAssumption DEF RedriveUnresolved, ArmTimer,
     store, bounds, upgrade, TypeOK, Runs, CallStates, RunStates, Nothing
<1>16. ASSUME TimerFires
      PROVE  TypeOK'
  <2>1. owed' \in Attempts /\ owedFile' \in Attempts /\ storeFailed' \in BOOLEAN
    <3>1. CASE UNCHANGED store
      BY <3>1 DEF store, Attempts, TypeOK
    <3>2. CASE Store(Nothing)
      BY <3>2, StoreTyped DEF Attempts
    <3>3. CASE owed # Nothing /\ Redrivable /\ Store(owed + 1)
      <4>1. owed + 1 \in Attempts
        BY <3>3, LimitsAssumption DEF Redrivable, Attempts, TypeOK
      <4> QED
        BY <3>3, <4>1, StoreTyped
    <3> QED
      BY <1>16, <3>1, <3>2, <3>3 DEF TimerFires
  <2> QED
    BY <1>16, <1>count, <2>1, RunsAssumption DEF TimerFires, bounds, upgrade, Attempts,
       TypeOK, Runs, CallStates, RunStates
<1>17. ASSUME BootRedrive
      PROVE  TypeOK'
  BY <1>17, <1>count, RunsAssumption, LimitsAssumption DEF BootRedrive, ArmTimer, store,
     bounds, TypeOK, Runs, CallStates, RunStates, Nothing
<1>18. ASSUME Quiesce
      PROVE  TypeOK'
  BY <1>18, <1>count, RunsAssumption, LimitsAssumption DEF Quiesce, store, TypeOK, Runs,
     CallStates, RunStates, Nothing
<1>19. ASSUME ResumeAfterRecreate
      PROVE  TypeOK'
  BY <1>19, <1>count, RunsAssumption, LimitsAssumption DEF ResumeAfterRecreate, store,
     bounds, TypeOK, Runs, CallStates, RunStates, Nothing
<1>20. ASSUME Crash
      PROVE  TypeOK'
  <2>1. Restarted
    BY <1>20 DEF Crash
  <2>2. ledger' \in [Sends -> {"none", "pending", "accepted"}] /\ unanswered' \subseteq Sends /\ torn' \in BOOLEAN
    BY <1>20 DEF Crash, TypeOK
  <2> QED
    BY <1>count, <2>1, <2>2, RestartTyped DEF Restarted, TypeOK
<1>21. ASSUME UNCHANGED vars
      PROVE  TypeOK'
  BY <1>21, <1>count, RunsAssumption, LimitsAssumption DEF vars, store, bounds, upgrade,
     TypeOK, Runs, CallStates, RunStates, Nothing
<1> QED
  BY <1>1, <1>2, <1>3, <1>4, <1>5, <1>6, <1>7, <1>8, <1>9, <1>10, <1>11, <1>12, <1>13,
     <1>14, <1>15, <1>16, <1>17, <1>18, <1>19, <1>20, <1>21 DEF Next

-------------------------------------------------------------------------------
(* Theorems *)

LEMMA Start == Init => KInv
<1> SUFFICES ASSUME Init PROVE KInv
  OBVIOUS
<1>1. TypeOK
  <2>1. 0 \in 0..MaxTries /\ 0 \in 0..MaxCrashes /\ 0 \in 0..MaxQuiesces
    BY LimitsAssumption
  <2>2. /\ call \in [Sends -> CallStates] /\ run \in [Runs -> RunStates]
        /\ answer \in [Sends -> {"none", "ok", "error", "duplicate"}]
        /\ ledger \in [Sends -> {"none", "pending", "accepted"}]
    BY DEF Init, CallStates, RunStates
  <2>3. tries \in [Sends -> 0..MaxTries]
    BY <2>1 DEF Init
  <2> QED
    BY <2>1, <2>2, <2>3 DEF Init, TypeOK
<1>2. InFlightExact
  <2>1. Begun = {} /\ Holding = {} /\ inFlight = 0
    BY DEF Init, Begun, Holding
  <2>2. Cardinality(Begun) = 0 /\ Cardinality(Holding) = 0
    BY <2>1, FS_EmptySet, Zenon
  <2> QED
    BY <2>1, <2>2 DEF InFlightExact
<1>3. TokensAreOfLiveRuns
  BY DEF Init, TokensAreOfLiveRuns
<1>4. RunsSound /\ OweSound
  BY DEF Init, RunsSound, OweSound, Runs
<1>5. NoStrandedObligation /\ OwedUntilAnswered
  BY DEF Init, NoStrandedObligation, OwedUntilAnswered
<1> QED
  BY <1>1, <1>2, <1>3, <1>4, <1>5 DEF KInv

LEMMA Step == KInv /\ [Next]_vars => KInv'
<1> SUFFICES ASSUME KInv, [Next]_vars PROVE KInv'
  OBVIOUS
<1>1. TypeOK'
  BY TypeStep
<1>2. InFlightExact'
  BY CountStep
<1>3. TokensAreOfLiveRuns'
  BY TokensStep
<1>4. RunsSound' /\ OweSound'
  BY RunsStep, OweStep
<1>5. NoStrandedObligation' /\ OwedUntilAnswered'
  BY StrandedStep, OwedStep
<1> QED
  BY <1>1, <1>2, <1>3, <1>4, <1>5 DEF KInv

LEMMA Invariance == Spec => []KInv
BY Start, Step, PTL DEF Spec

\* Whatever fails, is abandoned or crashes, the count of runs that decides when an
\* agent is idle is that of the calls and runs that hold its session.
THEOREM RunsAreCounted == Spec => []RunsCounted
<1>1. KInv => RunsCounted
  BY DEF KInv, RunsCounted
<1> QED
  BY <1>1, Invariance, PTL

\* Exactly the runs that wait or run unabandoned may discharge the obligation.
THEOREM TokensFollowRuns == Spec => []TokensAreOfLiveRuns
<1>1. KInv => TokensAreOfLiveRuns
  BY DEF KInv
<1> QED
  BY <1>1, Invariance, PTL

\* No order of sends, failures, redrives, upgrades and crashes leaves an idle agent
\* that owes an answer without a timer, unless the obligation file failed.
THEOREM ObligationsAreWatched == Spec => []NoStrandedObligation
<1>1. KInv => NoStrandedObligation
  BY DEF KInv
<1> QED
  BY <1>1, Invariance, PTL

\* What was sent stays owed, in memory and on disk, until a message is shown after
\* its turn was queued or the obligation is given up.
THEOREM SendsStayOwed == Spec => []OwedUntilAnswered
<1>1. KInv => OwedUntilAnswered
  BY DEF KInv
<1> QED
  BY <1>1, Invariance, PTL
===============================================================================
