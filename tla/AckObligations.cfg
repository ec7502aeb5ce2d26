SPECIFICATION Spec
CONSTANTS s1 = s1
          s2 = s2
          r1 = r1
          r2 = r2
          None = None
          Sends <- TwoSends
          Detached <- SecondDetached
          Redrives <- OneRedrive
          MAX_ACK_REDRIVES = 1
          OwesAck = TRUE
          StoreMayFail = TRUE
          MaxTries = 2
          MaxCrashes = 1
          MaxQuiesces = 1
INVARIANTS RunsCounted TokensAreOfLiveRuns NoStrandedObligation OwedUntilAnswered
CHECK_DEADLOCK FALSE
