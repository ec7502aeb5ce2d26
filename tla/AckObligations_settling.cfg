SPECIFICATION FairSpec
CONSTANTS s1 = s1
          s2 = s2
          r1 = r1
          r2 = r2
          None = None
          Sends <- TwoSends
          Detached <- SecondDetached
          Redrives <- OneRedrive
          MAX_ACK_REDRIVES = 1
          OwesAck = TRUE
          StoreMayFail = FALSE
          MaxTries = 1
          MaxCrashes = 1
          MaxQuiesces = 1
PROPERTIES ObligationSettles
CHECK_DEADLOCK FALSE
