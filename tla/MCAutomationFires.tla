--------------------------- MODULE MCAutomationFires ---------------------------
(* Instances of AutomationFires for TLC. *)
EXTENDS AutomationFires

CONSTANTS e1, e2, s1, s2, l1

Due == {f \in Fires : server[f] = "pending"}

\* Two fires and two failures; or two event fires, a local event and one failure.
MCInit == /\ Init
          /\ \/ Due = {e1, e2} /\ locals = {} /\ upsets = 0
             \/ Due = {e1, s1} /\ locals = {} /\ upsets = 0
             \/ Due = {s1, s2} /\ locals = {} /\ upsets = 0
             \/ Due = {e1, e2} /\ locals = {l1} /\ upsets = 1

MCSpec == MCInit /\ [][Next]_vars /\ Fairness
================================================================================
