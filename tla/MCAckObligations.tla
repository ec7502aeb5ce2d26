--------------------------- MODULE MCAckObligations ---------------------------
(* Two sends, one of them detached, and the redrives an agent can have. *)
EXTENDS AckObligations, TLC

CONSTANTS s1, s2, r1, r2

TwoSends == {s1, s2}
SecondDetached == {s2}
OneRedrive == {r1}
TwoRedrives == {r1, r2}
===============================================================================
