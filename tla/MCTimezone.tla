----------------------------- MODULE MCTimezone -----------------------------
(* HubTimezone for TLC: the image's zone and one with a longer name.       *)
EXTENDS HubTimezone

Lengths == [z \in Zones |-> IF z = Default THEN 1 ELSE 2]
=============================================================================
