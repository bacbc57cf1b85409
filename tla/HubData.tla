------------------------------- MODULE HubData ------------------------------
(***************************************************************************)
(* What the hub promises its user about /data, whatever partition it is    *)
(* on: a store that is off or up.  While it is up, items are stored and    *)
(* deleted and now and then synced to the medium; switching it off in      *)
(* order syncs it, and losing the power keeps of the changes since the     *)
(* last sync any part.  Being off changes nothing.                         *)
(***************************************************************************)
CONSTANT Items

VARIABLES up, live, safe   \* what the user sees, and what is on the medium

vars == <<up, live, safe>>

Init == up = FALSE /\ live = {} /\ safe = {}

Boot == ~up /\ up' = TRUE /\ UNCHANGED <<live, safe>>

Store(i) == up /\ live' = live \cup {i} /\ UNCHANGED <<up, safe>>

Remove(i) == up /\ live' = live \ {i} /\ UNCHANGED <<up, safe>>

Sync == up /\ safe' = live /\ UNCHANGED <<up, live>>

SwitchOff == up /\ up' = FALSE /\ safe' = live /\ UNCHANGED live

LosePower ==
    /\ up /\ up' = FALSE
    /\ live' \in SUBSET (live \cup safe)
    /\ (live \cap safe) \subseteq live'
    /\ safe' = live'

Next ==
    \/ Boot \/ Sync \/ SwitchOff \/ LosePower
    \/ \E i \in Items : Store(i) \/ Remove(i)

Spec == Init /\ [][Next]_vars
=============================================================================
