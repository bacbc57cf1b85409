----------------------------- MODULE HubBinaries ----------------------------
(***************************************************************************)
(* What the Update tab promises: the binary of a target is that of the     *)
(* image or a whole release, one update replaces it at one instant, and an *)
(* update that is reported as done has replaced it.  An update that fails  *)
(* or is cut off may or may not have done so.  Losing the power may bring  *)
(* back the binary that was there at the last sync, and nothing else.      *)
(***************************************************************************)
CONSTANTS Targets, Releases, Image, Latest, Jobs

VARIABLES
    bin,     \* the binary of each target
    safe,    \* what it is on the medium
    job      \* what each update has come to

vars == <<bin, safe, job>>

Init ==
    /\ bin = [t \in Targets |-> Image]
    /\ safe = bin
    /\ job = [j \in Jobs |-> [is |-> "idle"]]

Ask(j, t, g) ==
    /\ job[j].is \notin {"asked", "installed"}
    /\ job' = [job EXCEPT ![j] = [is |-> "asked", target |-> t, tag |-> g]]
    /\ UNCHANGED <<bin, safe>>

(* which release is the latest is decided once *)
Choose(j, g) ==
    /\ job[j].is = "asked" /\ job[j].tag = Latest
    /\ job' = [job EXCEPT ![j].tag = g]
    /\ UNCHANGED <<bin, safe>>

Install(j) ==
    /\ job[j].is = "asked" /\ job[j].tag # Latest
    /\ bin' = [bin EXCEPT ![job[j].target] = job[j].tag]
    /\ job' = [job EXCEPT ![j].is = "installed"]
    /\ UNCHANGED safe

Report(j) ==
    /\ job[j].is = "installed"
    /\ job' = [job EXCEPT ![j] = [is |-> "ok"]]
    /\ UNCHANGED <<bin, safe>>

Fail(j) ==
    /\ job[j].is \in {"asked", "installed"}
    /\ job' = [job EXCEPT ![j] = [is |-> "failed"]]
    /\ UNCHANGED <<bin, safe>>

Sync(t) ==
    /\ safe' = [safe EXCEPT ![t] = bin[t]]
    /\ UNCHANGED <<bin, job>>

(* the page loses the connection *)
Cut == job' = [j \in Jobs |->
    IF job[j].is \in {"asked", "installed"} THEN [is |-> "failed"] ELSE job[j]]

LosePower == bin' = safe /\ UNCHANGED safe /\ Cut

Next ==
    \/ \E j \in Jobs :
        \/ \E t \in Targets, g \in Releases \cup {Latest} : Ask(j, t, g)
        \/ \E g \in Releases : Choose(j, g)
        \/ Install(j) \/ Report(j) \/ Fail(j)
    \/ \E t \in Targets : Sync(t)
    \/ Cut /\ UNCHANGED <<bin, safe>>
    \/ LosePower

Spec == Init /\ [][Next]_vars
=============================================================================
