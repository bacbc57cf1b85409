---------------------------- MODULE MCHubStorage ----------------------------
(***************************************************************************)
(* HubStorage for TLC.                                                     *)
(***************************************************************************)
EXTENDS HubStorage

\* where the power may be lost in the runs that leave out the copy window
OutsideCopy == PC \ ({"off"} \cup CopyWindow)
Anywhere == PC \ {"off"}
\* only while cp -a is at work
InCopy == {"copy"}
=============================================================================
