------------------------------ MODULE HubUpdate -----------------------------
(***************************************************************************)
(* The Update tab of the admin web UI.  A request looks a release up on    *)
(* GitHub, downloads the target's asset into a temporary file beside the   *)
(* installed binary and renames it over that.  The binary of remote-icmp   *)
(* then gets the capability that it needs for its probes.  Several         *)
(* requests may be at work on one target; the services are started from    *)
(* the installed binaries at any time; the UI itself is one of them, and   *)
(* its requests end with it; the power may go.                             *)
(***************************************************************************)
EXTENDS Integers, FiniteSets

CONSTANTS
    Targets,        \* the binaries that can be updated
    UI,             \* the one of the admin UI
    Capable,        \* those that need a capability: remote-icmp
    Releases,       \* tags, numbered in the order in which they are published
    HasAsset,       \* the targets for which a release has a binary
    Size,           \* of a release's binary for a target
    MaxAsset,       \* maxAssetBytes
    Requests,       \* handlers at work at one time
    None,
    MaxKills        \* bound: restarts of the UI and power losses

ASSUME UpdateAssumption ==
    /\ UI \in Targets /\ Capable \subseteq Targets \ {UI}
    /\ Releases \subseteq Nat \ {0}
    /\ HasAsset \in [Releases -> SUBSET Targets]
    /\ Size \in [Releases -> [Targets -> Nat]] /\ MaxAsset \in Nat
    /\ None \notin Requests \cup Releases
    /\ None \notin [tag : Releases, bytes : 0..(MaxAsset + 1), cap : BOOLEAN]
    /\ MaxKills \in Nat

VARIABLES
    newest,     \* releases up to this one are published
    installed,  \* the file of a target in the install directory, or None
    durable,    \* that file as it is on the medium
    request,    \* the handlers
    temps,      \* temporary files that exist, by the request that made them
    service,    \* the services, and what they run
    owner,      \* history: the request whose binary is installed
    late,       \* history: the service's binary was replaced after ensure_cap
    kills       \* history: how often requests were cut off

files == <<installed, durable, owner>>
vars == <<newest, installed, durable, request, temps, service, owner, late, kills>>

(* how much of which release's binary, and whether it has the capability *)
File == [tag : Releases, bytes : 0..(MaxAsset + 1), cap : BOOLEAN]

Working == {"lookup", "download", "copy", "rename", "setcap", "reply"}

Request ==
    [pc : {"idle", "ok", "failed"} \cup Working, target : Targets, tag : Releases \cup {None},
     bytes : 0..(MaxAsset + 1)]

TypeOK ==
    /\ newest \in Releases
    /\ installed \in [Targets -> File \cup {None}]
    /\ durable \in [Targets -> File \cup {None}]
    /\ request \in [Requests -> Request]
    /\ temps \in [Requests -> 0..(MaxKills + 1)]
    /\ service \in [Targets -> [pc : {"down", "resolved", "ready", "up"},
                                data : BOOLEAN, bin : File \cup {None}]]
    /\ owner \in [Targets -> Requests \cup {None}]
    /\ late \in [Targets -> BOOLEAN]
    /\ kills \in 0..MaxKills

-----------------------------------------------------------------------------
MinOf(a, b) == IF a < b THEN a ELSE b

Published == {g \in Releases : g <= newest}

(* ListReleases: those with an asset for the target *)
Listed(t) == {g \in Published : t \in HasAsset[g]}

(* io.LimitReader ends a body that is too long without an error *)
Copied_NoExtraByte(g, t) == MinOf(Size[g][t], MaxAsset)
Copied(g, t) == MinOf(Size[g][t], MaxAsset + 1)

(* what the journal may say of a file: its data were synced before the rename *)
Written_NoSync(f) == IF f = None THEN {f} ELSE {f, [f EXCEPT !.bytes = 0]}
Written(f) == {f}

(* the deferred function of downloadInstall *)
Kept_Always == 0
Kept == 1

(* what Apply does after the rename *)
AfterRename_NoCap(t) == "reply"
AfterRename(t) == IF t \in Capable THEN "setcap" ELSE "reply"

Alive == service[UI].pc = "up"

HasTemp(r) == request[r].pc \in {"copy", "rename"}

Ended(how) == [pc |-> how, target |-> UI, tag |-> None, bytes |-> 0]

Goto(r, to) == request' = [request EXCEPT ![r].pc = to]
End(r, how) == request' = [request EXCEPT ![r] = Ended(how)]

Store(t, f) == installed' = [installed EXCEPT ![t] = f]

-----------------------------------------------------------------------------
Init ==
    /\ newest \in Releases
    /\ installed = [t \in Targets |-> None]
    /\ durable = installed
    /\ request = [r \in Requests |-> Ended("idle")]
    /\ temps = [r \in Requests |-> 0]
    /\ service = [t \in Targets |-> [pc |-> "down", data |-> FALSE, bin |-> None]]
    /\ owner = [t \in Targets |-> None]
    /\ late = [t \in Targets |-> FALSE]
    /\ kills = 0

(* GitHub *)
Publish ==
    /\ newest + 1 \in Releases
    /\ newest' = newest + 1
    /\ UNCHANGED <<files, request, temps, service, late, kills>>

(* ext4 writes its journal *)
Writeback(t) ==
    /\ \E f \in Written(installed[t]) : durable' = [durable EXCEPT ![t] = f]
    /\ UNCHANGED <<newest, installed, owner, request, temps, service, late, kills>>

-----------------------------------------------------------------------------
(* runUpdateHandler and Updater.Apply, for one request.                    *)

(* A page asks for a release of its list, or another client for the latest. *)
Ask(r, t) ==
    /\ Alive /\ request[r].pc \notin Working
    /\ \E g \in Listed(t) \cup {None} :
        request' = [request EXCEPT ![r] = [pc |-> "lookup", target |-> t, tag |-> g, bytes |-> 0]]
    /\ UNCHANGED <<newest, files, temps, service, late, kills>>

(* fetchRelease, findAsset *)
Lookup(r) ==
    /\ request[r].pc = "lookup"
    /\ LET g == IF request[r].tag = None THEN newest ELSE request[r].tag
       IN  IF request[r].target \in HasAsset[g]
             THEN request' = [request EXCEPT ![r].tag = g, ![r].pc = "download"]
             ELSE End(r, "failed")
    /\ UNCHANGED <<newest, files, temps, service, late, kills>>

(* downloadInstall: the answer's header has come, and the file is created *)
Download(r) ==
    /\ request[r].pc = "download"
    /\ temps' = [temps EXCEPT ![r] = @ + 1]
    /\ Goto(r, "copy")
    /\ UNCHANGED <<newest, files, service, late, kills>>

(* io.Copy, the check of the size, Chmod, Sync, Close *)
Copy(r) ==
    LET n == Copied(request[r].tag, request[r].target) IN
    /\ request[r].pc = "copy"
    /\ n <= MaxAsset
    /\ request' = [request EXCEPT ![r].bytes = n, ![r].pc = "rename"]
    /\ UNCHANGED <<newest, files, temps, service, late, kills>>

Fresh(r) == [tag |-> request[r].tag, bytes |-> request[r].bytes, cap |-> FALSE]

Rename(r) ==
    LET t == request[r].target IN
    /\ request[r].pc = "rename"
    /\ Store(t, Fresh(r))
    /\ temps' = [temps EXCEPT ![r] = @ - 1]
    /\ owner' = [owner EXCEPT ![t] = r]
    /\ late' = [late EXCEPT ![t] = @ \/ service[t].pc = "ready"]
    /\ Goto(r, AfterRename(t))
    /\ UNCHANGED <<newest, durable, service, kills>>

(* An error before the rename: the network, GitHub, a page that left, the  *)
(* client's timeout, a file too large, a full volume.                      *)
Fail(r) ==
    /\ request[r].pc \in Working \ {"setcap", "reply"}
    /\ temps' = [temps EXCEPT ![r] = @ - IF HasTemp(r) THEN Kept ELSE 0]
    /\ End(r, "failed")
    /\ UNCHANGED <<newest, files, service, late, kills>>

WithCap(f) == IF f = None THEN None ELSE [f EXCEPT !.cap = TRUE]

(* setcap(8) looks the path up again, so that it may meet another request's file *)
SetCap(r) ==
    LET t == request[r].target IN
    /\ request[r].pc = "setcap"
    /\ Store(t, WithCap(installed[t]))
    /\ Goto(r, "reply")
    /\ UNCHANGED <<newest, durable, owner, temps, service, late, kills>>

(* ... and the request fails though the new binary is in place *)
SetCapFails(r) ==
    /\ request[r].pc = "setcap"
    /\ End(r, "failed")
    /\ owner' = [owner EXCEPT ![request[r].target] = IF @ = r THEN None ELSE @]
    /\ UNCHANGED <<newest, installed, durable, temps, service, late, kills>>

Reply(r) ==
    /\ request[r].pc = "reply"
    /\ End(r, "ok")
    /\ UNCHANGED <<newest, files, temps, service, late, kills>>

-----------------------------------------------------------------------------
(* init.d/remote-icmp, init.d/bigfred-os-ui                                *)

(* the image's binary has its capability from the build *)
NeedsCap_Image(t) == t \in Capable /\ installed[t] = None
NeedsCap(t) == t \in Capable /\ installed[t] # None

(* resolve_bin *)
Resolve(t) ==
    /\ service[t].pc = "down"
    /\ service' = [service EXCEPT ![t].data = installed[t] # None,
                                  ![t].pc = IF NeedsCap(t) THEN "resolved" ELSE "ready"]
    /\ late' = [late EXCEPT ![t] = FALSE]
    /\ UNCHANGED <<newest, files, request, temps, kills>>

(* ensure_cap, whose failure is ignored *)
EnsureCap(t) ==
    /\ service[t].pc = "resolved"
    /\ service' = [service EXCEPT ![t].pc = "ready"]
    /\ \/ Store(t, WithCap(installed[t])) /\ UNCHANGED late
       \/ UNCHANGED installed /\ late' = [late EXCEPT ![t] = TRUE]
    /\ UNCHANGED <<newest, durable, owner, request, temps, kills>>

Exec(t) ==
    /\ service[t].pc = "ready"
    /\ service' = [service EXCEPT ![t].pc = "up",
                                  ![t].bin = IF service[t].data THEN installed[t] ELSE None]
    /\ UNCHANGED <<newest, files, request, temps, late, kills>>

(* a process that ends leaves the files it has written *)
CutOff == request' = [r \in Requests |->
    IF request[r].pc \in Working THEN Ended("failed") ELSE request[r]]

Stopped == [pc |-> "down", data |-> FALSE, bin |-> None]

(* stopped from the Services tab, or ended by itself *)
Stop(t) ==
    /\ service[t].pc = "up"
    /\ service' = [service EXCEPT ![t] = Stopped]
    /\ IF t = UI
         THEN /\ kills < MaxKills /\ kills' = kills + 1
              /\ CutOff
         ELSE UNCHANGED <<request, kills>>
    /\ UNCHANGED <<newest, files, temps, late>>

(* The power goes, and the hub boots again. *)
PowerLoss ==
    /\ kills < MaxKills /\ kills' = kills + 1
    /\ installed' = durable
    /\ owner' = [t \in Targets |-> None]
    /\ service' = [t \in Targets |-> Stopped]
    /\ late' = [t \in Targets |-> FALSE]
    /\ CutOff
    /\ UNCHANGED <<newest, durable, temps>>

-----------------------------------------------------------------------------
Handler(r) ==
    \/ Lookup(r) \/ Download(r) \/ Copy(r)
    \/ Rename(r) \/ Fail(r) \/ SetCap(r) \/ SetCapFails(r) \/ Reply(r)

Start(t) == Resolve(t) \/ EnsureCap(t) \/ Exec(t)

Next ==
    \/ Publish \/ PowerLoss
    \/ \E t \in Targets : Writeback(t) \/ Start(t) \/ Stop(t)
    \/ \E r \in Requests : Handler(r) \/ \E t \in Targets : Ask(r, t)

Spec == Init /\ [][Next]_vars

-----------------------------------------------------------------------------
(* Properties.                                                             *)

(***************************************************************************)
(* What an update that is about to report success names is what the target *)
(* has, with the capability it needs, unless another update has replaced   *)
(* it since or the power went.                                             *)
(***************************************************************************)
ReportedIsInstalled ==
    \A r \in Requests :
        LET t == request[r].target IN
        request[r].pc = "reply" /\ owner[t] = r
            => /\ installed[t] # None
               /\ installed[t].tag = request[r].tag
               /\ t \in Capable => installed[t].cap

(***************************************************************************)
(* A service that needs a capability and runs from the install directory   *)
(* has it, however the update that put its binary there has ended, unless  *)
(* setcap failed at its start or an update replaced the binary between     *)
(* that and exec.                                                          *)
(***************************************************************************)
RunsCapable ==
    \A t \in Capable :
        service[t].pc = "up" /\ service[t].bin # None /\ ~late[t] => service[t].bin.cap

(***************************************************************************)
(* Temporary files on the data partition belong to a download at work, or  *)
(* to one that was cut off: no error leaves one behind.                    *)
(***************************************************************************)
TempsOwned ==
    \A r \in Requests :
        temps[r] <= kills + IF HasTemp(r) THEN 1 ELSE 0

(***************************************************************************)
(* The Update tab's promise, HubBinaries: what is installed is whole.      *)
(***************************************************************************)
Broken == 0  \* no release

BinOf(t, f) ==
    IF f = None THEN None ELSE IF f.bytes = Size[f.tag][t] THEN f.tag ELSE Broken

JobOf(q) ==
    IF q.pc \notin Working
      THEN [is |-> q.pc]
      ELSE [is |-> IF q.pc \in {"setcap", "reply"} THEN "installed" ELSE "asked",
            target |-> q.target, tag |-> q.tag]

Binaries == INSTANCE HubBinaries WITH
    Image <- None, Latest <- None, Jobs <- Requests,
    bin <- [t \in Targets |-> BinOf(t, installed[t])],
    safe <- [t \in Targets |-> BinOf(t, durable[t])],
    job <- [r \in Requests |-> JobOf(request[r])]

ImplementsBinaries == Binaries!Spec

=============================================================================
