-------------------------- MODULE HubUpdateProofs ---------------------------
(***************************************************************************)
(* What the Update tab installs and reports, for any targets, releases,    *)
(* sizes, requests and services, and wherever requests fail or are cut     *)
(* off; and that HubUpdate implements HubBinaries.                         *)
(***************************************************************************)
EXTENDS HubUpdate, TLAPS

ServiceState ==
    [pc : {"down", "resolved", "ready", "up"}, data : BOOLEAN, bin : File \cup {None}]

\* a request that has looked its release up has one, and a file that is
\* ready to be renamed is whole
Looked == {"download", "copy", "rename", "setcap", "reply"}

AssetChosen ==
    \A r \in Requests :
        /\ request[r].pc \in Looked => request[r].tag \in Releases
        /\ request[r].pc = "rename" => request[r].bytes = Size[request[r].tag][request[r].target]

\* so is what is installed, and what the medium holds of it
Whole(f, t) == f # None => f.bytes = Size[f.tag][t]
FilesWhole == \A t \in Targets : Whole(installed[t], t) /\ Whole(durable[t], t)

\* a download has its temporary file
HasItsTemp == \A r \in Requests : HasTemp(r) => temps[r] >= 1

\* the request that owns a binary has installed its release
HasInstalled(r) ==
    LET t == request[r].target IN
    request[r].pc \in {"setcap", "reply"} /\ owner[t] = r
        => /\ installed[t] # None
           /\ installed[t].tag = request[r].tag
           /\ request[r].pc = "reply" /\ t \in Capable => installed[t].cap

OwnerInstalled == \A r \in Requests : HasInstalled(r)

\* between ensure_cap and exec the binary has the capability
ReadyCapable ==
    \A t \in Capable :
        service[t].pc = "ready" /\ service[t].data /\ ~late[t] /\ installed[t] # None
            => installed[t].cap

UpdateInv ==
    /\ TypeOK /\ AssetChosen /\ FilesWhole /\ HasItsTemp /\ TempsOwned
    /\ OwnerInstalled /\ ReadyCapable /\ RunsCapable

TargetStep(t) == Writeback(t) \/ Resolve(t) \/ EnsureCap(t) \/ Exec(t) \/ Stop(t)

(* Every step is one of these, which the proofs go through.                *)
LEMMA Steps ==
    Next => \/ Publish \/ PowerLoss
            \/ \E t \in Targets : TargetStep(t)
            \/ \E r \in Requests : Handler(r) \/ \E t \in Targets : Ask(r, t)
  BY DEF Next, Start, TargetStep
(***************************************************************************)
(* How a request moves.                                                    *)
(***************************************************************************)
LEMMA GotoMoves ==
  ASSUME request \in [Requests -> Request], NEW r \in Requests,
         NEW to \in {"idle", "ok", "failed"} \cup Working, Goto(r, to)
  PROVE  /\ request' \in [Requests -> Request]
         /\ request'[r].pc = to
         /\ UNCHANGED <<request[r].target, request[r].tag, request[r].bytes>>
         /\ \A q \in Requests : q # r => request'[q] = request[q]
<1>1. request[r] \in Request
  OBVIOUS
<1>2. request' = [request EXCEPT ![r] = [request[r] EXCEPT !.pc = to]]
  BY DEF Goto
<1>3. [request[r] EXCEPT !.pc = to] \in Request
  BY <1>1 DEF Request
<1>4. request'[r] = [request[r] EXCEPT !.pc = to]
  BY <1>2
<1>5. request'[r].pc = to /\ UNCHANGED <<request[r].target, request[r].tag, request[r].bytes>>
  BY <1>1, <1>4 DEF Request
<1> QED
  BY <1>2, <1>3, <1>5

LEMMA EndedType ==
  ASSUME NEW how \in {"idle", "ok", "failed"}
  PROVE  Ended(how) \in Request /\ Ended(how).pc = how
  BY UpdateAssumption DEF Ended, Request

LEMMA EndMoves ==
  ASSUME request \in [Requests -> Request], NEW r \in Requests,
         NEW how \in {"ok", "failed"}, End(r, how)
  PROVE  /\ request' \in [Requests -> Request]
         /\ request'[r] = Ended(how) /\ request'[r].pc = how
         /\ \A q \in Requests : q # r => request'[q] = request[q]
  BY EndedType DEF End

LEMMA CutOffMoves ==
  ASSUME request \in [Requests -> Request], CutOff
  PROVE  /\ request' \in [Requests -> Request]
         /\ \A q \in Requests : request'[q].pc \notin Working
         /\ \A q \in Requests : request[q].pc \notin Working => request'[q] = request[q]
<1>1. Ended("failed") \in Request /\ Ended("failed").pc \notin Working
  BY EndedType DEF Working
<1> QED
  BY <1>1 DEF CutOff

LEMMA AskMoves ==
  ASSUME TypeOK, NEW r \in Requests, NEW t \in Targets, Ask(r, t)
  PROVE  /\ \E g \in Releases \cup {None} :
               request' = [request EXCEPT ![r] =
                             [pc |-> "lookup", target |-> t, tag |-> g, bytes |-> 0]]
         /\ request' \in [Requests -> Request]
         /\ request'[r].pc = "lookup"
         /\ \A q \in Requests : q # r => request'[q] = request[q]
<1>1. PICK g \in Releases \cup {None} :
        request' = [request EXCEPT ![r] = [pc |-> "lookup", target |-> t, tag |-> g, bytes |-> 0]]
  BY DEF Ask, Listed, Published
<1>2. [pc |-> "lookup", target |-> t, tag |-> g, bytes |-> 0] \in Request
  BY UpdateAssumption DEF Request, Working
<1>3. request'[r] = [pc |-> "lookup", target |-> t, tag |-> g, bytes |-> 0]
  BY <1>1 DEF TypeOK
<1> QED
  BY <1>1, <1>2, <1>3 DEF TypeOK

(* What is copied is the whole asset, or one byte more than is allowed.    *)
LEMMA CopiedType ==
  ASSUME NEW g \in Releases, NEW t \in Targets
  PROVE  /\ Copied(g, t) \in 0..(MaxAsset + 1)
         /\ Copied(g, t) <= MaxAsset => Copied(g, t) = Size[g][t]
<1>1. Size[g][t] \in Nat /\ MaxAsset \in Nat
  BY UpdateAssumption
<1> QED
  BY <1>1 DEF Copied, MinOf

(* setcap changes nothing of a file but its capability.                    *)
LEMMA WithCapType ==
  ASSUME NEW f \in File \cup {None}
  PROVE  /\ WithCap(f) \in File \cup {None}
         /\ WithCap(f) = None <=> f = None
         /\ f # None => /\ WithCap(f).tag = f.tag
                        /\ WithCap(f).bytes = f.bytes
                        /\ WithCap(f).cap
<1>1. CASE f = None
  BY <1>1 DEF WithCap
<1>2. CASE f # None
  <2>1. f \in File /\ [f EXCEPT !.cap = TRUE] \in File
    BY <1>2 DEF File
  <2>2. None \notin File
    BY UpdateAssumption DEF File
  <2> QED
    BY <1>2, <2>1, <2>2 DEF WithCap, File
<1> QED
  BY <1>1, <1>2

(* The file that a rename puts in place.                                   *)
LEMMA FreshType ==
  ASSUME TypeOK, AssetChosen, NEW r \in Requests, request[r].pc = "rename"
  PROVE  /\ Fresh(r) \in File /\ Fresh(r) # None
         /\ Fresh(r).tag = request[r].tag
         /\ Fresh(r).bytes = Size[request[r].tag][request[r].target]
<1>1. request[r] \in Request
  BY DEF TypeOK
<1>2. request[r].tag \in Releases /\ request[r].bytes = Size[request[r].tag][request[r].target]
  BY DEF AssetChosen, Looked
<1>3. Fresh(r) \in File
  BY <1>1, <1>2 DEF Fresh, File, Request
<1>4. None \notin File
  BY UpdateAssumption DEF File
<1> QED
  BY <1>2, <1>3, <1>4 DEF Fresh

LEMMA StoreType ==
  ASSUME installed \in [Targets -> File \cup {None}],
         NEW t \in Targets, NEW f \in File \cup {None}, Store(t, f)
  PROVE  /\ installed' \in [Targets -> File \cup {None}]
         /\ installed'[t] = f
         /\ \A u \in Targets : u # t => installed'[u] = installed[u]
  BY DEF Store

(***************************************************************************)
(* Types.                                                                  *)
(***************************************************************************)
LEMMA TypeStep ==
  ASSUME TypeOK, AssetChosen, HasItsTemp, TempsOwned, Next
  PROVE  TypeOK'
<1>0. TypeOK /\ MaxKills \in Nat
  BY UpdateAssumption
<1>1. CASE Publish
  BY <1>1 DEF Publish, TypeOK, files
<1>2. CASE PowerLoss
  <2>1. request' \in [Requests -> Request]
    BY <1>2, CutOffMoves DEF PowerLoss, TypeOK
  <2>2. kills' \in 0..MaxKills
    BY <1>0, <1>2 DEF PowerLoss, TypeOK
  <2>3. service' \in [Targets -> ServiceState]
    BY <1>2 DEF PowerLoss, Stopped, ServiceState
  <2> QED
    BY <1>2, <2>1, <2>2, <2>3 DEF PowerLoss, TypeOK, ServiceState
<1>3. ASSUME NEW t \in Targets, TargetStep(t) PROVE TypeOK'
  <2>0. service \in [Targets -> ServiceState] /\ service[t] \in ServiceState
    BY DEF TypeOK, ServiceState
  <2>1. CASE Writeback(t)
    BY <2>1 DEF Writeback, Written, TypeOK
  <2>2. CASE Resolve(t)
    <3>1. (installed[t] # None) \in BOOLEAN
      OBVIOUS
    <3>2. service' \in [Targets -> ServiceState]
      BY <2>0, <2>2, <3>1 DEF Resolve, ServiceState
    <3> QED
      BY <2>2, <3>2 DEF Resolve, TypeOK, files, ServiceState
  <2>3. CASE EnsureCap(t)
    <3>1. service' \in [Targets -> ServiceState]
      BY <2>0, <2>3 DEF EnsureCap, ServiceState
    <3>2. installed' \in [Targets -> File \cup {None}]
      BY <2>3, WithCapType, StoreType DEF EnsureCap, TypeOK
    <3> QED
      BY <2>3, <3>1, <3>2 DEF EnsureCap, TypeOK, ServiceState
  <2>4. CASE Exec(t)
    <3>1. (IF service[t].data THEN installed[t] ELSE None) \in File \cup {None}
      BY DEF TypeOK
    <3>2. service' \in [Targets -> ServiceState]
      BY <2>0, <2>4, <3>1 DEF Exec, ServiceState
    <3> QED
      BY <2>4, <3>2 DEF Exec, TypeOK, files, ServiceState
  <2>5. CASE Stop(t)
    <3>1. service' \in [Targets -> ServiceState]
      BY <2>0, <2>5 DEF Stop, Stopped, ServiceState
    <3>2. request' \in [Requests -> Request] /\ kills' \in 0..MaxKills
      BY <1>0, <2>5, CutOffMoves DEF Stop, TypeOK
    <3> QED
      BY <2>5, <3>1, <3>2 DEF Stop, TypeOK, files, ServiceState
  <2> QED
    BY <1>3, <2>1, <2>2, <2>3, <2>4, <2>5 DEF TargetStep
<1>4. ASSUME NEW r \in Requests, NEW t \in Targets, Ask(r, t) PROVE TypeOK'
  BY <1>4, AskMoves DEF Ask, TypeOK, files
<1>5. ASSUME NEW r \in Requests, Handler(r) PROVE TypeOK'
  <2>0. request \in [Requests -> Request] /\ request[r] \in Request
    BY DEF TypeOK
  <2>1. CASE Lookup(r)
    <3> DEFINE g == IF request[r].tag = None THEN newest ELSE request[r].tag
    <3>1. g \in Releases
      BY <2>0 DEF TypeOK, Request
    <3>2. [request[r] EXCEPT !.tag = g, !.pc = "download"] \in Request
      BY <2>0, <3>1 DEF Request, Working
    <3>3. request' \in [Requests -> Request]
      BY <2>0, <2>1, <3>2, EndMoves DEF Lookup
    <3> QED
      BY <2>1, <3>3 DEF Lookup, TypeOK, files
  <2>2. CASE Download(r)
    <3>1. request' \in [Requests -> Request]
      BY <2>0, <2>2, GotoMoves DEF Download, Working
    <3>2. temps[r] + 1 \in 0..(MaxKills + 1)
      BY <1>0, <2>2 DEF Download, TempsOwned, HasTemp, TypeOK
    <3> QED
      BY <2>2, <3>1, <3>2 DEF Download, TypeOK, files
  <2>3. CASE Copy(r)
    <3> DEFINE n == Copied(request[r].tag, request[r].target)
    <3>1. request[r].tag \in Releases
      BY <2>3 DEF Copy, AssetChosen, Looked
    <3>2. n \in 0..(MaxAsset + 1)
      BY <2>0, <3>1, CopiedType DEF Request
    <3>3. [request[r] EXCEPT !.bytes = n, !.pc = "rename"] \in Request
      BY <2>0, <3>2 DEF Request, Working
    <3> QED
      BY <2>3, <3>3 DEF Copy, TypeOK, files
  <2>4. CASE Rename(r)
    <3>1. Fresh(r) \in File
      BY <2>4, FreshType DEF Rename
    <3>2. request[r].target \in Targets
      BY <2>0 DEF Request
    <3>3. installed' \in [Targets -> File \cup {None}]
      BY <2>4, <3>1, <3>2, StoreType DEF Rename, TypeOK
    <3>4. request' \in [Requests -> Request]
      BY <2>0, <2>4, GotoMoves DEF Rename, AfterRename, Working
    <3>5. temps[r] - 1 \in 0..(MaxKills + 1)
      BY <1>0, <2>4 DEF Rename, HasItsTemp, HasTemp, TypeOK
    <3>6. temps' \in [Requests -> 0..(MaxKills + 1)]
      BY <2>4, <3>5 DEF Rename, TypeOK
    <3>7. late' \in [Targets -> BOOLEAN] /\ owner' \in [Targets -> Requests \cup {None}]
      BY <2>4 DEF Rename, TypeOK
    <3> QED
      BY <2>4, <3>3, <3>4, <3>6, <3>7 DEF Rename, TypeOK
  <2>5. CASE Fail(r)
    <3>1. request' \in [Requests -> Request]
      BY <2>0, <2>5, EndMoves DEF Fail
    <3>2. temps[r] - (IF HasTemp(r) THEN Kept ELSE 0) \in 0..(MaxKills + 1)
      BY <1>0 DEF Kept, HasItsTemp, TypeOK
    <3>3. temps' \in [Requests -> 0..(MaxKills + 1)]
      BY <2>5, <3>2 DEF Fail, TypeOK
    <3> QED
      BY <2>5, <3>1, <3>3 DEF Fail, TypeOK, files
  <2>6. CASE SetCap(r)
    <3>1. request[r].target \in Targets
      BY <2>0 DEF Request
    <3>2. installed' \in [Targets -> File \cup {None}]
      BY <2>6, <3>1, WithCapType, StoreType DEF SetCap, TypeOK
    <3>3. request' \in [Requests -> Request]
      BY <2>0, <2>6, GotoMoves DEF SetCap, Working
    <3> QED
      BY <2>6, <3>2, <3>3 DEF SetCap, TypeOK
  <2>7. CASE SetCapFails(r)
    <3>1. request' \in [Requests -> Request]
      BY <2>0, <2>7, EndMoves DEF SetCapFails
    <3> QED
      BY <2>7, <3>1 DEF SetCapFails, TypeOK
  <2>8. CASE Reply(r)
    <3>1. request' \in [Requests -> Request]
      BY <2>0, <2>8, EndMoves DEF Reply
    <3> QED
      BY <2>8, <3>1 DEF Reply, TypeOK, files
  <2> QED
    BY <1>5, <2>1, <2>2, <2>3, <2>4, <2>5, <2>6, <2>7, <2>8 DEF Handler
<1> QED
  BY <1>1, <1>2, <1>3, <1>4, <1>5, Steps

(***************************************************************************)
(* Requests and the files they install.                                    *)
(***************************************************************************)
LEMMA AssetChosenStep ==
  ASSUME TypeOK, AssetChosen, Next
  PROVE  AssetChosen'
<1>0. request \in [Requests -> Request] /\ Looked \subseteq Working
  BY DEF TypeOK, Looked, Working
<1>1. CASE UNCHANGED request
  BY <1>1 DEF AssetChosen
<1>2. CASE CutOff
  BY <1>0, <1>2, CutOffMoves DEF AssetChosen, Looked, Working
<1>3. ASSUME NEW r \in Requests, NEW t \in Targets, Ask(r, t) PROVE AssetChosen'
  <2>1. request'[r].pc = "lookup" /\ \A q \in Requests : q # r => request'[q] = request[q]
    BY <1>0, <1>3, AskMoves
  <2> QED
    BY <2>1 DEF AssetChosen, Looked
<1>4. ASSUME NEW r \in Requests, Handler(r) PROVE AssetChosen'
  <2>0. request[r] \in Request
    BY <1>0
  <2>1. CASE Lookup(r)
    <3> DEFINE g == IF request[r].tag = None THEN newest ELSE request[r].tag
    <3>1. g \in Releases
      BY <2>0 DEF TypeOK, Request
    <3>2. CASE End(r, "failed")
      BY <1>0, <3>2, EndMoves DEF AssetChosen, Looked
    <3>3. CASE request' = [request EXCEPT ![r].tag = g, ![r].pc = "download"]
      BY <1>0, <2>0, <3>1, <3>3 DEF AssetChosen, Request
    <3> QED
      BY <2>1, <3>2, <3>3 DEF Lookup
  <2>2. CASE Copy(r)
    <3> DEFINE n == Copied(request[r].tag, request[r].target)
    <3>1. request[r].tag \in Releases /\ request[r].target \in Targets
      BY <2>0, <2>2 DEF Copy, AssetChosen, Looked, Request
    <3>2. n = Size[request[r].tag][request[r].target]
      BY <2>2, <3>1, CopiedType DEF Copy
    <3>3. request' = [request EXCEPT ![r].bytes = n, ![r].pc = "rename"]
      BY <2>2 DEF Copy
    <3>4. /\ request'[r].pc = "rename" /\ request'[r].bytes = n
          /\ request'[r].tag = request[r].tag /\ request'[r].target = request[r].target
      BY <1>0, <2>0, <3>3 DEF Request
    <3>5. \A q \in Requests : q # r => request'[q] = request[q]
      BY <1>0, <3>3
    <3> HIDE DEF n
    <3> QED
      BY <3>1, <3>2, <3>4, <3>5 DEF AssetChosen
  <2>3. CASE \E to \in {"copy", "setcap", "reply"} : Goto(r, to) /\ request[r].pc \in Looked
    BY <1>0, <2>3, GotoMoves DEF AssetChosen, Looked, Working
  <2>4. CASE \E how \in {"ok", "failed"} : End(r, how)
    BY <1>0, <2>4, EndMoves DEF AssetChosen, Looked
  <2> QED
    BY <1>4, <2>1, <2>2, <2>3, <2>4
    DEF Handler, Download, Rename, AfterRename, Fail, SetCap, SetCapFails, Reply, Looked
<1>5. ASSUME NEW t \in Targets, TargetStep(t) PROVE UNCHANGED request \/ CutOff
  BY <1>5 DEF TargetStep, Writeback, Resolve, EnsureCap, Exec, Stop
<1> QED
  BY <1>1, <1>2, <1>3, <1>4, <1>5, Steps DEF Publish, PowerLoss

(* Only a rename, setcap and the loss of power change what is installed.   *)
LEMMA InstalledSteps ==
  ASSUME Next
  PROVE  \/ UNCHANGED installed
         \/ PowerLoss
         \/ \E r \in Requests : Rename(r) \/ SetCap(r)
         \/ \E t \in Targets : EnsureCap(t) /\ Store(t, WithCap(installed[t]))
  BY Steps DEF Publish, TargetStep, Writeback, Resolve, EnsureCap, Exec, Stop, Ask, Handler,
               Lookup, Download, Copy, Fail, SetCapFails, Reply, files

LEMMA DurableSteps ==
  ASSUME Next
  PROVE  UNCHANGED durable \/ \E t \in Targets : Writeback(t)
  BY Steps DEF Publish, PowerLoss, TargetStep, Resolve, EnsureCap, Exec, Stop, Ask, Handler,
               Lookup, Download, Copy, Rename, SetCap, Fail, SetCapFails, Reply, files

LEMMA FilesWholeStep ==
  ASSUME TypeOK, AssetChosen, FilesWhole, Next
  PROVE  FilesWhole'
<1>1. \A t \in Targets : Whole(installed'[t], t)
  <2>1. CASE UNCHANGED installed
    BY <2>1 DEF FilesWhole
  <2>2. CASE PowerLoss
    BY <2>2 DEF PowerLoss, FilesWhole
  <2>3. ASSUME NEW r \in Requests, Rename(r) PROVE \A t \in Targets : Whole(installed'[t], t)
    <3>1. request[r].target \in Targets
      BY DEF TypeOK, Request
    <3>2. Whole(Fresh(r), request[r].target) /\ Fresh(r) \in File
      BY <2>3, FreshType DEF Rename, Whole
    <3> QED
      BY <2>3, <3>1, <3>2, StoreType DEF Rename, FilesWhole, TypeOK
  <2>4. ASSUME NEW t \in Targets, Store(t, WithCap(installed[t]))
        PROVE  \A u \in Targets : Whole(installed'[u], u)
    <3>1. installed[t] \in File \cup {None}
      BY DEF TypeOK
    <3>2. Whole(WithCap(installed[t]), t) /\ WithCap(installed[t]) \in File \cup {None}
      BY <3>1, WithCapType DEF Whole, FilesWhole
    <3> QED
      BY <2>4, <3>2, StoreType DEF FilesWhole, TypeOK
  <2>5. ASSUME NEW r \in Requests, SetCap(r) PROVE \A t \in Targets : Whole(installed'[t], t)
    BY <2>4, <2>5 DEF SetCap, TypeOK, Request
  <2> QED
    BY <2>1, <2>2, <2>3, <2>4, <2>5, InstalledSteps
<1>2. \A t \in Targets : Whole(durable'[t], t)
  BY DurableSteps DEF Writeback, Written, FilesWhole, TypeOK
<1> QED
  BY <1>1, <1>2 DEF FilesWhole, Whole

(***************************************************************************)
(* Temporary files.                                                        *)
(***************************************************************************)
LEMMA TempsStep ==
  ASSUME TypeOK, HasItsTemp, TempsOwned, Next
  PROVE  HasItsTemp' /\ TempsOwned'
<1>0. request \in [Requests -> Request] /\ temps \in [Requests -> 0..(MaxKills + 1)]
      /\ kills \in Nat /\ MaxKills \in Nat
  BY UpdateAssumption DEF TypeOK
<1> USE DEF HasTemp
<1>1. CASE UNCHANGED <<request, temps, kills>>
  BY <1>1 DEF HasItsTemp, TempsOwned
<1>2. CASE CutOff /\ kills' = kills + 1 /\ UNCHANGED temps
  <2>1. \A q \in Requests : ~HasTemp(q)'
    BY <1>0, <1>2, CutOffMoves DEF Working
  <2>2. \A q \in Requests : temps[q] <= kills + 1 /\ temps[q] \in Nat
    BY <1>0 DEF TempsOwned
  <2> QED
    BY <1>0, <1>2, <2>1, <2>2 DEF HasItsTemp, TempsOwned
<1>3. ASSUME NEW r \in Requests, NEW t \in Targets, Ask(r, t) PROVE HasItsTemp' /\ TempsOwned'
  <2>1. \A q \in Requests : HasTemp(q)' <=> HasTemp(q)
    BY <1>0, <1>3, AskMoves DEF Ask, Working
  <2> QED
    BY <1>3, <2>1 DEF Ask, HasItsTemp, TempsOwned
<1>4. ASSUME NEW r \in Requests, Handler(r) PROVE HasItsTemp' /\ TempsOwned'
  <2>0. request[r] \in Request /\ temps[r] \in Nat /\ \A q \in Requests : temps[q] \in Nat
    BY <1>0
  <2>1. \A q \in Requests : q # r => request'[q] = request[q] /\ temps'[q] = temps[q]
    BY <1>0, <1>4 DEF Handler, Lookup, Download, Copy, Rename, Fail, SetCap, SetCapFails, Reply,
                      Goto, End
  <2>2. kills' = kills
    BY <1>4 DEF Handler, Lookup, Download, Copy, Rename, Fail, SetCap, SetCapFails, Reply
  <2>3. /\ HasTemp(r)' => temps'[r] >= 1
        /\ temps'[r] <= kills + IF HasTemp(r)' THEN 1 ELSE 0
    <3>1. CASE Lookup(r)
      <4>1. temps' = temps /\ ~HasTemp(r) /\ ~HasTemp(r)'
        BY <1>0, <2>0, <3>1, EndMoves DEF Lookup, Request
      <4> QED
        BY <4>1 DEF TempsOwned
    <3>2. CASE Download(r)
      <4>1. temps'[r] = temps[r] + 1 /\ ~HasTemp(r) /\ HasTemp(r)'
        BY <1>0, <3>2, GotoMoves DEF Download, Working
      <4> QED
        BY <1>0, <2>0, <4>1 DEF TempsOwned
    <3>3. CASE Copy(r)
      <4>1. temps' = temps /\ HasTemp(r) /\ HasTemp(r)'
        BY <1>0, <2>0, <3>3 DEF Copy, Request
      <4> QED
        BY <4>1 DEF HasItsTemp, TempsOwned
    <3>4. CASE Rename(r)
      <4>1. temps'[r] = temps[r] - 1 /\ HasTemp(r) /\ ~HasTemp(r)'
        BY <1>0, <3>4, GotoMoves DEF Rename, AfterRename, Working
      <4> QED
        BY <1>0, <2>0, <4>1 DEF TempsOwned
    <3>5. CASE Fail(r)
      <4>1. temps'[r] = temps[r] - (IF HasTemp(r) THEN 1 ELSE 0) /\ ~HasTemp(r)'
        BY <1>0, <3>5, EndMoves DEF Fail, Kept
      <4> QED
        BY <1>0, <2>0, <4>1 DEF TempsOwned
    <3>6. CASE SetCap(r) \/ SetCapFails(r) \/ Reply(r)
      <4>1. temps' = temps /\ ~HasTemp(r) /\ ~HasTemp(r)'
        BY <1>0, <3>6, GotoMoves, EndMoves DEF SetCap, SetCapFails, Reply, Working
      <4> QED
        BY <4>1 DEF TempsOwned
    <3> QED
      BY <1>4, <3>1, <3>2, <3>3, <3>4, <3>5, <3>6 DEF Handler
  <2> QED
    BY <2>1, <2>2, <2>3 DEF HasItsTemp, TempsOwned
<1>5. ASSUME NEW t \in Targets, TargetStep(t)
      PROVE  \/ UNCHANGED <<request, temps, kills>>
             \/ CutOff /\ kills' = kills + 1 /\ UNCHANGED temps
  BY <1>5 DEF TargetStep, Writeback, Resolve, EnsureCap, Exec, Stop
<1> QED
  BY <1>1, <1>2, <1>3, <1>4, <1>5, Steps DEF Publish, PowerLoss

(***************************************************************************)
(* What a request that owns a binary has installed, and the capability.    *)
(***************************************************************************)
LEMMA InstalledKept ==
  ASSUME TypeOK, OwnerInstalled, NEW q \in Requests, NEW t, t = request[q].target,
         request'[q] = request[q],
         owner'[t] = q => owner[t] = q /\ installed'[t] \in {installed[t], WithCap(installed[t])}
  PROVE  HasInstalled(q)'
<1>1. installed[t] \in File \cup {None}
  BY DEF TypeOK, Request
<1>2. HasInstalled(q)
  BY DEF OwnerInstalled
<1> QED
  BY <1>1, <1>2, WithCapType DEF HasInstalled

LEMMA OwnerInstalledStep ==
  ASSUME TypeOK, AssetChosen, OwnerInstalled, Next
  PROVE  OwnerInstalled'
<1>0. request \in [Requests -> Request] /\ owner \in [Targets -> Requests \cup {None}]
      /\ \A q \in Requests : request[q].target \in Targets
  BY DEF TypeOK, Request
<1>1. CASE UNCHANGED <<request, installed, owner>>
  BY <1>1 DEF OwnerInstalled, HasInstalled
<1>2. CASE CutOff
  BY <1>0, <1>2, CutOffMoves DEF OwnerInstalled, HasInstalled, Working
<1>3. ASSUME NEW r \in Requests, NEW t \in Targets, Ask(r, t) PROVE OwnerInstalled'
  <2>1. request'[r].pc = "lookup" /\ \A q \in Requests : q # r => request'[q] = request[q]
    BY <1>0, <1>3, AskMoves
  <2>2. UNCHANGED <<installed, owner>>
    BY <1>3 DEF Ask, files
  <2> QED
    BY <2>1, <2>2 DEF OwnerInstalled, HasInstalled
<1>4. ASSUME NEW t \in Targets, TargetStep(t) PROVE OwnerInstalled'
  <2>1. CASE EnsureCap(t)
    <3>1. UNCHANGED <<request, owner>>
      BY <2>1 DEF EnsureCap
    <3>2. \A u \in Targets : installed'[u] \in {installed[u], WithCap(installed[u])}
      BY <2>1 DEF EnsureCap, Store, TypeOK
    <3> QED
      BY <1>0, <3>1, <3>2, InstalledKept DEF OwnerInstalled
  <2>2. CASE ~EnsureCap(t)
    BY <1>1, <1>2, <1>4, <2>2 DEF TargetStep, Writeback, Resolve, Exec, Stop, files
  <2> QED
    BY <2>1, <2>2
<1>5. ASSUME NEW r \in Requests, Handler(r) PROVE OwnerInstalled'
  <2> DEFINE t == request[r].target
  <2>0. t \in Targets /\ request[r] \in Request
    BY <1>0
  <2>1. \A q \in Requests : q # r => request'[q] = request[q]
    BY <1>0, <1>5 DEF Handler, Lookup, Download, Copy, Rename, Fail, SetCap, SetCapFails, Reply,
                      Goto, End
  <2>2. CASE Rename(r)
    <3>1. /\ installed'[t] = Fresh(r) /\ Fresh(r) # None /\ Fresh(r).tag = request[r].tag
          /\ \A u \in Targets : u # t => installed'[u] = installed[u]
      BY <2>0, <2>2, FreshType, StoreType DEF Rename, TypeOK
    <3>2. /\ request'[r].pc = AfterRename(t)
          /\ UNCHANGED <<request[r].target, request[r].tag>>
      BY <1>0, <2>2, GotoMoves DEF Rename, AfterRename, Working
    <3>3. owner'[t] = r /\ \A u \in Targets : u # t => owner'[u] = owner[u]
      BY <1>0, <2>0, <2>2 DEF Rename
    <3>4. HasInstalled(r)'
      BY <3>1, <3>2 DEF HasInstalled, AfterRename
    <3>5. ASSUME NEW q \in Requests, q # r PROVE HasInstalled(q)'
      <4>1. owner'[request[q].target] = q
              => /\ owner[request[q].target] = q
                 /\ installed'[request[q].target] = installed[request[q].target]
        BY <1>0, <3>1, <3>3, <3>5
      <4> QED
        BY <2>1, <3>5, <4>1, InstalledKept
    <3> QED
      BY <3>4, <3>5 DEF OwnerInstalled
  <2>3. CASE SetCap(r)
    <3>1. installed[t] \in File \cup {None} /\ installed'[t] = WithCap(installed[t])
      BY <2>0, <2>3 DEF SetCap, Store, TypeOK
    <3>2. \A u \in Targets : installed'[u] \in {installed[u], WithCap(installed[u])}
      BY <2>3 DEF SetCap, Store, TypeOK
    <3>3. owner' = owner /\ UNCHANGED <<request[r].target, request[r].tag>>
      BY <1>0, <2>3, GotoMoves DEF SetCap, Working
    <3>4. HasInstalled(r) /\ request[r].pc = "setcap"
      BY <2>3 DEF OwnerInstalled, SetCap
    <3>5. HasInstalled(r)'
      BY <3>1, <3>3, <3>4, WithCapType DEF HasInstalled
    <3>6. \A q \in Requests : q # r => HasInstalled(q)'
      BY <1>0, <2>1, <3>2, <3>3, InstalledKept
    <3> QED
      BY <3>5, <3>6 DEF OwnerInstalled
  <2>4. CASE SetCapFails(r) \/ Lookup(r) \/ Download(r) \/ Copy(r) \/ Fail(r) \/ Reply(r)
    <3>1. request'[r].pc \in {"download", "copy", "rename", "ok", "failed"}
      BY <1>0, <2>0, <2>4, EndMoves, GotoMoves
      DEF SetCapFails, Lookup, Download, Copy, Fail, Reply, Working, Request
    <3>2. installed' = installed /\ \A q \in Requests, u \in Targets :
                                      q # r /\ owner'[u] = q => owner[u] = q
      BY <1>0, <2>4, UpdateAssumption
      DEF SetCapFails, Lookup, Download, Copy, Fail, Reply, files
    <3>3. HasInstalled(r)'
      BY <3>1 DEF HasInstalled
    <3>4. \A q \in Requests : q # r => HasInstalled(q)'
      BY <1>0, <2>1, <3>2, InstalledKept
    <3> QED
      BY <3>3, <3>4 DEF OwnerInstalled
  <2> QED
    BY <1>5, <2>2, <2>3, <2>4 DEF Handler
<1> QED
  BY <1>1, <1>2, <1>3, <1>4, <1>5, Steps DEF Publish, PowerLoss, files

(* A service that is started has ensured the capability, or the binary was *)
(* replaced since.                                                         *)
LEMMA CapableStep ==
  ASSUME TypeOK, ReadyCapable, RunsCapable, Next
  PROVE  ReadyCapable' /\ RunsCapable'
<1>0. /\ service \in [Targets -> ServiceState] /\ Capable \subseteq Targets
      /\ installed \in [Targets -> File \cup {None}] /\ late \in [Targets -> BOOLEAN]
  BY UpdateAssumption DEF TypeOK, ServiceState
<1>1. CASE UNCHANGED <<service, installed, late>>
  BY <1>1 DEF ReadyCapable, RunsCapable
<1>2. CASE PowerLoss
  BY <1>0, <1>2 DEF PowerLoss, Stopped, ReadyCapable, RunsCapable
<1>3. ASSUME NEW t \in Targets, TargetStep(t) PROVE ReadyCapable' /\ RunsCapable'
  <2>0. service[t] \in ServiceState
    BY <1>0
  <2>1. CASE Resolve(t)
    <3>1. /\ \A u \in Targets : u # t => service'[u] = service[u] /\ late'[u] = late[u]
          /\ service'[t].pc = IF NeedsCap(t) THEN "resolved" ELSE "ready"
          /\ service'[t].data = (installed[t] # None)
      BY <1>0, <2>0, <2>1 DEF Resolve, ServiceState
    <3>2. installed' = installed
      BY <2>1 DEF Resolve, files
    <3> QED
      BY <1>0, <3>1, <3>2 DEF ReadyCapable, RunsCapable, NeedsCap
  <2>2. CASE EnsureCap(t)
    <3>1. /\ \A u \in Targets : u # t => service'[u] = service[u]
          /\ service'[t].pc = "ready"
      BY <1>0, <2>0, <2>2 DEF EnsureCap, ServiceState
    <3>2. \A u \in Targets : u # t => installed'[u] = installed[u] /\ late'[u] = late[u]
      BY <1>0, <2>2 DEF EnsureCap, Store
    <3>3. late'[t] \/ installed'[t] = WithCap(installed[t])
      BY <1>0, <2>2 DEF EnsureCap, Store
    <3>4. late'[t] \/ installed'[t] = None \/ installed'[t].cap
      BY <1>0, <3>3, WithCapType
    <3> QED
      BY <1>0, <3>1, <3>2, <3>4 DEF ReadyCapable, RunsCapable
  <2>3. CASE Exec(t)
    <3>1. /\ \A u \in Targets : u # t => service'[u] = service[u]
          /\ service'[t].pc = "up"
          /\ service'[t].bin = IF service[t].data THEN installed[t] ELSE None
          /\ service[t].pc = "ready"
      BY <1>0, <2>0, <2>3 DEF Exec, ServiceState
    <3>2. installed' = installed /\ late' = late
      BY <2>3 DEF Exec, files
    <3> QED
      BY <1>0, <3>1, <3>2 DEF ReadyCapable, RunsCapable
  <2>4. CASE Stop(t)
    <3>1. /\ \A u \in Targets : u # t => service'[u] = service[u]
          /\ service'[t].pc = "down"
      BY <1>0, <2>0, <2>4 DEF Stop, Stopped
    <3>2. installed' = installed /\ late' = late
      BY <2>4 DEF Stop, files
    <3> QED
      BY <1>0, <3>1, <3>2 DEF ReadyCapable, RunsCapable
  <2>5. CASE Writeback(t)
    BY <1>1, <2>5 DEF Writeback
  <2> QED
    BY <1>3, <2>1, <2>2, <2>3, <2>4, <2>5 DEF TargetStep
<1>4. ASSUME NEW r \in Requests, Handler(r) PROVE ReadyCapable' /\ RunsCapable'
  <2> DEFINE t == request[r].target
  <2>0. t \in Targets
    BY DEF TypeOK, Request
  <2>1. CASE Rename(r)
    <3>1. /\ service' = service
          /\ late'[t] = (late[t] \/ service[t].pc = "ready")
          /\ \A u \in Targets : u # t => installed'[u] = installed[u] /\ late'[u] = late[u]
      BY <1>0, <2>0, <2>1 DEF Rename, Store
    <3> QED
      BY <1>0, <3>1 DEF ReadyCapable, RunsCapable
  <2>2. CASE SetCap(r)
    <3>1. service' = service /\ late' = late
      BY <2>2 DEF SetCap
    <3>2. \A u \in Targets : installed'[u] \in {installed[u], WithCap(installed[u])}
      BY <1>0, <2>2 DEF SetCap, Store
    <3>3. \A u \in Targets : installed[u] # None /\ installed[u].cap => installed'[u].cap
      BY <1>0, <3>2, WithCapType
    <3>4. \A u \in Targets : installed[u] = None => installed'[u] = None
      BY <1>0, <3>2, WithCapType
    <3> QED
      BY <1>0, <3>1, <3>3, <3>4 DEF ReadyCapable, RunsCapable
  <2>3. CASE ~Rename(r) /\ ~SetCap(r)
    BY <1>1, <1>4, <2>3 DEF Handler, Lookup, Download, Copy, Fail, SetCapFails, Reply, files
  <2> QED
    BY <2>1, <2>2, <2>3
<1>5. ASSUME NEW r \in Requests, NEW t \in Targets, Ask(r, t) PROVE ReadyCapable' /\ RunsCapable'
  BY <1>1, <1>5 DEF Ask, files
<1> QED
  BY <1>1, <1>2, <1>3, <1>4, <1>5, Steps DEF Publish, files

(***************************************************************************)
(* The invariant, and what follows from it.                                *)
(***************************************************************************)
LEMMA UpdateInvInit == Init => UpdateInv
<1> SUFFICES ASSUME Init PROVE UpdateInv
  OBVIOUS
<1>1. \A r \in Requests : request[r].pc = "idle" /\ request[r] \in Request
  BY EndedType DEF Init
<1>2. TypeOK
  BY <1>1, UpdateAssumption DEF Init, TypeOK
<1>3. AssetChosen /\ HasItsTemp /\ OwnerInstalled
  BY <1>1 DEF AssetChosen, Looked, HasItsTemp, HasTemp, OwnerInstalled, HasInstalled
<1>4. FilesWhole /\ TempsOwned /\ ReadyCapable /\ RunsCapable
  BY <1>1, UpdateAssumption
  DEF Init, FilesWhole, Whole, TempsOwned, HasTemp, ReadyCapable, RunsCapable
<1> QED
  BY <1>2, <1>3, <1>4 DEF UpdateInv

LEMMA UpdateInvStep == UpdateInv /\ [Next]_vars => UpdateInv'
<1>1. ASSUME UpdateInv, Next PROVE UpdateInv'
  BY <1>1, TypeStep, AssetChosenStep, FilesWholeStep, TempsStep, OwnerInstalledStep, CapableStep
  DEF UpdateInv
<1>2. ASSUME UpdateInv, UNCHANGED vars PROVE UpdateInv'
  BY <1>2 DEF vars, UpdateInv, TypeOK, AssetChosen, FilesWhole, Whole, HasItsTemp, HasTemp,
              TempsOwned, OwnerInstalled, HasInstalled, ReadyCapable, RunsCapable
<1> QED
  BY <1>1, <1>2

LEMMA UpdateInvAlways == Spec => []UpdateInv
  BY UpdateInvInit, UpdateInvStep, PTL DEF Spec

(* Every variable keeps its type; in particular no request counts more     *)
(* temporary files than it was cut off times, and one.                     *)
THEOREM TypeCorrect == Spec => []TypeOK
<1>1. UpdateInv => TypeOK
  BY DEF UpdateInv
<1> QED
  BY <1>1, UpdateInvAlways, PTL

(* An update that is about to report success has installed what it names,  *)
(* with the capability it needs, however many others work on that target.  *)
THEOREM ReportsTruth == Spec => []ReportedIsInstalled
<1>1. UpdateInv => ReportedIsInstalled
  BY DEF UpdateInv, OwnerInstalled, HasInstalled, ReportedIsInstalled
<1> QED
  BY <1>1, UpdateInvAlways, PTL

(* A service from the install directory has the capability it needs,       *)
(* whatever became of the update that put its binary there.                *)
THEOREM ServicesCapable == Spec => []RunsCapable
<1>1. UpdateInv => RunsCapable
  BY DEF UpdateInv
<1> QED
  BY <1>1, UpdateInvAlways, PTL

(* Every temporary file belongs to a download at work or was cut off.      *)
THEOREM TempsCleared == Spec => []TempsOwned
<1>1. UpdateInv => TempsOwned
  BY DEF UpdateInv
<1> QED
  BY <1>1, UpdateInvAlways, PTL

(***************************************************************************)
(* HubUpdate implements HubBinaries: a step of a request moves its job, a  *)
(* rename installs, and everything else but a sync and a loss of power     *)
(* leaves the abstract state as it is.                                     *)
(***************************************************************************)
Bins == [t \in Targets |-> BinOf(t, installed[t])]
Safes == [t \in Targets |-> BinOf(t, durable[t])]
JobsOf == [r \in Requests |-> JobOf(request[r])]

AbstractNext == Binaries!Next \/ UNCHANGED <<Bins, Safes, JobsOf>>

LEMMA JobMoves ==
  ASSUME NEW r \in Requests, NEW q,
         request \in [Requests -> Request], request' \in [Requests -> Request],
         request'[r] = q, \A x \in Requests : x # r => request'[x] = request[x]
  PROVE  JobsOf' = [JobsOf EXCEPT ![r] = JobOf(q)]
  BY DEF JobsOf

LEMMA BinMoves ==
  ASSUME TypeOK, NEW t \in Targets, NEW f \in File \cup {None}, Store(t, f)
  PROVE  Bins' = [Bins EXCEPT ![t] = BinOf(t, f)]
  BY StoreType DEF Bins, TypeOK

(* setcap leaves the release.                                              *)
LEMMA CapKeepsBin ==
  ASSUME TypeOK, NEW t \in Targets, Store(t, WithCap(installed[t]))
  PROVE  UNCHANGED Bins
<1>1. installed[t] \in File \cup {None}
  BY DEF TypeOK
<1>2. BinOf(t, WithCap(installed[t])) = BinOf(t, installed[t])
  BY <1>1, WithCapType DEF BinOf
<1>3. Bins' = [Bins EXCEPT ![t] = BinOf(t, installed[t])]
  BY <1>1, <1>2, WithCapType, BinMoves
<1> QED
  BY <1>3 DEF Bins

(* Cutting the requests off is what the page sees as a lost connection.    *)
LEMMA CutOffCuts ==
  ASSUME request \in [Requests -> Request], CutOff
  PROVE  Binaries!Cut
<1>1. \A r \in Requests : JobOf(request'[r]) =
        IF request[r].pc \in Working THEN [is |-> "failed"] ELSE JobOf(request[r])
  BY EndedType DEF CutOff, JobOf, Working
<1>2. \A r \in Requests : JobOf(request[r]).is \in {"asked", "installed"} <=> request[r].pc \in Working
  BY DEF JobOf, Request, Working
<1> QED
  BY <1>1, <1>2 DEF Binaries!Cut

LEMMA InitImplements == Init => Binaries!Init
  BY EndedType DEF Init, Binaries!Init, BinOf, JobOf, Ended, Working

LEMMA RequestImplements ==
  ASSUME UpdateInv, NEW r \in Requests, Handler(r)
  PROVE  AbstractNext
<1> DEFINE t == request[r].target
           g == request[r].tag
<1>0. /\ TypeOK /\ request \in [Requests -> Request] /\ request[r] \in Request
      /\ t \in Targets /\ None \notin Releases
  BY UpdateAssumption DEF UpdateInv, TypeOK, Request
<1>1. CASE Lookup(r)
  <2>1. UNCHANGED <<Bins, Safes>>
    BY <1>1 DEF Lookup, files, Bins, Safes
  <2>2. JobsOf[r] = [is |-> "asked", target |-> t, tag |-> g]
    BY <1>1 DEF Lookup, JobsOf, JobOf, Working
  <2>3. CASE End(r, "failed")
    <3>1. JobsOf' = [JobsOf EXCEPT ![r] = [is |-> "failed"]]
      BY <1>0, <2>3, EndMoves, JobMoves, EndedType DEF JobOf, Working
    <3>2. Binaries!Fail(r)
      BY <2>1, <2>2, <3>1 DEF Binaries!Fail, Bins, Safes, JobsOf
    <3> QED
      BY <3>2 DEF AbstractNext, Binaries!Next
  <2>4. CASE ~End(r, "failed")
    <3> DEFINE h == IF g = None THEN newest ELSE g
               q == [request[r] EXCEPT !.tag = h, !.pc = "download"]
    <3>1. h \in Releases
      BY <1>0 DEF TypeOK, Request
    <3>2. request' = [request EXCEPT ![r] = q]
      BY <1>0, <1>1, <2>4 DEF Lookup
    <3>3. q \in Request /\ JobOf(q) = [is |-> "asked", target |-> t, tag |-> h]
      BY <1>0, <3>1 DEF Request, JobOf, Working
    <3>4. JobsOf' = [JobsOf EXCEPT ![r] = [is |-> "asked", target |-> t, tag |-> h]]
      BY <1>0, <3>2, <3>3, JobMoves
    <3>5. CASE g = None
      <4>1. JobsOf' = [JobsOf EXCEPT ![r].tag = h]
        <5>1. [JobsOf[r] EXCEPT !.tag = h] = [is |-> "asked", target |-> t, tag |-> h]
          BY <2>2
        <5> QED
          BY <3>4, <5>1
      <4>2. Binaries!Choose(r, h)
        BY <2>1, <2>2, <3>5, <4>1 DEF Binaries!Choose, Bins, Safes, JobsOf
      <4> QED
        BY <3>1, <4>2 DEF AbstractNext, Binaries!Next
    <3>6. CASE g # None
      <4>1. JobsOf' = JobsOf
        BY <2>2, <3>4, <3>6 DEF JobsOf
      <4> QED
        BY <2>1, <4>1 DEF AbstractNext
    <3> QED
      BY <3>5, <3>6
  <2> QED
    BY <2>3, <2>4
<1>2. CASE Download(r)
  <2>1. UNCHANGED <<Bins, Safes>>
    BY <1>2 DEF Download, files, Bins, Safes
  <2>2. JobOf(request'[r]) = JobOf(request[r])
    BY <1>0, <1>2, GotoMoves DEF Download, JobOf, Working
  <2>3. JobsOf' = JobsOf
    BY <1>0, <1>2, <2>2, GotoMoves DEF Download, JobsOf, Working
  <2> QED
    BY <2>1, <2>3 DEF AbstractNext
<1>3. CASE Copy(r)
  <2>1. UNCHANGED <<Bins, Safes>>
    BY <1>3 DEF Copy, files, Bins, Safes
  <2>2. /\ request'[r] = [request[r] EXCEPT !.bytes = Copied(g, t), !.pc = "rename"]
        /\ \A x \in Requests : x # r => request'[x] = request[x]
    BY <1>0, <1>3 DEF Copy
  <2>3. JobOf(request'[r]) = JobOf(request[r])
    BY <1>0, <1>3, <2>2 DEF Copy, JobOf, Working, Request
  <2>4. JobsOf' = JobsOf
    BY <2>2, <2>3 DEF JobsOf
  <2> QED
    BY <2>1, <2>4 DEF AbstractNext
<1>4. CASE Rename(r)
  <2>1. Fresh(r) \in File /\ BinOf(t, Fresh(r)) = g /\ g \in Releases
    BY <1>0, <1>4, FreshType DEF UpdateInv, Rename, BinOf, AssetChosen, Looked
  <2>2. Bins' = [Bins EXCEPT ![t] = g] /\ UNCHANGED Safes
    BY <1>0, <1>4, <2>1, BinMoves DEF Rename, Safes
  <2>3. JobsOf[r] = [is |-> "asked", target |-> t, tag |-> g]
    BY <1>4 DEF Rename, JobsOf, JobOf, Working
  <2>4. JobOf(request'[r]) = [is |-> "installed", target |-> t, tag |-> g]
    BY <1>0, <1>4, GotoMoves DEF Rename, AfterRename, JobOf, Working
  <2>5. JobsOf' = [JobsOf EXCEPT ![r] = [is |-> "installed", target |-> t, tag |-> g]]
    BY <1>0, <1>4, <2>4, GotoMoves, JobMoves DEF Rename, AfterRename, Working
  <2>6. JobsOf' = [JobsOf EXCEPT ![r].is = "installed"]
    <3>1. [JobsOf[r] EXCEPT !.is = "installed"] = [is |-> "installed", target |-> t, tag |-> g]
      BY <2>3
    <3> QED
      BY <2>5, <3>1
  <2>7. JobsOf[r].is = "asked" /\ JobsOf[r].target = t /\ JobsOf[r].tag = g /\ g # None
    BY <1>0, <2>1, <2>3
  <2>8. Bins' = [Bins EXCEPT ![JobsOf[r].target] = JobsOf[r].tag]
    BY <2>2, <2>7
  <2>9. JobsOf[r].tag # None
    BY <2>7
  <2>10. Binaries!Install(r)
    BY <2>2, <2>6, <2>7, <2>8, <2>9 DEF Binaries!Install, Bins, Safes, JobsOf
  <2> QED
    BY <2>10 DEF AbstractNext, Binaries!Next
<1>5. CASE Fail(r) \/ SetCapFails(r)
  <2>1. UNCHANGED <<Bins, Safes>> /\ End(r, "failed") /\ request[r].pc \in Working
    BY <1>5 DEF Fail, SetCapFails, files, Bins, Safes, Working
  <2>2. JobsOf' = [JobsOf EXCEPT ![r] = [is |-> "failed"]]
    BY <1>0, <2>1, EndMoves, JobMoves, EndedType DEF JobOf, Working
  <2>3. JobsOf[r].is \in {"asked", "installed"}
    BY <2>1 DEF JobsOf, JobOf
  <2>4. Binaries!Fail(r)
    BY <2>1, <2>2, <2>3 DEF Binaries!Fail, Bins, Safes, JobsOf
  <2> QED
    BY <2>4 DEF AbstractNext, Binaries!Next
<1>6. CASE SetCap(r)
  <2>1. UNCHANGED Bins
    BY <1>0, <1>6, CapKeepsBin DEF SetCap
  <2>2. JobOf(request'[r]) = JobOf(request[r])
    BY <1>0, <1>6, GotoMoves DEF SetCap, JobOf, Working
  <2>3. JobsOf' = JobsOf
    BY <1>0, <1>6, <2>2, GotoMoves DEF SetCap, JobsOf, Working
  <2> QED
    BY <1>6, <2>1, <2>3 DEF AbstractNext, SetCap, Safes
<1>7. CASE Reply(r)
  <2>1. UNCHANGED <<Bins, Safes>> /\ JobsOf[r].is = "installed"
    BY <1>7 DEF Reply, files, Bins, Safes, JobsOf, JobOf, Working
  <2>2. JobsOf' = [JobsOf EXCEPT ![r] = [is |-> "ok"]]
    BY <1>0, <1>7, EndMoves, JobMoves, EndedType DEF Reply, JobOf, Working
  <2>3. Binaries!Report(r)
    BY <2>1, <2>2 DEF Binaries!Report, Bins, Safes, JobsOf
  <2> QED
    BY <2>3 DEF AbstractNext, Binaries!Next
<1> QED
  BY <1>1, <1>2, <1>3, <1>4, <1>5, <1>6, <1>7 DEF Handler

LEMMA NextImplements ==
  ASSUME UpdateInv, Next
  PROVE  AbstractNext
<1>0. TypeOK /\ request \in [Requests -> Request]
  BY DEF UpdateInv, TypeOK
<1>1. CASE UNCHANGED <<installed, durable, request>>
  BY <1>1 DEF AbstractNext, Bins, Safes, JobsOf
<1>2. CASE PowerLoss
  <2>1. Bins' = Safes /\ UNCHANGED Safes /\ Binaries!Cut
    BY <1>0, <1>2, CutOffCuts DEF PowerLoss, Bins, Safes
  <2>2. Binaries!LosePower
    BY <2>1 DEF Binaries!LosePower, Bins, Safes
  <2> QED
    BY <2>2 DEF AbstractNext, Binaries!Next
<1>3. ASSUME NEW t \in Targets, TargetStep(t) PROVE AbstractNext
  <2>1. CASE Writeback(t)
    <3>1. durable' = [durable EXCEPT ![t] = installed[t]] /\ UNCHANGED <<Bins, JobsOf>>
      BY <2>1 DEF Writeback, Written, Bins, JobsOf
    <3>2. Safes' = [Safes EXCEPT ![t] = Bins[t]]
      BY <1>0, <3>1 DEF Safes, Bins, TypeOK
    <3>3. Binaries!Sync(t)
      BY <3>1, <3>2 DEF Binaries!Sync, Bins, Safes, JobsOf
    <3> QED
      BY <3>3 DEF AbstractNext, Binaries!Next
  <2>2. CASE EnsureCap(t)
    <3>1. UNCHANGED Bins
      BY <1>0, <2>2, CapKeepsBin DEF EnsureCap, Bins
    <3> QED
      BY <2>2, <3>1 DEF EnsureCap, AbstractNext, Safes, JobsOf
  <2>3. CASE Stop(t)
    <3>1. CASE CutOff
      <4>1. Binaries!Cut /\ UNCHANGED <<Bins, Safes>>
        BY <1>0, <2>3, <3>1, CutOffCuts DEF Stop, files, Bins, Safes
      <4> QED
        BY <4>1 DEF AbstractNext, Binaries!Next, Bins, Safes
    <3>2. CASE UNCHANGED request
      BY <1>1, <2>3, <3>2 DEF Stop, files
    <3> QED
      BY <2>3, <3>1, <3>2 DEF Stop
  <2>4. CASE Resolve(t) \/ Exec(t)
    BY <1>1, <2>4 DEF Resolve, Exec, files
  <2> QED
    BY <1>3, <2>1, <2>2, <2>3, <2>4 DEF TargetStep
<1>4. ASSUME NEW r \in Requests, NEW t \in Targets, Ask(r, t) PROVE AbstractNext
  <2>1. PICK g \in Releases \cup {None} :
          request' = [request EXCEPT ![r] = [pc |-> "lookup", target |-> t, tag |-> g, bytes |-> 0]]
    BY <1>0, <1>4, AskMoves
  <2>2. UNCHANGED <<Bins, Safes>> /\ request[r].pc \notin Working
    BY <1>4 DEF Ask, files, Bins, Safes
  <2>3. JobOf([pc |-> "lookup", target |-> t, tag |-> g, bytes |-> 0])
          = [is |-> "asked", target |-> t, tag |-> g]
    BY DEF JobOf, Working
  <2>4. JobsOf' = [JobsOf EXCEPT ![r] = [is |-> "asked", target |-> t, tag |-> g]]
    BY <1>0, <1>4, <2>1, <2>3, AskMoves, JobMoves
  <2>5. JobsOf[r].is \notin {"asked", "installed"}
    BY <1>0, <2>2 DEF JobsOf, JobOf, Request, Working
  <2>6. Binaries!Ask(r, t, g)
    BY <2>2, <2>4, <2>5 DEF Binaries!Ask, Bins, Safes, JobsOf
  <2> QED
    BY <2>6 DEF AbstractNext, Binaries!Next
<1> QED
  BY <1>1, <1>2, <1>3, <1>4, RequestImplements, Steps DEF Publish, files

(* The Update tab keeps its promise: what is installed is the image's      *)
(* binary or a whole release, put in place at one instant, and what is     *)
(* reported as done was done.                                              *)
THEOREM BinariesImplemented == Spec => ImplementsBinaries
<1>1. UpdateInv /\ [Next]_vars => [Binaries!Next]_(Binaries!vars)
  <2>1. ASSUME UpdateInv, Next PROVE [Binaries!Next]_(Binaries!vars)
    BY <2>1, NextImplements DEF AbstractNext, Binaries!vars, Bins, Safes, JobsOf
  <2>2. ASSUME UNCHANGED vars PROVE UNCHANGED Binaries!vars
    BY <2>2 DEF vars, files, Binaries!vars
  <2> QED
    BY <2>1, <2>2
<1> QED
  BY <1>1, InitImplements, UpdateInvAlways, PTL DEF Spec, ImplementsBinaries, Binaries!Spec
=============================================================================
