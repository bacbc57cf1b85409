----------------------------- MODULE HubTimezone ----------------------------
(***************************************************************************)
(* The timezone of the hub.  /data/etc holds its name and a copy of its    *)
(* zone file, which is bind-mounted over /etc/localtime.  The web UI,      *)
(* bigfred-set-timezone and early boot write both files in place, one      *)
(* after the other, and the editor of the Config tab replaces the name.    *)
(* /etc/localtime is a symbolic link to the zone file of the image's       *)
(* default zone, so that the bind covers that file.                        *)
(***************************************************************************)
EXTENDS Integers

CONSTANTS
    Zones,          \* names of zones, which also stand for their zone files
    Default,        \* the image's zone
    Length,         \* of a zone's name and file
    Handlers,       \* requests of the web UI at work at one time
    Commands,       \* runs of bigfred-set-timezone at one time
    Missing, Empty, Torn, None,
    MaxLosses       \* bound: power losses

Setters == Handlers \cup Commands

ASSUME TimezoneAssumption ==
    /\ Default \in Zones
    /\ Length \in [Zones -> Nat]
    /\ Handlers \cap Commands = {}
    /\ Zones \cap {Missing, Empty, Torn, None} = {}
    /\ MaxLosses \in Nat

VARIABLES
    file,       \* /data/etc/timezone ("name") and /data/etc/localtime ("zone")
    durable,    \* these files as they are on the medium
    bound,      \* whether /data/etc/localtime is mounted over /etc/localtime
    boot,       \* where early boot is, "up" when it is over
    setter,     \* the requests and commands
    claim,      \* history: the zone that was last set, by one that was alone
    masked,     \* history: ... and that was read through the bind
    losses      \* history: power losses

vars == <<file, durable, bound, boot, setter, claim, masked, losses>>
history == <<claim, masked, losses>>

Content == Zones \cup {Missing, Empty, Torn}
Files == [name : Content, zone : Content]

Working == {"write_name", "read", "open_zone", "write_zone", "unbind", "bind"}

Setter ==
    [pc : {"idle", "ok", "failed"} \cup Working, zone : Zones, data : Content, alone : BOOLEAN]

TypeOK ==
    /\ file \in Files
    /\ durable \in Files
    /\ bound \in BOOLEAN
    /\ boot \in {"copy", "write", "bind", "up"}
    /\ setter \in [Setters -> Setter]
    /\ claim \in Zones \cup {None}
    /\ masked \in BOOLEAN
    /\ losses \in 0..MaxLosses

-----------------------------------------------------------------------------
(* What the link /etc/localtime leads to, hence what a process starts with *)
Running == IF bound THEN file.zone ELSE Default

(* a zone file of the image: the default one is the file below the bind *)
ZoneFile(z) == IF z = Default THEN Running ELSE z

(* write(2) at offset 0: what another writer has put there and is longer stays *)
Overlay(c, d) ==
    CASE c = Empty -> d
      [] d = Empty -> c
      [] c \in Zones /\ d \in Zones -> IF Length[c] <= Length[d] THEN d ELSE Torn
      [] OTHER -> Torn

(* the journal: the data of a new file may follow later than the file *)
Flushed(d, c) ==
    IF d \in {Missing, Empty} /\ c # Missing THEN {c, Empty} ELSE {c}

Busy == \E r \in Setters : setter[r].pc \in Working

Goto(r, to) == setter' = [setter EXCEPT ![r].pc = to]

Put(f, c) == file' = [file EXCEPT ![f] = c]

-----------------------------------------------------------------------------
Init ==
    /\ file = [name |-> Missing, zone |-> Missing]
    /\ durable = file
    /\ bound = FALSE
    /\ boot = "copy"
    /\ setter = [r \in Setters |-> [pc |-> "idle", zone |-> Default, data |-> Missing, alone |-> FALSE]]
    /\ claim = None /\ masked = FALSE
    /\ losses = 0

(* The power goes, and early boot begins again. *)
PowerLoss ==
    /\ losses < MaxLosses /\ losses' = losses + 1
    /\ file' = durable
    /\ bound' = FALSE
    /\ boot' = "copy"
    /\ setter' = [r \in Setters |->
         IF setter[r].pc \in Working THEN [setter[r] EXCEPT !.pc = "failed"] ELSE setter[r]]
    /\ claim' = None /\ masked' = FALSE
    /\ UNCHANGED durable

Writeback ==
    /\ \E n \in Flushed(durable.name, file.name), z \in Flushed(durable.zone, file.zone) :
        durable' = [name |-> n, zone |-> z]
    /\ UNCHANGED <<file, bound, boot, setter, history>>

-----------------------------------------------------------------------------
(* early-boot.sh                                                           *)

(* the name that is kept, if there is a zone file of that name *)
Chosen_NonEmpty == IF file.name \in {Missing, Empty} THEN None ELSE file.name
Chosen == IF file.name \in Zones THEN file.name ELSE None

BootCopies_IfMissing == Chosen # None /\ file.zone = Missing
BootCopies == Chosen # None

(* cp -f truncates the copy that is there *)
BootCopy ==
    /\ boot = "copy"
    /\ IF BootCopies
         THEN Put("zone", Empty) /\ boot' = "write"
         ELSE UNCHANGED file /\ boot' = "bind"
    /\ UNCHANGED <<durable, bound, setter, history>>

BootWrite ==
    /\ boot = "write"
    /\ Put("zone", Chosen)
    /\ boot' = "bind"
    /\ UNCHANGED <<durable, bound, setter, history>>

(* the failure of mount is ignored *)
BootBind ==
    /\ boot = "bind"
    /\ boot' = "up"
    /\ bound' \in (IF file.zone = Missing THEN {FALSE} ELSE BOOLEAN)
    /\ claim' = IF bound' THEN Chosen ELSE None
    /\ UNCHANGED <<file, durable, setter, masked, losses>>

-----------------------------------------------------------------------------
(* setTimezoneHandler, bigfred-set-timezone                                *)

(* the name is one of a zone file; the file that keeps it is opened, and truncated *)
Set(r, z) ==
    /\ boot = "up" /\ setter[r].pc \notin Working
    /\ Put("name", Empty)
    /\ setter' = [q \in Setters |->
         IF q = r THEN [pc |-> "write_name", zone |-> z, data |-> Missing, alone |-> ~Busy]
                  ELSE [setter[q] EXCEPT !.alone = FALSE]]
    /\ claim' = None /\ masked' = FALSE
    /\ UNCHANGED <<durable, bound, boot, losses>>

WriteName(r) ==
    /\ setter[r].pc = "write_name"
    /\ Put("name", Overlay(file.name, setter[r].zone))
    /\ Goto(r, "read")
    /\ UNCHANGED <<durable, bound, boot, history>>

(* os.ReadFile; cp, which does not copy a file onto itself *)
ReadZone(r) ==
    LET z == setter[r].zone IN
    /\ setter[r].pc = "read"
    /\ r \in Commands => ~(z = Default /\ bound)
    /\ setter' = [setter EXCEPT ![r].data = ZoneFile(z), ![r].pc = "open_zone"]
    /\ masked' = (setter[r].alone /\ z = Default /\ bound)
    /\ UNCHANGED <<file, durable, bound, boot, claim, losses>>

OpenZone(r) ==
    /\ setter[r].pc = "open_zone"
    /\ Put("zone", Empty)
    /\ Goto(r, "write_zone")
    /\ UNCHANGED <<durable, bound, boot, history>>

WriteZone(r) ==
    /\ setter[r].pc = "write_zone"
    /\ Put("zone", Overlay(file.zone, setter[r].data))
    /\ Goto(r, "unbind")
    /\ UNCHANGED <<durable, bound, boot, history>>

(* umount, whose failure is ignored *)
Unbind(r) ==
    /\ setter[r].pc = "unbind"
    /\ bound' \in {bound, FALSE}
    /\ Goto(r, "bind")
    /\ UNCHANGED <<file, durable, boot, history>>

Bind(r) ==
    /\ setter[r].pc = "bind"
    /\ file.zone # Missing
    /\ bound' = TRUE
    /\ claim' = IF setter[r].alone THEN setter[r].zone ELSE None
    /\ Goto(r, "ok")
    /\ UNCHANGED <<file, durable, boot, masked, losses>>

(* An error ends a setter, and takes nothing back. *)
Fail(r) ==
    /\ setter[r].pc \in Working
    /\ Goto(r, "failed")
    /\ UNCHANGED <<file, durable, bound, boot, history>>

(* etcdir.Write on the name: a zone, or something else *)
Edit ==
    /\ boot = "up"
    /\ \E c \in Zones \cup {Torn} : Put("name", c)
    /\ setter' = [q \in Setters |-> [setter[q] EXCEPT !.alone = FALSE]]
    /\ claim' = None /\ masked' = FALSE
    /\ UNCHANGED <<durable, bound, boot, losses>>

-----------------------------------------------------------------------------
Boot == BootCopy \/ BootWrite \/ BootBind

Work(r) ==
    WriteName(r) \/ ReadZone(r) \/ OpenZone(r) \/ WriteZone(r) \/ Unbind(r) \/ Bind(r) \/ Fail(r)

Next ==
    \/ PowerLoss \/ Writeback \/ Boot \/ Edit
    \/ \E r \in Setters : Work(r) \/ \E z \in Zones : Set(r, z)

Spec == Init /\ [][Next]_vars

-----------------------------------------------------------------------------
(* Properties.                                                             *)

(***************************************************************************)
(* Once a setter that was alone has succeeded, or a boot that found the    *)
(* name of a zone and could bind, the name, the file and what runs are     *)
(* that zone, whatever earlier setters, failures and power losses have     *)
(* left in the two files, until the next one begins.  Left out is the      *)
(* default zone when it is read through the bind (TakesEffect).            *)
(***************************************************************************)
Settled ==
    claim # None /\ ~masked
        => file = [name |-> claim, zone |-> claim] /\ Running = claim

(***************************************************************************)
(* TimePage.tsx says of a success: "New processes use it immediately."     *)
(***************************************************************************)
TakesEffect == claim # None => Running = claim

=============================================================================
