----------------------------- MODULE HubStorage -----------------------------
(***************************************************************************)
(* Where the hub keeps its writable state: the /data directory, from power *)
(* on to power off.                                                        *)
(*                                                                         *)
(* The hub boots from a microSD card with a read-only root and an ext4     *)
(* data partition.  early-boot.sh mounts /data, runs prepare-nvme, which   *)
(* moves /data to an NVMe partition when there is one, then lays out       *)
(* directories and lets microinit start the services.  factory-reset wipes *)
(* /data, unmount.sh takes it down.  Every command of these scripts is a   *)
(* step, the power may be lost between any two steps, and a command named  *)
(* in Faults may fail.                                                     *)
(*                                                                         *)
(* A partition holds a set of files.  `view' is what a process that has    *)
(* the partition mounted sees (the page cache), `disk' what is on the      *)
(* medium: they differ only while the partition is mounted, and a power    *)
(* loss leaves any mixture of the two.                                     *)
(***************************************************************************)
EXTENDS FiniteSets

CONSTANTS
    Items,        \* pieces of user state kept under /data
    Sd, Nvme,     \* /dev/mmcblk0p3 and the first NVMe partition
    None,         \* nothing is mounted on /data
    Marker,       \* the file .bigfred-nvme
    Layout,       \* the directories and seeds early-boot leaves under /data
    Stray,        \* files of a previous owner of the NVMe disk
    SdKinds,      \* SD data partitions the hub may be delivered with
    NvmeKinds,    \* NVMe disks that may be inserted
    ResetFrom,    \* partitions /data may be on when factory-reset is run
    PowerLossAt,  \* control points at which the power may be lost
    Faults        \* commands that may fail

Part == {Sd, Nvme}
File == Items \cup {Marker, Layout, Stray}

(***************************************************************************)
(* Control points.  Up to "layout" is early-boot.sh (with prepare-nvme from*)
(* "prepare" to "switchMount"), "up" the running hub, "resetLogs" and      *)
(* "wipe" factory-reset, "stopping" the shutdown that ends in unmount.sh;  *)
(* "aborted" is an early-boot.sh that exited non-zero.                     *)
(***************************************************************************)
CopyWindow == {"mountTmp", "copy", "mark", "umountTmp"}
BootSteps == {"probe", "mountNvme", "byLabel", "byDevice", "sdFormat", "sdMkfs",
              "prepare", "inspect", "format", "mkfs"}
             \cup CopyWindow \cup {"switch", "switchMount", "layout"}
PC == {"off", "aborted", "up", "resetLogs", "wipe", "stopping"} \cup BootSteps

Commands == {"mount", "umount", "blkid", "mkfs", "partition", "cp", "tmpfs", "rm"}

(***************************************************************************)
(* "opaque" is a type blkid names but mount(8) cannot mount (LUKS, LVM).   *)
(***************************************************************************)
FsType == {"absent", "bare", "raw", "ext4", "other", "opaque"}
SdKind == {"image", "raw"}
NvmeKind == {"bare", "raw", "emptyExt4", "usedExt4", "emptyOther", "usedOther", "opaque"}

ASSUME StorageAssumption ==
    /\ Sd # Nvme /\ None \notin Part
    /\ Marker \notin Items /\ Layout \notin Items /\ Stray \notin Items
    /\ Marker # Layout /\ Marker # Stray /\ Layout # Stray
    /\ SdKinds \subseteq SdKind
    /\ NvmeKinds \subseteq NvmeKind
    /\ ResetFrom \subseteq Part
    /\ PowerLossAt \subseteq PC \ {"off"}
    /\ Faults \subseteq Commands

VARIABLES
    pc,         \* control point
    fs,         \* what blkid says of each partition
    labelled,   \* partitions whose filesystem has LABEL=bigfred-data
    view,       \* files a process sees on each partition
    disk,       \* files on the medium of each partition
    data,       \* the partition mounted on /data, or None
    tmp,        \* is Nvme mounted on /run/prepare-nvme
    logs,       \* is the tmpfs mounted on /data/logs
    rc,         \* did the copy stage of prepare-nvme succeed
    todo,       \* directory entries factory-reset still has to remove
    written,    \* history: items stored since the last factory reset, not deleted
    owned,      \* history: those that reached the medium while the hub ran
    misprobed   \* history: a format was decided on because a probe failed

mounts == <<data, tmp, logs>>
parts == <<fs, labelled, view, disk>>
history == <<written, owned, misprobed>>
vars == <<pc, fs, labelled, view, disk, data, tmp, logs, rc, todo,
          written, owned, misprobed>>

TypeOK ==
    /\ pc \in PC
    /\ fs \in [Part -> FsType]
    /\ labelled \subseteq Part
    /\ view \in [Part -> SUBSET File]
    /\ disk \in [Part -> SUBSET File]
    /\ data \in Part \cup {None}
    /\ tmp \in BOOLEAN /\ logs \in BOOLEAN /\ rc \in BOOLEAN
    /\ todo \subseteq File
    /\ written \subseteq Items
    /\ owned \subseteq Items
    /\ misprobed \in BOOLEAN

-----------------------------------------------------------------------------
(* Helpers.                                                                *)

Goto(from, to) == pc = from /\ pc' = to

MayFail(command) == command \in Faults

(* p is replaced by a partition that holds exactly these files, durably *)
Holds(f, p, files) == [f EXCEPT ![p] = files]

(* umount of p: what was only in the page cache reaches the medium *)
Flushed(p) == [disk EXCEPT ![p] = view[p]]

(* what makes a filesystem: mkfs.ext4 -F -L bigfred-data *)
MkfsType_WithoutT == "ext2"
MkfsType == "ext4"

Formatted(p) ==
    /\ fs' = [fs EXCEPT ![p] = MkfsType]
    /\ labelled' = labelled \cup {p}

(* mkfs has begun to overwrite p: no filesystem, no files, whatever follows *)
Wiped(p) ==
    /\ fs' = [fs EXCEPT ![p] = "raw"]
    /\ labelled' = labelled \ {p}
    /\ view' = Holds(view, p, {})
    /\ disk' = Holds(disk, p, {})

(***************************************************************************)
(* mount -o ro of a block device that is already mounted read-write fails  *)
(* (EBUSY: it would change the state of the superblock), and an opaque     *)
(* partition cannot be mounted at all.                                     *)
(***************************************************************************)
RoMountable(p) == fs[p] \in {"ext4", "other"} /\ data # p

(* partition_looks_empty: a partition that cannot be mounted is "empty" *)
LooksEmpty(p) == ~RoMountable(p) \/ view[p] = {}

(* stage_prepare's need_format, once a partition exists *)
NeedFormat_NoMarker == fs[Nvme] = "raw" \/ Marker \notin view[Nvme]
NeedFormat_ExistingOnly == fs[Nvme] # "raw" /\ LooksEmpty(Nvme)
NeedFormat == fs[Nvme] = "raw" \/ LooksEmpty(Nvme)

(* cp -a has copied the whole of /data *)
CopyComplete_Always == TRUE
CopyComplete == view[Sd] \subseteq view[Nvme]

(* stage_mount has nothing to do *)
NothingToSwitch_Marked == fs[Nvme] # "ext4" \/ data = Nvme \/ Marker \in view[Nvme]
NothingToSwitch == fs[Nvme] # "ext4" \/ data = Nvme

(***************************************************************************)
(* The script means to go on with the local /data; but the image's /data   *)
(* has no run directory, mkdir -p cannot make it on the read-only root,    *)
(* and set -e ends the script.                                             *)
(***************************************************************************)
LayoutFails_Never == FALSE
LayoutFails == data = None

(* read_dir(/data), the entries wipe_data_contents removes *)
WipeList_DirectoriesOnly == view[data] \ Items
WipeList == view[data]

-----------------------------------------------------------------------------
Init ==
    /\ pc = "off"
    /\ \E kind \in SdKinds :
         LET files == IF kind = "image" THEN {Layout} ELSE {}
         IN  /\ fs = [p \in Part |-> IF p = Nvme THEN "absent"
                                     ELSE IF kind = "image" THEN "ext4" ELSE "raw"]
             /\ labelled = IF kind = "image" THEN {Sd} ELSE {}
             /\ view = [p \in Part |-> IF p = Sd THEN files ELSE {}]
             /\ disk = [p \in Part |-> IF p = Sd THEN files ELSE {}]
    /\ data = None /\ tmp = FALSE /\ logs = FALSE /\ rc = TRUE
    /\ todo = {} /\ written = {} /\ owned = {} /\ misprobed = FALSE

-----------------------------------------------------------------------------
(* Environment: the power, the operator's hands, the kernel's writeback.   *)

PowerOn ==
    /\ Goto("off", "probe")
    /\ UNCHANGED <<parts, mounts, rc, todo, history>>

(* A disk is put in while the hub is off. *)
InsertNvme ==
    /\ pc = "off" /\ fs[Nvme] = "absent"
    /\ \E kind \in NvmeKinds :
         LET files == IF kind \in {"usedExt4", "usedOther", "opaque"} THEN {Stray} ELSE {}
         IN  /\ fs' = [fs EXCEPT ![Nvme] =
                         CASE kind \in {"emptyExt4", "usedExt4"} -> "ext4"
                           [] kind \in {"emptyOther", "usedOther"} -> "other"
                           [] OTHER -> kind]
             /\ view' = Holds(view, Nvme, files)
             /\ disk' = Holds(disk, Nvme, files)
    /\ UNCHANGED <<pc, labelled, mounts, rc, todo, history>>

(***************************************************************************)
(* Of every mounted partition the medium keeps what was on both sides, and *)
(* any part of what had not been written back yet, created or deleted.  An *)
(* item that returns is one the user still has; an interrupted factory     *)
(* reset leaves the user everything it had not removed.                    *)
(***************************************************************************)
Mixtures(p) ==
    {(view[p] \cap disk[p]) \cup s :
        s \in SUBSET ((view[p] \ disk[p]) \cup (disk[p] \ view[p]))}

Returned(left) ==
    IF data = None THEN {}
    ELSE Items \cap (IF pc = "wipe" THEN left[data] ELSE left[data] \ view[data])

PowerLoss ==
    /\ pc \in PowerLossAt
    /\ pc' = "off"
    /\ \E onSd \in Mixtures(Sd), onNvme \in Mixtures(Nvme) :
         LET left == [p \in Part |-> IF p = Sd THEN onSd ELSE onNvme]
         IN  /\ view' = left
             /\ disk' = left
             /\ written' = written \cup Returned(left)
    /\ data' = None /\ tmp' = FALSE /\ logs' = FALSE /\ rc' = TRUE /\ todo' = {}
    /\ UNCHANGED <<fs, labelled, owned, misprobed>>

(* The journal of the filesystem on /data commits (commit=15). *)
Writeback ==
    /\ pc \in {"up", "resetLogs", "wipe", "stopping"}
    /\ disk' = Flushed(data)
    /\ owned' = IF pc = "up" THEN owned \cup (written \cap view[data]) ELSE owned
    /\ UNCHANGED <<pc, fs, labelled, view, mounts, rc, todo, written, misprobed>>

-----------------------------------------------------------------------------
(* early-boot.sh: mount_data                                               *)

(* nvme_data_part: an ext4 NVMe partition that carries the marker *)
NvmeMigrated == fs[Nvme] = "ext4" /\ Marker \in view[Nvme]

Probe ==
    /\ \/ NvmeMigrated /\ Goto("probe", "mountNvme")
       \/ (~NvmeMigrated \/ MayFail("mount") \/ MayFail("blkid")) /\ Goto("probe", "byLabel")
    /\ UNCHANGED <<parts, mounts, rc, todo, history>>

MountNvme ==
    /\ \/ Goto("mountNvme", "prepare") /\ data' = Nvme
       \/ MayFail("mount") /\ Goto("mountNvme", "byLabel") /\ UNCHANGED data
    /\ UNCHANGED <<parts, tmp, logs, rc, todo, history>>

(* findfs LABEL=bigfred-data: any partition with that label may be the first *)
ByLabel ==
    /\ \/ \E p \in labelled : Goto("byLabel", "prepare") /\ data' = p
       \/ /\ labelled = {} \/ MayFail("mount")
          /\ Goto("byLabel", "byDevice") /\ UNCHANGED data
    /\ UNCHANGED <<parts, tmp, logs, rc, todo, history>>

(* /dev/disk/by-label/bigfred-data, then /dev/mmcblk0p3 *)
ByDevice ==
    /\ \/ \E p \in labelled \cup {Sd} :
            fs[p] = "ext4" /\ Goto("byDevice", "prepare") /\ data' = p
       \/ /\ fs[Sd] # "ext4" \/ MayFail("mount")
          /\ Goto("byDevice", "sdFormat") /\ UNCHANGED data
    /\ UNCHANGED <<parts, tmp, logs, rc, todo, history>>

(* an empty TYPE means an unformatted card; so does a blkid that fails *)
SdFormat ==
    /\ \/ /\ fs[Sd] = "raw" \/ MayFail("blkid")
          /\ Goto("sdFormat", "sdMkfs")
          /\ Wiped(Sd)
          /\ misprobed' = (misprobed \/ fs[Sd] # "raw")
       \/ /\ fs[Sd] # "raw" /\ Goto("sdFormat", "prepare")
          /\ UNCHANGED <<parts, misprobed>>
    /\ UNCHANGED <<mounts, rc, todo, written, owned>>

(* the exit code of mkfs is not looked at: the mount that follows fails *)
SdMkfs ==
    /\ Goto("sdMkfs", "prepare")
    /\ \/ Formatted(Sd) /\ data' = Sd
       \/ MayFail("mount") /\ Formatted(Sd) /\ UNCHANGED data
       \/ MayFail("mkfs") /\ UNCHANGED <<fs, labelled, data>>
    /\ UNCHANGED <<view, disk, tmp, logs, rc, todo, history>>

-----------------------------------------------------------------------------
(* prepare-nvme, stage prepare.  An Err leaves the program: run_all does   *)
(* not go on to the mount stage, and early-boot.sh continues at "layout".  *)

(* find_nvme_disk, ensure_partition *)
Prepare ==
    /\ \/ fs[Nvme] = "absent" /\ Goto("prepare", "switch") /\ UNCHANGED fs
       \/ /\ fs[Nvme] = "bare" /\ Goto("prepare", "format")
          /\ fs' = [fs EXCEPT ![Nvme] = "raw"]
       \/ /\ fs[Nvme] = "bare" /\ MayFail("partition") /\ Goto("prepare", "layout")
          /\ \E t \in {"bare", "raw"} : fs' = [fs EXCEPT ![Nvme] = t]
       \/ fs[Nvme] \notin {"absent", "bare"} /\ Goto("prepare", "inspect") /\ UNCHANGED fs
    /\ UNCHANGED <<labelled, view, disk, mounts, rc, todo, history>>

(***************************************************************************)
(* blkid_type and partition_looks_empty.  A blkid that fails reports no    *)
(* filesystem, a probe mount that fails an empty one: both lead to format. *)
(***************************************************************************)
Inspect ==
    /\ \/ NeedFormat /\ Goto("inspect", "format") /\ UNCHANGED misprobed
       \/ /\ ~NeedFormat /\ (MayFail("blkid") \/ MayFail("mount"))
          /\ Goto("inspect", "format") /\ misprobed' = TRUE
       \/ ~NeedFormat /\ Goto("inspect", "switch") /\ UNCHANGED misprobed
    /\ UNCHANGED <<parts, mounts, rc, todo, written, owned>>

(* mkfs.ext4 -F refuses a device that is mounted: on /data, or still on the *)
(* directory of the emptiness probe, whose failing umount is only a warning *)
Format ==
    /\ \/ data # Nvme /\ Goto("format", "mkfs") /\ Wiped(Nvme)
       \/ /\ data = Nvme \/ (MayFail("umount") /\ RoMountable(Nvme))
          /\ Goto("format", "layout") /\ UNCHANGED parts
    /\ UNCHANGED <<mounts, rc, todo, history>>

Mkfs ==
    /\ \/ Goto("mkfs", "mountTmp") /\ Formatted(Nvme)
       \/ MayFail("mkfs") /\ Goto("mkfs", "layout") /\ UNCHANGED <<fs, labelled>>
    /\ UNCHANGED <<view, disk, mounts, rc, todo, history>>

(* copy_data_onto: when /data is not mounted there is nothing to copy *)
MountTmp ==
    /\ \/ /\ data # None /\ Goto("mountTmp", "copy") /\ tmp' = TRUE
       \/ /\ data = None /\ Goto("mountTmp", "umountTmp") /\ tmp' = TRUE
       \/ MayFail("mount") /\ Goto("mountTmp", "layout") /\ UNCHANGED tmp
    /\ UNCHANGED <<parts, data, logs, rc, todo, history>>

(* cp -a, one file at a time *)
CopyFile ==
    /\ pc = "copy"
    /\ \E f \in view[Sd] \ view[Nvme] : view' = [view EXCEPT ![Nvme] = @ \cup {f}]
    /\ UNCHANGED <<pc, fs, labelled, disk, mounts, rc, todo, history>>

CopyEnd ==
    /\ \/ CopyComplete /\ Goto("copy", "mark") /\ UNCHANGED rc
       \/ MayFail("cp") /\ Goto("copy", "umountTmp") /\ rc' = FALSE
    /\ UNCHANGED <<parts, mounts, todo, history>>

Mark ==
    /\ Goto("mark", "umountTmp")
    /\ \/ view' = [view EXCEPT ![Nvme] = @ \cup {Marker}] /\ UNCHANGED rc
       \/ MayFail("cp") /\ rc' = FALSE /\ UNCHANGED view
    /\ UNCHANGED <<fs, labelled, disk, mounts, todo, history>>

(* a failing umount of the copy mount is only a warning *)
UmountTmp ==
    /\ Goto("umountTmp", IF rc THEN "switch" ELSE "layout")
    /\ \/ tmp' = FALSE /\ disk' = Flushed(Nvme)
       \/ MayFail("umount") /\ UNCHANGED <<tmp, disk>>
    /\ rc' = TRUE
    /\ UNCHANGED <<fs, labelled, view, data, logs, todo, history>>

-----------------------------------------------------------------------------
(* prepare-nvme, stage mount                                               *)

(* what is mounted on /data makes way, unless umount says it is busy *)
Switch ==
    /\ \/ /\ NothingToSwitch \/ MayFail("blkid")
          /\ Goto("switch", "layout") /\ UNCHANGED <<data, disk>>
       \/ /\ ~NothingToSwitch /\ data = Sd
          /\ Goto("switch", "switchMount") /\ data' = None /\ disk' = Flushed(Sd)
       \/ /\ ~NothingToSwitch /\ data = Sd /\ MayFail("umount")
          /\ Goto("switch", "layout") /\ UNCHANGED <<data, disk>>
       \/ /\ ~NothingToSwitch /\ data = None
          /\ Goto("switch", "switchMount") /\ UNCHANGED <<data, disk>>
    /\ UNCHANGED <<fs, labelled, view, tmp, logs, rc, todo, history>>

(* it fails, too, where a read-only probe mount was left (EBUSY) *)
SwitchMount ==
    /\ Goto("switchMount", "layout")
    /\ data' = Nvme \/ (MayFail("mount") /\ UNCHANGED data)
    /\ UNCHANGED <<parts, tmp, logs, rc, todo, history>>

-----------------------------------------------------------------------------
(* early-boot.sh after the mounts: the directory tree and the seeds go to  *)
(* /data, and a tmpfs over /data/logs, whose failure is only a warning.    *)

LayOut ==
    /\ \/ LayoutFails /\ Goto("layout", "aborted") /\ UNCHANGED <<view, logs>>
       \/ /\ ~LayoutFails /\ Goto("layout", "up")
          /\ view' = [p \in Part |-> IF p = data THEN view[p] \cup {Layout} ELSE view[p]]
          /\ logs' \in {TRUE} \cup (IF MayFail("tmpfs") THEN {FALSE} ELSE {})
    /\ UNCHANGED <<fs, labelled, disk, data, tmp, rc, todo, history>>

-----------------------------------------------------------------------------
(* The running hub: its services store and delete state under /data, also  *)
(* while factory-reset, started from a shell, is at work.                  *)

Write(i) ==
    /\ pc \in {"up", "resetLogs", "wipe"}
    /\ i \notin view[data]
    /\ view' = [view EXCEPT ![data] = @ \cup {i}]
    /\ written' = written \cup {i}
    /\ UNCHANGED <<pc, fs, labelled, disk, mounts, rc, todo, owned, misprobed>>

Delete(i) ==
    /\ pc = "up"
    /\ i \in view[data]
    /\ view' = [view EXCEPT ![data] = @ \ {i}]
    /\ written' = written \ {i}
    /\ owned' = owned \ {i}
    /\ UNCHANGED <<pc, fs, labelled, disk, mounts, rc, todo, misprobed>>

Shutdown ==
    /\ Goto("up", "stopping")
    /\ UNCHANGED <<parts, mounts, rc, todo, history>>

-----------------------------------------------------------------------------
(* factory-reset                                                           *)

ResetStart ==
    /\ data \in ResetFrom
    /\ Goto("up", "resetLogs")
    /\ UNCHANGED <<parts, mounts, rc, todo, history>>

(***************************************************************************)
(* nested_mounts_under: the tmpfs goes first, and a busy one aborts the    *)
(* reset.  Then the entries of /data are listed.                           *)
(***************************************************************************)
ResetLogs ==
    /\ \/ Goto("resetLogs", "wipe") /\ logs' = FALSE /\ todo' = WipeList
          /\ written' = {} /\ owned' = {}
       \/ /\ logs /\ MayFail("umount") /\ Goto("resetLogs", "up")
          /\ UNCHANGED <<logs, todo, written, owned>>
    /\ UNCHANGED <<parts, data, tmp, rc, misprobed>>

(* wipe_data_contents: an entry that cannot be removed aborts the reset *)
WipeOne ==
    /\ pc = "wipe"
    /\ \/ /\ \E f \in todo : /\ todo' = todo \ {f}
                              /\ view' = [view EXCEPT ![data] = @ \ {f}]
          /\ UNCHANGED <<pc, written>>
       \/ /\ todo # {} /\ MayFail("rm")
          /\ pc' = "up" /\ todo' = {} /\ UNCHANGED view
          /\ written' = written \cup (Items \cap view[data])
    /\ UNCHANGED <<fs, labelled, disk, mounts, rc, owned, misprobed>>

(* shutdown -r now *)
WipeEnd ==
    /\ todo = {}
    /\ Goto("wipe", "stopping")
    /\ UNCHANGED <<parts, mounts, rc, todo, history>>

-----------------------------------------------------------------------------
(* microinit stops the services and runs unmount.sh: everything mounted is *)
(* unmounted (lazily if need be) and synced.                               *)
Unmount ==
    /\ Goto("stopping", "off")
    /\ disk' = view
    /\ owned' = owned \cup (written \cap view[data])
    /\ data' = None /\ tmp' = FALSE /\ logs' = FALSE
    /\ UNCHANGED <<fs, labelled, view, rc, todo, written, misprobed>>

-----------------------------------------------------------------------------
(* The steps of the scripts themselves, which init runs to their end; the  *)
(* rest is up to the user, the kernel and the power supply.                *)
EarlyBoot ==
    \/ Probe \/ MountNvme \/ ByLabel \/ ByDevice \/ SdFormat \/ SdMkfs
    \/ Prepare \/ Inspect \/ Format \/ Mkfs
    \/ MountTmp \/ CopyFile \/ CopyEnd \/ Mark \/ UmountTmp
    \/ Switch \/ SwitchMount \/ LayOut

FactoryReset == ResetLogs \/ WipeOne \/ WipeEnd

Environment ==
    \/ PowerOn \/ InsertNvme \/ PowerLoss \/ Writeback
    \/ \E i \in Items : Write(i) \/ Delete(i)
    \/ Shutdown \/ ResetStart

Next == EarlyBoot \/ FactoryReset \/ Unmount \/ Environment

Spec == Init /\ [][Next]_vars /\ WF_vars(EarlyBoot)

-----------------------------------------------------------------------------
(* Properties.                                                             *)

(***************************************************************************)
(* Whatever commands fail and wherever the power is lost, an item that     *)
(* reached the medium and that nobody deleted is still on some partition:  *)
(* no format and no switch of early-boot.sh and prepare-nvme destroys it,  *)
(* unless blkid or a probe mount failed and the failure was taken for an   *)
(* empty partition.                                                        *)
(***************************************************************************)
NothingDestroyed == misprobed \/ owned \subseteq (disk[Sd] \cup disk[Nvme])

(***************************************************************************)
(* The user finds on /data everything stored there in earlier boots: the   *)
(* migration to NVMe and the choice of partition at boot lose nothing.     *)
(***************************************************************************)
OwnedVisible == pc = "up" => owned \subseteq view[data]

(***************************************************************************)
(* Nothing the user deleted or reset comes back: what a booted hub shows   *)
(* was stored since the last factory reset and not deleted since.          *)
(***************************************************************************)
NoResurrection == pc = "up" => Items \cap view[data] \subseteq written

(***************************************************************************)
(* Services never run on the /data directory of the read-only root, where  *)
(* nothing they store would stay: whichever mounts fail, the hub comes up  *)
(* with an ext4 partition on /data or early-boot.sh fails.  This is what   *)
(* `set -e' and the read-only root make of it (LayoutFails), and not what  *)
(* the script says: after a failed mount_data its log has "continuing with *)
(* local directory", and the model's boot, like the code's, does not.      *)
(***************************************************************************)
RunningMeansMounted ==
    pc \in {"up", "resetLogs", "wipe", "stopping"} =>
        data \in Part /\ fs[data] = "ext4"

(***************************************************************************)
(* The marker, which makes every later boot ignore the SD card, is written *)
(* only next to a complete copy of the SD card's /data.                    *)
(***************************************************************************)
MarkedAfterCopy ==
    [][(Marker \in view'[Nvme] /\ Marker \notin view[Nvme] /\ pc # "off" /\ pc' # "off")
         => data = Sd /\ view[Sd] \subseteq view[Nvme]]_vars

(***************************************************************************)
(* Once the migration is on the medium the SD card's data partition is no  *)
(* longer written: its wear stops.                                         *)
(***************************************************************************)
SdAtRest ==
    [][(Marker \in disk[Nvme] /\ Marker \in disk'[Nvme])
         => view'[Sd] = view[Sd] /\ disk'[Sd] = disk[Sd]]_vars

(***************************************************************************)
(* A boot that finds an NVMe disk it can take over ends with /data on it,  *)
(* marked, unless the power is lost first.                                 *)
(***************************************************************************)
Fresh == \/ fs[Nvme] \in {"bare", "raw"}
         \/ fs[Nvme] \in {"ext4", "other"} /\ view[Nvme] = {}

MigrationFinishes ==
    (pc = "prepare" /\ data = Sd /\ Fresh)
        ~> (pc = "off" \/ (pc = "up" /\ data = Nvme /\ Marker \in disk[Nvme]))

(***************************************************************************)
(* A format destroys no file, a previous owner's neither: README.md of     *)
(* prepare-nvme lets it format what is empty.  Two cases are excepted: a   *)
(* failed probe, and a disk of a type that cannot be mounted, which the    *)
(* code takes for empty.                                                   *)
(***************************************************************************)
FormatsOnlyEmpty ==
    [][\A p \in Part :
          fs[p] \notin {"bare", "raw", "opaque"} /\ fs'[p] \in {"bare", "raw"}
              => misprobed' \/ view[p] = {}]_vars

(***************************************************************************)
(* early-boot.sh: if the NVMe is not yet migrated, prepare-nvme copies     *)
(* /data onto it and switches the mount; it never switches to a partition  *)
(* that lacks one of the items the user has on the SD card.                *)
(***************************************************************************)
SwitchesOnlyToCopy ==
    [][pc = "switch" /\ data = Sd /\ pc' = "switchMount"
         => Items \cap view[Sd] \subseteq view[Nvme] \/ Marker \in view[Nvme]]_vars

(***************************************************************************)
(* Where the user's data is: on the NVMe partition once the marker is on   *)
(* its medium, on the SD card before.                                      *)
(***************************************************************************)
Home == IF Marker \in disk[Nvme] THEN Nvme ELSE Sd

Store == INSTANCE HubData WITH
    up <- pc \in {"up", "resetLogs", "wipe", "stopping"},
    live <- Items \cap view[Home],
    safe <- Items \cap disk[Home]

(***************************************************************************)
(* The hub's boots, migrations, factory resets and shutdowns look to the   *)
(* user like one store, the same before and after the move to NVMe.        *)
(***************************************************************************)
ImplementsStore == Store!Spec

(***************************************************************************)
(* The parts of the inductive invariant behind NothingDestroyed and        *)
(* RunningMeansMounted.                                                    *)
(***************************************************************************)
BeforeMount == {"off", "probe", "mountNvme", "byLabel", "byDevice", "sdFormat", "sdMkfs"}
Running == {"up", "resetLogs", "wipe", "stopping"}

\* /data is a mounted ext4 partition exactly from the mount to the unmount
MountOrder ==
    /\ data # None => fs[data] = "ext4"
    /\ pc \in BeforeMount \cup {"switchMount"} => data = None
    /\ pc \in {"copy", "mark", "umountTmp"} => tmp
    /\ pc \in Running => data # None
    /\ pc \in {"mountNvme", "switchMount"} \cup CopyWindow => fs[Nvme] = "ext4"
    /\ \A p \in labelled : fs[p] = "ext4"

\* user items are only ever on ext4
ItemsOnExt4 ==
    \A p \in Part : fs[p] # "ext4" => Items \cap (view[p] \cup disk[p]) = {}

\* what an ordinary format is about to wipe holds no item
FormatHarmless ==
    pc = "format" /\ data # Nvme /\ ~misprobed => Items \cap view[Nvme] = {}

\* page cache and medium differ only on a mounted partition
CacheOnlyIfMounted ==
    \A p \in Part : p # data /\ ~(p = Nvme /\ tmp) => view[p] = disk[p]

\* the copy mount only ever adds files
CopyOnlyAdds == tmp /\ data # Nvme => disk[Nvme] \subseteq view[Nvme]

\* an owned item is nowhere waiting to disappear from the medium
NoPendingLoss ==
    /\ \A p \in Part : owned \cap disk[p] \subseteq view[p]
    /\ pc = "wipe" => owned = {}

StorageInv ==
    /\ TypeOK /\ MountOrder /\ ItemsOnExt4 /\ FormatHarmless
    /\ CacheOnlyIfMounted /\ CopyOnlyAdds /\ NoPendingLoss /\ NothingDestroyed

\* the copy runs from the SD card, which never carries the marker
CopyOrder ==
    /\ pc \in {"mkfs", "mountTmp"} => data # Nvme
    /\ pc \in {"copy", "mark"} => data = Sd
    /\ pc = "mark" => view[Sd] \subseteq view[Nvme]
    /\ Marker \notin view[Sd] \cup disk[Sd]

=============================================================================
