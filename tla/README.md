# A formal model of BigFred OS

BigFred OS is the image of a model-railway hub: a Raspberry Pi that boots from a microSD card
with a read-only root, keeps all its state under `/data`, runs its services under microinit
(PID 1, another repository) and is administered through a web page. This directory holds TLA+
models of the parts of the repository that have state and can go wrong in ways a test hardly
reaches, the TLC runs that check them, and theorems about them that TLAPS has checked.

## The system

| part | state | operations | what is hard | what makes it correct |
|---|---|---|---|---|
| **data partition**: `early-boot.sh` (to line 362), `prepare-nvme`, `factory-reset`, `unmount.sh` | the SD card's data partition, the NVMe partition, what is mounted, the marker file `.bigfred-nvme` | choose and mount `/data`; format a fresh card; prepare, fill and switch to NVMe; wipe; unmount | power loss at any point, failing commands with fallbacks, an irreversible step (mkfs) decided by a probe, two partitions with one label | nothing the user stored is destroyed, lost from sight or comes back; the migration finishes |
| **log rotation**: `rotate-hub-logs`, cron | `/data/logs` (a 64 MiB tmpfs): live logs, archives, `.gz` files | copy, truncate, compress, expire, prune | services write while it works, a full volume, kills | lines are lost only in the documented gap of copy-and-truncate, no archive is compressed twice, archives fit, a log that grows is rotated |
| **live log view**: `internal/logs`, `logs_ws.go`, `LogsPage.tsx` | a file, an offset, the page | history, poll | truncation and growth between any two system calls | every line once, in order, and eventually |
| **live Redis key view**: `internal/redis`, `redis_ws.go`, `RedisPage.tsx` | a key, notifications on their way, the page | snapshot, subscribe or poll, re-read | a reading is four commands; notifications are hints only | the page comes to show the key as it is |
| service control, service log streams: `internal/services`, `services_http.go` | microinit's | list, start, stop, restart, follow | history and stream are two requests | - |
| **Update tab**: `internal/update`, `update_http.go`, `UpdatePage.tsx`, `init.d/remote-icmp`, `init.d/bigfred-os-ui` | binaries under `/data/opt/bigfred/bin`, their capabilities, temporary files | list, look up, download, rename, setcap, start | two pages at once, power loss, a service that starts meanwhile, the UI that updates itself | a binary is whole or not there; what is reported is installed; remote-icmp runs with its capability |
| **timezone**: `time_http.go`, `bigfred-set-timezone`, `early-boot.sh` 585-596 | `/data/etc/timezone`, `/data/etc/localtime`, the bind over `/etc/localtime` | set, restore at boot | several writers in place, failures between the steps, a bind that covers what is read | name, file and running zone agree once a setter or a boot has succeeded |
| **clock**: `time_http.go`, `bigfred-set-time`, cron, `unmount.sh`, `early-boot.sh` 598-606 | the wall clock, `/data/etc/fake-hwclock` | set, save, restore | four writers, a truncated file, a clock that goes back | what is saved is not ahead of the clock that was set |
| **sessions**: `internal/auth`, `router.go` | the secret of a process; the browsers' cookies | login, logout, verify | tokens expire by a clock that the same page sets; a restart forgets the secret | cookie and token last equally long |
| **configuration editor**: `internal/etcdir`, `etcdir_http.go`, `ConfigPage.tsx`, the seeds of `early-boot.sh` 431-507 | the files of `/data/etc`; what each page has loaded and typed | seed if missing, load, edit, save | answers out of order, other editors, power loss in a copy or after a rename | edits survive boots; a text is saved into its own file |
| **terminal**: `terminal_ws.go`, `internal/terminal` | a shell, a PTY, two goroutines | pump both ways, resize, stop | each pump blocks on the other side; the terminal outlives its shell | a session ends when its page, or all that has its terminal open, is gone, and not before |
| router, static files, flags | none | - | - | - |
| service scripts (`init.d`, `microinit.d`) | microinit's | start in the order of `dependsOn` | everyone waiting on everyone | the graph is acyclic |
| image build, CI, flashing | none of the running hub | - | - | - |

The parts meet on `/data`: early boot mounts it and the tmpfs on `/data/logs` before any service
starts; the services and the web UI write there; cron runs the rotation; `factory-reset` and
`unmount.sh` take the tmpfs and the partition away under them. The web UI's views read what the
others write, without any lock. `PROJECT.json` maps each definition to the lines it models and
lists the hazards with the properties that cover them.

## The modules

### HubStorage, HubData

`HubStorage` is the life of `/data`, from power on to power off. `pc` walks through
`early-boot.sh` with one action per command that can fail or that a power loss can separate from
the next: `Probe`, `MountNvme`, `ByLabel`, `ByDevice`, `SdFormat`, `SdMkfs` are `mount_data`;
`Prepare` to `SwitchMount` are `prepare-nvme` (`stage_prepare`, `copy_data_onto`, `stage_mount`);
`LayOut` is the rest under `set -eu`, up to the tmpfs on `/data/logs`. `ResetStart`, `ResetLogs`,
`WipeOne`, `WipeEnd` are `factory-reset`, which deletes one directory entry at a time, and
`Unmount` is `unmount.sh`.

A partition is what `blkid` says of it (`fs`), its label, and a set of files: the user's items,
the marker, the layout, a previous owner's files. `view` is what a mounted process sees, `disk`
what is on the medium. `Writeback` moves the one to the other at any time, and `PowerLoss` leaves
any mixture in which only pending changes may be undone. Each command named in `Faults` may
fail; a failed probe is taken by the code for a negative answer, and `misprobed` remembers it.

`HubData` is what the user is promised: one store that is off or up, in which only a power loss
loses, and only what was not yet synced. `HubStorage` instantiates it as `Store` with the home of
the data (the NVMe partition once the marker is on it) as refinement mapping.

### LogRotation

Two services append lines to their live logs; a run visits the directories in order and copies
line by line, truncates, compresses, removes the archive, expires, and at the end prunes by both
budgets. A line has size one, and compression halves; the size of several files is the number of
their blocks (`Blocks`), a cardinality rather than a sum, which the proofs can reason about. A
write to a full volume fails. An error ends the run, as `log.Fatal` does, `Killed` ends it
anywhere, and both leave the archive file as a stray (`raw`). `Reboot` empties the tmpfs. `late`
and `dropped` are history: the lines that copy-and-truncate is bound to lose, and those that
expired, were pruned, or went with the power.

### LogView

The bytes of a log are numbered; a service appends up to a line at a time, in pieces. The
handler's steps are its system calls: read the history, take the size, `Stat` of a poll, read of a
poll. Between any two the log grows, is truncated, or is removed. The page leaves at any time,
which the handler notices only when a write fails: nothing reads the hijacked connection, so `ctx`
is never cancelled. `cut` and `base` are history: what a truncation that went unnoticed between
two polls puts beyond what the code can deliver. `Lines` gives the split of a stretch of the log
into lines in closed form.

### RedisWatch

`WatchKey` for one page: `GetKey` is the four commands `EXISTS`, `TTL`, `TYPE` and the read of
the value; what follows depends on what the key is read for (`why`). Other clients set, expire,
delete and rename the key between any two. Keyspace notifications are a queue; they are
published while the subscription stands and if the setting has `K` and a class. When the setting
is refused the watch polls. `owed` is history: the key changed before the subscription, and no
notification has come since.

### Terminal

One session from the WebSocket's `Accept` to its `Close`. The page types, pastes, changes its
window and leaves, with messages lost on the way; the shell reads, writes, exits, or does nothing.
It may leave a process behind (`left`; `sleep 1000 &` and `exit`), which keeps the terminal open
(`held`) and reads and writes as the shell did, until it ends (`LeftEnds`); only then is the
terminal `hungUp`, the reader of the master gets its EIO, and so does the writer.
Between them stand the two pumps, one action per blocking call: `OutRead` (`master.Read`),
`OutWrite` (`conn.Write`), `InRead` and `InReadFails` (`conn.Read`), `InWrite` (`master.Write`).
`Stop` is the deferred `stop` of either, with the `sync.Once` whose second caller waits for the
first; between its `cancel` and its `Close` the other pump runs. `Finish` is what follows
`wg.Wait`. Two facts come from outside the repository: the pseudo terminal holds `TtyRoom` units
in each direction, gives the reader all that was written before it reports the hangup, and wakes
readers and writers when the master is closed; the WebSocket library refuses messages over
32 KiB (the code does not raise this limit) and closes the socket then. `refused` is history:
whether a message of the page ended the session.

### HubUpdate, HubBinaries

A request is a record that goes through `Updater.Apply`: `Lookup` (`fetchRelease`, `findAsset`),
`Download` (the answer's header, `CreateTemp`), `Copy` (`io.Copy` through the `LimitReader`, the
check of the size, `Chmod`, `Sync`, `Close`), `Rename`, `SetCap` or `SetCapFails`, `Reply`. `Fail`
is any error before the rename, with the deferred removal of the temporary file. A binary is a
release's tag, the bytes there are of it, and its capability; `None` stands for the image's own.
`setcap(8)` looks its path up again, so that it may mark another request's binary. The start
scripts choose (`Resolve`), set the capability (`EnsureCap`, whose failure is ignored) and `Exec`.
`Stop` of the UI and `PowerLoss` cut all requests off; the latter goes back to `durable`, which
`Writeback` sets to the installed binary: its data were synced before the rename. `owner` and
`late` are history: whose binary is installed, and whether it came after `ensure_cap`.

`HubBinaries` is the promise: one register per target that changes at one instant to a whole
release, between the request and a reply of success; a failed request may have changed it or not.
A binary of the wrong length maps to no release at all, so that implementing it says that no
such binary is ever installed, nor comes back after a power loss.

### HubTimezone

`file` holds the two files by their meaning: a zone, missing, empty, or torn (a mixture, or not a
zone's name). A writer in place opens, which truncates, and then writes at offset 0, so that of two
writers at once the longer text keeps its tail (`Overlay`). `Set` to `Bind` are the steps of
`setTimezoneHandler` and, with the same system calls, of `bigfred-set-timezone`; they differ where
the zone file is the bound file itself, which `cp` refuses and `os.ReadFile` does not. The link
`/etc/localtime` leads to the zone file of the image's zone, so that the bind covers it
(`Running`, `ZoneFile`). `claim` is history: the zone that a setter which was alone, or a boot,
has reported; `masked` says that it read the covered file.

### HubConfig

A text is a number: 0 is the image's, the others are typed. `SeedOpen` and `SeedWrite` are the
`cp -a` of `seed`; `BootEnds` asks only that each file exists. A page has its selected file, what
it shows and what it takes for saved, each with the file it came from; `loading` and the save at
work are its two flags. Loads are slots, so that `Loaded` takes the answers in any order, and, as
`loadFile` does, whatever is selected now. A save is sent (`SaveClick`), replaces the file
(`Rename`), and reads it back (`Saved`); `Elsewhere` is any other editor. `kept` is history: the
text that must still be there; `crossed`: the page went on with a request on its way.

### HubClock

`clock` and `saved` are seconds from an origin; a hub without a battery begins at 0 (`Reboot`,
`PowerCut`) and `Restore` takes what was saved if it is later. The writers are the UI's handler,
which has the time it was asked to set in hand, and the command, cron and `unmount.sh`, whose
shell truncates before `date` runs. `session` is a browser's cookie: the token's expiry, its true
age, which a setting of the clock does not change, whether this process signed it, and whether the
clock was set forward since. Its names differ from HubTimezone's, the other half of the Time tab,
so that one module of proofs extends both. `behind` is history: a setting that was not saved, or a
writer that had an earlier reading of the clock in hand.

## The runs

Sizes are small because the hazards are about order, not about number.

| run | instance | shows |
|---|---|---|
| `storage_exact` | two items, delivered card or raw card, all NVMe disks but used ext4 and opaque ones, power loss anywhere but in the copy, reset on the SD card, only the tmpfs mount fails | what the user owns is visible after every boot, nothing deleted returns, the card rests after the migration, the migration finishes, and the whole implements `HubData` |
| `storage_faults` | two items, every kind of disk, power loss anywhere, every command may fail, reset from both partitions | nothing is destroyed, only empty partitions are formatted (but for a failed probe, and for a disk that cannot be mounted: that one, LUKS or LVM say, the code formats whatever it holds), services run only on a mounted ext4 partition, the marker follows the copy |
| `storage_partialcopy` | two items, power loss while `cp -a` is at work and nowhere else, nothing fails | a place where the code does not do what its documents say (see below) |
| `logs_rotation` | two services, volume 6, five lines, kills and reboots | see LogRotation's properties; five lines fill the volume with a copy at work and drive two rotations of one log |
| `logs_view` | history of two lines, lines of two bytes, six bytes | three lines with a history of two: the ring overflows, a truncation and a regrowth past the old offset fit |
| `redis_live` | two values, four changes, unset, shipped (`KA`) and `EA` settings, failing commands | the page comes to show the key, in both modes; four changes are two more than a reading needs to be torn and mended |
| `terminal` | two sizes, four messages, three units of output, room for two | a session ends only with its page, with its shell and what that left behind, or by a refused message; it ends whenever one of the first two is gone, but for one deadlock; the terminal has the size of the window. Four messages are the first resize, two keys that fill the terminal, and one that blocks the pump |
| `hub_update` | two targets (the UI, remote-icmp), two releases of which one lacks the UI's binary and the other's is too large, the size limit itself is met, two requests, one restart of the UI or power loss | the promise of `HubBinaries`; what is reported is installed; remote-icmp has its capability; no failing download leaves a file. Two requests can replace each other at any step, and a third would meet nothing that two do not |
| `timezone` | the image's zone and one with a longer name, one UI request, one command, the editor, two power losses | a setter that was alone, or a boot, repairs whatever is there. Two losses are enough to lose the power again in the boot that repairs |
| `timezone_default` | the same, no command, no power loss | the image's own zone cannot be set after another one (see below) |
| `config` | two files, one page with two loads on their way, two edits, one restart or power loss | edits survive, texts go to their own file. Other pages act only on the files, as `Elsewhere` does; two loads are the least that come out of order |
| `clock` | four seconds, a session of two, two settings, two ends of the UI or of the power | what is saved is not ahead; cookie and token agree. Two settings go forward and back between a reading and its write |

`terminal` does not check deadlock either: a session is over at some time, or its shell and its
user are silent for ever. `redis_live` does not check deadlock: once the bounded changes are used
up and the page has left, a watcher waits for a notification that does not come, as it does in the
hub.

The power losses, disks and resets left out of `storage_exact` are those for which its properties
fail (see below); `storage_faults` has them all. `hub_update` reduces by the symmetry of requests.

**Fairness.** `WF(EarlyBoot)`: microinit runs early-boot.sh to its end, and each command ends.
`WF(Run)`: cron starts a run every hour and the kernel lets it work. `WF(Handler)`,
`WF(WatchKey)`, `WF(Out)`, `WF(In)`, `WF(Spawn \/ Finish)`: a goroutine with a ticker, an answer
or data waiting is scheduled; a socket whose page is gone is noticed by the reader, if there is
one, since the peer closes it or TCP's keepalives fail. Users, services,
Redis clients, pages and the power are never assumed to do anything. HubUpdate, HubTimezone,
HubConfig and HubClock state no fairness: every step of theirs waits for a network, a user or a
medium, and what is checked is safety.

## What disagrees with the documents

1. `storage_partialcopy`: after a power loss in `cp -a`, the next boot takes the part that was
   copied for a prepared disk and moves `/data` to it; it never copies again. In TLC's trace the
   copy is cut after the first of two entries, and the other one, the user's, is not on the
   partition the boot switches to. The property compares the user's items only.
2. When `mount_data` fails, early-boot.sh:305 says "could not mount /data — continuing with local
   directory" and runs `mkdir -p /data`. It does not continue: the root is read-only, the image's
   `/data` has no `run` directory, and `mkdir -p` at line 333 ends the script under `set -eu`; the
   boot is aborted. The model follows the code (`LayoutFails`), and `RunningMeansMounted`, which
   passes in `storage_faults`, states it against the script's words: on a writable root services
   would run on the local directory, as the log says.
3. `timezone_default`: once another zone is bound, setting the image's zone from the Time tab copies
   the bound file onto itself. The reply is a success, TimePage.tsx:117 says that new processes use
   it immediately, and they keep the old zone until the next boot. `bigfred-set-timezone` fails at
   the same place, after it has written the name.

The models show more, which the properties except by name, or which the instances leave out:

* **Storage.** A factory reset of a migrated hub removes the marker, and the next boot may bring
  back the SD card's data from before the migration (`NoResurrection` is checked for resets on the
  card). On every boot of a migrated hub `prepare-nvme` takes the mounted partition, which cannot be
  mounted a second time, for an empty one, and runs `mkfs.ext4 -F` on it: only mkfs's own check
  prevents the format, where early-boot.sh:310-311 speaks of a no-op. The marker is written before
  the switch; if `/data` is busy then, this boot writes to the card and the next does not look
  there. Files and marker reach the medium with the umount of the copy mount, in any order before
  it: `MarkedAfterCopy` speaks of the page cache, and a power loss between the marker and the umount
  may leave the marker without some of the files. A disk that cannot be mounted is formatted
  whatever it holds (`FormatsOnlyEmpty`).
* **Log rotation.** A run copies before it prunes; on a full tmpfs each run ends in the copy
  (`OversizedRotated` excepts runs that fail).
* **Redis view.** A key deleted or replaced in the middle of a reading ends the live view with an
  error instead of showing it (`LiveCatchesUp` excepts a watch that failed).
* **Terminal.** A session does not end with its shell: `master.Read` (terminal_ws.go:110) blocks as
  long as a process that the shell left behind has the terminal open, and the page shows a session
  that is open until that ends or the page is left (`ExitEndsSession` asks only what follows then).
  A paste over 32 KiB kills the running shell, and a key typed after the terminal was hung up
  may lose its last output (`NotCutShort`); a page that leaves while a key waits for room in the
  terminal of a silent shell leaves the session behind (`Stuck` in `LeavingEndsSession`).
* **Update tab.** If setcap fails the update is reported as failed though it is installed; the next
  start of the service tries again. An empty tag means the newest release, and fails when that has
  no binary for the target, where update.go:182 says "latest non-draft with asset". Temporary files
  of requests that were cut off stay (`TempsOwned` counts them).
* **Configuration.** The answer to a slow load is shown under the file selected since, and may be
  saved there (`OwnText` excepts it as `crossed`). A seed that was cut by a power loss is never
  seeded again. Of two editors the last wins unnoticed. A save keeps the file's mode and not its
  owner, so that redis.conf is root:root until the next boot.
* **Clock.** Setting the clock forward by more than a session lasts logs the operator out. An empty
  fake-hwclock restores nothing, and so does one that a power cut took before it was written back:
  `SavedIsPast` speaks of the page cache. TimePage.tsx:139 and os/README.md:141 speak of ten
  minutes between saves; the crontab says thirty.

## What is proved

Every safety property that a passing run checks is a theorem, for every value of the constants that
satisfies the named assumptions: they say that names differ, that sets are of the right kind and
that sizes are numbers. Only four of the storage theorems assume more (`Calm`, below). The bounds
of the runs are constants too, so that nothing depends on their values.

**`HubStorageProofs`: `TypeCorrect`; `DataSurvives` (`NothingDestroyed`); `RunsOnPartition`
(`RunningMeansMounted`); `MarkerIsLast` (`MarkedAfterCopy`); `FormatsSpareFiles`
(`FormatsOnlyEmpty`).** `NothingDestroyed` is not inductive: a format must be known to hit a
partition without items, and a power loss to have nothing pending that could undo an owned item.
`StorageInv` adds who is mounted where (`MountOrder`), that items live on ext4 only, that what is
about to be formatted holds none (`FormatHarmless`), that page cache and medium differ only on a
mounted partition, that the copy only adds, and that no owned item waits to disappear
(`NoPendingLoss`). Each part has its lemma, with one step per action. `MarkerIsLast` follows from
`CopyOrder`: the copy runs from the SD card, which never carries the marker. `FormatsSpareFiles`
needs only that a format was decided by a mount that found nothing, or by a failed probe
(`FormatsEmpty`).

**Under `Calm`: `OwnedStaysVisible` (`OwnedVisible`); `NothingComesBack` (`NoResurrection`);
`CardRests` (`SdAtRest`); `StoreImplemented` (`ImplementsStore`, the refinement of `HubData`,
action by action).** `Calm` is a condition on the constants: no power loss in the copy, no command
fails but the mounts of the tmpfs, the partitioning and `rm`, resets run from the SD card, and the
NVMe disk is not one with files on an ext4 of its own. It is what the properties need, not what
is convenient: with `mount`, `umount`, `blkid` or `cp` failing, with resets of a migrated hub, with
a disk in use, or with power losses in the copy, TLC violates one of the first two; these are the
cases of "What disagrees with the documents". A failing `mkfs` violates neither and is excluded
because the data may then live on an NVMe partition without a marker, which the refinement mapping
does not follow. `HomeInv` says where the data is at each step: on the card until the copy is
complete and marked, on the NVMe partition from then on (`KeptAtHome`), with the copy equal to the
card (`CopyExact`) and nothing on it that was deleted (`NothingReturns`).

**`LogRotationProofs`: `TypeCorrect`; `RotationKeepsLines` (`OnlyLateLinesLost`);
`RotationCompressesOnce` (`CompressedOnce`); `ArchivesStayInBudget` (`ArchivesFit`).** The first
invariant says that while a log waits to be truncated each of its lines is in the archive or late;
the second that live logs, the archive at work and `.gz` files stay apart except between the copy
and the truncation of one log. `ArchivesStayInBudget` needs that every `.gz` is older than now,
so that the least time from which the archives fit exists, and leaves nothing at worst
(`NewestFits`), and that their blocks are finitely many. `Least`, that a set of numbers has a least
member, comes from the library's well-founded order of the naturals.

**`LogViewProofs`: `TypeCorrect`; `TextsInOrder` (`ShownInOrder`); `PollsCatchUp`
(`PollCatchesUp`, a property of steps).** `ViewInv` relates the page to the offset: nothing is shown
that is not yet written, or that the Tailer is still to read (`ShownBefore`), and what lies before
the Tailer, is still in the file and owed, is shown (`ShownUpToPosition`). After a truncation the
Tailer may stand behind the end; then whatever was shown is gone from the file. The lemmas about
`Lines` (in order, within the stretch, and covering each byte of it) carry both.

**`RedisWatchProofs`: `TypeCorrect`; `PageShowsKey` (`LiveShowsKey`).** A reading is torn if the key
changes between its commands. `ReadingCurrent` says for each command that what has been found so far
is still so while no notification waits and no change is owed; a change puts a notification into
the channel of every watcher that has subscribed, and so voids this until the next reading. The
one event that is taken without a reading is a deletion, which needs that a `del` at the end of
the channel was not followed by another change (`DelIsLast`).

**`TerminalProofs`: `TypeCorrect`; `SessionSafe` (`NotCutShort`); `SizeArrives` (`SizeFollows`).**
The invariant of `SessionSafe` says that once the context is cancelled, or a pump has ended, there
is a reason (the page is gone, a message was refused, or the terminal is hung up and all that was
written to it was shown), and that `pumpPTYToWS` has nothing in hand when it reads. `ReasonStays`
shows that no later step takes a reason back. `SizeOnItsWay`: the last resize in the queue is the
window's size, and the terminal has it if there is none.

**`HubUpdateProofs`: `TypeCorrect`; `ReportsTruth` (`ReportedIsInstalled`); `ServicesCapable`
(`RunsCapable`); `TempsCleared` (`TempsOwned`); `BinariesImplemented` (`ImplementsBinaries`).**
`UpdateInv` says that what is about to be renamed has all of the release's bytes (`AssetChosen`),
and so has what is installed and what is on the medium (`FilesWhole`); that a binary's owner has
installed its release (`OwnerInstalled`); that a download has its temporary file (`HasItsTemp`);
and that between `ensure_cap` and `exec` the binary has the capability or is `late`
(`ReadyCapable`). The refinement shows for each step the step of `HubBinaries` it is: `Lookup` is
`Choose` or nothing, `Rename` is `Install`, and the downloads between them are stutters.

**`HubConfigProofs`: `TypeCorrect`; `SavedTextStays` (`EditsSurvive`); `SavedWhereLoaded`
(`OwnText`).** `EditsSurvive` speaks of files on the disk, and a step can break it only by seeding
over a text or by saving something that is none. `ConfigInv` adds that early boot seeds before
the UI is up and one file at a time (`SeedCut`), that what differs from the loaded text was typed
over one (`Typed`), that what is on its way to a file is such a text (`SavesTyped`), and that a
page which did not cross its requests has every open request at the file it shows (`OneFile`).

**`HubTimeProofs`: `TypeCorrect`; `ZoneSettles` (`Settled`); and for HubClock `ClockTypeCorrect`
(`ClockTypeOK`); `SavedStaysPast` (`SavedIsPast`); `LoginsLast` (`LoginLasts`).** The invariant of
the timezone follows the two files through a setter: nobody works during a boot nor after a
success (`Quiet`), one that is alone is the only one (`Alone`), and the files are as far as it has
come (`Progress`) or as early boot has come (`BootProgress`). That it overwrites an emptied file,
whatever was there, is `OverlayEmpty`. `SavedIsPast` is inductive with the types; `LoginLasts`
needs `Left`: a signed token that the clock did not overtake has as much left as its cookie, and
only a running UI has signed any, so that the jump of the clock at a boot meets none.

Only model-checked: the liveness properties (`MigrationFinishes`, `OversizedRotated`, `Delivered`,
`LiveCatchesUp`, `ExitEndsSession`, `LeavingEndsSession`), whose proofs need `ENABLED` and the
fairness of actions, which are beyond TLAPS here; and the two properties of the violation runs,
which are false.

## What is not modelled

* Several NVMe disks or partitions, a custom `DATA_DIR`, and `e2fsck`, whose result no later
  step looks at.
* `factory-reset` stops redis, if it can; the model's services all go on storing while it works
  (`Write` in `resetLogs` and `wipe`), and none of them deletes then.
* Deeper log directories, several logs per service, overlapping runs, a run's own errors other
  than a full volume.
* Lines longer than the scanner's 1 MiB; the split of a line written in two pieces into two
  lines, which is visible in the texts of `LogView` but not judged.
* `?token=` in the place of the cookie (router.go:191-196), which no page of the UI uses.
* Redis reconnects, dropped notifications, a `notify-keyspace-events` with `K` and only some
  classes (`WatchAssumption`), TTLs that count down.
* A page that stays connected and does not read; more than one terminal session (they share
  nothing).
* GitHub taking a release back; a disk cache that lies about a sync. That ext4 writes the data of a
  file that replaces another before the rename is assumed for saved texts (`Flushed` of HubConfig);
  a file that is new may come back cut or empty.
* Numbers of different lengths that overlap in fake-hwclock; a failing `cp` in early boot, which
  ends it under `set -eu`; zone files that an image update removes.
* The lists (`listTimezones`, `etcdir.List`, logs, keys), which keep no state; owners and modes;
  the refresh of drop-ins; a change of the password, which ends no session; streams that outlive
  their token.
* Service control: each request is forwarded to microinit, another repository.
* The parts marked so in `PROJECT.json`.

## Plan

1. The safety core of the liveness properties: for each, the variant that its runs count down,
   proved as an action property (no step of the handler, the pumps or the run but brings it closer).
2. A refinement mapping for `HubData` that follows the data onto an NVMe partition without a marker,
   so that `Calm` can allow a failing `mkfs`.
3. The `dependsOn` graph of the services as data, once microinit's rules are in the repository.
