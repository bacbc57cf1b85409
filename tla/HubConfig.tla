------------------------------ MODULE HubConfig -----------------------------
(***************************************************************************)
(* The configuration files under /data/etc: early boot seeds those that    *)
(* are missing from the image, and the Config tab loads, edits and saves   *)
(* them.  A page may have several requests on their way, whose answers     *)
(* come in any order; a save replaces the file by a rename; other pages    *)
(* and ssh save too; the UI may end and the power may go at any time.      *)
(***************************************************************************)
EXTENDS Integers

CONSTANTS
    Files,          \* those that early boot seeds
    Pages,          \* Config tabs that are open
    Slots,          \* loads that a page may have on their way
    MaxEdits,       \* bound: texts that are typed
    MaxKills,       \* bound: ends of the UI, and power losses
    Missing,        \* no such file
    Cut,            \* a file whose text is not complete
    Blank,          \* what a page shows when it could not load
    Asked,          \* no answer yet
    None

ASSUME ConfigAssumption ==
    /\ MaxEdits \in Nat /\ MaxKills \in Nat
    /\ None \notin Files
    /\ {Missing, Cut, Blank, Asked, None} \cap Nat = {}

VARIABLES
    disk,       \* the texts of the files: 0 is the image's, the others are typed
    durable,    \* ... on the medium
    seeding,    \* the file that early boot is copying
    up,         \* early boot is over
    page,       \* the Config tabs
    load,       \* their loads: what is asked for, and the answer
    save,       \* their saves
    edits,      \* texts typed so far
    kept,       \* history: a text that must stay in a file, or None
    crossed,    \* history: the page went to another file with a request on its way
    kills

server == <<disk, durable, seeding, up>>
vars == <<server, page, load, save, edits, kept, crossed, kills>>

Texts == 0..MaxEdits

NoLoad == [file |-> None, answer |-> Asked]
NoShown == [of |-> None, text |-> Blank]
NoSave == [pc |-> "idle", file |-> None, what |-> NoShown, crossed |-> FALSE]

(* a text that a page shows, and the file it was loaded from *)
Shown == [of : Files, text : Texts \cup {Cut, Blank}] \cup {NoShown}

Page == [sel : Files \cup {None}, now : Shown, saved : Shown, loading : BOOLEAN]

Load == [file : Files, answer : Texts \cup {Cut, Blank, Asked}] \cup {NoLoad}

Save == [pc : {"sent", "renamed"}, file : Files, what : Shown, crossed : BOOLEAN] \cup {NoSave}

TypeOK ==
    /\ disk \in [Files -> Texts \cup {Missing, Cut}]
    /\ durable \in [Files -> Texts \cup {Missing, Cut}]
    /\ seeding \in Files \cup {None} /\ up \in BOOLEAN
    /\ page \in [Pages -> Page]
    /\ load \in [Pages -> [Slots -> Load]]
    /\ save \in [Pages -> Save]
    /\ edits \in 0..MaxEdits
    /\ kept \in [Files -> Texts \cup {None}]
    /\ crossed \in [Pages -> BOOLEAN]
    /\ kills \in 0..MaxKills

-----------------------------------------------------------------------------
(* seed: only what is not there *)
Seeded_Always(f) == disk[f] # Cut
Seeded(f) == disk[f] = Missing

(* etcdir.Read, or its error *)
Read(f) == IF disk[f] = Missing THEN Blank ELSE disk[f]

(* the journal: the data of a new file may follow later than the file *)
Flushed(d, c) == IF d \in {Missing, Cut} /\ c # Missing THEN {c, Cut} ELSE {c}

Saving(p) == save[p].pc # "idle"
Loads(p) == {s \in Slots : load[p][s].file # None}

Dirty(p) == page[p].now # page[p].saved

(* the text area and its Save button *)
CanType_Unselected(p) == ~page[p].loading /\ ~Saving(p)
CanType(p) == page[p].sel # None /\ ~page[p].loading /\ ~Saving(p)

CanSave_WhileLoading(p) == page[p].sel # None /\ Dirty(p) /\ ~Saving(p)
CanSave(p) == page[p].sel # None /\ Dirty(p) /\ ~page[p].loading /\ ~Saving(p)

Show(p, s) == page' = [page EXCEPT ![p].now = s, ![p].saved = s, ![p].loading = FALSE]

Store(f, t) == disk' = [disk EXCEPT ![f] = t] /\ kept' = [kept EXCEPT ![f] = t]

-----------------------------------------------------------------------------
Init ==
    /\ disk = [f \in Files |-> Missing]
    /\ durable = disk
    /\ seeding = None /\ up = FALSE
    /\ page = [p \in Pages |-> [sel |-> None, now |-> NoShown, saved |-> NoShown, loading |-> FALSE]]
    /\ load = [p \in Pages |-> [s \in Slots |-> NoLoad]]
    /\ save = [p \in Pages |-> NoSave]
    /\ edits = 0
    /\ kept = [f \in Files |-> None]
    /\ crossed = [p \in Pages |-> FALSE]
    /\ kills = 0

(* early-boot.sh *)
SeedOpen ==
    /\ ~up /\ seeding = None
    /\ \E f \in Files :
        /\ Seeded(f)
        /\ seeding' = f
        /\ disk' = [disk EXCEPT ![f] = Cut]
    /\ UNCHANGED <<durable, up, page, load, save, edits, kept, crossed, kills>>

SeedWrite ==
    /\ seeding # None
    /\ disk' = [disk EXCEPT ![seeding] = 0]
    /\ seeding' = None
    /\ UNCHANGED <<durable, up, page, load, save, edits, kept, crossed, kills>>

BootEnds ==
    /\ ~up /\ seeding = None
    /\ \A f \in Files : disk[f] # Missing
    /\ up' = TRUE
    /\ UNCHANGED <<disk, durable, seeding, page, load, save, edits, kept, crossed, kills>>

Writeback(f) ==
    /\ \E c \in Flushed(durable[f], disk[f]) :
        /\ durable' = [durable EXCEPT ![f] = c]
        /\ kept' = [kept EXCEPT ![f] = IF @ = None /\ c \in Texts THEN c ELSE @]
    /\ UNCHANGED <<disk, seeding, up, page, load, save, edits, crossed, kills>>

-----------------------------------------------------------------------------
(* ConfigPage.tsx.  A page stays open when the UI ends; its requests fail. *)

(* unsaved changes are discarded with the user's consent *)
Ask(p, f) ==
    \E s \in Slots \ Loads(p) :
        load' = [load EXCEPT ![p][s] = [file |-> f, answer |-> Asked]]

Select(p, f) ==
    /\ f # page[p].sel
    /\ Ask(p, f)
    /\ page' = [page EXCEPT ![p].sel = f, ![p].loading = TRUE]
    /\ crossed' = [crossed EXCEPT ![p] = Loads(p) # {} \/ Saving(p)]
    /\ UNCHANGED <<server, save, edits, kept, kills>>

Reload(p) ==
    /\ page[p].sel # None /\ ~page[p].loading /\ ~Saving(p)
    /\ Ask(p, page[p].sel)
    /\ page' = [page EXCEPT ![p].loading = TRUE]
    /\ UNCHANGED <<server, save, edits, kept, crossed, kills>>

Serve(p, s) ==
    /\ up
    /\ load[p][s].file # None /\ load[p][s].answer = Asked
    /\ load' = [load EXCEPT ![p][s].answer = Read(load[p][s].file)]
    /\ UNCHANGED <<server, page, save, edits, kept, crossed, kills>>

(* loadFile: the answer, or an error, goes to the page whatever file it shows *)
Loaded(p, s) ==
    LET l == load[p][s] IN
    /\ l.file # None
    /\ Show(p, [of |-> l.file, text |-> IF l.answer = Asked THEN Blank ELSE l.answer])
    /\ load' = [load EXCEPT ![p][s] = NoLoad]
    /\ UNCHANGED <<server, save, edits, kept, crossed, kills>>

Type(p) ==
    /\ CanType(p)
    /\ edits < MaxEdits /\ edits' = edits + 1
    /\ page' = [page EXCEPT ![p].now.text = edits + 1]
    /\ UNCHANGED <<server, load, save, kept, crossed, kills>>

SaveClick(p) ==
    /\ CanSave(p)
    /\ save' = [save EXCEPT ![p] = [pc |-> "sent", file |-> page[p].sel,
                                    what |-> page[p].now, crossed |-> crossed[p]]]
    /\ UNCHANGED <<server, page, load, edits, kept, crossed, kills>>

(* etcdir.Write, up to the rename *)
Rename(p) ==
    /\ up /\ save[p].pc = "sent"
    /\ Store(save[p].file, save[p].what.text)
    /\ save' = [save EXCEPT ![p].pc = "renamed"]
    /\ UNCHANGED <<durable, seeding, up, page, load, edits, crossed, kills>>

(* ... and what it reads back *)
Saved(p) ==
    /\ up /\ save[p].pc = "renamed"
    /\ Show(p, [of |-> save[p].file, text |-> Read(save[p].file)])
    /\ save' = [save EXCEPT ![p] = NoSave]
    /\ UNCHANGED <<server, load, edits, kept, crossed, kills>>

SaveFails(p) ==
    /\ Saving(p)
    /\ save' = [save EXCEPT ![p] = NoSave]
    /\ UNCHANGED <<server, page, load, edits, kept, crossed, kills>>

(* another page or ssh replaces a file *)
Elsewhere(f) ==
    /\ up
    /\ edits < MaxEdits /\ edits' = edits + 1
    /\ Store(f, edits + 1)
    /\ UNCHANGED <<durable, seeding, up, page, load, save, crossed, kills>>

-----------------------------------------------------------------------------
(* the server's part of the requests that are on their way is over *)
CutOff ==
    /\ load' = [p \in Pages |-> [s \in Slots |->
         IF load[p][s].file # None /\ load[p][s].answer = Asked
           THEN [load[p][s] EXCEPT !.answer = Blank] ELSE load[p][s]]]
    /\ save' = [p \in Pages |-> NoSave]
    /\ kills < MaxKills /\ kills' = kills + 1

UIEnds ==
    /\ up
    /\ CutOff
    /\ UNCHANGED <<server, page, edits, kept, crossed>>

PowerLoss ==
    /\ CutOff
    /\ disk' = durable
    /\ seeding' = None /\ up' = FALSE
    /\ kept' = [f \in Files |-> IF durable[f] \in Texts THEN durable[f] ELSE None]
    /\ UNCHANGED <<durable, page, edits, crossed>>

-----------------------------------------------------------------------------
Boot == SeedOpen \/ SeedWrite \/ BootEnds

Tab(p) ==
    \/ \E f \in Files : Select(p, f)
    \/ Reload(p) \/ Type(p) \/ SaveClick(p) \/ Saved(p) \/ SaveFails(p)
    \/ \E s \in Slots : Loaded(p, s)

Next ==
    \/ Boot \/ UIEnds \/ PowerLoss
    \/ \E p \in Pages : Tab(p) \/ Rename(p) \/ \E s \in Slots : Serve(p, s)
    \/ \E f \in Files : Writeback(f) \/ Elsewhere(f)

Spec == Init /\ [][Next]_vars

-----------------------------------------------------------------------------
(* Properties.                                                             *)

(***************************************************************************)
(* What was saved stays until it is replaced: no boot writes over it, no   *)
(* later one finds it cut, and a power loss goes back at most to the text  *)
(* that was on the medium.  A file keeps what it was seeded with as soon   *)
(* as that is on the medium.                                               *)
(***************************************************************************)
EditsSurvive == \A f \in Files : kept[f] # None => disk[f] = kept[f]

(***************************************************************************)
(* A page saves a text into the file it was loaded from, unless the user   *)
(* went on to that file while an answer for another was on its way: the    *)
(* late answer is then shown under the wrong name, and saved there.        *)
(***************************************************************************)
OwnText ==
    \A p \in Pages : Saving(p) /\ ~save[p].crossed => save[p].what.of = save[p].file

=============================================================================
