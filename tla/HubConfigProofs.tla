-------------------------- MODULE HubConfigProofs ---------------------------
(***************************************************************************)
(* What is saved in the Config tab survives, and goes to the file it came  *)
(* from, for any files, pages, requests, edits and losses of power.        *)
(***************************************************************************)
EXTENDS HubConfig, TLAPS

(***************************************************************************)
(* The types of the parts that the proofs go through one by one.           *)
(***************************************************************************)
DiskType ==
    /\ disk \in [Files -> Texts \cup {Missing, Cut}]
    /\ durable \in [Files -> Texts \cup {Missing, Cut}]
    /\ kept \in [Files -> Texts \cup {None}]
    /\ seeding \in Files \cup {None} /\ up \in BOOLEAN

PageType == page \in [Pages -> Page]
LoadType == load \in [Pages -> [Slots -> Load]]
SaveType == save \in [Pages -> Save]

CountType ==
    /\ edits \in 0..MaxEdits /\ kills \in 0..MaxKills
    /\ crossed \in [Pages -> BOOLEAN]

\* only early boot seeds, one file at a time
SeedCut == seeding # None => ~up /\ disk[seeding] = Cut

\* what differs from the text that was loaded was typed over a file's text
Typed ==
    \A p \in Pages :
        /\ page[p].sel # None /\ ~page[p].loading => page[p].now.of # None
        /\ Dirty(p) => page[p].now.text \in Texts

\* what is on its way to a file is a text that was typed
SavesTyped == \A p \in Pages : Saving(p) => save[p].what.of \in Files /\ save[p].what.text \in Texts

\* a page that did not cross its requests waits only for the file it shows
OneFile ==
    \A p \in Pages : ~crossed[p] =>
        /\ page[p].sel # None /\ ~page[p].loading => page[p].now.of = page[p].sel
        /\ \A s \in Slots : load[p][s].file \in {None, page[p].sel}
        /\ Saving(p) => save[p].file = page[p].sel

ConfigInv ==
    /\ DiskType /\ PageType /\ LoadType /\ SaveType /\ CountType
    /\ SeedCut /\ Typed /\ SavesTyped /\ OneFile /\ EditsSurvive /\ OwnText

(***************************************************************************)
(* Every step is one of these, which the proofs go through.                *)
(***************************************************************************)
ServerStep ==
    \/ SeedOpen \/ SeedWrite \/ BootEnds \/ UIEnds \/ PowerLoss
    \/ \E f \in Files : Writeback(f) \/ Elsewhere(f)

PageStep(p) ==
    \/ \E f \in Files : Select(p, f)
    \/ Reload(p) \/ Type(p) \/ SaveClick(p) \/ Rename(p) \/ Saved(p) \/ SaveFails(p)
    \/ \E s \in Slots : Serve(p, s) \/ Loaded(p, s)

LEMMA Steps == Next => ServerStep \/ \E p \in Pages : PageStep(p)
  BY DEF Next, Boot, Tab, ServerStep, PageStep

(* The special values are no texts.                                        *)
LEMMA Specials ==
    /\ Texts \subseteq Nat /\ 0 \in Texts
    /\ Missing \notin Texts /\ Cut \notin Texts /\ Blank \notin Texts
    /\ Asked \notin Texts /\ None \notin Texts /\ None \notin Files
  BY ConfigAssumption DEF Texts

(* What a page is given to show has the type of what it shows.             *)
LEMMA ReadType ==
  ASSUME DiskType, NEW f \in Files
  PROVE  Read(f) \in Texts \cup {Cut, Blank}
  BY DEF DiskType, Read

LEMMA ShowType ==
  ASSUME PageType, NEW p \in Pages, NEW s \in Shown, Show(p, s)
  PROVE  /\ PageType'
         /\ page'[p] = [sel |-> page[p].sel, now |-> s, saved |-> s, loading |-> FALSE]
         /\ \A q \in Pages : q # p => page'[q] = page[q]
<1>1. page[p] \in Page
  BY DEF PageType
<1>2. page'[p] = [sel |-> page[p].sel, now |-> s, saved |-> s, loading |-> FALSE]
  BY <1>1 DEF PageType, Page, Show
<1>3. page'[p] \in Page
  BY <1>1, <1>2 DEF Page
<1>4. /\ \A q \in Pages : q # p => page'[q] = page[q]
      /\ page' \in [Pages -> Page]
  BY <1>3 DEF PageType, Show
<1> QED
  BY <1>2, <1>4 DEF PageType

-----------------------------------------------------------------------------
(* Each part of the invariant, over one step.                              *)

LEMMA DiskTypeStep ==
  ASSUME DiskType, SavesTyped, CountType, Next
  PROVE  DiskType'
<1> USE Specials
<1>1. CASE ServerStep
  <2> USE DEF DiskType
  <2>1. CASE SeedOpen
    BY <2>1 DEF SeedOpen
  <2>2. CASE SeedWrite
    BY <2>2 DEF SeedWrite
  <2>3. CASE BootEnds
    BY <2>3 DEF BootEnds
  <2>4. CASE UIEnds
    BY <2>4 DEF UIEnds, server
  <2>5. CASE PowerLoss
    BY <2>5 DEF PowerLoss
  <2>6. ASSUME NEW f \in Files, Writeback(f) PROVE DiskType'
    BY <2>6 DEF Writeback, Flushed
  <2>7. ASSUME NEW f \in Files, Elsewhere(f) PROVE DiskType'
    <3>1. edits + 1 \in Texts
      BY <2>7, ConfigAssumption DEF Elsewhere, CountType, Texts
    <3> QED
      BY <2>7, <3>1 DEF Elsewhere, Store
  <2> QED
    BY <1>1, <2>1, <2>2, <2>3, <2>4, <2>5, <2>6, <2>7 DEF ServerStep
<1>2. ASSUME NEW p \in Pages, PageStep(p) PROVE DiskType'
  <2>1. CASE Rename(p)
    <3>1. save[p].what.text \in Texts
      BY <2>1 DEF Rename, SavesTyped, Saving
    <3> QED
      BY <2>1, <3>1 DEF Rename, Store, DiskType
  <2>2. CASE ~Rename(p)
    <3>1. UNCHANGED <<server, kept>>
      BY <1>2, <2>2 DEF PageStep, Select, Reload, Type, SaveClick, Saved, SaveFails, Serve, Loaded
    <3> QED
      BY <3>1 DEF server, DiskType
  <2> QED
    BY <2>1, <2>2
<1> QED
  BY <1>1, <1>2, Steps

LEMMA PageTypeStep ==
  ASSUME DiskType, PageType, LoadType, SaveType, CountType, Typed, Next
  PROVE  PageType'
<1>1. CASE ServerStep
  <2>1. UNCHANGED page
    BY <1>1 DEF ServerStep, SeedOpen, SeedWrite, BootEnds, UIEnds, PowerLoss, Writeback, Elsewhere
  <2> QED
    BY <2>1 DEF PageType
<1>2. ASSUME NEW p \in Pages, PageStep(p) PROVE PageType'
  <2>0. page[p] \in Page
    BY DEF PageType
  <2>1. ASSUME NEW f \in Files, Select(p, f) PROVE PageType'
    BY <2>0, <2>1 DEF Select, PageType, Page
  <2>2. CASE Reload(p)
    BY <2>0, <2>2 DEF Reload, PageType, Page
  <2>3. CASE Type(p)
    <3>1. edits + 1 \in Texts
      BY <2>3, ConfigAssumption DEF Type, CountType, Texts
    <3>2. page[p].now \in [of : Files, text : Texts \cup {Cut, Blank}]
      BY <2>0, <2>3 DEF Type, CanType, Typed, Page, Shown, NoShown
    <3>3. [page[p].now EXCEPT !.text = edits + 1] \in Shown
      BY <3>1, <3>2 DEF Shown
    <3>4. page' = [page EXCEPT ![p] = [@ EXCEPT !.now = [page[p].now EXCEPT !.text = edits + 1]]]
      BY <2>3 DEF Type
    <3>5. [page[p] EXCEPT !.now = [page[p].now EXCEPT !.text = edits + 1]] \in Page
      BY <2>0, <3>3 DEF Page
    <3> QED
      BY <3>4, <3>5 DEF PageType
  <2>4. ASSUME NEW s \in Slots, Loaded(p, s) PROVE PageType'
    <3>1. load[p][s] \in [file : Files, answer : Texts \cup {Cut, Blank, Asked}]
      BY <2>4 DEF Loaded, LoadType, Load, NoLoad
    <3>2. [of |-> load[p][s].file,
           text |-> IF load[p][s].answer = Asked THEN Blank ELSE load[p][s].answer] \in Shown
      BY <3>1 DEF Shown
    <3> QED
      BY <2>4, <3>2, ShowType DEF Loaded
  <2>5. CASE Saved(p)
    <3>1. save[p].file \in Files
      BY <2>5 DEF Saved, SaveType, Save, NoSave
    <3>2. [of |-> save[p].file, text |-> Read(save[p].file)] \in Shown
      BY <3>1, ReadType DEF Shown
    <3> QED
      BY <2>5, <3>2, ShowType DEF Saved
  <2>6. CASE SaveClick(p) \/ Rename(p) \/ SaveFails(p) \/ \E s \in Slots : Serve(p, s)
    BY <2>6 DEF SaveClick, Rename, SaveFails, Serve, PageType
  <2> QED
    BY <1>2, <2>1, <2>2, <2>3, <2>4, <2>5, <2>6 DEF PageStep
<1> QED
  BY <1>1, <1>2, Steps

LEMMA LoadTypeStep ==
  ASSUME DiskType, PageType, LoadType, Next
  PROVE  LoadType'
<1>1. CASE ServerStep
  <2>1. ASSUME CutOff PROVE LoadType'
    <3>1. \A p \in Pages, s \in Slots :
            (IF load[p][s].file # None /\ load[p][s].answer = Asked
               THEN [load[p][s] EXCEPT !.answer = Blank] ELSE load[p][s]) \in Load
      BY DEF LoadType, Load, NoLoad
    <3> QED
      BY <2>1, <3>1 DEF CutOff, LoadType
  <2>2. CASE UNCHANGED load
    BY <2>2 DEF LoadType
  <2> QED
    BY <1>1, <2>1, <2>2 DEF ServerStep, SeedOpen, SeedWrite, BootEnds, UIEnds, PowerLoss,
                            Writeback, Elsewhere
<1>2. ASSUME NEW p \in Pages, PageStep(p) PROVE LoadType'
  <2>1. ASSUME NEW f \in Files, NEW s \in Slots,
               load' = [load EXCEPT ![p][s] = [file |-> f, answer |-> Asked]]
        PROVE  LoadType'
    <3>1. [file |-> f, answer |-> Asked] \in Load
      BY DEF Load
    <3> QED
      BY <2>1, <3>1 DEF LoadType
  <2>2. ASSUME NEW f \in Files, Select(p, f) PROVE LoadType'
    BY <2>1, <2>2 DEF Select, Ask
  <2>3. CASE Reload(p)
    <3>1. PICK s \in Slots \ Loads(p) :
                 load' = [load EXCEPT ![p][s] = [file |-> page[p].sel, answer |-> Asked]]
      BY <2>3 DEF Reload, Ask
    <3>2. page[p].sel \in Files
      BY <2>3 DEF Reload, PageType, Page
    <3> QED
      BY <2>1, <3>1, <3>2
  <2>4. ASSUME NEW s \in Slots, Serve(p, s) PROVE LoadType'
    <3>1. load[p][s].file \in Files /\ load[p][s] \in Load
      BY <2>4 DEF Serve, LoadType, Load, NoLoad
    <3>2. [load[p][s] EXCEPT !.answer = Read(load[p][s].file)] \in Load
      BY <3>1, ReadType DEF Load, NoLoad
    <3>3. load' = [load EXCEPT ![p] = [load[p] EXCEPT ![s] =
                     [load[p][s] EXCEPT !.answer = Read(load[p][s].file)]]]
      BY <2>4 DEF Serve
    <3> QED
      BY <3>2, <3>3 DEF LoadType
  <2>5. ASSUME NEW s \in Slots, Loaded(p, s) PROVE LoadType'
    <3>1. NoLoad \in Load
      BY DEF Load
    <3> QED
      BY <2>5, <3>1 DEF Loaded, LoadType
  <2>6. CASE Type(p) \/ SaveClick(p) \/ Rename(p) \/ Saved(p) \/ SaveFails(p)
    BY <2>6 DEF Type, SaveClick, Rename, Saved, SaveFails, LoadType
  <2> QED
    BY <1>2, <2>2, <2>3, <2>4, <2>5, <2>6 DEF PageStep
<1> QED
  BY <1>1, <1>2, Steps

LEMMA SaveTypeStep ==
  ASSUME PageType, SaveType, CountType, Next
  PROVE  SaveType'
<1>0. NoSave \in Save
  BY DEF Save
<1>1. CASE ServerStep
  BY <1>0, <1>1 DEF ServerStep, SeedOpen, SeedWrite, BootEnds, UIEnds, PowerLoss, CutOff,
                    Writeback, Elsewhere, SaveType
<1>2. ASSUME NEW p \in Pages, PageStep(p) PROVE SaveType'
  <2>1. CASE SaveClick(p)
    <3>1. page[p].sel \in Files /\ page[p].now \in Shown /\ crossed[p] \in BOOLEAN
      BY <2>1 DEF SaveClick, CanSave, PageType, Page, CountType
    <3>2. [pc |-> "sent", file |-> page[p].sel, what |-> page[p].now,
           crossed |-> crossed[p]] \in Save
      BY <3>1 DEF Save
    <3> QED
      BY <2>1, <3>2 DEF SaveClick, SaveType
  <2>2. CASE Rename(p)
    <3>1. save[p] \in [pc : {"sent", "renamed"}, file : Files, what : Shown, crossed : BOOLEAN]
      BY <2>2 DEF Rename, SaveType, Save, NoSave
    <3>2. [save[p] EXCEPT !.pc = "renamed"] \in Save
      BY <3>1 DEF Save
    <3>3. save' = [save EXCEPT ![p] = [save[p] EXCEPT !.pc = "renamed"]]
      BY <2>2 DEF Rename
    <3> QED
      BY <3>2, <3>3 DEF SaveType
  <2>3. CASE Saved(p) \/ SaveFails(p)
    BY <1>0, <2>3 DEF Saved, SaveFails, SaveType
  <2>4. CASE UNCHANGED save
    BY <2>4 DEF SaveType
  <2> QED
    BY <1>2, <2>1, <2>2, <2>3, <2>4 DEF PageStep, Select, Reload, Type, Serve, Loaded
<1> QED
  BY <1>1, <1>2, Steps

LEMMA CountTypeStep ==
  ASSUME CountType, LoadType, Next
  PROVE  CountType'
<1> USE ConfigAssumption DEF CountType
<1>1. CASE ServerStep
  BY <1>1 DEF ServerStep, SeedOpen, SeedWrite, BootEnds, UIEnds, PowerLoss, CutOff,
              Writeback, Elsewhere
<1>2. ASSUME NEW p \in Pages, PageStep(p) PROVE CountType'
  <2>1. ASSUME NEW f \in Files, Select(p, f) PROVE CountType'
    <3>1. (Loads(p) # {} \/ Saving(p)) \in BOOLEAN
      OBVIOUS
    <3>2. crossed' \in [Pages -> BOOLEAN]
      BY <2>1, <3>1 DEF Select
    <3> QED
      BY <2>1, <3>2 DEF Select
  <2>2. CASE Type(p)
    BY <2>2 DEF Type
  <2>3. CASE UNCHANGED <<edits, kills, crossed>>
    BY <2>3
  <2> QED
    BY <1>2, <2>1, <2>2, <2>3
       DEF PageStep, Reload, SaveClick, Rename, Saved, SaveFails, Serve, Loaded
<1> QED
  BY <1>1, <1>2, Steps

LEMMA SeedCutStep ==
  ASSUME DiskType, SeedCut, Next
  PROVE  SeedCut'
<1> USE Specials
<1>1. CASE ServerStep
  <2>1. CASE SeedOpen
    BY <2>1 DEF SeedOpen, SeedCut, DiskType
  <2>2. CASE SeedWrite \/ BootEnds \/ UIEnds \/ PowerLoss
    BY <2>2 DEF SeedWrite, BootEnds, UIEnds, PowerLoss, SeedCut, server
  <2>3. ASSUME NEW f \in Files, Writeback(f) \/ Elsewhere(f) PROVE SeedCut'
    BY <2>3 DEF Writeback, Elsewhere, SeedCut
  <2> QED
    BY <1>1, <2>1, <2>2, <2>3 DEF ServerStep
<1>2. ASSUME NEW p \in Pages, PageStep(p) PROVE SeedCut'
  <2>1. CASE Rename(p)
    BY <2>1 DEF Rename, SeedCut
  <2>2. CASE ~Rename(p)
    <3>1. UNCHANGED server
      BY <1>2, <2>2 DEF PageStep, Select, Reload, Type, SaveClick, Saved, SaveFails, Serve, Loaded
    <3> QED
      BY <3>1 DEF server, SeedCut
  <2> QED
    BY <2>1, <2>2
<1> QED
  BY <1>1, <1>2, Steps

(* Only a click saves what a page shows, and it does so with what is typed. *)
LEMMA TypedStep ==
  ASSUME DiskType, PageType, LoadType, SaveType, CountType, Typed, Next
  PROVE  Typed'
<1> USE Specials
<1>1. CASE ServerStep
  <2>1. UNCHANGED page
    BY <1>1 DEF ServerStep, SeedOpen, SeedWrite, BootEnds, UIEnds, PowerLoss, Writeback, Elsewhere
  <2> QED
    BY <2>1 DEF Typed, Dirty
<1>2. ASSUME NEW p \in Pages, PageStep(p) PROVE Typed'
  <2>0. page[p] \in Page
    BY DEF PageType
  <2>1. ASSUME NEW t \in Shown, t.of # None, Show(p, t) PROVE Typed'
    <3>1. page'[p] = [sel |-> page[p].sel, now |-> t, saved |-> t, loading |-> FALSE]
      BY <2>1, ShowType
    <3>2. \A q \in Pages : q # p => page'[q] = page[q]
      BY <2>1, ShowType
    <3> QED
      BY <2>1, <3>1, <3>2 DEF Typed, Dirty
  <2>2. ASSUME NEW s \in Slots, Loaded(p, s) PROVE Typed'
    <3>1. load[p][s] \in [file : Files, answer : Texts \cup {Cut, Blank, Asked}]
      BY <2>2 DEF Loaded, LoadType, Load, NoLoad
    <3>2. [of |-> load[p][s].file,
           text |-> IF load[p][s].answer = Asked THEN Blank ELSE load[p][s].answer] \in Shown
      BY <3>1 DEF Shown
    <3> QED
      BY <2>1, <2>2, <3>1, <3>2 DEF Loaded
  <2>3. CASE Saved(p)
    <3>1. save[p].file \in Files
      BY <2>3 DEF Saved, SaveType, Save, NoSave
    <3>2. [of |-> save[p].file, text |-> Read(save[p].file)] \in Shown
      BY <3>1, ReadType DEF Shown
    <3> QED
      BY <2>1, <2>3, <3>1, <3>2 DEF Saved
  <2>4. ASSUME NEW f \in Files, Select(p, f) PROVE Typed'
    BY <2>0, <2>4 DEF Select, Typed, Dirty, PageType, Page
  <2>5. CASE Reload(p)
    BY <2>0, <2>5 DEF Reload, Typed, Dirty, PageType, Page
  <2>6. CASE Type(p)
    <3>1. edits + 1 \in Texts
      BY <2>6, ConfigAssumption DEF Type, CountType, Texts
    <3>2. page[p].now \in [of : Files, text : Texts \cup {Cut, Blank}]
      BY <2>0, <2>6 DEF Type, CanType, Typed, Page, Shown, NoShown
    <3>3. page'[p].now = [page[p].now EXCEPT !.text = edits + 1]
      BY <2>0, <2>6 DEF Type, PageType, Page
    <3>4. page'[p].now.text = edits + 1 /\ page'[p].now.of # None
      BY <3>2, <3>3
    <3>5. \A q \in Pages : q # p => page'[q] = page[q]
      BY <2>6 DEF Type, PageType
    <3> QED
      BY <3>1, <3>4, <3>5 DEF Typed, Dirty
  <2>7. CASE UNCHANGED page
    BY <2>7 DEF Typed, Dirty
  <2> QED
    BY <1>2, <2>2, <2>3, <2>4, <2>5, <2>6, <2>7 DEF PageStep, SaveClick, Rename, SaveFails, Serve
<1> QED
  BY <1>1, <1>2, Steps

LEMMA SavesTypedStep ==
  ASSUME PageType, SaveType, Typed, SavesTyped, Next
  PROVE  SavesTyped'
<1> USE Specials
<1>1. CASE ServerStep
  <2>1. ASSUME CutOff PROVE SavesTyped'
    BY <2>1 DEF CutOff, SavesTyped, Saving, NoSave
  <2>2. CASE UNCHANGED save
    BY <2>2 DEF SavesTyped, Saving
  <2> QED
    BY <1>1, <2>1, <2>2 DEF ServerStep, SeedOpen, SeedWrite, BootEnds, UIEnds, PowerLoss,
                            Writeback, Elsewhere
<1>2. ASSUME NEW p \in Pages, PageStep(p) PROVE SavesTyped'
  <2>1. CASE SaveClick(p)
    <3>1. page[p].now.text \in Texts /\ page[p].now.of # None /\ page[p].now \in Shown
      BY <2>1 DEF SaveClick, CanSave, Typed, PageType, Page
    <3>2. page[p].now.of \in Files
      BY <3>1 DEF Shown, NoShown
    <3>3. save'[p].what = page[p].now
      BY <2>1 DEF SaveClick, SaveType
    <3>4. \A q \in Pages : q # p => save'[q] = save[q]
      BY <2>1 DEF SaveClick, SaveType
    <3> QED
      BY <3>1, <3>2, <3>3, <3>4 DEF SavesTyped, Saving
  <2>2. CASE Rename(p)
    <3>1. save[p] \in Save
      BY DEF SaveType
    <3>2. save'[p].what = save[p].what /\ Saving(p)
      BY <2>2, <3>1 DEF Rename, SaveType, Save, NoSave, Saving
    <3>3. \A q \in Pages : q # p => save'[q] = save[q]
      BY <2>2 DEF Rename, SaveType
    <3> QED
      BY <3>2, <3>3 DEF SavesTyped, Saving
  <2>3. CASE Saved(p) \/ SaveFails(p)
    BY <2>3 DEF Saved, SaveFails, SaveType, SavesTyped, Saving, NoSave
  <2>4. CASE UNCHANGED save
    BY <2>4 DEF SavesTyped, Saving
  <2> QED
    BY <1>2, <2>1, <2>2, <2>3, <2>4 DEF PageStep, Select, Reload, Type, Serve, Loaded
<1> QED
  BY <1>1, <1>2, Steps

(* A boot seeds only what is missing, and a loss of power goes back to     *)
(* what was on the medium.                                                 *)
LEMMA EditsSurviveStep ==
  ASSUME DiskType, SeedCut, SavesTyped, EditsSurvive, Next
  PROVE  EditsSurvive'
<1> USE Specials DEF EditsSurvive, DiskType
<1>1. CASE ServerStep
  <2>1. CASE SeedOpen
    BY <2>1 DEF SeedOpen, Seeded
  <2>2. CASE SeedWrite
    <3>1. kept[seeding] = None
      BY <2>2 DEF SeedWrite, SeedCut
    <3> QED
      BY <2>2, <3>1 DEF SeedWrite
  <2>3. CASE BootEnds \/ UIEnds
    BY <2>3 DEF BootEnds, UIEnds, server
  <2>4. CASE PowerLoss
    BY <2>4 DEF PowerLoss
  <2>5. ASSUME NEW f \in Files, Writeback(f) PROVE EditsSurvive'
    BY <2>5 DEF Writeback, Flushed
  <2>6. ASSUME NEW f \in Files, Elsewhere(f) PROVE EditsSurvive'
    BY <2>6 DEF Elsewhere, Store
  <2> QED
    BY <1>1, <2>1, <2>2, <2>3, <2>4, <2>5, <2>6 DEF ServerStep
<1>2. ASSUME NEW p \in Pages, PageStep(p) PROVE EditsSurvive'
  <2>1. CASE Rename(p)
    BY <2>1 DEF Rename, Store
  <2>2. CASE ~Rename(p)
    <3>1. UNCHANGED <<server, kept>>
      BY <1>2, <2>2 DEF PageStep, Select, Reload, Type, SaveClick, Saved, SaveFails, Serve, Loaded
    <3> QED
      BY <3>1 DEF server
  <2> QED
    BY <2>1, <2>2
<1> QED
  BY <1>1, <1>2, Steps

(* One page's requests do not concern the others.                          *)
LEMMA OthersStay ==
  ASSUME PageType, LoadType, SaveType, CountType, NEW p \in Pages, PageStep(p),
         NEW q \in Pages, q # p
  PROVE  UNCHANGED <<page[q], load[q], save[q], crossed[q]>>
<1> USE DEF PageType, LoadType, SaveType, CountType
<1>1. page'[q] = page[q]
  BY DEF PageStep, Select, Reload, Type, SaveClick, Rename, Saved, SaveFails, Serve, Loaded, Show
<1>2. load'[q] = load[q]
  BY DEF PageStep, Select, Reload, Type, SaveClick, Rename, Saved, SaveFails, Serve, Loaded, Ask
<1>3. save'[q] = save[q]
  BY DEF PageStep, Select, Reload, Type, SaveClick, Rename, Saved, SaveFails, Serve, Loaded
<1>4. crossed'[q] = crossed[q]
  BY DEF PageStep, Select, Reload, Type, SaveClick, Rename, Saved, SaveFails, Serve, Loaded
<1> QED
  BY <1>1, <1>2, <1>3, <1>4

Waits(p) ==
    /\ page[p].sel # None /\ ~page[p].loading => page[p].now.of = page[p].sel
    /\ \A s \in Slots : load[p][s].file \in {None, page[p].sel}
    /\ Saving(p) => save[p].file = page[p].sel

LEMMA OneFileStep ==
  ASSUME DiskType, PageType, LoadType, SaveType, CountType, OneFile, Next
  PROVE  OneFile'
<1>1. CASE ServerStep
  <2>1. UNCHANGED <<page, crossed>>
    BY <1>1 DEF ServerStep, SeedOpen, SeedWrite, BootEnds, UIEnds, PowerLoss, Writeback, Elsewhere
  <2>2. ASSUME CutOff PROVE OneFile'
    <3>1. \A p \in Pages, s \in Slots : load'[p][s].file = load[p][s].file
      BY <2>2 DEF CutOff, LoadType, Load, NoLoad
    <3>2. \A p \in Pages : ~Saving(p)'
      BY <2>2 DEF CutOff, Saving, NoSave
    <3> QED
      BY <2>1, <3>1, <3>2 DEF OneFile
  <2>3. CASE UNCHANGED <<load, save>>
    BY <2>1, <2>3 DEF OneFile, Saving
  <2> QED
    BY <1>1, <2>2, <2>3 DEF ServerStep, SeedOpen, SeedWrite, BootEnds, UIEnds, PowerLoss,
                            Writeback, Elsewhere
<1>2. ASSUME NEW p \in Pages, PageStep(p) PROVE OneFile'
  <2> SUFFICES ASSUME ~crossed'[p] PROVE Waits(p)'
    <3>1. ASSUME NEW q \in Pages, q # p, ~crossed'[q] PROVE Waits(q)'
      <4>1. UNCHANGED <<page[q], load[q], save[q], crossed[q]>>
        BY <1>2, <3>1, OthersStay
      <4>2. Waits(q)
        BY <3>1, <4>1 DEF OneFile, Waits
      <4> QED
        BY <4>1, <4>2 DEF Waits, Saving
    <3> QED
      BY <3>1 DEF OneFile, Waits
  <2>0. page[p] \in Page /\ load[p] \in [Slots -> Load] /\ save[p] \in Save
    BY DEF PageType, LoadType, SaveType
  <2>1. ASSUME ~crossed[p] PROVE Waits(p)
    BY <2>1 DEF OneFile, Waits
  <2>2. ASSUME NEW t \in Shown, Show(p, t), t.of = page[p].sel, UNCHANGED crossed,
               \A s \in Slots : load'[p][s].file \in {None, load[p][s].file},
               Saving(p)' => save'[p].file = save[p].file /\ Saving(p)
        PROVE  Waits(p)'
    <3>1. page'[p] = [sel |-> page[p].sel, now |-> t, saved |-> t, loading |-> FALSE]
      BY <2>2, ShowType
    <3> QED
      BY <2>1, <2>2, <3>1 DEF Waits
  <2>3. ASSUME NEW f \in Files, Select(p, f) PROVE Waits(p)'
    <3>1. Loads(p) = {} /\ ~Saving(p)
      BY <2>3 DEF Select, CountType
    <3>2. page'[p].sel = f /\ page'[p].loading
      BY <2>0, <2>3 DEF Select, PageType, Page
    <3>3. PICK s \in Slots : load' = [load EXCEPT ![p][s] = [file |-> f, answer |-> Asked]]
      BY <2>3 DEF Select, Ask
    <3>4. \A r \in Slots : load'[p][r].file \in {None, f}
      BY <2>0, <3>1, <3>3 DEF Loads, LoadType
    <3>5. ~Saving(p)'
      BY <2>3, <3>1 DEF Select, Saving
    <3> QED
      BY <3>2, <3>4, <3>5 DEF Waits
  <2>4. CASE Reload(p)
    <3>1. Waits(p)
      BY <2>1, <2>4 DEF Reload
    <3>2. page'[p].sel = page[p].sel /\ page'[p].loading
      BY <2>0, <2>4 DEF Reload, PageType, Page
    <3>3. PICK s \in Slots :
                 load' = [load EXCEPT ![p][s] = [file |-> page[p].sel, answer |-> Asked]]
      BY <2>4 DEF Reload, Ask
    <3>4. \A r \in Slots : load'[p][r].file \in {None, page[p].sel}
      BY <2>0, <3>1, <3>3 DEF Waits, LoadType
    <3>5. Saving(p)' => save'[p].file = page[p].sel
      BY <2>4, <3>1 DEF Reload, Saving, Waits
    <3> QED
      BY <3>2, <3>4, <3>5 DEF Waits
  <2>5. ASSUME NEW s \in Slots, Serve(p, s) PROVE Waits(p)'
    <3>1. load[p][s] \in [file : Files, answer : Texts \cup {Cut, Blank, Asked}]
      BY <2>0, <2>5 DEF Serve, Load, NoLoad
    <3>2. load'[p] = [load[p] EXCEPT ![s] = [load[p][s] EXCEPT !.answer = Read(load[p][s].file)]]
      BY <2>5 DEF Serve, LoadType
    <3>3. \A r \in Slots : load'[p][r].file = load[p][r].file
      BY <2>0, <3>1, <3>2
    <3> QED
      BY <2>1, <2>5, <3>3 DEF Serve, Waits, Saving
  <2>6. ASSUME NEW s \in Slots, Loaded(p, s) PROVE Waits(p)'
    <3>1. load[p][s] \in [file : Files, answer : Texts \cup {Cut, Blank, Asked}]
      BY <2>0, <2>6 DEF Loaded, Load, NoLoad
    <3> DEFINE t == [of |-> load[p][s].file,
                     text |-> IF load[p][s].answer = Asked THEN Blank ELSE load[p][s].answer]
    <3>2. t \in Shown
      BY <3>1 DEF Shown
    <3>3. load[p][s].file = page[p].sel /\ UNCHANGED crossed
      BY <2>1, <2>6 DEF Loaded, Waits
    <3>4. \A r \in Slots : load'[p][r].file \in {None, load[p][r].file}
      BY <2>0, <2>6 DEF Loaded, LoadType, NoLoad
    <3>5. Show(p, t) /\ t.of = page[p].sel /\ UNCHANGED save
      BY <2>6, <3>3 DEF Loaded
    <3> QED
      BY <2>2, <3>2, <3>3, <3>4, <3>5 DEF Saving
  <2>7. CASE Type(p)
    <3>1. page'[p].sel = page[p].sel /\ page'[p].loading = page[p].loading
      BY <2>0, <2>7 DEF Type, PageType, Page
    <3>2. page'[p].now = [page[p].now EXCEPT !.text = edits + 1]
      BY <2>0, <2>7 DEF Type, PageType, Page
    <3>3. page'[p].now.of = page[p].now.of
      BY <2>0, <3>2 DEF Page, Shown, NoShown
    <3> QED
      BY <2>1, <2>7, <3>1, <3>3 DEF Type, Waits, Saving
  <2>8. CASE SaveClick(p)
    <3>1. save'[p].file = page[p].sel
      BY <2>8 DEF SaveClick, SaveType
    <3> QED
      BY <2>1, <2>8, <3>1 DEF SaveClick, Waits
  <2>9. CASE Rename(p)
    <3>1. save'[p].file = save[p].file /\ Saving(p)
      BY <2>0, <2>9 DEF Rename, SaveType, Save, NoSave, Saving
    <3> QED
      BY <2>1, <2>9, <3>1 DEF Rename, Waits
  <2>10. CASE Saved(p)
    <3>1. save[p].file \in Files /\ Saving(p)
      BY <2>0, <2>10 DEF Saved, Save, NoSave, Saving
    <3> DEFINE t == [of |-> save[p].file, text |-> Read(save[p].file)]
    <3>2. t \in Shown
      BY <3>1, ReadType DEF Shown
    <3>3. save[p].file = page[p].sel /\ UNCHANGED <<crossed, load>>
      BY <2>1, <2>10, <3>1 DEF Saved, Waits
    <3>4. ~Saving(p)'
      BY <2>10 DEF Saved, SaveType, Saving, NoSave
    <3>5. Show(p, t) /\ t.of = page[p].sel
      BY <2>10, <3>3 DEF Saved
    <3> QED
      BY <2>2, <3>2, <3>3, <3>4, <3>5
  <2>11. CASE SaveFails(p)
    <3>1. ~Saving(p)'
      BY <2>11 DEF SaveFails, SaveType, Saving, NoSave
    <3> QED
      BY <2>1, <2>11, <3>1 DEF SaveFails, Waits
  <2> QED
    BY <1>2, <2>3, <2>4, <2>5, <2>6, <2>7, <2>8, <2>9, <2>10, <2>11 DEF PageStep
<1> QED
  BY <1>1, <1>2, Steps

LEMMA OwnTextStep ==
  ASSUME PageType, LoadType, SaveType, CountType, OneFile, OwnText, Next
  PROVE  OwnText'
<1>1. CASE ServerStep
  BY <1>1 DEF ServerStep, SeedOpen, SeedWrite, BootEnds, UIEnds, PowerLoss, CutOff,
              Writeback, Elsewhere, OwnText, Saving, NoSave
<1>2. ASSUME NEW p \in Pages, PageStep(p) PROVE OwnText'
  <2>1. ASSUME NEW q \in Pages, q # p, Saving(q)', ~save'[q].crossed
        PROVE  save'[q].what.of = save'[q].file
    BY <1>2, <2>1, OthersStay DEF OwnText, Saving
  <2>2. ASSUME Saving(p)', ~save'[p].crossed
        PROVE  save'[p].what.of = save'[p].file
    <3>1. CASE SaveClick(p)
      <4>1. ~crossed[p] /\ save'[p].what = page[p].now /\ save'[p].file = page[p].sel
        BY <2>2, <3>1 DEF SaveClick, SaveType
      <4> QED
        BY <3>1, <4>1 DEF SaveClick, CanSave, OneFile
    <3>2. CASE Rename(p)
      <4>1. save[p] \in Save
        BY DEF SaveType
      <4>2. save'[p] = [save[p] EXCEPT !.pc = "renamed"] /\ Saving(p)
        BY <3>2 DEF Rename, SaveType, Saving
      <4>3. /\ save'[p].what = save[p].what
            /\ save'[p].file = save[p].file
            /\ save'[p].crossed = save[p].crossed
        BY <4>1, <4>2 DEF Save, NoSave
      <4> QED
        BY <2>2, <4>2, <4>3 DEF OwnText
    <3>3. CASE Saved(p) \/ SaveFails(p)
      BY <2>2, <3>3 DEF Saved, SaveFails, SaveType, Saving, NoSave
    <3>4. CASE UNCHANGED save
      BY <2>2, <3>4 DEF OwnText, Saving
    <3> QED
      BY <1>2, <3>1, <3>2, <3>3, <3>4 DEF PageStep, Select, Reload, Type, Serve, Loaded
  <2> QED
    BY <2>1, <2>2 DEF OwnText
<1> QED
  BY <1>1, <1>2, Steps

-----------------------------------------------------------------------------
LEMMA ConfigInvInit == Init => ConfigInv
<1> SUFFICES ASSUME Init PROVE ConfigInv
  OBVIOUS
<1> USE Specials
<1>1. DiskType
  BY DEF Init, DiskType
<1>2. PageType /\ LoadType /\ SaveType
  BY DEF Init, PageType, Page, Shown, LoadType, Load, SaveType, Save
<1>3. CountType
  BY ConfigAssumption DEF Init, CountType
<1>4. SeedCut /\ EditsSurvive
  BY DEF Init, SeedCut, EditsSurvive
<1>5. Typed /\ SavesTyped /\ OwnText
  BY DEF Init, Typed, Dirty, SavesTyped, OwnText, Saving, NoSave
<1>6. OneFile
  BY DEF Init, OneFile, Saving, NoSave, NoLoad
<1> QED
  BY <1>1, <1>2, <1>3, <1>4, <1>5, <1>6 DEF ConfigInv

LEMMA ConfigInvStep == ConfigInv /\ [Next]_vars => ConfigInv'
<1>1. ASSUME ConfigInv, Next PROVE ConfigInv'
  BY <1>1, DiskTypeStep, PageTypeStep, LoadTypeStep, SaveTypeStep, CountTypeStep, SeedCutStep,
     TypedStep, SavesTypedStep, OneFileStep, EditsSurviveStep, OwnTextStep DEF ConfigInv
<1>2. ASSUME ConfigInv, UNCHANGED vars PROVE ConfigInv'
  BY <1>2 DEF vars, server, ConfigInv, DiskType, PageType, LoadType, SaveType, CountType, SeedCut,
              Typed, Dirty, SavesTyped, Saving, OneFile, EditsSurvive, OwnText
<1> QED
  BY <1>1, <1>2

LEMMA ConfigInvAlways == Spec => []ConfigInv
  BY ConfigInvInit, ConfigInvStep, PTL DEF Spec

(* Every variable keeps its type; in particular nothing but texts is saved, *)
(* and no page has a text that belongs to no file.                         *)
THEOREM TypeCorrect == Spec => []TypeOK
<1>1. ConfigInv => TypeOK
  BY DEF ConfigInv, DiskType, PageType, LoadType, SaveType, CountType, TypeOK
<1> QED
  BY <1>1, ConfigInvAlways, PTL

(* What was saved stays until it is replaced, whatever files early boot    *)
(* seeds and wherever the power is lost.                                   *)
THEOREM SavedTextStays == Spec => []EditsSurvive
<1>1. ConfigInv => EditsSurvive
  BY DEF ConfigInv
<1> QED
  BY <1>1, ConfigInvAlways, PTL

(* A page that did not cross its requests saves a text only into the file  *)
(* it was loaded from, whatever the order of the answers.                  *)
THEOREM SavedWhereLoaded == Spec => []OwnText
<1>1. ConfigInv => OwnText
  BY DEF ConfigInv
<1> QED
  BY <1>1, ConfigInvAlways, PTL
=============================================================================
