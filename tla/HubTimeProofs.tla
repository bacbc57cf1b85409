--------------------------- MODULE HubTimeProofs ----------------------------
(***************************************************************************)
(* The Time tab.  A setter of the timezone that was alone, and a boot,     *)
(* settle it, for any zones, requests and commands and whatever they find  *)
(* in the two files.  What is saved of the clock is not ahead of it, and   *)
(* logins last, for any range of times, length of a session and set of     *)
(* browsers.                                                               *)
(***************************************************************************)
EXTENDS HubTimezone, HubClock, TLAPS

IsWorking(r) == setter[r].pc \in Working

\* no one works during a boot, nor between a success and the next setter
Quiet ==
    /\ boot # "up" \/ claim # None => \A r \in Setters : ~IsWorking(r)
    /\ boot # "up" => claim = None /\ ~masked /\ ~bound

\* a setter that is alone is the only one
Alone ==
    \A r, q \in Setters : IsWorking(r) /\ setter[r].alone /\ IsWorking(q) => q = r

\* ... and the files are as far as it has come
NameOf(r) == setter[r].pc # "write_name" => file.name = setter[r].zone
DataOf(r) == setter[r].pc \in {"open_zone", "write_zone"} => masked \/ setter[r].data = setter[r].zone
ZoneOf(r) ==
    /\ setter[r].pc = "write_name" => file.name = Empty
    /\ setter[r].pc = "write_zone" => file.zone = Empty
    /\ setter[r].pc \in {"unbind", "bind"} => masked \/ file.zone = setter[r].zone

Progress ==
    \A r \in Setters : IsWorking(r) /\ setter[r].alone => NameOf(r) /\ DataOf(r) /\ ZoneOf(r)

\* early boot copies the zone that is kept
BootProgress ==
    /\ boot = "write" => Chosen # None
    /\ boot = "bind" /\ Chosen # None => file.zone = Chosen

ZoneInv == TypeOK /\ Quiet /\ Alone /\ Progress /\ BootProgress /\ Settled

Step(r) ==
    \/ WriteName(r) \/ ReadZone(r) \/ OpenZone(r) \/ WriteZone(r)
    \/ Unbind(r) \/ Bind(r) \/ Fail(r)

Other == PowerLoss \/ Writeback \/ BootCopy \/ BootWrite \/ BootBind \/ Edit

(* Every step is one of these, which the proofs go through.                *)
LEMMA Steps ==
    Next => Other \/ \E r \in Setters : Step(r) \/ \E z \in Zones : Set(r, z)
  BY DEF Next, Boot, Work, Step, Other

(* What a write at offset 0 leaves is a content; over an empty file it is  *)
(* what was written.                                                       *)
LEMMA OverlayType ==
  ASSUME NEW c \in Content, NEW d \in Content
  PROVE  Overlay(c, d) \in Content
<1>1. CASE c = Empty
  BY <1>1, TimezoneAssumption DEF Overlay, Content
<1>2. CASE c # Empty /\ d = Empty
  BY <1>2, TimezoneAssumption DEF Overlay, Content
<1>3. CASE c # Empty /\ d # Empty
  BY <1>3, TimezoneAssumption DEF Overlay, Content
<1> QED
  BY <1>1, <1>2, <1>3

LEMMA OverlayEmpty ==
  ASSUME NEW d
  PROVE  d \in Zones => Overlay(Empty, d) = d
  BY TimezoneAssumption DEF Overlay

LEMMA ZoneContent == Zones \subseteq Content /\ {Missing, Empty, Torn} \subseteq Content
  BY DEF Content

(* Writing one of the two files leaves the other.                          *)
LEMMA PutName ==
  ASSUME file \in Files, NEW c \in Content, Put("name", c)
  PROVE  file' \in Files /\ file'.name = c /\ file'.zone = file.zone
  BY DEF Put, Files

LEMMA PutZone ==
  ASSUME file \in Files, NEW c \in Content, Put("zone", c)
  PROVE  file' \in Files /\ file'.zone = c /\ file'.name = file.name
  BY DEF Put, Files

(* A setter moves alone.                                                   *)
LEMMA GotoType ==
  ASSUME setter \in [Setters -> Setter], NEW r \in Setters,
         NEW to \in {"idle", "ok", "failed"} \cup Working, Goto(r, to)
  PROVE  /\ setter' \in [Setters -> Setter]
         /\ setter'[r].pc = to
         /\ UNCHANGED <<setter[r].zone, setter[r].data, setter[r].alone>>
         /\ \A q \in Setters : q # r => setter'[q] = setter[q]
<1>1. setter[r] \in Setter
  OBVIOUS
<1>2. setter' = [setter EXCEPT ![r] = [setter[r] EXCEPT !.pc = to]]
  BY DEF Goto
<1>3. [setter[r] EXCEPT !.pc = to] \in Setter
  BY <1>1 DEF Setter
<1>4. setter'[r] = [setter[r] EXCEPT !.pc = to]
  BY <1>2
<1>5. setter'[r].pc = to /\ UNCHANGED <<setter[r].zone, setter[r].data, setter[r].alone>>
  BY <1>1, <1>4 DEF Setter
<1> QED
  BY <1>2, <1>3, <1>5

LEMMA FlushedType ==
  ASSUME NEW d \in Content, NEW c \in Content, NEW e \in Flushed(d, c)
  PROVE  e \in Content
  BY ZoneContent DEF Flushed

LEMMA ChosenType == Chosen \in Zones \cup {None} /\ (Chosen # None => Chosen = file.name)
  BY DEF Chosen

(* What a request notes as it begins: whether no other one is at work.     *)
LEMMA BusyBoolean == (~Busy) \in BOOLEAN
  OBVIOUS

LEMMA AloneMeans ==
  ASSUME NEW b, b = ~Busy, b
  PROVE  ~Busy
  OBVIOUS

LEMMA TypeStep ==
  ASSUME TypeOK, BootProgress, Next
  PROVE  TypeOK'
<1> USE DEF TypeOK, history
<1>0. "ok" \in {"idle", "ok", "failed"} \cup Working /\ "failed" \in {"idle", "ok", "failed"} \cup Working
  OBVIOUS
<1>1. CASE Other
  <2>1. CASE PowerLoss
    <3>1. setter' \in [Setters -> Setter]
      BY <2>1 DEF PowerLoss, Setter
    <3>2. losses' \in 0..MaxLosses
      BY <2>1, TimezoneAssumption DEF PowerLoss
    <3> QED
      BY <2>1, <3>1, <3>2 DEF PowerLoss
  <2>2. CASE Writeback
    <3>1. PICK n \in Flushed(durable.name, file.name), z \in Flushed(durable.zone, file.zone) :
                 durable' = [name |-> n, zone |-> z]
      BY <2>2 DEF Writeback
    <3>2. n \in Content /\ z \in Content
      BY <3>1, FlushedType DEF Files
    <3> QED
      BY <2>2, <3>1, <3>2 DEF Writeback, Files
  <2>3. CASE BootCopy
    BY <2>3, PutZone, ZoneContent DEF BootCopy
  <2>4. CASE BootWrite
    <3>1. Chosen \in Content
      BY <2>4, ChosenType, ZoneContent DEF BootWrite, BootProgress
    <3> QED
      BY <2>4, <3>1, PutZone DEF BootWrite
  <2>5. CASE BootBind
    BY <2>5, ChosenType DEF BootBind
  <2>6. CASE Edit
    <3>1. PICK c \in Zones \cup {Torn} : Put("name", c)
      BY <2>6 DEF Edit
    <3>2. file' \in Files
      BY <3>1, PutName, ZoneContent
    <3>3. setter' \in [Setters -> Setter]
      BY <2>6 DEF Edit, Setter
    <3> QED
      BY <2>6, <3>2, <3>3 DEF Edit
  <2> QED
    BY <1>1, <2>1, <2>2, <2>3, <2>4, <2>5, <2>6 DEF Other
<1>2. ASSUME NEW r \in Setters, NEW z \in Zones, Set(r, z) PROVE TypeOK'
  <2>1. file' \in Files
    BY <1>2, PutName, ZoneContent DEF Set
  <2>2. (~Busy) \in BOOLEAN
    BY BusyBoolean
  <2>3. [pc |-> "write_name", zone |-> z, data |-> Missing, alone |-> ~Busy] \in Setter
    BY <2>2, ZoneContent DEF Setter, Working
  <2>4. \A q \in Setters : [setter[q] EXCEPT !.alone = FALSE] \in Setter
    BY DEF Setter
  <2>5. setter' \in [Setters -> Setter]
    BY <1>2, <2>3, <2>4 DEF Set
  <2> QED
    BY <1>2, <2>1, <2>5 DEF Set
<1>3. ASSUME NEW r \in Setters, Step(r) PROVE TypeOK'
  <2>0. setter[r] \in Setter /\ file.name \in Content /\ file.zone \in Content
    BY DEF Files
  <2>00. setter[r].zone \in Zones /\ setter[r].data \in Content /\ setter[r].alone \in BOOLEAN
    BY <2>0 DEF Setter
  <2>1. CASE WriteName(r)
    <3>1. Overlay(file.name, setter[r].zone) \in Content
      BY <2>0, <2>00, OverlayType, ZoneContent
    <3>2. file' \in Files
      BY <2>1, <3>1, PutName DEF WriteName
    <3>3. setter' \in [Setters -> Setter]
      BY <2>1, GotoType DEF WriteName, Working
    <3> QED
      BY <2>1, <3>2, <3>3 DEF WriteName
  <2>2. CASE ReadZone(r)
    <3>1. ZoneFile(setter[r].zone) \in Content
      BY <2>0, <2>00, ZoneContent, TimezoneAssumption DEF ZoneFile, Running
    <3>2. [setter[r] EXCEPT !.data = ZoneFile(setter[r].zone), !.pc = "open_zone"] \in Setter
      BY <2>0, <3>1 DEF Setter, Working
    <3>3. setter' \in [Setters -> Setter]
      BY <2>2, <3>2 DEF ReadZone
    <3>4. masked' \in BOOLEAN
      BY <2>2, <2>00 DEF ReadZone
    <3> QED
      BY <2>2, <3>3, <3>4 DEF ReadZone
  <2>3. CASE OpenZone(r)
    BY <2>3, GotoType, PutZone, ZoneContent DEF OpenZone, Working
  <2>4. CASE WriteZone(r)
    <3>1. Overlay(file.zone, setter[r].data) \in Content
      BY <2>0, <2>00, OverlayType
    <3>2. file' \in Files
      BY <2>4, <3>1, PutZone DEF WriteZone
    <3>3. setter' \in [Setters -> Setter]
      BY <2>4, GotoType DEF WriteZone, Working
    <3> QED
      BY <2>4, <3>2, <3>3 DEF WriteZone
  <2>5. CASE Unbind(r)
    BY <2>5, GotoType DEF Unbind, Working
  <2>6. CASE Bind(r)
    BY <2>6, <2>00, <1>0, GotoType DEF Bind
  <2>7. CASE Fail(r)
    BY <2>7, <1>0, GotoType DEF Fail
  <2> QED
    BY <1>3, <2>1, <2>2, <2>3, <2>4, <2>5, <2>6, <2>7 DEF Step
<1> QED
  BY <1>1, <1>2, <1>3, Steps

(* Over one step, each part of the invariant.                              *)
LEMMA QuietStep ==
  ASSUME TypeOK, Quiet, Alone, Next
  PROVE  Quiet'
<1> USE DEF IsWorking
<1>1. CASE Other
  <2>1. CASE PowerLoss
    BY <2>1 DEF PowerLoss, Quiet, Working, Setter, TypeOK
  <2>2. CASE Writeback \/ BootCopy \/ BootWrite
    BY <2>2 DEF Writeback, BootCopy, BootWrite, Quiet, history
  <2>3. CASE BootBind
    BY <2>3 DEF BootBind, Quiet
  <2>4. CASE Edit
    BY <2>4 DEF Edit, Quiet
  <2> QED
    BY <1>1, <2>1, <2>2, <2>3, <2>4 DEF Other
<1>2. ASSUME NEW r \in Setters, NEW z \in Zones, Set(r, z) PROVE Quiet'
  BY <1>2 DEF Set, Quiet
<1>3. ASSUME NEW r \in Setters, Step(r) PROVE Quiet'
  <2>1. IsWorking(r)
    BY <1>3 DEF Step, WriteName, ReadZone, OpenZone, WriteZone, Unbind, Bind, Fail, Working
  <2>2. boot = "up" /\ claim = None
    BY <2>1 DEF Quiet, TypeOK
  <2>3. boot' = "up"
    BY <1>3, <2>2 DEF Step, WriteName, ReadZone, OpenZone, WriteZone, Unbind, Bind, Fail
  <2>4. CASE Bind(r) /\ setter[r].alone
    <3>1. \A q \in Setters : q # r => setter'[q] = setter[q] /\ ~IsWorking(q)
      BY <2>1, <2>4, GotoType DEF Bind, Alone, TypeOK
    <3>2. setter'[r].pc = "ok"
      BY <2>4, GotoType DEF Bind, TypeOK
    <3> QED
      BY <2>3, <3>1, <3>2 DEF Quiet, Working
  <2>5. CASE Bind(r) /\ ~setter[r].alone
    BY <2>3, <2>5 DEF Bind, Quiet
  <2>6. CASE ~Bind(r)
    <3>1. claim' = claim
      BY <1>3, <2>6 DEF Step, WriteName, ReadZone, OpenZone, WriteZone, Unbind, Fail, history
    <3> QED
      BY <2>2, <2>3, <3>1 DEF Quiet
  <2> QED
    BY <2>4, <2>5, <2>6
<1> QED
  BY <1>1, <1>2, <1>3, Steps

LEMMA AloneStep ==
  ASSUME TypeOK, Quiet, Alone, Next
  PROVE  Alone'
<1> USE DEF IsWorking
<1>1. CASE Other
  <2>1. CASE PowerLoss
    BY <2>1 DEF PowerLoss, Alone, Working, Setter, TypeOK
  <2>2. CASE Edit
    BY <2>2 DEF Edit, Alone, Setter, TypeOK
  <2>3. CASE UNCHANGED setter
    BY <2>3 DEF Alone
  <2> QED
    BY <1>1, <2>1, <2>2, <2>3 DEF Other, Writeback, BootCopy, BootWrite, BootBind
<1>2. ASSUME NEW r \in Setters, NEW z \in Zones, Set(r, z) PROVE Alone'
  <2>1. setter'[r] = [pc |-> "write_name", zone |-> z, data |-> Missing, alone |-> ~Busy]
    BY <1>2 DEF Set
  <2>2. \A q \in Setters : q # r => setter'[q] = [setter[q] EXCEPT !.alone = FALSE]
    BY <1>2 DEF Set
  <2>3. \A q \in Setters : q # r => ~setter'[q].alone /\ setter'[q].pc = setter[q].pc
    BY <2>2 DEF TypeOK, Setter
  <2>4. ASSUME setter'[r].alone PROVE \A q \in Setters : q # r => ~IsWorking(q)'
    <3>1. setter'[r].alone = ~Busy
      BY <2>1
    <3>2. ~Busy
      BY <2>4, <3>1, AloneMeans
    <3> QED
      BY <2>3, <3>2 DEF Busy
  <2> QED
    BY <2>3, <2>4 DEF Alone
<1>3. ASSUME NEW r \in Setters, Step(r) PROVE Alone'
  <2>1. IsWorking(r)
    BY <1>3 DEF Step, WriteName, ReadZone, OpenZone, WriteZone, Unbind, Bind, Fail, Working
  <2>2. \A q \in Setters : q # r => setter'[q] = setter[q]
    BY <1>3 DEF Step, WriteName, ReadZone, OpenZone, WriteZone, Unbind, Bind, Fail, Goto, TypeOK
  <2>3. setter'[r].alone = setter[r].alone
    BY <1>3 DEF Step, WriteName, ReadZone, OpenZone, WriteZone, Unbind, Bind, Fail, Goto, TypeOK,
                Setter
  <2> QED
    BY <2>1, <2>2, <2>3 DEF Alone
<1> QED
  BY <1>1, <1>2, <1>3, Steps

LEMMA BootProgressStep ==
  ASSUME TypeOK, Quiet, BootProgress, Next
  PROVE  BootProgress'
<1>1. CASE Other
  <2>1. CASE PowerLoss
    BY <2>1 DEF PowerLoss, BootProgress
  <2>2. CASE Writeback
    BY <2>2 DEF Writeback, BootProgress, Chosen
  <2>3. CASE BootCopy
    <3>1. CASE BootCopies
      <4>1. file'.name = file.name
        BY <2>3, <3>1, PutZone, ZoneContent DEF BootCopy, TypeOK
      <4>2. Chosen' = Chosen
        BY <4>1 DEF Chosen
      <4> QED
        BY <2>3, <3>1, <4>2 DEF BootCopy, BootCopies, BootProgress
    <3>2. CASE ~BootCopies
      BY <2>3, <3>2 DEF BootCopy, BootCopies, BootProgress, Chosen
    <3> QED
      BY <3>1, <3>2
  <2>4. CASE BootWrite
    <3>1. Chosen \in Content
      BY <2>4, ChosenType, ZoneContent DEF BootWrite, BootProgress
    <3>2. file'.zone = Chosen /\ file'.name = file.name
      BY <2>4, <3>1, PutZone DEF BootWrite, TypeOK
    <3>3. Chosen' = Chosen
      BY <3>2 DEF Chosen
    <3> QED
      BY <2>4, <3>2, <3>3 DEF BootWrite, BootProgress
  <2>5. CASE BootBind \/ Edit
    BY <2>5 DEF BootBind, Edit, BootProgress
  <2> QED
    BY <1>1, <2>1, <2>2, <2>3, <2>4, <2>5 DEF Other
<1>2. ASSUME NEW r \in Setters, NEW z \in Zones, Set(r, z) PROVE BootProgress'
  BY <1>2 DEF Set, BootProgress
<1>3. ASSUME NEW r \in Setters, Step(r) PROVE BootProgress'
  <2>1. setter[r].pc \in Working
    BY <1>3 DEF Step, WriteName, ReadZone, OpenZone, WriteZone, Unbind, Bind, Fail, Working
  <2>2. boot = "up"
    BY <2>1 DEF Quiet, IsWorking
  <2>3. boot' = "up"
    BY <1>3, <2>2 DEF Step, WriteName, ReadZone, OpenZone, WriteZone, Unbind, Bind, Fail
  <2> QED
    BY <2>3 DEF BootProgress
<1> QED
  BY <1>1, <1>2, <1>3, Steps

(* No setter forgets its zone, nor whether it is alone.                    *)
LEMMA StepKeeps ==
  ASSUME TypeOK, NEW r \in Setters, Step(r)
  PROVE  setter'[r].alone = setter[r].alone /\ setter'[r].zone = setter[r].zone
<1>1. setter[r] \in Setter /\ setter \in [Setters -> Setter]
  BY DEF TypeOK
<1>2. CASE ReadZone(r)
  <2>1. setter'[r] = [setter[r] EXCEPT !.data = ZoneFile(setter[r].zone), !.pc = "open_zone"]
    BY <1>1, <1>2 DEF ReadZone
  <2> QED
    BY <1>1, <2>1 DEF Setter
<1>3. CASE ~ReadZone(r)
  <2>1. \E to \in {"idle", "ok", "failed"} \cup Working : Goto(r, to)
    BY <1>3 DEF Step, WriteName, OpenZone, WriteZone, Unbind, Bind, Fail, Working
  <2> QED
    BY <1>1, <2>1, GotoType
<1> QED
  BY <1>2, <1>3

(* A setter that is alone comes one step further, and what is settled      *)
(* stays so until the next one begins.                                     *)
LEMMA ProgressStep ==
  ASSUME TypeOK, Quiet, Alone, Progress, Next
  PROVE  Progress'
<1> USE DEF IsWorking, Progress
<1> USE DEF NameOf, DataOf, ZoneOf
<1>1. CASE Other
  <2>1. CASE PowerLoss
    BY <2>1 DEF PowerLoss, Working, Setter, TypeOK
  <2>2. CASE Writeback
    BY <2>2 DEF Writeback, history
  <2>3. CASE BootCopy \/ BootWrite \/ BootBind
    BY <2>3 DEF BootCopy, BootWrite, BootBind, Quiet
  <2>4. CASE Edit
    BY <2>4 DEF Edit, Setter, TypeOK
  <2> QED
    BY <1>1, <2>1, <2>2, <2>3, <2>4 DEF Other
<1>2. ASSUME NEW r \in Setters, NEW z \in Zones, Set(r, z) PROVE Progress'
  <2>1. setter'[r].pc = "write_name"
    BY <1>2 DEF Set
  <2>2. \A q \in Setters : q # r => ~setter'[q].alone
    BY <1>2 DEF Set, TypeOK, Setter
  <2>3. file'.name = Empty
    BY <1>2, PutName, ZoneContent DEF Set, TypeOK
  <2> QED
    BY <2>1, <2>2, <2>3
<1>3. ASSUME NEW r \in Setters, Step(r) PROVE Progress'
  <2>0. setter[r] \in Setter /\ IsWorking(r) /\ file \in Files
    BY <1>3 DEF Step, WriteName, ReadZone, OpenZone, WriteZone, Unbind, Bind, Fail, Working, TypeOK
  <2>1. \A q \in Setters : q # r => setter'[q] = setter[q]
    BY <1>3 DEF Step, WriteName, ReadZone, OpenZone, WriteZone, Unbind, Bind, Fail, Goto, TypeOK
  <2>2. setter'[r].alone = setter[r].alone /\ setter'[r].zone = setter[r].zone
    BY <1>3, StepKeeps
  <2>3. SUFFICES ASSUME setter[r].alone, IsWorking(r)'
                 PROVE  NameOf(r)' /\ DataOf(r)' /\ ZoneOf(r)'
    BY <2>0, <2>1, <2>2 DEF Alone
  <2>4. NameOf(r) /\ DataOf(r) /\ ZoneOf(r) /\ setter[r].zone \in Zones
    BY <2>0, <2>3 DEF Setter
  <2> HIDE DEF Progress, NameOf, DataOf, ZoneOf
  <2>5. CASE WriteName(r)
    <3>1. setter'[r].pc = "read" /\ setter'[r].data = setter[r].data
      BY <2>5, GotoType DEF WriteName, Working, TypeOK
    <3>2. Overlay(file.name, setter[r].zone) = setter[r].zone
      BY <2>4, <2>5, OverlayEmpty DEF WriteName, ZoneOf
    <3>3. file'.name = setter[r].zone
      BY <2>0, <2>4, <2>5, <3>2, PutName, ZoneContent DEF WriteName
    <3> QED
      BY <2>2, <3>1, <3>3 DEF NameOf, DataOf, ZoneOf
  <2>6. CASE ReadZone(r)
    <3>1. setter'[r] = [setter[r] EXCEPT !.data = ZoneFile(setter[r].zone), !.pc = "open_zone"]
      BY <2>6 DEF ReadZone, TypeOK
    <3>2. setter'[r].pc = "open_zone" /\ setter'[r].data = ZoneFile(setter[r].zone)
      BY <2>0, <3>1 DEF Setter
    <3>3. masked' \/ ZoneFile(setter[r].zone) = setter[r].zone
      BY <2>3, <2>6 DEF ReadZone, ZoneFile, Running
    <3>4. file' = file
      BY <2>6 DEF ReadZone
    <3>5. file.name = setter[r].zone
      BY <2>4, <2>6 DEF ReadZone, NameOf
    <3> QED
      BY <2>2, <3>2, <3>3, <3>4, <3>5 DEF NameOf, DataOf, ZoneOf
  <2>7. CASE OpenZone(r)
    <3>1. setter'[r].pc = "write_zone" /\ setter'[r].data = setter[r].data
      BY <2>7, GotoType DEF OpenZone, Working, TypeOK
    <3>2. file'.name = file.name /\ file'.zone = Empty /\ masked' = masked
      BY <2>0, <2>7, PutZone, ZoneContent DEF OpenZone, history
    <3> QED
      BY <2>2, <2>4, <2>7, <3>1, <3>2 DEF OpenZone, NameOf, DataOf, ZoneOf
  <2>8. CASE WriteZone(r)
    <3>1. setter'[r].pc = "unbind" /\ masked' = masked
      BY <2>8, GotoType DEF WriteZone, Working, TypeOK, history
    <3>2. masked \/ setter[r].data = setter[r].zone
      BY <2>4, <2>8 DEF WriteZone, DataOf
    <3>3. masked \/ Overlay(file.zone, setter[r].data) = setter[r].zone
      BY <2>4, <2>8, <3>2, OverlayEmpty DEF WriteZone, ZoneOf
    <3>4. Overlay(file.zone, setter[r].data) \in Content
      BY <2>0, OverlayType DEF Setter, Files
    <3>5. file'.zone = Overlay(file.zone, setter[r].data) /\ file'.name = file.name
      BY <2>0, <2>8, <3>4, PutZone DEF WriteZone
    <3> QED
      BY <2>2, <2>4, <2>8, <3>1, <3>3, <3>5 DEF WriteZone, NameOf, DataOf, ZoneOf
  <2>9. CASE Unbind(r)
    <3>1. setter'[r].pc = "bind"
      BY <2>9, GotoType DEF Unbind, Working, TypeOK
    <3> QED
      BY <2>2, <2>4, <2>9, <3>1 DEF Unbind, NameOf, DataOf, ZoneOf, history
  <2>10. CASE Bind(r) \/ Fail(r)
    <3>1. setter'[r].pc \in {"ok", "failed"}
      BY <2>10, GotoType DEF Bind, Fail, TypeOK
    <3> QED
      BY <2>3, <3>1 DEF Working
  <2> QED
    BY <1>3, <2>5, <2>6, <2>7, <2>8, <2>9, <2>10 DEF Step
<1> QED
  BY <1>1, <1>2, <1>3, Steps

LEMMA SettledStep ==
  ASSUME TypeOK, Quiet, Alone, Progress, BootProgress, Settled, Next
  PROVE  Settled'
<1> USE DEF Settled
<1>1. CASE Other
  <2>1. CASE PowerLoss \/ Edit
    BY <2>1 DEF PowerLoss, Edit
  <2>2. CASE Writeback
    BY <2>2 DEF Writeback, history, Running
  <2>3. CASE BootCopy \/ BootWrite
    BY <2>3 DEF BootCopy, BootWrite, Quiet, history
  <2>4. CASE BootBind
    <3>1. ASSUME claim' # None
          PROVE  Chosen # None /\ bound' /\ claim' = Chosen
      BY <2>4, <3>1 DEF BootBind
    <3>2. ASSUME claim' # None
          PROVE  file' = [name |-> claim', zone |-> claim'] /\ Running' = claim'
      BY <2>4, <3>1, <3>2, ChosenType DEF BootBind, BootProgress, TypeOK, Files, Running
    <3> QED
      BY <3>2
  <2> QED
    BY <1>1, <2>1, <2>2, <2>3, <2>4 DEF Other
<1>2. ASSUME NEW r \in Setters, NEW z \in Zones, Set(r, z) PROVE Settled'
  BY <1>2 DEF Set
<1>3. ASSUME NEW r \in Setters, Step(r) PROVE Settled'
  <2>1. IsWorking(r)
    BY <1>3 DEF Step, WriteName, ReadZone, OpenZone, WriteZone, Unbind, Bind, Fail, Working, IsWorking
  <2>2. claim = None
    BY <2>1 DEF Quiet, TypeOK
  <2>3. CASE Bind(r) /\ setter[r].alone
    <3>1. file.name = setter[r].zone /\ (masked \/ file.zone = setter[r].zone)
      BY <2>1, <2>3 DEF Bind, Progress, NameOf, ZoneOf
    <3>2. claim' = setter[r].zone /\ bound' /\ file' = file /\ masked' = masked
      BY <2>3 DEF Bind
    <3> QED
      BY <3>1, <3>2 DEF TypeOK, Files, Running
  <2>4. CASE Bind(r) /\ ~setter[r].alone
    BY <2>4 DEF Bind
  <2>5. CASE ~Bind(r)
    BY <1>3, <2>2, <2>5 DEF Step, WriteName, ReadZone, OpenZone, WriteZone, Unbind, Fail, history
  <2> QED
    BY <2>3, <2>4, <2>5
<1> QED
  BY <1>1, <1>2, <1>3, Steps

-----------------------------------------------------------------------------
LEMMA ZoneInvInit == Init => ZoneInv
<1> SUFFICES ASSUME Init PROVE ZoneInv
  OBVIOUS
<1>1. TypeOK
  <2>1. 0 \in 0..MaxLosses
    BY TimezoneAssumption
  <2>2. [pc |-> "idle", zone |-> Default, data |-> Missing, alone |-> FALSE] \in Setter
    BY ZoneContent, TimezoneAssumption DEF Setter
  <2> QED
    BY <2>1, <2>2, ZoneContent DEF Init, TypeOK, Files
<1>2. \A r \in Setters : ~IsWorking(r)
  BY DEF Init, IsWorking, Working
<1>3. Quiet /\ BootProgress /\ Settled
  BY <1>2 DEF Init, Quiet, BootProgress, Settled
<1>4. Alone /\ Progress
  BY <1>2 DEF Alone, Progress
<1> QED
  BY <1>1, <1>3, <1>4 DEF ZoneInv

LEMMA ZoneInvStep == ZoneInv /\ [Next]_vars => ZoneInv'
<1>1. ASSUME ZoneInv, Next PROVE ZoneInv'
  BY <1>1, TypeStep, QuietStep, AloneStep, ProgressStep, BootProgressStep, SettledStep DEF ZoneInv
<1>2. ASSUME ZoneInv, UNCHANGED vars PROVE ZoneInv'
  BY <1>2 DEF vars, ZoneInv, TypeOK, Quiet, IsWorking, Alone, Progress, NameOf, DataOf, ZoneOf,
              BootProgress, Chosen, Settled, Running
<1> QED
  BY <1>1, <1>2

LEMMA ZoneInvAlways == Spec => []ZoneInv
  BY ZoneInvInit, ZoneInvStep, PTL DEF Spec

(* Every variable keeps its type; in particular early boot never copies a  *)
(* zone that does not exist.                                               *)
THEOREM TypeCorrect == Spec => []TypeOK
<1>1. ZoneInv => TypeOK
  BY DEF ZoneInv
<1> QED
  BY <1>1, ZoneInvAlways, PTL

(* After a setter that was alone, or a boot, name, zone file and running   *)
(* zone agree, but for a default zone that was read through the bind.      *)
THEOREM ZoneSettles == Spec => []Settled
<1>1. ZoneInv => Settled
  BY DEF ZoneInv
<1> QED
  BY <1>1, ZoneInvAlways, PTL

-----------------------------------------------------------------------------
(* The clock.                                                              *)

(* A session that was signed and not overtaken by the clock has as much of *)
(* it left as its cookie; only a running UI has signed any.                *)
Left ==
    \A b \in Browsers : session[b] # NoCookie =>
        /\ session[b].age < TTL
        /\ session[b].signed => hub = "up"
        /\ session[b].signed /\ ~session[b].forward => TTL - session[b].age <= session[b].exp - clock

ClockInv == ClockTypeOK /\ Left /\ SavedIsPast

ByHand ==
    \/ \E e \in Times : Command(e)
    \/ \E b \in Browsers, e \in 0..(MaxTime + 1) : SetTime(b, e)
Logins == \E b \in Browsers : Login(b) \/ Logout(b)
Cuts == UIRestarts \/ Shutdown \/ PowerCut

LEMMA ClockSteps ==
    ClockNext => \/ ByHand \/ Logins \/ Cuts
                  \/ Tick \/ ClockWriteback \/ Restore \/ Cron \/ Reboot
                  \/ \E w \in Writers : WriterStep(w)
  BY DEF ClockNext, ByHand, Logins, Cuts

LEMMA ClockTypes ==
  ASSUME ClockInv, ClockNext
  PROVE  ClockTypeOK'
<1> USE ClockAssumption DEF ClockInv, ClockTypeOK, Times, Writers, ClockSetters
<1>0. Resting \in Writer
  BY DEF Resting, Writer
<1>1. CASE ByHand
  <2>1. ASSUME NEW e \in 0..MaxTime, SetClock(e)
        PROVE  clock' \in 0..MaxTime /\ sets' \in 0..MaxSets
               /\ session' \in [Browsers -> Session \cup {NoCookie}]
    <3>1. ASSUME NEW s \in Session PROVE [s EXCEPT !.forward = TRUE] \in Session
      BY DEF Session
    <3> QED
      BY <2>1, <3>1 DEF SetClock
  <2>2. CASE \E e \in Times : Command(e)
    BY <2>1, <2>2 DEF Command, Writer
  <2>3. CASE \E b \in Browsers, e \in 0..(MaxTime + 1) : SetTime(b, e)
    BY <2>1, <2>3 DEF SetTime, Writer, InRange, Persists
  <2> QED
    BY <1>1, <2>2, <2>3 DEF ByHand
<1>2. CASE Logins
  <2>1. clock + TTL \in 0..(MaxTime + TTL) /\ 0 \in 0..TTL
    OBVIOUS
  <2>2. [exp |-> clock + TTL, age |-> 0, signed |-> TRUE, forward |-> FALSE] \in Session
    BY <2>1 DEF Session
  <2>3. ASSUME NEW b \in Browsers, Login(b) PROVE ClockTypeOK'
    BY <2>2, <2>3 DEF Login, Expiry, bounds
  <2>4. ASSUME NEW b \in Browsers, Logout(b) PROVE ClockTypeOK'
    BY <2>4 DEF Logout, bounds
  <2> QED
    BY <1>2, <2>3, <2>4 DEF Logins
<1>3. CASE Cuts
  <2>1. End => ends' \in 0..MaxEnds
    BY DEF End
  <2>2. Unsign => session' \in [Browsers -> Session \cup {NoCookie}]
    <3>1. ASSUME NEW s \in Session PROVE [s EXCEPT !.signed = FALSE] \in Session
      BY DEF Session
    <3> QED
      BY <3>1 DEF Unsign
  <2>3. CASE UIRestarts
    BY <1>0, <2>1, <2>2, <2>3 DEF UIRestarts, At
  <2>4. CASE Shutdown
    BY <1>0, <2>1, <2>2, <2>4 DEF Shutdown, Writer
  <2>5. CASE PowerCut
    BY <1>0, <2>1, <2>2, <2>5 DEF PowerCut
  <2> QED
    BY <1>3, <2>3, <2>4, <2>5 DEF Cuts
<1>4. CASE Tick
  <2>1. ASSUME NEW b \in Browsers
        PROVE  Older(session[b]) \in Session \cup {NoCookie}
    BY DEF Left, Older, CookieAge, Session
  <2> QED
    BY <1>4, <2>1 DEF Tick, bounds
<1>5. CASE ClockWriteback
  BY <1>5 DEF ClockWriteback, SavedFlushed, bounds
<1>6. CASE Restore \/ Reboot
  <2>1. CASE Restore
    <3>1. clock' \in 0..MaxTime
      BY <2>1 DEF Restore
    <3> QED
      BY <2>1, <3>1 DEF Restore, bounds
  <2>2. CASE Reboot
    BY <2>2 DEF Reboot, bounds
  <2> QED
    BY <1>6, <2>1, <2>2
<1>7. CASE Cron
  BY <1>7 DEF Cron, Proceed, Writer, bounds
<1>8. CASE \E w \in Writers : WriterStep(w)
  <2>1. PICK w \in Writers : WriterStep(w)
    BY <1>8
  <2>2. CASE Open(w)
    BY <2>2 DEF Open, Proceed, Writer, bounds
  <2>3. CASE ReadClock(w)
    BY <2>3 DEF ReadClock, Writer, bounds
  <2>4. CASE Write(w)
    BY <1>0, <2>4 DEF Write, Writer, bounds
  <2>5. CASE WriteFails(w)
    BY <1>0, <2>5 DEF WriteFails, Writer, bounds
  <2> QED
    BY <2>1, <2>2, <2>3, <2>4, <2>5 DEF WriterStep
<1> QED
  BY <1>1, <1>2, <1>3, <1>4, <1>5, <1>6, <1>7, <1>8, ClockSteps

LEMMA ClockLeft ==
  ASSUME ClockInv, ClockNext
  PROVE  Left'
<1> USE ClockAssumption DEF ClockInv, ClockTypeOK, Times, Left, Session
<1> SUFFICES ASSUME NEW b \in Browsers, session'[b] # NoCookie
             PROVE  /\ session'[b].age < TTL
                    /\ session'[b].signed => hub' = "up"
                    /\ session'[b].signed /\ ~session'[b].forward =>
                          TTL - session'[b].age <= session'[b].exp - clock'
  OBVIOUS
<1>1. CASE ByHand
  <2>1. PICK e \in 0..(MaxTime + 1) : SetClock(e) /\ hub' = hub
    BY <1>1 DEF ByHand, Command, SetTime
  <2>2. CASE clock < e
    BY <2>1, <2>2 DEF SetClock
  <2>3. CASE ~(clock < e)
    BY <2>1, <2>3 DEF SetClock
  <2> QED
    BY <2>2, <2>3
<1>2. CASE Logins
  BY <1>2 DEF Logins, Login, Logout, Expiry
<1>3. CASE Cuts
  BY <1>3 DEF Cuts, UIRestarts, Shutdown, PowerCut, Unsign
<1>4. CASE Tick
  <2>1. session[b] # NoCookie /\ session[b].age + 1 # TTL /\ session'[b] = [session[b] EXCEPT !.age = @ + 1]
    BY <1>4 DEF Tick, Older, CookieAge
  <2>2. session'[b].age = session[b].age + 1 /\ session'[b].exp = session[b].exp
        /\ session'[b].signed = session[b].signed /\ session'[b].forward = session[b].forward
    BY <2>1
  <2> QED
    BY <1>4, <2>1, <2>2 DEF Tick
<1>5. CASE ClockWriteback \/ Restore \/ Reboot \/ Cron
  BY <1>5 DEF ClockWriteback, Restore, Reboot, Cron
<1>6. CASE \E w \in Writers : WriterStep(w)
  BY <1>6 DEF WriterStep, Open, ReadClock, Write, WriteFails
<1> QED
  BY <1>1, <1>2, <1>3, <1>4, <1>5, <1>6, ClockSteps

LEMMA ClockSaved ==
  ASSUME ClockInv, ClockNext
  PROVE  SavedIsPast'
<1> USE ClockAssumption DEF ClockInv, ClockTypeOK, Times, SavedIsPast, At,
            Writers, ClockSetters
<1>1. CASE ByHand
  BY <1>1 DEF ByHand, Command, SetTime, Persists
<1>2. CASE Logins
  BY <1>2 DEF Logins, Login, Logout
<1>3. CASE Cuts
  BY <1>3 DEF Cuts, UIRestarts, Shutdown, PowerCut
<1>4. CASE Tick
  BY <1>4 DEF Tick
<1>5. CASE ClockWriteback \/ Restore \/ Reboot
  BY <1>5 DEF ClockWriteback, Restore, Reboot
<1>6. CASE Cron
  BY <1>6 DEF Cron, Proceed
<1>7. CASE \E w \in Writers : WriterStep(w)
  <2>1. PICK w \in Writers : WriterStep(w)
    BY <1>7
  <2>2. CASE Open(w)
    BY <2>2 DEF Open
  <2>3. CASE ReadClock(w)
    BY <2>3 DEF ReadClock
  <2>4. CASE Write(w)
    <3>1. ~behind' => ~(clock < writer[w].value)
      BY <2>4 DEF Write, Ahead
    <3> QED
      BY <2>4, <3>1 DEF Write, Writer
  <2>5. CASE WriteFails(w)
    BY <2>5 DEF WriteFails
  <2> QED
    BY <2>1, <2>2, <2>3, <2>4, <2>5 DEF WriterStep
<1> QED
  BY <1>1, <1>2, <1>3, <1>4, <1>5, <1>6, <1>7, ClockSteps

LEMMA ClockInvAlways == ClockSpec => []ClockInv
<1>1. ClockInit => ClockInv
  <2>1. Resting \in Writer
    BY ClockAssumption DEF Resting, Writer, Times
  <2> SUFFICES ASSUME ClockInit PROVE ClockInv
    OBVIOUS
  <2>2. ClockTypeOK
    <3>1. writer \in [Writers -> Writer]
      BY <2>1 DEF ClockInit
    <3>2. session \in [Browsers -> Session \cup {NoCookie}]
      BY DEF ClockInit
    <3>3. clock \in Times /\ sets \in 0..MaxSets /\ ends \in 0..MaxEnds
      BY ClockAssumption DEF ClockInit, Times
    <3> QED
      BY <3>1, <3>2, <3>3 DEF ClockInit, ClockTypeOK
  <2>3. Left /\ SavedIsPast
    BY DEF ClockInit, Left, SavedIsPast
  <2> QED
    BY <2>2, <2>3 DEF ClockInv
<1>2. ClockInv /\ [ClockNext]_clockVars => ClockInv'
  <2>1. CASE ClockNext
    BY <2>1, ClockTypes, ClockLeft, ClockSaved DEF ClockInv
  <2>2. CASE UNCHANGED clockVars
    BY <2>2 DEF clockVars, ClockInv, ClockTypeOK, Left, SavedIsPast, At
  <2> QED
    BY <2>1, <2>2
<1> QED
  BY <1>1, <1>2, PTL DEF ClockSpec

(* Every variable of the clock keeps its type; in particular a cookie is   *)
(* never older than its MaxAge, and no setter leaves the model's range.    *)
THEOREM ClockTypeCorrect == ClockSpec => []ClockTypeOK
<1>1. ClockInv => ClockTypeOK
  BY DEF ClockInv
<1> QED
  BY <1>1, ClockInvAlways, PTL

(* Once the setters have replied, fake-hwclock is not ahead of the clock,  *)
(* unless a save failed or a writer had the earlier time in hand.          *)
THEOREM SavedStaysPast == ClockSpec => []SavedIsPast
<1>1. ClockInv => SavedIsPast
  BY DEF ClockInv
<1> QED
  BY <1>1, ClockInvAlways, PTL

(* A browser that has its cookie is accepted until the UI restarts or the  *)
(* clock is set forward, and not for longer than a session lasts.          *)
THEOREM LoginsLast == ClockSpec => []LoginLasts
<1>1. ClockInv => LoginLasts
  BY ClockAssumption
  DEF ClockInv, Left, LoginLasts, Accepted, ClockTypeOK, Session, Times
<1> QED
  BY <1>1, ClockInvAlways, PTL
=============================================================================
