------------------------- MODULE LogRotationProofs -------------------------
(***************************************************************************)
(* Rotation for every directory list, volume size, budget and number of    *)
(* lines: OnlyLateLinesLost, CompressedOnce, the types, and ArchivesFit.   *)
(* The first invariant adds to OnlyLateLinesLost what the steps between    *)
(* the copy and the unlink rely on: at the truncation the archive holds    *)
(* every line of the log but the late ones, and at the unlink the .gz      *)
(* holds the archive.                                                      *)
(***************************************************************************)
EXTENDS LogRotation, FiniteSetTheorems, WellFoundedInduction, TLAPS

InDir ==
    /\ todo \in Seq(Services)
    /\ pc \in Steps \ {"prune", "budget"} => todo # <<>>

Shapes ==
    /\ next \in Nat \ {0}
    /\ live \in [Services -> SUBSET Nat]
    /\ raw \in Seq(SUBSET Nat)
    /\ archive \subseteq Nat

Copied ==
    /\ pc = "truncate" => live[dir] \subseteq archive \cup late
    /\ pc = "unlink" => archive \subseteq GzLines(gz)

RotationInv == InDir /\ Shapes /\ Copied /\ OnlyLateLinesLost

(* Line l has not been lost. *)
Somewhere(l) ==
    \/ \E s \in Services : l \in live[s]
    \/ \E i \in DOMAIN raw : l \in raw[i]
    \/ l \in archive
    \/ l \in GzLines(gz)
    \/ l \in late \cup dropped

LEMMA LineByLine == OnlyLateLinesLost <=> \A l \in 1..(next - 1) : Somewhere(l)
  BY DEF OnlyLateLinesLost, Somewhere

LEMMA RotationInit == Init => RotationInv
  BY RotationAssumption
  DEF Init, RotationInv, InDir, Shapes, Copied, OnlyLateLinesLost, Services, GzLines, Steps

(* The directory list of a run shrinks from the front. *)
LEMMA InDirStep == RotationInv /\ [Next]_vars => InDir'
<1> SUFFICES ASSUME RotationInv, [Next]_vars PROVE InDir'
  OBVIOUS
<1> USE DEF RotationInv, InDir, Steps
<1>1. CASE UNCHANGED vars
  BY <1>1 DEF vars
<1>2. CASE RunStart
  <2>1. Service \in Seq(Services)
    BY RotationAssumption DEF Services
  <2> QED
    BY <1>2, <2>1 DEF RunStart
<1>3. CASE Expire
  <2>1. todo # <<>>
    BY <1>3 DEF Expire
  <2>2. Tail(todo) \in Seq(Services) /\ Len(Tail(todo)) = Len(todo) - 1
    BY <2>1
  <2>3. Len(todo) # 1 => Tail(todo) # <<>>
    <3>1. Len(<<>>) = 0
      OBVIOUS
    <3>2. Len(todo) \in Nat
      OBVIOUS
    <3>3. ASSUME Tail(todo) = <<>> PROVE Len(Tail(todo)) = 0
      BY <3>1, <3>3, Zenon
    <3> QED
      BY <2>2, <3>2, <3>3
  <2> QED
    BY <1>3, <2>2, <2>3 DEF Expire, LastDir
<1>4. CASE \E s \in Services : WriteLine(s)
  BY <1>4 DEF WriteLine, run
<1>5. CASE Killed
  BY <1>5 DEF Killed, Abort
<1>6. CASE Reboot
  BY <1>6 DEF Reboot
<1>7. CASE Rotate \/ CopyLine \/ CopyEnd \/ CopyFails \/ Truncate
  <2>1. <<>> \in Seq(Services)
    OBVIOUS
  <2> QED
    BY <1>7, <2>1 DEF Rotate, CopyLine, CopyEnd, CopyFails, Truncate, Abort
<1>8. CASE Gzip \/ GzipFails \/ Unlink \/ Prune \/ Budget
  <2>1. <<>> \in Seq(Services)
    OBVIOUS
  <2> QED
    BY <1>8, <2>1 DEF Gzip, GzipFails, Unlink, Prune, Budget, Abort
<1> QED
  BY <1>1, <1>2, <1>3, <1>4, <1>5, <1>6, <1>7, <1>8 DEF Next, Run

LEMMA ShapesStep == RotationInv /\ [Next]_vars => Shapes'
<1> SUFFICES ASSUME RotationInv, [Next]_vars PROVE Shapes'
  OBVIOUS
<1> USE DEF RotationInv, Shapes
<1>0. Stray \in Seq(SUBSET Nat)
  <2>1. archive \in SUBSET Nat
    OBVIOUS
  <2>2. Append(raw, archive) \in Seq(SUBSET Nat)
    BY <2>1
  <2> QED
    BY <2>2 DEF Stray
<1>1. CASE UNCHANGED vars
  BY <1>1 DEF vars
<1>2. CASE \E s \in Services : WriteLine(s)
  BY <1>2 DEF WriteLine, run
<1>3. CASE Killed \/ CopyFails \/ GzipFails
  BY <1>0, <1>3 DEF Killed, CopyFails, GzipFails, Abort
<1>4. CASE Reboot
  BY <1>4 DEF Reboot
<1>5. CASE CopyLine
  <2>1. dir \in Services
    BY <1>5 DEF CopyLine, InDir, Steps, dir
  <2>2. live[dir] \subseteq Nat
    BY <2>1
  <2> QED
    BY <1>5, <2>2 DEF CopyLine, files
<1>6. CASE Truncate
  BY <1>6 DEF Truncate, Truncated
<1>7. CASE RunStart \/ Rotate \/ CopyEnd \/ Gzip \/ Unlink \/ Expire \/ Prune \/ Budget
  BY <1>7 DEF RunStart, Rotate, CopyEnd, Gzip, Unlink, Expire, Prune, Budget, files, clock
<1> QED
  BY <1>1, <1>2, <1>3, <1>4, <1>5, <1>6, <1>7 DEF Next, Run

(* A line that reaches the log after the copy is late. *)
LEMMA CopiedStep == RotationInv /\ [Next]_vars => Copied'
<1> SUFFICES ASSUME RotationInv, [Next]_vars PROVE Copied'
  OBVIOUS
<1> USE DEF RotationInv, Copied, dir
<1>1. CASE UNCHANGED vars
  BY <1>1 DEF vars, GzLines
<1>2. CASE \E s \in Services : WriteLine(s)
  BY <1>2 DEF WriteLine, run, GzLines, Shapes, InDir, Steps
<1>3. CASE CopyEnd
  BY <1>3 DEF CopyEnd, CopyDone, files
<1>4. CASE Gzip
  BY <1>4 DEF Gzip, GzLines, NewGz
<1>5. CASE Killed \/ CopyFails \/ GzipFails \/ Reboot \/ RunStart \/ Rotate \/ CopyLine
  BY <1>5 DEF Killed, CopyFails, GzipFails, Abort, Reboot, RunStart, Rotate, CopyLine
<1>6. CASE Truncate \/ Unlink \/ Expire \/ Prune \/ Budget
  BY <1>6 DEF Truncate, Unlink, Expire, Prune, Budget
<1> QED
  BY <1>1, <1>2, <1>3, <1>4, <1>5, <1>6 DEF Next, Run

(* Every step leaves every line somewhere. *)
LEMMA LinesStep == RotationInv /\ [Next]_vars => OnlyLateLinesLost'
<1>1. OnlyLateLinesLost' <=> \A l \in 1..(next' - 1) : Somewhere(l)'
  BY DEF OnlyLateLinesLost, Somewhere
<1> SUFFICES ASSUME RotationInv, [Next]_vars, NEW l \in 1..(next' - 1)
             PROVE  Somewhere(l)'
  BY <1>1
<1> USE DEF RotationInv
<1>2. l \in 1..(next - 1) => Somewhere(l)
  BY LineByLine
<1>3. CASE UNCHANGED vars
  BY <1>2, <1>3 DEF vars, Somewhere, GzLines
<1>4. ASSUME NEW s \in Services, WriteLine(s) PROVE Somewhere(l)'
  <2>1. next' = next + 1 /\ next \in Nat
    BY <1>4 DEF WriteLine, Shapes
  <2>2. CASE l = next
    BY <1>4, <2>2 DEF WriteLine, Somewhere, Shapes
  <2>3. CASE l # next
    <3>1. l \in 1..(next - 1)
      BY <2>1, <2>3
    <3> QED
      BY <1>2, <1>4, <3>1 DEF WriteLine, run, Somewhere, Shapes, GzLines
  <2> QED
    BY <2>2, <2>3
<1>5. ASSUME next' = next, raw' = Stray, live' = live, late' = late, dropped' = dropped,
             GzLines(gz) \subseteq GzLines(gz')
      PROVE  Somewhere(l)'
  <2>1. \A i \in DOMAIN raw : i \in DOMAIN Stray /\ Stray[i] = raw[i]
    BY DEF Stray, Shapes
  <2>2. archive # {} => \E i \in DOMAIN Stray : Stray[i] = archive
    <3>1. archive \in SUBSET Nat
      BY DEF Shapes
    <3>2. /\ Len(raw) + 1 \in DOMAIN Append(raw, archive)
          /\ Append(raw, archive)[Len(raw) + 1] = archive
      BY <3>1 DEF Shapes
    <3> QED
      BY <3>2 DEF Stray
  <2> QED
    BY <1>2, <1>5, <2>1, <2>2 DEF Somewhere
<1>6. CASE Killed \/ CopyFails
  BY <1>5, <1>6 DEF Killed, CopyFails, Abort, history
<1>7. CASE GzipFails
  BY <1>5, <1>7 DEF GzipFails, Abort, history, GzLines
<1>8. CASE Reboot
  BY <1>8 DEF Reboot, Somewhere
<1>9. CASE RunStart \/ Rotate \/ CopyLine \/ CopyEnd
  BY <1>2, <1>9
  DEF RunStart, Rotate, CopyLine, CopyEnd, files, history, Somewhere, GzLines
<1>10. CASE Truncate
  <2>1. dir \in Services /\ live[dir] \subseteq archive \cup late
    BY <1>10 DEF Truncate, Copied, InDir, Steps, dir
  <2> QED
    BY <1>2, <1>10, <2>1 DEF Truncate, Truncated, Shapes, history, Somewhere, GzLines
<1>11. CASE Gzip
  BY <1>2, <1>11 DEF Gzip, history, Somewhere, GzLines
<1>12. CASE Unlink
  BY <1>2, <1>12 DEF Unlink, Copied, files, history, Somewhere, GzLines
<1>13. CASE Expire \/ Prune \/ Budget
  BY <1>2, <1>13 DEF Expire, Prune, Budget, Somewhere
<1> QED
  BY <1>3, <1>4, <1>6, <1>7, <1>8, <1>9, <1>10, <1>11, <1>12, <1>13 DEF Next, Run

(***************************************************************************)
(* Rotation loses only the lines written between the end of a copy and the *)
(* truncation, and what the retention and the budgets delete.              *)
(***************************************************************************)
THEOREM RotationKeepsLines == Spec => []OnlyLateLinesLost
<1>1. RotationInv /\ [Next]_vars => RotationInv'
  BY InDirStep, ShapesStep, CopiedStep, LinesStep DEF RotationInv
<1>2. RotationInv => OnlyLateLinesLost
  BY DEF RotationInv
<1> QED
  BY RotationInit, <1>1, <1>2, PTL DEF Spec

-----------------------------------------------------------------------------
(***************************************************************************)
(* CompressedOnce.  A line is in one live log or in one .gz, never in both:*)
(* by the time an archive is compressed its lines have left the live log.  *)
(***************************************************************************)
Written(lines) == lines \subseteq 1..(next - 1)

LiveApart ==
    /\ \A s \in Services : Written(live[s])
    /\ \A s, t \in Services : s # t => live[s] \cap live[t] = {}

GzApart ==
    /\ Written(GzLines(gz))
    /\ \A s \in Services : live[s] \cap GzLines(gz) = {}

ArchiveOrigin ==
    /\ pc \notin {"copy", "truncate", "gzip", "unlink"} => archive = {}
    /\ pc \in {"copy", "truncate"} => archive \subseteq live[dir]
    /\ pc = "gzip" =>
         /\ Written(archive) /\ archive \cap GzLines(gz) = {}
         /\ \A s \in Services : archive \cap live[s] = {}

OnceInv ==
    /\ InDir /\ Shapes
    /\ LiveApart /\ GzApart /\ ArchiveOrigin /\ CompressedOnce

(* The .gz files only ever shrink but for the one Gzip adds. *)
LEMMA GzStep ==
    ASSUME gz' \subseteq gz
    PROVE  GzLines(gz') \subseteq GzLines(gz) /\ (CompressedOnce => CompressedOnce')
  BY DEF GzLines, CompressedOnce

LEMMA LiveApartStep == RotationInv /\ OnceInv /\ [Next]_vars => LiveApart'
<1> SUFFICES ASSUME RotationInv, OnceInv, [Next]_vars PROVE LiveApart'
  OBVIOUS
<1> USE DEF OnceInv, LiveApart, Written, Shapes
<1>1. CASE UNCHANGED vars
  BY <1>1 DEF vars
<1>2. CASE \E s \in Services : WriteLine(s)
  BY <1>2 DEF WriteLine
<1>3. CASE Reboot
  BY <1>3 DEF Reboot
<1>4. CASE Truncate
  BY <1>4 DEF Truncate, Truncated
<1>5. CASE Killed \/ CopyFails \/ GzipFails \/ Gzip \/ Expire \/ Prune \/ Budget
  BY <1>5 DEF Killed, CopyFails, GzipFails, Gzip, Expire, Prune, Budget
<1>6. CASE RunStart \/ Rotate \/ CopyLine \/ CopyEnd \/ Unlink
  BY <1>6 DEF RunStart, Rotate, CopyLine, CopyEnd, Unlink, files
<1> QED
  BY <1>1, <1>2, <1>3, <1>4, <1>5, <1>6 DEF Next, Run

LEMMA GzApartStep == RotationInv /\ OnceInv /\ [Next]_vars => GzApart'
<1> SUFFICES ASSUME RotationInv, OnceInv, [Next]_vars PROVE GzApart'
  OBVIOUS
<1> USE DEF OnceInv, GzApart, Written, Shapes
<1>1. CASE UNCHANGED vars
  BY <1>1 DEF vars, GzLines
<1>2. CASE \E s \in Services : WriteLine(s)
  <2>1. GzLines(gz') = GzLines(gz)
    BY <1>2 DEF WriteLine, GzLines
  <2> QED
    BY <1>2, <2>1 DEF WriteLine
<1>3. CASE Reboot
  BY <1>3 DEF Reboot, GzLines
<1>4. CASE Truncate
  BY <1>4 DEF Truncate, Truncated, GzLines
<1>5. CASE Gzip
  <2>1. GzLines(gz') = GzLines(gz) \cup archive
    <3>1. NewGz(archive, Compressed(archive)).lines = archive
      BY DEF NewGz
    <3>2. gz' = gz \cup {NewGz(archive, Compressed(archive))}
      BY <1>5 DEF Gzip
    <3> QED
      BY <3>1, <3>2 DEF GzLines
  <2> QED
    BY <1>5, <2>1 DEF Gzip, ArchiveOrigin
<1>6. CASE GzipFails
  <2>1. GzLines(gz') = GzLines(gz)
    BY <1>6 DEF GzipFails, GzLines, NewGz
  <2> QED
    BY <1>6, <2>1 DEF GzipFails
<1>7. CASE Expire \/ Prune \/ Budget
  <2>1. gz' \subseteq gz
    BY <1>7 DEF Expire, Prune, Budget, Newest
  <2> QED
    BY <1>7, <2>1, GzStep DEF Expire, Prune, Budget, clock
<1>8. CASE Killed \/ CopyFails \/ RunStart \/ Rotate \/ CopyLine \/ CopyEnd \/ Unlink
  BY <1>8
  DEF Killed, CopyFails, RunStart, Rotate, CopyLine, CopyEnd, Unlink, files, GzLines
<1> QED
  BY <1>1, <1>2, <1>3, <1>4, <1>5, <1>6, <1>7, <1>8 DEF Next, Run

LEMMA ArchiveStep == RotationInv /\ OnceInv /\ [Next]_vars => ArchiveOrigin'
<1> SUFFICES ASSUME RotationInv, OnceInv, [Next]_vars PROVE ArchiveOrigin'
  OBVIOUS
<1> USE DEF OnceInv, ArchiveOrigin, Written, Shapes, dir
<1>1. CASE UNCHANGED vars
  BY <1>1 DEF vars, GzLines
<1>2. CASE \E s \in Services : WriteLine(s)
  BY <1>2 DEF WriteLine, run, GzLines, GzApart, InDir, Steps
<1>3. CASE Killed \/ CopyFails \/ GzipFails \/ Reboot
  BY <1>3 DEF Killed, CopyFails, GzipFails, Abort, Reboot
<1>4. CASE RunStart \/ Rotate \/ Unlink \/ Expire \/ Prune \/ Budget
  BY <1>4 DEF RunStart, Rotate, Unlink, Expire, Prune, Budget
<1>5. CASE CopyLine \/ CopyEnd
  BY <1>5 DEF CopyLine, CopyEnd, files
<1>6. CASE Truncate
  <2>1. dir \in Services
    BY <1>6 DEF Truncate, InDir, Steps
  <2>2. /\ Written(archive) /\ archive \cap GzLines(gz) = {}
        /\ \A s \in Services : s # dir => archive \cap live[s] = {}
    BY <1>6, <2>1 DEF Truncate, LiveApart, GzApart
  <2> QED
    BY <1>6, <2>1, <2>2 DEF Truncate, Truncated, GzLines
<1>7. CASE Gzip
  BY <1>7 DEF Gzip
<1> QED
  BY <1>1, <1>2, <1>3, <1>4, <1>5, <1>6, <1>7 DEF Next, Run

LEMMA OnceStep == RotationInv /\ OnceInv /\ [Next]_vars => CompressedOnce'
<1> SUFFICES ASSUME RotationInv, OnceInv, [Next]_vars PROVE CompressedOnce'
  OBVIOUS
<1> USE DEF OnceInv
<1>1. CASE UNCHANGED vars
  BY <1>1, GzStep DEF vars
<1>2. CASE Gzip
  <2>1. \A f \in gz : f.lines \cap archive = {}
    BY <1>2 DEF Gzip, ArchiveOrigin, GzLines
  <2> QED
    BY <1>2, <2>1 DEF Gzip, NewGz, CompressedOnce
<1>3. CASE GzipFails
  BY <1>3 DEF GzipFails, NewGz, CompressedOnce
<1>4. CASE Expire \/ Prune \/ Budget \/ Reboot
  <2>1. gz' \subseteq gz
    BY <1>4 DEF Expire, Prune, Budget, Newest, Reboot
  <2> QED
    BY <2>1, GzStep
<1>5. CASE ~(Gzip \/ GzipFails \/ Expire \/ Prune \/ Budget \/ Reboot) /\ Next
  <2>1. gz' = gz
    BY <1>5
    DEF Next, Run, WriteLine, Killed, RunStart, Rotate, CopyLine, CopyEnd, CopyFails,
        Truncate, Unlink, files
  <2> QED
    BY <2>1, GzStep
<1> QED
  BY <1>1, <1>2, <1>3, <1>4, <1>5

(***************************************************************************)
(* However often runs are killed, no line is compressed twice.             *)
(***************************************************************************)
THEOREM RotationCompressesOnce == Spec => []CompressedOnce
<1>1. Init => OnceInv
  BY RotationInit
  DEF Init, OnceInv, RotationInv, LiveApart, GzApart, ArchiveOrigin, CompressedOnce,
      Written, GzLines
<1>2. RotationInv /\ [Next]_vars => RotationInv'
  BY InDirStep, ShapesStep, CopiedStep, LinesStep DEF RotationInv
<1>3. RotationInv /\ OnceInv /\ [Next]_vars => OnceInv'
  BY InDirStep, ShapesStep, LiveApartStep, GzApartStep, ArchiveStep, OnceStep
  DEF OnceInv
<1>4. OnceInv => CompressedOnce
  BY DEF OnceInv
<1> QED
  BY RotationInit, <1>1, <1>2, <1>3, <1>4, PTL DEF Spec

-----------------------------------------------------------------------------
(***************************************************************************)
(* Types, and ArchivesFit.  A size is the number of blocks, so that the    *)
(* sums over files are cardinalities of finite sets.  The least budgeted   *)
(* time is one at which the rest fits, or it is now, and no .gz is from    *)
(* now on.                                                                 *)
(***************************************************************************)
(* The least of some numbers is one of them.                               *)
LEMMA Least ==
  ASSUME NEW S \in SUBSET Nat, S # {}
  PROVE  Min(S) \in S
<1>1. \E x \in S : \A y \in S : ~(<<y, x>> \in OpToRel(<, Nat))
  BY NatLessThanWellFounded, WFMin, Zenon
<1>2. PICK x \in S : \A y \in S : ~(<<y, x>> \in OpToRel(<, Nat))
  BY <1>1
<1>3. ASSUME NEW y \in S PROVE x <= y
  <2>1. <<y, x>> \in Nat \X Nat
    OBVIOUS
  <2>2. ~(y < x)
    BY <1>2, <2>1 DEF OpToRel
  <2> QED
    BY <2>2
<1> QED
  BY <1>3 DEF Min

\* every .gz was written before now, and together they have finitely many blocks
GzCounted ==
    /\ IsFiniteSet(Blocks(gz))
    /\ \A f \in gz : f.mod < now

TypeInv == TypeOK /\ GzCounted

LEMMA LineFinite ==
  ASSUME NEW lines \in SUBSET Line
  PROVE  IsFiniteSet(lines) /\ Cardinality(lines) \in Nat
<1>1. IsFiniteSet(Line)
  <2>1. 1 \in Int /\ MaxLine \in Int
    BY RotationAssumption
  <2> QED
    BY <2>1, FS_Interval DEF Line
<1> QED
  BY <1>1, FS_Subset, FS_CardinalityType

LEMMA ServicesFinite == IsFiniteSet(Services)
<1>1. IsFiniteSet(DOMAIN Service)
  <2>1. Len(Service) \in Nat /\ DOMAIN Service = 1..Len(Service)
    BY RotationAssumption
  <2> QED
    BY <2>1, FS_Interval
<1>2. Service \in Surjection(DOMAIN Service, Services)
  BY RotationAssumption DEF Surjection, Services
<1> QED
  BY <1>1, <1>2, FS_Surjection

(* Sizes are numbers, so that what is left of the volume is one.           *)
LEMMA FreeType ==
  ASSUME TypeInv
  PROVE  LiveTotal \in Nat /\ GzTotal(gz) \in Nat /\ Free \in Int
<1> USE DEF TypeInv, TypeOK
<1>0. IsFiniteSet(Line)
  BY LineFinite
<1>1. LiveTotal \in Nat
  <2>1. UNION {{s} \X live[s] : s \in Services} \subseteq Services \X Line
    OBVIOUS
  <2>2. IsFiniteSet(Services \X Line)
    BY <1>0, ServicesFinite, FS_Product
  <2> QED
    BY <2>1, <2>2, FS_Subset, FS_CardinalityType DEF LiveTotal
<1>2. RawTotal \in Nat
  <2>1. Len(raw) \in Nat /\ DOMAIN raw = 1..Len(raw) /\ \A i \in DOMAIN raw : raw[i] \subseteq Line
    OBVIOUS
  <2>2. UNION {{i} \X raw[i] : i \in DOMAIN raw} \subseteq (1..Len(raw)) \X Line
    BY <2>1
  <2>3. IsFiniteSet((1..Len(raw)) \X Line)
    <3>1. IsFiniteSet(1..Len(raw))
      BY <2>1, FS_Interval
    <3> QED
      BY <1>0, <3>1, FS_Product
  <2> QED
    BY <2>2, <2>3, FS_Subset, FS_CardinalityType DEF RawTotal
<1>3. GzTotal(gz) \in Nat
  BY FS_CardinalityType DEF GzCounted, GzTotal
<1>4. Cardinality(archive) \in Nat
  BY LineFinite
<1> QED
  BY <1>1, <1>2, <1>3, <1>4, RotationAssumption DEF Free

(* Fewer .gz files are no larger.                                          *)
LEMMA Smaller ==
  ASSUME GzCounted, NEW some \in SUBSET gz
  PROVE  IsFiniteSet(Blocks(some)) /\ GzTotal(some) <= GzTotal(gz)
<1>1. Blocks(some) \subseteq Blocks(gz)
  BY DEF Blocks
<1> QED
  BY <1>1, FS_Subset DEF GzCounted, GzTotal

(* One more .gz leaves them finitely many blocks.                          *)
LEMMA OneMore ==
  ASSUME GzCounted, NEW f, f.size \in Nat
  PROVE  IsFiniteSet(Blocks(gz \cup {f}))
<1>1. Blocks(gz \cup {f}) = Blocks(gz) \cup ({f} \X (1..f.size))
  BY DEF Blocks
<1>2. IsFiniteSet({f} \X (1..f.size))
  <2>1. IsFiniteSet({f})
    BY FS_Singleton
  <2>2. IsFiniteSet(1..f.size)
    BY FS_Interval
  <2> QED
    BY <2>1, <2>2, FS_Product
<1> QED
  <2>1. IsFiniteSet(Blocks(gz))
    BY DEF GzCounted
  <2>2. IsFiniteSet(Blocks(gz) \cup ({f} \X (1..f.size)))
    BY <1>2, <2>1, FS_Union
  <2> QED
    BY <1>1, <2>2

(* A .gz written now.                                                      *)
LEMMA GzAdded ==
  ASSUME TypeInv, dir \in Services, NEW lines \in SUBSET Line, NEW size \in Nat,
         gz' = gz \cup {NewGz(lines, size)}, now' = now + 1
  PROVE  gz' \in SUBSET Gz /\ now' \in Nat /\ GzCounted'
<1> DEFINE f == NewGz(lines, size)
<1>1. f \in Gz /\ f.size = size /\ f.mod = now
  BY DEF TypeInv, TypeOK, NewGz, Gz
<1>2. \A g \in gz : g.mod \in Nat
  BY DEF TypeInv, TypeOK, Gz
<1>3. IsFiniteSet(Blocks(gz'))
  BY <1>1, OneMore DEF TypeInv
<1>4. \A g \in gz' : g.mod < now'
  BY <1>1, <1>2 DEF TypeInv, TypeOK, GzCounted
<1>5. GzCounted'
  <2>1. Blocks(gz)' = Blocks(gz')
    BY DEF Blocks
  <2> QED
    BY <1>3, <1>4, <2>1 DEF GzCounted
<1>6. gz' \in SUBSET Gz
  BY <1>1 DEF TypeInv, TypeOK
<1> QED
  BY <1>5, <1>6 DEF TypeInv, TypeOK

(* .gz files deleted.                                                      *)
LEMMA GzGone ==
  ASSUME TypeInv, gz' \in SUBSET gz, now' = now
  PROVE  gz' \in SUBSET Gz /\ GzCounted' /\ GzTotal(gz)' <= GzTotal(gz)
         /\ GzLines(gz) \subseteq Line
<1>1. IsFiniteSet(Blocks(gz')) /\ GzTotal(gz') <= GzTotal(gz)
  BY Smaller DEF TypeInv
<1> QED
  BY <1>1 DEF TypeInv, TypeOK, GzCounted, GzTotal, GzLines, Gz

(* Every step keeps the types, and the .gz files countable.                *)
LEMMA TypeStep == RotationInv /\ TypeInv /\ [Next]_vars => TypeInv'
<1> SUFFICES ASSUME RotationInv, TypeInv, [Next]_vars PROVE TypeInv'
  OBVIOUS
<1> USE DEF TypeInv, TypeOK
<1>todo. todo' \in Seq(Services) /\ (pc' \in Steps \ {"prune", "budget"} => todo' # <<>>)
  BY InDirStep DEF InDir
<1>kept. GzCounted /\ gz' = gz /\ now' = now => GzCounted'
  BY DEF GzCounted, Blocks
<1>stray. Stray \in Seq(SUBSET Line)
  <2>1. archive \in SUBSET Line
    OBVIOUS
  <2>2. Append(raw, archive) \in Seq(SUBSET Line)
    BY <2>1
  <2> QED
    BY <2>2 DEF Stray
<1>dir. pc \in Steps \ {"prune", "budget"} => dir \in Services
  BY DEF dir
<1>1. CASE UNCHANGED vars
  BY <1>1, <1>kept DEF vars
<1>2. CASE \E s \in Services : WriteLine(s)
  <2>1. PICK s \in Services : WriteLine(s)
    BY <1>2
  <2>2. next \in Line /\ next + 1 \in 1..(MaxLine + 1)
    BY <2>1, RotationAssumption DEF WriteLine, Line
  <2> QED
    BY <1>todo, <1>kept, <2>1, <2>2 DEF WriteLine, run, clock
<1>3. CASE Killed \/ CopyFails
  BY <1>todo, <1>3, <1>kept, <1>stray DEF Killed, CopyFails, Abort, clock, history
<1>4. CASE Reboot
  <2>1. 1..(next - 1) \subseteq Line
    BY RotationAssumption DEF Line
  <2>2. Blocks({}) = {}
    BY DEF Blocks
  <2>3. GzCounted'
    BY <1>4, <2>2, FS_EmptySet DEF Reboot, GzCounted
  <2>4. <<>> \in Seq(SUBSET Line)
    OBVIOUS
  <2> QED
    BY <1>todo, <1>4, <2>1, <2>3, <2>4 DEF Reboot, clock
<1>5. CASE RunStart \/ Rotate \/ CopyEnd \/ Unlink
  BY <1>todo, <1>5, <1>kept DEF RunStart, Rotate, CopyEnd, Unlink, files, clock, history, Steps
<1>6. CASE CopyLine
  <2>1. live[dir] \subseteq Line
    BY <1>6, <1>dir DEF CopyLine, Steps
  <2> QED
    BY <1>todo, <1>6, <1>kept, <2>1 DEF CopyLine, files, clock, history
<1>7. CASE Truncate
  BY <1>todo, <1>7, <1>kept DEF Truncate, Truncated, clock, history, Steps
<1>8. CASE Gzip
  <2>1. Compressed(archive) \in Nat
    BY LineFinite DEF Compressed
  <2>2. dir \in Services
    BY <1>8, <1>dir DEF Gzip, Steps
  <2>3. gz' \in SUBSET Gz /\ now' \in Nat /\ GzCounted'
    BY <1>8, <2>1, <2>2, GzAdded DEF Gzip
  <2>4. cutoff \in 0..now'
    BY <1>8 DEF Gzip
  <2> QED
    BY <1>todo, <1>8, <2>3, <2>4 DEF Gzip, history, Steps
<1>9. CASE GzipFails
  <2>1. dir \in Services
    BY <1>9, <1>dir DEF GzipFails, Steps
  <2>2. gz' \in SUBSET Gz /\ now' \in Nat /\ GzCounted'
    <3>1. CASE Full
      <4>1. gz' = gz /\ now' = now + 1
        BY <1>9, <3>1 DEF GzipFails
      <4>2. \A g \in gz : g.mod \in Nat
        BY DEF Gz
      <4>3. \A g \in gz : g.mod < now'
        BY <4>1, <4>2 DEF GzCounted
      <4> QED
        BY <4>1, <4>3 DEF GzCounted
    <3>2. CASE ~Full
      <4>1. Free \in Nat
        BY <3>2, FreeType DEF Full
      <4>2. gz' = gz \cup {NewGz({}, Free)} /\ now' = now + 1
        BY <1>9, <3>2 DEF GzipFails
      <4> QED
        BY <2>1, <4>1, <4>2, GzAdded
    <3> QED
      BY <3>1, <3>2
  <2>3. cutoff \in 0..now'
    BY <1>9 DEF GzipFails
  <2> QED
    BY <1>todo, <1>9, <1>stray, <2>2, <2>3 DEF GzipFails, Abort, history
<1>10. CASE Expire \/ Prune \/ Budget
  <2>1. gz' \in SUBSET gz /\ now' = now
    BY <1>10 DEF Expire, Prune, Budget, Newest, clock
  <2> QED
    BY <1>todo, <1>10, <2>1, GzGone DEF Expire, Prune, Budget, clock, Steps
<1> QED
  BY <1>1, <1>2, <1>3, <1>4, <1>5, <1>6, <1>7, <1>8, <1>9, <1>10 DEF Next, Run

\* the budget holds from the pruning on, to the next run
Fits ==
    pc = "budget" \/ (pc = "idle" /\ ok) => GzTotal(gz) <= MaxBytes

(* What is left when the oldest go fits, or is nothing.                    *)
LEMMA NewestFits ==
  ASSUME TypeInv
  PROVE  GzTotal(Newest(0, MaxBytes)) <= MaxBytes
<1> DEFINE since(t) == {f \in gz : f.mod >= t}
           times == {now} \cup {t \in 0..now : 0 + GzTotal(since(t)) <= MaxBytes}
<1>1. times \in SUBSET Nat /\ times # {}
  <2>1. now \in Nat /\ 0..now \subseteq Nat
    BY DEF TypeInv, TypeOK
  <2> HIDE DEF since
  <2> QED
    BY <2>1
<1>2. Min(times) \in times
  BY <1>1, Least
<1>3. Newest(0, MaxBytes) = since(Min(times))
  BY DEF Newest
<1>4. GzTotal(since(now)) = 0
  <2>1. \A f \in gz : f.mod \in Nat /\ f.mod < now
    BY DEF TypeInv, TypeOK, GzCounted, Gz
  <2>2. since(now) = {}
    BY <2>1 DEF TypeInv, TypeOK
  <2> QED
    BY <2>2, FS_EmptySet DEF GzTotal, Blocks
<1>5. \A t : since(t) \in SUBSET gz
  OBVIOUS
<1>6. GzTotal(since(Min(times))) \in Nat
  BY <1>5, Smaller, FS_CardinalityType DEF TypeInv, GzTotal
<1> HIDE DEF since
<1> QED
  BY <1>2, <1>3, <1>4, <1>6, RotationAssumption

LEMMA FitsStep == TypeInv /\ Fits /\ [Next]_vars => Fits'
<1> SUFFICES ASSUME TypeInv, Fits, [Next]_vars PROVE Fits'
  OBVIOUS
<1>1. CASE UNCHANGED vars
  BY <1>1 DEF vars, Fits, GzTotal, Blocks
<1>2. CASE \E s \in Services : WriteLine(s)
  BY <1>2 DEF WriteLine, run, Fits, GzTotal, Blocks
<1>3. CASE Killed \/ CopyFails \/ GzipFails
  BY <1>3 DEF Killed, CopyFails, GzipFails, Abort, Fits
<1>4. CASE Reboot
  <2>1. Blocks({}) = {} /\ gz' = {}
    BY <1>4 DEF Blocks, Reboot
  <2>2. GzTotal(gz)' = 0
    BY <2>1, FS_EmptySet DEF GzTotal
  <2> QED
    BY <2>2, RotationAssumption DEF Fits
<1>5. CASE RunStart \/ Rotate \/ CopyLine \/ CopyEnd \/ Truncate \/ Gzip \/ Unlink \/ Expire
  BY <1>5 DEF RunStart, Rotate, CopyLine, CopyEnd, Truncate, Gzip, Unlink, Expire, Fits
<1>6. CASE Prune
  <2>1. GzTotal(gz)' <= MaxBytes
    BY <1>6, NewestFits DEF Prune, GzTotal, Blocks
  <2> QED
    BY <2>1 DEF Fits
<1>7. CASE Budget
  <2>1. gz' \in SUBSET gz /\ now' = now
    BY <1>7 DEF Budget, Newest, clock
  <2>2. GzTotal(gz)' <= GzTotal(gz) /\ GzTotal(gz) <= MaxBytes
    BY <1>7, <2>1, GzGone DEF Budget, Fits
  <2>3. GzTotal(gz) \in Nat /\ GzTotal(gz)' \in Nat
    BY <2>1, GzGone, FreeType, FS_CardinalityType DEF GzCounted, GzTotal
  <2> QED
    BY <2>2, <2>3, RotationAssumption DEF Fits
<1> QED
  BY <1>1, <1>2, <1>3, <1>4, <1>5, <1>6, <1>7 DEF Next, Run

LEMMA TypeInit == Init => TypeInv /\ Fits
<1> SUFFICES ASSUME Init PROVE TypeInv /\ Fits
  OBVIOUS
<1>1. Blocks({}) = {}
  BY DEF Blocks
<1>2. GzCounted /\ GzTotal(gz) = 0
  BY <1>1, FS_EmptySet DEF Init, GzCounted, GzTotal
<1>3. next \in 1..(MaxLine + 1) /\ cutoff \in 0..now
  BY RotationAssumption DEF Init
<1> QED
  BY <1>2, <1>3, RotationAssumption DEF Init, TypeInv, TypeOK, Fits, Steps

LEMMA TypeInvAlways == Spec => [](RotationInv /\ TypeInv /\ Fits)
<1>1. RotationInv /\ [Next]_vars => RotationInv'
  BY InDirStep, ShapesStep, CopiedStep, LinesStep DEF RotationInv
<1> QED
  BY RotationInit, TypeInit, <1>1, TypeStep, FitsStep, PTL DEF Spec

(* Every variable of the rotation keeps its type; in particular a .gz that *)
(* was written in part has a size, and lines are those that were written.  *)
THEOREM TypeCorrect == Spec => []TypeOK
<1>1. TypeInv => TypeOK
  BY DEF TypeInv
<1> QED
  BY <1>1, TypeInvAlways, PTL

(* After a run that came to its end the .gz files fit -max-bytes, whatever *)
(* runs before it left behind.                                             *)
THEOREM ArchivesStayInBudget == Spec => []ArchivesFit
<1>1. Fits => ArchivesFit
  BY DEF Fits, ArchivesFit
<1> QED
  BY <1>1, TypeInvAlways, PTL
=============================================================================
