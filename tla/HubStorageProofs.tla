-------------------------- MODULE HubStorageProofs --------------------------
(***************************************************************************)
(* Proofs about HubStorage, for every set of items, every set of commands  *)
(* that may fail and every set of points where the power may be lost.      *)
(***************************************************************************)
EXTENDS HubStorage, TLAPS

(***************************************************************************)
(* A hub that is delivered satisfies every part of the invariant.          *)
(***************************************************************************)
LEMMA StorageInit == Init => StorageInv
<1> SUFFICES ASSUME Init PROVE StorageInv
  OBVIOUS
<1> USE StorageAssumption DEF Part
<1>1. TypeOK
  <2>1. PICK kind \in SdKinds :
          /\ fs = [p \in Part |-> IF p = Nvme THEN "absent"
                                 ELSE IF kind = "image" THEN "ext4" ELSE "raw"]
          /\ labelled = IF kind = "image" THEN {Sd} ELSE {}
          /\ view = [p \in Part |->
                       IF p = Sd THEN IF kind = "image" THEN {Layout} ELSE {} ELSE {}]
          /\ disk = [p \in Part |->
                       IF p = Sd THEN IF kind = "image" THEN {Layout} ELSE {} ELSE {}]
    BY DEF Init
  <2>2. fs \in [Part -> FsType] /\ labelled \subseteq Part
    BY <2>1 DEF FsType
  <2>3. view \in [Part -> SUBSET File] /\ disk \in [Part -> SUBSET File]
    BY <2>1 DEF File
  <2> QED
    BY <2>2, <2>3 DEF Init, TypeOK, PC
<1>2. MountOrder
  BY DEF Init, MountOrder, BeforeMount, Running, CopyWindow, SdKind
<1>3. ItemsOnExt4
  BY DEF Init, ItemsOnExt4, SdKind
<1>4. FormatHarmless /\ CopyOnlyAdds /\ NoPendingLoss /\ NothingDestroyed
  BY DEF Init, FormatHarmless, CopyOnlyAdds, NoPendingLoss, NothingDestroyed
<1>5. CacheOnlyIfMounted
  BY DEF Init, CacheOnlyIfMounted
<1> QED
  BY <1>1, <1>2, <1>3, <1>4, <1>5 DEF StorageInv

(***************************************************************************)
(* Every step keeps the types.                                             *)
(***************************************************************************)
LEMMA TypeStep == TypeOK /\ MountOrder /\ [Next]_vars => TypeOK'
<1> SUFFICES ASSUME TypeOK, MountOrder, [Next]_vars PROVE TypeOK'
  OBVIOUS
<1> USE StorageAssumption DEF TypeOK, PC, BootSteps, CopyWindow, FsType, Part, File,
      parts, mounts, history, Goto
<1>1. CASE Probe BY <1>1 DEF Probe
<1>2. CASE MountNvme BY <1>2 DEF MountNvme
<1>3. CASE ByLabel BY <1>3 DEF ByLabel
<1>4. CASE ByDevice BY <1>4 DEF ByDevice
<1>5. CASE SdFormat
  <2>1. misprobed' \in BOOLEAN
    BY <1>5, Zenon DEF SdFormat
  <2> QED
    BY <1>5, <2>1 DEF SdFormat, Wiped, Holds
<1>6. CASE SdMkfs BY <1>6 DEF SdMkfs, Formatted, MkfsType
<1>7. CASE Prepare BY <1>7 DEF Prepare
<1>8. CASE Inspect BY <1>8 DEF Inspect
<1>9. CASE Format BY <1>9 DEF Format, Wiped, Holds
<1>10. CASE Mkfs BY <1>10 DEF Mkfs, Formatted, MkfsType
<1>11. CASE MountTmp BY <1>11 DEF MountTmp
<1>12. CASE CopyFile BY <1>12 DEF CopyFile
<1>13. CASE CopyEnd BY <1>13 DEF CopyEnd
<1>14. CASE Mark
  <2>1. view' \in [Part -> SUBSET File]
    <3>1. CASE view' = [view EXCEPT ![Nvme] = @ \cup {Marker}] BY <3>1
    <3>2. CASE view' = view BY <3>2
    <3> QED BY <1>14, <3>1, <3>2 DEF Mark
  <2>2. rc' \in BOOLEAN
    BY <1>14, Zenon DEF Mark
  <2> QED
    BY <1>14, <2>1, <2>2 DEF Mark
<1>15. CASE UmountTmp BY <1>15 DEF UmountTmp, Flushed
<1>16. CASE Switch BY <1>16 DEF Switch, Flushed
<1>17. CASE SwitchMount BY <1>17 DEF SwitchMount
<1>18. CASE LayOut
  <2>1. view' \in [Part -> SUBSET File]
    <3>1. CASE view' = [p \in Part |-> IF p = data THEN view[p] \cup {Layout} ELSE view[p]]
      BY <3>1
    <3>2. CASE view' = view BY <3>2
    <3> QED BY <1>18, <3>1, <3>2 DEF LayOut
  <2>2. logs' \in BOOLEAN
    BY <1>18 DEF LayOut
  <2> QED
    BY <1>18, <2>1, <2>2 DEF LayOut
<1>19. CASE ResetLogs
  <2>1. todo' \subseteq File
    BY <1>19 DEF ResetLogs, WipeList, MountOrder, Running
  <2> QED
    BY <1>19, <2>1 DEF ResetLogs
<1>20. CASE WipeOne BY <1>20 DEF WipeOne
<1>21. CASE WipeEnd BY <1>21 DEF WipeEnd
<1>22. CASE Unmount BY <1>22 DEF Unmount
<1>23. CASE PowerOn BY <1>23 DEF PowerOn
<1>24. CASE InsertNvme BY <1>24 DEF InsertNvme, NvmeKind, Holds
<1>25. CASE PowerLoss
  <2>1. PICK onSd \in Mixtures(Sd), onNvme \in Mixtures(Nvme) :
          LET left == [p \in Part |-> IF p = Sd THEN onSd ELSE onNvme]
          IN view' = left /\ disk' = left /\ written' = written \cup Returned(left)
    BY <1>25 DEF PowerLoss
  <2>2. onSd \subseteq File /\ onNvme \subseteq File
    BY DEF Mixtures
  <2>3. view' \in [Part -> SUBSET File] /\ disk' \in [Part -> SUBSET File]
    BY <2>1, <2>2
  <2>4. written' \subseteq Items
    BY <2>1 DEF Returned
  <2> QED
    BY <1>25, <2>3, <2>4 DEF PowerLoss
<1>26. CASE Writeback BY <1>26 DEF Writeback, Flushed
<1>27. CASE \E i \in Items : Write(i) \/ Delete(i) BY <1>27 DEF Write, Delete
<1>28. CASE Shutdown \/ ResetStart BY <1>28 DEF Shutdown, ResetStart
<1>29. CASE UNCHANGED vars BY <1>29 DEF vars
<1> QED
  BY <1>1, <1>2, <1>3, <1>4, <1>5, <1>6, <1>7, <1>8, <1>9, <1>10, <1>11, <1>12,
     <1>13, <1>14, <1>15, <1>16, <1>17, <1>18, <1>19, <1>20, <1>21, <1>22, <1>23,
     <1>24, <1>25, <1>26, <1>27, <1>28, <1>29
     DEF Next, EarlyBoot, FactoryReset, Environment

(***************************************************************************)
(* What is mounted where, and that it is ext4, follows from the order of the *)
(* steps of early-boot.sh and prepare-nvme alone.                          *)
(***************************************************************************)
LEMMA MountOrderStep == TypeOK /\ MountOrder /\ [Next]_vars => MountOrder'
<1> SUFFICES ASSUME TypeOK, MountOrder, [Next]_vars PROVE MountOrder'
  OBVIOUS
<1> USE StorageAssumption DEF TypeOK, Part, parts, mounts, history, Goto, MountOrder,
      BeforeMount, Running, CopyWindow
<1>1. CASE Probe BY <1>1 DEF Probe, NvmeMigrated
<1>2. CASE MountNvme BY <1>2 DEF MountNvme
<1>3. CASE ByLabel BY <1>3 DEF ByLabel
<1>4. CASE ByDevice BY <1>4 DEF ByDevice
<1>5. CASE SdFormat BY <1>5 DEF SdFormat, Wiped, Holds
<1>6. CASE SdMkfs BY <1>6 DEF SdMkfs, Formatted, MkfsType
<1>7. CASE Prepare BY <1>7 DEF Prepare
<1>8. CASE Inspect BY <1>8 DEF Inspect, NeedFormat, LooksEmpty, RoMountable
<1>9. CASE Format BY <1>9 DEF Format, Wiped, Holds
<1>10. CASE Mkfs BY <1>10 DEF Mkfs, Formatted, MkfsType
<1>11. CASE MountTmp BY <1>11 DEF MountTmp
<1>12. CASE CopyFile BY <1>12 DEF CopyFile
<1>13. CASE CopyEnd BY <1>13 DEF CopyEnd, CopyComplete
<1>14. CASE Mark BY <1>14 DEF Mark
<1>15. CASE UmountTmp BY <1>15 DEF UmountTmp, Flushed
<1>16. CASE Switch BY <1>16 DEF Switch, NothingToSwitch, Flushed
<1>17. CASE SwitchMount BY <1>17 DEF SwitchMount
<1>18. CASE LayOut BY <1>18 DEF LayOut, LayoutFails
<1>19. CASE ResetLogs BY <1>19 DEF ResetLogs
<1>20. CASE WipeOne BY <1>20 DEF WipeOne
<1>21. CASE WipeEnd BY <1>21 DEF WipeEnd
<1>22. CASE Unmount BY <1>22 DEF Unmount
<1>23. CASE PowerOn BY <1>23 DEF PowerOn
<1>24. CASE InsertNvme BY <1>24 DEF InsertNvme, NvmeKind, Holds
<1>25. CASE PowerLoss BY <1>25 DEF PowerLoss, Mixtures
<1>26. CASE Writeback BY <1>26 DEF Writeback, Flushed
<1>27. CASE \E i \in Items : Write(i) \/ Delete(i) BY <1>27 DEF Write, Delete
<1>28. CASE Shutdown \/ ResetStart BY <1>28 DEF Shutdown, ResetStart
<1>29. CASE UNCHANGED vars BY <1>29 DEF vars
<1> QED
  BY <1>1, <1>2, <1>3, <1>4, <1>5, <1>6, <1>7, <1>8, <1>9, <1>10, <1>11, <1>12,
     <1>13, <1>14, <1>15, <1>16, <1>17, <1>18, <1>19, <1>20, <1>21, <1>22, <1>23,
     <1>24, <1>25, <1>26, <1>27, <1>28, <1>29
     DEF Next, EarlyBoot, FactoryReset, Environment

(***************************************************************************)
(* Items reach a partition through /data or through the copy mount, and both *)
(* are ext4 then; a format leaves no file.                                 *)
(***************************************************************************)
LEMMA ItemsOnExt4Step ==
  TypeOK /\ MountOrder /\ CacheOnlyIfMounted /\ ItemsOnExt4 /\ [Next]_vars
    => ItemsOnExt4'
<1> SUFFICES ASSUME TypeOK, MountOrder, CacheOnlyIfMounted, ItemsOnExt4, [Next]_vars
             PROVE  ItemsOnExt4'
  OBVIOUS
<1> USE StorageAssumption DEF TypeOK, Part, parts, mounts, history, Goto, MountOrder,
      ItemsOnExt4, Running, CopyWindow, BeforeMount
<1>1. CASE Probe BY <1>1 DEF Probe, NvmeMigrated
<1>2. CASE MountNvme BY <1>2 DEF MountNvme
<1>3. CASE ByLabel BY <1>3 DEF ByLabel
<1>4. CASE ByDevice BY <1>4 DEF ByDevice
<1>5. CASE SdFormat BY <1>5 DEF SdFormat, Wiped, Holds
<1>6. CASE SdMkfs BY <1>6 DEF SdMkfs, Formatted, MkfsType
<1>7. CASE Prepare BY <1>7 DEF Prepare
<1>8. CASE Inspect BY <1>8 DEF Inspect, NeedFormat, LooksEmpty, RoMountable
<1>9. CASE Format BY <1>9 DEF Format, Wiped, Holds
<1>10. CASE Mkfs BY <1>10 DEF Mkfs, Formatted, MkfsType
<1>11. CASE MountTmp BY <1>11 DEF MountTmp
<1>12. CASE CopyFile BY <1>12 DEF CopyFile
<1>13. CASE CopyEnd BY <1>13 DEF CopyEnd, CopyComplete
<1>14. CASE Mark BY <1>14 DEF Mark
<1>15. CASE UmountTmp BY <1>15 DEF UmountTmp, Flushed
<1>16. CASE Switch BY <1>16 DEF Switch, NothingToSwitch, Flushed
<1>17. CASE SwitchMount BY <1>17 DEF SwitchMount
<1>18. CASE LayOut BY <1>18 DEF LayOut, LayoutFails
<1>19. CASE ResetLogs BY <1>19 DEF ResetLogs
<1>20. CASE WipeOne BY <1>20 DEF WipeOne
<1>21. CASE WipeEnd BY <1>21 DEF WipeEnd
<1>22. CASE Unmount BY <1>22 DEF Unmount
<1>23. CASE PowerOn BY <1>23 DEF PowerOn
<1>24. CASE InsertNvme BY <1>24 DEF InsertNvme, NvmeKind, Holds
<1>25. CASE PowerLoss BY <1>25 DEF PowerLoss, Mixtures
<1>26. CASE Writeback BY <1>26 DEF Writeback, Flushed
<1>27. CASE \E i \in Items : Write(i) \/ Delete(i) BY <1>27 DEF Write, Delete
<1>28. CASE Shutdown \/ ResetStart BY <1>28 DEF Shutdown, ResetStart
<1>29. CASE UNCHANGED vars BY <1>29 DEF vars
<1> QED
  BY <1>1, <1>2, <1>3, <1>4, <1>5, <1>6, <1>7, <1>8, <1>9, <1>10, <1>11, <1>12,
     <1>13, <1>14, <1>15, <1>16, <1>17, <1>18, <1>19, <1>20, <1>21, <1>22, <1>23,
     <1>24, <1>25, <1>26, <1>27, <1>28, <1>29
     DEF Next, EarlyBoot, FactoryReset, Environment

(***************************************************************************)
(* Without a failed probe, prepare-nvme decides to format only a partition *)
(* that is empty or whose filesystem cannot hold items.                    *)
(***************************************************************************)
LEMMA FormatHarmlessStep ==
  TypeOK /\ MountOrder /\ ItemsOnExt4 /\ FormatHarmless /\ [Next]_vars
    => FormatHarmless'
<1> SUFFICES ASSUME TypeOK, MountOrder, ItemsOnExt4, FormatHarmless, [Next]_vars
             PROVE  FormatHarmless'
  OBVIOUS
<1> USE StorageAssumption DEF TypeOK, Part, parts, mounts, history, Goto,
      ItemsOnExt4, FormatHarmless
<1>1. CASE Probe BY <1>1 DEF Probe, NvmeMigrated
<1>2. CASE MountNvme BY <1>2 DEF MountNvme
<1>3. CASE ByLabel BY <1>3 DEF ByLabel
<1>4. CASE ByDevice BY <1>4 DEF ByDevice
<1>5. CASE SdFormat BY <1>5 DEF SdFormat, Wiped, Holds
<1>6. CASE SdMkfs BY <1>6 DEF SdMkfs, Formatted, MkfsType
<1>7. CASE Prepare BY <1>7 DEF Prepare
<1>8. CASE Inspect BY <1>8 DEF Inspect, NeedFormat, LooksEmpty, RoMountable
<1>9. CASE Format BY <1>9 DEF Format, Wiped, Holds
<1>10. CASE Mkfs BY <1>10 DEF Mkfs, Formatted, MkfsType
<1>11. CASE MountTmp BY <1>11 DEF MountTmp
<1>12. CASE CopyFile BY <1>12 DEF CopyFile
<1>13. CASE CopyEnd BY <1>13 DEF CopyEnd, CopyComplete
<1>14. CASE Mark BY <1>14 DEF Mark
<1>15. CASE UmountTmp BY <1>15 DEF UmountTmp, Flushed
<1>16. CASE Switch BY <1>16 DEF Switch, NothingToSwitch, Flushed
<1>17. CASE SwitchMount BY <1>17 DEF SwitchMount
<1>18. CASE LayOut BY <1>18 DEF LayOut, LayoutFails
<1>19. CASE ResetLogs BY <1>19 DEF ResetLogs
<1>20. CASE WipeOne BY <1>20 DEF WipeOne
<1>21. CASE WipeEnd BY <1>21 DEF WipeEnd
<1>22. CASE Unmount BY <1>22 DEF Unmount
<1>23. CASE PowerOn BY <1>23 DEF PowerOn
<1>24. CASE InsertNvme BY <1>24 DEF InsertNvme, NvmeKind, Holds
<1>25. CASE PowerLoss BY <1>25 DEF PowerLoss, Mixtures
<1>26. CASE Writeback BY <1>26 DEF Writeback, Flushed
<1>27. CASE \E i \in Items : Write(i) \/ Delete(i) BY <1>27 DEF Write, Delete
<1>28. CASE Shutdown \/ ResetStart BY <1>28 DEF Shutdown, ResetStart
<1>29. CASE UNCHANGED vars BY <1>29 DEF vars
<1> QED
  BY <1>1, <1>2, <1>3, <1>4, <1>5, <1>6, <1>7, <1>8, <1>9, <1>10, <1>11, <1>12,
     <1>13, <1>14, <1>15, <1>16, <1>17, <1>18, <1>19, <1>20, <1>21, <1>22, <1>23,
     <1>24, <1>25, <1>26, <1>27, <1>28, <1>29
     DEF Next, EarlyBoot, FactoryReset, Environment

(***************************************************************************)
(* Every umount flushes, and what is not mounted does not change: page cache *)
(* and medium differ on /data and on the copy mount only.                  *)
(***************************************************************************)
LEMMA CacheStep ==
  TypeOK /\ MountOrder /\ CacheOnlyIfMounted /\ CopyOnlyAdds /\ [Next]_vars
    => (CacheOnlyIfMounted /\ CopyOnlyAdds)'
<1> SUFFICES ASSUME TypeOK, MountOrder, CacheOnlyIfMounted, CopyOnlyAdds, [Next]_vars
             PROVE  (CacheOnlyIfMounted /\ CopyOnlyAdds)'
  OBVIOUS
<1> USE StorageAssumption DEF TypeOK, Part, parts, mounts, history, Goto, MountOrder,
      Running, BeforeMount, CopyWindow, CacheOnlyIfMounted, CopyOnlyAdds
<1>1. CASE Probe BY <1>1 DEF Probe, NvmeMigrated
<1>2. CASE MountNvme BY <1>2 DEF MountNvme
<1>3. CASE ByLabel BY <1>3 DEF ByLabel
<1>4. CASE ByDevice BY <1>4 DEF ByDevice
<1>5. CASE SdFormat BY <1>5 DEF SdFormat, Wiped, Holds
<1>6. CASE SdMkfs BY <1>6 DEF SdMkfs, Formatted, MkfsType
<1>7. CASE Prepare BY <1>7 DEF Prepare
<1>8. CASE Inspect BY <1>8 DEF Inspect, NeedFormat, LooksEmpty, RoMountable
<1>9. CASE Format BY <1>9 DEF Format, Wiped, Holds
<1>10. CASE Mkfs BY <1>10 DEF Mkfs, Formatted, MkfsType
<1>11. CASE MountTmp BY <1>11 DEF MountTmp
<1>12. CASE CopyFile BY <1>12 DEF CopyFile
<1>13. CASE CopyEnd BY <1>13 DEF CopyEnd, CopyComplete
<1>14. CASE Mark BY <1>14 DEF Mark
<1>15. CASE UmountTmp BY <1>15 DEF UmountTmp, Flushed
<1>16. CASE Switch BY <1>16 DEF Switch, NothingToSwitch, Flushed
<1>17. CASE SwitchMount BY <1>17 DEF SwitchMount
<1>18. CASE LayOut BY <1>18 DEF LayOut, LayoutFails
<1>19. CASE ResetLogs BY <1>19 DEF ResetLogs
<1>20. CASE WipeOne BY <1>20 DEF WipeOne
<1>21. CASE WipeEnd BY <1>21 DEF WipeEnd
<1>22. CASE Unmount BY <1>22 DEF Unmount
<1>23. CASE PowerOn BY <1>23 DEF PowerOn
<1>24. CASE InsertNvme BY <1>24 DEF InsertNvme, NvmeKind, Holds
<1>25. CASE PowerLoss BY <1>25 DEF PowerLoss, Mixtures
<1>26. CASE Writeback BY <1>26 DEF Writeback, Flushed
<1>27. CASE \E i \in Items : Write(i) \/ Delete(i) BY <1>27 DEF Write, Delete
<1>28. CASE Shutdown \/ ResetStart BY <1>28 DEF Shutdown, ResetStart
<1>29. CASE UNCHANGED vars BY <1>29 DEF vars
<1> QED
  BY <1>1, <1>2, <1>3, <1>4, <1>5, <1>6, <1>7, <1>8, <1>9, <1>10, <1>11, <1>12,
     <1>13, <1>14, <1>15, <1>16, <1>17, <1>18, <1>19, <1>20, <1>21, <1>22, <1>23,
     <1>24, <1>25, <1>26, <1>27, <1>28, <1>29
     DEF Next, EarlyBoot, FactoryReset, Environment

(***************************************************************************)
(* An item that is owned is visible wherever its medium has it, so neither a *)
(* writeback nor a power loss can take it away.                            *)
(***************************************************************************)
LEMMA NoPendingLossStep ==
  TypeOK /\ MountOrder /\ CacheOnlyIfMounted /\ CopyOnlyAdds /\ NoPendingLoss
    /\ [Next]_vars
    => NoPendingLoss'
<1> SUFFICES ASSUME TypeOK, MountOrder, CacheOnlyIfMounted, CopyOnlyAdds, NoPendingLoss, [Next]_vars
             PROVE  NoPendingLoss'
  OBVIOUS
<1> USE StorageAssumption DEF TypeOK, Part, parts, mounts, history, Goto, MountOrder,
      Running, BeforeMount, CopyWindow, CacheOnlyIfMounted, CopyOnlyAdds, NoPendingLoss
<1>1. CASE Probe BY <1>1 DEF Probe, NvmeMigrated
<1>2. CASE MountNvme BY <1>2 DEF MountNvme
<1>3. CASE ByLabel BY <1>3 DEF ByLabel
<1>4. CASE ByDevice BY <1>4 DEF ByDevice
<1>5. CASE SdFormat BY <1>5 DEF SdFormat, Wiped, Holds
<1>6. CASE SdMkfs BY <1>6 DEF SdMkfs, Formatted, MkfsType
<1>7. CASE Prepare BY <1>7 DEF Prepare
<1>8. CASE Inspect BY <1>8 DEF Inspect, NeedFormat, LooksEmpty, RoMountable
<1>9. CASE Format BY <1>9 DEF Format, Wiped, Holds
<1>10. CASE Mkfs BY <1>10 DEF Mkfs, Formatted, MkfsType
<1>11. CASE MountTmp BY <1>11 DEF MountTmp
<1>12. CASE CopyFile BY <1>12 DEF CopyFile
<1>13. CASE CopyEnd BY <1>13 DEF CopyEnd, CopyComplete
<1>14. CASE Mark BY <1>14 DEF Mark
<1>15. CASE UmountTmp BY <1>15 DEF UmountTmp, Flushed
<1>16. CASE Switch BY <1>16 DEF Switch, NothingToSwitch, Flushed
<1>17. CASE SwitchMount BY <1>17 DEF SwitchMount
<1>18. CASE LayOut BY <1>18 DEF LayOut, LayoutFails
<1>19. CASE ResetLogs BY <1>19 DEF ResetLogs
<1>20. CASE WipeOne BY <1>20 DEF WipeOne
<1>21. CASE WipeEnd BY <1>21 DEF WipeEnd
<1>22. CASE Unmount BY <1>22 DEF Unmount
<1>23. CASE PowerOn BY <1>23 DEF PowerOn
<1>24. CASE InsertNvme BY <1>24 DEF InsertNvme, NvmeKind, Holds
<1>25. CASE PowerLoss BY <1>25 DEF PowerLoss, Mixtures
<1>26. CASE Writeback BY <1>26 DEF Writeback, Flushed
<1>27. CASE \E i \in Items : Write(i) \/ Delete(i) BY <1>27 DEF Write, Delete
<1>28. CASE Shutdown \/ ResetStart BY <1>28 DEF Shutdown, ResetStart
<1>29. CASE UNCHANGED vars BY <1>29 DEF vars
<1> QED
  BY <1>1, <1>2, <1>3, <1>4, <1>5, <1>6, <1>7, <1>8, <1>9, <1>10, <1>11, <1>12,
     <1>13, <1>14, <1>15, <1>16, <1>17, <1>18, <1>19, <1>20, <1>21, <1>22, <1>23,
     <1>24, <1>25, <1>26, <1>27, <1>28, <1>29
     DEF Next, EarlyBoot, FactoryReset, Environment

(***************************************************************************)
(* The step that matters is Format: what it wipes holds no item            *)
(* (FormatHarmless), and SdFormat wipes a card without ext4 unless blkid   *)
(* failed.  Flushes keep owned items (NoPendingLoss).                      *)
(***************************************************************************)
LEMMA NothingDestroyedStep == StorageInv /\ [Next]_vars => NothingDestroyed'
<1> SUFFICES ASSUME StorageInv, [Next]_vars PROVE NothingDestroyed'
  OBVIOUS
<1> USE StorageAssumption DEF TypeOK, Part, parts, mounts, history, Goto, MountOrder,
      Running, BeforeMount, CopyWindow, CacheOnlyIfMounted, NoPendingLoss, StorageInv,
      ItemsOnExt4, FormatHarmless, NothingDestroyed
<1>1. CASE Probe BY <1>1 DEF Probe, NvmeMigrated
<1>2. CASE MountNvme BY <1>2 DEF MountNvme
<1>3. CASE ByLabel BY <1>3 DEF ByLabel
<1>4. CASE ByDevice BY <1>4 DEF ByDevice
<1>5. CASE SdFormat BY <1>5 DEF SdFormat, Wiped, Holds
<1>6. CASE SdMkfs BY <1>6 DEF SdMkfs, Formatted, MkfsType
<1>7. CASE Prepare BY <1>7 DEF Prepare
<1>8. CASE Inspect BY <1>8 DEF Inspect, NeedFormat, LooksEmpty, RoMountable
<1>9. CASE Format BY <1>9 DEF Format, Wiped, Holds
<1>10. CASE Mkfs BY <1>10 DEF Mkfs, Formatted, MkfsType
<1>11. CASE MountTmp BY <1>11 DEF MountTmp
<1>12. CASE CopyFile BY <1>12 DEF CopyFile
<1>13. CASE CopyEnd BY <1>13 DEF CopyEnd, CopyComplete
<1>14. CASE Mark BY <1>14 DEF Mark
<1>15. CASE UmountTmp BY <1>15 DEF UmountTmp, Flushed
<1>16. CASE Switch BY <1>16 DEF Switch, NothingToSwitch, Flushed
<1>17. CASE SwitchMount BY <1>17 DEF SwitchMount
<1>18. CASE LayOut BY <1>18 DEF LayOut, LayoutFails
<1>19. CASE ResetLogs BY <1>19 DEF ResetLogs
<1>20. CASE WipeOne BY <1>20 DEF WipeOne
<1>21. CASE WipeEnd BY <1>21 DEF WipeEnd
<1>22. CASE Unmount BY <1>22 DEF Unmount
<1>23. CASE PowerOn BY <1>23 DEF PowerOn
<1>24. CASE InsertNvme BY <1>24 DEF InsertNvme, NvmeKind, Holds
<1>25. CASE PowerLoss BY <1>25 DEF PowerLoss, Mixtures
<1>26. CASE Writeback BY <1>26 DEF Writeback, Flushed
<1>27. CASE \E i \in Items : Write(i) \/ Delete(i) BY <1>27 DEF Write, Delete
<1>28. CASE Shutdown \/ ResetStart BY <1>28 DEF Shutdown, ResetStart
<1>29. CASE UNCHANGED vars BY <1>29 DEF vars
<1> QED
  BY <1>1, <1>2, <1>3, <1>4, <1>5, <1>6, <1>7, <1>8, <1>9, <1>10, <1>11, <1>12,
     <1>13, <1>14, <1>15, <1>16, <1>17, <1>18, <1>19, <1>20, <1>21, <1>22, <1>23,
     <1>24, <1>25, <1>26, <1>27, <1>28, <1>29
     DEF Next, EarlyBoot, FactoryReset, Environment

(***************************************************************************)
(* The parts together are inductive.                                       *)
(***************************************************************************)
LEMMA StorageInvariant == Spec => []StorageInv
<1>1. StorageInv /\ [Next]_vars => StorageInv'
  <2> SUFFICES ASSUME StorageInv, [Next]_vars PROVE StorageInv'
    OBVIOUS
  <2>1. TypeOK' /\ MountOrder'
    BY TypeStep, MountOrderStep DEF StorageInv
  <2>2. ItemsOnExt4' /\ FormatHarmless'
    BY ItemsOnExt4Step, FormatHarmlessStep DEF StorageInv
  <2>3. CacheOnlyIfMounted' /\ CopyOnlyAdds' /\ NoPendingLoss'
    BY CacheStep, NoPendingLossStep DEF StorageInv
  <2>4. NothingDestroyed'
    BY NothingDestroyedStep
  <2> QED
    BY <2>1, <2>2, <2>3, <2>4 DEF StorageInv
<1> QED
  BY StorageInit, <1>1, PTL DEF Spec

(***************************************************************************)
(* Type correctness.  TypeOK is not inductive alone: that the list of      *)
(* entries factory-reset removes is a set of files needs /data mounted.    *)
(***************************************************************************)
THEOREM TypeCorrect == Spec => []TypeOK
<1>1. StorageInv => TypeOK
  BY DEF StorageInv
<1> QED
  BY StorageInvariant, <1>1, PTL

(***************************************************************************)
(* Whatever commands fail and wherever the power is lost, no boot and no   *)
(* migration destroys an item that reached the medium, unless a failed     *)
(* probe was taken for an empty partition.                                 *)
(***************************************************************************)
THEOREM DataSurvives == Spec => []NothingDestroyed
<1>1. StorageInv => NothingDestroyed
  BY DEF StorageInv
<1> QED
  BY StorageInvariant, <1>1, PTL

(***************************************************************************)
(* The services only ever run on a mounted ext4 partition: an early-boot.sh*)
(* left without one fails at its first mkdir.                              *)
(***************************************************************************)
THEOREM RunsOnPartition == Spec => []RunningMeansMounted
<1>1. StorageInv => RunningMeansMounted
  BY DEF StorageInv, TypeOK, MountOrder, Running, RunningMeansMounted
<1> QED
  BY StorageInvariant, <1>1, PTL

(***************************************************************************)
(* The copy starts only from a mounted SD card: mkfs refuses the partition *)
(* that is mounted on /data, and without /data there is nothing to copy.   *)
(***************************************************************************)
LEMMA CopyOrderStep == TypeOK /\ MountOrder /\ CopyOrder /\ [Next]_vars => CopyOrder'
<1> SUFFICES ASSUME TypeOK, MountOrder, CopyOrder, [Next]_vars PROVE CopyOrder'
  OBVIOUS
<1> USE StorageAssumption DEF TypeOK, Part, parts, mounts, history, Goto, MountOrder, CopyOrder,
      Running, BeforeMount, CopyWindow, File
<1>1. CASE Probe BY <1>1 DEF Probe, NvmeMigrated
<1>2. CASE MountNvme BY <1>2 DEF MountNvme
<1>3. CASE ByLabel BY <1>3 DEF ByLabel
<1>4. CASE ByDevice BY <1>4 DEF ByDevice
<1>5. CASE SdFormat BY <1>5 DEF SdFormat, Wiped, Holds
<1>6. CASE SdMkfs BY <1>6 DEF SdMkfs, Formatted, MkfsType
<1>7. CASE Prepare BY <1>7 DEF Prepare
<1>8. CASE Inspect BY <1>8 DEF Inspect, NeedFormat, LooksEmpty, RoMountable
<1>9. CASE Format BY <1>9 DEF Format, Wiped, Holds
<1>10. CASE Mkfs BY <1>10 DEF Mkfs, Formatted, MkfsType
<1>11. CASE MountTmp BY <1>11 DEF MountTmp
<1>12. CASE CopyFile BY <1>12 DEF CopyFile
<1>13. CASE CopyEnd BY <1>13 DEF CopyEnd, CopyComplete
<1>14. CASE Mark BY <1>14 DEF Mark
<1>15. CASE UmountTmp BY <1>15 DEF UmountTmp, Flushed
<1>16. CASE Switch BY <1>16 DEF Switch, NothingToSwitch, Flushed
<1>17. CASE SwitchMount BY <1>17 DEF SwitchMount
<1>18. CASE LayOut
  <2>1. CASE view' = [p \in Part |-> IF p = data THEN view[p] \cup {Layout} ELSE view[p]]
    BY <1>18, <2>1 DEF LayOut
  <2>2. CASE view' = view
    BY <1>18, <2>2 DEF LayOut
  <2> QED
    BY <1>18, <2>1, <2>2 DEF LayOut
<1>19. CASE ResetLogs BY <1>19 DEF ResetLogs
<1>20. CASE WipeOne BY <1>20 DEF WipeOne
<1>21. CASE WipeEnd BY <1>21 DEF WipeEnd
<1>22. CASE Unmount BY <1>22 DEF Unmount
<1>23. CASE PowerOn BY <1>23 DEF PowerOn
<1>24. CASE InsertNvme BY <1>24 DEF InsertNvme, NvmeKind, Holds
<1>25. CASE PowerLoss BY <1>25 DEF PowerLoss, Mixtures
<1>26. CASE Writeback BY <1>26 DEF Writeback, Flushed
<1>27. CASE \E i \in Items : Write(i) \/ Delete(i) BY <1>27 DEF Write, Delete
<1>28. CASE Shutdown \/ ResetStart BY <1>28 DEF Shutdown, ResetStart
<1>29. CASE UNCHANGED vars BY <1>29 DEF vars
<1> QED
  BY <1>1, <1>2, <1>3, <1>4, <1>5, <1>6, <1>7, <1>8, <1>9, <1>10, <1>11, <1>12,
     <1>13, <1>14, <1>15, <1>16, <1>17, <1>18, <1>19, <1>20, <1>21, <1>22, <1>23,
     <1>24, <1>25, <1>26, <1>27, <1>28, <1>29
     DEF Next, EarlyBoot, FactoryReset, Environment

(***************************************************************************)
(* The marker is only ever written beside a complete copy, even when cp    *)
(* fails.                                                                  *)
(***************************************************************************)
THEOREM MarkerIsLast == Spec => MarkedAfterCopy
<1>1. Init => CopyOrder
  BY StorageAssumption DEF Init, CopyOrder, Part, SdKind
<1>2. TypeOK /\ MountOrder /\ CopyOrder /\ [Next]_vars =>
        ((Marker \in view'[Nvme] /\ Marker \notin view[Nvme] /\ pc # "off" /\ pc' # "off")
           => data = Sd /\ view[Sd] \subseteq view[Nvme])
  <2> SUFFICES ASSUME TypeOK, MountOrder, CopyOrder, [Next]_vars,
                      Marker \in view'[Nvme], Marker \notin view[Nvme],
                      pc # "off", pc' # "off"
               PROVE  data = Sd /\ view[Sd] \subseteq view[Nvme]
    OBVIOUS
  <2> USE StorageAssumption DEF TypeOK, Part, File, parts, Goto
  <2>1. CASE Mark BY <2>1 DEF Mark, CopyOrder
  <2>2. CASE CopyFile BY <2>2 DEF CopyFile, CopyOrder
  <2>3. CASE SdFormat \/ Format BY <2>3 DEF SdFormat, Format, Wiped, Holds
  <2>4. CASE LayOut
    <3>1. view' = view \/ view' = [p \in Part |-> IF p = data THEN view[p] \cup {Layout}
                                                ELSE view[p]]
      BY <2>4 DEF LayOut
    <3> QED
      BY <3>1
  <2>5. CASE WipeOne BY <2>5 DEF WipeOne
  <2>6. CASE \E i \in Items : Write(i) \/ Delete(i) BY <2>6 DEF Write, Delete
  <2>7. CASE PowerLoss \/ InsertNvme \/ PowerOn BY <2>7 DEF PowerLoss, InsertNvme, PowerOn
  <2>8. CASE UNCHANGED view BY <2>8
  <2>9. UNCHANGED view \/ Mark \/ CopyFile \/ SdFormat \/ Format \/ LayOut \/ WipeOne
        \/ (\E i \in Items : Write(i) \/ Delete(i)) \/ PowerLoss \/ InsertNvme \/ PowerOn
    BY DEF Next, EarlyBoot, FactoryReset, Environment, Probe, MountNvme, ByLabel, ByDevice,
       SdMkfs, Prepare, Inspect, Mkfs, MountTmp, CopyEnd, UmountTmp, Switch, SwitchMount,
       ResetLogs, WipeEnd, Unmount, Writeback, Shutdown, ResetStart, vars
  <2> QED
    BY <2>1, <2>2, <2>3, <2>4, <2>5, <2>6, <2>7, <2>8, <2>9
<1>3. StorageInv => TypeOK /\ MountOrder
  BY DEF StorageInv
<1>4. Spec => []CopyOrder
  BY <1>1, CopyOrderStep, StorageInvariant, <1>3, PTL DEF Spec
<1> QED
  BY <1>2, <1>3, <1>4, StorageInvariant, PTL DEF Spec, MarkedAfterCopy

-----------------------------------------------------------------------------
(***************************************************************************)
(* The conditions under which the user sees one store: the copy to NVMe is *)
(* not cut off by a power loss, no command fails but those named here, a   *)
(* factory reset comes before the migration, and the disk that is put in   *)
(* holds no ext4 with files of its own. Without one of them TLC finds      *)
(* OwnedVisible or NoResurrection violated; only for mkfs it does not, but *)
(* then the data may live on an NVMe partition without the marker, which   *)
(* Home does not say.                                                      *)
(***************************************************************************)
Calm ==
    /\ PowerLossAt \cap CopyWindow = {}
    /\ Faults \subseteq {"tmpfs", "partition", "rm"}
    /\ ResetFrom \subseteq {Sd}
    /\ "usedExt4" \notin NvmeKinds

\* outside the running hub and the copy, nothing waits to be written back
Quiet ==
    /\ tmp => pc \in CopyWindow
    /\ pc \notin Running => view[Sd] = disk[Sd]
    /\ pc \notin Running \cup CopyWindow => view[Nvme] = disk[Nvme]

\* early boot always finds, or makes, a data partition on the card
SdUsable ==
    /\ fs[Sd] \in {"ext4", "raw"}
    /\ pc = "sdFormat" => fs[Sd] = "raw"
    /\ pc \in {"prepare", "inspect", "format", "mkfs", "switch", "layout"} \cup CopyWindow
         => data # None

\* the copy has what /data holds, nothing else, and in the end the marker
CopyExact ==
    /\ rc
    /\ pc \in {"mkfs", "mountTmp"} => view[Nvme] = {}
    /\ pc \in {"copy", "mark"} => view[Nvme] \subseteq view[Sd]
    /\ pc = "umountTmp" => view[Nvme] = view[Sd] \cup {Marker}

\* a reset does not remove the marker
ResetOnSd == pc \in {"resetLogs", "wipe"} => data = Sd

\* the NVMe partition is used from when it is marked, and marked once it is used
MarkerOrder ==
    /\ Marker \in view[Nvme] \cup disk[Nvme] => fs[Nvme] = "ext4"
    /\ pc \in {"mountNvme", "switchMount"} \/ data = Nvme
         => Marker \in view[Nvme] /\ Marker \in disk[Nvme]
    /\ pc \in {"byLabel", "byDevice", "sdFormat", "sdMkfs", "mkfs"} \cup CopyWindow
         => Marker \notin disk[Nvme]
    /\ pc = "format" /\ data # Nvme => Marker \notin disk[Nvme]
    /\ pc \notin CopyWindow /\ (Nvme \in labelled \/ (fs[Nvme] = "ext4" /\ view[Nvme] # {}))
         => Marker \in disk[Nvme]
    /\ pc = "switch" /\ fs[Nvme] = "ext4" => Marker \in disk[Nvme]
    /\ pc \in Running \cup {"layout"} => data = Home

\* what is owned is where the user will find it
KeptAtHome == owned \subseteq view[Home] \cap disk[Home]

\* what the user finds was stored, or a reset is about to remove it
NothingReturns == Items \cap view[Home] \subseteq written \cup (IF pc = "wipe" THEN todo ELSE {})

HomeInv ==
    /\ CopyOrder /\ Quiet /\ SdUsable /\ CopyExact /\ ResetOnSd /\ MarkerOrder
    /\ KeptAtHome /\ NothingReturns

(***************************************************************************)
(* A reset starts on the card, and /data does not move while it runs.      *)
(***************************************************************************)
LEMMA ResetStep ==
  ASSUME Calm, TypeOK, MountOrder, ResetOnSd, [Next]_vars
  PROVE  ResetOnSd'
<1> USE StorageAssumption
      DEF Calm, MayFail, TypeOK, Part, parts, mounts, history, Goto, ResetOnSd
<1>1. CASE Probe BY <1>1 DEF Probe, NvmeMigrated
<1>2. CASE MountNvme BY <1>2 DEF MountNvme
<1>3. CASE ByLabel BY <1>3 DEF ByLabel
<1>4. CASE ByDevice BY <1>4 DEF ByDevice
<1>5. CASE SdFormat BY <1>5 DEF SdFormat, Wiped, Holds
<1>6. CASE SdMkfs BY <1>6 DEF SdMkfs, Formatted, MkfsType
<1>7. CASE Prepare BY <1>7 DEF Prepare
<1>8. CASE Inspect BY <1>8 DEF Inspect, NeedFormat, LooksEmpty, RoMountable
<1>9. CASE Format BY <1>9 DEF Format, Wiped, Holds
<1>10. CASE Mkfs BY <1>10 DEF Mkfs, Formatted, MkfsType
<1>11. CASE MountTmp BY <1>11 DEF MountTmp
<1>12. CASE CopyFile BY <1>12 DEF CopyFile
<1>13. CASE CopyEnd BY <1>13 DEF CopyEnd, CopyComplete
<1>14. CASE Mark BY <1>14 DEF Mark
<1>15. CASE UmountTmp BY <1>15 DEF UmountTmp, Flushed
<1>16. CASE Switch BY <1>16 DEF Switch, NothingToSwitch, Flushed
<1>17. CASE SwitchMount BY <1>17 DEF SwitchMount
<1>18. CASE LayOut BY <1>18 DEF LayOut, LayoutFails
<1>19. CASE ResetLogs BY <1>19 DEF ResetLogs
<1>20. CASE WipeOne BY <1>20 DEF WipeOne
<1>21. CASE WipeEnd BY <1>21 DEF WipeEnd
<1>22. CASE Unmount BY <1>22 DEF Unmount
<1>23. CASE PowerOn BY <1>23 DEF PowerOn
<1>24. CASE InsertNvme BY <1>24 DEF InsertNvme, NvmeKind, Holds
<1>25. CASE PowerLoss BY <1>25 DEF PowerLoss, Mixtures
<1>26. CASE Writeback BY <1>26 DEF Writeback, Flushed
<1>27. CASE \E i \in Items : Write(i) \/ Delete(i) BY <1>27 DEF Write, Delete
<1>28. CASE Shutdown \/ ResetStart BY <1>28 DEF Shutdown, ResetStart
<1>29. CASE UNCHANGED vars BY <1>29 DEF vars
<1> QED
  BY <1>1, <1>2, <1>3, <1>4, <1>5, <1>6, <1>7, <1>8, <1>9, <1>10, <1>11, <1>12, <1>13,
     <1>14, <1>15, <1>16, <1>17, <1>18, <1>19, <1>20, <1>21, <1>22, <1>23, <1>24, <1>25,
     <1>26, <1>27, <1>28, <1>29
     DEF Next, EarlyBoot, FactoryReset, Environment

(***************************************************************************)
(* The card is ext4 or unformatted, and is formatted then: early boot goes *)
(* on with a mounted partition.                                            *)
(***************************************************************************)
LEMMA SdUsableStep ==
  ASSUME Calm, TypeOK, MountOrder, SdUsable, [Next]_vars
  PROVE  SdUsable'
<1> USE StorageAssumption
      DEF Calm, MayFail, TypeOK, Part, parts, mounts, history, Goto, SdUsable,
          MountOrder, BeforeMount, Running, CopyWindow
<1>1. CASE Probe BY <1>1 DEF Probe, NvmeMigrated
<1>2. CASE MountNvme BY <1>2 DEF MountNvme
<1>3. CASE ByLabel BY <1>3 DEF ByLabel
<1>4. CASE ByDevice BY <1>4 DEF ByDevice
<1>5. CASE SdFormat BY <1>5 DEF SdFormat, Wiped, Holds
<1>6. CASE SdMkfs BY <1>6 DEF SdMkfs, Formatted, MkfsType
<1>7. CASE Prepare BY <1>7 DEF Prepare
<1>8. CASE Inspect BY <1>8 DEF Inspect, NeedFormat, LooksEmpty, RoMountable
<1>9. CASE Format BY <1>9 DEF Format, Wiped, Holds
<1>10. CASE Mkfs BY <1>10 DEF Mkfs, Formatted, MkfsType
<1>11. CASE MountTmp BY <1>11 DEF MountTmp
<1>12. CASE CopyFile BY <1>12 DEF CopyFile
<1>13. CASE CopyEnd BY <1>13 DEF CopyEnd, CopyComplete
<1>14. CASE Mark BY <1>14 DEF Mark
<1>15. CASE UmountTmp BY <1>15 DEF UmountTmp, Flushed
<1>16. CASE Switch BY <1>16 DEF Switch, NothingToSwitch, Flushed
<1>17. CASE SwitchMount BY <1>17 DEF SwitchMount
<1>18. CASE LayOut BY <1>18 DEF LayOut, LayoutFails
<1>19. CASE ResetLogs BY <1>19 DEF ResetLogs
<1>20. CASE WipeOne BY <1>20 DEF WipeOne
<1>21. CASE WipeEnd BY <1>21 DEF WipeEnd
<1>22. CASE Unmount BY <1>22 DEF Unmount
<1>23. CASE PowerOn BY <1>23 DEF PowerOn
<1>24. CASE InsertNvme BY <1>24 DEF InsertNvme, NvmeKind, Holds
<1>25. CASE PowerLoss BY <1>25 DEF PowerLoss, Mixtures
<1>26. CASE Writeback BY <1>26 DEF Writeback, Flushed
<1>27. CASE \E i \in Items : Write(i) \/ Delete(i) BY <1>27 DEF Write, Delete
<1>28. CASE Shutdown \/ ResetStart BY <1>28 DEF Shutdown, ResetStart
<1>29. CASE UNCHANGED vars BY <1>29 DEF vars
<1> QED
  BY <1>1, <1>2, <1>3, <1>4, <1>5, <1>6, <1>7, <1>8, <1>9, <1>10, <1>11, <1>12, <1>13,
     <1>14, <1>15, <1>16, <1>17, <1>18, <1>19, <1>20, <1>21, <1>22, <1>23, <1>24, <1>25,
     <1>26, <1>27, <1>28, <1>29
     DEF Next, EarlyBoot, FactoryReset, Environment

(***************************************************************************)
(* Early boot writes to the NVMe partition only, in the copy, and the      *)
(* umount at the end of the copy brings that to the medium.                *)
(***************************************************************************)
LEMMA QuietStep ==
  ASSUME Calm, TypeOK, MountOrder, CopyOrder, Quiet, SdUsable, CopyExact, [Next]_vars
  PROVE  Quiet'
<1> USE StorageAssumption
      DEF Calm, MayFail, TypeOK, Part, parts, mounts, history, Goto, Quiet, SdUsable,
          CopyExact, CopyOrder, MountOrder, BeforeMount, Running, CopyWindow
<1>1. CASE Probe BY <1>1 DEF Probe, NvmeMigrated
<1>2. CASE MountNvme BY <1>2 DEF MountNvme
<1>3. CASE ByLabel BY <1>3 DEF ByLabel
<1>4. CASE ByDevice BY <1>4 DEF ByDevice
<1>5. CASE SdFormat BY <1>5 DEF SdFormat, Wiped, Holds
<1>6. CASE SdMkfs BY <1>6 DEF SdMkfs, Formatted, MkfsType
<1>7. CASE Prepare BY <1>7 DEF Prepare
<1>8. CASE Inspect BY <1>8 DEF Inspect, NeedFormat, LooksEmpty, RoMountable
<1>9. CASE Format BY <1>9 DEF Format, Wiped, Holds
<1>10. CASE Mkfs BY <1>10 DEF Mkfs, Formatted, MkfsType
<1>11. CASE MountTmp BY <1>11 DEF MountTmp
<1>12. CASE CopyFile BY <1>12 DEF CopyFile
<1>13. CASE CopyEnd BY <1>13 DEF CopyEnd, CopyComplete
<1>14. CASE Mark BY <1>14 DEF Mark
<1>15. CASE UmountTmp BY <1>15 DEF UmountTmp, Flushed
<1>16. CASE Switch BY <1>16 DEF Switch, NothingToSwitch, Flushed
<1>17. CASE SwitchMount BY <1>17 DEF SwitchMount
<1>18. CASE LayOut BY <1>18 DEF LayOut, LayoutFails
<1>19. CASE ResetLogs BY <1>19 DEF ResetLogs
<1>20. CASE WipeOne BY <1>20 DEF WipeOne
<1>21. CASE WipeEnd BY <1>21 DEF WipeEnd
<1>22. CASE Unmount BY <1>22 DEF Unmount
<1>23. CASE PowerOn BY <1>23 DEF PowerOn
<1>24. CASE InsertNvme BY <1>24 DEF InsertNvme, NvmeKind, Holds
<1>25. CASE PowerLoss BY <1>25 DEF PowerLoss, Mixtures
<1>26. CASE Writeback BY <1>26 DEF Writeback, Flushed
<1>27. CASE \E i \in Items : Write(i) \/ Delete(i)
  <2>1. pc \in Running /\ pc' = pc /\ tmp' = tmp
    BY <1>27 DEF Write, Delete
  <2> QED
    BY <2>1
<1>28. CASE Shutdown \/ ResetStart
  <2>1. pc' \in Running /\ pc = "up" /\ tmp' = tmp
    BY <1>28 DEF Shutdown, ResetStart
  <2> QED
    BY <2>1
<1>29. CASE UNCHANGED vars BY <1>29 DEF vars
<1> QED
  BY <1>1, <1>2, <1>3, <1>4, <1>5, <1>6, <1>7, <1>8, <1>9, <1>10, <1>11, <1>12, <1>13,
     <1>14, <1>15, <1>16, <1>17, <1>18, <1>19, <1>20, <1>21, <1>22, <1>23, <1>24, <1>25,
     <1>26, <1>27, <1>28, <1>29
     DEF Next, EarlyBoot, FactoryReset, Environment

(***************************************************************************)
(* The copy starts on an empty partition and adds what the card has.       *)
(***************************************************************************)
LEMMA CopyExactStep ==
  ASSUME Calm, TypeOK, MountOrder, CopyOrder, Quiet, SdUsable, CopyExact, [Next]_vars
  PROVE  CopyExact'
<1> USE StorageAssumption
      DEF Calm, MayFail, TypeOK, Part, parts, mounts, history, Goto, CopyExact, Quiet,
          SdUsable, CopyOrder, MountOrder, BeforeMount, Running, CopyWindow
<1>1. CASE Probe BY <1>1 DEF Probe, NvmeMigrated
<1>2. CASE MountNvme BY <1>2 DEF MountNvme
<1>3. CASE ByLabel BY <1>3 DEF ByLabel
<1>4. CASE ByDevice BY <1>4 DEF ByDevice
<1>5. CASE SdFormat BY <1>5 DEF SdFormat, Wiped, Holds
<1>6. CASE SdMkfs BY <1>6 DEF SdMkfs, Formatted, MkfsType
<1>7. CASE Prepare BY <1>7 DEF Prepare
<1>8. CASE Inspect BY <1>8 DEF Inspect, NeedFormat, LooksEmpty, RoMountable
<1>9. CASE Format BY <1>9 DEF Format, Wiped, Holds
<1>10. CASE Mkfs BY <1>10 DEF Mkfs, Formatted, MkfsType
<1>11. CASE MountTmp BY <1>11 DEF MountTmp
<1>12. CASE CopyFile BY <1>12 DEF CopyFile
<1>13. CASE CopyEnd BY <1>13 DEF CopyEnd, CopyComplete
<1>14. CASE Mark
  <2>1. /\ pc = "mark" /\ pc' = "umountTmp" /\ rc' = rc
        /\ view' = [view EXCEPT ![Nvme] = @ \cup {Marker}]
    BY <1>14 DEF Mark
  <2>2. view'[Nvme] = view[Nvme] \cup {Marker} /\ view'[Sd] = view[Sd] /\ view[Nvme] = view[Sd]
    BY <2>1
  <2> QED
    BY <2>1, <2>2
<1>15. CASE UmountTmp BY <1>15 DEF UmountTmp, Flushed
<1>16. CASE Switch BY <1>16 DEF Switch, NothingToSwitch, Flushed
<1>17. CASE SwitchMount BY <1>17 DEF SwitchMount
<1>18. CASE LayOut BY <1>18 DEF LayOut, LayoutFails
<1>19. CASE ResetLogs BY <1>19 DEF ResetLogs
<1>20. CASE WipeOne BY <1>20 DEF WipeOne
<1>21. CASE WipeEnd BY <1>21 DEF WipeEnd
<1>22. CASE Unmount BY <1>22 DEF Unmount
<1>23. CASE PowerOn BY <1>23 DEF PowerOn
<1>24. CASE InsertNvme BY <1>24 DEF InsertNvme, NvmeKind, Holds
<1>25. CASE PowerLoss BY <1>25 DEF PowerLoss, Mixtures
<1>26. CASE Writeback BY <1>26 DEF Writeback, Flushed
<1>27. CASE \E i \in Items : Write(i) \/ Delete(i) BY <1>27 DEF Write, Delete
<1>28. CASE Shutdown \/ ResetStart BY <1>28 DEF Shutdown, ResetStart
<1>29. CASE UNCHANGED vars BY <1>29 DEF vars
<1> QED
  BY <1>1, <1>2, <1>3, <1>4, <1>5, <1>6, <1>7, <1>8, <1>9, <1>10, <1>11, <1>12, <1>13,
     <1>14, <1>15, <1>16, <1>17, <1>18, <1>19, <1>20, <1>21, <1>22, <1>23, <1>24, <1>25,
     <1>26, <1>27, <1>28, <1>29
     DEF Next, EarlyBoot, FactoryReset, Environment

(***************************************************************************)
(* The marker reaches the medium at the end of the copy and stays. Before, *)
(* the NVMe partition is not labelled and holds no files when the hub      *)
(* looks for its data; after, every boot finds it first.                   *)
(***************************************************************************)
LEMMA MarkerOrderStep ==
  ASSUME Calm, TypeOK, MountOrder, CacheOnlyIfMounted, CopyOrder, Quiet, SdUsable, CopyExact,
         ResetOnSd, MarkerOrder, [Next]_vars
  PROVE  MarkerOrder'
<1> USE StorageAssumption
      DEF Calm, MayFail, TypeOK, Part, parts, mounts, history, Goto, MarkerOrder,
          CopyExact, Quiet, SdUsable, ResetOnSd, CopyOrder, MountOrder, BeforeMount,
          Running, CopyWindow, Home, File
<1>1. CASE Probe BY <1>1 DEF Probe, NvmeMigrated
<1>2. CASE MountNvme BY <1>2 DEF MountNvme
<1>3. CASE ByLabel BY <1>3 DEF ByLabel
<1>4. CASE ByDevice BY <1>4 DEF ByDevice
<1>5. CASE SdFormat BY <1>5 DEF SdFormat, Wiped, Holds
<1>6. CASE SdMkfs BY <1>6 DEF SdMkfs, Formatted, MkfsType
<1>7. CASE Prepare BY <1>7 DEF Prepare
<1>8. CASE Inspect BY <1>8 DEF Inspect, NeedFormat, LooksEmpty, RoMountable
<1>9. CASE Format BY <1>9 DEF Format, Wiped, Holds
<1>10. CASE Mkfs BY <1>10 DEF Mkfs, Formatted, MkfsType
<1>11. CASE MountTmp BY <1>11 DEF MountTmp
<1>12. CASE CopyFile BY <1>12 DEF CopyFile
<1>13. CASE CopyEnd BY <1>13 DEF CopyEnd, CopyComplete
<1>14. CASE Mark BY <1>14 DEF Mark
<1>15. CASE UmountTmp BY <1>15 DEF UmountTmp, Flushed
<1>16. CASE Switch BY <1>16 DEF Switch, NothingToSwitch, Flushed
<1>17. CASE SwitchMount BY <1>17 DEF SwitchMount
<1>18. CASE LayOut
  <2>1. /\ pc = "layout" /\ pc' = "up" /\ data' = data /\ disk' = disk /\ labelled' = labelled /\ fs' = fs
        /\ view' = [p \in Part |-> IF p = data THEN view[p] \cup {Layout} ELSE view[p]]
    BY <1>18 DEF LayOut, LayoutFails
  <2>2. data = Home /\ Home' = Home
    BY <2>1
  <2>3. CASE data = Nvme
    BY <2>1, <2>2, <2>3
  <2>4. CASE data # Nvme
    <3>1. view'[Nvme] = view[Nvme]
      BY <2>1, <2>4
    <3> QED
      BY <2>1, <2>2, <2>4, <3>1
  <2> QED
    BY <2>3, <2>4
<1>19. CASE ResetLogs BY <1>19 DEF ResetLogs
<1>20. CASE WipeOne BY <1>20 DEF WipeOne
<1>21. CASE WipeEnd BY <1>21 DEF WipeEnd
<1>22. CASE Unmount BY <1>22 DEF Unmount
<1>23. CASE PowerOn BY <1>23 DEF PowerOn
<1>24. CASE InsertNvme BY <1>24 DEF InsertNvme, NvmeKind, Holds
<1>25. CASE PowerLoss
  <2>1. PICK onSd \in Mixtures(Sd), onNvme \in Mixtures(Nvme) :
          LET left == [p \in Part |-> IF p = Sd THEN onSd ELSE onNvme]
          IN  view' = left /\ disk' = left
    BY <1>25 DEF PowerLoss
  <2>2. view'[Nvme] = onNvme /\ disk'[Nvme] = onNvme
    BY <2>1
  <2>3. /\ pc' = "off" /\ data' = None /\ fs' = fs /\ labelled' = labelled /\ pc \notin CopyWindow
    BY <1>25 DEF PowerLoss
  <2>4. /\ (view[Nvme] \cap disk[Nvme]) \subseteq onNvme
        /\ onNvme \subseteq view[Nvme] \cup disk[Nvme]
    BY DEF Mixtures
  <2>5. data = Nvme \/ view[Nvme] = disk[Nvme]
    BY <2>3 DEF CacheOnlyIfMounted
  <2> QED
    BY <2>2, <2>3, <2>4, <2>5
<1>26. CASE Writeback BY <1>26 DEF Writeback, Flushed
<1>27. CASE \E i \in Items : Write(i) \/ Delete(i)
  <2>1. PICK i \in Items : Write(i) \/ Delete(i)
    BY <1>27
  <2>2. /\ pc \in Running /\ UNCHANGED <<pc, fs, labelled, disk, data>> /\ i # Marker
        /\ view' = [view EXCEPT ![data] = @ \cup {i}] \/ view' = [view EXCEPT ![data] = @ \ {i}]
    BY <2>1 DEF Write, Delete
  <2>3. CASE data = Nvme
    BY <2>2, <2>3
  <2>4. CASE data # Nvme
    <3>1. view'[Nvme] = view[Nvme]
      BY <2>2, <2>4
    <3> QED
      BY <2>2, <2>4, <3>1
  <2> QED
    BY <2>3, <2>4
<1>28. CASE Shutdown \/ ResetStart BY <1>28 DEF Shutdown, ResetStart
<1>29. CASE UNCHANGED vars BY <1>29 DEF vars
<1> QED
  BY <1>1, <1>2, <1>3, <1>4, <1>5, <1>6, <1>7, <1>8, <1>9, <1>10, <1>11, <1>12, <1>13,
     <1>14, <1>15, <1>16, <1>17, <1>18, <1>19, <1>20, <1>21, <1>22, <1>23, <1>24, <1>25,
     <1>26, <1>27, <1>28, <1>29
     DEF Next, EarlyBoot, FactoryReset, Environment

(***************************************************************************)
(* Owned items are in the home of the data, also when it moves.            *)
(***************************************************************************)
LEMMA KeptStep ==
  ASSUME Calm, TypeOK, MountOrder, CacheOnlyIfMounted, ItemsOnExt4, NoPendingLoss, CopyOrder, Quiet,
         SdUsable, CopyExact, ResetOnSd, MarkerOrder, KeptAtHome, [Next]_vars
  PROVE  KeptAtHome'
<1> USE StorageAssumption
      DEF Calm, MayFail, TypeOK, Part, parts, mounts, history, Goto, MarkerOrder,
          CopyExact, Quiet, SdUsable, ResetOnSd, CopyOrder, MountOrder, ItemsOnExt4,
          CacheOnlyIfMounted, BeforeMount, Running, CopyWindow, Home, File, KeptAtHome,
          NoPendingLoss
<1>1. CASE Probe BY <1>1 DEF Probe, NvmeMigrated
<1>2. CASE MountNvme BY <1>2 DEF MountNvme
<1>3. CASE ByLabel BY <1>3 DEF ByLabel
<1>4. CASE ByDevice BY <1>4 DEF ByDevice
<1>5. CASE SdFormat BY <1>5 DEF SdFormat, Wiped, Holds
<1>6. CASE SdMkfs BY <1>6 DEF SdMkfs, Formatted, MkfsType
<1>7. CASE Prepare BY <1>7 DEF Prepare
<1>8. CASE Inspect BY <1>8 DEF Inspect, NeedFormat, LooksEmpty, RoMountable
<1>9. CASE Format BY <1>9 DEF Format, Wiped, Holds
<1>10. CASE Mkfs BY <1>10 DEF Mkfs, Formatted, MkfsType
<1>11. CASE MountTmp BY <1>11 DEF MountTmp
<1>12. CASE CopyFile BY <1>12 DEF CopyFile
<1>13. CASE CopyEnd BY <1>13 DEF CopyEnd, CopyComplete
<1>14. CASE Mark BY <1>14 DEF Mark
<1>15. CASE UmountTmp BY <1>15 DEF UmountTmp, Flushed
<1>16. CASE Switch BY <1>16 DEF Switch, NothingToSwitch, Flushed
<1>17. CASE SwitchMount BY <1>17 DEF SwitchMount
<1>18. CASE LayOut BY <1>18 DEF LayOut, LayoutFails
<1>19. CASE ResetLogs BY <1>19 DEF ResetLogs
<1>20. CASE WipeOne BY <1>20 DEF WipeOne
<1>21. CASE WipeEnd BY <1>21 DEF WipeEnd
<1>22. CASE Unmount BY <1>22 DEF Unmount
<1>23. CASE PowerOn BY <1>23 DEF PowerOn
<1>24. CASE InsertNvme BY <1>24 DEF InsertNvme, NvmeKind, Holds
<1>25. CASE PowerLoss BY <1>25 DEF PowerLoss, Mixtures
<1>26. CASE Writeback BY <1>26 DEF Writeback, Flushed
<1>27. CASE \E i \in Items : Write(i) \/ Delete(i) BY <1>27 DEF Write, Delete
<1>28. CASE Shutdown \/ ResetStart BY <1>28 DEF Shutdown, ResetStart
<1>29. CASE UNCHANGED vars BY <1>29 DEF vars
<1> QED
  BY <1>1, <1>2, <1>3, <1>4, <1>5, <1>6, <1>7, <1>8, <1>9, <1>10, <1>11, <1>12, <1>13,
     <1>14, <1>15, <1>16, <1>17, <1>18, <1>19, <1>20, <1>21, <1>22, <1>23, <1>24, <1>25,
     <1>26, <1>27, <1>28, <1>29
     DEF Next, EarlyBoot, FactoryReset, Environment

(***************************************************************************)
(* The home holds what was written and what a running reset has on its     *)
(* list; a power loss may bring back what was deleted, which counts as     *)
(* written then.                                                           *)
(***************************************************************************)
LEMMA ReturnsStep ==
  ASSUME Calm, TypeOK, MountOrder, CacheOnlyIfMounted, ItemsOnExt4, NoPendingLoss, CopyOrder, Quiet,
         SdUsable, CopyExact, ResetOnSd, MarkerOrder, NothingReturns, [Next]_vars
  PROVE  NothingReturns'
<1> USE StorageAssumption
      DEF Calm, MayFail, TypeOK, Part, parts, mounts, history, Goto, MarkerOrder,
          CopyExact, Quiet, SdUsable, ResetOnSd, CopyOrder, MountOrder, ItemsOnExt4,
          CacheOnlyIfMounted, BeforeMount, Running, CopyWindow, Home, File,
          NothingReturns
<1>1. CASE Probe BY <1>1 DEF Probe, NvmeMigrated
<1>2. CASE MountNvme BY <1>2 DEF MountNvme
<1>3. CASE ByLabel BY <1>3 DEF ByLabel
<1>4. CASE ByDevice BY <1>4 DEF ByDevice
<1>5. CASE SdFormat BY <1>5 DEF SdFormat, Wiped, Holds
<1>6. CASE SdMkfs BY <1>6 DEF SdMkfs, Formatted, MkfsType
<1>7. CASE Prepare BY <1>7 DEF Prepare
<1>8. CASE Inspect BY <1>8 DEF Inspect, NeedFormat, LooksEmpty, RoMountable
<1>9. CASE Format BY <1>9 DEF Format, Wiped, Holds
<1>10. CASE Mkfs BY <1>10 DEF Mkfs, Formatted, MkfsType
<1>11. CASE MountTmp BY <1>11 DEF MountTmp
<1>12. CASE CopyFile BY <1>12 DEF CopyFile
<1>13. CASE CopyEnd BY <1>13 DEF CopyEnd, CopyComplete
<1>14. CASE Mark BY <1>14 DEF Mark
<1>15. CASE UmountTmp BY <1>15 DEF UmountTmp, Flushed
<1>16. CASE Switch BY <1>16 DEF Switch, NothingToSwitch, Flushed
<1>17. CASE SwitchMount BY <1>17 DEF SwitchMount
<1>18. CASE LayOut
  <2>1. /\ pc = "layout" /\ pc' = "up" /\ UNCHANGED <<disk, written>>
        /\ view' = [p \in Part |-> IF p = data THEN view[p] \cup {Layout} ELSE view[p]]
    BY <1>18 DEF LayOut, LayoutFails
  <2>2. Home' = Home /\ view'[Home] \subseteq view[Home] \cup {Layout}
    BY <2>1
  <2> QED
    BY <2>1, <2>2
<1>19. CASE ResetLogs
  <2>1. UNCHANGED <<view, disk>> /\ Home' = Home /\ data = Home /\ pc = "resetLogs"
    BY <1>19 DEF ResetLogs
  <2>2. \/ pc' = "wipe" /\ todo' = view[data]
        \/ pc' = "up" /\ written' = written
    BY <1>19 DEF ResetLogs, WipeList
  <2> QED
    BY <2>1, <2>2
<1>20. CASE WipeOne BY <1>20 DEF WipeOne
<1>21. CASE WipeEnd BY <1>21 DEF WipeEnd
<1>22. CASE Unmount BY <1>22 DEF Unmount
<1>23. CASE PowerOn BY <1>23 DEF PowerOn
<1>24. CASE InsertNvme BY <1>24 DEF InsertNvme, NvmeKind, Holds
<1>25. CASE PowerLoss
  <2>1. PICK onSd \in Mixtures(Sd), onNvme \in Mixtures(Nvme) :
          LET left == [p \in Part |-> IF p = Sd THEN onSd ELSE onNvme]
          IN  view' = left /\ disk' = left /\ written' = written \cup Returned(left)
    BY <1>25 DEF PowerLoss
  <2> DEFINE left == [p \in Part |-> IF p = Sd THEN onSd ELSE onNvme]
  <2>2. \A p \in Part : /\ view[p] \cap disk[p] \subseteq left[p]
                        /\ left[p] \subseteq view[p] \cup disk[p]
    BY DEF Mixtures
  <2>3. pc' = "off" /\ pc \notin CopyWindow
    BY <1>25 DEF PowerLoss
  <2>4. Home' = Home
    <3>1. data = Nvme \/ view[Nvme] = disk[Nvme]
      BY <2>3
    <3> QED
      BY <2>1, <2>2, <3>1
  <2>5. CASE data = Home
    <3>1. Returned(left) = Items \cap (IF pc = "wipe" THEN left[Home] ELSE left[Home] \ view[Home])
      BY <2>5 DEF Returned
    <3>2. view'[Home] = left[Home] /\ written' = written \cup Returned(left)
      BY <2>1
    <3> QED
      BY <2>3, <2>4, <3>1, <3>2
  <2>6. CASE data # Home
    <3>1. view[Home] = disk[Home] /\ pc # "wipe"
      BY <2>3, <2>6
    <3>2. Home \in Part /\ view'[Home] = left[Home]
      BY <2>1
    <3>3. left[Home] = view[Home]
      <4> HIDE DEF left, Home
      <4>1. /\ view[Home] \cap disk[Home] \subseteq left[Home]
            /\ left[Home] \subseteq view[Home] \cup disk[Home]
        BY <2>2, <3>2
      <4>2. view[Home] = disk[Home]
        BY <3>1
      <4> QED
        BY ONLY <4>1, <4>2
    <3> QED
      BY <2>1, <2>3, <2>4, <3>1, <3>2, <3>3
  <2> QED
    BY <2>5, <2>6
<1>26. CASE Writeback BY <1>26 DEF Writeback, Flushed
<1>27. CASE \E i \in Items : Write(i) \/ Delete(i)
  <2>1. PICK i \in Items : Write(i) \/ Delete(i)
    BY <1>27
  <2>2. UNCHANGED <<pc, disk, data, todo>> /\ Home' = Home /\ data = Home
    BY <2>1 DEF Write, Delete
  <2>3. CASE Write(i)
    <3>1. view'[Home] = view[Home] \cup {i} /\ written' = written \cup {i}
      BY <2>2, <2>3 DEF Write
    <3> QED
      BY <2>2, <3>1
  <2>4. CASE Delete(i)
    <3>1. view'[Home] = view[Home] \ {i} /\ written' = written \ {i} /\ pc = "up"
      BY <2>2, <2>4 DEF Delete
    <3> QED
      BY <2>2, <3>1
  <2> QED
    BY <2>1, <2>3, <2>4
<1>28. CASE Shutdown \/ ResetStart BY <1>28 DEF Shutdown, ResetStart
<1>29. CASE UNCHANGED vars BY <1>29 DEF vars
<1> QED
  BY <1>1, <1>2, <1>3, <1>4, <1>5, <1>6, <1>7, <1>8, <1>9, <1>10, <1>11, <1>12, <1>13,
     <1>14, <1>15, <1>16, <1>17, <1>18, <1>19, <1>20, <1>21, <1>22, <1>23, <1>24, <1>25,
     <1>26, <1>27, <1>28, <1>29
     DEF Next, EarlyBoot, FactoryReset, Environment

(***************************************************************************)
(* The parts together, on top of StorageInv.                               *)
(***************************************************************************)
LEMMA HomeInit == Init => HomeInv
<1> SUFFICES ASSUME Init PROVE HomeInv
  OBVIOUS
<1>1. /\ Marker \notin view[Sd] \cup disk[Sd] /\ view[Nvme] = {} /\ disk[Nvme] = {}
      /\ fs[Nvme] = "absent" /\ fs[Sd] \in {"ext4", "raw"} /\ labelled \subseteq {Sd}
      /\ view[Sd] = disk[Sd] /\ view[Sd] \subseteq {Layout} /\ Home = Sd
  BY StorageAssumption DEF Init, Part, SdKind, Home
<1>2. pc = "off" /\ data = None /\ ~tmp /\ rc /\ written = {} /\ owned = {}
  BY DEF Init
<1>3. CopyOrder /\ Quiet /\ SdUsable /\ CopyExact /\ ResetOnSd
  BY <1>1, <1>2 DEF CopyOrder, Quiet, SdUsable, CopyExact, ResetOnSd, CopyWindow, Running
<1>4. MarkerOrder
  BY <1>1, <1>2, StorageAssumption DEF MarkerOrder, CopyWindow, Running, Part
<1>5. KeptAtHome /\ NothingReturns
  BY <1>1, <1>2, StorageAssumption DEF KeptAtHome, NothingReturns
<1> QED
  BY <1>3, <1>4, <1>5 DEF HomeInv

LEMMA HomeStep ==
  ASSUME Calm, StorageInv, HomeInv, [Next]_vars
  PROVE  HomeInv'
<1>1. CopyOrder' /\ ResetOnSd' /\ SdUsable'
  BY CopyOrderStep, ResetStep, SdUsableStep DEF StorageInv, HomeInv
<1>2. Quiet' /\ CopyExact'
  BY QuietStep, CopyExactStep DEF StorageInv, HomeInv
<1>3. MarkerOrder'
  BY MarkerOrderStep DEF StorageInv, HomeInv
<1>4. KeptAtHome' /\ NothingReturns'
  BY KeptStep, ReturnsStep DEF StorageInv, HomeInv
<1> QED
  BY <1>1, <1>2, <1>3, <1>4 DEF HomeInv

LEMMA HomeInvariant ==
  ASSUME Calm
  PROVE  Spec => [](StorageInv /\ HomeInv)
<1>1. StorageInv /\ HomeInv /\ [Next]_vars => HomeInv'
  BY HomeStep
<1> QED
  BY <1>1, HomeInit, StorageInvariant, PTL DEF Spec

(***************************************************************************)
(* The user finds on /data everything that reached the medium in earlier   *)
(* boots, also after the migration.                                        *)
(***************************************************************************)
THEOREM OwnedStaysVisible ==
  ASSUME Calm
  PROVE  Spec => []OwnedVisible
<1>1. StorageInv /\ HomeInv => OwnedVisible
  BY DEF HomeInv, KeptAtHome, MarkerOrder, OwnedVisible, Running
<1> QED
  BY <1>1, HomeInvariant, PTL

(***************************************************************************)
(* What the user deleted, or removed by a factory reset of the card, never *)
(* comes back: no boot falls back to an older partition.                   *)
(***************************************************************************)
THEOREM NothingComesBack ==
  ASSUME Calm
  PROVE  Spec => []NoResurrection
<1>1. StorageInv /\ HomeInv => NoResurrection
  BY DEF HomeInv, NothingReturns, MarkerOrder, NoResurrection, Running
<1> QED
  BY <1>1, HomeInvariant, PTL

(***************************************************************************)
(* Once the marker is on the medium, no step touches the card.             *)
(***************************************************************************)
LEMMA RestStep ==
  ASSUME Calm, StorageInv, HomeInv, Marker \in disk[Nvme], [Next]_vars
  PROVE  (view'[Sd] = view[Sd] /\ disk'[Sd] = disk[Sd])
<1> USE StorageAssumption
      DEF Calm, MayFail, TypeOK, Part, parts, mounts, history, Goto, StorageInv, HomeInv,
          MarkerOrder, CopyExact, Quiet, SdUsable, ResetOnSd, CopyOrder, MountOrder,
          CacheOnlyIfMounted, BeforeMount, Running, CopyWindow, Home, File
<1>1. CASE Probe BY <1>1 DEF Probe, NvmeMigrated
<1>2. CASE MountNvme BY <1>2 DEF MountNvme
<1>3. CASE ByLabel BY <1>3 DEF ByLabel
<1>4. CASE ByDevice BY <1>4 DEF ByDevice
<1>5. CASE SdFormat BY <1>5 DEF SdFormat, Wiped, Holds
<1>6. CASE SdMkfs BY <1>6 DEF SdMkfs, Formatted, MkfsType
<1>7. CASE Prepare BY <1>7 DEF Prepare
<1>8. CASE Inspect BY <1>8 DEF Inspect, NeedFormat, LooksEmpty, RoMountable
<1>9. CASE Format BY <1>9 DEF Format, Wiped, Holds
<1>10. CASE Mkfs BY <1>10 DEF Mkfs, Formatted, MkfsType
<1>11. CASE MountTmp BY <1>11 DEF MountTmp
<1>12. CASE CopyFile BY <1>12 DEF CopyFile
<1>13. CASE CopyEnd BY <1>13 DEF CopyEnd, CopyComplete
<1>14. CASE Mark BY <1>14 DEF Mark
<1>15. CASE UmountTmp BY <1>15 DEF UmountTmp, Flushed
<1>16. CASE Switch BY <1>16 DEF Switch, NothingToSwitch, Flushed
<1>17. CASE SwitchMount BY <1>17 DEF SwitchMount
<1>18. CASE LayOut BY <1>18 DEF LayOut, LayoutFails
<1>19. CASE ResetLogs BY <1>19 DEF ResetLogs
<1>20. CASE WipeOne BY <1>20 DEF WipeOne
<1>21. CASE WipeEnd BY <1>21 DEF WipeEnd
<1>22. CASE Unmount BY <1>22 DEF Unmount
<1>23. CASE PowerOn BY <1>23 DEF PowerOn
<1>24. CASE InsertNvme BY <1>24 DEF InsertNvme, NvmeKind, Holds
<1>25. CASE PowerLoss BY <1>25 DEF PowerLoss, Mixtures
<1>26. CASE Writeback BY <1>26 DEF Writeback, Flushed
<1>27. CASE \E i \in Items : Write(i) \/ Delete(i) BY <1>27 DEF Write, Delete
<1>28. CASE Shutdown \/ ResetStart BY <1>28 DEF Shutdown, ResetStart
<1>29. CASE UNCHANGED vars BY <1>29 DEF vars
<1> QED
  BY <1>1, <1>2, <1>3, <1>4, <1>5, <1>6, <1>7, <1>8, <1>9, <1>10, <1>11, <1>12, <1>13,
     <1>14, <1>15, <1>16, <1>17, <1>18, <1>19, <1>20, <1>21, <1>22, <1>23, <1>24, <1>25,
     <1>26, <1>27, <1>28, <1>29
     DEF Next, EarlyBoot, FactoryReset, Environment

(***************************************************************************)
(* From the migration on, the card's data partition is not written.        *)
(***************************************************************************)
THEOREM CardRests ==
  ASSUME Calm
  PROVE  Spec => SdAtRest
<1>1. StorageInv /\ HomeInv /\ [Next]_vars =>
        ((Marker \in disk[Nvme] /\ Marker \in disk'[Nvme])
            => view'[Sd] = view[Sd] /\ disk'[Sd] = disk[Sd])
  BY RestStep
<1> QED
  BY <1>1, HomeInvariant, PTL DEF Spec, SdAtRest

(***************************************************************************)
(* The store that the hub is to its user, and what each step is to it.     *)
(***************************************************************************)
Up == pc \in {"up", "resetLogs", "wipe", "stopping"}
Live == Items \cap view[Home]
Safe == Items \cap disk[Home]

Unseen == UNCHANGED <<Up, Live, Safe>>

(* The steps of early boot before the layout, which the user does not see. *)
LEMMA BootUnseen ==
  ASSUME Calm, StorageInv, HomeInv, EarlyBoot, ~LayOut
  PROVE  ~Up /\ ~Up' /\ UNCHANGED <<Live, Safe>>
<1>1. ~Up /\ ~Up'
  BY DEF Up, EarlyBoot, Probe, MountNvme, ByLabel, ByDevice, SdFormat, SdMkfs, Prepare, Inspect,
         Format, Mkfs, MountTmp, CopyFile, CopyEnd, Mark, UmountTmp, Switch, SwitchMount, Goto
<1>2. UNCHANGED <<Live, Safe>>
  <2> USE StorageAssumption
        DEF Calm, MayFail, TypeOK, Part, parts, mounts, history, Goto, Live, Safe,
        StorageInv, HomeInv, MarkerOrder, CopyExact, Quiet, SdUsable, CopyOrder, MountOrder,
        ItemsOnExt4, CacheOnlyIfMounted, BeforeMount, Running, CopyWindow, Home, File
  <2>1. CASE SdFormat BY <2>1 DEF SdFormat, Wiped, Holds
  <2>2. CASE Format BY <2>2 DEF Format, Wiped, Holds
  <2>3. CASE CopyFile BY <2>3 DEF CopyFile
  <2>4. CASE Mark BY <2>4 DEF Mark
  <2>5. CASE UmountTmp
    <3>1. pc = "umountTmp" /\ UNCHANGED view /\ disk' = [disk EXCEPT ![Nvme] = view[Nvme]]
      BY <2>5 DEF UmountTmp, Flushed
    <3>2. Home = Sd /\ view[Nvme] = view[Sd] \cup {Marker} /\ view[Sd] = disk[Sd]
      BY <3>1
    <3>3. Home' = Nvme /\ disk'[Nvme] = view[Nvme]
      BY <3>1, <3>2
    <3>4. Items \cap view[Nvme] = Items \cap view[Sd]
      BY <3>2
    <3> QED
      BY <3>1, <3>2, <3>3, <3>4
  <2>6. CASE Switch BY <2>6 DEF Switch, Flushed
  <2>7. UNCHANGED <<view, disk>> \/ SdFormat \/ Format \/ CopyFile \/ Mark \/ UmountTmp \/ Switch
    BY DEF EarlyBoot, Probe, MountNvme, ByLabel, ByDevice, SdMkfs, Prepare, Inspect, Mkfs,
           MountTmp, CopyEnd, SwitchMount
  <2> QED
    BY <2>1, <2>2, <2>3, <2>4, <2>5, <2>6, <2>7
<1> QED
  BY <1>1, <1>2

(***************************************************************************)
(* The directory tree is no item: when it is laid out, the hub is up with  *)
(* what it had.                                                            *)
(***************************************************************************)
LEMMA LayOutIsBoot ==
  ASSUME Calm, StorageInv, HomeInv, LayOut
  PROVE  Store!Boot
<1>1. /\ pc = "layout" /\ pc' = "up" /\ UNCHANGED disk
      /\ view' = [p \in Part |-> IF p = data THEN view[p] \cup {Layout} ELSE view[p]]
  BY DEF LayOut, LayoutFails, Goto, HomeInv, SdUsable
<1>2. Home' = Home /\ Home \in Part
  BY <1>1 DEF Home, Part
<1>3. view'[Home] \subseteq view[Home] \cup {Layout} /\ view[Home] \subseteq view'[Home]
  BY <1>1, <1>2
<1>4. UNCHANGED <<Live, Safe>>
  BY <1>1, <1>2, <1>3, StorageAssumption DEF Live, Safe
<1>5. ~Up /\ Up'
  BY <1>1 DEF Up
<1> QED
  BY <1>4, <1>5 DEF Store!Boot, Up, Live, Safe

(* The running hub.  /data is where the user's data is.                    *)
LEMMA RunningHome ==
  ASSUME StorageInv, HomeInv, pc \in Running
  PROVE  /\ data = Home /\ Home \in Part /\ Up
         /\ data = Nvme => Marker \in view[Nvme]
         /\ data = Sd => /\ Marker \notin view[Sd] /\ Marker \notin disk[Nvme]
                         /\ view[Nvme] = disk[Nvme]
<1>1. data = Home /\ Home \in Part /\ Up
  BY DEF HomeInv, MarkerOrder, Running, Home, Part, Up
<1>2. data = Nvme => Marker \in view[Nvme]
  BY DEF HomeInv, MarkerOrder
<1>3. data = Sd => /\ Marker \notin view[Sd] /\ Marker \notin disk[Nvme]
                   /\ view[Nvme] = disk[Nvme]
  BY <1>1, StorageAssumption
  DEF StorageInv, HomeInv, CopyOrder, Home, Quiet, CacheOnlyIfMounted, Running, CopyWindow, Part
<1> QED
  BY <1>1, <1>2, <1>3

LEMMA WriteIsStore ==
  ASSUME StorageInv, HomeInv, NEW i \in Items, Write(i)
  PROVE  Store!Store(i)
<1>1. pc \in Running /\ UNCHANGED <<pc, disk>> /\ view' = [view EXCEPT ![data] = @ \cup {i}]
  BY DEF Write, Running
<1>2. data = Home /\ Home' = Home /\ Home \in Part /\ Up
  BY <1>1, RunningHome DEF Home
<1>3. view'[Home] = view[Home] \cup {i}
  BY <1>1, <1>2 DEF StorageInv, TypeOK
<1>4. Live' = Live \cup {i} /\ UNCHANGED <<Up, Safe>>
  BY <1>1, <1>2, <1>3 DEF Live, Safe, Up
<1> QED
  BY <1>2, <1>4 DEF Store!Store, Up, Live, Safe

LEMMA DeleteIsRemove ==
  ASSUME StorageInv, HomeInv, NEW i \in Items, Delete(i)
  PROVE  Store!Remove(i)
<1>1. pc \in Running /\ UNCHANGED <<pc, disk>> /\ view' = [view EXCEPT ![data] = @ \ {i}]
  BY DEF Delete, Running
<1>2. data = Home /\ Home' = Home /\ Home \in Part /\ Up
  BY <1>1, RunningHome DEF Home
<1>3. view'[Home] = view[Home] \ {i}
  BY <1>1, <1>2 DEF StorageInv, TypeOK
<1>4. Live' = Live \ {i} /\ UNCHANGED <<Up, Safe>>
  BY <1>1, <1>2, <1>3 DEF Live, Safe, Up
<1> QED
  BY <1>2, <1>4 DEF Store!Remove, Up, Live, Safe

(***************************************************************************)
(* The journal of the partition on /data commits; the marker is in it, or  *)
(* on neither side, so that the home stays.                                *)
(***************************************************************************)
LEMMA WritebackIsSync ==
  ASSUME StorageInv, HomeInv, Writeback
  PROVE  Store!Sync
<1>1. pc \in Running /\ UNCHANGED <<pc, view>> /\ disk' = [disk EXCEPT ![data] = view[data]]
  BY DEF Writeback, Flushed, Running
<1>2. data = Home /\ Home \in Part /\ Up /\ Part = {Sd, Nvme} /\ disk \in [Part -> SUBSET File]
  BY <1>1, RunningHome DEF Part, StorageInv, TypeOK
<1>3. disk'[Home] = view[Home]
  BY <1>1, <1>2
<1>4. Home' = Home
  <2>1. CASE data = Nvme
    BY <1>1, <1>2, <1>3, <2>1, RunningHome DEF Home
  <2>2. CASE data = Sd
    BY <1>1, <1>2, <2>2, StorageAssumption DEF Home
  <2> QED
    BY <1>2, <2>1, <2>2
<1>5. Safe' = Live /\ UNCHANGED <<Up, Live>>
  BY <1>1, <1>3, <1>4 DEF Live, Safe, Up
<1> QED
  BY <1>2, <1>5 DEF Store!Sync, Up, Live, Safe

(***************************************************************************)
(* unmount.sh brings everything to the medium.                             *)
(***************************************************************************)
LEMMA UnmountIsSwitchOff ==
  ASSUME StorageInv, HomeInv, Unmount
  PROVE  Store!SwitchOff
<1>1. pc \in Running /\ pc' = "off" /\ UNCHANGED view /\ disk' = view
  BY DEF Unmount, Goto, Running
<1>2. data = Home /\ Home \in Part /\ Up /\ Part = {Sd, Nvme}
  BY <1>1, RunningHome DEF Part
<1>3. Home' = Home
  BY <1>1, <1>2, RunningHome DEF Home
<1>4. Safe' = Live /\ UNCHANGED Live /\ ~Up'
  BY <1>1, <1>3 DEF Live, Safe, Up
<1> QED
  BY <1>2, <1>4 DEF Store!SwitchOff, Up, Live, Safe

(* A factory reset removes what the user sees, one entry at a time.        *)
LEMMA WipeIsRemove ==
  ASSUME Calm, StorageInv, HomeInv, WipeOne
  PROVE  Unseen \/ \E i \in Items : Store!Remove(i)
<1>1. pc = "wipe" /\ pc \in Running /\ data = Sd /\ Home = Sd /\ UNCHANGED disk /\ Up
      /\ Sd \in Part /\ view \in [Part -> SUBSET File] /\ pc' \in {"wipe", "up"}
  BY RunningHome DEF WipeOne, Running, HomeInv, ResetOnSd, Part, StorageInv, TypeOK
<1>2. Home' = Home /\ Up'
  BY <1>1 DEF Home, Up
<1>3. CASE UNCHANGED view
  BY <1>1, <1>2, <1>3 DEF Unseen, Live, Safe, Up
<1>4. CASE \E f \in todo : view' = [view EXCEPT ![data] = @ \ {f}]
  <2>1. PICK f \in todo : view' = [view EXCEPT ![data] = @ \ {f}]
    BY <1>4
  <2>2. view'[Home] = view[Home] \ {f}
    BY <1>1, <2>1
  <2>3. Live' = Live \ {f} /\ UNCHANGED Safe
    BY <1>1, <1>2, <2>2 DEF Live, Safe
  <2>4. CASE f \in Items
    BY <1>1, <1>2, <2>3, <2>4 DEF Store!Remove, Up, Live, Safe
  <2>5. CASE f \notin Items
    <3>1. Live' = Live
      BY <2>3, <2>5 DEF Live
    <3> QED
      BY <1>1, <1>2, <2>3, <3>1 DEF Unseen
  <2> QED
    BY <2>4, <2>5
<1> QED
  BY <1>3, <1>4 DEF WipeOne

(***************************************************************************)
(* A power loss keeps of the home any part of what was not synced; on the  *)
(* other partition, and before the hub is up, nothing waits to be synced.  *)
(***************************************************************************)
LEMMA PowerLossIsLosePower ==
  ASSUME Calm, StorageInv, HomeInv, PowerLoss
  PROVE  Unseen \/ Store!LosePower
<1>1. PICK onSd \in Mixtures(Sd), onNvme \in Mixtures(Nvme) :
        LET left == [p \in Part |-> IF p = Sd THEN onSd ELSE onNvme]
        IN  view' = left /\ disk' = left
  BY DEF PowerLoss
<1>2. pc' = "off" /\ pc \notin CopyWindow
  BY DEF PowerLoss, Calm
<1>3. \A p \in Part : /\ view[p] \cap disk[p] \subseteq view'[p]
                      /\ view'[p] \subseteq view[p] \cup disk[p]
                      /\ disk'[p] = view'[p]
  BY <1>1 DEF Mixtures, Part
<1>4. Home' = Home /\ Home \in Part
  <2>1. view[Nvme] = disk[Nvme] \/ (Marker \in view[Nvme] /\ Marker \in disk[Nvme])
    BY <1>2, StorageAssumption
    DEF HomeInv, MarkerOrder, Quiet, StorageInv, CacheOnlyIfMounted, CopyWindow, Part
  <2> QED
    BY <1>3, <2>1 DEF Home, Part
<1>5. /\ Live \cap Safe \subseteq Live' /\ Live' \subseteq Live \cup Safe /\ Safe' = Live'
  BY <1>3, <1>4 DEF Live, Safe
<1>6. ~Up'
  BY <1>2 DEF Up
<1>7. CASE Up
  BY <1>5, <1>6, <1>7 DEF Store!LosePower, Up, Live, Safe
<1>8. CASE ~Up
  <2>1. view[Home] = disk[Home]
    BY <1>2, <1>4, <1>8 DEF HomeInv, Quiet, Running, Up, Part
  <2>2. UNCHANGED <<Live, Safe>>
    BY <1>5, <2>1 DEF Live, Safe
  <2>3. Up' = Up
    BY <1>6, <1>8 DEF Up
  <2> QED
    BY <2>2, <2>3 DEF Unseen
<1> QED
  BY <1>7, <1>8

(* What else happens, the user does not see: the power comes, a disk is    *)
(* put in, the hub begins to shut down or to reset.                        *)
LEMMA OthersUnseen ==
  ASSUME StorageInv, HomeInv,
         PowerOn \/ InsertNvme \/ Shutdown \/ ResetStart \/ ResetLogs \/ WipeEnd
  PROVE  Unseen
<1>1. CASE InsertNvme
  <2>1. /\ fs[Nvme] = "absent" /\ UNCHANGED pc
        /\ \E files \in SUBSET {Stray} : view' = [view EXCEPT ![Nvme] = files]
                                      /\ disk' = [disk EXCEPT ![Nvme] = files]
    BY <1>1 DEF InsertNvme, Holds
  <2>2. Marker \notin disk[Nvme] /\ Marker \notin disk'[Nvme]
    BY <2>1, StorageAssumption DEF HomeInv, MarkerOrder, StorageInv, TypeOK, Part
  <2>3. view'[Sd] = view[Sd] /\ disk'[Sd] = disk[Sd]
    BY <2>1, StorageAssumption DEF StorageInv, TypeOK, Part
  <2> QED
    BY <2>1, <2>2, <2>3 DEF Unseen, Up, Live, Safe, Home
<1>2. CASE PowerOn \/ Shutdown \/ ResetStart \/ ResetLogs \/ WipeEnd
  <2>1. UNCHANGED <<view, disk>>
    BY <1>2 DEF PowerOn, Shutdown, ResetStart, ResetLogs, WipeEnd, parts
  <2>2. Up' = Up
    BY <1>2 DEF PowerOn, Shutdown, ResetStart, ResetLogs, WipeEnd, Goto, Up
  <2> QED
    BY <2>1, <2>2 DEF Unseen, Live, Safe, Home
<1> QED
  BY <1>1, <1>2

(***************************************************************************)
(* Boots, the migration to NVMe, resets of the card, shutdowns and power   *)
(* losses are to the user one store, the same before and after the move.   *)
(***************************************************************************)
THEOREM StoreImplemented ==
  ASSUME Calm
  PROVE  Spec => ImplementsStore
<1>1. Init => Store!Init
  <2> SUFFICES ASSUME Init PROVE Store!Init
    OBVIOUS
  <2>1. view[Home] \subseteq {Layout} /\ disk[Home] \subseteq {Layout} /\ pc = "off"
    BY StorageAssumption DEF Init, Home, Part
  <2> QED
    BY <2>1, StorageAssumption DEF Store!Init
<1>2. StorageInv /\ HomeInv /\ [Next]_vars => [Store!Next]_(Store!vars)
  <2>1. ASSUME StorageInv, HomeInv, Next PROVE Unseen \/ Store!Next
    <3>1. CASE EarlyBoot
      <4>1. CASE ~LayOut
        BY <2>1, <3>1, <4>1, BootUnseen DEF Unseen, Up
      <4>2. CASE LayOut
        BY <2>1, <4>2, LayOutIsBoot DEF Store!Next
      <4> QED
        BY <4>1, <4>2
    <3>2. CASE WipeOne
      BY <2>1, <3>2, WipeIsRemove DEF Store!Next
    <3>3. CASE Unmount
      BY <2>1, <3>3, UnmountIsSwitchOff DEF Store!Next
    <3>4. CASE PowerLoss
      BY <2>1, <3>4, PowerLossIsLosePower DEF Store!Next
    <3>5. CASE Writeback
      BY <2>1, <3>5, WritebackIsSync DEF Store!Next
    <3>6. CASE \E i \in Items : Write(i) \/ Delete(i)
      BY <2>1, <3>6, WriteIsStore, DeleteIsRemove DEF Store!Next
    <3>7. CASE PowerOn \/ InsertNvme \/ Shutdown \/ ResetStart \/ ResetLogs \/ WipeEnd
      BY <2>1, <3>7, OthersUnseen
    <3> QED
      BY <2>1, <3>1, <3>2, <3>3, <3>4, <3>5, <3>6, <3>7 DEF Next, FactoryReset, Environment
  <2>2. ASSUME UNCHANGED vars PROVE Unseen
    BY <2>2 DEF vars, Unseen, Up, Live, Safe, Home
  <2> QED
    BY <2>1, <2>2 DEF Unseen, Up, Live, Safe, Store!vars
<1> QED
  BY <1>1, <1>2, HomeInvariant, PTL DEF Spec, ImplementsStore, Store!Spec

\* what a format is about to wipe is empty, or could not be looked into
FormatsEmpty ==
    /\ fs[Nvme] = "absent" => view[Nvme] = {}
    /\ pc = "format" /\ data # Nvme /\ ~misprobed
         => fs[Nvme] \in {"bare", "raw", "opaque"} \/ view[Nvme] = {}

LEMMA FormatsEmptyStep ==
  ASSUME TypeOK, MountOrder, CacheOnlyIfMounted, CopyOnlyAdds, FormatsEmpty, [Next]_vars
  PROVE  FormatsEmpty'
<1> USE StorageAssumption
      DEF MayFail, TypeOK, Part, parts, mounts, history, Goto, FormatsEmpty, MountOrder,
          BeforeMount, Running, CopyWindow, CacheOnlyIfMounted, FsType, Commands
<1>1. CASE Probe BY <1>1 DEF Probe, NvmeMigrated
<1>2. CASE MountNvme BY <1>2 DEF MountNvme
<1>3. CASE ByLabel BY <1>3 DEF ByLabel
<1>4. CASE ByDevice BY <1>4 DEF ByDevice
<1>5. CASE SdFormat BY <1>5 DEF SdFormat, Wiped, Holds
<1>6. CASE SdMkfs BY <1>6 DEF SdMkfs, Formatted, MkfsType
<1>7. CASE Prepare BY <1>7 DEF Prepare
<1>8. CASE Inspect BY <1>8 DEF Inspect, NeedFormat, LooksEmpty, RoMountable
<1>9. CASE Format BY <1>9 DEF Format, Wiped, Holds
<1>10. CASE Mkfs BY <1>10 DEF Mkfs, Formatted, MkfsType
<1>11. CASE MountTmp BY <1>11 DEF MountTmp
<1>12. CASE CopyFile BY <1>12 DEF CopyFile
<1>13. CASE CopyEnd BY <1>13 DEF CopyEnd, CopyComplete
<1>14. CASE Mark BY <1>14 DEF Mark
<1>15. CASE UmountTmp BY <1>15 DEF UmountTmp, Flushed
<1>16. CASE Switch BY <1>16 DEF Switch, NothingToSwitch, Flushed
<1>17. CASE SwitchMount BY <1>17 DEF SwitchMount
<1>18. CASE LayOut BY <1>18 DEF LayOut, LayoutFails
<1>19. CASE ResetLogs BY <1>19 DEF ResetLogs
<1>20. CASE WipeOne BY <1>20 DEF WipeOne
<1>21. CASE WipeEnd BY <1>21 DEF WipeEnd
<1>22. CASE Unmount BY <1>22 DEF Unmount
<1>23. CASE PowerOn BY <1>23 DEF PowerOn
<1>24. CASE InsertNvme BY <1>24 DEF InsertNvme, NvmeKind, Holds
<1>25. CASE PowerLoss
  <2>1. PICK onNvme \in Mixtures(Nvme) : view'[Nvme] = onNvme
    BY <1>25 DEF PowerLoss
  <2>2. pc' = "off" /\ fs' = fs
    BY <1>25 DEF PowerLoss
  <2>3. fs[Nvme] = "absent" => disk[Nvme] = {}
    BY DEF CopyOnlyAdds
  <2>4. onNvme \subseteq view[Nvme] \cup disk[Nvme]
    BY DEF Mixtures
  <2> QED
    BY <2>1, <2>2, <2>3, <2>4
<1>26. CASE Writeback BY <1>26 DEF Writeback, Flushed
<1>27. CASE \E i \in Items : Write(i) \/ Delete(i) BY <1>27 DEF Write, Delete
<1>28. CASE Shutdown \/ ResetStart BY <1>28 DEF Shutdown, ResetStart
<1>29. CASE UNCHANGED vars BY <1>29 DEF vars
<1> QED
  BY <1>1, <1>2, <1>3, <1>4, <1>5, <1>6, <1>7, <1>8, <1>9, <1>10, <1>11, <1>12, <1>13,
     <1>14, <1>15, <1>16, <1>17, <1>18, <1>19, <1>20, <1>21, <1>22, <1>23, <1>24, <1>25,
     <1>26, <1>27, <1>28, <1>29
     DEF Next, EarlyBoot, FactoryReset, Environment

(***************************************************************************)
(* Only what is empty is formatted, whatever commands fail, but for the    *)
(* two exceptions the property names.                                      *)
(***************************************************************************)
THEOREM FormatsSpareFiles == Spec => FormatsOnlyEmpty
<1>1. Init => FormatsEmpty
  BY StorageAssumption DEF Init, FormatsEmpty, Part
<1>2. StorageInv /\ FormatsEmpty /\ [Next]_vars => FormatsEmpty'
  BY FormatsEmptyStep DEF StorageInv
<1>3. ASSUME StorageInv, FormatsEmpty, [Next]_vars, NEW p \in Part,
             fs[p] \notin {"bare", "raw", "opaque"}, fs'[p] \in {"bare", "raw"}
      PROVE  misprobed' \/ view[p] = {}
  <2> USE StorageAssumption DEF StorageInv, TypeOK, Part, parts, mounts, history, Goto
  <2>1. CASE SdFormat BY <1>3, <2>1 DEF SdFormat, Wiped, Holds
  <2>2. CASE Format BY <1>3, <2>2 DEF Format, Wiped, Holds, FormatsEmpty
  <2>3. CASE InsertNvme BY <1>3, <2>3 DEF InsertNvme, FormatsEmpty
  <2>4. CASE Prepare BY <1>3, <2>4 DEF Prepare
  <2>5. CASE SdMkfs \/ Mkfs BY <1>3, <2>5 DEF SdMkfs, Mkfs, Formatted, MkfsType
  <2>6. UNCHANGED fs \/ SdFormat \/ Format \/ InsertNvme \/ Prepare \/ SdMkfs \/ Mkfs
    BY <1>3 DEF Next, EarlyBoot, FactoryReset, Environment, Probe, MountNvme, ByLabel, ByDevice,
       Inspect, MountTmp, CopyFile, CopyEnd, Mark, UmountTmp, Switch, SwitchMount, LayOut,
       ResetLogs, WipeOne, WipeEnd, Unmount, PowerOn, PowerLoss, Writeback, Write, Delete,
       Shutdown, ResetStart, vars
  <2> QED
    BY <1>3, <2>1, <2>2, <2>3, <2>4, <2>5, <2>6
<1>4. StorageInv /\ FormatsEmpty /\ [Next]_vars =>
        \A p \in Part : fs[p] \notin {"bare", "raw", "opaque"} /\ fs'[p] \in {"bare", "raw"}
                          => misprobed' \/ view[p] = {}
  BY <1>3
<1>5. Spec => []FormatsEmpty
  BY <1>1, <1>2, StorageInvariant, PTL DEF Spec
<1> QED
  BY <1>4, <1>5, StorageInvariant, PTL DEF Spec, FormatsOnlyEmpty
=============================================================================
