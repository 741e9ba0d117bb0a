-------------------------- MODULE ScenePathProofs --------------------------
(* What ScenePath guarantees for every set of targets, every number of      *)
(* backups and every behaviour of the user.  IInv carries the properties of *)
(* the ledger, Clearing what a clear knows of the targets it has worked on, *)
(* Undisturbed what holds as long as the user edits nothing.                *)
EXTENDS ScenePath, TLAPS

(* A target is never one of the backup paths. *)
LEMMA PathFacts ==
    /\ Targets \subseteq Paths
    /\ \A t \in Targets, s \in Slots : <<t, s>> \in Paths /\ <<t, s>> \notin Targets
    /\ \A p \in Paths \ Targets : \E t \in Targets, s \in Slots : p = <<t, s>>
BY ScenePathAssumption DEF Paths

(* The constant entries and descriptors have their types. *)
LEMMA ConstantTypes ==
    /\ Absent \in Entry /\ Projected \in Entry
    /\ NoDesc \in Desc /\ UnchangedDesc \in Desc /\ AbsentDesc \in Desc
      /\ \A l \in UserLinks \cup {SceneLink} : Link(l) \in Entry
    /\ \A l \in Ids : SymlinkDesc(l) \in Desc
    /\ \A i \in Ids, s \in Slots : DirectoryDesc(s, i) \in Desc
BY DEF Absent, Projected, Link, Entry, File, DirKinds, Ids, NoDesc,
       PlainDesc, UnchangedDesc, AbsentDesc, SymlinkDesc, DirectoryDesc, Desc, DescKinds

(* What is at a path determines what its id can be. *)
LEMMA EntryFacts ==
  ASSUME TypeOK, NEW p \in Paths
  PROVE  /\ disk[p] \in Entry /\ disk[p].id \in Ids
         /\ IsDir(disk[p]) => disk[p].id \in UserDirs \cup SceneDirs
         /\ disk[p].kind = "link" =>
              disk[p].id \in UserLinks \cup {SceneLink} /\ disk[p] = Link(disk[p].id)
<1>1. disk[p] \in Entry
  BY DEF TypeOK
<1>2. CASE disk[p] \in {Absent, File}
  BY <1>1, <1>2 DEF Absent, File, IsDir, DirKinds, Ids
<1>3. CASE disk[p] \in [kind : {"link"}, id : UserLinks \cup {SceneLink}]
  BY <1>1, <1>3 DEF Link, IsDir, DirKinds, Ids
<1>4. CASE disk[p] \in [kind : DirKinds, id : UserDirs \cup SceneDirs]
  BY <1>1, <1>4 DEF IsDir, DirKinds, Ids
<1> QED BY <1>1, <1>2, <1>3, <1>4 DEF Entry

(* Every step keeps the types. *)
LEMMA TypeStep == IInv /\ [Next]_vars => TypeOK'
<1> SUFFICES ASSUME IInv, [Next]_vars PROVE TypeOK'
  OBVIOUS
<1> TypeOK
  BY DEF IInv
<1> USE DEF TypeOK, PCs, Writing
<1>1. CASE \E f \in BOOLEAN, S \in SUBSET Targets : StartApply(f, S) \/ StartClear(f, S)
  BY <1>1 DEF StartApply, StartClear, world
<1>2. CASE Finish \/ Crash
  BY <1>2, ConstantTypes DEF Finish, Crash, Abort, world, ledger, ctl, user
<1>3. CASE ApplyStep
  <2> USE ConstantTypes, PathFacts DEF world, ledger, ctl, loop, user
  <2>1. CASE BuildTree \/ SaveUnchanged \/ SaveCapture \/ SaveCaptureRaises
    BY <2>1 DEF BuildTree, SaveUnchanged, SaveCapture, SaveCaptureRaises,
                Save, SaveRaises, NextTarget, Abort
  <2>2. CASE BodyRefused \/ SaveDisplaced \/ SaveDisplacedRaises
    BY <2>2 DEF BodyRefused, SaveDisplaced, SaveDisplacedRaises,
                Save, SaveRaises, NextTarget
  <2>d. mem[cur] \in Desc => Displaced(mem[cur]) \in Desc
    BY DEF Desc, Displaced
  <2>b. CASE BackupSeen
    BY <2>b, <2>d DEF BackupSeen
  <2>3. CASE Displace
    BY <2>3, <2>d DEF Displace
  <2>4. CASE PlaceReplace \/ PlaceKeep \/ WriteKeeps \/ WriteInto \/ WriteEnds
    BY <2>4 DEF PlaceReplace, PlaceKeep, WriteKeeps, WriteInto, WriteEnds,
                NextTarget, AtPlace
  <2>5. CASE WriteUnlink \/ WriteDiscard
    BY <2>5 DEF WriteUnlink, WriteDiscard
  <2>9. CASE WriteBackup
    <3>1. PICK s \in Free(cur), i \in UserDirs :
            /\ disk' = [disk EXCEPT ![<<cur, s>>] = [kind |-> disk[cur].kind, id |-> i]]
            /\ bak' = s
      BY <2>9 DEF WriteBackup
    <3>2. [kind |-> disk[cur].kind, id |-> i] \in Entry
      BY <2>9 DEF WriteBackup, IsDir, Entry
    <3>3. disk' \in [Paths -> Entry]
      BY <3>1, <3>2
    <3>4. bak' \in Slots
      BY <3>1 DEF Free
    <3> QED BY <2>9, <3>3, <3>4 DEF WriteBackup
  <2>10. CASE WriteLink
    BY <2>10 DEF WriteLink, NextTarget
  <2>6. CASE WriteCopy
    <3>1. PICK i \in SceneDirs, k \in {"empty", "full"} :
            disk' = [disk EXCEPT ![cur] = [kind |-> k, id |-> i]]
      BY <2>6 DEF WriteCopy
    <3>2. [kind |-> k, id |-> i] \in Entry
      BY DEF Entry, DirKinds
    <3> QED BY <2>6, <3>1, <3>2 DEF WriteCopy
  <2>11. CASE WriteMarker
    <3>1. IsDir(disk[cur]) => [kind |-> "marked", id |-> disk[cur].id] \in Entry
      <4>1. SUFFICES ASSUME IsDir(disk[cur]) PROVE disk[cur].id \in UserDirs \cup SceneDirs
        BY DEF Entry, DirKinds
      <4>2. cur \in Targets
        BY <2>11 DEF WriteMarker
      <4> QED BY <4>1, <4>2, EntryFacts
    <3> QED BY <2>11, <3>1 DEF WriteMarker, NextTarget
  <2>7. ASSUME NEW t \in Targets,
               ApplyCanonical(t) \/ RecordCanonical(t) \/ CaptureRefused(t) \/ Resume(t)
        PROVE  TypeOK'
    BY <2>7 DEF ApplyCanonical, RecordCanonical, CaptureRefused, Resume,
                ApplyPick, Pick
  <2>8. ASSUME NEW t \in Targets,
               CaptureAbsent(t) \/ CaptureSymlink(t) \/ CaptureDirectory(t)
        PROVE  TypeOK'
    <3>1. disk[t].id \in Ids
      BY EntryFacts
    <3>2. ASSUME NEW d \in Desc, CaptureTo(t, d) PROVE TypeOK'
      BY <3>2 DEF CaptureTo, ApplyPick, Pick
    <3>3. CASE CaptureAbsent(t)
      BY <3>2, <3>3 DEF CaptureAbsent
    <3>4. CASE CaptureSymlink(t)
      BY <3>1, <3>2, <3>4 DEF CaptureSymlink
    <3>5. CASE CaptureDirectory(t)
      BY <3>1, <3>2, <3>5 DEF CaptureDirectory, Free
    <3> QED BY <2>8, <3>3, <3>4, <3>5
  <2> QED BY <1>3, <2>1, <2>2, <2>b, <2>3, <2>4, <2>5, <2>6, <2>7, <2>8,
      <2>9, <2>10, <2>11
      DEF ApplyStep
<1>4. CASE ClearStep
  <2> USE ConstantTypes, PathFacts DEF world, ledger, ctl, loop, user
  <2>1. CASE SaveIdentity \/ SaveClear
    BY <2>1 DEF SaveIdentity, SaveClear, Save, NextTarget
  <2>2. CASE ClearStepRaises
    BY <2>2 DEF ClearStepRaises, SaveRaises, NextTarget, RestoreFails
  <2>3. CASE SaveClearRaises
    BY <2>3 DEF SaveClearRaises, SaveRaises, NextTarget, RestoreFails
  <2>4. CASE ClearRelink
    <3>1. mem[cur].id \in UserLinks
      BY <2>4 DEF ClearRelink, IInv, CommandPoint, DescriptorsWellFormed, WellFormed
    <3>2. Link(mem[cur].id) \in Entry
      BY <3>1
    <3> QED BY <2>4, <3>2 DEF ClearRelink, Restored
  <2>5. CASE ClearOutput
    BY <2>5 DEF ClearOutput
  <2>6. CASE ClearRename
    <3>1. Backup(cur, mem[cur]) \in Paths
      <4>1. mem[cur].slot \in Slots
        BY <2>6 DEF ClearRename, IInv, CommandPoint, DescriptorsWellFormed, WellFormed
      <4> QED BY <4>1, <2>6 DEF Backup, ClearRename
    <3> QED BY <2>6, <3>1 DEF ClearRename, Restored
  <2>7. ASSUME NEW t \in Targets,
               ClearUnrecorded(t) \/ ClearIdentify(t) \/ ClearRefused(t)
        PROVE  TypeOK'
    BY <2>7 DEF ClearUnrecorded, ClearIdentify, ClearRefused, ClearPick, Pick
  <2>8. ASSUME NEW t \in Targets,
               ClearInPlace(t) \/ ClearToAbsent(t) \/ ClearUnlink(t)
        PROVE  TypeOK'
    BY <2>8 DEF ClearInPlace, ClearToAbsent, ClearUnlink, Restored, ClearPick, Pick
  <2> QED BY <1>4, <2>1, <2>2, <2>3, <2>4, <2>5, <2>6, <2>7, <2>8 DEF ClearStep
<1>5. CASE UserStep
  <2>1. UserEntries \subseteq Entry
    BY DEF UserEntries, Entry, File, DirKinds, Ids, Absent, Link
  <2> USE ConstantTypes, PathFacts DEF ledger, ctl, loop, UserActs
  <2>2. ASSUME NEW p \in Paths, UserEdit(p) PROVE TypeOK'
    <3>1. Owner(p) \in Targets
      BY PathFacts DEF Owner
    <3> QED BY <2>1, <2>2, <3>1 DEF UserEdit
  <2>3. ASSUME NEW t \in Targets, NEW s \in Slots, UserMove(t, s) PROVE TypeOK'
    BY <2>3 DEF UserMove
  <2>4. CASE UserCleans
    <3>1. tree' \in BOOLEAN
      BY <2>4 DEF UserCleans
    <3>2. touched' \subseteq Targets /\ drift' \in Nat
      BY <2>4 DEF UserCleans
    <3> QED BY <2>4, <3>1, <3>2 DEF UserCleans
  <2> QED BY <1>5, <2>2, <2>3, <2>4 DEF UserStep
<1>6. CASE UNCHANGED vars
  BY <1>6 DEF vars
<1> QED BY <1>1, <1>2, <1>3, <1>4, <1>5, <1>6 DEF Next, CommandStep

(* What may hold a directory or a link at a target without a record is the   *)
(* user's: everything else there is scene output and has authority.         *)
LEMMA CapturesUser ==
  ASSUME IInv, NEW t \in Targets, pc = "pick", mem[t].kind = "none"
  PROVE  /\ disk[t].kind = "link" => disk[t].id \in UserLinks
         /\ IsDir(disk[t]) => disk[t].id \in UserDirs
<1>1. led[t] = NoDesc
  BY DEF IInv, MemAgrees, Advances, Displaced, Capturing, DescriptorsWellFormed,
         WellFormed
<1>2. ~SceneOutput(disk[t])
  BY <1>1 DEF IInv, SceneOutputHasAuthority, Authority, NoDesc, PlainDesc
<1> QED
  BY <1>2, PathFacts, EntryFacts DEF IInv, SceneOutput, Projected

(* The descriptors in both ledgers stay well formed: a capture names a       *)
(* user's directory because scene output always has authority already.      *)
LEMMA DescriptorStep == IInv /\ [Next]_vars => DescriptorsWellFormed'
<1> SUFFICES ASSUME IInv, [Next]_vars PROVE DescriptorsWellFormed'
  OBVIOUS
<1> TypeOK /\ DescriptorsWellFormed
  BY DEF IInv
<1>n. WellFormed(NoDesc)
  BY DEF WellFormed, NoDesc, PlainDesc
<1>d. ASSUME NEW d \in Desc, WellFormed(d), d.kind = "directory"
      PROVE  WellFormed(Displaced(d))
  BY <1>d DEF WellFormed, Displaced
<1> USE DEF DescriptorsWellFormed, TypeOK
<1>1. CASE \E f \in BOOLEAN, S \in SUBSET Targets : StartApply(f, S) \/ StartClear(f, S)
  BY <1>1 DEF StartApply, StartClear, world
<1>2. CASE Finish \/ Crash
  BY <1>2, <1>n DEF Finish, Crash, Abort, world, ledger, ctl, user
<1>3. CASE UserStep
  BY <1>3 DEF UserStep, UserEdit, UserMove, UserCleans, ledger, ctl, loop
<1>4. CASE UNCHANGED vars
  BY <1>4 DEF vars
<1>5. CASE ApplyStep
  <2> USE <1>n DEF world, ledger, ctl, loop, user
  <2>1. CASE BuildTree \/ BodyRefused \/ PlaceReplace \/ PlaceKeep \/ WriteUnlink
             \/ WriteBackup \/ WriteLink \/ WriteCopy \/ WriteMarker
             \/ WriteDiscard \/ WriteKeeps \/ WriteInto \/ WriteEnds
    BY <2>1 DEF BuildTree, BodyRefused, PlaceReplace, PlaceKeep, WriteUnlink,
                WriteBackup, WriteLink, WriteCopy, WriteMarker, WriteDiscard,
                WriteKeeps, WriteInto, WriteEnds, NextTarget, Writing
  <2>2. CASE SaveUnchanged \/ SaveCapture \/ SaveCaptureRaises \/ SaveDisplaced
             \/ SaveDisplacedRaises
    BY <2>2 DEF SaveUnchanged, SaveCapture, SaveCaptureRaises, SaveDisplaced,
                SaveDisplacedRaises, Save, SaveRaises, NextTarget, Abort
  <2>3. CASE BackupSeen
    BY <2>3, <1>d DEF BackupSeen, PCs
  <2>4. CASE Displace
    BY <2>4, <1>d DEF Displace, PCs
  <2>5. ASSUME NEW t \in Targets, ApplyCanonical(t) \/ CaptureRefused(t) \/ Resume(t)
        PROVE  DescriptorsWellFormed'
    BY <2>5 DEF ApplyCanonical, CaptureRefused, Resume
  <2>6. ASSUME NEW t \in Targets, RecordCanonical(t) PROVE DescriptorsWellFormed'
    <3>1. WellFormed(UnchangedDesc)
      BY DEF WellFormed, UnchangedDesc, PlainDesc
    <3> QED BY <2>6, <3>1 DEF RecordCanonical
  <2>7. ASSUME NEW t \in Targets,
               CaptureAbsent(t) \/ CaptureSymlink(t) \/ CaptureDirectory(t)
        PROVE  DescriptorsWellFormed'
    <3>1. ASSUME NEW d, WellFormed(d), CaptureTo(t, d) PROVE DescriptorsWellFormed'
      BY <3>1 DEF CaptureTo
    <3>2. CASE CaptureAbsent(t)
      <4>1. WellFormed(AbsentDesc)
        BY DEF WellFormed, AbsentDesc, PlainDesc
      <4> QED BY <3>1, <3>2, <4>1 DEF CaptureAbsent
    <3>3. CASE CaptureSymlink(t)
      <4>1. disk[t].id \in UserLinks
        BY <3>3, CapturesUser DEF CaptureSymlink, CaptureTo, ApplyPick, Pick
      <4>2. WellFormed(SymlinkDesc(disk[t].id))
        BY <4>1 DEF WellFormed, SymlinkDesc, PlainDesc
      <4> QED BY <3>1, <3>3, <4>2 DEF CaptureSymlink
    <3>4. CASE CaptureDirectory(t)
      <4>1. PICK s \in Slots : CaptureTo(t, DirectoryDesc(s, disk[t].id))
        BY <3>4 DEF CaptureDirectory, Free
      <4>2. disk[t].id \in UserDirs
        BY <3>4, CapturesUser
           DEF CaptureDirectory, CaptureTo, ApplyPick, Pick, IsDir, DirKinds
      <4>3. WellFormed(DirectoryDesc(s, disk[t].id))
        BY <4>2 DEF WellFormed, DirectoryDesc
      <4> QED BY <3>1, <4>1, <4>3
    <3> QED BY <2>7, <3>2, <3>3, <3>4
  <2> QED BY <1>5, <2>1, <2>2, <2>3, <2>4, <2>5, <2>6, <2>7 DEF ApplyStep
<1>6. CASE ClearStep
  <2> USE <1>n DEF world, ledger, ctl, loop, user
  <2>1. CASE SaveIdentity \/ SaveClear \/ ClearOutput \/ ClearStepRaises
    BY <2>1 DEF SaveIdentity, SaveClear, ClearOutput, ClearStepRaises, Save,
                SaveRaises, NextTarget, RestoreFails
  <2>2. CASE SaveClearRaises
    BY <2>2 DEF SaveClearRaises, SaveRaises, NextTarget, RestoreFails
  <2>3. CASE ClearRelink
    BY <2>3 DEF ClearRelink, Restored, PCs
  <2>4. CASE ClearRename
    BY <2>4 DEF ClearRename, Restored, PCs
  <2>5. ASSUME NEW t \in Targets,
               ClearUnrecorded(t) \/ ClearIdentify(t) \/ ClearRefused(t) \/ ClearUnlink(t)
        PROVE  DescriptorsWellFormed'
    BY <2>5 DEF ClearUnrecorded, ClearIdentify, ClearRefused, ClearUnlink
  <2>6. ASSUME NEW t \in Targets, ClearInPlace(t) \/ ClearToAbsent(t)
        PROVE  DescriptorsWellFormed'
    BY <2>6 DEF ClearInPlace, ClearToAbsent, Restored
  <2> QED BY <1>6, <2>1, <2>2, <2>3, <2>4, <2>5, <2>6 DEF ClearStep
<1> QED BY <1>1, <1>2, <1>3, <1>4, <1>5, <1>6 DEF Next, CommandStep

(* A descriptor's only change composes. *)
LEMMA AdvanceFacts ==
  /\ \A d \in Desc : Advances(d, d) /\ Advances(d, Displaced(d))
  /\ \A d, e \in Desc : Advances(d, e) => Advances(d, Displaced(e))
  /\ \A d, e \in Desc : Advances(d, e) => (d.kind = e.kind /\ d.id = e.id)
<1>1. \A d, e \in Desc : Displaced(d) \in Desc /\ Displaced(Displaced(d)) = Displaced(d)
                         /\ Displaced(d).kind = d.kind /\ Displaced(d).id = d.id
  BY DEF Displaced, Desc
<1> QED BY <1>1 DEF Advances

(* Outside the save that records or drops a descriptor the command's ledger  *)
(* is the saved one.                                                         *)
LEMMA AgreeStep == IInv /\ [Next]_vars => MemAgrees'
<1> SUFFICES ASSUME IInv, [Next]_vars PROVE MemAgrees'
  OBVIOUS
<1> TypeOK /\ MemAgrees
  BY DEF IInv
<1> USE DEF MemAgrees, TypeOK, Capturing
<1>1. CASE \E f \in BOOLEAN, S \in SUBSET Targets : StartApply(f, S) \/ StartClear(f, S)
  BY <1>1, AdvanceFacts DEF StartApply, StartClear, world
<1>2. CASE Finish \/ Crash
  BY <1>2 DEF Finish, Crash, Abort
<1>3. CASE UserStep
  BY <1>3 DEF UserStep, UserEdit, UserMove, UserCleans, ledger, ctl, loop
<1>4. CASE UNCHANGED vars
  BY <1>4 DEF vars
<1>5. CASE ApplyStep
  <2> USE DEF world, ledger, ctl, loop, user
  <2>1. CASE BuildTree \/ BodyRefused \/ PlaceReplace \/ PlaceKeep \/ WriteUnlink
             \/ WriteBackup \/ WriteLink \/ WriteCopy \/ WriteMarker
             \/ WriteDiscard \/ WriteKeeps \/ WriteInto \/ WriteEnds
    BY <2>1 DEF BuildTree, BodyRefused, PlaceReplace, PlaceKeep, WriteUnlink,
                WriteBackup, WriteLink, WriteCopy, WriteMarker, WriteDiscard,
                WriteKeeps, WriteInto, WriteEnds, NextTarget, AtPlace, Writing
  <2>2. CASE SaveUnchanged \/ SaveCapture \/ SaveDisplaced
    BY <2>2, AdvanceFacts DEF SaveUnchanged, SaveCapture, SaveDisplaced, Save, NextTarget
  <2>3. CASE SaveCaptureRaises \/ SaveDisplacedRaises
    BY <2>3 DEF SaveCaptureRaises, SaveDisplacedRaises, SaveRaises, NextTarget, Abort
  <2>4. CASE BackupSeen
    BY <2>4, AdvanceFacts DEF BackupSeen
  <2>5. CASE Displace
    BY <2>5, AdvanceFacts DEF Displace
  <2>6. ASSUME NEW t \in Targets, ApplyCanonical(t) \/ CaptureRefused(t) \/ Resume(t)
        PROVE  MemAgrees'
    BY <2>6 DEF ApplyCanonical, CaptureRefused, Resume, ApplyPick, Pick
  <2>7. ASSUME NEW t \in Targets, pc = "pick", mem[t].kind = "none" PROVE led[t] = NoDesc
    <3>1. led[t].kind = "none"
      BY <2>7, AdvanceFacts
    <3> QED BY <3>1 DEF IInv, DescriptorsWellFormed, WellFormed
  <2>8. ASSUME NEW t \in Targets, RecordCanonical(t) PROVE MemAgrees'
    BY <2>7, <2>8 DEF RecordCanonical, ApplyPick, Pick
  <2>9. ASSUME NEW t \in Targets,
               CaptureAbsent(t) \/ CaptureSymlink(t) \/ CaptureDirectory(t)
        PROVE  MemAgrees'
    <3>1. ASSUME NEW d, CaptureTo(t, d) PROVE MemAgrees'
      BY <2>7, <3>1 DEF CaptureTo, ApplyPick, Pick
    <3> QED BY <2>9, <3>1 DEF CaptureAbsent, CaptureSymlink, CaptureDirectory
  <2> QED BY <1>5, <2>1, <2>2, <2>3, <2>4, <2>5, <2>6, <2>8, <2>9 DEF ApplyStep
<1>6. CASE ClearStep
  <2> USE DEF world, ledger, ctl, loop, user
  <2>1. CASE SaveIdentity \/ SaveClear
    BY <2>1, AdvanceFacts DEF SaveIdentity, SaveClear, Save, NextTarget
  <2>2. CASE ClearOutput \/ ClearStepRaises
    BY <2>2 DEF ClearOutput, ClearStepRaises, SaveRaises, NextTarget, RestoreFails
  <2>3. CASE SaveClearRaises
    BY <2>3 DEF SaveClearRaises, SaveRaises, NextTarget, RestoreFails
  <2>4. ASSUME NEW t \in Targets, Restored(t), pc # "idle", UNCHANGED led,
               pc \notin Capturing \cup {"saveClear"}
        PROVE  MemAgrees'
    BY <2>4 DEF Restored
  <2>5. CASE ClearRelink \/ ClearRename
    BY <2>4, <2>5 DEF ClearRelink, ClearRename
  <2>6. ASSUME NEW t \in Targets, ClearInPlace(t) \/ ClearToAbsent(t)
        PROVE  MemAgrees'
    BY <2>4, <2>6 DEF ClearInPlace, ClearToAbsent, ClearPick, Pick
  <2>7. ASSUME NEW t \in Targets,
               ClearUnrecorded(t) \/ ClearIdentify(t) \/ ClearRefused(t) \/ ClearUnlink(t)
        PROVE  MemAgrees'
    BY <2>7 DEF ClearUnrecorded, ClearIdentify, ClearRefused, ClearUnlink, ClearPick, Pick
  <2> QED BY <1>6, <2>1, <2>2, <2>3, <2>5, <2>6, <2>7 DEF ClearStep
<1> QED BY <1>1, <1>2, <1>3, <1>4, <1>5, <1>6 DEF Next, CommandStep

(* The user cannot make scene output. *)
LEMMA UserEntriesAreUsers == \A e \in UserEntries : e \in Entry /\ ~SceneOutput(e)
<1> SUFFICES ASSUME NEW e \in UserEntries PROVE e \in Entry /\ ~SceneOutput(e)
  OBVIOUS
<1>1. CASE e \in {Absent, File}
  BY <1>1 DEF Absent, File, Entry, SceneOutput, Projected, Link, IsDir, DirKinds
<1>2. CASE e \in {Link(l) : l \in UserLinks}
  BY <1>2, ScenePathAssumption DEF Link, Entry, SceneOutput, Projected, IsDir, DirKinds
<1>3. CASE e \in [kind : {"empty", "full"}, id : {d \in UserDirs : ~OnDisk(d)}]
  BY <1>3, ScenePathAssumption DEF Link, Entry, SceneOutput, Projected, IsDir, DirKinds
<1> QED BY <1>1, <1>2, <1>3 DEF UserEntries

(* Every step keeps the disk as the command's position requires: scene      *)
(* output only where it has authority, backups of the user's only.          *)
LEMMA OutputStep ==
  IInv /\ [Next]_vars => SceneOutputHasAuthority' /\ BackupsAreUsers' /\ CommandPoint'
<1> SUFFICES ASSUME IInv, [Next]_vars
             PROVE  SceneOutputHasAuthority' /\ BackupsAreUsers' /\ CommandPoint'
  OBVIOUS
<1> TypeOK /\ SceneOutputHasAuthority /\ BackupsAreUsers /\ CommandPoint
  BY DEF IInv
<1>a. ~SceneOutput(Absent)
  BY DEF SceneOutput, Absent, Projected, Link, IsDir, DirKinds
<1>b. \A d, e \in Desc : Advances(d, e) => (Authority(d) <=> Authority(e))
  BY AdvanceFacts DEF Authority
<1>c. \A d \in Desc : Authority(Displaced(d)) <=> Authority(d)
  BY DEF Authority, Displaced
<1>d. \A d \in Desc : Displaced(d).kind = d.kind
  BY DEF Displaced
<1> USE DEF SceneOutputHasAuthority, BackupsAreUsers, CommandPoint, Capturing,
            Replacing, Restoring, Writing
<1>1. CASE \E f \in BOOLEAN, S \in SUBSET Targets : StartApply(f, S) \/ StartClear(f, S)
  BY <1>1 DEF StartApply, StartClear, world
<1>2. CASE Finish \/ Crash
  BY <1>2 DEF Finish, Crash, Abort, world, ledger
<1>3. CASE UserStep
  <2>1. ASSUME NEW p \in Paths, UserEdit(p)
        PROVE  SceneOutputHasAuthority' /\ BackupsAreUsers' /\ CommandPoint'
    BY <2>1, UserEntriesAreUsers, PathFacts
       DEF UserEdit, ledger, ctl, loop, TypeOK, SceneOutput
  <2>2. ASSUME NEW t \in Targets, NEW s \in Slots, UserMove(t, s)
        PROVE  SceneOutputHasAuthority' /\ BackupsAreUsers' /\ CommandPoint'
    BY <2>2, <1>a, PathFacts DEF UserMove, ledger, ctl, loop, TypeOK, SceneOutput
  <2>3. CASE UserCleans
    BY <2>3 DEF UserCleans, ledger, ctl, loop
  <2> QED BY <1>3, <2>1, <2>2, <2>3 DEF UserStep
<1>4. CASE UNCHANGED vars
  BY <1>4 DEF vars
<1> DEFINE Goal == SceneOutputHasAuthority' /\ BackupsAreUsers' /\ CommandPoint'
<1>e. pc \in Replacing => Authority(led[cur])
  BY <1>b DEF IInv, MemAgrees, TypeOK
<1>5. CASE ApplyStep
  <2> USE DEF world, ledger, ctl, loop, user
  <2>1. CASE BuildTree \/ SaveUnchanged \/ SaveCaptureRaises \/ BodyRefused
             \/ SaveDisplacedRaises \/ PlaceKeep \/ WriteKeeps \/ WriteInto \/ WriteEnds
    <3>1. CASE SaveUnchanged
      <4>1. \A t \in Targets : t # cur => (Authority(mem[t]) <=> Authority(led[t]))
        BY <1>b, <3>1 DEF IInv, MemAgrees, TypeOK, SaveUnchanged, Save
      <4> QED BY <3>1, <4>1 DEF SaveUnchanged, Save, NextTarget
    <3> QED BY <2>1, <3>1 DEF BuildTree, SaveCaptureRaises, BodyRefused,
                  SaveDisplacedRaises, PlaceKeep, WriteKeeps, WriteInto, WriteEnds,
                  SaveRaises, NextTarget, Abort
  <2>2. CASE SaveCapture
    <3>1. \A t \in Targets : t # cur => (Authority(mem[t]) <=> Authority(led[t]))
      BY <1>b, <2>2 DEF IInv, MemAgrees, TypeOK, SaveCapture, Save
    <3> QED BY <2>2, <3>1 DEF SaveCapture, Save
  <2>3. CASE SaveDisplaced
    <3>1. \A t \in Targets : Authority(mem[t]) <=> Authority(led[t])
      BY <1>b, <2>3 DEF IInv, MemAgrees, TypeOK, SaveDisplaced, Save
    <3> QED BY <2>3, <3>1 DEF SaveDisplaced, Save
  <2>4. CASE BackupSeen
    BY <2>4, <1>c DEF BackupSeen, TypeOK
  <2>5. CASE Displace
    <3>1. Authority(mem[cur]) /\ cur \in Targets
      BY <2>5 DEF Displace, TypeOK
    <3>2. mem[cur].slot \in Slots /\ mem[cur].id \in UserDirs
      BY <2>5, <3>1 DEF Displace, IInv, DescriptorsWellFormed, WellFormed
    <3>3. ~SceneOutput(disk[cur])
      BY <2>5, <3>2, ScenePathAssumption
         DEF Displace, Matches, SceneOutput, IsDir, DirKinds, Projected, Link
    <3>4. SceneOutputHasAuthority' /\ BackupsAreUsers'
      BY <2>5, <1>a, <3>1, <3>2, <3>3, PathFacts DEF Displace, Backup, TypeOK
    <3>5. disk'[cur] = Absent
      BY <2>5, <3>1, <3>2, PathFacts DEF Displace, Backup, TypeOK
    <3>6. ~IsDir(disk'[cur])
      BY <3>5 DEF IsDir, DirKinds, Absent
    <3>7. Authority(mem'[cur])
      BY <2>5, <1>c, <3>1 DEF Displace, TypeOK
    <3>8. CommandPoint'
      BY <2>5, <3>6, <3>7 DEF Displace
    <3> QED BY <3>4, <3>8
  <2>6. CASE PlaceReplace
    BY <2>6 DEF PlaceReplace, AtPlace, MayReplace, Intact, Absent, Link, IsDir, DirKinds,
                Authority
  <2>7. CASE WriteUnlink \/ WriteDiscard
    BY <2>7, <1>a, PathFacts DEF WriteUnlink, WriteDiscard, TypeOK, IsDir, DirKinds, Absent
  <2>8. CASE WriteBackup
    <3>1. PICK s \in Slots, i \in UserDirs :
            disk' = [disk EXCEPT ![<<cur, s>>] = [kind |-> disk[cur].kind, id |-> i]]
      BY <2>8 DEF WriteBackup, Free
    <3>2. cur \in Targets /\ disk'[cur] = disk[cur]
      BY <2>8, <3>1, PathFacts DEF WriteBackup, TypeOK
    <3>3. ~SceneOutput([kind |-> disk[cur].kind, id |-> i])
      BY ScenePathAssumption DEF SceneOutput, Projected, Link
    <3>4. SceneOutputHasAuthority' /\ BackupsAreUsers'
      BY <2>8, <3>1, <3>2, <3>3, PathFacts DEF WriteBackup, TypeOK
    <3>5. CommandPoint'
      BY <2>8, <3>2 DEF WriteBackup
    <3> QED BY <3>4, <3>5
  <2>9. CASE WriteLink
    BY <2>9, <1>e, PathFacts DEF WriteLink, NextTarget, TypeOK
  <2>10. CASE WriteCopy
    BY <2>10, <1>e, PathFacts DEF WriteCopy, TypeOK
  <2>11. CASE WriteMarker
    BY <2>11, <1>e, PathFacts DEF WriteMarker, NextTarget, TypeOK
  <2>12. ASSUME NEW t \in Targets, ApplyCanonical(t) \/ CaptureRefused(t) \/ Resume(t)
         PROVE  Goal
    BY <2>12 DEF ApplyCanonical, CaptureRefused, Resume, ApplyPick, Pick, Authority
  <2>13. ASSUME NEW t \in Targets, NEW d \in Desc, pc = "pick", mem[t].kind = "none",
                mem' = [mem EXCEPT ![t] = d], cur' = t, UNCHANGED <<world, led>>,
                pc' = "saveUnchanged" \/ (pc' = "saveCapture" /\ Authority(d))
         PROVE  Goal
    <3>1. ~SceneOutput(disk[t])
      <4>1. ~Authority(led[t])
        BY <2>13, <1>b DEF IInv, MemAgrees, TypeOK, Authority
      <4> QED BY <4>1
    <3> QED BY <2>13, <3>1 DEF TypeOK
  <2>14. ASSUME NEW t \in Targets, RecordCanonical(t) PROVE Goal
    BY <2>13, <2>14, ConstantTypes DEF RecordCanonical, ApplyPick, Pick
  <2>15. ASSUME NEW t \in Targets, CaptureAbsent(t) \/ CaptureSymlink(t) \/ CaptureDirectory(t)
         PROVE  Goal
    <3>1. ASSUME NEW d \in Desc, CaptureTo(t, d), Authority(d) PROVE Goal
      BY <2>13, <3>1 DEF CaptureTo, ApplyPick, Pick
    <3>2. Authority(AbsentDesc) /\ (\A i : Authority(SymlinkDesc(i)))
          /\ (\A i, s : Authority(DirectoryDesc(s, i)))
      BY DEF Authority, AbsentDesc, SymlinkDesc, DirectoryDesc, PlainDesc
    <3>3. disk[t].id \in Ids
      BY EntryFacts, PathFacts
    <3> QED BY <2>15, <3>1, <3>2, <3>3, ConstantTypes
            DEF CaptureAbsent, CaptureSymlink, CaptureDirectory, Free
  <2> HIDE DEF Goal
  <2> QED BY <1>5, <2>1, <2>2, <2>3, <2>4, <2>5, <2>6, <2>7, <2>8, <2>9, <2>10, <2>11,
             <2>12, <2>14, <2>15 DEF ApplyStep, Goal
<1>6. CASE ClearStep
  <2> USE DEF world, ledger, ctl, loop, user
  <2>r. ASSUME NEW t \in Targets, Restored(t), UNCHANGED led, BackupsAreUsers',
               SceneOutputHasAuthority', ~SceneOutput(disk'[t])
        PROVE  Goal
    BY <2>r DEF Restored, TypeOK
  <2>1. CASE SaveIdentity
    <3>1. \A t \in Targets : Authority(mem[t]) <=> Authority(led[t])
      BY <1>b, <2>1 DEF IInv, MemAgrees, TypeOK, SaveIdentity, Save
    <3> QED BY <2>1, <3>1 DEF SaveIdentity, Save
  <2>2. CASE SaveClear
    <3>1. \A t \in Targets : t # cur => (Authority(mem[t]) <=> Authority(led[t]))
      BY <1>b, <2>2 DEF IInv, MemAgrees, TypeOK, SaveClear, Save
    <3> QED BY <2>2, <3>1 DEF SaveClear, Save, NextTarget
  <2>3. CASE ClearStepRaises \/ SaveClearRaises
    BY <2>3 DEF ClearStepRaises, SaveClearRaises, SaveRaises, NextTarget, RestoreFails
  <2>4. CASE ClearOutput
    BY <2>4, <1>a, PathFacts DEF ClearOutput, TypeOK
  <2>5. CASE ClearRelink
    <3>1. mem[cur].id \in UserLinks /\ cur \in Targets
      BY <2>5 DEF ClearRelink, IInv, DescriptorsWellFormed, WellFormed, TypeOK
    <3>2. ~SceneOutput(Link(mem[cur].id))
      BY <3>1, ScenePathAssumption DEF SceneOutput, Link, Projected, IsDir, DirKinds
    <3>3. SceneOutputHasAuthority' /\ BackupsAreUsers' /\ ~SceneOutput(disk'[cur])
      BY <2>5, <3>1, <3>2, PathFacts DEF ClearRelink, TypeOK
    <3> QED BY <2>5, <2>r, <3>1, <3>3 DEF ClearRelink
  <2>6. CASE ClearRename
    <3>1. mem[cur].slot \in Slots /\ cur \in Targets
      BY <2>6 DEF ClearRename, IInv, DescriptorsWellFormed, WellFormed, TypeOK
    <3>2. SceneOutputHasAuthority' /\ BackupsAreUsers' /\ ~SceneOutput(disk'[cur])
      BY <2>6, <1>a, <3>1, PathFacts DEF ClearRename, Backup, TypeOK
    <3> QED BY <2>6, <2>r, <3>1, <3>2 DEF ClearRename
  <2>7. ASSUME NEW t \in Targets, ClearUnrecorded(t) \/ ClearIdentify(t) \/ ClearRefused(t)
        PROVE  Goal
    BY <2>7 DEF ClearUnrecorded, ClearIdentify, ClearRefused, ClearPick, Pick, Authority
  <2>8. ASSUME NEW t \in Targets, ClearUnlink(t) PROVE Goal
    BY <2>8, <1>a, PathFacts DEF ClearUnlink, ClearPick, Pick, Authority, TypeOK
  <2>9. ASSUME NEW t \in Targets, ClearToAbsent(t) PROVE Goal
    <3>1. SceneOutputHasAuthority' /\ BackupsAreUsers' /\ ~SceneOutput(disk'[t])
      BY <2>9, <1>a, PathFacts DEF ClearToAbsent, TypeOK
    <3> QED BY <2>9, <2>r, <3>1 DEF ClearToAbsent
  <2>10. ASSUME NEW t \in Targets, ClearInPlace(t) PROVE Goal
    <3>1. ~SceneOutput(disk[t])
      <4>1. CASE mem[t].kind = "unchanged"
        BY <2>10, <4>1, <1>b DEF ClearInPlace, ClearPick, Pick, IInv, MemAgrees, TypeOK, Authority
      <4>2. CASE Intact(t, mem[t])
        <5>1. mem[t].kind = "symlink" => mem[t].id \in UserLinks
          BY DEF IInv, DescriptorsWellFormed, WellFormed
        <5> QED BY <4>2, <5>1, <1>a, ScenePathAssumption
                DEF Intact, SceneOutput, Link, Projected, IsDir, DirKinds
      <4>3. CASE mem[t].kind = "directory" /\ Matches(disk[t], mem[t])
        <5>1. mem[t].id \in UserDirs
          BY <4>3 DEF IInv, DescriptorsWellFormed, WellFormed
        <5> QED BY <4>3, <5>1, ScenePathAssumption
                DEF Matches, SceneOutput, Link, Projected, IsDir, DirKinds
      <4> QED BY <2>10, <4>1, <4>2, <4>3 DEF ClearInPlace
    <3> QED BY <2>10, <2>r, <3>1 DEF ClearInPlace
  <2> HIDE DEF Goal
  <2> QED BY <1>6, <2>1, <2>2, <2>3, <2>4, <2>5, <2>6, <2>7, <2>8, <2>9, <2>10
          DEF ClearStep, Goal
<1> QED BY <1>1, <1>2, <1>3, <1>4, <1>5, <1>6 DEF Next, CommandStep

(* Only the copy of a writer enters "discard", and whoever changes the       *)
(* target or the copy after it is the user.                                 *)
LEMMA CopyStep == IInv /\ [Next]_vars => CopyStands'
<1> SUFFICES ASSUME IInv, [Next]_vars PROVE CopyStands'
  OBVIOUS
<1> TypeOK /\ CopyStands
  BY DEF IInv
<1>0. ASSUME pc' # "discard" PROVE CopyStands'
  BY <1>0 DEF CopyStands
<1> USE DEF TypeOK, CopyStands
<1>1. CASE UNCHANGED vars
  BY <1>1 DEF vars
<1>2. CASE UserStep
  <2> SUFFICES ASSUME pc = "discard", cur \notin touched'
               PROVE  disk'[cur] = disk[cur] /\ disk'[<<cur, bak>>] = disk[<<cur, bak>>]
    BY <1>2 DEF UserStep, UserEdit, UserMove, UserCleans, UserActs, ctl, loop
  <2> cur \in Targets /\ <<cur, bak>> \in Paths
    BY PathFacts
  <2>1. ASSUME NEW p \in Paths, UserEdit(p), Owner(p) # cur
        PROVE  disk'[cur] = disk[cur] /\ disk'[<<cur, bak>>] = disk[<<cur, bak>>]
    BY <2>1, PathFacts DEF UserEdit, Owner
  <2>2. ASSUME NEW t \in Targets, NEW s \in Slots, UserMove(t, s), t # cur
        PROVE  disk'[cur] = disk[cur] /\ disk'[<<cur, bak>>] = disk[<<cur, bak>>]
    BY <2>2, PathFacts DEF UserMove
  <2>3. CASE UserCleans
    BY <2>3 DEF UserCleans
  <2> QED BY <1>2, <2>1, <2>2, <2>3 DEF UserStep, UserEdit, UserMove, UserActs
<1>3. CASE WriteBackup
  <2>1. PICK s \in Slots, i \in UserDirs :
          /\ disk' = [disk EXCEPT ![<<cur, s>>] = [kind |-> disk[cur].kind, id |-> i]]
          /\ bak' = s /\ cur' = cur
    BY <1>3 DEF WriteBackup, Free, loop
  <2>2. cur \in Targets
    BY <1>3 DEF WriteBackup
  <2> QED BY <2>1, <2>2, PathFacts
<1>4. CASE \E f \in BOOLEAN, S \in SUBSET Targets : StartApply(f, S) \/ StartClear(f, S)
  BY <1>0, <1>4 DEF StartApply, StartClear
<1>5. CASE Finish \/ Crash
  BY <1>0, <1>5 DEF Finish, Crash, Abort
<1>6. CASE ApplyStep
  BY <1>0, <1>3, <1>6 DEF ApplyStep, BuildTree, SaveUnchanged, SaveCapture, SaveCaptureRaises,
      BackupSeen, Displace, BodyRefused, SaveDisplaced, SaveDisplacedRaises,
      PlaceReplace, PlaceKeep, WriteUnlink, WriteLink, WriteCopy,
      WriteMarker, WriteDiscard, WriteKeeps, WriteInto, WriteEnds, ApplyCanonical,
      RecordCanonical, CaptureAbsent, CaptureSymlink, CaptureDirectory, CaptureTo,
      CaptureRefused, Resume, NextTarget, Abort, ApplyPick, Pick
<1>7. CASE ClearStep
  BY <1>0, <1>7 DEF ClearStep, ClearRelink, SaveIdentity, ClearOutput, ClearRename,
      ClearStepRaises, SaveClear, SaveClearRaises, ClearUnrecorded, ClearInPlace,
      ClearToAbsent, ClearUnlink, ClearIdentify, ClearRefused, Restored, RestoreFails,
      NextTarget, ClearPick, Pick
<1> QED BY <1>1, <1>2, <1>4, <1>5, <1>6, <1>7 DEF Next, CommandStep

LEMMA InitIInv == Init => IInv
<1> SUFFICES ASSUME Init PROVE IInv
  OBVIOUS
<1>1. \A e \in InitialEntries : e \in Entry /\ ~SceneOutput(e)
  <2> SUFFICES ASSUME NEW e \in InitialEntries PROVE e \in Entry /\ ~SceneOutput(e)
    OBVIOUS
  <2>1. CASE e \in {Absent, File}
    BY <2>1 DEF Absent, File, Entry, SceneOutput, Projected, Link, IsDir, DirKinds
  <2>2. CASE e \in {Link(l) : l \in UserLinks}
    BY <2>2, ScenePathAssumption DEF Link, Entry, SceneOutput, Projected, IsDir, DirKinds
  <2>3. CASE e \in [kind : DirKinds, id : UserDirs]
    BY <2>3, ScenePathAssumption DEF Link, Entry, SceneOutput, Projected, IsDir, DirKinds
  <2> QED BY <2>1, <2>2, <2>3 DEF InitialEntries
<1>2. disk \in [Paths -> Entry] /\ \A p \in Paths : ~SceneOutput(disk[p])
  <2>1. PICK d \in [Targets -> InitialEntries] :
             disk = [p \in Paths |-> IF p \in Targets THEN d[p] ELSE Absent]
    BY DEF Init
  <2>2. Absent \in InitialEntries /\ \A t \in Targets : d[t] \in InitialEntries
    BY <2>1 DEF InitialEntries
  <2> QED BY <1>1, <2>1, <2>2
<1>3. TypeOK
  BY <1>2, ConstantTypes DEF Init, TypeOK, PCs, Writing
<1>4. SceneOutputHasAuthority /\ BackupsAreUsers
  BY <1>2, PathFacts DEF SceneOutputHasAuthority, BackupsAreUsers
<1>5. DescriptorsWellFormed
  BY DEF Init, DescriptorsWellFormed, WellFormed, NoDesc, PlainDesc
<1>6. MemAgrees /\ CommandPoint /\ CopyStands
  BY DEF Init, MemAgrees, CommandPoint, CopyStands, Capturing, Restoring, Replacing, Writing
<1> QED BY <1>3, <1>4, <1>5, <1>6 DEF IInv

(* IInv is inductive. *)
THEOREM Inductive == Spec => []IInv
<1>1. IInv /\ [Next]_vars => IInv'
  BY TypeStep, DescriptorStep, AgreeStep, OutputStep, CopyStep DEF IInv
<1> QED BY InitIInv, <1>1, PTL DEF Spec

(* Every variable keeps the shape the code gives it. *)
THEOREM TypeCorrect == Spec => []TypeOK
<1>1. IInv => TypeOK
  BY DEF IInv
<1> QED BY <1>1, Inductive, PTL

(* Whatever the step a command is killed at, whatever save fails and         *)
(* whatever the user edits: a target that holds scene output has its         *)
(* baseline in the saved ledger.                                             *)
THEOREM AuthorityAlwaysSaved == Spec => []SceneOutputHasAuthority
<1>1. IInv => SceneOutputHasAuthority
  BY DEF IInv
<1> QED BY <1>1, Inductive, PTL

(* The ledger file changes only where the command saves its own. *)
LEMMA LedgerWrites == [Next]_vars => led' = led \/ (led' = mem /\ pc # "idle")
<1> SUFFICES ASSUME [Next]_vars PROVE led' = led \/ (led' = mem /\ pc # "idle")
  OBVIOUS
<1> USE DEF world, ledger, ctl, loop, user, vars, Save, SaveRaises
<1>1. CASE UserStep
  BY <1>1 DEF UserStep, UserEdit, UserMove, UserCleans
<1>2. CASE \E f \in BOOLEAN, S \in SUBSET Targets : StartApply(f, S) \/ StartClear(f, S)
  BY <1>2 DEF StartApply, StartClear
<1>3. CASE Finish \/ Crash
  BY <1>3 DEF Finish, Crash
<1>4. CASE ApplyStep
  BY <1>4 DEF ApplyStep, BuildTree, SaveUnchanged, SaveCapture, SaveCaptureRaises,
      BackupSeen, Displace, BodyRefused, SaveDisplaced, SaveDisplacedRaises,
      PlaceReplace, PlaceKeep, WriteUnlink, WriteBackup, WriteLink, WriteCopy,
      WriteMarker, WriteDiscard, WriteKeeps, WriteInto, WriteEnds, ApplyCanonical,
      RecordCanonical, CaptureAbsent,
      CaptureSymlink, CaptureDirectory, CaptureTo, CaptureRefused, Resume
<1>5. CASE ClearStep
  BY <1>5 DEF ClearStep, ClearRelink, SaveIdentity, ClearOutput, ClearRename,
      ClearStepRaises, SaveClear, SaveClearRaises, ClearUnrecorded, ClearInPlace,
      ClearToAbsent, ClearUnlink, ClearIdentify, ClearRefused
<1> QED BY <1>1, <1>2, <1>3, <1>4, <1>5 DEF Next, CommandStep

(* The baseline a target is first recorded with stands until it is dropped:  *)
(* no later apply, retry or save replaces it.                                *)
THEOREM FirstBaselineNeverReplaced == Spec => FirstBaselineStands
<1> DEFINE Stands == \A t \in Targets :
      led[t].kind # "none" /\ led'[t].kind # "none" => Advances(led[t], led'[t])
<1>1. IInv /\ [Next]_vars => [Stands]_vars
  <2> SUFFICES ASSUME IInv, [Next]_vars,
                      NEW t \in Targets, led[t].kind # "none", led'[t].kind # "none"
               PROVE  Advances(led[t], led'[t])
    OBVIOUS
  <2>1. CASE led' = led
    BY <2>1, AdvanceFacts DEF IInv, TypeOK
  <2>2. CASE led' = mem /\ pc # "idle"
    BY <2>2 DEF IInv, MemAgrees, CommandPoint, Capturing, NoDesc, PlainDesc
  <2> QED BY <2>1, <2>2, LedgerWrites
<1> QED BY <1>1, Inductive, PTL DEF Spec, FirstBaselineStands

(* Whatever the user does meanwhile, with or without --force: a directory    *)
(* with the user's content outlives every step of crossby, except that a     *)
(* writer removes what is at its target once a copy of it stands.            *)
THEOREM UserContentAlwaysSurvives == Spec => UserContentSurvives
<1> DEFINE Stands(d) == \E x \in Paths : IsDir(disk'[x]) /\ disk'[x].id = d
           Copied(d) == /\ pc = "discard" /\ disk[cur] = Full(d)
                        /\ cur \in touched \/ disk[<<cur, bak>>].kind = "full"
           Kept == \A d \in UserDirs :
             (\E p \in Paths : disk[p] = Full(d))
               => \/ \E p \in Paths : IsDir(disk'[p]) /\ disk'[p].id = d
                  \/ /\ pc = "discard" /\ disk[cur] = Full(d)
                     /\ cur \in touched \/ disk[<<cur, bak>>].kind = "full"
<1>1. IInv /\ [Next]_vars => [CommandActs => Kept]_vars
  <2> SUFFICES ASSUME IInv, Next, CommandActs, NEW d \in UserDirs,
                      NEW p \in Paths, disk[p] = Full(d)
               PROVE  Stands(d) \/ Copied(d)
    BY DEF vars
  <2> HIDE DEF Copied
  <2> USE PathFacts DEF world
  <2>f. ASSUME NEW e, e = Full(d) PROVE IsDir(e) /\ e.id = d
    BY <2>f DEF Full, IsDir, DirKinds
  <2>a. ASSUME NEW q \in Paths, disk[q].kind # "full",
               \A x \in Paths : x # q => disk'[x] = disk[x]
        PROVE  Stands(d)
    <3>1. p # q
      BY <2>a DEF Full
    <3>2. disk'[p] = Full(d)
      BY <2>a, <3>1
    <3> QED BY <2>f, <3>2
  <2>b. ASSUME NEW q \in Paths, NEW r \in Paths, q # r, disk[q].kind # "full",
               disk' = [disk EXCEPT ![q] = disk[r], ![r] = Absent]
        PROVE  Stands(d)
    <3>1. \A x \in Paths \ {q, r} : disk'[x] = disk[x]
      BY <2>b DEF IInv, TypeOK
    <3>2. disk'[q] = disk[r]
      BY <2>b DEF IInv, TypeOK
    <3>3. p # q
      BY <2>b DEF Full
    <3>4. CASE p = r
      BY <2>f, <3>2, <3>4
    <3>5. CASE p # r
      BY <2>f, <3>1, <3>3, <3>5
    <3> QED BY <3>4, <3>5
  <2>1. CASE UserStep
    <3>1. drift \in Nat /\ drift' = drift + 1
      BY <2>1 DEF UserStep, UserEdit, UserMove, UserCleans, UserActs, IInv, TypeOK
    <3> QED BY <3>1 DEF CommandActs
  <2>2. CASE disk' = disk
    BY <2>2, <2>f
  <2> HIDE DEF Stands
  <2>3. CASE ApplyStep
    <3>1. CASE Displace
      <4>1. mem[cur].slot \in Slots /\ cur \in Targets
        BY <3>1 DEF Displace, IInv, DescriptorsWellFormed, WellFormed, TypeOK
      <4>2. disk[Backup(cur, mem[cur])].kind # "full"
        BY <3>1 DEF Displace, Absent
      <4>3. disk' = [disk EXCEPT ![Backup(cur, mem[cur])] = disk[cur], ![cur] = Absent]
        BY <3>1 DEF Displace
      <4>4. Backup(cur, mem[cur]) \in Paths /\ cur \in Paths /\ cur # Backup(cur, mem[cur])
        BY <4>1 DEF Backup
      <4> QED BY <2>b, <4>2, <4>3, <4>4
    <3>2. CASE WriteBackup
      <4>1. PICK s \in Slots, i \in UserDirs :
              /\ disk' = [disk EXCEPT ![<<cur, s>>] = [kind |-> disk[cur].kind, id |-> i]]
              /\ disk[<<cur, s>>] = Absent
        BY <3>2 DEF WriteBackup, Free
      <4>2. <<cur, s>> \in Paths /\ disk[<<cur, s>>].kind # "full"
        BY <3>2, <4>1 DEF WriteBackup, IInv, TypeOK, Absent
      <4>3. \A x \in Paths : x # <<cur, s>> => disk'[x] = disk[x]
        BY <4>1 DEF IInv, TypeOK
      <4> QED BY <2>a, <4>2, <4>3
    <3>3. CASE WriteDiscard
      <4>1. cur \in Targets /\ pc = "discard"
        BY <3>3 DEF WriteDiscard, IInv, TypeOK
      <4>2. \A x \in Paths : x # cur => disk'[x] = disk[x]
        BY <3>3 DEF WriteDiscard, IInv, TypeOK
      <4>3. CASE disk[cur] = Full(d)
        <5>1. cur \in touched \/ disk[<<cur, bak>>].kind = "full"
          BY <4>1, <4>3 DEF IInv, CopyStands, Full
        <5> QED BY <4>1, <4>3, <5>1 DEF Copied
      <4>4. CASE disk[cur] # Full(d)
        BY <2>f, <4>2, <4>4 DEF Stands
      <4> QED BY <4>3, <4>4
    <3>4. CASE WriteUnlink \/ WriteLink \/ WriteCopy
      <4>1. cur \in Targets /\ disk[cur].kind # "full"
        BY <3>4 DEF WriteUnlink, WriteLink, WriteCopy, IInv, TypeOK, Absent, IsDir,
                    DirKinds, Writing
      <4>2. \A x \in Paths : x # cur => disk'[x] = disk[x]
        BY <3>4 DEF WriteUnlink, WriteLink, WriteCopy, IInv, TypeOK
      <4> QED BY <2>a, <4>1, <4>2
    <3>5. CASE WriteMarker
      <4>1. cur \in Targets
        BY <3>5 DEF WriteMarker, IInv, TypeOK
      <4>2. CASE p = cur
        <5>1. disk'[cur] = [kind |-> "marked", id |-> d]
          BY <3>5, <4>1, <4>2, <2>f DEF WriteMarker, IInv, TypeOK
        <5> QED BY <4>1, <5>1 DEF Stands, IsDir, DirKinds
      <4>3. CASE p # cur
        <5>1. disk'[p] = disk[p]
          BY <3>5, <4>3 DEF WriteMarker, IInv, TypeOK
        <5> QED BY <5>1, <2>f DEF Stands
      <4> QED BY <4>2, <4>3
    <3> QED BY <2>2, <2>3, <3>1, <3>2, <3>3, <3>4, <3>5
      DEF ApplyStep, BuildTree, SaveUnchanged, SaveCapture, SaveCaptureRaises,
        BackupSeen, BodyRefused, SaveDisplaced, SaveDisplacedRaises,
        PlaceReplace, PlaceKeep, WriteKeeps, WriteInto, WriteEnds, ApplyCanonical,
        RecordCanonical, CaptureAbsent, CaptureSymlink, CaptureDirectory, CaptureTo,
        CaptureRefused, Resume
  <2>4. CASE ClearStep
    <3>1. CASE ClearRename
      <4>1. mem[cur].slot \in Slots /\ cur \in Targets
        BY <3>1 DEF ClearRename, IInv, CommandPoint, DescriptorsWellFormed, WellFormed, TypeOK
      <4>2. disk[cur].kind # "full"
        BY <3>1 DEF ClearRename, Renameable, Absent
      <4>3. disk' = [disk EXCEPT ![cur] = disk[Backup(cur, mem[cur])],
                                 ![Backup(cur, mem[cur])] = Absent]
        BY <3>1 DEF ClearRename
      <4>4. Backup(cur, mem[cur]) \in Paths /\ cur \in Paths /\ cur # Backup(cur, mem[cur])
        BY <4>1 DEF Backup
      <4>5. disk' = [disk EXCEPT ![cur] = disk[Backup(cur, mem[cur])],
                                 ![Backup(cur, mem[cur])] = Absent]
        BY <4>3
      <4> QED BY <2>b, <4>2, <4>4, <4>5
    <3>2. CASE ClearRelink \/ ClearOutput
      <4>1. cur \in Targets /\ disk[cur].kind # "full"
        BY <3>2 DEF ClearRelink, ClearOutput, Removable, IInv, TypeOK, Absent
      <4>2. \A x \in Paths : x # cur => disk'[x] = disk[x]
        BY <3>2 DEF ClearRelink, ClearOutput, IInv, TypeOK
      <4> QED BY <2>a, <4>1, <4>2
    <3>3. ASSUME NEW t \in Targets, ClearToAbsent(t) \/ ClearUnlink(t)
          PROVE  Stands(d)
      <4>1. disk[t].kind # "full"
        BY <3>3 DEF ClearToAbsent, ClearUnlink, Removable, Absent
      <4>2. \A x \in Paths : x # t => disk'[x] = disk[x]
        BY <3>3 DEF ClearToAbsent, ClearUnlink, IInv, TypeOK
      <4> QED BY <2>a, <4>1, <4>2
    <3> QED BY <2>2, <2>4, <3>1, <3>2, <3>3
      DEF ClearStep, SaveIdentity, ClearStepRaises, SaveClear, SaveClearRaises,
        ClearUnrecorded, ClearInPlace, ClearIdentify, ClearRefused
  <2>5. CASE (\E f \in BOOLEAN, S \in SUBSET Targets : StartApply(f, S) \/ StartClear(f, S))
             \/ Finish \/ Crash
    BY <2>2, <2>5 DEF StartApply, StartClear, Finish, Crash
  <2> QED BY <2>1, <2>3, <2>4, <2>5 DEF Next, CommandStep
<1> QED BY <1>1, Inductive, PTL DEF Spec, UserContentSurvives

-----------------------------------------------------------------------------
(* What a clear knows of the targets it has worked on.                      *)

(* The points of an apply are not a clear's. *)
ApplyAtWork ==
    op = "clear" => pc \notin {"tree", "saveUnchanged", "saveCapture"} \cup Replacing

(* Where the baseline of the target is while the clear works on it, unless  *)
(* the user was at that target since: beside it until the rename, then at it. *)
RestoreStands ==
    cur \notin touched =>
      /\ pc \in {"saveIdentity", "restore", "rename"} =>
           Matches(disk[Backup(cur, mem[cur])], mem[cur])
      /\ pc = "rename" => disk[cur] = Absent
      /\ pc = "saveClear" => HoldsBaseline(disk[cur], held)

(* A target a clear is done with, and has not failed at, is not linked. *)
ClearedUnlinked ==
    op = "clear" /\ pc # "idle" /\ ~failed => \A t \in scope \ todo : disk[t] # Projected

(* No directory is in two places. *)
OneHome ==
    \A p, q \in Paths :
      IsDir(disk[p]) /\ IsDir(disk[q]) /\ disk[p].id = disk[q].id => p = q

Clearing == ApplyAtWork /\ RestoreStands /\ ClearedUnlinked /\ OneHome

LEMMA ApplyAtWorkStep == IInv /\ ApplyAtWork /\ [Next]_vars => ApplyAtWork'
<1> SUFFICES ASSUME IInv, ApplyAtWork, [Next]_vars PROVE ApplyAtWork'
  OBVIOUS
<1> USE DEF ApplyAtWork, Replacing, Writing, world, ledger, ctl, loop, user
<1>1. CASE UserStep
  BY <1>1 DEF UserStep, UserEdit, UserMove, UserCleans
<1>2. CASE \E f \in BOOLEAN, S \in SUBSET Targets : StartApply(f, S) \/ StartClear(f, S)
  BY <1>2 DEF StartApply, StartClear
<1>3. CASE Finish \/ Crash
  BY <1>3 DEF Finish, Crash, Abort
<1>4. CASE ApplyStep
  <2>1. ASSUME NEW t \in Targets,
               ApplyCanonical(t) \/ RecordCanonical(t) \/ CaptureAbsent(t)
               \/ CaptureSymlink(t) \/ CaptureDirectory(t) \/ CaptureRefused(t) \/ Resume(t)
        PROVE  ApplyAtWork'
    BY <2>1 DEF ApplyCanonical, RecordCanonical, CaptureAbsent, CaptureSymlink,
        CaptureDirectory, CaptureTo, CaptureRefused, Resume, ApplyPick, Pick
  <2> QED BY <1>4, <2>1 DEF ApplyStep, BuildTree, SaveUnchanged, SaveCapture,
      SaveCaptureRaises, BackupSeen, Displace, BodyRefused, SaveDisplaced,
      SaveDisplacedRaises, PlaceReplace, PlaceKeep, WriteUnlink, WriteBackup, WriteLink,
      WriteCopy, WriteMarker, WriteDiscard, WriteKeeps, WriteInto, WriteEnds,
      Save, SaveRaises, NextTarget, Abort, AtPlace
<1>5. CASE ClearStep
  BY <1>5 DEF ClearStep, ClearRelink, SaveIdentity, ClearOutput, ClearRename,
      ClearStepRaises, SaveClear, SaveClearRaises, ClearUnrecorded, ClearInPlace,
      ClearToAbsent, ClearUnlink, ClearIdentify, ClearRefused, Restored, RestoreFails,
      NextTarget, ClearPick, Pick
<1>6. CASE UNCHANGED vars
  BY <1>6 DEF vars
<1> QED BY <1>1, <1>2, <1>3, <1>4, <1>5, <1>6 DEF Next, CommandStep

(* What the user does to a target shows in touched. *)
LEMMA UserTouches ==
  ASSUME IInv, UserStep, NEW t \in Targets, t \notin touched'
  PROVE  /\ t \notin touched /\ disk'[t] = disk[t]
         /\ \A s \in Slots : disk'[<<t, s>>] = disk[<<t, s>>]
<1> USE DEF UserActs, IInv, TypeOK
<1>1. CASE \E p \in Paths : UserEdit(p)
  <2>1. PICK p \in Paths : UserEdit(p)
    BY <1>1
  <2>2. Owner(p) # t /\ t \notin touched
    BY <2>1 DEF UserEdit
  <2> QED BY <2>1, <2>2, PathFacts DEF UserEdit, Owner
<1>2. CASE \E u \in Targets, s \in Slots : UserMove(u, s)
  BY <1>2, PathFacts DEF UserMove
<1>3. CASE UserCleans
  BY <1>3 DEF UserCleans
<1> QED BY <1>1, <1>2, <1>3 DEF UserStep

(* The baseline a clear restores is where it was, until it is at its target. *)
LEMMA RestoreStep == IInv /\ RestoreStands /\ [Next]_vars => RestoreStands'
<1> SUFFICES ASSUME IInv, RestoreStands, [Next]_vars PROVE RestoreStands'
  OBVIOUS
<1> TypeOK /\ CommandPoint /\ DescriptorsWellFormed
  BY DEF IInv
<1> DEFINE Points == Restoring \cup {"saveClear"}
<1>0. ASSUME pc' \notin Points PROVE RestoreStands'
  BY <1>0 DEF RestoreStands, Restoring
<1> USE DEF TypeOK
<1>d. pc \in {"saveIdentity", "restore", "rename"} =>
        mem[cur].slot \in Slots /\ cur \in Targets /\ mem[cur].kind = "directory"
  BY DEF CommandPoint, DescriptorsWellFormed, WellFormed
<1>1. CASE UNCHANGED vars
  BY <1>1 DEF vars, RestoreStands
<1>2. CASE UserStep
  <2>1. UNCHANGED <<pc, mem, cur, held>>
    BY <1>2 DEF UserStep, UserEdit, UserMove, UserCleans, ledger, ctl, loop
  <2> SUFFICES ASSUME cur \notin touched', pc \in Points PROVE RestoreStands'
    BY <1>0, <2>1 DEF RestoreStands
  <2>2. cur \in Targets /\ cur \notin touched /\ disk'[cur] = disk[cur]
        /\ \A s \in Slots : disk'[<<cur, s>>] = disk[<<cur, s>>]
    BY <1>2, UserTouches DEF Restoring
  <2>3. pc \in {"saveIdentity", "restore", "rename"} =>
          disk'[Backup(cur, mem[cur])] = disk[Backup(cur, mem[cur])]
    BY <1>d, <2>2 DEF Backup
  <2> QED BY <2>1, <2>2, <2>3 DEF RestoreStands
<1>3. CASE \E f \in BOOLEAN, S \in SUBSET Targets : StartApply(f, S) \/ StartClear(f, S)
  BY <1>0, <1>3 DEF StartApply, StartClear, Restoring
<1>4. CASE Finish \/ Crash
  BY <1>0, <1>4 DEF Finish, Crash, Abort, Restoring
<1>5. CASE ApplyStep
  BY <1>0, <1>5 DEF ApplyStep, BuildTree, SaveUnchanged, SaveCapture, SaveCaptureRaises,
      BackupSeen, Displace, BodyRefused, SaveDisplaced, SaveDisplacedRaises,
      PlaceReplace, PlaceKeep, WriteUnlink, WriteBackup, WriteLink, WriteCopy,
      WriteMarker, WriteDiscard, WriteKeeps, WriteInto, WriteEnds, ApplyCanonical,
      RecordCanonical, CaptureAbsent, CaptureSymlink, CaptureDirectory, CaptureTo,
      CaptureRefused, Resume, NextTarget, Abort, ApplyPick, Pick, Restoring, ctl, loop
<1>6. CASE ClearStep
  <2>r. ASSUME NEW t \in Targets, Restored(t),
               UNCHANGED touched, t \notin touched => HoldsBaseline(disk'[t], mem[t])
        PROVE  RestoreStands'
    BY <2>r DEF Restored, RestoreStands
  <2>1. CASE SaveIdentity
    <3>1. UNCHANGED <<disk, mem, cur, touched>> /\ pc = "saveIdentity" /\ pc' = "restore"
      BY <2>1 DEF SaveIdentity, Save, world, loop, user
    <3> QED BY <3>1 DEF RestoreStands
  <2>2. CASE ClearOutput
    <3>1. UNCHANGED <<mem, cur, touched>> /\ pc = "restore" /\ pc' = "rename"
          /\ disk' = [disk EXCEPT ![cur] = Absent]
      BY <2>2 DEF ClearOutput, ledger, loop, user
    <3>2. Backup(cur, mem[cur]) \in Paths \ Targets
      BY <1>d, <3>1, PathFacts DEF Backup
    <3>3. disk'[cur] = Absent /\ disk'[Backup(cur, mem[cur])] = disk[Backup(cur, mem[cur])]
      BY <1>d, <3>1, <3>2, PathFacts
    <3> QED BY <3>1, <3>3 DEF RestoreStands
  <2>3. CASE ClearRename
    <3>1. cur \in Targets /\ mem[cur].kind = "directory"
          /\ Backup(cur, mem[cur]) \in Paths \ Targets
      BY <1>d, <2>3, PathFacts DEF Backup, ClearRename
    <3>2. disk'[cur] = disk[Backup(cur, mem[cur])]
      BY <2>3, <3>1, PathFacts DEF ClearRename
    <3>3. cur \notin touched => HoldsBaseline(disk'[cur], mem[cur])
      BY <2>3, <3>1, <3>2 DEF RestoreStands, HoldsBaseline, ClearRename
    <3> QED BY <2>3, <2>r, <3>1, <3>3 DEF ClearRename, user
  <2>4. CASE ClearRelink
    <3>1. cur \in Targets /\ mem[cur].kind = "symlink"
      BY <2>4 DEF ClearRelink, CommandPoint
    <3>2. disk'[cur] = Link(mem[cur].id)
      BY <2>4, <3>1, PathFacts DEF ClearRelink
    <3>3. HoldsBaseline(disk'[cur], mem[cur])
      BY <3>1, <3>2 DEF HoldsBaseline
    <3> QED BY <2>4, <2>r, <3>1, <3>3 DEF ClearRelink, user
  <2>5. ASSUME NEW t \in Targets, ClearInPlace(t) PROVE RestoreStands'
    <3>1. HoldsBaseline(disk'[t], mem[t])
      BY <2>5 DEF ClearInPlace, HoldsBaseline, Intact, world
    <3> QED BY <2>5, <2>r, <3>1 DEF ClearInPlace, user
  <2>6. ASSUME NEW t \in Targets, ClearToAbsent(t) PROVE RestoreStands'
    <3>1. disk'[t] = Absent
      BY <2>6, PathFacts DEF ClearToAbsent
    <3>2. HoldsBaseline(disk'[t], mem[t])
      BY <2>6, <3>1 DEF ClearToAbsent, HoldsBaseline
    <3> QED BY <2>6, <2>r, <3>2 DEF ClearToAbsent, user
  <2>7. ASSUME NEW t \in Targets, ClearIdentify(t) PROVE RestoreStands'
    BY <2>7 DEF ClearIdentify, RestoreAuthentic, RestoreStands, world, ledger
  <2>8. ASSUME NEW t \in Targets, ClearUnlink(t) PROVE RestoreStands'
    BY <2>8 DEF ClearUnlink, RestoreStands
  <2>9. ASSUME NEW t \in Targets, ClearUnrecorded(t) \/ ClearRefused(t)
        PROVE  RestoreStands'
    BY <1>0, <2>9 DEF ClearUnrecorded, ClearRefused, ClearPick, Pick, Restoring
  <2>10. CASE ClearStepRaises \/ SaveClear \/ SaveClearRaises
    BY <1>0, <2>10 DEF ClearStepRaises, SaveClear, SaveClearRaises, RestoreFails,
        NextTarget, Restoring
  <2> QED BY <1>6, <2>1, <2>2, <2>3, <2>4, <2>5, <2>6, <2>7, <2>8, <2>9, <2>10
          DEF ClearStep
<1> QED BY <1>1, <1>2, <1>3, <1>4, <1>5, <1>6 DEF Next, CommandStep

(* A clear goes on from a target it did not fail at only when it is not     *)
(* linked any more, and nobody but an apply makes a link of the scene's.    *)
LEMMA UnlinkedStep ==
  IInv /\ ApplyAtWork /\ ClearedUnlinked /\ [Next]_vars => ClearedUnlinked'
<1> SUFFICES ASSUME IInv, ApplyAtWork, ClearedUnlinked, [Next]_vars,
                    op' = "clear", pc' # "idle", ~failed',
                    NEW t \in Targets, t \in scope', t \notin todo'
             PROVE  disk'[t] # Projected
  BY TypeStep DEF ClearedUnlinked, TypeOK
<1> TypeOK /\ CommandPoint
  BY DEF IInv
<1> USE DEF TypeOK
<1>p. Absent # Projected
  BY DEF Absent, Projected, Link
<1>a. ASSUME op = "clear", pc # "idle", ~failed, scope' = scope, t \notin todo,
             disk'[t] = disk[t] \/ disk'[t] = Absent
      PROVE  disk'[t] # Projected
  BY <1>a, <1>p DEF ClearedUnlinked
<1>1. CASE UNCHANGED vars
  BY <1>1, <1>a DEF vars
<1>2. CASE UserStep
  <2>1. UNCHANGED <<op, pc, failed, scope, todo>>
    BY <1>2 DEF UserStep, UserEdit, UserMove, UserCleans, ctl, loop
  <2>2. disk[t] # Projected
    BY <2>1 DEF ClearedUnlinked
  <2>3. ASSUME NEW p \in Paths, UserEdit(p) PROVE disk'[t] # Projected
    BY <2>2, <2>3, UserEntriesAreUsers, PathFacts DEF UserEdit, SceneOutput
  <2>4. ASSUME NEW u \in Targets, NEW s \in Slots, UserMove(u, s)
        PROVE  disk'[t] # Projected
    BY <2>2, <2>4, <1>p, PathFacts DEF UserMove, Projected, Link, IsDir, DirKinds
  <2> QED BY <1>2, <2>2, <2>3, <2>4 DEF UserStep, UserCleans
<1>3. CASE \E f \in BOOLEAN, S \in SUBSET Targets : StartApply(f, S) \/ StartClear(f, S)
  BY <1>3 DEF StartApply, StartClear
<1>4. CASE Finish \/ Crash
  BY <1>4 DEF Finish, Crash, Abort
<1>5. CASE ApplyStep
  <2>1. op = "apply"
    BY <1>5 DEF ApplyStep, BuildTree, SaveUnchanged, SaveCapture,
      SaveCaptureRaises, BackupSeen, Displace, BodyRefused, SaveDisplaced,
      SaveDisplacedRaises, PlaceReplace, PlaceKeep, WriteUnlink, WriteBackup, WriteLink,
      WriteCopy, WriteMarker, WriteDiscard, WriteKeeps, WriteInto, WriteEnds,
      Save, SaveRaises, AtPlace, ApplyCanonical, RecordCanonical, CaptureAbsent, CaptureSymlink,
        CaptureDirectory, CaptureTo, CaptureRefused, Resume, ApplyPick, ApplyAtWork,
        Replacing, Writing
  <2>2. op' = op
    BY <1>5 DEF ApplyStep, BuildTree, SaveUnchanged, SaveCapture,
      SaveCaptureRaises, BackupSeen, Displace, BodyRefused, SaveDisplaced,
      SaveDisplacedRaises, PlaceReplace, PlaceKeep, WriteUnlink, WriteBackup, WriteLink,
      WriteCopy, WriteMarker, WriteDiscard, WriteKeeps, WriteInto, WriteEnds,
      ApplyCanonical, RecordCanonical, CaptureAbsent, CaptureSymlink,
        CaptureDirectory, CaptureTo, CaptureRefused, Resume, ctl
  <2> QED BY <2>1, <2>2
<1>6. CASE ClearStep
  <2>1. UNCHANGED <<op, scope>> /\ op = "clear"
    BY <1>6 DEF ClearStep, ClearRelink, SaveIdentity, ClearOutput, ClearRename,
      ClearStepRaises, SaveClear, SaveClearRaises, ClearUnrecorded, ClearInPlace,
      ClearToAbsent, ClearUnlink, ClearIdentify, ClearRefused, ctl
  <2> USE <2>1 DEF world, loop
  <2>2. CASE ClearStepRaises \/ SaveClearRaises
    BY <2>2 DEF ClearStepRaises, SaveClearRaises, RestoreFails
  <2>3. CASE SaveClear
    <3>1. disk[cur] # Projected /\ UNCHANGED <<disk, failed>> /\ pc # "idle"
          /\ todo' = todo \ {cur}
      BY <2>3 DEF SaveClear, Save, NextTarget, CommandPoint, SceneOutput
    <3> QED BY <3>1, <1>a
  <2>4. CASE SaveIdentity
    BY <2>4, <1>a DEF SaveIdentity, Save
  <2>5. CASE ClearOutput
    BY <2>5, <1>a, PathFacts DEF ClearOutput
  <2>6. CASE ClearRelink
    <3>1. disk'[t] = disk[t] \/ (t = cur /\ disk'[t] = Link(mem[cur].id))
      BY <2>6, PathFacts DEF ClearRelink
    <3>2. mem[cur].id # SceneLink
      BY <2>6, ScenePathAssumption
         DEF ClearRelink, IInv, DescriptorsWellFormed, WellFormed, CommandPoint
    <3>3. Link(mem[cur].id) # Projected
      BY <3>2 DEF Link, Projected
    <3> QED BY <2>6, <3>1, <3>3, <1>a DEF ClearRelink
  <2>7. CASE ClearRename
    <3>1. disk'[t] = disk[t] \/ IsDir(disk'[t])
      <4>1. Backup(cur, mem[cur]) \in Paths \ Targets
        BY <2>7, PathFacts
           DEF ClearRename, IInv, DescriptorsWellFormed, WellFormed, CommandPoint, Backup
      <4> QED BY <2>7, <4>1, PathFacts DEF ClearRename, Renameable
    <3>2. ~IsDir(Projected)
      BY DEF IsDir, Projected, Link, DirKinds
    <3> QED BY <2>7, <3>1, <3>2, <1>a DEF ClearRename
  <2>8. ASSUME NEW u \in Targets, ClearUnrecorded(u) PROVE disk'[t] # Projected
    BY <2>8, <1>a DEF ClearUnrecorded, ClearPick, Pick
  <2>9. ASSUME NEW u \in Targets, ClearRefused(u) PROVE disk'[t] # Projected
    BY <2>9 DEF ClearRefused
  <2>10. ASSUME NEW u \in Targets, ClearInPlace(u) \/ ClearIdentify(u)
         PROVE  disk'[t] # Projected
    BY <2>10, <1>a DEF ClearInPlace, ClearIdentify, ClearPick, Pick
  <2>11. ASSUME NEW u \in Targets, ClearToAbsent(u) \/ ClearUnlink(u)
         PROVE  disk'[t] # Projected
    BY <2>11, <1>a, PathFacts DEF ClearToAbsent, ClearUnlink, ClearPick, Pick
  <2> QED BY <1>6, <2>2, <2>3, <2>4, <2>5, <2>6, <2>7, <2>8, <2>9, <2>10, <2>11
          DEF ClearStep
<1> QED BY <1>1, <1>2, <1>3, <1>4, <1>5, <1>6 DEF Next, CommandStep

(* A path that gets nothing, a link or a directory that is nowhere else, and *)
(* a directory that changes its place, leave every directory one place.     *)
LEMMA PutKeepsHome ==
  ASSUME IInv, OneHome, NEW q \in Paths, NEW e, disk' = [disk EXCEPT ![q] = e],
         IsDir(e) => \A p \in Paths : p # q => ~(IsDir(disk[p]) /\ disk[p].id = e.id)
  PROVE  OneHome'
<1> SUFFICES ASSUME NEW p \in Paths, NEW r \in Paths, IsDir(disk'[p]), IsDir(disk'[r]),
                    disk'[p].id = disk'[r].id
             PROVE  p = r
  BY DEF OneHome
<1>1. disk'[q] = e /\ \A x \in Paths \ {q} : disk'[x] = disk[x]
  BY DEF IInv, TypeOK
<1> QED BY <1>1 DEF OneHome

LEMMA MoveKeepsHome ==
  ASSUME IInv, OneHome, NEW q \in Paths, NEW r \in Paths, q # r,
         disk' = [disk EXCEPT ![q] = disk[r], ![r] = Absent]
  PROVE  OneHome'
<1> SUFFICES ASSUME NEW x \in Paths, NEW y \in Paths, IsDir(disk'[x]), IsDir(disk'[y]),
                    disk'[x].id = disk'[y].id
             PROVE  x = y
  BY DEF OneHome
<1>1. disk'[q] = disk[r] /\ disk'[r] = Absent /\ \A z \in Paths \ {q, r} : disk'[z] = disk[z]
  BY DEF IInv, TypeOK
<1>2. ~IsDir(Absent)
  BY DEF IsDir, DirKinds, Absent
<1> QED BY <1>1, <1>2 DEF OneHome

(* Whatever moves or makes a directory, it is in one place. *)
LEMMA OneHomeStep == IInv /\ OneHome /\ [Next]_vars => OneHome'
<1> SUFFICES ASSUME IInv, OneHome, [Next]_vars PROVE OneHome'
  OBVIOUS
<1> TypeOK /\ CommandPoint
  BY DEF IInv
<1>0. CASE disk' = disk
  BY <1>0 DEF OneHome
<1>a. ~IsDir(Absent) /\ ~IsDir(Projected) /\ \A l : ~IsDir(Link(l))
  BY DEF IsDir, DirKinds, Absent, Projected, Link
<1>p. ASSUME NEW q \in Paths, NEW e, disk' = [disk EXCEPT ![q] = e], ~IsDir(e)
      PROVE  OneHome'
  BY <1>p, PutKeepsHome
<1>i. ASSUME NEW q \in Paths, NEW k, NEW i, disk' = [disk EXCEPT ![q] = [kind |-> k, id |-> i]],
             \A p \in Paths : p # q => ~(IsDir(disk[p]) /\ disk[p].id = i)
      PROVE  OneHome'
  <2> DEFINE e == [kind |-> k, id |-> i]
  <2>1. e.id = i
    OBVIOUS
  <2> HIDE DEF e
  <2>2. disk' = [disk EXCEPT ![q] = e]
    BY <1>i DEF e
  <2> QED BY <1>i, <2>1, <2>2, PutKeepsHome
<1>b. pc \in {"body", "rename"} /\ mem[cur].kind = "directory"
        => Backup(cur, mem[cur]) \in Paths \ Targets /\ cur \in Targets
  BY PathFacts DEF TypeOK, IInv, DescriptorsWellFormed, WellFormed, Backup
<1>c. pc \notin {"idle", "tree", "pick"} => cur \in Paths
  BY PathFacts DEF TypeOK
<1>1. CASE UserStep
  <2>1. ASSUME NEW p \in Paths, UserEdit(p) PROVE OneHome'
    <3>1. PICK e \in UserEntries : disk' = [disk EXCEPT ![p] = e]
      BY <2>1 DEF UserEdit
    <3>2. IsDir(e) => ~OnDisk(e.id)
      BY <3>1 DEF UserEntries, IsDir, DirKinds, Absent, File, Link
    <3> QED BY <3>1, <3>2, PutKeepsHome DEF OnDisk
  <2>2. ASSUME NEW t \in Targets, NEW s \in Slots, UserMove(t, s) PROVE OneHome'
    <3>1. t \in Paths /\ <<t, s>> \in Paths /\ t # <<t, s>>
      BY PathFacts
    <3> QED BY <2>2, <3>1, MoveKeepsHome DEF UserMove
  <2> QED BY <1>0, <1>1, <2>1, <2>2 DEF UserStep, UserCleans
<1>2. CASE ApplyStep
  <2>1. CASE Displace
    <3>1. disk' = [disk EXCEPT ![Backup(cur, mem[cur])] = disk[cur], ![cur] = Absent]
      BY <2>1 DEF Displace
    <3> QED BY <2>1, <3>1, <1>b, PathFacts, MoveKeepsHome DEF Displace
  <2>2. CASE WriteBackup
    <3>1. PICK s \in Slots, i \in UserDirs :
            /\ ~OnDisk(i)
            /\ disk' = [disk EXCEPT ![<<cur, s>>] = [kind |-> disk[cur].kind, id |-> i]]
      BY <2>2 DEF WriteBackup, Free
    <3>2. <<cur, s>> \in Paths
      BY <2>2, PathFacts DEF WriteBackup, TypeOK
    <3>3. \A p \in Paths : ~(IsDir(disk[p]) /\ disk[p].id = i)
      BY <3>1 DEF OnDisk
    <3> QED BY <1>i, <3>1, <3>2, <3>3
  <2>3. CASE WriteUnlink \/ WriteDiscard \/ WriteLink
    BY <2>3, <1>a, <1>c, <1>p DEF WriteUnlink, WriteDiscard, WriteLink
  <2>4. CASE WriteCopy
    <3>1. PICK i \in SceneDirs, k \in {"empty", "full"} :
            ~OnDisk(i) /\ disk' = [disk EXCEPT ![cur] = [kind |-> k, id |-> i]]
      BY <2>4 DEF WriteCopy
    <3>2. \A p \in Paths : ~(IsDir(disk[p]) /\ disk[p].id = i)
      BY <3>1 DEF OnDisk
    <3>3. cur \in Paths
      BY <2>4, <1>c DEF WriteCopy
    <3> QED BY <1>i, <3>1, <3>2, <3>3
  <2>5. CASE WriteMarker /\ IsDir(disk[cur])
    <3>1. disk' = [disk EXCEPT ![cur] = [kind |-> "marked", id |-> disk[cur].id]]
          /\ cur \in Paths
      BY <2>5, <1>c DEF WriteMarker
    <3>2. \A p \in Paths : p # cur => ~(IsDir(disk[p]) /\ disk[p].id = disk[cur].id)
      BY <2>5, <3>1 DEF OneHome
    <3> QED BY <1>i, <3>1, <3>2
  <2> QED BY <1>0, <1>2, <2>1, <2>2, <2>3, <2>4, <2>5
      DEF ApplyStep, BuildTree, SaveUnchanged, SaveCapture, SaveCaptureRaises,
        BackupSeen, BodyRefused, SaveDisplaced, SaveDisplacedRaises,
        PlaceReplace, PlaceKeep, WriteKeeps, WriteInto, WriteMarker, WriteEnds,
        ApplyCanonical, RecordCanonical, CaptureAbsent, CaptureSymlink, CaptureDirectory,
        CaptureTo, CaptureRefused, Resume, world
<1>3. CASE ClearStep
  <2>1. CASE ClearRename
    <3>1. disk' = [disk EXCEPT ![cur] = disk[Backup(cur, mem[cur])],
                               ![Backup(cur, mem[cur])] = Absent]
      BY <2>1 DEF ClearRename
    <3>2. cur \in Paths /\ Backup(cur, mem[cur]) \in Paths /\ cur # Backup(cur, mem[cur])
      BY <2>1, <1>b, PathFacts DEF ClearRename, CommandPoint
    <3> QED BY <3>1, <3>2, MoveKeepsHome
  <2>2. CASE ClearRelink \/ ClearOutput
    BY <2>2, <1>a, <1>c, <1>p DEF ClearRelink, ClearOutput
  <2>3. ASSUME NEW t \in Targets, ClearToAbsent(t) \/ ClearUnlink(t) PROVE OneHome'
    BY <2>3, <1>a, <1>p, PathFacts DEF ClearToAbsent, ClearUnlink
  <2> QED BY <1>0, <1>3, <2>1, <2>2, <2>3
      DEF ClearStep, SaveIdentity, ClearStepRaises, SaveClear, SaveClearRaises,
        ClearUnrecorded, ClearInPlace, ClearIdentify, ClearRefused, world
<1>4. CASE (\E f \in BOOLEAN, S \in SUBSET Targets : StartApply(f, S) \/ StartClear(f, S))
           \/ Finish \/ Crash \/ UNCHANGED vars
  BY <1>0, <1>4 DEF StartApply, StartClear, Finish, Crash, vars, world
<1> QED BY <1>1, <1>2, <1>3, <1>4 DEF Next, CommandStep

(* Clearing is inductive, given IInv. *)
THEOREM ClearingInductive == Spec => []Clearing
<1>1. Init => Clearing
  BY DEF Init, Clearing, ApplyAtWork, RestoreStands, ClearedUnlinked, OneHome, Replacing,
         Writing
<1>2. IInv /\ Clearing /\ [Next]_vars => Clearing'
  BY ApplyAtWorkStep, RestoreStep, UnlinkedStep, OneHomeStep DEF Clearing
<1> QED BY Inductive, <1>1, <1>2, PTL DEF Spec

(* A descriptor leaves the saved ledger only when the exact baseline it     *)
(* names is at its target, whatever the user edits elsewhere and whichever  *)
(* command failed or was killed before.                                     *)
THEOREM DroppedWhenRestored == Spec => DroppedOnlyWhenRestored
<1> DEFINE Rest == \A t \in Targets :
      led[t].kind # "none" /\ led'[t].kind = "none" /\ t \notin touched
        => HoldsBaseline(disk[t], led[t])
<1>1. IInv /\ Clearing /\ [Next]_vars => [Rest]_vars
  <2> SUFFICES ASSUME IInv, Clearing, [Next]_vars, NEW t \in Targets, t \notin touched,
                      led[t].kind # "none", led'[t].kind = "none"
               PROVE  HoldsBaseline(disk[t], led[t])
    OBVIOUS
  <2>1. led' = mem /\ pc # "idle" /\ led[t] \in Desc /\ mem[t] \in Desc /\ held \in Desc
    BY LedgerWrites DEF IInv, TypeOK
  <2>2. ~Advances(led[t], mem[t]) /\ led[t] # NoDesc
    BY <2>1, AdvanceFacts DEF NoDesc, PlainDesc
  <2>3. t = cur /\ pc = "saveClear" /\ Advances(led[t], held)
    BY <2>1, <2>2 DEF IInv, MemAgrees
  <2>4. HoldsBaseline(disk[t], held) /\ led[t].kind = held.kind /\ led[t].id = held.id
    BY <2>1, <2>3, AdvanceFacts DEF Clearing, RestoreStands
  <2> QED BY <2>4 DEF HoldsBaseline, Matches
<1> QED BY <1>1, Inductive, ClearingInductive, PTL DEF Spec, DroppedOnlyWhenRestored

(* Only Finish drops the projection, and only when no target links into it. *)
LEMMA DropStep ==
  ASSUME IInv, Clearing, [Next]_vars, CommandActs, tree, ~tree', NEW t \in Targets
  PROVE  disk[t] # Projected
<1>1. CASE Finish
  <2>1. op = "clear" /\ ~failed /\ pc = "pick" /\ todo = {}
        /\ \A u \in Targets \ scope : ~PointsAtProjection(u)
    BY <1>1 DEF Finish, MayDropTree
  <2> QED BY <2>1 DEF PointsAtProjection, Clearing, ClearedUnlinked
<1>2. CASE UserStep
  <2>1. drift \in Nat /\ drift' = drift + 1
    BY <1>2 DEF UserStep, UserEdit, UserMove, UserCleans, UserActs, IInv, TypeOK
  <2> QED BY <2>1 DEF CommandActs
<1>3. CASE ApplyStep
  BY <1>3 DEF ApplyStep, BuildTree, SaveUnchanged, SaveCapture, SaveCaptureRaises,
      BackupSeen, Displace, BodyRefused, SaveDisplaced, SaveDisplacedRaises,
      PlaceReplace, PlaceKeep, WriteUnlink, WriteBackup, WriteLink, WriteCopy,
      WriteMarker, WriteDiscard, WriteKeeps, WriteInto, WriteEnds, ApplyCanonical,
      RecordCanonical, CaptureAbsent, CaptureSymlink, CaptureDirectory, CaptureTo,
      CaptureRefused, Resume, world
<1>4. CASE ClearStep
  BY <1>4 DEF ClearStep, ClearRelink, SaveIdentity, ClearOutput, ClearRename,
      ClearStepRaises, SaveClear, SaveClearRaises, ClearUnrecorded, ClearInPlace,
      ClearToAbsent, ClearUnlink, ClearIdentify, ClearRefused, world
<1>5. CASE (\E f \in BOOLEAN, S \in SUBSET Targets : StartApply(f, S) \/ StartClear(f, S))
           \/ Crash \/ UNCHANGED vars
  BY <1>5 DEF StartApply, StartClear, Crash, vars, world
<1> QED BY <1>1, <1>2, <1>3, <1>4, <1>5 DEF Next, CommandStep

(* crossby removes the projection only when no target links into it: a       *)
(* clear of some tools keeps it for the others, one that failed keeps it.    *)
THEOREM ProjectionOutlives == Spec => ProjectionOutlivesItsUsers
<1>1. IInv /\ Clearing /\ [Next]_vars
        => [CommandActs /\ tree /\ ~tree' => \A t \in Targets : disk[t] # Projected]_vars
  BY DropStep
<1> QED BY <1>1, Inductive, ClearingInductive, PTL DEF Spec, ProjectionOutlivesItsUsers

-----------------------------------------------------------------------------
(* What holds while the user edits nothing.                                 *)

(* Clearable of an arbitrary disk, descriptor and projection. *)
ClearableIn(k, t, d, w) ==
    CASE d.kind = "absent" -> k[t] = Absent \/ k[t].kind = "marked" \/ (k[t] = Projected /\ w)
      [] d.kind = "symlink" -> k[t] \in {Absent, Link(d.id)}
                               \/ k[t].kind = "marked" \/ (k[t] = Projected /\ w)
      [] d.kind = "directory" ->
           IF k[Backup(t, d)] = Absent THEN Matches(k[t], d)
           ELSE /\ Matches(k[Backup(t, d)], d)
                /\ k[t] = Absent \/ k[t].kind = "marked" \/ (k[t] = Projected /\ w)
      [] OTHER -> TRUE

(* The directory a descriptor names is at its own target or beside it. *)
HomeIn(k, t, d) ==
    d.kind = "directory" => \A p \in Paths : Matches(k[p], d) => Owner(p) = t

Homes ==
    /\ \A t \in Targets : HomeIn(disk, t, led[t]) /\ HomeIn(disk, t, mem[t])
    /\ pc = "saveClear" => HomeIn(disk, cur, held)

(* An apply has built the projection it links to. *)
TreeStands ==
    /\ op = "apply" /\ pc \notin {"idle", "tree"} => tree
    /\ \A t \in Targets : disk[t] = Projected => tree

(* A target is as the apply's last look at it found it. *)
AsFound ==
    /\ pc \in {"saveMoved", "placeMoved", "create"} => disk[cur] = Absent
    /\ pc = "write" => ~IsDir(disk[cur])
    /\ pc \notin {"discard", "cleared"}
    /\ pc = "mark" => cur \in CopyWriters
    /\ pc = "saveUnchanged" => mem[cur] = UnchangedDesc
    /\ pc = "saveCapture" => /\ HoldsBaseline(disk[cur], mem[cur])
                             /\ mem[cur].kind = "directory"
                                  => disk[Backup(cur, mem[cur])] = Absent

(* The way back is there at every point of a command, not only between two. *)
WayBack == \A t \in Targets \ CopyWriters : ClearableIn(disk, t, led[t], tree)

Undisturbed == drift = 0 => touched = {} /\ Homes /\ TreeStands /\ AsFound /\ WayBack

(* A step of crossby that nobody's edit came before. *)
Quiet == IInv /\ Clearing /\ Undisturbed /\ drift = 0 /\ CommandStep

LEMMA QuietParts ==
  ASSUME Quiet
  PROVE  /\ TypeOK /\ CommandPoint /\ DescriptorsWellFormed /\ MemAgrees
         /\ Homes /\ TreeStands /\ AsFound /\ WayBack /\ RestoreStands /\ ApplyAtWork /\ OneHome
         /\ touched = {} /\ [Next]_vars
BY DEF Quiet, IInv, Clearing, Undisturbed, Next

(* Which directories a step leaves where. *)
DirsStay ==
    \A p \in Paths : IsDir(disk'[p]) =>
      \/ disk'[p].id \in SceneDirs
      \/ \E q \in Paths : Owner(q) = Owner(p) /\ IsDir(disk[q]) /\ disk[q].id = disk'[p].id

(* A directory a writer did not make was at that target or beside it before. *)
LEMMA DirsStayStep == Quiet => DirsStay
<1> SUFFICES ASSUME Quiet PROVE DirsStay
  OBVIOUS
<1> TypeOK /\ AsFound /\ CommandPoint
  BY QuietParts
<1> USE DEF TypeOK
<1>0. CASE disk' = disk
  BY <1>0 DEF DirsStay
<1>a. ~IsDir(Absent) /\ ~IsDir(Projected) /\ \A l : ~IsDir(Link(l))
  BY DEF IsDir, DirKinds, Absent, Projected, Link
<1>p. ASSUME NEW q \in Paths, NEW e, disk' = [disk EXCEPT ![q] = e],
             IsDir(e) => e.id \in SceneDirs \/ (IsDir(disk[q]) /\ disk[q].id = e.id)
      PROVE  DirsStay
  <2>1. disk'[q] = e /\ \A x \in Paths \ {q} : disk'[x] = disk[x]
    BY <1>p
  <2> QED BY <1>p, <2>1 DEF DirsStay
<1>m. ASSUME NEW q \in Paths, NEW r \in Paths, q # r, Owner(q) = Owner(r),
             disk' = [disk EXCEPT ![q] = disk[r], ![r] = Absent]
      PROVE  DirsStay
  <2>1. disk'[q] = disk[r] /\ disk'[r] = Absent
        /\ \A x \in Paths \ {q, r} : disk'[x] = disk[x]
    BY <1>m
  <2> QED BY <1>m, <1>a, <2>1 DEF DirsStay
<1>b. pc \in {"body", "rename"} /\ mem[cur].kind = "directory"
        => /\ Backup(cur, mem[cur]) \in Paths \ Targets /\ cur \in Targets
           /\ Owner(Backup(cur, mem[cur])) = cur /\ Owner(cur) = cur
  BY QuietParts, PathFacts DEF DescriptorsWellFormed, WellFormed, Backup, Owner
<1>c. pc \notin {"idle", "tree", "pick"} => cur \in Paths
  BY PathFacts
<1>2. CASE ApplyStep
  <2>1. CASE Displace
    <3>1. disk' = [disk EXCEPT ![Backup(cur, mem[cur])] = disk[cur], ![cur] = Absent]
      BY <2>1 DEF Displace
    <3> QED BY <2>1, <3>1, <1>b, <1>m, PathFacts DEF Displace
  <2>2. CASE WriteBackup
    BY <2>2 DEF WriteBackup, AsFound
  <2>3. CASE WriteUnlink \/ WriteDiscard \/ WriteLink
    BY <2>3, <1>a, <1>c, <1>p DEF WriteUnlink, WriteDiscard, WriteLink
  <2>4. CASE WriteCopy
    <3>1. PICK i \in SceneDirs, k \in {"empty", "full"} :
            disk' = [disk EXCEPT ![cur] = [kind |-> k, id |-> i]]
      BY <2>4 DEF WriteCopy
    <3> QED BY <2>4, <3>1, <1>c, <1>p DEF WriteCopy
  <2>5. CASE WriteMarker /\ IsDir(disk[cur])
    BY <2>5, <1>c, <1>p DEF WriteMarker
  <2> QED BY <1>0, <1>2, <2>1, <2>2, <2>3, <2>4, <2>5
      DEF ApplyStep, BuildTree, SaveUnchanged, SaveCapture, SaveCaptureRaises,
        BackupSeen, BodyRefused, SaveDisplaced, SaveDisplacedRaises,
        PlaceReplace, PlaceKeep, WriteKeeps, WriteInto, WriteMarker, WriteEnds,
        ApplyCanonical, RecordCanonical, CaptureAbsent, CaptureSymlink, CaptureDirectory,
        CaptureTo, CaptureRefused, Resume, world
<1>3. CASE ClearStep
  <2>1. CASE ClearRename
    <3>1. disk' = [disk EXCEPT ![cur] = disk[Backup(cur, mem[cur])],
                               ![Backup(cur, mem[cur])] = Absent]
      BY <2>1 DEF ClearRename
    <3>2. cur \in Paths /\ Backup(cur, mem[cur]) \in Paths /\ cur # Backup(cur, mem[cur])
          /\ Owner(cur) = Owner(Backup(cur, mem[cur]))
      BY <2>1, <1>b, PathFacts DEF ClearRename, CommandPoint
    <3> QED BY <3>1, <3>2, <1>m
  <2>2. CASE ClearRelink \/ ClearOutput
    BY <2>2, <1>a, <1>c, <1>p DEF ClearRelink, ClearOutput
  <2>3. ASSUME NEW t \in Targets, ClearToAbsent(t) \/ ClearUnlink(t) PROVE DirsStay
    BY <2>3, <1>a, <1>p, PathFacts DEF ClearToAbsent, ClearUnlink
  <2> QED BY <1>0, <1>3, <2>1, <2>2, <2>3
      DEF ClearStep, SaveIdentity, ClearStepRaises, SaveClear, SaveClearRaises,
        ClearUnrecorded, ClearInPlace, ClearIdentify, ClearRefused, world
<1>4. CASE (\E f \in BOOLEAN, S \in SUBSET Targets : StartApply(f, S) \/ StartClear(f, S))
           \/ Finish \/ Crash
  BY <1>0, <1>4 DEF StartApply, StartClear, Finish, Crash, world
<1> QED BY <1>2, <1>3, <1>4 DEF Quiet, CommandStep

(* So a named directory stays at home. *)
LEMMA HomeKept ==
  ASSUME Quiet, NEW t \in Targets, NEW d, WellFormed(d), HomeIn(disk, t, d)
  PROVE  HomeIn(disk', t, d)
<1> SUFFICES ASSUME d.kind = "directory", NEW p \in Paths, Matches(disk'[p], d)
             PROVE  Owner(p) = t
  BY DEF HomeIn
<1>1. d.id \in UserDirs /\ d.id \notin SceneDirs /\ IsDir(disk'[p]) /\ disk'[p].id = d.id
  BY ScenePathAssumption DEF WellFormed, Matches
<1>2. PICK q \in Paths : Owner(q) = Owner(p) /\ IsDir(disk[q]) /\ disk[q].id = d.id
  BY <1>1, DirsStayStep DEF DirsStay
<1> QED BY <1>2 DEF HomeIn, Matches

(* What the command's ledger can come to hold of a target. *)
LEMMA MemoryWrites ==
  ASSUME Quiet, NEW t \in Targets
  PROVE  \/ mem'[t] \in {mem[t], led[t], NoDesc, Displaced(mem[t]), AbsentDesc, UnchangedDesc}
         \/ \E l : mem'[t] = SymlinkDesc(l)
         \/ t = cur /\ pc = "saveClear" /\ mem'[t] = held
         \/ \E s : mem'[t] = DirectoryDesc(s, disk[t].id) /\ IsDir(disk[t]) /\ disk' = disk
<1> DEFINE Held == t = cur /\ pc = "saveClear" /\ mem'[t] = held
           Taken == \E s : mem'[t] = DirectoryDesc(s, disk[t].id) /\ IsDir(disk[t]) /\ disk' = disk
           Goal == \/ mem'[t] \in {mem[t], led[t], NoDesc, Displaced(mem[t]), AbsentDesc,
                                   UnchangedDesc}
                   \/ \E l : mem'[t] = SymlinkDesc(l)
                   \/ Held \/ Taken
<1> SUFFICES Goal
  OBVIOUS
<1> TypeOK
  BY QuietParts
<1> USE DEF TypeOK, world, ledger, ctl, loop, user
<1>0. CASE mem' = mem
  BY <1>0
<1>1. CASE \E f \in BOOLEAN, S \in SUBSET Targets : StartApply(f, S) \/ StartClear(f, S)
  BY <1>1 DEF StartApply, StartClear
<1>2. CASE BackupSeen \/ Displace
  BY <1>2 DEF BackupSeen, Displace
<1>3. ASSUME NEW u \in Targets, RecordCanonical(u) \/ CaptureAbsent(u) PROVE Goal
  BY <1>3 DEF RecordCanonical, CaptureAbsent, CaptureTo
<1>4. ASSUME NEW u \in Targets, CaptureSymlink(u) PROVE Goal
  BY <1>4 DEF CaptureSymlink, CaptureTo
<1>5. ASSUME NEW u \in Targets, CaptureDirectory(u) PROVE Goal
  <2>1. PICK s : mem' = [mem EXCEPT ![u] = DirectoryDesc(s, disk[u].id)] /\ disk' = disk
    BY <1>5 DEF CaptureDirectory, CaptureTo
  <2>2. IsDir(disk[u])
    BY <1>5 DEF CaptureDirectory, IsDir, DirKinds
  <2> QED BY <2>1, <2>2
<1>6. CASE SaveClearRaises
  BY <1>6 DEF SaveClearRaises, SaveRaises
<1>7. ASSUME NEW u \in Targets, Restored(u) PROVE Goal
  BY <1>7 DEF Restored
<1> HIDE DEF Goal
<1>8. CASE ApplyStep
  BY <1>0, <1>2, <1>3, <1>4, <1>5, <1>8
     DEF ApplyStep, BuildTree, SaveUnchanged, SaveCapture, SaveCaptureRaises,
      BodyRefused, SaveDisplaced, SaveDisplacedRaises,
      PlaceReplace, PlaceKeep, WriteUnlink, WriteBackup, WriteLink, WriteCopy,
      WriteMarker, WriteDiscard, WriteKeeps, WriteInto, WriteEnds, ApplyCanonical,
      CaptureRefused, Resume
<1>9. CASE ClearStep
  BY <1>0, <1>6, <1>7, <1>9 DEF ClearStep, ClearRelink, SaveIdentity, ClearOutput, ClearRename,
      ClearStepRaises, SaveClear, ClearUnrecorded, ClearInPlace,
      ClearToAbsent, ClearUnlink, ClearIdentify, ClearRefused
<1>10. CASE Finish \/ Crash
  BY <1>0, <1>10 DEF Finish, Crash
<1> QED BY <1>1, <1>8, <1>9, <1>10 DEF Quiet, CommandStep

LEMMA HomesStep == Quiet => Homes'
<1> SUFFICES ASSUME Quiet PROVE Homes'
  OBVIOUS
<1> TypeOK /\ Homes /\ DescriptorsWellFormed /\ OneHome
  BY QuietParts
<1> USE DEF DescriptorsWellFormed
<1>1. ASSUME NEW t \in Targets PROVE HomeIn(disk', t, led[t]) /\ HomeIn(disk', t, mem[t])
  BY <1>1, HomeKept DEF Homes
<1>2. ASSUME NEW t \in Targets PROVE HomeIn(disk', t, mem'[t])
  <2>1. CASE mem'[t] \in {mem[t], led[t]}
    BY <1>1, <2>1
  <2>2. CASE mem'[t] = Displaced(mem[t])
    <3>1. mem'[t].kind = mem[t].kind /\ mem'[t].id = mem[t].id
      BY <2>2 DEF Displaced
    <3> QED BY <1>1, <3>1 DEF HomeIn, Matches
  <2>3. CASE mem'[t] \in {NoDesc, AbsentDesc, UnchangedDesc} \/ \E l : mem'[t] = SymlinkDesc(l)
    <3>1. NoDesc.kind # "directory" /\ AbsentDesc.kind # "directory"
          /\ UnchangedDesc.kind # "directory" /\ \A l : SymlinkDesc(l).kind # "directory"
      BY DEF NoDesc, AbsentDesc, UnchangedDesc, SymlinkDesc, PlainDesc
    <3>2. mem'[t].kind # "directory"
      BY <2>3, <3>1
    <3> QED BY <3>2 DEF HomeIn
  <2>4. CASE t = cur /\ pc = "saveClear" /\ mem'[t] = held
    BY <2>4, HomeKept DEF Homes
  <2>5. CASE \E s : mem'[t] = DirectoryDesc(s, disk[t].id) /\ IsDir(disk[t]) /\ disk' = disk
    <3>1. mem'[t].id = disk[t].id
      BY <2>5 DEF DirectoryDesc
    <3>2. \A p \in Paths : Matches(disk'[p], mem'[t]) => p = t
      BY <2>5, <3>1, PathFacts DEF Matches, OneHome
    <3> QED BY <3>2 DEF HomeIn, Owner
  <2> QED BY <2>1, <2>2, <2>3, <2>4, <2>5, MemoryWrites
<1>3. ASSUME NEW t \in Targets PROVE HomeIn(disk', t, led'[t])
  BY <1>1, LedgerWrites, QuietParts
<1>4. ASSUME pc' = "saveClear" PROVE HomeIn(disk', cur', held')
  <2>1. PICK t \in Targets : cur' = t /\ held' = mem[t]
    <3>1. PICK t \in Targets : Restored(t)
      <4>1. CASE ApplyStep
        BY <4>1, <1>4 DEF ApplyStep, BuildTree, SaveUnchanged, SaveCapture, SaveCaptureRaises,
          BackupSeen, Displace, BodyRefused, SaveDisplaced, SaveDisplacedRaises,
          PlaceReplace, PlaceKeep, WriteUnlink, WriteBackup, WriteLink, WriteCopy,
          WriteMarker, WriteDiscard, WriteKeeps, WriteInto, WriteEnds, ApplyCanonical,
          RecordCanonical, CaptureAbsent, CaptureSymlink, CaptureDirectory, CaptureTo,
          CaptureRefused, Resume, NextTarget, Abort, ApplyPick, Pick
      <4>2. CASE ClearStep
        BY <4>2, <1>4 DEF ClearStep, ClearRelink, SaveIdentity, ClearOutput, ClearRename,
          ClearStepRaises, SaveClear, SaveClearRaises, ClearUnrecorded, ClearInPlace,
          ClearToAbsent, ClearUnlink, ClearIdentify, ClearRefused, RestoreFails,
          NextTarget, ClearPick, Pick, TypeOK
      <4>3. CASE Finish \/ Crash
                 \/ (\E f \in BOOLEAN, S \in SUBSET Targets : StartApply(f, S) \/ StartClear(f, S))
        BY <4>3, <1>4 DEF Finish, Crash, Abort, StartApply, StartClear
      <4> QED BY <4>1, <4>2, <4>3 DEF Quiet, CommandStep
    <3> QED BY <3>1 DEF Restored
  <2> QED BY <1>1, <2>1
<1> QED BY <1>2, <1>3, <1>4 DEF Homes

(* Edits are the user's. *)
LEMMA CommandKeepsDrift == CommandStep => drift' = drift
BY DEF CommandStep, StartApply, StartClear, Finish, Crash,
    ApplyStep, BuildTree, SaveUnchanged, SaveCapture, SaveCaptureRaises,
    BackupSeen, Displace, BodyRefused, SaveDisplaced, SaveDisplacedRaises,
    PlaceReplace, PlaceKeep, WriteUnlink, WriteBackup, WriteLink, WriteCopy,
    WriteMarker, WriteDiscard, WriteKeeps, WriteInto, WriteEnds, ApplyCanonical,
    RecordCanonical, CaptureAbsent, CaptureSymlink, CaptureDirectory, CaptureTo,
    CaptureRefused, Resume, ClearStep, ClearRelink, SaveIdentity, ClearOutput, ClearRename,
    ClearStepRaises, SaveClear, SaveClearRaises, ClearUnrecorded, ClearInPlace,
    ClearToAbsent, ClearUnlink, ClearIdentify, ClearRefused, user

(* Only the writer of an apply makes a link into the projection. *)
LEMMA NewLink ==
  ASSUME Quiet, NEW t \in Targets, disk[t] # Projected, disk'[t] = Projected
  PROVE  WriteLink
<1> TypeOK /\ CommandPoint /\ DescriptorsWellFormed
  BY QuietParts
<1> USE DEF TypeOK
<1>a. Absent # Projected /\ ~IsDir(Projected)
      /\ \A l : Link(l) = Projected => l = SceneLink
  BY DEF Absent, Projected, Link, IsDir, DirKinds
<1>b. pc \in {"body", "rename"} /\ mem[cur].kind = "directory"
        => Backup(cur, mem[cur]) \in Paths \ Targets /\ cur \in Targets
  BY PathFacts DEF TypeOK, DescriptorsWellFormed, WellFormed, Backup
<1>1. CASE ApplyStep
  <2>1. CASE Displace
    BY <2>1, <1>a, <1>b, PathFacts DEF Displace
  <2>2. CASE WriteBackup
    <3>1. PICK s \in Slots, i \in UserDirs :
            disk' = [disk EXCEPT ![<<cur, s>>] = [kind |-> disk[cur].kind, id |-> i]]
      BY <2>2 DEF WriteBackup, Free
    <3>2. cur \in Targets
      BY <2>2 DEF WriteBackup
    <3>3. disk'[t] = disk[t]
      BY <3>1, <3>2, PathFacts
    <3> QED BY <3>3
  <2>3. CASE WriteUnlink \/ WriteDiscard
    BY <2>3, <1>a, PathFacts DEF WriteUnlink, WriteDiscard
  <2>4. CASE WriteCopy \/ WriteMarker
    <3>1. \A k, i : k \in {"empty", "full", "marked"} => [kind |-> k, id |-> i] # Projected
      BY DEF Projected, Link
    <3> QED BY <2>4, <3>1, PathFacts DEF WriteCopy, WriteMarker
  <2> QED BY <1>1, <2>1, <2>2, <2>3, <2>4
      DEF ApplyStep, BuildTree, SaveUnchanged, SaveCapture, SaveCaptureRaises,
        BackupSeen, BodyRefused, SaveDisplaced, SaveDisplacedRaises,
        PlaceReplace, PlaceKeep, WriteKeeps, WriteInto, WriteEnds,
        ApplyCanonical, RecordCanonical, CaptureAbsent, CaptureSymlink, CaptureDirectory,
        CaptureTo, CaptureRefused, Resume, world
<1>2. CASE ClearStep
  <2>1. CASE ClearRename
    BY <2>1, <1>a, <1>b, PathFacts DEF ClearRename, Renameable, CommandPoint
  <2>2. CASE ClearRelink
    <3>1. mem[cur].id \in UserLinks /\ cur \in Targets
      BY <2>2 DEF ClearRelink, CommandPoint, DescriptorsWellFormed, WellFormed
    <3> QED BY <2>2, <3>1, <1>a, PathFacts, ScenePathAssumption DEF ClearRelink
  <2>3. CASE ClearOutput
    BY <2>3, <1>a, PathFacts DEF ClearOutput
  <2>4. ASSUME NEW u \in Targets, ClearToAbsent(u) \/ ClearUnlink(u) PROVE WriteLink
    BY <2>4, <1>a, PathFacts DEF ClearToAbsent, ClearUnlink
  <2> QED BY <1>2, <2>1, <2>2, <2>3, <2>4
      DEF ClearStep, SaveIdentity, ClearStepRaises, SaveClear, SaveClearRaises,
        ClearUnrecorded, ClearInPlace, ClearIdentify, ClearRefused, world
<1>3. CASE (\E f \in BOOLEAN, S \in SUBSET Targets : StartApply(f, S) \/ StartClear(f, S))
           \/ Finish \/ Crash
  BY <1>3 DEF StartApply, StartClear, Finish, Crash, world
<1> QED BY <1>1, <1>2, <1>3 DEF Quiet, CommandStep

(* The projection is there whenever an apply is past building it. *)
LEMMA TreeStep == Quiet => TreeStands'
<1> SUFFICES ASSUME Quiet PROVE TreeStands'
  OBVIOUS
<1> TypeOK /\ TreeStands /\ ApplyAtWork /\ [Next]_vars /\ CommandPoint
  BY QuietParts
<1> USE DEF TypeOK, TreeStands
<1>p. Absent # Projected /\ ~IsDir(Projected)
  BY DEF Absent, Projected, Link, IsDir, DirKinds
<1>1. op' = "apply" /\ pc' \notin {"idle", "tree"} => tree'
  <2>1. CASE \E f \in BOOLEAN, S \in SUBSET Targets : StartApply(f, S) \/ StartClear(f, S)
    BY <2>1 DEF StartApply, StartClear
  <2>2. CASE Finish \/ Crash
    BY <2>2 DEF Finish, Crash, Abort
  <2>3. CASE ApplyStep
    <3>1. BuildTree \/ (tree' = tree /\ op' = op /\ pc \notin {"idle", "tree"})
      BY <2>3 DEF ApplyStep, SaveUnchanged, SaveCapture, SaveCaptureRaises,
        BackupSeen, Displace, BodyRefused, SaveDisplaced, SaveDisplacedRaises, Save, SaveRaises,
        PlaceReplace, PlaceKeep, AtPlace, WriteUnlink, WriteBackup, WriteLink, WriteCopy,
        WriteMarker, WriteDiscard, WriteKeeps, WriteInto, WriteEnds, ApplyCanonical,
        RecordCanonical, CaptureAbsent, CaptureSymlink, CaptureDirectory, CaptureTo,
        CaptureRefused, Resume, ApplyPick, Pick, Writing, world, ctl
    <3> QED BY <3>1 DEF BuildTree
  <2>4. CASE ClearStep
    <3>1. tree' = tree /\ op' = op /\ pc \notin {"idle", "tree"}
      BY <2>4 DEF ClearStep, ClearRelink, SaveIdentity, ClearOutput, ClearRename,
        ClearStepRaises, SaveClear, SaveClearRaises, ClearUnrecorded, ClearInPlace,
        ClearToAbsent, ClearUnlink, ClearIdentify, ClearRefused, ClearPick, Pick,
        Save, SaveRaises, world, ctl
    <3> QED BY <3>1
  <2> QED BY <2>1, <2>2, <2>3, <2>4 DEF Quiet, CommandStep
<1>2. ASSUME NEW t \in Targets, disk'[t] = Projected PROVE tree'
  <2>1. CASE disk[t] = Projected
    <3>1. CommandActs
      BY CommandKeepsDrift DEF Quiet, CommandActs
    <3> QED BY <2>1, <3>1, DropStep, TypeStep DEF Quiet
  <2>2. CASE disk[t] # Projected
    <3>1. WriteLink
      BY <1>2, <2>2, NewLink
    <3> QED BY <3>1 DEF WriteLink, ApplyAtWork, Replacing, Writing
  <2> QED BY <2>1, <2>2
<1> QED BY <1>1, <1>2

(* Nothing comes between an apply's look at a target and its step there. *)
LEMMA AsFoundStep == Quiet => AsFound'
<1> SUFFICES ASSUME Quiet PROVE AsFound'
  OBVIOUS
<1> TypeOK /\ AsFound /\ CommandPoint /\ DescriptorsWellFormed
  BY QuietParts
<1> USE DEF TypeOK
<1> DEFINE Points == {"saveMoved", "placeMoved", "create", "write", "discard", "cleared",
                      "mark", "saveUnchanged", "saveCapture"}
<1>0. ASSUME pc' \notin Points PROVE AsFound'
  BY <1>0 DEF AsFound
<1>a. ~IsDir(Absent) /\ \A l : ~IsDir(Link(l))
  BY DEF IsDir, DirKinds, Absent, Link
<1>1. CASE ApplyStep
  <2> USE DEF world, ledger, ctl, loop, user
  <2>1. CASE Displace
    <3>1. cur \in Targets /\ Backup(cur, mem[cur]) \in Paths \ Targets
      BY <2>1, PathFacts DEF Displace, DescriptorsWellFormed, WellFormed, Backup
    <3>2. disk'[cur] = Absent /\ cur' = cur /\ pc' = "saveMoved"
      BY <2>1, <3>1, PathFacts DEF Displace
    <3> QED BY <3>2 DEF AsFound
  <2>2. CASE SaveDisplaced
    BY <2>2 DEF SaveDisplaced, Save, AsFound
  <2>3. CASE PlaceReplace
    <3>1. ~IsDir(disk[cur])
      BY <2>3, <1>a DEF PlaceReplace, AtPlace, MayReplace, Intact, AsFound
    <3> QED BY <2>3, <3>1 DEF PlaceReplace, AsFound
  <2>4. CASE WriteBackup \/ WriteDiscard \/ WriteInto
    BY <2>4, <1>a DEF WriteBackup, WriteDiscard, WriteInto, AsFound
  <2>5. CASE WriteUnlink
    <3>1. disk'[cur] = Absent /\ cur' = cur /\ pc' = "create"
      BY <2>5, PathFacts DEF WriteUnlink
    <3> QED BY <3>1 DEF AsFound
  <2>6. CASE WriteCopy \/ WriteKeeps
    BY <2>6 DEF WriteCopy, WriteKeeps, AsFound
  <2>7. ASSUME NEW t \in Targets, NEW d \in Desc, CaptureTo(t, d), HoldsBaseline(disk[t], d),
               d.kind = "directory" => disk[Backup(t, d)] = Absent
        PROVE  AsFound'
    <3>1. UNCHANGED disk /\ cur' = t /\ mem'[t] = d /\ pc' = "saveCapture"
      BY <2>7 DEF CaptureTo
    <3> QED BY <2>7, <3>1 DEF AsFound
  <2>8. ASSUME NEW t \in Targets, CaptureAbsent(t) PROVE AsFound'
    <3>1. HoldsBaseline(disk[t], AbsentDesc) /\ AbsentDesc.kind # "directory"
      BY <2>8 DEF CaptureAbsent, AbsentDesc, PlainDesc, HoldsBaseline
    <3> QED BY <2>7, <2>8, <3>1, ConstantTypes DEF CaptureAbsent
  <2>9. ASSUME NEW t \in Targets, CaptureSymlink(t) PROVE AsFound'
    <3>1. disk[t] = Link(disk[t].id) /\ disk[t].id \in Ids
      BY <2>9, EntryFacts, PathFacts DEF CaptureSymlink
    <3>2. HoldsBaseline(disk[t], SymlinkDesc(disk[t].id))
          /\ SymlinkDesc(disk[t].id).kind # "directory"
      BY <3>1 DEF SymlinkDesc, PlainDesc, HoldsBaseline
    <3> QED BY <2>7, <2>9, <3>1, <3>2, ConstantTypes DEF CaptureSymlink
  <2>10. ASSUME NEW t \in Targets, CaptureDirectory(t) PROVE AsFound'
    <3>1. PICK s \in Free(t) : CaptureTo(t, DirectoryDesc(s, disk[t].id))
      BY <2>10 DEF CaptureDirectory
    <3>2. IsDir(disk[t]) /\ disk[t].id \in Ids /\ s \in Slots /\ disk[<<t, s>>] = Absent
      BY <2>10, <3>1, EntryFacts, PathFacts DEF CaptureDirectory, IsDir, DirKinds, Free
    <3>3. HoldsBaseline(disk[t], DirectoryDesc(s, disk[t].id))
          /\ disk[Backup(t, DirectoryDesc(s, disk[t].id))] = Absent
      BY <3>2 DEF DirectoryDesc, HoldsBaseline, Matches, Backup
    <3> QED BY <2>7, <3>1, <3>2, <3>3, ConstantTypes
  <2>11. ASSUME NEW t \in Targets, RecordCanonical(t) PROVE AsFound'
    BY <2>11 DEF RecordCanonical, AsFound
  <2> QED BY <1>0, <1>1, <2>1, <2>2, <2>3, <2>4, <2>5, <2>6, <2>8, <2>9, <2>10, <2>11
      DEF ApplyStep, BuildTree, SaveUnchanged, SaveCapture, SaveCaptureRaises,
        BackupSeen, BodyRefused, SaveDisplacedRaises, PlaceKeep, WriteLink,
        WriteMarker, WriteEnds, ApplyCanonical,
        CaptureRefused, Resume, NextTarget, Abort, ApplyPick, Pick
<1>2. CASE ClearStep
  BY <1>0, <1>2 DEF ClearStep, ClearRelink, SaveIdentity, ClearOutput, ClearRename,
      ClearStepRaises, SaveClear, SaveClearRaises, ClearUnrecorded, ClearInPlace,
      ClearToAbsent, ClearUnlink, ClearIdentify, ClearRefused, Restored, RestoreFails,
      NextTarget, ClearPick, Pick
<1>3. CASE (\E f \in BOOLEAN, S \in SUBSET Targets : StartApply(f, S) \/ StartClear(f, S))
           \/ Finish \/ Crash
  BY <1>0, <1>3 DEF StartApply, StartClear, Finish, Crash, Abort
<1> QED BY <1>1, <1>2, <1>3 DEF Quiet, CommandStep

(* Clearable looks at a target, its backups and what is named of it. *)
LEMMA ClearableFrame ==
  ASSUME NEW k, NEW l, NEW t, NEW d, NEW e, NEW v, NEW w, WellFormed(d),
         d.kind = e.kind, d.id = e.id, d.slot = e.slot, k[t] = l[t],
         \A s \in Slots : k[<<t, s>>] = l[<<t, s>>],
         v => w, k[t] = Projected => w, ClearableIn(k, t, d, v)
  PROVE  ClearableIn(l, t, e, w)
<1>1. CASE d.kind = "directory"
  <2>1. Backup(t, e) = Backup(t, d) /\ k[Backup(t, d)] = l[Backup(t, d)]
    BY <1>1 DEF WellFormed, Backup
  <2>2. \A x : Matches(x, d) <=> Matches(x, e)
    BY DEF Matches
  <2> QED BY <1>1, <2>1, <2>2 DEF ClearableIn
<1>2. CASE d.kind # "directory"
  BY <1>2 DEF ClearableIn
<1> QED BY <1>1, <1>2

(* A descriptor names the same baseline however far its displacement is. *)
LEMMA AdvanceNames ==
  \A d, e \in Desc : Advances(d, e) => d.kind = e.kind /\ d.id = e.id /\ d.slot = e.slot
BY DEF Advances, Displaced

(* What a step at one target, away from the saves, has to do with its way back. *)
LEMMA WayAt ==
  ASSUME Quiet, NEW c \in Targets, tree' = tree, led' = led,
         ~(c = cur /\ pc \in Capturing \cup {"saveClear"}),
         \A u \in Targets \ {c} : disk'[u] = disk[u]
                                /\ \A s \in Slots : disk'[<<u, s>>] = disk[<<u, s>>],
         c \in CopyWriters \/ (ClearableIn(disk, c, mem[c], tree)
                               => ClearableIn(disk', c, mem[c], tree)),
         pc # "idle"
  PROVE  WayBack'
<1> TypeOK /\ WayBack /\ TreeStands /\ DescriptorsWellFormed /\ MemAgrees
  BY QuietParts
<1> USE DEF TypeOK, DescriptorsWellFormed
<1> SUFFICES ASSUME NEW t \in Targets \ CopyWriters
             PROVE  ClearableIn(disk', t, led[t], tree)
  BY DEF WayBack
<1>1. ClearableIn(disk, t, led[t], tree) /\ (disk[t] = Projected => tree)
  BY DEF WayBack, TreeStands
<1>2. CASE t # c
  BY <1>1, <1>2, ClearableFrame
<1>3. CASE t = c
  <2>1. led[t].kind = mem[t].kind /\ led[t].id = mem[t].id /\ led[t].slot = mem[t].slot
    BY <1>3, AdvanceNames DEF MemAgrees
  <2>2. ClearableIn(disk, t, mem[t], tree)
    BY <1>1, <2>1, ClearableFrame
  <2>3. ClearableIn(disk', t, mem[t], tree)
    BY <1>3, <2>2
  <2> QED BY <2>1, <2>3 DEF ClearableIn, Backup, Matches
<1> QED BY <1>2, <1>3

(* No step of a command loses the way back of a linked target. *)
LEMMA WayBackStep == Quiet => WayBack'
<1> SUFFICES ASSUME Quiet PROVE WayBack'
  OBVIOUS
<1> TypeOK /\ WayBack /\ TreeStands /\ AsFound /\ RestoreStands /\ ApplyAtWork
    /\ CommandPoint /\ DescriptorsWellFormed /\ MemAgrees /\ touched = {} /\ [Next]_vars
  BY QuietParts
<1> USE DEF TypeOK
<1>s. ASSUME UNCHANGED <<disk, led>>, tree => tree' PROVE WayBack'
  <2> SUFFICES ASSUME NEW t \in Targets \ CopyWriters
               PROVE  ClearableIn(disk, t, led[t], tree')
    BY <1>s DEF WayBack
  <2>1. ClearableIn(disk, t, led[t], tree) /\ (disk[t] = Projected => tree) /\ WellFormed(led[t])
    BY DEF WayBack, TreeStands, DescriptorsWellFormed
  <2> QED BY <1>s, <2>1, ClearableFrame
<1>k. ASSUME UNCHANGED <<disk, tree>>, led' = mem, pc # "idle",
             pc \in Capturing =>
               \A t \in Targets \ CopyWriters : t = cur => ClearableIn(disk, t, mem[t], tree)
      PROVE  WayBack'
  <2> SUFFICES ASSUME NEW t \in Targets \ CopyWriters
               PROVE  ClearableIn(disk, t, mem[t], tree)
    BY <1>k DEF WayBack
  <2>1. CASE t = cur /\ pc \in Capturing
    BY <1>k, <2>1
  <2>2. CASE t = cur /\ pc = "saveClear"
    BY <2>2 DEF CommandPoint, ClearableIn, NoDesc, PlainDesc
  <2>3. CASE ~(t = cur /\ pc \in Capturing \cup {"saveClear"})
    <3>1. ClearableIn(disk, t, led[t], tree) /\ (disk[t] = Projected => tree) /\ WellFormed(led[t])
      BY DEF WayBack, TreeStands, DescriptorsWellFormed
    <3>2. led[t].kind = mem[t].kind /\ led[t].id = mem[t].id /\ led[t].slot = mem[t].slot
      BY <1>k, <2>3, AdvanceNames DEF MemAgrees
    <3> QED BY <3>1, <3>2, ClearableFrame
  <2> QED BY <2>1, <2>2, <2>3
<1>e. ASSUME NEW c \in Targets, NEW e, disk' = [disk EXCEPT ![c] = e],
             UNCHANGED <<tree, led>>, pc # "idle",
             ~(c = cur /\ pc \in Capturing \cup {"saveClear"}),
             c \in CopyWriters \/ (ClearableIn(disk, c, mem[c], tree)
                                   => ClearableIn(disk', c, mem[c], tree))
      PROVE  WayBack'
  <2>1. \A u \in Targets \ {c} : disk'[u] = disk[u]
                                /\ \A s \in Slots : disk'[<<u, s>>] = disk[<<u, s>>]
    BY <1>e, PathFacts
  <2> QED BY <1>e, <2>1, WayAt
<1>a. Absent # Projected /\ ~IsDir(Absent) /\ ~IsDir(Projected)
  BY DEF Absent, Projected, Link, IsDir, DirKinds
<1>1. CASE ApplyStep
  <2> USE DEF world, ledger, ctl, loop, user
  <2>1. CASE BuildTree \/ SaveCaptureRaises \/ BackupSeen \/ BodyRefused
             \/ SaveDisplacedRaises \/ PlaceReplace \/ PlaceKeep \/ WriteKeeps
             \/ WriteInto \/ WriteEnds
    BY <2>1, <1>s DEF BuildTree, SaveCaptureRaises, BackupSeen, BodyRefused,
        SaveDisplacedRaises, PlaceReplace, PlaceKeep, WriteKeeps, WriteInto, WriteEnds, SaveRaises
  <2>2. CASE SaveUnchanged
    <3>1. ClearableIn(disk, cur, mem[cur], tree)
      BY <2>2 DEF SaveUnchanged, Save, AsFound, ClearableIn, UnchangedDesc, PlainDesc
    <3> QED BY <2>2, <3>1, <1>k DEF SaveUnchanged, Save
  <2>3. CASE SaveCapture
    <3>1. pc = "saveCapture" /\ cur \in Targets /\ Authority(mem[cur])
          /\ HoldsBaseline(disk[cur], mem[cur])
          /\ (mem[cur].kind = "directory" => disk[Backup(cur, mem[cur])] = Absent)
      BY <2>3 DEF SaveCapture, Save, AsFound, CommandPoint
    <3>2. ClearableIn(disk, cur, mem[cur], tree)
      BY <3>1 DEF Authority, HoldsBaseline, ClearableIn
    <3> QED BY <2>3, <3>1, <3>2, <1>k DEF SaveCapture, Save
  <2>4. CASE SaveDisplaced
    BY <2>4, <1>k DEF SaveDisplaced, Save, Capturing
  <2>5. CASE Displace
    <3> DEFINE b == Backup(cur, mem[cur])
    <3>1. cur \in Targets /\ mem[cur].slot \in Slots /\ b = <<cur, mem[cur].slot>>
          /\ b \in Paths \ Targets
      BY <2>5, PathFacts DEF Displace, DescriptorsWellFormed, WellFormed, Backup
    <3>2. disk' = [disk EXCEPT ![b] = disk[cur], ![cur] = Absent] /\ Matches(disk[cur], mem[cur])
          /\ mem[cur].kind = "directory" /\ pc = "body"
      BY <2>5 DEF Displace
    <3>3. disk'[b] = disk[cur] /\ disk'[cur] = Absent
          /\ \A p \in Paths \ {b, cur} : disk'[p] = disk[p]
      BY <3>1, <3>2, PathFacts
    <3>4. ClearableIn(disk', cur, mem[cur], tree)
      BY <1>a, <3>2, <3>3 DEF ClearableIn, Matches
    <3>5. \A u \in Targets \ {cur} : disk'[u] = disk[u]
                                    /\ \A s \in Slots : disk'[<<u, s>>] = disk[<<u, s>>]
      BY <3>1, <3>3, PathFacts
    <3> HIDE DEF b
    <3> QED BY <2>5, <3>1, <3>2, <3>4, <3>5, WayAt DEF Displace, Capturing
  <2>6. CASE WriteBackup \/ WriteDiscard
    BY <2>6 DEF WriteBackup, WriteDiscard, AsFound
  <2>7. CASE WriteUnlink \/ WriteLink
    <3>1. cur \in Targets /\ cur \in Paths /\ pc \in {"write", "create"}
          /\ UNCHANGED <<tree, led>> /\ ~IsDir(disk[cur])
      BY <2>7, <1>a, PathFacts DEF WriteUnlink, WriteLink, AsFound
    <3>2. PICK e \in {Absent, Projected} : disk' = [disk EXCEPT ![cur] = e]
                                           /\ (e = Projected => pc = "create")
      BY <2>7, <1>a DEF WriteUnlink, WriteLink
    <3>3. tree
      BY <3>1 DEF TreeStands, ApplyAtWork, Replacing, Writing
    <3>4. ASSUME ClearableIn(disk, cur, mem[cur], tree)
          PROVE  ClearableIn(disk', cur, mem[cur], tree)
      <4>1. disk'[cur] = e
        BY <3>1, <3>2
      <4>2. mem[cur].kind = "directory"
              => disk'[Backup(cur, mem[cur])] = disk[Backup(cur, mem[cur])]
        BY <3>1, <3>2, PathFacts DEF DescriptorsWellFormed, WellFormed, Backup
      <4>3. ~Matches(disk[cur], mem[cur])
        BY <3>1 DEF Matches
      <4> QED BY <3>2, <3>3, <3>4, <4>1, <4>2, <4>3 DEF ClearableIn
    <3> QED BY <1>e, <3>1, <3>2, <3>4 DEF Capturing
  <2>8. CASE WriteCopy \/ WriteMarker
    <3>1. cur \in CopyWriters /\ cur \in Targets /\ pc \in {"create", "mark"}
          /\ UNCHANGED <<tree, led>>
      BY <2>8 DEF WriteCopy, WriteMarker, AsFound
    <3>2. disk' = disk \/ \E e : disk' = [disk EXCEPT ![cur] = e]
      BY <2>8 DEF WriteCopy, WriteMarker
    <3> QED BY <1>e, <1>s, <3>1, <3>2 DEF Capturing
  <2>9. ASSUME NEW t \in Targets,
               ApplyCanonical(t) \/ RecordCanonical(t) \/ CaptureAbsent(t) \/ CaptureSymlink(t)
               \/ CaptureDirectory(t) \/ CaptureRefused(t) \/ Resume(t)
        PROVE  WayBack'
    BY <2>9, <1>s DEF ApplyCanonical, RecordCanonical, CaptureAbsent, CaptureSymlink,
        CaptureDirectory, CaptureTo, CaptureRefused, Resume
  <2> QED BY <1>1, <2>1, <2>2, <2>3, <2>4, <2>5, <2>6, <2>7, <2>8, <2>9 DEF ApplyStep
<1>2. CASE ClearStep
  <2> USE DEF world, ledger, ctl, loop, user
  <2>1. CASE SaveIdentity \/ SaveClear
    BY <2>1, <1>k DEF SaveIdentity, SaveClear, Save, Capturing
  <2>2. CASE ClearStepRaises \/ SaveClearRaises
    BY <2>2, <1>s DEF ClearStepRaises, SaveClearRaises, SaveRaises
  <2>3. CASE ClearRename
    <3> DEFINE b == Backup(cur, mem[cur])
    <3>1. cur \in Targets /\ mem[cur].slot \in Slots /\ b = <<cur, mem[cur].slot>>
          /\ b \in Paths \ Targets /\ mem[cur].kind = "directory" /\ pc = "rename"
      BY <2>3, PathFacts
         DEF ClearRename, CommandPoint, DescriptorsWellFormed, WellFormed, Backup
    <3>2. disk' = [disk EXCEPT ![cur] = disk[b], ![b] = Absent] /\ Matches(disk[b], mem[cur])
      BY <2>3, <3>1 DEF ClearRename, RestoreStands
    <3>3. disk'[cur] = disk[b] /\ disk'[b] = Absent
          /\ \A p \in Paths \ {b, cur} : disk'[p] = disk[p]
      BY <3>1, <3>2, PathFacts
    <3>4. ClearableIn(disk', cur, mem[cur], tree)
      BY <3>1, <3>2, <3>3 DEF ClearableIn
    <3>5. \A u \in Targets \ {cur} : disk'[u] = disk[u]
                                    /\ \A s \in Slots : disk'[<<u, s>>] = disk[<<u, s>>]
      BY <3>1, <3>3, PathFacts
    <3> HIDE DEF b
    <3> QED BY <2>3, <3>1, <3>4, <3>5, WayAt DEF ClearRename, Capturing
  <2>4. CASE ClearRelink
    <3>1. cur \in Targets /\ cur \in Paths /\ mem[cur].kind = "symlink" /\ pc = "relink"
          /\ disk' = [disk EXCEPT ![cur] = Link(mem[cur].id)] /\ UNCHANGED <<tree, led>>
      BY <2>4, PathFacts DEF ClearRelink, CommandPoint
    <3>2. ClearableIn(disk', cur, mem[cur], tree)
      BY <3>1 DEF ClearableIn
    <3> QED BY <1>e, <3>1, <3>2 DEF Capturing
  <2>5. CASE ClearOutput
    <3>1. cur \in Targets /\ cur \in Paths /\ mem[cur].kind = "directory" /\ pc = "restore"
          /\ disk' = [disk EXCEPT ![cur] = Absent] /\ UNCHANGED <<tree, led>>
          /\ Matches(disk[Backup(cur, mem[cur])], mem[cur])
      BY <2>5, PathFacts DEF ClearOutput, CommandPoint, RestoreStands
    <3>2. disk'[cur] = Absent /\ disk'[Backup(cur, mem[cur])] = disk[Backup(cur, mem[cur])]
      BY <3>1, PathFacts DEF DescriptorsWellFormed, WellFormed, Backup
    <3>3. ClearableIn(disk', cur, mem[cur], tree)
      BY <1>a, <3>1, <3>2 DEF ClearableIn, Matches
    <3> QED BY <1>e, <3>1, <3>3 DEF Capturing
  <2>6. ASSUME NEW t \in Targets, ClearToAbsent(t) \/ ClearUnlink(t) PROVE WayBack'
    <3>1. t \in Paths /\ mem[t].kind \in {"absent", "symlink"} /\ pc = "pick"
          /\ disk' = [disk EXCEPT ![t] = Absent] /\ UNCHANGED <<tree, led>>
      BY <2>6, PathFacts DEF ClearToAbsent, ClearUnlink, ClearPick, Pick
    <3>2. ClearableIn(disk', t, mem[t], tree)
      BY <3>1 DEF ClearableIn
    <3> QED BY <1>e, <3>1, <3>2 DEF Capturing
  <2>7. ASSUME NEW t \in Targets,
               ClearUnrecorded(t) \/ ClearInPlace(t) \/ ClearIdentify(t) \/ ClearRefused(t)
        PROVE  WayBack'
    BY <2>7, <1>s DEF ClearUnrecorded, ClearInPlace, ClearIdentify, ClearRefused
  <2> QED BY <1>2, <2>1, <2>2, <2>3, <2>4, <2>5, <2>6, <2>7 DEF ClearStep
<1>3. CASE Finish
  <2>1. CASE tree => tree'
    BY <1>3, <2>1, <1>s DEF Finish, ledger
  <2>2. CASE tree /\ ~tree'
    <3>1. \A t \in Targets : disk[t] # Projected
      BY <2>2, DropStep, CommandKeepsDrift DEF Quiet, CommandActs
    <3>2. disk' = disk /\ led' = led
      BY <1>3 DEF Finish, ledger
    <3> QED BY <3>1, <3>2 DEF WayBack, ClearableIn
  <2> QED BY <2>1, <2>2
<1>4. CASE (\E f \in BOOLEAN, S \in SUBSET Targets : StartApply(f, S) \/ StartClear(f, S))
           \/ Crash
  BY <1>4, <1>s DEF StartApply, StartClear, Crash, world, ledger
<1> QED BY <1>1, <1>2, <1>3, <1>4 DEF Quiet, CommandStep

(* Nobody touches what the user does not edit. *)
LEMMA TouchedStep == Quiet => touched' = {}
<1> SUFFICES ASSUME Quiet PROVE touched' = {}
  OBVIOUS
<1>1. touched = {}
  BY QuietParts
<1> QED BY <1>1 DEF Quiet, CommandStep, StartApply, StartClear, Finish, Crash,
    ApplyStep, BuildTree, SaveUnchanged, SaveCapture, SaveCaptureRaises,
    BackupSeen, Displace, BodyRefused, SaveDisplaced, SaveDisplacedRaises,
    PlaceReplace, PlaceKeep, WriteUnlink, WriteBackup, WriteLink, WriteCopy,
    WriteMarker, WriteDiscard, WriteKeeps, WriteInto, WriteEnds, ApplyCanonical,
    RecordCanonical, CaptureAbsent, CaptureSymlink, CaptureDirectory, CaptureTo,
    CaptureRefused, Resume, ClearStep, ClearRelink, SaveIdentity, ClearOutput, ClearRename,
    ClearStepRaises, SaveClear, SaveClearRaises, ClearUnrecorded, ClearInPlace,
    ClearToAbsent, ClearUnlink, ClearIdentify, ClearRefused, user

LEMMA UndisturbedStep == IInv /\ Clearing /\ Undisturbed /\ [Next]_vars => Undisturbed'
<1> SUFFICES ASSUME IInv, Clearing, Undisturbed, [Next]_vars, drift' = 0 PROVE Undisturbed'
  BY DEF Undisturbed
<1>1. CASE UNCHANGED vars
  BY <1>1 DEF vars, Undisturbed, Homes, TreeStands, AsFound, WayBack
<1>2. CASE UserStep
  <2>1. drift \in Nat /\ drift' = drift + 1
    BY <1>2 DEF UserStep, UserEdit, UserMove, UserCleans, UserActs, IInv, TypeOK
  <2> QED BY <2>1
<1>3. CASE CommandStep
  <2>1. Quiet
    BY <1>3, CommandKeepsDrift DEF Quiet
  <2> QED BY <2>1, TouchedStep, HomesStep, TreeStep, AsFoundStep, WayBackStep DEF Undisturbed
<1> QED BY <1>1, <1>2, <1>3 DEF Next

(* Undisturbed is inductive, given IInv and Clearing. *)
THEOREM UndisturbedInductive == Spec => []Undisturbed
<1>1. Init => Undisturbed
  <2> SUFFICES ASSUME Init PROVE Undisturbed
    OBVIOUS
  <2>1. touched = {} /\ TreeStands /\ AsFound
    <3>1. \A t \in Targets : disk[t] # Projected
      BY InitIInv DEF IInv, SceneOutputHasAuthority, SceneOutput, Authority, Init, NoDesc,
                     PlainDesc
    <3> QED BY <3>1 DEF Init, TreeStands, AsFound
  <2>2. Homes
    BY DEF Init, Homes, HomeIn, NoDesc, PlainDesc
  <2>3. WayBack
    BY DEF Init, WayBack, ClearableIn, NoDesc, PlainDesc
  <2> QED BY <2>1, <2>2, <2>3 DEF Undisturbed
<1> QED BY Inductive, ClearingInductive, UndisturbedStep, <1>1, PTL DEF Spec

(* While the user edits nothing, after any sequence of applies, clears,      *)
(* failed saves and crashes a plain clear would restore every recorded       *)
(* target that is linked.                                                    *)
THEOREM AlwaysAWayBack == Spec => []AlwaysClearable
<1>1. Undisturbed => AlwaysClearable
  <2> SUFFICES ASSUME Undisturbed, drift = 0, NEW t \in Targets \ CopyWriters PROVE Clearable(t)
    BY DEF AlwaysClearable
  <2>1. ClearableIn(disk, t, led[t], tree)
    BY DEF Undisturbed, WayBack
  <2> QED BY <2>1 DEF ClearableIn, Clearable, PointsAtProjection
<1> QED BY <1>1, UndisturbedInductive, PTL

(* While the user edits nothing, no step of crossby takes a recorded         *)
(* baseline off the disk, whatever tool it works on.                         *)
THEOREM BaselineSurvives == Spec => BaselineSurvivesUndisturbed
<1> DEFINE Survives == drift' = 0 => \A t \in Targets :
      led[t].kind = "directory" /\ OnDisk(led[t].id)
        => (\E p \in Paths : Matches(disk'[p], led[t]))
<1>1. IInv /\ Clearing /\ Undisturbed /\ [Next]_vars => [Survives]_vars
  <2> SUFFICES ASSUME IInv, Clearing, Undisturbed, Next, drift' = 0,
                      NEW t \in Targets, led[t].kind = "directory",
                      NEW p \in Paths, Matches(disk[p], led[t])
               PROVE  \E q \in Paths : Matches(disk'[q], led[t])
    BY DEF vars, OnDisk, Matches
  <2> DEFINE Stands == \E q \in Paths : Matches(disk'[q], led[t])
  <2> SUFFICES Stands
    OBVIOUS
  <2>u. CommandStep
    <3>1. CASE UserStep
      <4>1. drift \in Nat /\ drift' = drift + 1
        BY <3>1 DEF UserStep, UserEdit, UserMove, UserCleans, UserActs, IInv, TypeOK
      <4> QED BY <4>1
    <3> QED BY <3>1 DEF Next
  <2>q. Quiet
    BY <2>u, CommandKeepsDrift DEF Quiet
  <2> TypeOK /\ Homes /\ AsFound /\ RestoreStands /\ CommandPoint /\ DescriptorsWellFormed
      /\ MemAgrees /\ touched = {}
    BY <2>q, QuietParts
  <2> USE DEF TypeOK
  <2>0. CASE disk' = disk
    BY <2>0
  <2>a. ~IsDir(Absent) /\ IsDir(disk[p]) /\ disk[p].id = led[t].id
    BY DEF IsDir, DirKinds, Absent, Matches
  <2>p. ASSUME NEW c \in Paths, NEW e, disk' = [disk EXCEPT ![c] = e], ~IsDir(disk[c])
        PROVE  Stands
    <3>1. p # c /\ disk'[p] = disk[p]
      BY <2>p, <2>a
    <3> QED BY <3>1
  <2>m. ASSUME NEW q \in Paths, NEW r \in Paths, q # r, ~IsDir(disk[q]),
               disk' = [disk EXCEPT ![q] = disk[r], ![r] = Absent]
        PROVE  Stands
    <3>1. disk'[q] = disk[r] /\ \A x \in Paths \ {q, r} : disk'[x] = disk[x]
      BY <2>m
    <3>2. p # q
      BY <2>a, <2>m
    <3> QED BY <3>1, <3>2
  <2>b. pc \in {"body", "rename"} /\ mem[cur].kind = "directory"
          => Backup(cur, mem[cur]) \in Paths \ Targets /\ cur \in Targets
    BY PathFacts DEF DescriptorsWellFormed, WellFormed, Backup
  <2>c. pc \notin {"idle", "tree", "pick"} => cur \in Paths /\ cur \in Targets
    BY PathFacts
  <2>h. ASSUME NEW c \in Targets, Matches(disk[c], led[t]) PROVE c = t
    <3>1. HomeIn(disk, t, led[t])
      BY DEF Homes
    <3> QED BY <2>h, <3>1, PathFacts DEF HomeIn, Owner
  <2> HIDE DEF Stands
  <2>1. CASE ApplyStep
    <3>1. CASE Displace
      <4>1. disk' = [disk EXCEPT ![Backup(cur, mem[cur])] = disk[cur], ![cur] = Absent]
        BY <3>1 DEF Displace
      <4>2. cur \in Paths /\ Backup(cur, mem[cur]) \in Paths /\ cur # Backup(cur, mem[cur])
            /\ ~IsDir(disk[Backup(cur, mem[cur])])
        BY <3>1, <2>a, <2>b, PathFacts DEF Displace
      <4> QED BY <4>1, <4>2, <2>m
    <3>2. CASE WriteBackup \/ WriteDiscard
      BY <3>2 DEF WriteBackup, WriteDiscard, AsFound
    <3>3. CASE WriteUnlink \/ WriteLink \/ WriteCopy
      <4>1. ~IsDir(disk[cur]) /\ cur \in Paths /\ \E e : disk' = [disk EXCEPT ![cur] = e]
        BY <3>3, <2>a, <2>c DEF WriteUnlink, WriteLink, WriteCopy
      <4>2. PICK e : disk' = [disk EXCEPT ![cur] = e]
        BY <4>1
      <4> QED BY <4>1, <4>2, <2>p
    <3>4. CASE WriteMarker /\ IsDir(disk[cur])
      <4> DEFINE e == [kind |-> "marked", id |-> disk[cur].id]
      <4>1. disk' = [disk EXCEPT ![cur] = e] /\ cur \in Paths /\ IsDir(e) /\ e.id = disk[cur].id
        BY <3>4, <2>c DEF WriteMarker, IsDir, DirKinds
      <4> HIDE DEF e
      <4>2. disk'[cur] = e /\ (p # cur => disk'[p] = disk[p])
        BY <4>1
      <4>3. Matches(disk'[p], led[t])
        BY <4>1, <4>2, <2>a DEF Matches
      <4> QED BY <4>3 DEF Stands
    <3> QED BY <2>0, <2>1, <3>1, <3>2, <3>3, <3>4
        DEF ApplyStep, BuildTree, SaveUnchanged, SaveCapture, SaveCaptureRaises,
          BackupSeen, BodyRefused, SaveDisplaced, SaveDisplacedRaises,
          PlaceReplace, PlaceKeep, WriteKeeps, WriteInto, WriteMarker, WriteEnds,
          ApplyCanonical, RecordCanonical, CaptureAbsent, CaptureSymlink, CaptureDirectory,
          CaptureTo, CaptureRefused, Resume, world, Stands
  <2>2. CASE ClearStep
    <3>1. CASE ClearRename
      <4>1. disk' = [disk EXCEPT ![cur] = disk[Backup(cur, mem[cur])],
                                 ![Backup(cur, mem[cur])] = Absent]
            /\ disk[cur] = Absent
        BY <3>1 DEF ClearRename, RestoreStands
      <4>2. cur \in Paths /\ Backup(cur, mem[cur]) \in Paths /\ cur # Backup(cur, mem[cur])
        BY <3>1, <2>b, PathFacts DEF ClearRename, CommandPoint
      <4> QED BY <4>1, <4>2, <2>a, <2>m
    <3>2. CASE ClearRelink
      BY <3>2, <2>a, <2>c, <2>p DEF ClearRelink
    <3>3. CASE ClearOutput
      <4>1. cur \in Targets /\ pc = "restore" /\ mem[cur].kind = "directory"
            /\ disk' = [disk EXCEPT ![cur] = Absent]
            /\ Matches(disk[Backup(cur, mem[cur])], mem[cur])
            /\ Backup(cur, mem[cur]) \in Paths \ Targets
        BY <3>3, PathFacts
           DEF ClearOutput, CommandPoint, RestoreStands, DescriptorsWellFormed, WellFormed, Backup
      <4>2. CASE p = cur
        <5>1. cur = t
          BY <2>h, <4>1, <4>2
        <5>2. mem[t].id = led[t].id
          BY <4>1, <5>1, AdvanceNames DEF MemAgrees, Capturing
        <5>3. disk'[Backup(cur, mem[cur])] = disk[Backup(cur, mem[cur])]
          BY <4>1, PathFacts
        <5>4. Matches(disk'[Backup(cur, mem[cur])], led[t])
          BY <4>1, <5>1, <5>2, <5>3 DEF Matches
        <5> QED BY <4>1, <5>4 DEF Stands
      <4>3. CASE p # cur
        <5>1. disk'[p] = disk[p]
          BY <4>1, <4>3
        <5> QED BY <5>1 DEF Stands
      <4> QED BY <4>2, <4>3
    <3>4. ASSUME NEW c \in Targets, ClearToAbsent(c) \/ ClearUnlink(c) PROVE Stands
      <4>1. pc = "pick" /\ mem[c].kind \in {"absent", "symlink"}
            /\ disk' = [disk EXCEPT ![c] = Absent]
        BY <3>4 DEF ClearToAbsent, ClearUnlink, ClearPick, Pick
      <4>2. led[c].kind = mem[c].kind
        BY <4>1, AdvanceNames DEF MemAgrees, Capturing
      <4>3. p # c
        BY <2>h, <4>1, <4>2
      <4>4. disk'[p] = disk[p]
        BY <4>1, <4>3
      <4> QED BY <4>4 DEF Stands
    <3> QED BY <2>0, <2>2, <3>1, <3>2, <3>3, <3>4
        DEF ClearStep, SaveIdentity, ClearStepRaises, SaveClear, SaveClearRaises,
          ClearUnrecorded, ClearInPlace, ClearIdentify, ClearRefused, world, Stands
  <2>3. CASE (\E f \in BOOLEAN, S \in SUBSET Targets : StartApply(f, S) \/ StartClear(f, S))
             \/ Finish \/ Crash
    BY <2>0, <2>3 DEF StartApply, StartClear, Finish, Crash, world, Stands
  <2> QED BY <2>u, <2>1, <2>2, <2>3 DEF CommandStep, Stands
<1> QED BY <1>1, Inductive, ClearingInductive, UndisturbedInductive, PTL
       DEF Spec, BaselineSurvivesUndisturbed
=============================================================================
