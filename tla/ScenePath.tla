----------------------------- MODULE ScenePath -----------------------------
(***************************************************************************)
(* The PROJECT half of the scene engine: how `crossby scene use` displaces *)
(* a tool's skills/agents directory, points it at the scene projection,    *)
(* and how `crossby scene clear` puts the exact baseline back.             *)
(*                                                                         *)
(* The disk and the saved ownership ledger survive a crash; the in-memory  *)
(* ledger and the position of the running command do not.  Every durable   *)
(* write (a ledger save, a rename, an unlink, a symlink, a mkdir) is an    *)
(* action of its own, so a crash, a failed save or an edit by the user can *)
(* fall between any two of them.                                           *)
(***************************************************************************)
EXTENDS Naturals, FiniteSets

CONSTANTS
    Targets,      \* tool directories a scene re-points (.agents/skills, ...)
    Slots,        \* the sibling backup names of a target (.bak, .bak2, ...)
    UserDirs,     \* inodes of real directories the user (or a sync) made
    SceneDirs,    \* inodes of directories a scene writer materialises
    UserLinks,    \* literal destinations of the user's own symlinks
    SceneLink,    \* the literal destination inside .crossby/scene
    Nil,
    CopyWriters,  \* targets whose writer materialises a marked directory
    Source,       \* the canonical source among the targets, or Nil
    MaxDrift      \* bound: edits the user makes in one behaviour

Ids == UserDirs \cup SceneDirs \cup UserLinks \cup {SceneLink, Nil}

ASSUME ScenePathAssumption ==
    /\ Targets \cap (Targets \X Slots) = {}
    /\ Nil \notin Targets /\ Nil \notin Slots
    /\ UserDirs \cap SceneDirs = {}
    /\ (UserDirs \cup SceneDirs) \cap (UserLinks \cup {SceneLink, Nil}) = {}
    /\ SceneLink \notin UserLinks /\ Nil \notin UserLinks /\ SceneLink # Nil
    /\ CopyWriters \subseteq Targets
    /\ MaxDrift \in Nat

VARIABLES
    disk,     \* path |-> what is there: a target or one of its backup names
    tree,     \* the projection .crossby/scene/active exists
    led,      \* scene_paths of .crossby/owned.json, as saved
    mem,      \* scene_paths of the running command's OwnershipLedger
    pc,       \* where the running command is ("idle": no command runs)
    op,       \* "apply" or "clear"
    force,    \* --force
    scope,    \* the targets of the tools the command was given
    todo,     \* targets the command has not reached
    cur,      \* the target it is working on
    bak,      \* the backup name its writer has copied a directory to
    held,     \* the descriptor clear keeps to re-record if its save fails
    failed,   \* a restore of this clear returned an error row
    drift,    \* number of user edits so far
    touched   \* targets the user edited since the running command started, or
              \* since its writer copied them to a backup

world  == <<disk, tree>>
ledger == <<led, mem>>
ctl    == <<op, force, scope, bak>>
loop   == <<todo, cur, held, failed>>
user   == <<drift, touched>>
vars   == <<disk, tree, led, mem, pc, op, force, scope, bak, todo, cur, held,
            failed, drift, touched>>

-----------------------------------------------------------------------------
(* What a path can hold.  A real directory is empty, full (user content, no *)
(* marker) or marked (.crossby-managed); its id is its device and inode.    *)

Paths    == Targets \cup (Targets \X Slots)
DirKinds == {"empty", "full", "marked"}
Absent   == [kind |-> "absent", id |-> Nil]
File     == [kind |-> "file", id |-> Nil]
Link(l)  == [kind |-> "link", id |-> l]
IsDir(e) == e.kind \in DirKinds
Entry    == {Absent, File}
              \cup [kind : {"link"}, id : UserLinks \cup {SceneLink}]
              \cup [kind : DirKinds, id : UserDirs \cup SceneDirs]
Projected == Link(SceneLink)

OnDisk(d) == \E p \in Paths : IsDir(disk[p]) /\ disk[p].id = d
Free(t)   == {s \in Slots : disk[<<t, s>>] = Absent}

(* ScenePathRestore *)
DescKinds == {"none", "absent", "symlink", "directory", "unchanged"}
Desc == [kind : DescKinds, id : Ids, slot : Slots \cup {Nil},
         displaced : BOOLEAN]
PlainDesc(k, i) == [kind |-> k, id |-> i, slot |-> Nil, displaced |-> FALSE]
NoDesc == PlainDesc("none", Nil)
UnchangedDesc == PlainDesc("unchanged", Nil)
AbsentDesc == PlainDesc("absent", Nil)
SymlinkDesc(l) == PlainDesc("symlink", l)
DirectoryDesc(s, i) ==
    [kind |-> "directory", id |-> i, slot |-> s, displaced |-> FALSE]

(* with_directory_displaced *)
Displaced(d) == [kind |-> d.kind, id |-> d.id, slot |-> d.slot, displaced |-> TRUE]

Backup(t, d) == <<t, d.slot>>

(* _matches_recorded_directory_identity *)
Matches(e, d) == IsDir(e) /\ e.id = d.id

(* tool_points_at_projection: the link must resolve, so the tree must exist *)
PointsAtProjection(t) == disk[t] = Projected /\ tree

(* _recorded_non_directory_baseline_is_intact *)
Intact(t, d) ==
    \/ d.kind = "absent" /\ disk[t] = Absent
    \/ d.kind = "symlink" /\ disk[t] = Link(d.id)

(* _validate_scene_output_removal: what a clear may remove from a target *)
Removable(t) ==
    \/ disk[t].kind = "link" /\ (force \/ PointsAtProjection(t))
    \/ disk[t].kind = "marked"

(* The path comparison of _validate_restore_one_path for a directory. *)
RestoreAuthentic(t, d) ==
    IF disk[Backup(t, d)] = Absent
    THEN Matches(disk[t], d)
    ELSE Matches(disk[Backup(t, d)], d)
         /\ (disk[t] = Absent \/ Removable(t))

InitialEntries ==
    {Absent, File}
      \cup {Link(l) : l \in UserLinks}
      \cup [kind : DirKinds, id : UserDirs]

Init ==
    /\ \E d \in [Targets -> InitialEntries] :
         disk = [p \in Paths |-> IF p \in Targets THEN d[p] ELSE Absent]
    /\ \A p, q \in Paths :
         IsDir(disk[p]) /\ IsDir(disk[q]) /\ disk[p].id = disk[q].id => p = q
    /\ tree = FALSE
    /\ led = [t \in Targets |-> NoDesc]
    /\ mem = [t \in Targets |-> NoDesc]
    /\ pc = "idle" /\ op = "apply" /\ force = FALSE /\ scope = {}
    /\ bak = Nil /\ todo = {} /\ cur = Nil /\ held = NoDesc /\ failed = FALSE
    /\ drift = 0 /\ touched = {}

-----------------------------------------------------------------------------
(* One command.  A command loads the ledger once and saves all of it.       *)

(* Go on with the next target: the row of the current one is reported. *)
NextTarget ==
    /\ pc' = "pick" /\ todo' = todo \ {cur} /\ cur' = Nil /\ held' = NoDesc

(* An exception leaves the command; a crash does the same to its state. *)
Abort ==
    /\ pc' = "idle" /\ todo' = {} /\ cur' = Nil /\ held' = NoDesc
    /\ failed' = FALSE

(* apply_scene: _context loads the ledger, then the target paths. *)
StartApply(f, S) ==
    /\ pc = "idle" /\ S # {}
    /\ op' = "apply" /\ force' = f /\ scope' = S /\ todo' = S /\ bak' = Nil
    /\ mem' = led /\ pc' = "tree" /\ touched' = {} /\ failed' = FALSE
    /\ UNCHANGED <<world, led, cur, held, drift>>

(* clear_scene: an unscoped clear has every target in scope. *)
StartClear(f, S) ==
    /\ pc = "idle" /\ S # {}
    /\ op' = "clear" /\ force' = f /\ scope' = S /\ todo' = S /\ bak' = Nil
    /\ mem' = led /\ pc' = "pick" /\ touched' = {} /\ failed' = FALSE
    /\ UNCHANGED <<world, led, cur, held, drift>>

(* materialise_tree runs before the first re-point. *)
BuildTree ==
    /\ pc = "tree"
    /\ tree' = TRUE /\ pc' = "pick"
    /\ UNCHANGED <<disk, ledger, ctl, loop, user>>

Crash ==
    /\ pc # "idle"
    /\ Abort
    /\ UNCHANGED <<world, ledger, ctl, user>>

-----------------------------------------------------------------------------
(* _repoint_path: the apply side of one target.                             *)

Pick(t) == pc = "pick" /\ t \in todo
ApplyPick(t) == op = "apply" /\ Pick(t)

(* The recorded canonical source is skipped whatever the disk looks like. *)
ApplyCanonical(t) ==
    /\ ApplyPick(t) /\ mem[t].kind = "unchanged"
    /\ todo' = todo \ {t}
    /\ UNCHANGED <<world, ledger, pc, ctl, cur, held, failed, user>>

RecordCanonical(t) ==
    /\ ApplyPick(t) /\ t = Source /\ mem[t].kind = "none"
    /\ mem' = [mem EXCEPT ![t] = UnchangedDesc]
    /\ cur' = t /\ pc' = "saveUnchanged"
    /\ UNCHANGED <<world, led, ctl, todo, held, failed, user>>

(* Mutant: an existing record is captured again. *)
CaptureAgain(t, d) ==
    /\ ApplyPick(t) /\ t # Source
    /\ mem' = [mem EXCEPT ![t] = d]
    /\ cur' = t /\ pc' = "saveCapture"
    /\ UNCHANGED <<world, led, ctl, todo, held, failed, user>>

(* _capture_path_baseline up to its save. *)
CaptureTo(t, d) ==
    /\ ApplyPick(t) /\ t # Source /\ mem[t].kind = "none"
    /\ mem' = [mem EXCEPT ![t] = d]
    /\ cur' = t /\ pc' = "saveCapture"
    /\ UNCHANGED <<world, led, ctl, todo, held, failed, user>>

CaptureAbsent(t) == disk[t] = Absent /\ CaptureTo(t, AbsentDesc)

CaptureSymlink(t) ==
    /\ disk[t].kind = "link" /\ disk[t] # Projected
    /\ CaptureTo(t, SymlinkDesc(disk[t].id))

CaptureDirectory(t) ==
    /\ disk[t].kind \in {"empty", "marked"} \/ (disk[t].kind = "full" /\ force)
    /\ \E s \in Free(t) : CaptureTo(t, DirectoryDesc(s, disk[t].id))

CaptureRefused(t) ==
    /\ ApplyPick(t) /\ t # Source /\ mem[t].kind = "none"
    /\ \/ disk[t] = Projected \/ disk[t].kind = "file"
       \/ disk[t].kind = "full" /\ ~force
    /\ todo' = todo \ {t}
    /\ UNCHANGED <<world, ledger, pc, ctl, cur, held, failed, user>>

(* save_ledger: the whole in-memory ledger replaces the file, atomically. *)
Save(at) == pc = at /\ led' = mem
SaveRaises(at) == pc = at /\ UNCHANGED led

SaveUnchanged ==
    /\ Save("saveUnchanged") /\ NextTarget
    /\ UNCHANGED <<world, mem, ctl, failed, user>>

(* Mutant: the record is left for a later save. *)
SaveCaptureLater ==
    /\ pc = "saveCapture" /\ pc' = "body"
    /\ UNCHANGED <<world, ledger, ctl, loop, user>>

SaveCapture ==
    /\ Save("saveCapture") /\ pc' = "body"
    /\ UNCHANGED <<world, mem, ctl, loop, user>>

(* Neither save is inside _repoint_path's handler: apply_scene is left. *)
SaveCaptureRaises ==
    /\ SaveRaises("saveCapture") \/ SaveRaises("saveUnchanged")
    /\ Abort
    /\ UNCHANGED <<world, mem, ctl, user>>

Resume(t) ==
    /\ ApplyPick(t) /\ mem[t].kind \in {"absent", "symlink", "directory"}
    /\ cur' = t /\ pc' = "body"
    /\ UNCHANGED <<world, ledger, ctl, todo, held, failed, user>>

(* Directory baseline, backup already there: an earlier displacement landed *)
(* although its record may not have.                                        *)
BackupSeen ==
    /\ pc = "body" /\ mem[cur].kind = "directory"
    /\ Matches(disk[Backup(cur, mem[cur])], mem[cur])
    /\ IF mem[cur].displaced
       THEN pc' = "place" /\ UNCHANGED mem
       ELSE /\ mem' = [mem EXCEPT ![cur] = Displaced(mem[cur])]
            /\ pc' = "saveSeen"
    /\ UNCHANGED <<world, led, ctl, loop, user>>

(* Mutant: moved to the name that is free now, not to the recorded one. *)
DisplaceElsewhere ==
    /\ pc = "body" /\ mem[cur].kind = "directory" /\ ~mem[cur].displaced
    /\ Matches(disk[cur], mem[cur])
    /\ \E s \in Free(cur) :
         disk' = [disk EXCEPT ![<<cur, s>>] = disk[cur], ![cur] = Absent]
    /\ mem' = [mem EXCEPT ![cur] = Displaced(mem[cur])]
    /\ pc' = "saveMoved"
    /\ UNCHANGED <<tree, led, ctl, loop, user>>

(* Directory baseline, still in place: displace_directory's os.replace. *)
Displace ==
    /\ pc = "body" /\ mem[cur].kind = "directory" /\ ~mem[cur].displaced
    /\ disk[Backup(cur, mem[cur])] = Absent
    /\ Matches(disk[cur], mem[cur])
    /\ disk' = [disk EXCEPT ![Backup(cur, mem[cur])] = disk[cur],
                            ![cur] = Absent]
    /\ mem' = [mem EXCEPT ![cur] = Displaced(mem[cur])]
    /\ pc' = "saveMoved"
    /\ UNCHANGED <<tree, led, ctl, loop, user>>

(* The backup is not the baseline and the target cannot be displaced: it was *)
(* displaced before, it is not the baseline either, or the rename raised.   *)
BodyRefused ==
    /\ pc = "body" /\ mem[cur].kind = "directory"
    /\ ~Matches(disk[Backup(cur, mem[cur])], mem[cur])
    /\ NextTarget
    /\ UNCHANGED <<world, ledger, ctl, failed, user>>

SaveDisplaced ==
    /\ \/ Save("saveSeen") /\ pc' = "place"
       \/ Save("saveMoved") /\ pc' = "placeMoved"
    /\ UNCHANGED <<world, mem, ctl, loop, user>>

(* An OSError here is an error row; mem keeps displaced for a later save. *)
SaveDisplacedRaises ==
    /\ SaveRaises("saveSeen") \/ SaveRaises("saveMoved")
    /\ NextTarget
    /\ UNCHANGED <<world, mem, ctl, failed, user>>

(* repoint(force=True) is authorised for the target as it is now. *)
MayReplace ==
    IF mem[cur].kind = "directory"
    THEN /\ \/ disk[cur] = Absent
            \/ force /\ ~PointsAtProjection(cur)
         /\ pc = "place" => ~IsDir(disk[cur])
    ELSE Intact(cur, mem[cur])

Writing == {"write", "discard", "cleared", "create", "mark"}

AtPlace ==
    \/ pc \in {"place", "placeMoved"}
    \/ pc = "body" /\ mem[cur].kind # "directory"

PlaceReplace ==
    /\ AtPlace /\ MayReplace
    /\ pc' = "write"
    /\ UNCHANGED <<world, ledger, ctl, loop, user>>

(* An active output is re-synced in place, drift is reported: neither       *)
(* changes what is at the target.                                           *)
PlaceKeep ==
    /\ AtPlace /\ ~MayReplace
    /\ NextTarget
    /\ UNCHANGED <<world, ledger, ctl, failed, user>>

(* The writer of run_sync, under force.  A directory that appeared since    *)
(* the check is copied to a free backup name, then removed.                 *)

(* Mutant: nothing is copied. *)
WriteBackupRemoves ==
    /\ pc = "write" /\ tree /\ IsDir(disk[cur])
    /\ bak' \in Free(cur)
    /\ touched' = touched \ {cur} /\ pc' = "discard"
    /\ UNCHANGED <<world, ledger, op, force, scope, loop, drift>>

WriteBackup ==
    /\ pc = "write" /\ tree /\ IsDir(disk[cur])
    /\ \E s \in Free(cur), i \in {d \in UserDirs : ~OnDisk(d)} :
         /\ disk' = [disk EXCEPT ![<<cur, s>>] = [kind |-> disk[cur].kind, id |-> i]]
         /\ bak' = s
    /\ touched' = touched \ {cur} /\ pc' = "discard"
    /\ UNCHANGED <<tree, ledger, op, force, scope, loop, drift>>

(* safe_rmtree removes what is at the target by now. *)
WriteDiscard ==
    /\ pc = "discard"
    /\ disk' = [disk EXCEPT ![cur] = Absent]
    /\ pc' = "cleared"
    /\ UNCHANGED <<tree, ledger, ctl, loop, user>>

(* A writer that makes a directory keeps one that is empty or marked. *)
WriteKeeps ==
    /\ pc = "write" /\ tree /\ cur \in CopyWriters
    /\ disk[cur].kind \in {"empty", "marked"}
    /\ pc' = "mark"
    /\ UNCHANGED <<world, ledger, ctl, loop, user>>

(* A link or a file in the way is unlinked. *)
WriteUnlink ==
    /\ pc \in {"write", "cleared"} /\ (pc = "write" => tree)
    /\ ~IsDir(disk[cur]) /\ disk[cur] # Projected
    /\ disk' = [disk EXCEPT ![cur] = Absent]
    /\ pc' = "create"
    /\ UNCHANGED <<tree, ledger, ctl, loop, user>>

(* os.symlink, *)
WriteLink ==
    /\ pc = "create" /\ disk[cur] = Absent /\ cur \notin CopyWriters
    /\ disk' = [disk EXCEPT ![cur] = Projected]
    /\ NextTarget
    /\ UNCHANGED <<tree, ledger, ctl, failed, user>>

(* or mkdir and the files, with the marker a write of its own. *)
WriteCopy ==
    /\ pc = "create" /\ disk[cur] = Absent /\ cur \in CopyWriters
    /\ \E i \in {d \in SceneDirs : ~OnDisk(d)}, k \in {"empty", "full"} :
         disk' = [disk EXCEPT ![cur] = [kind |-> k, id |-> i]]
    /\ pc' = "mark"
    /\ UNCHANGED <<tree, ledger, ctl, loop, user>>

(* A directory got there first: mkdir accepts it, os.symlink raises and the *)
(* fallback copies into it.                                                 *)
WriteInto ==
    /\ pc = "create" /\ IsDir(disk[cur])
    /\ pc' = "mark"
    /\ UNCHANGED <<world, ledger, ctl, loop, user>>

(* write_managed_marker: nothing to mark once the directory is gone. *)
WriteMarker ==
    /\ pc = "mark"
    /\ disk' = IF IsDir(disk[cur])
               THEN [disk EXCEPT ![cur] = [kind |-> "marked", id |-> disk[cur].id]]
               ELSE disk
    /\ NextTarget
    /\ UNCHANGED <<tree, ledger, ctl, failed, user>>

(* Nothing to do, or a step of the writer raised: a row, not an exception. *)
WriteEnds ==
    /\ pc \in Writing
    /\ NextTarget
    /\ UNCHANGED <<world, ledger, ctl, failed, user>>

-----------------------------------------------------------------------------
(* _restore_paths: the clear side of one target.                            *)

ClearPick(t) == op = "clear" /\ Pick(t)

(* The exact baseline is back: drop the descriptor in memory, then save. *)
Restored(t) ==
    /\ mem' = [mem EXCEPT ![t] = NoDesc]
    /\ held' = mem[t] /\ cur' = t /\ pc' = "saveClear"

RestoreFails ==
    /\ NextTarget /\ failed' = TRUE

(* No descriptor: nothing to restore, or an activation no record explains. *)
ClearUnrecorded(t) ==
    /\ ClearPick(t) /\ mem[t].kind = "none"
    /\ todo' = todo \ {t}
    /\ failed' = (failed \/ disk[t] = Projected \/ disk[t].kind = "marked")
    /\ UNCHANGED <<world, ledger, pc, ctl, cur, held, user>>

(* Mutant: a missing backup alone counts as restored. *)
ClearInPlaceLoose(t) ==
    /\ ClearPick(t)
    /\ \/ mem[t].kind = "unchanged"
       \/ Intact(t, mem[t])
       \/ mem[t].kind = "directory" /\ disk[Backup(t, mem[t])] = Absent
    /\ Restored(t)
    /\ UNCHANGED <<world, led, ctl, todo, failed, user>>

(* Nothing to change on disk: the canonical source, a baseline that is in   *)
(* place, a directory whose rename an interrupted clear already made.       *)
ClearInPlace(t) ==
    /\ ClearPick(t)
    /\ \/ mem[t].kind = "unchanged"
       \/ Intact(t, mem[t])
       \/ /\ mem[t].kind = "directory"
          /\ disk[Backup(t, mem[t])] = Absent
          /\ Matches(disk[t], mem[t])
    /\ Restored(t)
    /\ UNCHANGED <<world, led, ctl, todo, failed, user>>

(* Mutants: whatever the baseline, what is at the target is scene output;   *)
(* only a link is removed.                                                  *)
ClearToAbsentAny(t) ==
    /\ ClearPick(t) /\ mem[t].kind # "none"
    /\ Removable(t)
    /\ disk' = [disk EXCEPT ![t] = Absent]
    /\ Restored(t)
    /\ UNCHANGED <<tree, led, ctl, todo, failed, user>>

ClearToAbsent(t) ==
    /\ ClearPick(t) /\ mem[t].kind = "absent"
    /\ Removable(t)
    /\ disk' = [disk EXCEPT ![t] = Absent]
    /\ Restored(t)
    /\ UNCHANGED <<tree, led, ctl, todo, failed, user>>

ClearUnlink(t) ==
    /\ ClearPick(t) /\ mem[t].kind = "symlink" /\ ~Intact(t, mem[t])
    /\ disk[t] = Absent \/ Removable(t)
    /\ disk' = [disk EXCEPT ![t] = Absent]
    /\ cur' = t /\ pc' = "relink"
    /\ UNCHANGED <<tree, ledger, ctl, todo, held, failed, user>>

(* os.symlink raises if the user was faster. *)
ClearRelink ==
    /\ pc = "relink" /\ disk[cur] = Absent
    /\ disk' = [disk EXCEPT ![cur] = Link(mem[cur].id)]
    /\ Restored(cur)
    /\ UNCHANGED <<tree, led, ctl, todo, failed, user>>

(* The identity is saved before the rename. *)
ClearIdentify(t) ==
    /\ ClearPick(t) /\ mem[t].kind = "directory"
    /\ disk[Backup(t, mem[t])] # Absent /\ RestoreAuthentic(t, mem[t])
    /\ cur' = t /\ pc' = "saveIdentity"
    /\ UNCHANGED <<world, ledger, ctl, todo, held, failed, user>>

SaveIdentity ==
    /\ Save("saveIdentity") /\ pc' = "restore"
    /\ UNCHANGED <<world, mem, ctl, loop, user>>

(* The second validation, and the removal of the scene's output. *)
ClearOutput ==
    /\ pc = "restore" /\ RestoreAuthentic(cur, mem[cur])
    /\ disk[cur] = Absent \/ Removable(cur)
    /\ disk' = [disk EXCEPT ![cur] = Absent]
    /\ pc' = "rename"
    /\ UNCHANGED <<tree, ledger, ctl, loop, user>>

(* os.replace(backup, target): rename(2) takes the place of nothing or of   *)
(* an empty directory.                                                      *)
Renameable ==
    /\ IsDir(disk[Backup(cur, mem[cur])])
    /\ disk[cur] = Absent \/ disk[cur].kind = "empty"

ClearRename ==
    /\ pc = "rename" /\ Renameable
    /\ disk' = [disk EXCEPT ![cur] = disk[Backup(cur, mem[cur])],
                            ![Backup(cur, mem[cur])] = Absent]
    /\ Restored(cur)
    /\ UNCHANGED <<tree, led, ctl, todo, failed, user>>

(* The first validation raised: the descriptor stays. *)
ClearRefused(t) ==
    /\ ClearPick(t)
    /\ \/ mem[t].kind = "absent" /\ disk[t] # Absent /\ ~Removable(t)
       \/ /\ mem[t].kind = "symlink" /\ ~Intact(t, mem[t])
          /\ disk[t] # Absent /\ ~Removable(t)
       \/ mem[t].kind = "directory" /\ ~RestoreAuthentic(t, mem[t])
    /\ todo' = todo \ {t} /\ failed' = TRUE
    /\ UNCHANGED <<world, ledger, pc, ctl, cur, held, user>>

(* So it does when a later one, the removal, the symlink or the rename does. *)
ClearStepRaises ==
    /\ SaveRaises("saveIdentity") \/ pc \in {"relink", "restore", "rename"}
    /\ RestoreFails
    /\ UNCHANGED <<world, ledger, ctl, user>>

SaveClear ==
    /\ Save("saveClear") /\ NextTarget
    /\ UNCHANGED <<world, mem, ctl, failed, user>>

(* The save failed: the in-memory ledger gets its descriptor back. *)
SaveClearRaises ==
    /\ SaveRaises("saveClear")
    /\ mem' = [mem EXCEPT ![cur] = held]
    /\ RestoreFails
    /\ UNCHANGED <<world, ctl, user>>

(* Mutant: only the targets of this clear are asked for. *)
MayDropTreeScoped == op = "clear" /\ ~failed

(* _should_clear_projection, then clear_projection. *)
MayDropTree ==
    /\ op = "clear" /\ ~failed
    /\ \A t \in Targets \ scope : ~PointsAtProjection(t)

Finish ==
    /\ pc = "pick" /\ todo = {}
    /\ tree' = (tree /\ ~MayDropTree)
    /\ Abort
    /\ UNCHANGED <<disk, ledger, ctl, user>>

-----------------------------------------------------------------------------
(* The user, at any moment: edit a target or a backup, put a backup back by *)
(* hand, or clean the gitignored projection away.                           *)

Owner(p) == IF p \in Targets THEN p ELSE p[1]

UserEntries ==
    {Absent, File}
      \cup {Link(l) : l \in UserLinks}
      \cup [kind : {"empty", "full"}, id : {d \in UserDirs : ~OnDisk(d)}]

UserActs(ts) == drift < MaxDrift /\ drift' = drift + 1 /\ touched' = touched \cup ts

UserEdit(p) ==
    /\ \E e \in UserEntries \ {disk[p]} : disk' = [disk EXCEPT ![p] = e]
    /\ UserActs({Owner(p)})
    /\ UNCHANGED <<tree, ledger, pc, ctl, loop>>

UserMove(t, s) ==
    /\ disk[t] = Absent /\ IsDir(disk[<<t, s>>])
    /\ disk' = [disk EXCEPT ![t] = disk[<<t, s>>], ![<<t, s>>] = Absent]
    /\ UserActs({t})
    /\ UNCHANGED <<tree, ledger, pc, ctl, loop>>

UserCleans ==
    /\ tree /\ tree' = FALSE
    /\ UserActs(Targets)
    /\ UNCHANGED <<disk, ledger, pc, ctl, loop>>

-----------------------------------------------------------------------------
ApplyStep ==
    \/ BuildTree \/ SaveUnchanged \/ SaveCapture \/ SaveCaptureRaises
    \/ BackupSeen \/ Displace \/ BodyRefused
    \/ SaveDisplaced \/ SaveDisplacedRaises
    \/ PlaceReplace \/ PlaceKeep
    \/ WriteBackup \/ WriteDiscard \/ WriteKeeps \/ WriteUnlink
    \/ WriteLink \/ WriteCopy \/ WriteInto \/ WriteMarker \/ WriteEnds
    \/ \E t \in Targets :
         \/ ApplyCanonical(t) \/ RecordCanonical(t)
         \/ CaptureAbsent(t) \/ CaptureSymlink(t) \/ CaptureDirectory(t)
         \/ CaptureRefused(t) \/ Resume(t)

ClearStep ==
    \/ ClearRelink \/ SaveIdentity \/ ClearOutput \/ ClearRename
    \/ ClearStepRaises \/ SaveClear \/ SaveClearRaises
    \/ \E t \in Targets :
         \/ ClearUnrecorded(t) \/ ClearInPlace(t) \/ ClearToAbsent(t)
         \/ ClearUnlink(t) \/ ClearIdentify(t) \/ ClearRefused(t)

CommandStep ==
    \/ \E f \in BOOLEAN, S \in SUBSET Targets : StartApply(f, S) \/ StartClear(f, S)
    \/ ApplyStep \/ ClearStep \/ Finish \/ Crash

UserStep ==
    \/ \E p \in Paths : UserEdit(p)
    \/ \E t \in Targets, s \in Slots : UserMove(t, s)
    \/ UserCleans

Next == CommandStep \/ UserStep

Spec == Init /\ [][Next]_vars

-----------------------------------------------------------------------------
(* Properties.                                                              *)

PCs == {"idle", "tree", "pick", "saveUnchanged", "saveCapture", "body",
        "saveSeen", "saveMoved", "place", "placeMoved", "relink",
        "saveIdentity", "restore", "rename", "saveClear"} \cup Writing

(* Type invariant: every variable holds a value of the shape the code      *)
(* gives it, and a command that works on a target has one.                 *)
TypeOK ==
    /\ disk \in [Paths -> Entry] /\ tree \in BOOLEAN
    /\ led \in [Targets -> Desc] /\ mem \in [Targets -> Desc]
    /\ pc \in PCs /\ op \in {"apply", "clear"} /\ force \in BOOLEAN
    /\ scope \subseteq Targets /\ todo \subseteq Targets /\ bak \in Slots \cup {Nil}
    /\ cur \in Targets \cup {Nil} /\ held \in Desc /\ failed \in BOOLEAN
    /\ drift \in Nat /\ touched \subseteq Targets
    /\ pc \notin {"idle", "tree", "pick"} => cur \in Targets

SceneOutput(e) == e = Projected \/ (IsDir(e) /\ e.id \in SceneDirs)
Authority(d) == d.kind \in {"absent", "symlink", "directory"}

(* Whatever the moment of a crash, a target that holds scene output has    *)
(* its baseline in the saved ledger: capture reaches the disk before the   *)
(* first replacement, and the descriptor outlives the output.              *)
SceneOutputHasAuthority ==
    \A t \in Targets : SceneOutput(disk[t]) => Authority(led[t])

CommandActs == drift' = drift
Full(d) == [kind |-> "full", id |-> d]

(* No step of crossby, in any interleaving with the user's own edits and   *)
(* with or without --force, removes an unmarked directory with content in  *)
(* it, except that a writer removes what is at its target after it has     *)
(* copied it; the copy still stands then, unless the user was there since. *)
UserContentSurvives ==
    [][CommandActs => \A d \in UserDirs :
         (\E p \in Paths : disk[p] = Full(d))
           => \/ \E p \in Paths : IsDir(disk'[p]) /\ disk'[p].id = d
              \/ /\ pc = "discard" /\ disk[cur] = Full(d)
                 /\ cur \in touched \/ disk[<<cur, bak>>].kind = "full"]_vars

(* The directory a saved descriptor names as the baseline is never removed *)
(* by crossby, marked or empty as it may be ("The baseline itself is never *)
(* replaceable", record_scene_restore_directory_identity).                 *)
RecordedBaselineSurvives ==
    [][CommandActs => \A t \in Targets :
         led[t].kind = "directory" /\ OnDisk(led[t].id)
           => (\E p \in Paths : Matches(disk'[p], led[t]))]_vars

(* While the user edits nothing no step of crossby, --force or not, takes   *)
(* the recorded baseline off the disk: what a writer, a clear or a rename   *)
(* removes or replaces is never the directory a descriptor of this or of    *)
(* another target names.                                                    *)
BaselineSurvivesUndisturbed ==
    [][drift' = 0 => \A t \in Targets :
         led[t].kind = "directory" /\ OnDisk(led[t].id)
           => (\E p \in Paths : Matches(disk'[p], led[t]))]_vars

(* The only change a recorded descriptor goes through. *)
Advances(d, e) == e \in {d, Displaced(d)}

(* The first recorded baseline of a target is never replaced by a later    *)
(* one; only its displaced phase advances, and it leaves the file only by  *)
(* being dropped.                                                          *)
FirstBaselineStands ==
    [][\A t \in Targets :
         led[t].kind # "none" /\ led'[t].kind # "none"
           => Advances(led[t], led'[t])]_vars

HoldsBaseline(e, d) ==
    CASE d.kind = "absent"    -> e = Absent
      [] d.kind = "symlink"   -> e = Link(d.id)
      [] d.kind = "directory" -> Matches(e, d)
      [] OTHER                -> TRUE

(* A descriptor leaves the saved ledger only when the exact baseline it    *)
(* names is at the target, unless the user changed that target while the   *)
(* clear was running.                                                      *)
DroppedOnlyWhenRestored ==
    [][\A t \in Targets :
         led[t].kind # "none" /\ led'[t].kind = "none" /\ t \notin touched
           => HoldsBaseline(disk[t], led[t])]_vars

(* The projection is removed by crossby only when no target still points   *)
(* into it, so no tool is left with a dangling directory.                  *)
ProjectionOutlivesItsUsers ==
    [][CommandActs /\ tree /\ ~tree' => \A t \in Targets : disk[t] # Projected]_vars

(* A clear without --force would succeed on this target. *)
Clearable(t) ==
    LET d == led[t] IN
    CASE d.kind = "absent" -> disk[t] = Absent \/ disk[t].kind = "marked"
                              \/ PointsAtProjection(t)
      [] d.kind = "symlink" -> disk[t] \in {Absent, Link(d.id)}
                               \/ disk[t].kind = "marked" \/ PointsAtProjection(t)
      [] d.kind = "directory" ->
           IF disk[Backup(t, d)] = Absent THEN Matches(disk[t], d)
           ELSE /\ Matches(disk[Backup(t, d)], d)
                /\ \/ disk[t] = Absent \/ disk[t].kind = "marked"
                   \/ PointsAtProjection(t)
      [] OTHER -> TRUE

(* If the user edits nothing, then after any sequence of applies, clears,  *)
(* failed saves and crashes a plain clear still restores every recorded    *)
(* target that is linked: no crash point loses the way back.  (A copy that *)
(* dies before its marker is what OutputRecognised is about.)              *)
AlwaysClearable ==
    pc = "idle" /\ drift = 0 => \A t \in Targets \ CopyWriters : Clearable(t)

(* The comment in skills.py: the marker lets the next sync recognise the   *)
(* writer's own output.  Between commands every directory a scene writer   *)
(* made carries it.                                                        *)
OutputRecognised ==
    pc = "idle" =>
      \A t \in Targets :
        IsDir(disk[t]) /\ disk[t].id \in SceneDirs => disk[t].kind = "marked"
-----------------------------------------------------------------------------
(* The inductive invariant behind SceneOutputHasAuthority and               *)
(* FirstBaselineStands: what the running command's ledger has to do with    *)
(* the saved one at each of its points.                                     *)

Capturing == {"saveUnchanged", "saveCapture"}
Restoring == {"relink", "saveIdentity", "restore", "rename"}
Replacing == {"body", "saveSeen", "saveMoved", "place", "placeMoved"} \cup Writing

WellFormed(d) ==
    /\ d.kind = "none" => d = NoDesc
    /\ d.kind = "symlink" => d.id \in UserLinks
    /\ d.kind = "directory" => d.id \in UserDirs /\ d.slot \in Slots

DescriptorsWellFormed ==
    /\ WellFormed(held)
    /\ \A t \in Targets : WellFormed(led[t]) /\ WellFormed(mem[t])

(* Outside the save that records or drops it, a target's descriptor is the  *)
(* saved one, its displacement perhaps further.                             *)
MemAgrees ==
    pc # "idle" =>
      \A t \in Targets :
        /\ t = cur /\ pc \in Capturing => led[t] = NoDesc
        /\ t = cur /\ pc = "saveClear" => Advances(led[t], held)
        /\ ~(t = cur /\ pc \in Capturing \cup {"saveClear"}) => Advances(led[t], mem[t])

CommandPoint ==
    /\ pc \in Replacing \cup Restoring \cup {"saveCapture"} => Authority(mem[cur])
    /\ pc = "relink" => mem[cur].kind = "symlink"
    /\ pc \in {"saveIdentity", "restore", "rename"} => mem[cur].kind = "directory"
    /\ pc \in Capturing \cup {"saveClear"} => ~SceneOutput(disk[cur])
    /\ pc = "saveClear" => mem[cur] = NoDesc
    /\ pc \in {"saveMoved", "placeMoved", "write", "discard", "cleared", "create"} =>
         ~(IsDir(disk[cur]) /\ disk[cur].id \in SceneDirs)

(* Backups are the user's. *)
BackupsAreUsers ==
    \A t \in Targets, s \in Slots : ~SceneOutput(disk[<<t, s>>])

(* What a writer is about to remove is what it copied. *)
CopyStands ==
    pc = "discard" =>
      /\ bak \in Slots
      /\ cur \notin touched => disk[cur].kind = disk[<<cur, bak>>].kind

IInv ==
    /\ TypeOK /\ SceneOutputHasAuthority
    /\ DescriptorsWellFormed /\ MemAgrees /\ CommandPoint /\ BackupsAreUsers
    /\ CopyStands
=============================================================================
