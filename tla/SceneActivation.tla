--------------------------- MODULE SceneActivation ---------------------------
(****************************************************************************)
(* The persistent life of a scene: services/scene_activation.py and the     *)
(* `scene clear` command over the engine (scenes/engine.py) and the state   *)
(* file (scenes/state.py).                                                  *)
(*                                                                          *)
(* What the engine changes is a set of units: the directory a PROJECT tool  *)
(* reads its skills from, shared by every tool with that SkillsDir, or one  *)
(* DECLARE key <<tool, concern>>.  A unit remembers the scene in effect on  *)
(* it; the ownership ledger moves with it (ScenePath and OwnedEntries have  *)
(* the detail).  Hooks and permissions can only be removed: `left' is what  *)
(* is still there.  The state file is what `clear' goes by.                 *)
(*                                                                          *)
(* A command runs in the steps between which the code can fail: an engine   *)
(* call that reports error rows or raises, a save that fails before or      *)
(* after it replaced the file, a kill.                                    *)
(****************************************************************************)
EXTENDS Naturals, FiniteSets, Functions

CONSTANTS Tools, Scenes,
          Declares,    \* scene -> the concerns it selects in
          SkillsDir,   \* tool -> its skills directory
          Mech,        \* <<tool, concern>> -> "declare", "project", "unsupported"
          FileOf,      \* <<tool, concern>> -> the settings file of the tool
          Synced,      \* the removable <<tool, concern>> a sync has written
          Editable,    \* the files the user edits
          MaxFaults    \* bounds faults and user edits together

Reversible == {"skills", "mcp"}
Irreversible == {"hooks", "permissions"}
Concerns == Reversible \cup Irreversible

ASSUME SceneActivationAssumption ==
    /\ IsFiniteSet(Tools) /\ Tools \cap {"all", "dir", "none"} = {}
    /\ "none" \notin Scenes /\ MaxFaults \in Nat
    /\ \A s \in Scenes : Declares[s] # {} /\ Declares[s] \subseteq Concerns
    /\ Synced \subseteq Tools \X Irreversible /\ DOMAIN FileOf = Tools \X Concerns

(* The table of scenes/mechanism.py: only directories are projected, and    *)
(* PROJECT wins for a directory that tools share.                           *)
ASSUME MechanismAssumption ==
    /\ \A t \in Tools : /\ Mech[t, "skills"] \in {"declare", "project", "unsupported"}
                        /\ Mech[t, "mcp"] \in {"declare", "unsupported"}
    /\ \A t, u \in Tools : t # u /\ SkillsDir[t] = SkillsDir[u] => Mech[t, "skills"] = "project"
    /\ \A p \in Tools \X Concerns, t \in Tools : FileOf[p] # SkillsDir[t]

None == "none"
NoState == [scene |-> None, tools |-> <<>>]

VARIABLES effect,   \* unit -> the scene in effect on it, or None
          left,     \* the removable <<tool, concern>> still in place
          uver,     \* file -> how often the user edited it
          seen,     \* file -> uver when crossby last wrote it
          state,    \* scene-state.json
          cmd,      \* the command that is running
          owed,     \* removed <<tool, concern>> the user was not warned of
          doubt,    \* a command was killed, or said that recovery is incomplete
          faults
vars == <<effect, left, uver, seen, state, cmd, owed, doubt, faults>>
disk == <<effect, left, uver, seen>>

Idle == [op |-> "none", at |-> "idle"]
Absent(f) == f = None

-----------------------------------------------------------------------------
(* Units, files and what a tool scope reaches.                              *)

Dir(t) == <<"dir", SkillsDir[t]>>
UnitOf(t, c) == IF Mech[t, c] = "project" THEN Dir(t) ELSE <<t, c>>
DeclareUnits(S) == {p \in S \X Reversible : Mech[p] = "declare"}
PathUnits(S) == {Dir(t) : t \in {u \in S : Mech[u, "skills"] = "project"}}
UnitsOf(S) == DeclareUnits(S) \cup PathUnits(S)
Units == UnitsOf(Tools)
FileOfUnit(u) == IF u[1] = "dir" THEN u[2] ELSE FileOf[u]
Files == {FileOfUnit(u) : u \in Units} \cup Range(FileOf)
Removable == {p \in Synced : Mech[p] = "project"}

(* expand_shared_scope *)
Sharers(S, candidates) ==
    S \cup {t \in candidates : \E u \in S : SkillsDir[t] = SkillsDir[u]}

(* content_hash: equal exactly when the file holds the same things. *)
ContentHash(f) ==
    [on |-> {<<u, effect[u]>> : u \in {w \in Units : FileOfUnit(w) = f
                                                     /\ effect[w] # None}},
     left |-> {p \in left : FileOf[p] = f}, user |-> uver[f]]

Recorded == DOMAIN state.tools
Record(m, h, r) == [mech |-> m, hash |-> h, revoked |-> r, recovery |-> FALSE]
Recovery(r) == [Record({}, <<>>, r) EXCEPT !.recovery = TRUE]
EmptyRec(rec) == rec.mech = {} /\ rec.hash = <<>>
Without(f, S) == Restrict(f, DOMAIN f \ S)
File(s, tools) == IF DOMAIN tools = {} THEN NoState ELSE [scene |-> s, tools |-> tools]

DriftedIn(rec, files) ==
    \E f \in DOMAIN rec.hash \cap files : rec.hash[f] # ContentHash(f)

-----------------------------------------------------------------------------
(* The scopes of the running command.                                       *)

Initial(c) == IF c.req = "all" THEN Tools ELSE {c.req}
SharedScope(c) ==
    IF "skills" \in Declares[c.scene] THEN Sharers(Initial(c), Tools) ELSE Initial(c)

(* _outgoing_shared_skill_scope *)
OutgoingSharers(c) ==
    {t \in Sharers(Initial(c), Recorded) \ Initial(c) : "skills" \in state.tools[t].mech}
OutgoingScope(c) ==
    IF c.req = "all" THEN Recorded
    ELSE (Initial(c) \cup OutgoingSharers(c)) \cap Recorded

(* Mutant: tools that are not named are not thought of. *)
StrandsSharers(c) ==
    /\ state # NoState /\ state.scene # c.scene /\ c.req # "all"
    /\ \E t \in OutgoingScope(c) \ Initial(c) : state.tools[t].mech # {"skills"}

(* The UNSAFE_SWITCH guard. *)
Strands(c) ==
    /\ state # NoState /\ state.scene # c.scene /\ c.req # "all"
    /\ \/ \E t \in Recorded \ (Initial(c) \cup OutgoingSharers(c)) :
             ~(state.tools[t].recovery /\ state.tools[t].mech = {})
       \/ \E t \in OutgoingScope(c) \ Initial(c) : state.tools[t].mech # {"skills"}

(* Mutant: an activation of every tool does not look. *)
OutgoingDriftScoped(c) ==
    /\ c.req # "all"
    /\ \E t \in OutgoingScope(c) :
         DriftedIn(state.tools[t], IF t \in Initial(c) THEN Files ELSE {SkillsDir[t]})

(* _detect_scoped_drift, and detect_drift for an unscoped activation *)
OutgoingDrift(c) ==
    \E t \in OutgoingScope(c) :
        DriftedIn(state.tools[t],
                  IF t \in Initial(c) THEN Files ELSE {SkillsDir[t]})

-----------------------------------------------------------------------------
(* Faults.                                                                  *)

Edited == {f \in Files : uver[f] > 0}
Spend(n) ==
    /\ faults + n + Cardinality(Edited) <= MaxFaults
    /\ faults' = faults + n
End == cmd' = Idle

(* save_scene_state replaces the file, then updates .gitignore: an exception *)
(* may leave either file; clear_scene_state only unlinks.                    *)
Saved(new) == state' = new
SaveRaises(new) == state' \in {state} \cup (IF new = NoState THEN {} ELSE {new})

-----------------------------------------------------------------------------
(* The engine.                                                              *)

Touch(eff) ==
    /\ effect' = eff
    /\ seen' = [f \in Files |->
                  IF \E u \in Units : FileOfUnit(u) = f /\ eff[u] # effect[u]
                  THEN uver[f] ELSE seen[f]]
    /\ UNCHANGED uver

(* clear_scene: `done' is back at its baseline. *)
EngineClear(done) ==
    /\ Touch([u \in Units |-> IF u \in done THEN None ELSE effect[u]])
    /\ UNCHANGED left

(* Every DECLARE key of the scope gives a row, a path only if it has a      *)
(* baseline to restore.                                                     *)
Rows(S) == DeclareUnits(S) \cup {p \in PathUnits(S) : effect[p] # None}

(* A path the user changed is not restored without force. *)
Refused(S, force) ==
    IF force THEN {} ELSE {p \in Rows(S) \cap PathUnits(S) : uver[p[2]] # seen[p[2]]}

ErrorRows(S, force) == {bad \in SUBSET Rows(S) : Refused(S, force) \subseteq bad}

(* apply_scene: DECLARE keys of an unselected concern get the empty set,    *)
(* directories are projected whatever the scene selects.                    *)
Applied(c, u) == IF u[1] # "dir" /\ u[2] \notin Declares[c.scene] THEN None ELSE c.scene
EngineApply(c, done, gone) ==
    /\ Touch([u \in Units |-> IF u \in done THEN Applied(c, u) ELSE effect[u]])
    /\ left' = left \ gone
Removes(c) ==
    {p \in left : p[1] \in Initial(c) /\ p[2] \in Declares[c.scene]}

(* compute_hashes: what a row wrote.  A directory that already was a        *)
(* projection, and a key that already was off, gives a skipped row.         *)
Writes(c, done) ==
    {u \in done : effect[u] # Applied(c, u) /\ (u[1] = "dir" => effect[u] = None)}

-----------------------------------------------------------------------------
(* The state file an activation leaves.                                     *)

(* _tool_mechanisms, compute_hashes, _replicate_shared_hashes, revocations *)
BuiltRecord(c, t) ==
    Record((IF t \in Initial(c) THEN Declares[c.scene] ELSE {})
             \cup (Declares[c.scene] \cap {"skills"}),
           [f \in {FileOfUnit(u) : u \in {w \in c.hashed : w[1] = t}}
                   \cup {FileOf[p] : p \in {q \in c.gone : q[1] = t}}
                   \cup {d \in {SkillsDir[t]} : <<"dir", d>> \in c.hashed}
              |-> ContentHash(f)],
           {p[2] : p \in {q \in c.gone : q[1] = t}})
BuiltTools(c) == [t \in SharedScope(c) |-> BuiltRecord(c, t)]

(* _merge_same_scene_tools *)
MergedRecord(previous, record) ==
    Record(previous.mech \cup record.mech,
           [f \in DOMAIN previous.hash \cup DOMAIN record.hash |->
              IF f \in DOMAIN record.hash THEN record.hash[f] ELSE previous.hash[f]],
           previous.revoked \cup record.revoked)
Merged(c, built) ==
    LET old == c.active.tools
    IN  [t \in DOMAIN old \cup DOMAIN built |->
           IF t \notin DOMAIN built THEN old[t]
           ELSE IF t \in Initial(c) \/ t \notin DOMAIN old THEN built[t]
           ELSE MergedRecord(old[t], built[t])]

(* Mutant: what an earlier scene removed is forgotten. *)
InheritedNothing(c, tools) == tools

(* _inherit_revocations *)
Inherited(c, tools) ==
    LET old == c.active.tools
        kept == {t \in DOMAIN old : old[t].revoked # {}}
    IN  [t \in DOMAIN tools \cup kept |->
           IF t \notin DOMAIN tools THEN Recovery(old[t].revoked)
           ELSE IF t \notin kept THEN tools[t]
           ELSE [tools[t] EXCEPT !.revoked = @ \cup old[t].revoked]]

NextState(c) ==
    File(c.scene,
         Inherited(c, IF c.active.scene = c.scene THEN Merged(c, BuiltTools(c))
                      ELSE BuiltTools(c)))

(* Mutant: every recorded mechanism counts as cleared. *)
ReconciledRecordAll(t, rec, ok) == [rec EXCEPT !.mech = {}, !.hash = <<>>]

(* reconcile_partial_clear_state, `ok' being the rows without an error *)
ReconciledRecord(t, rec, ok) ==
    LET cleared == {c \in rec.mech \cap Reversible : UnitOf(t, c) \in ok}
        mech == {c \in rec.mech \ cleared : Mech[t, c] # "unsupported"}
        hash == Without(rec.hash, {FileOfUnit(UnitOf(t, c)) : c \in cleared})
    IN  [rec EXCEPT !.mech = mech, !.hash = hash,
                    !.recovery = @ \/ (mech = {} /\ hash = <<>> /\ rec.revoked # {})]
Kept(tools) == Restrict(tools, {t \in DOMAIN tools :
                                  ~EmptyRec(tools[t]) \/ tools[t].revoked # {}})
Reconciled(active, ok) ==
    File(active.scene,
         Kept([t \in DOMAIN active.tools |-> ReconciledRecord(t, active.tools[t], ok)]))

(* A co-sharer loses its skills.  _restore_state_after_rollback calls a     *)
(* record without mechanisms recovery even if it still has hashes, as       *)
(* _drop_shared_skill_state does not.                                       *)
DropSkills(t, rec, evenHashed) ==
    LET mech == rec.mech \ {"skills"}
        hash == Without(rec.hash, {SkillsDir[t]})
    IN  [rec EXCEPT !.mech = mech, !.hash = hash,
                    !.recovery = @ \/ (mech = {} /\ rec.revoked # {}
                                        /\ (evenHashed \/ hash = <<>>))]

(* _restore_state_after_rollback *)
RestoredState(c) ==
    LET old == c.active.tools
        rolled == c.rev
        shared == (SharedScope(c) \cup c.sharers) \ rolled
        gone == {t \in DOMAIN old \cap rolled : old[t].revoked = {}}
    IN  File(c.active.scene,
             Kept([t \in DOMAIN old \ gone |->
                     IF t \in rolled THEN Recovery(old[t].revoked)
                     ELSE IF t \in shared THEN DropSkills(t, old[t], TRUE) ELSE old[t]]))

(* Mutant: an emptied record is saved with the scene's name. *)
ClearedStateEmpty(c) ==
    [scene |-> state.scene,
     tools |-> Restrict(state.tools, IF c.req = "all" THEN {} ELSE Recorded \ c.rev)]

(* The end of `scene clear'. *)
ClearedState(c) ==
    IF c.req = "all" THEN NoState
    ELSE File(state.scene,
              Kept([t \in Recorded \ c.rev |->
                      IF t \in c.sharers THEN DropSkills(t, state.tools[t], FALSE)
                      ELSE state.tools[t]]))

-----------------------------------------------------------------------------
Init ==
    /\ effect = [u \in Units |-> None]
    /\ left = Removable
    /\ uver = [f \in Files |-> 0] /\ seen = [f \in Files |-> 0]
    /\ state = NoState /\ cmd = Idle
    /\ owed = {} /\ doubt = FALSE /\ faults = 0

Requests == Tools \cup {"all"}

(* activate_scene up to the first engine call; a refusal changes nothing.   *)
Use(s, r, force) ==
    LET c == [op |-> "use", scene |-> s, req |-> r]
        out == IF state = NoState THEN {} ELSE OutgoingScope(c)
    IN  /\ cmd = Idle
        /\ ~Strands(c)
        /\ force \/ ~OutgoingDrift(c)
        /\ cmd' = [op |-> "use", scene |-> s, req |-> r, force |-> force,
                   at |-> IF out = {} THEN "apply" ELSE "revert",
                   active |-> state, out |-> out,
                   rev |-> IF out = {} THEN {} ELSE IF r = "all" THEN out ELSE {r},
                   sharers |-> IF r = "all" \/ state = NoState THEN {}
                               ELSE OutgoingSharers(c),
                   ok |-> {}, hashed |-> {}, gone |-> {}]
        /\ UNCHANGED <<disk, state, owed, doubt, faults>>

(* clear_active up to the engine call.  The warning about what clear does   *)
(* not restore comes first.                                                 *)
Clear(r, force) ==
    LET scope == IF r = "all" THEN Recorded ELSE {r}
        sharers == IF r = "all" \/ "skills" \notin state.tools[r].mech THEN {}
                   ELSE OutgoingSharers([req |-> r])
    IN  /\ cmd = Idle /\ state # NoState
        /\ r \in Recorded \cup {"all"}
        /\ force \/ ~\E t \in scope : DriftedIn(state.tools[t], Files)
        /\ cmd' = [op |-> "clear", req |-> r, force |-> force, at |-> "revert",
                   active |-> state, rev |-> scope, sharers |-> sharers, ok |-> {}]
        /\ owed' = {p \in owed : ~(p[1] \in scope /\ p[2] \in state.tools[p[1]].revoked)}
        /\ UNCHANGED <<disk, state, doubt, faults>>

Revert ==
    /\ cmd.at = "revert"
    /\ \E bad \in ErrorRows(cmd.rev, cmd.force) :
         /\ Spend(Cardinality(bad \ Refused(cmd.rev, cmd.force)))
         /\ EngineClear(UnitsOf(cmd.rev) \ bad)
         /\ cmd' = [cmd EXCEPT !.ok = Rows(cmd.rev) \ bad,
                               !.at = IF bad # {} THEN "reconcile"
                                      ELSE IF @ = "revert" /\ cmd.op = "use" THEN "apply"
                                      ELSE "finish"]
    /\ UNCHANGED <<state, owed, doubt>>

(* A handler raises: the keys before it are reverted, no path is.  The      *)
(* state is left intact.                                                    *)
RevertRaises ==
    /\ cmd.at = "revert" /\ Spend(1)
    /\ \E done \in SUBSET DeclareUnits(cmd.rev) :
         done # DeclareUnits(cmd.rev) /\ EngineClear(done)
    /\ End
    /\ UNCHANGED <<state, owed, doubt>>

(* Both commands stop here; the error says that the revert is incomplete.   *)
Reconcile ==
    /\ cmd.at = "reconcile"
    /\ \/ Saved(Reconciled(cmd.active, cmd.ok)) /\ UNCHANGED faults
       \/ SaveRaises(Reconciled(cmd.active, cmd.ok)) /\ Spend(1)
    /\ End
    /\ UNCHANGED <<disk, owed, doubt>>

Apply ==
    /\ cmd.at = "apply"
    /\ \E bad \in SUBSET UnitsOf(Initial(cmd)), kept \in SUBSET Removes(cmd) :
         LET done == UnitsOf(Initial(cmd)) \ bad
             gone == Removes(cmd) \ kept
         IN  /\ Spend(Cardinality(bad) + Cardinality(kept))
             /\ EngineApply(cmd, done, gone)
             /\ owed' = owed \cup gone
             /\ cmd' = [cmd EXCEPT !.at = "save", !.hashed = Writes(cmd, done),
                                   !.gone = gone, !.ok = done]
    /\ UNCHANGED <<state, doubt>>

(* A phase raises: what it did stays, some of its rows are lost with it.    *)
PartialApply(c, done, gone) ==
    /\ done \in SUBSET UnitsOf(Initial(c)) /\ gone \in SUBSET Removes(c)
    /\ (\E u \in done : u[1] = "dir") => DeclareUnits(Initial(c)) \subseteq done
    /\ gone # {} => done = UnitsOf(Initial(c))
    /\ EngineApply(c, done, gone)

ApplyRaises ==
    /\ cmd.at = "apply" /\ Spend(1)
    /\ \E done \in SUBSET UnitsOf(Initial(cmd)), gone \in SUBSET Removes(cmd) :
         /\ PartialApply(cmd, done, gone)
         /\ \E rowed \in SUBSET Writes(cmd, done) :
              cmd' = [cmd EXCEPT !.at = "recover", !.hashed = rowed, !.gone = gone]
         /\ owed' = owed \cup gone
    /\ UNCHANGED <<state, doubt>>

(* _save_recovery_state is best effort; the user is told when it failed.    *)
Recover ==
    /\ cmd.at = "recover"
    /\ \/ Saved(NextState(cmd)) /\ UNCHANGED <<faults, owed, doubt>>
       \/ SaveRaises(NextState(cmd)) /\ Spend(1) /\ doubt' = TRUE /\ owed' = owed \ cmd.gone
    /\ End
    /\ UNCHANGED <<disk>>

(* A complete activation of every tool ends any doubt there was.            *)
Save ==
    /\ cmd.at = "save"
    /\ \/ /\ Saved(NextState(cmd)) /\ UNCHANGED faults /\ End
          /\ doubt' = (doubt /\ cmd.ok # Units)
       \/ /\ SaveRaises(NextState(cmd)) /\ Spend(1) /\ UNCHANGED doubt
          /\ cmd' = [cmd EXCEPT !.at = "rollback"]
    /\ UNCHANGED <<disk, owed>>

(* The concerns the STATE_PERSISTENCE message calls still narrowed.         *)
Narrowed(c) ==
    {p[2] : p \in c.gone} \cup UNION {c.active.tools[t].revoked : t \in c.out}
Tell(c) == owed' = {p \in owed : p[2] \notin Narrowed(c)}

Rollback ==
    /\ cmd.at = "rollback"
    /\ \E bad \in ErrorRows(Initial(cmd), TRUE) :
         /\ Spend(Cardinality(bad))
         /\ EngineClear(UnitsOf(Initial(cmd)) \ bad)
         /\ \/ bad = {} /\ cmd' = [cmd EXCEPT !.at = "restore"] /\ UNCHANGED <<owed, doubt>>
            \/ bad # {} /\ End /\ doubt' = TRUE /\ Tell(cmd)
    /\ UNCHANGED <<state>>

RollbackRaises ==
    /\ cmd.at = "rollback" /\ Spend(1)
    /\ \E done \in SUBSET DeclareUnits(Initial(cmd)) :
         done # DeclareUnits(Initial(cmd)) /\ EngineClear(done)
    /\ End /\ doubt' = TRUE /\ Tell(cmd)
    /\ UNCHANGED <<state>>

Restore ==
    /\ cmd.at = "restore"
    /\ \/ Saved(RestoredState(cmd)) /\ UNCHANGED <<faults, doubt>>
       \/ SaveRaises(RestoredState(cmd)) /\ Spend(1) /\ doubt' = TRUE
    /\ End /\ Tell(cmd)
    /\ UNCHANGED <<disk>>

(* A state file that could not be updated is reported as stale.             *)
Finish ==
    /\ cmd.at = "finish"
    /\ \/ Saved(ClearedState(cmd)) /\ UNCHANGED faults
       \/ SaveRaises(ClearedState(cmd)) /\ Spend(1)
    /\ End
    /\ UNCHANGED <<disk, owed, doubt>>

(* The process is killed inside an engine call or before a save: nobody     *)
(* hears of the removals the state file does not have yet.                  *)
OnRecord == {p \in Removable : p[1] \in Recorded /\ p[2] \in state.tools[p[1]].revoked}
Crash ==
    /\ cmd # Idle /\ Spend(1) /\ End /\ doubt' = TRUE
    /\ owed' = owed \cap OnRecord
    /\ \/ UNCHANGED disk
       \/ /\ cmd.at = "revert"
          /\ \E done \in SUBSET (UnitsOf(cmd.rev) \ Refused(cmd.rev, cmd.force)) :
               EngineClear(done)
       \/ /\ cmd.at = "rollback"
          /\ \E done \in SUBSET UnitsOf(Initial(cmd)) : EngineClear(done)
       \/ /\ cmd.at = "apply"
          /\ \E done \in SUBSET UnitsOf(Initial(cmd)), gone \in SUBSET Removes(cmd) :
               PartialApply(cmd, done, gone)
    /\ UNCHANGED state

(* Between commands: the user edits a managed file, or runs `crossby sync', *)
(* which puts removed hooks and permissions back.                           *)
UserEdits(f) ==
    /\ cmd = Idle /\ uver[f] = 0 /\ faults + Cardinality(Edited) < MaxFaults
    /\ uver' = [uver EXCEPT ![f] = @ + 1]
    /\ UNCHANGED <<effect, left, seen, state, cmd, owed, doubt, faults>>

Resync ==
    /\ cmd = Idle /\ left # Removable
    /\ left' = Removable /\ owed' = {}
    /\ UNCHANGED <<effect, uver, seen, state, cmd, doubt, faults>>

Step == \/ Revert \/ RevertRaises \/ Reconcile \/ Apply \/ ApplyRaises \/ Recover
        \/ Save \/ Rollback \/ RollbackRaises \/ Restore \/ Finish
Next ==
    \/ \E s \in Scenes, r \in Requests, force \in BOOLEAN : Use(s, r, force)
    \/ \E r \in Requests, force \in BOOLEAN : Clear(r, force)
    \/ Step \/ Crash
    \/ \E f \in Editable : UserEdits(f)
    \/ Resync

Spec == Init /\ [][Next]_vars

-----------------------------------------------------------------------------
(* The type invariant.  A state file names a scene exactly when it has a     *)
(* record of a tool: an empty one is removed.                               *)
TypeOK ==
    /\ effect \in [Units -> Scenes \cup {None}]
    /\ left \subseteq Removable /\ owed \subseteq Removable
    /\ uver \in [Files -> 0..1] /\ seen \in [Files -> 0..1]
    /\ state.scene \in Scenes \cup {None} /\ Recorded \subseteq Tools
    /\ (state.scene = None) = (Recorded = {})
    /\ \A t \in Recorded : /\ state.tools[t].mech \subseteq Concerns
                           /\ DOMAIN state.tools[t].hash \subseteq Files
                           /\ state.tools[t].revoked \subseteq Irreversible
    /\ doubt \in BOOLEAN /\ faults \in 0..MaxFaults

(* No command is running, and none was killed or ended with a message that  *)
(* what it left could not be recorded.                                      *)
Settled == cmd = Idle /\ ~doubt

Reached(u) == \E t \in Recorded : u \in UnitsOf({t})
Chosen(u) ==
    effect[u] # None /\ (u[1] = "dir" => "skills" \in Declares[effect[u]])

(* Whatever a scene put in effect is of a tool in the state file, so that   *)
(* `scene status' shows it and `scene clear' reaches it: through switches,  *)
(* scoped clears, error rows, exceptions, failed saves and rollbacks.       *)
EffectsRecorded == Settled => \A u \in Units : Chosen(u) => Reached(u)

(* What is in effect is the scene the state file names, never a mixture of  *)
(* two scenes: the UNSAFE_SWITCH guard and the revert before an apply.      *)
OneScene == Settled => \A u \in Units : Chosen(u) => effect[u] = state.scene

(* Without --force, no revert rewrites a file the user edited since crossby *)
(* wrote it: the drift check goes by the hashes of the state file, which    *)
(* merges, replications and reconciliations must keep.  After a fault the   *)
(* record is known to lack hashes.                                          *)
NoBlindRevert ==
    [][cmd.at = "revert" /\ ~cmd.force /\ faults = 0 =>
         \A u \in Units : effect'[u] # effect[u] => uver[FileOfUnit(u)] = seen[FileOfUnit(u)]]_vars

(* A removed hooks or permissions entry, which no clear restores, stays in  *)
(* the state file until the user was told to run `crossby sync', over later *)
(* activations of other scenes and of other tools.                          *)
RemovalsRecorded == Settled => owed \subseteq OnRecord

(* "remaining recovery state was retained" (activate_scene after an         *)
(* incomplete revert): whatever is in effect, the directories of a scene    *)
(* that selects no skills included, is of a tool in the state file.         *)
IncompleteClearKeepsRecord ==
    Settled => \A u \in Units : effect[u] # None => Reached(u)
=============================================================================
