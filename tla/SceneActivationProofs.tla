----------------------- MODULE SceneActivationProofs -----------------------
(* What SceneActivation guarantees for every set of tools, every assignment *)
(* of mechanisms, directories and files, every declaration of every scene   *)
(* and any number of faults.  Typed says what a state file and a running    *)
(* command can hold; Accounted what is in effect at every stage of a        *)
(* command, and that it is on record; Owing where a removed entry is        *)
(* remembered at every stage; Hashing which files have their hash on record *)
(* before the first fault.                                                  *)
(*                                                                          *)
(* At the end, a launch of a scene in a worktree of its own (OwnedWorktree), *)
(* what the removal of its checkout never does, for any number of           *)
(* interrupts and of changes.                                               *)
EXTENDS SceneActivation, OwnedWorktree, FiniteSetTheorems, TLAPS

-----------------------------------------------------------------------------
(* The inductive invariant.                                                *)

\* The removed entries that a state has on record.
OnRec(st) == {p \in Removable : p[1] \in DOMAIN st.tools /\ p[2] \in st.tools[p[1]].revoked}

\* A record of a tool, and a state file.
RecOK(r) ==
  /\ DOMAIN r = {"mech", "hash", "revoked", "recovery"}
  /\ r.mech \subseteq Concerns /\ DOMAIN r.hash \subseteq Files /\ r.revoked \subseteq Irreversible

StateOK(st) ==
  \/ st = NoState
  \/ /\ st.scene \in Scenes /\ DOMAIN st.tools # {} /\ DOMAIN st.tools \subseteq Tools
     /\ \A t \in DOMAIN st.tools : RecOK(st.tools[t])

UseStages == {"revert", "apply", "reconcile", "save", "recover", "rollback", "restore"}

\* What an activation works from: the tools to revert, and those that share a directory with it.
UseOK(c) ==
  /\ c.op = "use"
  /\ DOMAIN c = {"op", "scene", "req", "force", "at", "active", "out", "rev", "sharers", "ok",
                 "hashed", "gone"}
  /\ c.scene \in Scenes /\ c.req \in Requests /\ c.at \in UseStages /\ StateOK(c.active)
  /\ c.out \subseteq DOMAIN c.active.tools
  /\ c.req = "all" => c.out = DOMAIN c.active.tools
  /\ c.rev = IF c.out = {} THEN {} ELSE IF c.req = "all" THEN c.out ELSE {c.req}
  /\ c.sharers \subseteq Sharers(Initial(c), Tools)
  /\ c.ok \subseteq Units /\ c.hashed \subseteq UnitsOf(Initial(c))
  /\ c.gone \subseteq {p \in Removable : p[1] \in Initial(c)}
  /\ c.at \in {"revert", "apply", "reconcile"} => c.gone = {}
  /\ c.at = "revert" => c.out # {}

\* What a clear works from.
ClearOK(c) ==
  /\ c.op = "clear"
  /\ DOMAIN c = {"op", "req", "force", "at", "active", "rev", "sharers", "ok"}
  /\ c.req \in Requests /\ c.at \in {"revert", "reconcile", "finish"}
  /\ StateOK(c.active)
  /\ c.req = "all" \/ c.req \in DOMAIN c.active.tools
  /\ c.rev = IF c.req = "all" THEN DOMAIN c.active.tools ELSE {c.req}
  /\ c.sharers \subseteq Sharers(Initial(c), Tools)
  /\ c.ok \subseteq Units

\* The command goes by the state file it loaded; only a failed save may have replaced it.
CmdOK ==
  /\ cmd = Idle \/ UseOK(cmd) \/ ClearOK(cmd)
  /\ cmd.at \notin {"idle", "rollback", "restore"} => state = cmd.active

\* The rest of the state.
DataOK ==
  /\ effect \in [Units -> Scenes \cup {None}]
  /\ left \subseteq Removable /\ owed \subseteq Removable
  /\ uver \in [Files -> 0..1] /\ seen \in [Files -> 0..1]
  /\ StateOK(state) /\ doubt \in BOOLEAN /\ faults \in 0..MaxFaults

Typed == DataOK /\ CmdOK

\* A key or directory that the record of a tool accounts for.
Covered(st, u) ==
  \E t \in DOMAIN st.tools, k \in Reversible :
    k \in st.tools[t].mech /\ Mech[t, k] # "unsupported" /\ u = UnitOf(t, k)

\* One that the running activation is asked to set.
Selected(c, u) ==
  \E t \in Initial(c), k \in Reversible \cap Declares[c.scene] :
    Mech[t, k] # "unsupported" /\ u = UnitOf(t, k)

\* All that is in effect is of the scene of the state, and on record in it.
Backed(st) == \A u \in Units : Chosen(u) => effect[u] = st.scene /\ Covered(st, u)

\* What a new scene could be mixed with is reverted first.
Switchable(c) ==
  \A u \in Units : Covered(c.active, u) =>
    \/ u \in UnitsOf(c.rev)
    \/ u \notin UnitsOf(Initial(c)) /\ c.active.scene = c.scene

\* What is left of the scene before, when the tools asked for are out of it.
Spared(c, u) ==
  /\ u \notin UnitsOf(Initial(c))
  /\ c.active.scene = c.scene /\ Covered(c.active, u)

Others(c) == \A u \in Units : Chosen(u) => effect[u] = c.scene /\ Spared(c, u)

\* What is in effect after the engine applied the scene.
InEffect(c) ==
  \A u \in Units : Chosen(u) => effect[u] = c.scene /\ (Selected(c, u) \/ Spared(c, u))

\* Where the running command is says what is in effect, while nothing is in doubt.
Accounted ==
  /\ ~doubt =>
       /\ cmd.at = "idle" => Backed(state)
       /\ cmd.at \in {"revert", "reconcile", "finish"} => Backed(cmd.active)
       /\ cmd.at = "revert" /\ cmd.op = "use" => Switchable(cmd)
       /\ cmd.at = "finish" => \A u \in UnitsOf(cmd.rev) : effect[u] = None
       /\ cmd.at \in {"apply", "restore"} => Others(cmd)
       /\ cmd.at \in {"save", "recover", "rollback"} => InEffect(cmd)
  /\ cmd.at = "reconcile" => \A u \in cmd.ok : effect[u] = None
  /\ cmd.at = "save" /\ cmd.ok = Units =>
       \A u \in Units : Chosen(u) => effect[u] = cmd.scene /\ Selected(cmd, u)

\* What the user was not warned of is on record, or about to be.
Owing ==
  /\ cmd.at = "idle" => owed \subseteq OnRec(state)
  /\ cmd.op = "use" => owed \subseteq OnRec(cmd.active) \cup cmd.gone
                       /\ OnRec(cmd.active) \subseteq OnRec(state)
  /\ cmd.op = "clear" => \A p \in owed : p \in OnRec(cmd.active) /\ p[1] \notin cmd.rev

\* A key whose settings file has a hash on record, and that hash.
HasHash(st, u) == u[1] \in DOMAIN st.tools /\ FileOf[u] \in DOMAIN st.tools[u[1]].hash
HashOf(st, u) == st.tools[u[1]].hash[FileOf[u]]

\* The hash is no later than crossby's last change of the file.
Hashed(st, u) == HasHash(st, u) /\ HashOf(st, u).user \in 0..seen[FileOf[u]]

Keys == DeclareUnits(Tools)

\* As long as nothing failed, every key in effect has its file's hash on record.
Hashing ==
  /\ \A f \in Files : seen[f] <= uver[f]
  /\ faults = 0 =>
       /\ ~doubt /\ cmd.at \notin {"recover", "rollback", "restore"}
       /\ cmd.at \in {"idle", "revert", "reconcile", "finish"} =>
            \A u \in Keys : effect[u] # None => Hashed(state, u)
       /\ cmd.at \in {"reconcile", "finish"} => \A u \in DeclareUnits(cmd.rev) : effect[u] = None
       /\ cmd.at = "reconcile" => cmd.ok \subseteq UnitsOf(cmd.rev)
       /\ cmd.at = "revert" /\ ~cmd.force =>
            \A u \in DeclareUnits(cmd.rev) : effect[u] # None => seen[FileOf[u]] = uver[FileOf[u]]
       /\ cmd.at = "apply" =>
            \A u \in Keys : effect[u] # None => u[1] \notin Initial(cmd) /\ Hashed(cmd.active, u)
       /\ cmd.at = "save" =>
            \A u \in Keys : effect[u] # None =>
              IF u[1] \in Initial(cmd)
              THEN u \in cmd.hashed /\ seen[FileOf[u]] = uver[FileOf[u]]
              ELSE Hashed(cmd.active, u)
-----------------------------------------------------------------------------
(* Units.                                                                  *)

\* A key is a pair of a tool and a concern, a directory is neither.
LEMMA KeyShape ==
  ASSUME NEW S, S \subseteq Tools, NEW u \in DeclareUnits(S)
  PROVE  /\ u[1] \in S /\ u[2] \in Reversible /\ u = <<u[1], u[2]>> /\ Mech[u] = "declare"
         /\ u[1] # "dir" /\ u \in DOMAIN FileOf /\ FileOfUnit(u) = FileOf[u]
         /\ u \in Keys /\ u \in Units
<1>1. u \in S \X Reversible /\ Mech[u] = "declare" BY DEF DeclareUnits
<1>2. u[1] \in S /\ u[2] \in Reversible /\ u = <<u[1], u[2]>> BY <1>1
<1>3. u \in Tools \X Reversible BY <1>1
<1>4. u \in Tools \X Concerns BY <1>3 DEF Concerns
<1>5. u[1] # "dir" BY <1>2, SceneActivationAssumption DEF SceneActivationAssumption
<1>6. u \in Keys BY <1>1, <1>3 DEF Keys, DeclareUnits
<1>7. u \in DOMAIN FileOf BY <1>4, SceneActivationAssumption DEF SceneActivationAssumption
<1> QED BY <1>1, <1>2, <1>5, <1>6, <1>7 DEF FileOfUnit, Units, UnitsOf, Keys

\* A directory.
LEMMA PathShape ==
  ASSUME NEW S, S \subseteq Tools, NEW u \in PathUnits(S)
  PROVE  /\ u[1] = "dir" /\ u \in Units
         /\ \E t \in S : u = Dir(t) /\ Mech[t, "skills"] = "project"
<1>1. PICK t \in S : u = Dir(t) /\ Mech[t, "skills"] = "project" BY DEF PathUnits
<1>2. u \in PathUnits(Tools) BY <1>1 DEF PathUnits
<1> QED BY <1>1, <1>2 DEF Dir, Units, UnitsOf

\* More tools have more units.
LEMMA UnitsGrow ==
  ASSUME NEW S, NEW T, S \subseteq T, T \subseteq Tools
  PROVE  UnitsOf(S) \subseteq UnitsOf(T) /\ DeclareUnits(S) \subseteq DeclareUnits(T)
         /\ UnitsOf(T) \subseteq Units
<1>1. DeclareUnits(S) \subseteq DeclareUnits(T) BY DEF DeclareUnits
<1>2. PathUnits(S) \subseteq PathUnits(T) BY DEF PathUnits
<1>3. DeclareUnits(T) \subseteq DeclareUnits(Tools) BY DEF DeclareUnits
<1>4. PathUnits(T) \subseteq PathUnits(Tools) BY DEF PathUnits
<1> QED BY <1>1, <1>2, <1>3, <1>4 DEF UnitsOf, Units

\* What a tool can be asked to set is a unit of it: its own key, or its directory.
LEMMA UnitsOfTool ==
  ASSUME NEW t \in Tools, NEW k \in Reversible, Mech[t, k] # "unsupported"
  PROVE  /\ UnitOf(t, k) \in UnitsOf({t}) /\ UnitOf(t, k) \in Units
         /\ \/ UnitOf(t, k) = <<t, k>> /\ Mech[t, k] = "declare" /\ <<t, k>> \in DeclareUnits({t})
            \/ k = "skills" /\ Mech[t, k] = "project" /\ UnitOf(t, k) = Dir(t)
<1>1. CASE Mech[t, k] = "project"
  <2>1. k = "skills" BY <1>1, MechanismAssumption DEF MechanismAssumption, Reversible
  <2>2. UnitOf(t, k) = Dir(t) BY <1>1 DEF UnitOf
  <2>3. Dir(t) \in PathUnits({t}) BY <1>1, <2>1 DEF PathUnits
  <2> QED BY <1>1, <2>1, <2>2, <2>3, UnitsGrow DEF UnitsOf
<1>2. CASE Mech[t, k] # "project"
  <2>1. Mech[t, k] = "declare" BY <1>2, MechanismAssumption DEF MechanismAssumption, Reversible
  <2>2. UnitOf(t, k) = <<t, k>> BY <1>2 DEF UnitOf
  <2>3. <<t, k>> \in DeclareUnits({t}) BY <2>1 DEF DeclareUnits
  <2> QED BY <2>1, <2>2, <2>3, UnitsGrow DEF UnitsOf
<1> QED BY <1>1, <1>2

\* What a unit is to one of its tools.
LEMMA UnitKinds ==
  ASSUME NEW S, S \subseteq Tools, NEW u \in UnitsOf(S)
  PROVE  \E t \in S, k \in Reversible :
           Mech[t, k] # "unsupported" /\ u = UnitOf(t, k) /\ (u[1] # "dir" => k = u[2])
           /\ (u[1] = "dir" => k = "skills")
<1>1. CASE u \in DeclareUnits(S)
  <2>1. u[1] \in S /\ u[2] \in Reversible /\ u = <<u[1], u[2]>> /\ Mech[u] = "declare"
        /\ u[1] # "dir"
    BY <1>1, KeyShape
  <2>2. Mech[u[1], u[2]] = "declare" BY <2>1
  <2>3. u = UnitOf(u[1], u[2]) BY <2>1, <2>2 DEF UnitOf
  <2> QED BY <2>1, <2>2, <2>3
<1>2. CASE u \in PathUnits(S)
  <2>1. PICK t \in S : u = Dir(t) /\ Mech[t, "skills"] = "project" BY <1>2, PathShape
  <2>2. u = UnitOf(t, "skills") /\ "skills" \in Reversible /\ u[1] = "dir"
    BY <2>1 DEF UnitOf, Reversible, Dir
  <2> QED BY <2>1, <2>2
<1> QED BY <1>1, <1>2 DEF UnitsOf

\* A directory that tools share is a unit of each of them.
LEMMA SharedUnit ==
  ASSUME NEW t \in Tools, NEW r \in Tools, SkillsDir[t] = SkillsDir[r],
         Mech[t, "skills"] # "unsupported"
  PROVE  UnitOf(t, "skills") \in UnitsOf({r})
<1>1. CASE t = r BY <1>1, UnitsOfTool DEF Reversible
<1>2. CASE t # r
  <2>1. Mech[t, "skills"] = "project" /\ Mech[r, "skills"] = "project"
    BY <1>2, MechanismAssumption DEF MechanismAssumption
  <2>2. UnitOf(t, "skills") = Dir(r) BY <2>1 DEF UnitOf, Dir
  <2> QED BY <2>1, <2>2, UnitsOfTool DEF Reversible, UnitOf
<1> QED BY <1>1, <1>2

\* Another tool's unit is of a tool only when it is the directory they share.
LEMMA ForeignUnit ==
  ASSUME NEW t \in Tools, NEW r \in Tools, t # r, NEW k \in Reversible,
         Mech[t, k] # "unsupported", UnitOf(t, k) \in UnitsOf({r})
  PROVE  k = "skills" /\ SkillsDir[t] = SkillsDir[r]
<1>1. CASE UnitOf(t, k) = <<t, k>> /\ <<t, k>> \in DeclareUnits({t})
  <2>1. <<t, k>>[1] # "dir" BY <1>1, KeyShape
  <2>2. <<t, k>> \in DeclareUnits({r}) BY <1>1, <2>1, PathShape DEF UnitsOf
  <2>3. <<t, k>>[1] \in {r} BY <2>2, KeyShape
  <2> QED BY <2>3
<1>2. CASE k = "skills" /\ UnitOf(t, k) = Dir(t)
  <2>1. Dir(t)[1] = "dir" BY DEF Dir
  <2>4. Dir(t) \notin DeclareUnits({r}) BY <2>1, KeyShape
  <2>2. Dir(t) \in PathUnits({r}) BY <1>2, <2>4 DEF UnitsOf
  <2>3. PICK s \in {r} : Dir(t) = Dir(s) BY <2>2 DEF PathUnits
  <2> QED BY <1>2, <2>3 DEF Dir
<1> QED BY <1>1, <1>2, UnitsOfTool

\* The tools asked for are tools.
LEMMA Asked ==
  ASSUME NEW c, c.req \in Requests
  PROVE  Initial(c) \subseteq Tools /\ (c.req # "all" => c.req \in Tools /\ Initial(c) = {c.req})
  BY DEF Requests, Initial

-----------------------------------------------------------------------------
(* Records and state files.                                                *)

\* A record has the fields it was made of.
LEMMA RecordFields ==
  ASSUME NEW m, NEW h, NEW r
  PROVE  /\ Record(m, h, r).mech = m /\ Record(m, h, r).hash = h /\ Record(m, h, r).revoked = r
         /\ m \subseteq Concerns /\ DOMAIN h \subseteq Files /\ r \subseteq Irreversible
              => RecOK(Record(m, h, r))
  BY DEF Record, RecOK

\* The record that only remembers removals.
LEMMA RecoveryFields ==
  ASSUME NEW r, r \subseteq Irreversible
  PROVE  RecOK(Recovery(r)) /\ Recovery(r).revoked = r
<1> DEFINE old == Record({}, <<>>, r)
<1>1. DOMAIN <<>> = {} OBVIOUS
<1>2. RecOK(old) /\ old.mech = {} /\ old.hash = <<>> /\ old.revoked = r
  BY <1>1, RecordFields
<1>3. Recovery(r) = [old EXCEPT !.recovery = TRUE] BY DEF Recovery
<1> HIDE DEF old
<1>4. /\ DOMAIN Recovery(r) = DOMAIN old /\ Recovery(r).mech = old.mech
      /\ Recovery(r).hash = old.hash /\ Recovery(r).revoked = old.revoked
  BY <1>2, <1>3 DEF RecOK
<1> QED BY <1>2, <1>4 DEF RecOK

\* A hash that is not taken out stays what it was.
LEMMA WithoutFields ==
  ASSUME NEW f, NEW S
  PROVE  /\ DOMAIN Without(f, S) = DOMAIN f \ S
         /\ \A x \in DOMAIN f \ S : Without(f, S)[x] = f[x]
  BY DEF Without, Restrict

\* A record with other mechanisms and hashes.
Altered(rec, m, h, b) == [rec EXCEPT !.mech = m, !.hash = h, !.recovery = b]

\* It is a record still, with what it remembers of removals.
LEMMA RecordChanged ==
  ASSUME NEW rec, RecOK(rec), NEW m, m \subseteq Concerns, NEW S, NEW b, NEW h,
         h = Without(rec.hash, S)
  PROVE  /\ RecOK(Altered(rec, m, h, b)) /\ Altered(rec, m, h, b).mech = m
         /\ Altered(rec, m, h, b).revoked = rec.revoked /\ Altered(rec, m, h, b).hash = h
<1> DEFINE new == Altered(rec, m, h, b)
<1>1. DOMAIN rec = {"mech", "hash", "revoked", "recovery"} BY DEF RecOK
<1>2. /\ DOMAIN new = DOMAIN rec /\ new.mech = m /\ new.hash = h
      /\ new.revoked = rec.revoked
  BY <1>1 DEF Altered
<1>3. DOMAIN h = DOMAIN rec.hash \ S BY WithoutFields
<1>4. rec.revoked \subseteq Irreversible /\ DOMAIN rec.hash \subseteq Files BY DEF RecOK
<1> HIDE DEF new
<1>5. DOMAIN new.hash \subseteq Files BY <1>2, <1>3, <1>4
<1>6. RecOK(new) BY <1>1, <1>2, <1>4, <1>5 DEF RecOK
<1> QED BY <1>2, <1>6 DEF new

\* What the reconciliation of a tool with the cleared rows keeps of a record.
ReconcileKeeps(t, rec, ok, new) ==
  /\ RecOK(new) /\ new.revoked = rec.revoked
  /\ \A k \in rec.mech : UnitOf(t, k) \notin ok /\ Mech[t, k] # "unsupported" => k \in new.mech
  /\ \A f \in DOMAIN rec.hash :
       (\A k \in Reversible : UnitOf(t, k) \in ok => f # FileOfUnit(UnitOf(t, k)))
         => f \in DOMAIN new.hash /\ new.hash[f] = rec.hash[f]

\* It keeps all but what was cleared.
LEMMA ReconciledFields ==
  ASSUME NEW t, NEW rec, RecOK(rec), NEW ok
  PROVE  ReconcileKeeps(t, rec, ok, ReconciledRecord(t, rec, ok))
<1> DEFINE cleared == {k \in rec.mech \cap Reversible : UnitOf(t, k) \in ok}
           mech == {k \in rec.mech \ cleared : Mech[t, k] # "unsupported"}
           S == {FileOfUnit(UnitOf(t, k)) : k \in cleared}
           hash == Without(rec.hash, S)
           b == rec.recovery \/ (mech = {} /\ hash = <<>> /\ rec.revoked # {})
           new == Altered(rec, mech, hash, b)
<1>1. ReconciledRecord(t, rec, ok) = new BY DEF ReconciledRecord, Altered
<1>2. mech \subseteq Concerns BY DEF RecOK
<1>3. \A k \in rec.mech : UnitOf(t, k) \notin ok /\ Mech[t, k] # "unsupported" => k \in mech
  OBVIOUS
<1>4. ASSUME NEW f \in DOMAIN rec.hash,
             \A k \in Reversible : UnitOf(t, k) \in ok => f # FileOfUnit(UnitOf(t, k))
      PROVE  f \in DOMAIN hash /\ hash[f] = rec.hash[f]
  <2>1. f \in DOMAIN rec.hash \ S BY <1>4
  <2> HIDE DEF S
  <2>2. /\ DOMAIN Without(rec.hash, S) = DOMAIN rec.hash \ S
        /\ \A x \in DOMAIN rec.hash \ S : Without(rec.hash, S)[x] = rec.hash[x]
    BY WithoutFields
  <2> QED BY <2>1, <2>2
<1>5. hash = Without(rec.hash, S) OBVIOUS
<1> HIDE DEF mech, b, S, hash
<1>6. /\ RecOK(new) /\ new.mech = mech /\ new.revoked = rec.revoked /\ new.hash = hash
  BY <1>2, <1>5, RecordChanged
<1> HIDE DEF new
<1> QED BY <1>1, <1>3, <1>4, <1>6 DEF ReconcileKeeps

\* What a co-sharer that loses its skills keeps of a record.
DropKeeps(t, rec, new) ==
  /\ RecOK(new) /\ new.revoked = rec.revoked /\ new.mech = rec.mech \ {"skills"}
  /\ \A f \in DOMAIN rec.hash :
       f # SkillsDir[t] => f \in DOMAIN new.hash /\ new.hash[f] = rec.hash[f]

\* It keeps all but the skills and the hash of their directory.
LEMMA DropFields ==
  ASSUME NEW t, NEW rec, RecOK(rec), NEW e
  PROVE  DropKeeps(t, rec, DropSkills(t, rec, e))
<1> DEFINE mech == rec.mech \ {"skills"}
           S == {SkillsDir[t]}
           hash == Without(rec.hash, S)
           b == rec.recovery \/ (mech = {} /\ rec.revoked # {} /\ (e \/ hash = <<>>))
           new == Altered(rec, mech, hash, b)
<1>1. DropSkills(t, rec, e) = new BY DEF DropSkills, Altered
<1>2. mech \subseteq Concerns BY DEF RecOK
<1>3. ASSUME NEW f \in DOMAIN rec.hash, f # SkillsDir[t]
      PROVE  f \in DOMAIN hash /\ hash[f] = rec.hash[f]
  <2>1. f \in DOMAIN rec.hash \ S BY <1>3
  <2> HIDE DEF S
  <2>2. /\ DOMAIN Without(rec.hash, S) = DOMAIN rec.hash \ S
        /\ \A x \in DOMAIN rec.hash \ S : Without(rec.hash, S)[x] = rec.hash[x]
    BY WithoutFields
  <2> QED BY <2>1, <2>2
<1>4. hash = Without(rec.hash, S) OBVIOUS
<1> HIDE DEF b, S, hash
<1>5. /\ RecOK(new) /\ new.mech = mech /\ new.revoked = rec.revoked /\ new.hash = hash
  <2> HIDE DEF mech
  <2> QED BY <1>2, <1>4, RecordChanged
<1> HIDE DEF new
<1> QED BY <1>1, <1>3, <1>5 DEF DropKeeps

-----------------------------------------------------------------------------
(* State files.                                                            *)

\* What is written is a state file with these records.
LEMMA FileFields ==
  ASSUME NEW s \in Scenes, NEW tools, DOMAIN tools \subseteq Tools,
         \A t \in DOMAIN tools : RecOK(tools[t])
  PROVE  LET new == File(s, tools)
         IN  /\ StateOK(new) /\ DOMAIN new.tools = DOMAIN tools
             /\ \A t \in DOMAIN tools : new.tools[t] = tools[t] /\ new.scene = s
<1>1. CASE DOMAIN tools = {}
  <2>1. File(s, tools) = NoState BY <1>1 DEF File
  <2>2. DOMAIN NoState.tools = {} BY DEF NoState
  <2> QED BY <1>1, <2>1, <2>2 DEF StateOK
<1>2. CASE DOMAIN tools # {}
  <2>1. File(s, tools) = [scene |-> s, tools |-> tools] BY <1>2 DEF File
  <2> QED BY <1>2, <2>1 DEF StateOK
<1> QED BY <1>1, <1>2

\* A record that says something is kept.
LEMMA KeptFields ==
  ASSUME NEW tools
  PROVE  /\ DOMAIN Kept(tools) \subseteq DOMAIN tools
         /\ \A t \in DOMAIN Kept(tools) : Kept(tools)[t] = tools[t]
         /\ \A t \in DOMAIN tools :
              (tools[t].mech # {} \/ tools[t].revoked # {} \/ DOMAIN tools[t].hash # {})
                => t \in DOMAIN Kept(tools)
<1> DEFINE S == {t \in DOMAIN tools : ~EmptyRec(tools[t]) \/ tools[t].revoked # {}}
<1>1. Kept(tools) = Restrict(tools, S) BY DEF Kept
<1>2. DOMAIN Restrict(tools, S) = S /\ \A t \in S : Restrict(tools, S)[t] = tools[t]
  BY DEF Restrict
<1>3. DOMAIN <<>> = {} OBVIOUS
<1>4. ASSUME NEW t \in DOMAIN tools,
             tools[t].mech # {} \/ tools[t].revoked # {} \/ DOMAIN tools[t].hash # {}
      PROVE  t \in S
  <2>1. CASE tools[t].revoked # {} BY <2>1
  <2>2. CASE tools[t].mech # {} BY <2>2 DEF EmptyRec
  <2>3. CASE DOMAIN tools[t].hash # {} BY <2>3, <1>3 DEF EmptyRec
  <2> QED BY <1>4, <2>1, <2>2, <2>3
<1> QED BY <1>1, <1>2, <1>4

\* A state file names tools, each with a record.
LEMMA StateFields ==
  ASSUME NEW st, StateOK(st)
  PROVE  /\ DOMAIN st.tools \subseteq Tools /\ \A t \in DOMAIN st.tools : RecOK(st.tools[t])
         /\ DOMAIN st.tools # {} => st.scene \in Scenes
         /\ (st # NoState) <=> (DOMAIN st.tools # {})
<1>1. DOMAIN NoState.tools = {} BY DEF NoState
<1> QED BY <1>1 DEF StateOK

\* A file written with kept records: it has every record that says something.
LEMMA KeptFile ==
  ASSUME NEW s, NEW tools, DOMAIN tools \subseteq Tools, DOMAIN tools # {} => s \in Scenes,
         \A t \in DOMAIN tools : RecOK(tools[t])
  PROVE  LET new == File(s, Kept(tools))
         IN  /\ StateOK(new) /\ DOMAIN new.tools \subseteq DOMAIN tools
             /\ \A t \in DOMAIN new.tools : new.tools[t] = tools[t] /\ new.scene = s
             /\ \A t \in DOMAIN tools :
                  (tools[t].mech # {} \/ tools[t].revoked # {} \/ DOMAIN tools[t].hash # {})
                    => t \in DOMAIN new.tools
<1> DEFINE kept == Kept(tools)
<1>1. /\ DOMAIN kept \subseteq DOMAIN tools /\ \A t \in DOMAIN kept : kept[t] = tools[t]
      /\ \A t \in DOMAIN tools :
           (tools[t].mech # {} \/ tools[t].revoked # {} \/ DOMAIN tools[t].hash # {})
             => t \in DOMAIN kept
  BY KeptFields
<1> SUFFICES LET new == File(s, kept)
             IN  /\ StateOK(new) /\ DOMAIN new.tools = DOMAIN kept
                 /\ \A t \in DOMAIN kept : new.tools[t] = kept[t] /\ new.scene = s
  BY <1>1
<1> HIDE DEF kept
<1>2. CASE DOMAIN kept = {}
  <2>1. File(s, kept) = NoState BY <1>2 DEF File
  <2>2. DOMAIN NoState.tools = {} BY DEF NoState
  <2> QED BY <1>2, <2>1, <2>2 DEF StateOK
<1>3. CASE DOMAIN kept # {}
  <2>1. s \in Scenes /\ DOMAIN kept \subseteq Tools /\ \A t \in DOMAIN kept : RecOK(kept[t])
    BY <1>1, <1>3
  <2> QED BY <2>1, FileFields
<1> QED BY <1>2, <1>3

\* What changes a record without losing what it says keeps what was on record: a removal, ...
LEMMA OnRecKept ==
  ASSUME NEW st, NEW new, NEW p \in OnRec(st), p[1] \in DOMAIN new.tools,
         st.tools[p[1]].revoked \subseteq new.tools[p[1]].revoked
  PROVE  p \in OnRec(new)
  BY DEF OnRec

\* What a partial clear leaves: what was not cleared is covered, every removal is on record, and
\* the keys of tools that were not cleared have their hashes.
LEMMA ReconciledState ==
  ASSUME NEW st, StateOK(st), NEW ok
  PROVE  LET new == Reconciled(st, ok)
         IN  /\ StateOK(new) /\ \A t \in DOMAIN new.tools : new.scene = st.scene
             /\ \A u : Covered(st, u) /\ u \notin ok => Covered(new, u)
             /\ OnRec(st) \subseteq OnRec(new)
             /\ \A rev, u : u \in Keys /\ rev \subseteq Tools /\ ok \subseteq UnitsOf(rev)
                              /\ u[1] \notin rev /\ HasHash(st, u)
                              => HasHash(new, u) /\ HashOf(new, u) = HashOf(st, u)
<1> DEFINE rec(t) == ReconciledRecord(t, st.tools[t], ok)
           tools == [t \in DOMAIN st.tools |-> rec(t)]
           new == File(st.scene, Kept(tools))
<1>0. Reconciled(st, ok) = new BY DEF Reconciled
<1>1. /\ DOMAIN st.tools \subseteq Tools /\ \A t \in DOMAIN st.tools : RecOK(st.tools[t])
      /\ DOMAIN st.tools # {} => st.scene \in Scenes
  BY StateFields
<1>2. \A t \in DOMAIN st.tools : ReconcileKeeps(t, st.tools[t], ok, rec(t))
  BY <1>1, ReconciledFields
<1> HIDE DEF rec
<1>3. DOMAIN tools = DOMAIN st.tools /\ \A t \in DOMAIN st.tools : tools[t] = rec(t) OBVIOUS
<1> HIDE DEF tools
<1>4. /\ StateOK(new) /\ DOMAIN new.tools \subseteq DOMAIN tools
      /\ \A t \in DOMAIN new.tools : new.tools[t] = tools[t] /\ new.scene = st.scene
      /\ \A t \in DOMAIN tools :
           (tools[t].mech # {} \/ tools[t].revoked # {} \/ DOMAIN tools[t].hash # {})
             => t \in DOMAIN new.tools
  <2>1. /\ DOMAIN tools \subseteq Tools /\ \A t \in DOMAIN tools : RecOK(tools[t])
        /\ DOMAIN tools # {} => st.scene \in Scenes
    BY <1>1, <1>2, <1>3 DEF ReconcileKeeps
  <2> QED BY <2>1, KeptFile
<1> HIDE DEF new
<1>5. ASSUME NEW u, Covered(st, u), u \notin ok PROVE Covered(new, u)
  <2>1. PICK t \in DOMAIN st.tools, k \in Reversible :
          k \in st.tools[t].mech /\ Mech[t, k] # "unsupported" /\ u = UnitOf(t, k)
    BY <1>5 DEF Covered
  <2>2. k \in tools[t].mech BY <1>2, <1>3, <1>5, <2>1 DEF ReconcileKeeps
  <2>3. t \in DOMAIN new.tools /\ k \in new.tools[t].mech BY <1>3, <1>4, <2>1, <2>2
  <2> QED BY <2>1, <2>3 DEF Covered
<1>6. ASSUME NEW p \in OnRec(st) PROVE p \in OnRec(new)
  <2>1. p \in Removable /\ p[1] \in DOMAIN st.tools /\ p[2] \in st.tools[p[1]].revoked
    BY DEF OnRec
  <2>2. p[2] \in tools[p[1]].revoked BY <1>2, <1>3, <2>1 DEF ReconcileKeeps
  <2>3. p[1] \in DOMAIN new.tools /\ p[2] \in new.tools[p[1]].revoked
    BY <1>3, <1>4, <2>1, <2>2
  <2> QED BY <2>1, <2>3 DEF OnRec
<1>7. ASSUME NEW rev, NEW u, u \in Keys, rev \subseteq Tools, ok \subseteq UnitsOf(rev),
             u[1] \notin rev, HasHash(st, u)
      PROVE  HasHash(new, u) /\ HashOf(new, u) = HashOf(st, u)
  <2> DEFINE t == u[1] f == FileOf[u]
  <2>1. t \in DOMAIN st.tools /\ f \in DOMAIN st.tools[t].hash BY <1>7 DEF HasHash
  <2>2. /\ u \in Tools \X Concerns /\ t \in Tools
    BY <1>7, KeyShape DEF Keys, Concerns
  <2>3. ASSUME NEW k \in Reversible, UnitOf(t, k) \in ok PROVE f # FileOfUnit(UnitOf(t, k))
    <3>1. UnitOf(t, k) \in UnitsOf(rev) BY <1>7, <2>3
    <3>2. CASE UnitOf(t, k) \in DeclareUnits(rev)
      <4>1. UnitOf(t, k)[1] \in rev /\ UnitOf(t, k)[1] # "dir" BY <1>7, <3>2, KeyShape
      <4>2. UnitOf(t, k) = <<t, k>> BY <4>1 DEF UnitOf, Dir
      <4> QED BY <1>7, <4>1, <4>2
    <3>3. CASE UnitOf(t, k) \in PathUnits(rev)
      <4>1. PICK s \in rev : UnitOf(t, k) = Dir(s) BY <3>3 DEF PathUnits
      <4>2. FileOfUnit(UnitOf(t, k)) = SkillsDir[s] BY <4>1 DEF FileOfUnit, Dir
      <4> QED BY <1>7, <2>2, <4>2, MechanismAssumption DEF MechanismAssumption
    <3> QED BY <3>1, <3>2, <3>3 DEF UnitsOf
  <2>4. f \in DOMAIN tools[t].hash /\ tools[t].hash[f] = st.tools[t].hash[f]
    BY <1>2, <1>3, <2>1, <2>3 DEF ReconcileKeeps
  <2>5. t \in DOMAIN new.tools /\ new.tools[t] = tools[t] BY <1>3, <1>4, <2>1, <2>4
  <2> QED BY <2>4, <2>5 DEF HasHash, HashOf
<1> QED BY <1>0, <1>4, <1>5, <1>6, <1>7

\* What a tool that shares the directory with the tool asked for has on record of its own.
LEMMA SharerKeeps ==
  ASSUME NEW c, c.req \in Tools, NEW t \in Sharers(Initial(c), Tools), NEW k \in Reversible,
         Mech[t, k] # "unsupported", UnitOf(t, k) \notin UnitsOf({c.req})
  PROVE  k # "skills"
<1>1. CASE c.req = "all"
  BY <1>1, SceneActivationAssumption DEF SceneActivationAssumption
<1>2. CASE c.req # "all"
  <2>1. Initial(c) = {c.req} BY <1>2 DEF Initial
  <2>2. t \in Tools /\ SkillsDir[t] = SkillsDir[c.req] BY <2>1 DEF Sharers
  <2> QED BY <2>2, SharedUnit
<1> QED BY <1>1, <1>2

\* What a rollback leaves: the keys and directories that are not of the tools asked for are
\* covered, and every removal is on record.
LEMMA RestoredFields ==
  ASSUME NEW c, UseOK(c)
  PROVE  LET new == RestoredState(c)
         IN  /\ StateOK(new) /\ \A t \in DOMAIN new.tools : new.scene = c.active.scene
             /\ \A u \in Units : Covered(c.active, u) /\ u \notin UnitsOf(Initial(c))
                                   => Covered(new, u)
             /\ OnRec(c.active) \subseteq OnRec(new)
<1> DEFINE old == c.active.tools
           shared == (SharedScope(c) \cup c.sharers) \ c.rev
           gone == {t \in DOMAIN old \cap c.rev : old[t].revoked = {}}
           rec(t) == IF t \in c.rev THEN Recovery(old[t].revoked)
                     ELSE IF t \in shared THEN DropSkills(t, old[t], TRUE) ELSE old[t]
           tools == [t \in DOMAIN old \ gone |-> rec(t)]
           new == File(c.active.scene, Kept(tools))
<1>0. RestoredState(c) = new BY DEF RestoredState
<1>1. /\ DOMAIN old \subseteq Tools /\ \A t \in DOMAIN old : RecOK(old[t])
      /\ DOMAIN old # {} => c.active.scene \in Scenes
      /\ c.req \in Requests
  BY StateFields DEF UseOK
<1>2. c.rev \subseteq Initial(c)
  <2>1. c.req = "all" => c.rev \subseteq Tools BY <1>1 DEF UseOK
  <2>2. c.req # "all" => c.rev \subseteq {c.req} BY DEF UseOK
  <2> QED BY <1>1, <2>1, <2>2, Asked DEF Initial
<1>3. shared \subseteq Sharers(Initial(c), Tools)
  <2> HIDE DEF tools, gone, rec, old
  <2>1. Initial(c) \subseteq Sharers(Initial(c), Tools) BY DEF Sharers
  <2>2. c.sharers \subseteq Sharers(Initial(c), Tools) BY Zenon DEF UseOK
  <2> QED BY <2>1, <2>2 DEF SharedScope
<1>4. \A t \in DOMAIN old : /\ RecOK(rec(t)) /\ rec(t).revoked = old[t].revoked
                            /\ t \notin c.rev => old[t].mech \ {"skills"} \subseteq rec(t).mech
                            /\ t \notin c.rev /\ t \notin shared => rec(t) = old[t]
  <2> TAKE t \in DOMAIN old
  <2>1. RecOK(old[t]) BY <1>1
  <2>2. RecOK(Recovery(old[t].revoked)) /\ Recovery(old[t].revoked).revoked = old[t].revoked
    BY <2>1, RecoveryFields DEF RecOK
  <2>3. DropKeeps(t, old[t], DropSkills(t, old[t], TRUE)) BY <2>1, DropFields
  <2> QED BY <2>1, <2>2, <2>3 DEF DropKeeps
<1> HIDE DEF rec, shared
<1>5. DOMAIN tools = DOMAIN old \ gone /\ \A t \in DOMAIN old \ gone : tools[t] = rec(t)
  OBVIOUS
<1>g. \A t \in gone : t \in c.rev /\ old[t].revoked = {} OBVIOUS
<1> HIDE DEF tools, gone
<1>6. /\ StateOK(new) /\ DOMAIN new.tools \subseteq DOMAIN tools
      /\ \A t \in DOMAIN new.tools : new.tools[t] = tools[t] /\ new.scene = c.active.scene
      /\ \A t \in DOMAIN tools :
           (tools[t].mech # {} \/ tools[t].revoked # {} \/ DOMAIN tools[t].hash # {})
             => t \in DOMAIN new.tools
  <2>1. /\ DOMAIN tools \subseteq Tools /\ \A t \in DOMAIN tools : RecOK(tools[t])
        /\ DOMAIN tools # {} => c.active.scene \in Scenes
    BY <1>1, <1>4, <1>5
  <2> QED BY <2>1, KeptFile
<1> HIDE DEF new
<1>7. ASSUME NEW u \in Units, Covered(c.active, u), u \notin UnitsOf(Initial(c))
      PROVE  Covered(new, u)
  <2>1. PICK t \in DOMAIN old, k \in Reversible :
          k \in old[t].mech /\ Mech[t, k] # "unsupported" /\ u = UnitOf(t, k)
    BY <1>7 DEF Covered
  <2>2. c.req \in Tools /\ Initial(c) = {c.req}
    BY <1>1, <1>7, Asked DEF Initial, Units
  <2>3. t \notin c.rev
    <3>1. SUFFICES ASSUME t \in c.rev PROVE FALSE OBVIOUS
    <3>2. t = c.req BY <1>2, <2>2, <3>1
    <3>3. u \in UnitsOf({t}) BY <1>1, <2>1, UnitsOfTool
    <3> QED BY <1>7, <2>2, <3>2, <3>3
  <2>4. k \in rec(t).mech
    <3>1. CASE t \notin shared BY <1>4, <2>1, <2>3, <3>1
    <3>2. CASE t \in shared
      <4>1. k # "skills" BY <1>3, <1>7, <2>1, <2>2, <3>2, SharerKeeps
      <4> QED BY <1>4, <2>1, <2>3, <4>1
    <3> QED BY <3>1, <3>2
  <2>5. t \in DOMAIN new.tools /\ k \in new.tools[t].mech
    BY <1>5, <1>6, <1>g, <2>1, <2>3, <2>4
  <2> QED BY <2>1, <2>5 DEF Covered
<1>8. ASSUME NEW p \in OnRec(c.active) PROVE p \in OnRec(new)
  <2>1. p \in Removable /\ p[1] \in DOMAIN old /\ p[2] \in old[p[1]].revoked BY DEF OnRec
  <2>2. p[1] \in DOMAIN tools /\ p[2] \in tools[p[1]].revoked BY <1>4, <1>5, <1>g, <2>1
  <2>3. p[1] \in DOMAIN new.tools /\ p[2] \in new.tools[p[1]].revoked BY <1>6, <2>2
  <2> QED BY <2>1, <2>3 DEF OnRec
<1> QED BY <1>0, <1>6, <1>7, <1>8

\* What the end of a clear leaves: the tools that were not cleared keep all but the directory
\* they share with one that was.
LEMMA ClearedFields ==
  ASSUME NEW c, ClearOK(c), c.active = state
  PROVE  LET new == ClearedState(c)
         IN  /\ StateOK(new) /\ \A t \in DOMAIN new.tools : new.scene = state.scene
             /\ \A u \in Units : Covered(state, u) /\ u \notin UnitsOf(c.rev) => Covered(new, u)
             /\ \A p \in OnRec(state) : p[1] \notin c.rev => p \in OnRec(new)
             /\ \A u \in Keys : u[1] \notin c.rev /\ HasHash(state, u)
                                  => HasHash(new, u) /\ HashOf(new, u) = HashOf(state, u)
<1>1. /\ Recorded \subseteq Tools /\ \A t \in Recorded : RecOK(state.tools[t])
      /\ Recorded # {} => state.scene \in Scenes
      /\ c.req \in Requests
  BY StateFields DEF ClearOK, Recorded
<1>2. CASE c.req = "all"
  <2>1. ClearedState(c) = NoState BY <1>2 DEF ClearedState
  <2>2. c.rev = Recorded BY <1>2 DEF ClearOK, Recorded
  <2>3. ASSUME NEW u \in Units, Covered(state, u) PROVE u \in UnitsOf(c.rev)
    <3>1. PICK t \in Recorded, k \in Reversible :
            k \in state.tools[t].mech /\ Mech[t, k] # "unsupported" /\ u = UnitOf(t, k)
      BY <2>3 DEF Covered, Recorded
    <3>2. u \in UnitsOf({t}) BY <1>1, <3>1, UnitsOfTool
    <3>3. {t} \subseteq Recorded OBVIOUS
    <3> QED BY <1>1, <2>2, <3>2, <3>3, UnitsGrow
  <2>4. \A p \in OnRec(state) : p[1] \in c.rev BY <2>2 DEF OnRec, Recorded
  <2>5. \A u : HasHash(state, u) => u[1] \in c.rev BY <2>2 DEF HasHash, Recorded
  <2>6. StateOK(NoState) /\ DOMAIN NoState.tools = {} BY DEF StateOK, NoState
  <2> QED BY <2>1, <2>3, <2>4, <2>5, <2>6
<1>3. CASE c.req # "all"
  <2> DEFINE rec(t) == IF t \in c.sharers THEN DropSkills(t, state.tools[t], FALSE)
                       ELSE state.tools[t]
             tools == [t \in Recorded \ c.rev |-> rec(t)]
             new == File(state.scene, Kept(tools))
  <2>0. ClearedState(c) = new BY <1>3 DEF ClearedState
  <2>1. c.rev = {c.req} /\ c.req \in Tools BY <1>1, <1>3, Asked DEF ClearOK
  <2>2. \A t \in Recorded :
          /\ RecOK(rec(t)) /\ rec(t).revoked = state.tools[t].revoked
          /\ state.tools[t].mech \ {"skills"} \subseteq rec(t).mech
          /\ t \notin c.sharers => rec(t) = state.tools[t]
          /\ \A f \in DOMAIN state.tools[t].hash :
               f # SkillsDir[t] => f \in DOMAIN rec(t).hash
                                   /\ rec(t).hash[f] = state.tools[t].hash[f]
    <3> TAKE t \in Recorded
    <3>1. RecOK(state.tools[t]) BY <1>1
    <3>2. DropKeeps(t, state.tools[t], DropSkills(t, state.tools[t], FALSE)) BY <3>1, DropFields
    <3> QED BY <3>1, <3>2 DEF DropKeeps
  <2> HIDE DEF rec
  <2>3. DOMAIN tools = Recorded \ c.rev /\ \A t \in Recorded \ c.rev : tools[t] = rec(t)
    OBVIOUS
  <2> HIDE DEF tools
  <2>4. /\ StateOK(new) /\ DOMAIN new.tools \subseteq DOMAIN tools
        /\ \A t \in DOMAIN new.tools : new.tools[t] = tools[t] /\ new.scene = state.scene
        /\ \A t \in DOMAIN tools :
             (tools[t].mech # {} \/ tools[t].revoked # {} \/ DOMAIN tools[t].hash # {})
               => t \in DOMAIN new.tools
    <3>1. /\ DOMAIN tools \subseteq Tools /\ \A t \in DOMAIN tools : RecOK(tools[t])
          /\ DOMAIN tools # {} => state.scene \in Scenes
      BY <1>1, <2>2, <2>3
    <3> QED BY <3>1, KeptFile
  <2> HIDE DEF new
  <2>5. ASSUME NEW u \in Units, Covered(state, u), u \notin UnitsOf(c.rev)
        PROVE  Covered(new, u)
    <3>1. PICK t \in Recorded, k \in Reversible :
            k \in state.tools[t].mech /\ Mech[t, k] # "unsupported" /\ u = UnitOf(t, k)
      BY <2>5 DEF Covered, Recorded
    <3>2. t \notin c.rev
      <4>1. u \in UnitsOf({t}) BY <1>1, <3>1, UnitsOfTool
      <4> QED BY <2>1, <2>5, <4>1
    <3>3. k \in rec(t).mech
      <4>1. CASE t \notin c.sharers BY <2>2, <3>1, <4>1
      <4>2. CASE t \in c.sharers
        <5>1. t \in Sharers(Initial(c), Tools) BY <4>2 DEF ClearOK
        <5>2. k # "skills" BY <2>1, <2>5, <3>1, <5>1, SharerKeeps
        <5> QED BY <2>2, <3>1, <5>2
      <4> QED BY <4>1, <4>2
    <3>4. t \in DOMAIN new.tools /\ k \in new.tools[t].mech BY <2>3, <2>4, <3>2, <3>3
    <3> QED BY <3>1, <3>4 DEF Covered
  <2>6. ASSUME NEW p \in OnRec(state), p[1] \notin c.rev PROVE p \in OnRec(new)
    <3>1. p \in Removable /\ p[1] \in Recorded /\ p[2] \in state.tools[p[1]].revoked
      BY DEF OnRec, Recorded
    <3>2. p[1] \in DOMAIN tools /\ p[2] \in tools[p[1]].revoked BY <2>2, <2>3, <2>6, <3>1
    <3>3. p[1] \in DOMAIN new.tools /\ p[2] \in new.tools[p[1]].revoked BY <2>4, <3>2
    <3> QED BY <3>1, <3>3 DEF OnRec
  <2>7. ASSUME NEW u \in Keys, u[1] \notin c.rev, HasHash(state, u)
        PROVE  HasHash(new, u) /\ HashOf(new, u) = HashOf(state, u)
    <3> DEFINE t == u[1] f == FileOf[u]
    <3>1. t \in Recorded /\ f \in DOMAIN state.tools[t].hash BY <2>7 DEF HasHash, Recorded
    <3>2. u \in Tools \X Concerns /\ t \in Tools BY KeyShape DEF Keys, Concerns
    <3>3. f # SkillsDir[t] BY <3>2, MechanismAssumption DEF MechanismAssumption
    <3>4. f \in DOMAIN tools[t].hash /\ tools[t].hash[f] = state.tools[t].hash[f]
      BY <2>2, <2>3, <2>7, <3>1, <3>3
    <3>5. t \in DOMAIN new.tools /\ new.tools[t] = tools[t] BY <2>3, <2>4, <2>7, <3>1, <3>4
    <3> QED BY <3>4, <3>5 DEF HasHash, HashOf
  <2> QED BY <2>0, <2>4, <2>5, <2>6, <2>7
<1> QED BY <1>2, <1>3

\* What an activation writes about a tool: what the scene selects, what it removed, and the
\* hashes of the files it changed.
BuiltKeeps(c, t, rec) ==
  /\ RecOK(rec)
  /\ t \in Initial(c) => Declares[c.scene] \subseteq rec.mech
  /\ \A p \in c.gone : p[1] = t => p[2] \in rec.revoked
  /\ \A u \in Keys : u[1] = t /\ u \in c.hashed =>
       FileOf[u] \in DOMAIN rec.hash /\ rec.hash[FileOf[u]].user = uver[FileOf[u]]
  /\ t \notin Initial(c) => \A u \in Keys : FileOf[u] \notin DOMAIN rec.hash

\* A removed entry is a pair of a tool and a concern with a settings file.
LEMMA RemovedShape ==
  ASSUME NEW p \in Removable
  PROVE  p[1] \in Tools /\ p[2] \in Irreversible /\ p = <<p[1], p[2]>>
         /\ p \in Tools \X Concerns /\ FileOf[p] \in Files
<1>1. p \in Tools \X Irreversible
  BY SceneActivationAssumption DEF Removable, SceneActivationAssumption
<1>2. p \in Tools \X Concerns BY <1>1 DEF Concerns
<1>3. p \in DOMAIN FileOf
  BY <1>2, SceneActivationAssumption DEF SceneActivationAssumption
<1>4. FileOf[p] \in Files BY <1>3 DEF Files, Range
<1> QED BY <1>1, <1>2, <1>4

\* The record of an activation says all of that.
LEMMA BuiltFields ==
  ASSUME NEW c, UseOK(c), NEW t \in Tools
  PROVE  BuiltKeeps(c, t, BuiltRecord(c, t))
<1> DEFINE m == (IF t \in Initial(c) THEN Declares[c.scene] ELSE {})
                   \cup (Declares[c.scene] \cap {"skills"})
           F1 == {FileOfUnit(u) : u \in {w \in c.hashed : w[1] = t}}
           F2 == {FileOf[p] : p \in {q \in c.gone : q[1] = t}}
           F3 == {d \in {SkillsDir[t]} : <<"dir", d>> \in c.hashed}
           h == [f \in F1 \cup F2 \cup F3 |-> ContentHash(f)]
           r == {p[2] : p \in {q \in c.gone : q[1] = t}}
           rec == Record(m, h, r)
<1>0. BuiltRecord(c, t) = rec BY DEF BuiltRecord
<1>1. /\ c.scene \in Scenes /\ c.req \in Requests /\ c.hashed \subseteq UnitsOf(Initial(c))
      /\ c.gone \subseteq {p \in Removable : p[1] \in Initial(c)}
  BY DEF UseOK
<1>2. Initial(c) \subseteq Tools /\ c.hashed \subseteq Units
  BY <1>1, Asked, UnitsGrow
<1>3. m \subseteq Concerns
  BY <1>1, SceneActivationAssumption DEF SceneActivationAssumption
<1>4. r \subseteq Irreversible BY <1>1, RemovedShape
<1>5. F1 \subseteq Files BY <1>2 DEF Files
<1>6. F2 \subseteq Files BY <1>1, RemovedShape
<1>7. F3 \subseteq Files
  <2>1. \A d : FileOfUnit(<<"dir", d>>) = d BY DEF FileOfUnit
  <2> QED BY <1>2, <2>1 DEF Files
<1>8. DOMAIN h = F1 \cup F2 \cup F3 /\ \A f \in F1 \cup F2 \cup F3 : h[f] = ContentHash(f)
  OBVIOUS
<1>m. t \in Initial(c) => Declares[c.scene] \subseteq m OBVIOUS
<1>r. \A p \in c.gone : p[1] = t => p[2] \in r OBVIOUS
<1>f. ASSUME NEW u \in Keys, u[1] = t, u \in c.hashed
      PROVE  FileOf[u] \in F1
  BY <1>f, KeyShape DEF Keys
<1>n. ASSUME t \notin Initial(c), NEW u \in Keys PROVE FileOf[u] \notin F1 \cup F2 \cup F3
  <2>1. F1 = {}
    <3>1. SUFFICES ASSUME NEW w \in c.hashed, w[1] = t PROVE FALSE OBVIOUS
    <3>2. w \in UnitsOf(Initial(c)) BY <1>1
    <3>3. CASE w \in DeclareUnits(Initial(c)) BY <1>2, <1>n, <3>1, <3>3, KeyShape
    <3>4. CASE w \in PathUnits(Initial(c))
      <4>1. w[1] = "dir" BY <1>2, <3>4, PathShape
      <4> QED BY <3>1, <4>1, SceneActivationAssumption DEF SceneActivationAssumption
    <3> QED BY <3>2, <3>3, <3>4 DEF UnitsOf
  <2>2. F2 = {} BY <1>1, <1>n
  <2>3. u \in Tools \X Concerns BY KeyShape DEF Keys, Concerns
  <2>4. FileOf[u] # SkillsDir[t] BY <2>3, MechanismAssumption DEF MechanismAssumption
  <2> QED BY <2>1, <2>2, <2>4
<1>9. \A f : ContentHash(f).user = uver[f] BY DEF ContentHash
<1> HIDE DEF m, F1, F2, F3, r, h
<1>10. DOMAIN h \subseteq Files BY <1>5, <1>6, <1>7, <1>8
<1>11. RecOK(rec) /\ rec.mech = m /\ rec.hash = h /\ rec.revoked = r
  BY <1>3, <1>4, <1>10, RecordFields
<1> HIDE DEF rec
<1>12. \A u \in Keys : u[1] = t /\ u \in c.hashed =>
         FileOf[u] \in DOMAIN rec.hash /\ rec.hash[FileOf[u]].user = uver[FileOf[u]]
  BY <1>8, <1>9, <1>f, <1>11
<1>13. t \notin Initial(c) => \A u \in Keys : FileOf[u] \notin DOMAIN rec.hash
  BY <1>8, <1>n, <1>11
<1>14. BuiltKeeps(c, t, rec) BY <1>m, <1>r, <1>11, <1>12, <1>13 DEF BuiltKeeps
<1> QED BY <1>0, <1>14

\* What the merge with the record of the same scene keeps.
LEMMA MergedFields ==
  ASSUME NEW old, RecOK(old), NEW rec, RecOK(rec)
  PROVE  /\ RecOK(MergedRecord(old, rec))
         /\ old.mech \subseteq MergedRecord(old, rec).mech
         /\ old.revoked \subseteq MergedRecord(old, rec).revoked
         /\ \A f \in DOMAIN old.hash \ DOMAIN rec.hash :
              /\ f \in DOMAIN MergedRecord(old, rec).hash
              /\ MergedRecord(old, rec).hash[f] = old.hash[f]
<1> DEFINE m == old.mech \cup rec.mech
           h == [f \in DOMAIN old.hash \cup DOMAIN rec.hash |->
                   IF f \in DOMAIN rec.hash THEN rec.hash[f] ELSE old.hash[f]]
           r == old.revoked \cup rec.revoked
<1>1. MergedRecord(old, rec) = Record(m, h, r) BY DEF MergedRecord
<1>2. m \subseteq Concerns /\ r \subseteq Irreversible /\ DOMAIN h \subseteq Files
  BY DEF RecOK
<1>3. \A f \in DOMAIN old.hash \ DOMAIN rec.hash : f \in DOMAIN h /\ h[f] = old.hash[f]
  OBVIOUS
<1>4. old.mech \subseteq m /\ old.revoked \subseteq r OBVIOUS
<1> HIDE DEF m, h, r
<1>5. /\ Record(m, h, r).mech = m /\ Record(m, h, r).hash = h /\ Record(m, h, r).revoked = r
      /\ RecOK(Record(m, h, r))
  BY <1>2, RecordFields
<1> QED BY <1>1, <1>3, <1>4, <1>5

\* A record that remembers more removals.
LEMMA RevokedMore ==
  ASSUME NEW rec, RecOK(rec), NEW r, r \subseteq Irreversible
  PROVE  LET new == [rec EXCEPT !.revoked = @ \cup r]
         IN  /\ RecOK(new) /\ new.mech = rec.mech /\ new.hash = rec.hash
             /\ new.revoked = rec.revoked \cup r
<1> DEFINE new == [rec EXCEPT !.revoked = @ \cup r]
<1>1. DOMAIN rec = {"mech", "hash", "revoked", "recovery"} BY DEF RecOK
<1>2. /\ DOMAIN new = DOMAIN rec /\ new.mech = rec.mech /\ new.hash = rec.hash
      /\ new.revoked = rec.revoked \cup r
  BY <1>1
<1> HIDE DEF new
<1>3. RecOK(new) BY <1>1, <1>2 DEF RecOK
<1> QED BY <1>2, <1>3 DEF new

\* What the records of an activation are once merged with those of the same scene.
MergedTools(c) ==
  IF c.active.scene = c.scene THEN Merged(c, BuiltTools(c)) ELSE BuiltTools(c)

\* The tools asked for have what the activation built, the others of the same scene what they had.
LEMMA MergedState ==
  ASSUME NEW c, UseOK(c)
  PROVE  LET new == MergedTools(c)
             old == c.active.tools
         IN  /\ DOMAIN new \subseteq Tools /\ \A t \in DOMAIN new : RecOK(new[t])
             /\ \A t \in Initial(c) : t \in DOMAIN new /\ BuiltKeeps(c, t, new[t])
             /\ c.active.scene = c.scene => \A t \in DOMAIN old \ Initial(c) :
                  /\ t \in DOMAIN new /\ old[t].mech \subseteq new[t].mech
                  /\ \A u \in Keys : FileOf[u] \in DOMAIN old[t].hash =>
                       FileOf[u] \in DOMAIN new[t].hash
                       /\ new[t].hash[FileOf[u]] = old[t].hash[FileOf[u]]
<1> DEFINE old == c.active.tools
           built == BuiltTools(c)
           new == MergedTools(c)
<1>1. /\ DOMAIN old \subseteq Tools /\ \A t \in DOMAIN old : RecOK(old[t])
  BY StateFields DEF UseOK
<1>2. Initial(c) \subseteq SharedScope(c) /\ SharedScope(c) \subseteq Tools
  <2>1. Initial(c) \subseteq Tools BY Asked DEF UseOK
  <2> QED BY <2>1 DEF SharedScope, Sharers
<1>3. DOMAIN built = SharedScope(c)
      /\ \A t \in SharedScope(c) : built[t] = BuiltRecord(c, t)
  BY DEF BuiltTools
<1>4. \A t \in SharedScope(c) : BuiltKeeps(c, t, built[t])
  BY <1>2, <1>3, BuiltFields
<1> HIDE DEF built
<1>5. \A t \in SharedScope(c) : RecOK(built[t]) BY <1>4 DEF BuiltKeeps
<1>6. CASE c.active.scene # c.scene
  <2>1. new = built BY <1>6 DEF MergedTools, built
  <2> HIDE DEF new
  <2> QED BY <1>2, <1>3, <1>4, <1>5, <1>6, <2>1 DEF new
<1>7. CASE c.active.scene = c.scene
  <2>1. new = Merged(c, built) BY <1>7 DEF MergedTools, built
  <2>2. DOMAIN new = DOMAIN old \cup DOMAIN built
        /\ \A t \in DOMAIN old \cup DOMAIN built :
             new[t] = IF t \notin DOMAIN built THEN old[t]
                      ELSE IF t \in Initial(c) \/ t \notin DOMAIN old THEN built[t]
                      ELSE MergedRecord(old[t], built[t])
    BY <2>1 DEF Merged
  <2> HIDE DEF new
  <2>3. \A t \in DOMAIN old \cap DOMAIN built : RecOK(old[t]) /\ RecOK(built[t])
    BY <1>1, <1>3, <1>5
  <2>4. \A t \in DOMAIN new : RecOK(new[t])
    BY <1>1, <1>3, <1>5, <2>2, <2>3, MergedFields
  <2>5. \A t \in Initial(c) : t \in DOMAIN new /\ BuiltKeeps(c, t, new[t])
    BY <1>2, <1>3, <1>4, <2>2
  <2>6. ASSUME NEW t \in DOMAIN old \ Initial(c)
        PROVE  /\ t \in DOMAIN new /\ old[t].mech \subseteq new[t].mech
               /\ \A u \in Keys : FileOf[u] \in DOMAIN old[t].hash =>
                    FileOf[u] \in DOMAIN new[t].hash
                    /\ new[t].hash[FileOf[u]] = old[t].hash[FileOf[u]]
    <3>1. CASE t \notin DOMAIN built BY <2>2, <2>6, <3>1
    <3>2. CASE t \in DOMAIN built
      <4>1. new[t] = MergedRecord(old[t], built[t]) BY <2>2, <2>6, <3>2
      <4>2. \A u \in Keys : FileOf[u] \notin DOMAIN built[t].hash
        BY <1>3, <1>4, <2>6, <3>2 DEF BuiltKeeps
      <4>3. /\ old[t].mech \subseteq new[t].mech
            /\ \A f \in DOMAIN old[t].hash \ DOMAIN built[t].hash :
                 f \in DOMAIN new[t].hash /\ new[t].hash[f] = old[t].hash[f]
        BY <2>3, <3>2, <4>1, MergedFields
      <4> QED BY <2>2, <4>2, <4>3
    <3> QED BY <3>1, <3>2
  <2>7. DOMAIN new \subseteq Tools BY <1>1, <1>2, <1>3, <2>2
  <2> QED BY <2>4, <2>5, <2>6, <2>7 DEF new
<1> QED BY <1>6, <1>7

\* What the removals of the state before add.
LEMMA InheritedState ==
  ASSUME NEW c, StateOK(c.active), NEW tools, DOMAIN tools \subseteq Tools,
         \A t \in DOMAIN tools : RecOK(tools[t])
  PROVE  LET new == Inherited(c, tools)
             old == c.active.tools
         IN  /\ DOMAIN new \subseteq Tools /\ \A t \in DOMAIN new : RecOK(new[t])
             /\ \A t \in DOMAIN tools :
                  /\ t \in DOMAIN new /\ new[t].mech = tools[t].mech
                  /\ new[t].hash = tools[t].hash /\ tools[t].revoked \subseteq new[t].revoked
             /\ \A t \in DOMAIN old : old[t].revoked # {} =>
                  t \in DOMAIN new /\ old[t].revoked \subseteq new[t].revoked
<1> DEFINE old == c.active.tools
           kept == {t \in DOMAIN old : old[t].revoked # {}}
           more(t) == [tools[t] EXCEPT !.revoked = @ \cup old[t].revoked]
           new == Inherited(c, tools)
<1>1. DOMAIN old \subseteq Tools /\ \A t \in DOMAIN old : RecOK(old[t]) BY StateFields
<1>2. DOMAIN new = DOMAIN tools \cup kept
      /\ \A t \in DOMAIN tools \cup kept :
           new[t] = IF t \notin DOMAIN tools THEN Recovery(old[t].revoked)
                    ELSE IF t \notin kept THEN tools[t] ELSE more(t)
  BY DEF Inherited
<1>3. \A t \in DOMAIN tools \cap kept :
        /\ RecOK(more(t)) /\ more(t).mech = tools[t].mech /\ more(t).hash = tools[t].hash
        /\ more(t).revoked = tools[t].revoked \cup old[t].revoked
  <2> TAKE t \in DOMAIN tools \cap kept
  <2>1. RecOK(tools[t]) /\ old[t].revoked \subseteq Irreversible BY <1>1 DEF RecOK
  <2> QED BY <2>1, RevokedMore
<1>4. \A t \in DOMAIN old :
        RecOK(Recovery(old[t].revoked)) /\ Recovery(old[t].revoked).revoked = old[t].revoked
  BY <1>1, RecoveryFields DEF RecOK
<1>5. \A t \in kept : t \in DOMAIN old OBVIOUS
<1>6. \A t \in DOMAIN old : old[t].revoked # {} => t \in kept OBVIOUS
<1> HIDE DEF more, kept, new
<1>7. DOMAIN new \subseteq Tools BY <1>1, <1>2, <1>5
<1>8. \A t \in DOMAIN new : RecOK(new[t]) BY <1>2, <1>3, <1>4, <1>5
<1>9. \A t \in DOMAIN tools :
        /\ t \in DOMAIN new /\ new[t].mech = tools[t].mech
        /\ new[t].hash = tools[t].hash /\ tools[t].revoked \subseteq new[t].revoked
  BY <1>2, <1>3
<1>10. \A t \in DOMAIN old : old[t].revoked # {} =>
         t \in DOMAIN new /\ old[t].revoked \subseteq new[t].revoked
  BY <1>2, <1>3, <1>4, <1>6
<1> QED BY <1>7, <1>8, <1>9, <1>10 DEF new

\* What an activation leaves in the state file: what it selected and what is left of the same
\* scene is covered, every removal is on record, and so are the hashes of the keys.
NextKeeps(c, new) ==
  /\ StateOK(new) /\ \A t \in DOMAIN new.tools : new.scene = c.scene
  /\ \A u : Selected(c, u) \/ Spared(c, u) => Covered(new, u)
  /\ OnRec(c.active) \cup c.gone \subseteq OnRec(new)
  /\ \A u \in Keys : u[1] \in Initial(c) /\ u \in c.hashed
                       => HasHash(new, u) /\ HashOf(new, u).user = uver[FileOf[u]]
  /\ \A u \in Keys : u[1] \notin Initial(c) /\ c.active.scene = c.scene /\ HasHash(c.active, u)
                       => HasHash(new, u) /\ HashOf(new, u) = HashOf(c.active, u)

\* The state file of an activation is so.
LEMMA NextFields ==
  ASSUME NEW c, UseOK(c)
  PROVE  NextKeeps(c, NextState(c))
<1> DEFINE old == c.active.tools
           merged == MergedTools(c)
           all == Inherited(c, merged)
           new == File(c.scene, all)
<1>0. NextState(c) = new BY DEF NextState, MergedTools
<1>1. /\ DOMAIN merged \subseteq Tools /\ \A t \in DOMAIN merged : RecOK(merged[t])
      /\ \A t \in Initial(c) : t \in DOMAIN merged /\ BuiltKeeps(c, t, merged[t])
      /\ c.active.scene = c.scene => \A t \in DOMAIN old \ Initial(c) :
           /\ t \in DOMAIN merged /\ old[t].mech \subseteq merged[t].mech
           /\ \A u \in Keys : FileOf[u] \in DOMAIN old[t].hash =>
                FileOf[u] \in DOMAIN merged[t].hash
                /\ merged[t].hash[FileOf[u]] = old[t].hash[FileOf[u]]
  BY MergedState
<1>2. StateOK(c.active) /\ c.scene \in Scenes /\ c.req \in Requests BY DEF UseOK
<1> HIDE DEF merged
<1>3. /\ DOMAIN all \subseteq Tools /\ \A t \in DOMAIN all : RecOK(all[t])
      /\ \A t \in DOMAIN merged :
           /\ t \in DOMAIN all /\ all[t].mech = merged[t].mech
           /\ all[t].hash = merged[t].hash /\ merged[t].revoked \subseteq all[t].revoked
      /\ \A t \in DOMAIN old : old[t].revoked # {} =>
           t \in DOMAIN all /\ old[t].revoked \subseteq all[t].revoked
  BY <1>1, <1>2, InheritedState
<1> HIDE DEF all
<1>4. /\ StateOK(new) /\ DOMAIN new.tools = DOMAIN all
      /\ \A t \in DOMAIN all : new.tools[t] = all[t] /\ new.scene = c.scene
  BY <1>2, <1>3, FileFields
<1> HIDE DEF new
<1>5. ASSUME NEW u, Selected(c, u) PROVE Covered(new, u)
  <2>1. PICK t \in Initial(c), k \in Reversible \cap Declares[c.scene] :
          Mech[t, k] # "unsupported" /\ u = UnitOf(t, k)
    BY <1>5 DEF Selected
  <2>2. k \in merged[t].mech BY <1>1, <2>1 DEF BuiltKeeps
  <2>3. t \in DOMAIN new.tools /\ k \in new.tools[t].mech BY <1>1, <1>3, <1>4, <2>2
  <2> QED BY <2>1, <2>3 DEF Covered
<1>6. ASSUME NEW u, Spared(c, u) PROVE Covered(new, u)
  <2>1. PICK t \in DOMAIN old, k \in Reversible :
          k \in old[t].mech /\ Mech[t, k] # "unsupported" /\ u = UnitOf(t, k)
    BY <1>6 DEF Spared, Covered
  <2>2. t \notin Initial(c)
    <3>1. SUFFICES ASSUME t \in Initial(c) PROVE FALSE OBVIOUS
    <3>2. Initial(c) \subseteq Tools BY <1>2, Asked
    <3>3. u \in UnitsOf({t}) BY <2>1, <3>1, <3>2, UnitsOfTool
    <3>4. {t} \subseteq Initial(c) BY <3>1
    <3> QED BY <1>6, <3>2, <3>3, <3>4, UnitsGrow DEF Spared
  <2>3. k \in merged[t].mech /\ t \in DOMAIN merged BY <1>1, <1>6, <2>1, <2>2 DEF Spared
  <2>4. t \in DOMAIN new.tools /\ k \in new.tools[t].mech BY <1>3, <1>4, <2>3
  <2> QED BY <2>1, <2>4 DEF Covered
<1>7. ASSUME NEW p \in OnRec(c.active) PROVE p \in OnRec(new)
  <2>1. p \in Removable /\ p[1] \in DOMAIN old /\ p[2] \in old[p[1]].revoked BY DEF OnRec
  <2>2. p[1] \in DOMAIN new.tools /\ p[2] \in new.tools[p[1]].revoked BY <1>3, <1>4, <2>1
  <2> QED BY <2>1, <2>2 DEF OnRec
<1>8. ASSUME NEW p \in c.gone PROVE p \in OnRec(new)
  <2>1. p \in Removable /\ p[1] \in Initial(c) BY DEF UseOK
  <2>2. p[1] \in DOMAIN merged /\ p[2] \in merged[p[1]].revoked BY <1>1, <2>1 DEF BuiltKeeps
  <2>3. p[1] \in DOMAIN new.tools /\ p[2] \in new.tools[p[1]].revoked BY <1>3, <1>4, <2>2
  <2> QED BY <2>1, <2>3 DEF OnRec
<1>9. ASSUME NEW u \in Keys, u[1] \in Initial(c), u \in c.hashed
      PROVE  HasHash(new, u) /\ HashOf(new, u).user = uver[FileOf[u]]
  <2> DEFINE t == u[1] f == FileOf[u]
  <2>1. t \in DOMAIN merged /\ f \in DOMAIN merged[t].hash /\ merged[t].hash[f].user = uver[f]
    BY <1>1, <1>9 DEF BuiltKeeps
  <2>2. t \in DOMAIN new.tools /\ new.tools[t].hash = merged[t].hash BY <1>3, <1>4, <2>1
  <2> QED BY <2>1, <2>2 DEF HasHash, HashOf
<1>10. ASSUME NEW u \in Keys, u[1] \notin Initial(c), c.active.scene = c.scene,
              HasHash(c.active, u)
       PROVE  HasHash(new, u) /\ HashOf(new, u) = HashOf(c.active, u)
  <2> DEFINE t == u[1] f == FileOf[u]
  <2>1. t \in DOMAIN old \ Initial(c) /\ f \in DOMAIN old[t].hash BY <1>10 DEF HasHash
  <2>2. t \in DOMAIN merged /\ f \in DOMAIN merged[t].hash
        /\ merged[t].hash[f] = old[t].hash[f]
    BY <1>1, <1>10, <2>1
  <2>3. t \in DOMAIN new.tools /\ new.tools[t].hash = merged[t].hash BY <1>3, <1>4, <2>2
  <2> QED BY <2>2, <2>3 DEF HasHash, HashOf
<1>11. \A t \in DOMAIN new.tools : new.scene = c.scene BY <1>4
<1>12. NextKeeps(c, new)
  BY <1>4, <1>5, <1>6, <1>7, <1>8, <1>9, <1>10, <1>11 DEF NextKeeps
<1> QED BY <1>0, <1>12
-----------------------------------------------------------------------------
(* Faults are counted.                                                     *)

\* There are finitely many keys, directories, files and removable entries.
LEMMA FiniteData == IsFiniteSet(Units) /\ IsFiniteSet(Files) /\ IsFiniteSet(Removable)
<1>1. IsFiniteSet(Tools)
  BY SceneActivationAssumption DEF SceneActivationAssumption
<1>2. ASSUME NEW S, IsFiniteSet(S), NEW g PROVE IsFiniteSet({g[x] : x \in S})
  <2> DEFINE T == {g[x] : x \in S} f == [x \in S |-> g[x]]
  <2>1. f \in Surjection(S, T) BY DEF Surjection
  <2> HIDE DEF f, T
  <2>2. IsFiniteSet(T) BY <1>2, <2>1, FS_Surjection
  <2> QED BY <2>2 DEF T
<1>3. ASSUME NEW x, NEW y PROVE IsFiniteSet({x, y})
  <2>1. IsFiniteSet({x}) /\ IsFiniteSet({y}) BY FS_Singleton
  <2>2. IsFiniteSet({x} \cup {y}) BY <2>1, FS_Union
  <2>3. {x} \cup {y} = {x, y} OBVIOUS
  <2> QED BY <2>2, <2>3
<1>4. IsFiniteSet(Reversible) /\ IsFiniteSet(Irreversible)
  BY <1>3 DEF Reversible, Irreversible
<1>5. IsFiniteSet(Tools \X Reversible) /\ IsFiniteSet(Tools \X Irreversible)
  BY <1>1, <1>4, FS_Product
<1>6. IsFiniteSet(Concerns) BY <1>4, FS_Union DEF Concerns
<1>7. IsFiniteSet(Tools \X Concerns) BY <1>1, <1>6, FS_Product
<1>8. IsFiniteSet(Units)
  <2> DEFINE g == [t \in Tools |-> Dir(t)]
  <2>1. IsFiniteSet({g[t] : t \in Tools}) BY <1>1, <1>2
  <2>2. PathUnits(Tools) \in SUBSET {g[t] : t \in Tools} BY DEF PathUnits
  <2>3. DeclareUnits(Tools) \in SUBSET (Tools \X Reversible) BY DEF DeclareUnits
  <2> HIDE DEF g
  <2>4. IsFiniteSet(PathUnits(Tools)) BY <2>1, <2>2, FS_Subset
  <2>5. IsFiniteSet(DeclareUnits(Tools)) BY <1>5, <2>3, FS_Subset
  <2> QED BY <2>4, <2>5, FS_Union DEF Units, UnitsOf
<1>9. IsFiniteSet(Files)
  <2> DEFINE g == [u \in Units |-> FileOfUnit(u)]
  <2>1. IsFiniteSet({g[u] : u \in Units}) BY <1>2, <1>8
  <2>2. {FileOfUnit(u) : u \in Units} = {g[u] : u \in Units} OBVIOUS
  <2> HIDE DEF g
  <2>3. DOMAIN FileOf = Tools \X Concerns
    BY SceneActivationAssumption DEF SceneActivationAssumption
  <2>4. IsFiniteSet({FileOf[p] : p \in DOMAIN FileOf}) BY <1>2, <1>7, <2>3
  <2>5. IsFiniteSet(Range(FileOf)) BY <2>4 DEF Range
  <2> QED BY <2>1, <2>2, <2>5, FS_Union DEF Files
<1>10. IsFiniteSet(Removable)
  <2>1. Removable \in SUBSET (Tools \X Irreversible)
    BY SceneActivationAssumption DEF Removable, SceneActivationAssumption
  <2> QED BY <1>5, <2>1, FS_Subset
<1> QED BY <1>8, <1>9, <1>10

\* A set of them has a number of members, which is zero only of none.
LEMMA Counted ==
  ASSUME NEW S, S \subseteq Units \/ S \subseteq Files \/ S \subseteq Removable
  PROVE  Cardinality(S) \in Nat /\ (Cardinality(S) = 0 => S = {})
<1>1. S \in SUBSET Units \/ S \in SUBSET Files \/ S \in SUBSET Removable OBVIOUS
<1>2. IsFiniteSet(S) BY <1>1, FiniteData, FS_Subset
<1> QED BY <1>2, FS_CardinalityType, FS_EmptySet

\* Faults stay within their bound.
LEMMA Spent ==
  ASSUME faults \in 0..MaxFaults, NEW n \in Nat, Spend(n)
  PROVE  faults' \in 0..MaxFaults /\ faults' = faults + n
<1>1. Cardinality(Edited) \in Nat BY Counted DEF Edited
<1>2. MaxFaults \in Nat BY SceneActivationAssumption DEF SceneActivationAssumption
<1> QED BY <1>1, <1>2 DEF Spend
-----------------------------------------------------------------------------
(* The engine.                                                             *)

\* crossby writes the files of what it changes, and no other.
LEMMA Touched ==
  ASSUME DataOK, NEW eff, eff \in [Units -> Scenes \cup {None}], Touch(eff)
  PROVE  /\ effect' = eff /\ uver' = uver
         /\ seen' \in [Files -> 0..1] /\ effect' \in [Units -> Scenes \cup {None}]
         /\ \A f \in Files : seen'[f] \in {seen[f], uver[f]}
         /\ \A u \in Units : eff[u] # effect[u] => seen'[FileOfUnit(u)] = uver[FileOfUnit(u)]
<1>1. \A f \in Files : seen[f] \in 0..1 /\ uver[f] \in 0..1 BY DEF DataOK
<1>2. seen' = [f \in Files |->
                 IF \E u \in Units : FileOfUnit(u) = f /\ eff[u] # effect[u]
                 THEN uver[f] ELSE seen[f]]
      /\ effect' = eff /\ uver' = uver
  BY DEF Touch
<1>3. \A u \in Units : FileOfUnit(u) \in Files BY DEF Files
<1>4. \A f \in Files : seen'[f] = IF \E u \in Units : FileOfUnit(u) = f /\ eff[u] # effect[u]
                                  THEN uver[f] ELSE seen[f]
  BY <1>2
<1>5. seen' \in [Files -> 0..1] BY <1>1, <1>2
<1> QED BY <1>2, <1>3, <1>4, <1>5

\* What a revert undoes is not in effect, the rest stays.
LEMMA Undone ==
  ASSUME DataOK, NEW done, EngineClear(done)
  PROVE  /\ uver' = uver /\ left' = left
         /\ seen' \in [Files -> 0..1] /\ effect' \in [Units -> Scenes \cup {None}]
         /\ \A f \in Files : seen'[f] \in {seen[f], uver[f]}
         /\ \A u \in Units : effect'[u] = IF u \in done THEN None ELSE effect[u]
         /\ \A u \in Units : Chosen(u)' => u \notin done /\ Chosen(u) /\ effect'[u] = effect[u]
<1> DEFINE eff == [u \in Units |-> IF u \in done THEN None ELSE effect[u]]
<1>1. eff \in [Units -> Scenes \cup {None}] BY DEF DataOK
<1>2. Touch(eff) /\ left' = left BY DEF EngineClear
<1>3. \A u \in Units : eff[u] = IF u \in done THEN None ELSE effect[u] OBVIOUS
<1> HIDE DEF eff
<1>4. /\ effect' = eff /\ uver' = uver
      /\ seen' \in [Files -> 0..1] /\ effect' \in [Units -> Scenes \cup {None}]
      /\ \A f \in Files : seen'[f] \in {seen[f], uver[f]}
  BY <1>1, <1>2, Touched
<1>5. \A u \in Units : effect'[u] = IF u \in done THEN None ELSE effect[u] BY <1>3, <1>4
<1>6. \A u \in Units : Chosen(u)' => u \notin done /\ Chosen(u) /\ effect'[u] = effect[u]
  BY <1>5 DEF Chosen
<1> QED BY <1>2, <1>4, <1>5, <1>6

\* What an activation sets is of its scene, or off; the rest stays.
LEMMA SetInEffect ==
  ASSUME DataOK, NEW c, c.scene \in Scenes, NEW done, NEW gone, EngineApply(c, done, gone)
  PROVE  /\ uver' = uver /\ left' \subseteq Removable
         /\ seen' \in [Files -> 0..1] /\ effect' \in [Units -> Scenes \cup {None}]
         /\ \A f \in Files : seen'[f] \in {seen[f], uver[f]}
         /\ \A u \in Units : effect'[u] = IF u \in done THEN Applied(c, u) ELSE effect[u]
         /\ \A u \in Units : effect'[u] # effect[u]
                               => seen'[FileOfUnit(u)] = uver[FileOfUnit(u)]
<1> DEFINE eff == [u \in Units |-> IF u \in done THEN Applied(c, u) ELSE effect[u]]
<1>1. eff \in [Units -> Scenes \cup {None}] BY DEF DataOK, Applied
<1>2. Touch(eff) /\ left' = left \ gone BY DEF EngineApply
<1>3. \A u \in Units : eff[u] = IF u \in done THEN Applied(c, u) ELSE effect[u] OBVIOUS
<1> HIDE DEF eff
<1>4. /\ effect' = eff /\ uver' = uver
      /\ seen' \in [Files -> 0..1] /\ effect' \in [Units -> Scenes \cup {None}]
      /\ \A f \in Files : seen'[f] \in {seen[f], uver[f]}
      /\ \A u \in Units : eff[u] # effect[u] => seen'[FileOfUnit(u)] = uver[FileOfUnit(u)]
  BY <1>1, <1>2, Touched
<1>5. left' \subseteq Removable BY <1>2 DEF DataOK
<1>6. \A u \in Units : effect'[u] = IF u \in done THEN Applied(c, u) ELSE effect[u]
  BY <1>3, <1>4
<1>7. \A u \in Units : effect'[u] # effect[u]
                         => seen'[FileOfUnit(u)] = uver[FileOfUnit(u)]
  <2>1. effect' = eff BY <1>4
  <2>2. \A u \in Units : eff[u] # effect[u] => seen'[FileOfUnit(u)] = uver[FileOfUnit(u)]
    BY <1>4
  <2> QED BY <2>1, <2>2
<1> QED BY <1>4, <1>5, <1>6, <1>7

\* What a scene sets is chosen in it only if it is asked for.
LEMMA SetIsSelected ==
  ASSUME NEW c, UseOK(c), NEW u \in UnitsOf(Initial(c)), Applied(c, u) # None,
         u[1] = "dir" => "skills" \in Declares[Applied(c, u)]
  PROVE  Applied(c, u) = c.scene /\ Selected(c, u)
<1>1. Applied(c, u) = c.scene BY DEF Applied
<1>2. Initial(c) \subseteq Tools BY Asked DEF UseOK
<1>3. PICK t \in Initial(c), k \in Reversible :
        /\ Mech[t, k] # "unsupported" /\ u = UnitOf(t, k) /\ (u[1] # "dir" => k = u[2])
        /\ (u[1] = "dir" => k = "skills")
  BY <1>2, UnitKinds
<1>4. k \in Declares[c.scene] BY <1>1, <1>3 DEF Applied
<1> QED BY <1>1, <1>3, <1>4 DEF Selected

\* The rows of a revert are units of its tools.
LEMMA RowsAreUnits ==
  ASSUME NEW S, S \subseteq Tools
  PROVE  Rows(S) \subseteq UnitsOf(S) /\ UnitsOf(S) \subseteq Units
  BY UnitsGrow DEF Rows, UnitsOf

-----------------------------------------------------------------------------
(* Commands.                                                               *)

\* The tools of a command.
LEMMA CommandScope ==
  ASSUME NEW c, UseOK(c) \/ ClearOK(c)
  PROVE  /\ Initial(c) \subseteq Tools /\ c.rev \subseteq Tools /\ c.req \in Requests
         /\ StateOK(c.active) /\ c.ok \subseteq Units
         /\ c.op = "use" => c.rev \subseteq Initial(c) /\ c.scene \in Scenes
<1>1. c.req \in Requests /\ StateOK(c.active) /\ c.ok \subseteq Units BY DEF UseOK, ClearOK
<1>2. DOMAIN c.active.tools \subseteq Tools BY <1>1, StateFields
<1>3. Initial(c) \subseteq Tools /\ (c.req # "all" => c.req \in Tools /\ Initial(c) = {c.req})
  BY <1>1, Asked
<1>4. CASE UseOK(c)
  <2>1. c.req = "all" => c.rev \subseteq DOMAIN c.active.tools BY <1>4 DEF UseOK
  <2>2. c.req # "all" => c.rev \subseteq {c.req} BY <1>4 DEF UseOK
  <2>3. c.scene \in Scenes BY <1>4 DEF UseOK
  <2> QED BY <1>1, <1>2, <1>3, <2>1, <2>2, <2>3 DEF Initial
<1>5. CASE ClearOK(c)
  <2>1. c.req = "all" => c.rev = DOMAIN c.active.tools BY <1>5 DEF ClearOK
  <2>2. c.req # "all" => c.rev = {c.req} BY <1>5 DEF ClearOK
  <2>3. c.op = "clear" BY <1>5 DEF ClearOK
  <2> QED BY <1>1, <1>2, <1>3, <2>1, <2>2, <2>3
<1> QED BY <1>4, <1>5

\* Where a command is says what it is.
LEMMA CommandKinds ==
  ASSUME CmdOK
  PROVE  /\ (cmd = Idle) <=> (cmd.at = "idle")
         /\ cmd = Idle => cmd.op = "none"
         /\ cmd # Idle => UseOK(cmd) \/ ClearOK(cmd)
         /\ cmd.op = "use" => UseOK(cmd)
         /\ cmd.op = "clear" => ClearOK(cmd)
         /\ cmd.at \in {"apply", "save", "recover", "rollback", "restore"} => UseOK(cmd)
         /\ cmd.at = "finish" => ClearOK(cmd)
         /\ cmd.at \in {"revert", "reconcile"} => UseOK(cmd) \/ ClearOK(cmd)
         /\ cmd.at \notin {"idle", "rollback", "restore"} => state = cmd.active
<1>1. Idle.at = "idle" /\ Idle.op = "none" BY DEF Idle
<1>2. UseOK(cmd) => cmd.at \in UseStages /\ cmd.op = "use" BY DEF UseOK
<1>3. ClearOK(cmd) => cmd.at \in {"revert", "reconcile", "finish"} /\ cmd.op = "clear"
  BY DEF ClearOK
<1>4. cmd = Idle \/ UseOK(cmd) \/ ClearOK(cmd) BY DEF CmdOK
<1>5. cmd.at \notin {"idle", "rollback", "restore"} => state = cmd.active BY DEF CmdOK
<1> QED BY <1>1, <1>2, <1>3, <1>4, <1>5 DEF UseStages

\* The same command, further on.
Onward(c, d) ==
  /\ d.op = c.op /\ d.req = c.req /\ d.force = c.force /\ d.active = c.active
  /\ d.rev = c.rev /\ d.sharers = c.sharers /\ DOMAIN d = DOMAIN c
  /\ c.op = "use" => d.scene = c.scene /\ d.out = c.out

\* An activation stays one.
LEMMA OnwardUse ==
  ASSUME NEW c, NEW d, UseOK(c), Onward(c, d), d.at \in UseStages \ {"revert"},
         d.ok \subseteq Units,
         d.hashed \subseteq UnitsOf(Initial(c)),
         d.gone \subseteq {p \in Removable : p[1] \in Initial(c)},
         d.at \in {"revert", "apply", "reconcile"} => d.gone = {}
  PROVE  UseOK(d) /\ Initial(d) = Initial(c)
<1>1. Initial(d) = Initial(c) BY DEF Initial, Onward
<1>2. d.op = "use" /\ d.scene = c.scene /\ d.out = c.out BY DEF Onward, UseOK
<1>3. /\ d.req = c.req /\ d.force = c.force /\ d.active = c.active /\ d.rev = c.rev
      /\ d.sharers = c.sharers /\ DOMAIN d = DOMAIN c
  BY DEF Onward
<1> QED BY <1>1, <1>2, <1>3 DEF UseOK

\* A clear stays one.
LEMMA OnwardClear ==
  ASSUME NEW c, NEW d, ClearOK(c), Onward(c, d), d.at \in {"revert", "reconcile", "finish"},
         d.ok \subseteq Units
  PROVE  ClearOK(d) /\ Initial(d) = Initial(c)
<1>1. Initial(d) = Initial(c) BY DEF Initial, Onward
<1>2. /\ d.req = c.req /\ d.force = c.force /\ d.active = c.active /\ d.rev = c.rev
      /\ d.sharers = c.sharers /\ DOMAIN d = DOMAIN c /\ d.op = c.op
  BY DEF Onward
<1> QED BY <1>1, <1>2 DEF ClearOK
-----------------------------------------------------------------------------
(* Types, step by step.                                                    *)

\* A command that ends leaves no command.
LEMMA Ends ==
  ASSUME End
  PROVE  CmdOK' /\ cmd'.at = "idle" /\ cmd'.op = "none"
  BY DEF End, CmdOK, Idle

\* An activation starts from the state file, on the tools its scope recorded there.
LEMMA UseStep ==
  ASSUME Typed, NEW s \in Scenes, NEW r \in Requests, NEW force \in BOOLEAN, Use(s, r, force)
  PROVE  LET c == [op |-> "use", scene |-> s, req |-> r]
         IN  /\ Typed' /\ UseOK(cmd') /\ cmd = Idle
             /\ UNCHANGED <<disk, state, owed, doubt, faults>>
             /\ cmd'.scene = s /\ cmd'.req = r /\ cmd'.force = force /\ cmd'.active = state
             /\ cmd'.op = "use" /\ cmd'.gone = {}
             /\ cmd'.out = (IF state = NoState THEN {} ELSE OutgoingScope(c))
             /\ cmd'.at = (IF cmd'.out = {} THEN "apply" ELSE "revert")
             /\ ~Strands(c) /\ (force \/ ~OutgoingDrift(c))
<1> DEFINE c == [op |-> "use", scene |-> s, req |-> r]
           out == IF state = NoState THEN {} ELSE OutgoingScope(c)
           d == [op |-> "use", scene |-> s, req |-> r, force |-> force,
                 at |-> IF out = {} THEN "apply" ELSE "revert",
                 active |-> state, out |-> out,
                 rev |-> IF out = {} THEN {} ELSE IF r = "all" THEN out ELSE {r},
                 sharers |-> IF r = "all" \/ state = NoState THEN {} ELSE OutgoingSharers(c),
                 ok |-> {}, hashed |-> {}, gone |-> {}]
<1>1. /\ cmd = Idle /\ ~Strands(c) /\ (force \/ ~OutgoingDrift(c)) /\ cmd' = d
      /\ UNCHANGED <<disk, state, owed, doubt, faults>>
  BY DEF Use
<1>2. StateOK(state) BY DEF Typed, DataOK
<1>3. DOMAIN NoState.tools = {} BY DEF NoState
<1>4. c.req = r OBVIOUS
<1>5. OutgoingSharers(c) \subseteq Sharers(Initial(c), Tools)
  <2>1. Recorded \subseteq Tools BY <1>2, StateFields DEF Recorded
  <2> QED BY <2>1 DEF OutgoingSharers, Sharers
<1> HIDE DEF c
<1>6. /\ out \subseteq DOMAIN state.tools
      /\ r = "all" => out = DOMAIN state.tools
  BY <1>2, <1>3, <1>4, StateFields DEF OutgoingScope, Recorded
<1> HIDE DEF out
<1>7. /\ d.op = "use" /\ d.scene = s /\ d.req = r /\ d.force = force /\ d.active = state
      /\ d.at = (IF out = {} THEN "apply" ELSE "revert") /\ d.out = out
      /\ d.rev = (IF out = {} THEN {} ELSE IF r = "all" THEN out ELSE {r})
      /\ d.ok = {} /\ d.hashed = {} /\ d.gone = {}
      /\ d.sharers = (IF r = "all" \/ state = NoState THEN {} ELSE OutgoingSharers(c))
      /\ DOMAIN d = {"op", "scene", "req", "force", "at", "active", "out", "rev", "sharers", "ok",
                     "hashed", "gone"}
  OBVIOUS
<1> HIDE DEF d
<1>8. Initial(d) = Initial(c) BY <1>4, <1>7 DEF Initial
<1>9. d.sharers \subseteq Sharers(Initial(d), Tools) BY <1>5, <1>7, <1>8
<1>10. d.at \in UseStages BY <1>7 DEF UseStages
<1>11. UseOK(d) BY <1>2, <1>6, <1>7, <1>9, <1>10 DEF UseOK
<1>12. CmdOK' BY <1>1, <1>7, <1>11 DEF CmdOK
<1>13. DataOK' BY <1>1 DEF Typed, DataOK, disk
<1>14. out = (IF state = NoState THEN {} ELSE OutgoingScope(c)) BY DEF out
<1>15. d.at = (IF d.out = {} THEN "apply" ELSE "revert") BY <1>7
<1> QED BY <1>1, <1>7, <1>11, <1>12, <1>13, <1>14, <1>15 DEF Typed, c

\* A clear starts from the state file, on the tools recorded there.
LEMMA ClearStep ==
  ASSUME Typed, NEW r \in Requests, NEW force \in BOOLEAN, Clear(r, force)
  PROVE  /\ Typed' /\ ClearOK(cmd') /\ cmd = Idle /\ UNCHANGED <<disk, state, doubt, faults>>
         /\ cmd'.active = state /\ cmd'.op = "clear" /\ cmd'.at = "revert" /\ cmd'.force = force
         /\ cmd'.rev \subseteq Recorded
         /\ owed' = {p \in owed : ~(p[1] \in cmd'.rev /\ p[2] \in state.tools[p[1]].revoked)}
         /\ force \/ ~\E t \in cmd'.rev : DriftedIn(state.tools[t], Files)
<1> DEFINE scope == IF r = "all" THEN Recorded ELSE {r}
           sharers == IF r = "all" \/ "skills" \notin state.tools[r].mech THEN {}
                      ELSE OutgoingSharers([req |-> r])
           d == [op |-> "clear", req |-> r, force |-> force, at |-> "revert",
                 active |-> state, rev |-> scope, sharers |-> sharers, ok |-> {}]
<1>1. /\ cmd = Idle /\ state # NoState /\ r \in Recorded \cup {"all"} /\ cmd' = d
      /\ force \/ ~\E t \in scope : DriftedIn(state.tools[t], Files)
      /\ owed' = {p \in owed : ~(p[1] \in scope /\ p[2] \in state.tools[p[1]].revoked)}
      /\ UNCHANGED <<disk, state, doubt, faults>>
  BY DEF Clear
<1>2. StateOK(state) BY DEF Typed, DataOK
<1>3. Recorded \subseteq Tools BY <1>2, StateFields DEF Recorded
<1>4. scope \subseteq Recorded BY <1>1
<1>5. \A x : x.req = r => sharers \subseteq Sharers(Initial(x), Tools)
  BY <1>3 DEF OutgoingSharers, Sharers, Initial
<1>6. scope = IF r = "all" THEN DOMAIN state.tools ELSE {r} BY DEF Recorded
<1> HIDE DEF scope, sharers
<1>7. /\ d.op = "clear" /\ d.req = r /\ d.force = force /\ d.at = "revert" /\ d.active = state
      /\ d.rev = scope /\ d.sharers = sharers /\ d.ok = {}
      /\ DOMAIN d = {"op", "req", "force", "at", "active", "rev", "sharers", "ok"}
  OBVIOUS
<1> HIDE DEF d
<1>8. d.sharers \subseteq Sharers(Initial(d), Tools) BY <1>5, <1>7
<1>9. ClearOK(d) BY <1>1, <1>2, <1>6, <1>7, <1>8 DEF ClearOK, Recorded
<1>10. CmdOK' BY <1>1, <1>7, <1>9 DEF CmdOK
<1>11. owed' \subseteq Removable BY <1>1 DEF Typed, DataOK
<1>12. DataOK' BY <1>1, <1>11 DEF Typed, DataOK, disk
<1> QED BY <1>1, <1>4, <1>7, <1>9, <1>10, <1>12 DEF Typed

\* A revert is followed by the report of its errors, or by what the command does next.
LEMMA RevertStep ==
  ASSUME Typed, Revert
  PROVE  \E bad \in ErrorRows(cmd.rev, cmd.force) :
           /\ Typed' /\ Onward(cmd, cmd') /\ cmd.at = "revert" /\ UNCHANGED <<state, owed, doubt>>
           /\ faults' = faults + Cardinality(bad \ Refused(cmd.rev, cmd.force))
           /\ bad \subseteq Rows(cmd.rev)
           /\ Cardinality(bad \ Refused(cmd.rev, cmd.force)) \in Nat
           /\ EngineClear(UnitsOf(cmd.rev) \ bad)
           /\ cmd'.ok = Rows(cmd.rev) \ bad
           /\ cmd'.at = (IF bad # {} THEN "reconcile"
                         ELSE IF cmd.op = "use" THEN "apply" ELSE "finish")
           /\ cmd.op = "use" => cmd'.gone = {}
<1> DEFINE errors == ErrorRows(cmd.rev, cmd.force)
           refused == Refused(cmd.rev, cmd.force)
<1>1. PICK bad \in errors :
         /\ Spend(Cardinality(bad \ refused)) /\ EngineClear(UnitsOf(cmd.rev) \ bad)
         /\ cmd' = [cmd EXCEPT !.ok = Rows(cmd.rev) \ bad,
                               !.at = IF bad # {} THEN "reconcile"
                                      ELSE IF @ = "revert" /\ cmd.op = "use" THEN "apply"
                                      ELSE "finish"]
  BY DEF Revert
<1>2. cmd.at = "revert" /\ UNCHANGED <<state, owed, doubt>> BY DEF Revert
<1>3. /\ DataOK /\ CmdOK /\ (UseOK(cmd) \/ ClearOK(cmd)) /\ state = cmd.active
      /\ cmd.op = "use" => UseOK(cmd)
      /\ cmd.op # "use" => ClearOK(cmd)
  BY <1>2, CommandKinds DEF Typed, UseOK, ClearOK
<1>4. cmd.rev \subseteq Tools BY <1>3, CommandScope
<1>5. Rows(cmd.rev) \subseteq UnitsOf(cmd.rev) /\ UnitsOf(cmd.rev) \subseteq Units
  BY <1>4, RowsAreUnits
<1>6. bad \subseteq Rows(cmd.rev) BY DEF ErrorRows
<1>7. Cardinality(bad \ refused) \in Nat
  <2>1. bad \ refused \subseteq Units BY <1>5, <1>6
  <2> QED BY <2>1, Counted
<1>8. faults' \in 0..MaxFaults /\ faults' = faults + Cardinality(bad \ refused)
  <2> HIDE DEF refused
  <2> QED BY <1>1, <1>3, <1>7, Spent DEF DataOK
<1> DEFINE ok == Rows(cmd.rev) \ bad
           at == IF bad # {} THEN "reconcile"
                 ELSE IF cmd.at = "revert" /\ cmd.op = "use" THEN "apply" ELSE "finish"
<1>9. cmd' = [cmd EXCEPT !.ok = ok, !.at = at] BY <1>1
<1>10. ok \subseteq Units BY <1>5
<1>11. at = (IF bad # {} THEN "reconcile" ELSE IF cmd.op = "use" THEN "apply" ELSE "finish")
  BY <1>2
<1> HIDE DEF ok, at
<1>12. /\ Onward(cmd, cmd') /\ cmd'.ok = ok /\ cmd'.at = at
       /\ cmd.op = "use" => cmd'.hashed = cmd.hashed /\ cmd'.gone = cmd.gone
  <2>1. CASE UseOK(cmd)
    <3>1. DOMAIN cmd = {"op", "scene", "req", "force", "at", "active", "out", "rev", "sharers",
                        "ok", "hashed", "gone"}
      BY <2>1 DEF UseOK
    <3> QED BY <1>9, <3>1 DEF Onward
  <2>2. CASE ClearOK(cmd)
    <3>1. DOMAIN cmd = {"op", "req", "force", "at", "active", "rev", "sharers", "ok"}
          /\ cmd.op = "clear"
      BY <2>2 DEF ClearOK
    <3> QED BY <1>9, <3>1 DEF Onward
  <2> QED BY <1>3, <2>1, <2>2
<1>13. (UseOK(cmd') \/ ClearOK(cmd')) /\ (cmd.op = "use" => cmd'.gone = {})
  <2>1. CASE cmd.op = "use"
    <3>1. UseOK(cmd) /\ cmd.gone = {} BY <1>2, <1>3, <2>1 DEF UseOK
    <3>2. cmd'.at \in UseStages \ {"revert"} BY <1>11, <1>12, <2>1 DEF UseStages
    <3>3. cmd.hashed \subseteq UnitsOf(Initial(cmd)) BY <3>1 DEF UseOK
    <3> QED BY <1>10, <1>12, <2>1, <3>1, <3>2, <3>3, OnwardUse
  <2>2. CASE cmd.op # "use"
    <3>1. ClearOK(cmd) BY <1>3, <2>2
    <3>2. cmd'.at \in {"revert", "reconcile", "finish"} BY <1>11, <1>12, <2>2
    <3> QED BY <1>10, <1>12, <2>2, <3>1, <3>2, OnwardClear
  <2> QED BY <2>1, <2>2
<1>14. CmdOK'
  <2>1. state' = cmd'.active BY <1>2, <1>3, <1>12 DEF Onward
  <2> QED BY <1>13, <2>1 DEF CmdOK
<1>15. DataOK'
  <2>1. uver' = uver /\ left' = left /\ seen' \in [Files -> 0..1]
        /\ effect' \in [Units -> Scenes \cup {None}]
    BY <1>1, <1>3, Undone
  <2> QED BY <1>2, <1>3, <1>8, <2>1 DEF DataOK
<1>16. Typed' BY <1>14, <1>15 DEF Typed
<1>17. cmd'.ok = Rows(cmd.rev) \ bad BY <1>12 DEF ok
<1> HIDE DEF errors, refused
<1>18. bad \in errors /\ EngineClear(UnitsOf(cmd.rev) \ bad) BY <1>1
<1> QED
  BY <1>2, <1>6, <1>7, <1>8, <1>11, <1>12, <1>13, <1>16, <1>17, <1>18 DEF errors, refused

\* A save leaves one state file or the other.
LEMMA Stored ==
  ASSUME NEW new, Saved(new) \/ SaveRaises(new)
  PROVE  state' \in {state, new}
  BY DEF Saved, SaveRaises

\* One fault is counted.
LEMMA OneFault ==
  ASSUME faults \in 0..MaxFaults, Spend(1)
  PROVE  faults' \in 0..MaxFaults /\ faults' = faults + 1 /\ faults' # 0
<1>1. faults' \in 0..MaxFaults /\ faults' = faults + 1 BY Spent
<1> QED BY <1>1

\* A handler that raises in a revert ends the command.
LEMMA RevertRaisesStep ==
  ASSUME Typed, RevertRaises
  PROVE  \E done \in SUBSET DeclareUnits(cmd.rev) :
           /\ Typed' /\ End /\ cmd.at = "revert" /\ EngineClear(done) /\ faults' # 0
           /\ UNCHANGED <<state, owed, doubt>>
<1>1. PICK done \in SUBSET DeclareUnits(cmd.rev) : EngineClear(done) BY DEF RevertRaises
<1>2. cmd.at = "revert" /\ Spend(1) /\ End /\ UNCHANGED <<state, owed, doubt>>
  BY DEF RevertRaises
<1>3. DataOK BY DEF Typed
<1>4. faults' \in 0..MaxFaults /\ faults' # 0 BY <1>2, <1>3, OneFault DEF DataOK
<1>5. uver' = uver /\ left' = left /\ seen' \in [Files -> 0..1]
      /\ effect' \in [Units -> Scenes \cup {None}]
  BY <1>1, <1>3, Undone
<1>6. DataOK' BY <1>2, <1>3, <1>4, <1>5 DEF DataOK
<1> QED BY <1>1, <1>2, <1>4, <1>6, Ends DEF Typed

\* A reconciliation ends the command, with the reconciled state unless the save failed.
LEMMA ReconcileStep ==
  ASSUME Typed, Reconcile
  PROVE  LET new == Reconciled(cmd.active, cmd.ok)
         IN  /\ Typed' /\ End /\ cmd.at = "reconcile" /\ UNCHANGED <<disk, owed, doubt>>
             /\ state' \in {state, new} /\ state = cmd.active /\ StateOK(cmd.active)
             /\ faults' # 0 \/ (faults' = faults /\ state' = new)
<1> DEFINE new == Reconciled(cmd.active, cmd.ok)
<1>1. cmd.at = "reconcile" /\ End /\ UNCHANGED <<disk, owed, doubt>> BY DEF Reconcile
<1>2. DataOK /\ CmdOK BY DEF Typed
<1>3. state = cmd.active /\ StateOK(cmd.active)
  BY <1>1, <1>2, CommandKinds, CommandScope
<1>4. StateOK(new) BY <1>3, ReconciledState
<1> HIDE DEF new
<1>5. \/ Saved(new) /\ UNCHANGED faults
      \/ SaveRaises(new) /\ Spend(1)
  BY DEF Reconcile, new
<1>6. state' \in {state, new} BY <1>5, Stored
<1>7. CASE Saved(new) /\ UNCHANGED faults
  <2>1. DataOK' BY <1>1, <1>2, <1>4, <1>6, <1>7 DEF DataOK, disk
  <2> QED BY <1>1, <1>3, <1>6, <1>7, <2>1, Ends DEF Typed, new, Saved
<1>8. CASE SaveRaises(new) /\ Spend(1)
  <2>1. faults' \in 0..MaxFaults /\ faults' # 0 BY <1>2, <1>8, OneFault DEF DataOK
  <2>2. DataOK' BY <1>1, <1>2, <1>4, <1>6, <2>1 DEF DataOK, disk
  <2> QED BY <1>1, <1>3, <1>6, <2>1, <2>2, Ends DEF Typed, new
<1> QED BY <1>5, <1>7, <1>8

\* An activation that was applied goes on to its save.
LEMMA ApplyStep ==
  ASSUME Typed, Apply
  PROVE  \E done \in SUBSET UnitsOf(Initial(cmd)), gone \in SUBSET Removes(cmd) :
           /\ Typed' /\ UseOK(cmd) /\ UseOK(cmd') /\ Onward(cmd, cmd') /\ cmd.at = "apply"
           /\ EngineApply(cmd, done, gone) /\ owed' = owed \cup gone /\ UNCHANGED <<state, doubt>>
           /\ cmd'.at = "save" /\ cmd'.hashed = Writes(cmd, done) /\ cmd'.gone = gone
           /\ cmd'.ok = done /\ state = cmd.active /\ cmd.gone = {}
           /\ faults' = 0 => faults = 0 /\ done = UnitsOf(Initial(cmd))
<1> DEFINE all == UnitsOf(Initial(cmd)) removes == Removes(cmd)
<1>1. cmd.at = "apply" /\ UNCHANGED <<state, doubt>> BY DEF Apply
<1>2. PICK bad \in SUBSET all, kept \in SUBSET removes :
        /\ Spend(Cardinality(bad) + Cardinality(kept))
        /\ EngineApply(cmd, all \ bad, removes \ kept)
        /\ owed' = owed \cup (removes \ kept)
        /\ cmd' = [cmd EXCEPT !.at = "save", !.hashed = Writes(cmd, all \ bad),
                              !.gone = removes \ kept, !.ok = all \ bad]
  BY DEF Apply
<1> DEFINE done == all \ bad gone == removes \ kept hashed == Writes(cmd, done)
<1>3. DataOK /\ CmdOK BY DEF Typed
<1>4. UseOK(cmd) /\ state = cmd.active BY <1>1, <1>3, CommandKinds
<1>5. Initial(cmd) \subseteq Tools /\ cmd.scene \in Scenes
  BY <1>4, CommandScope DEF UseOK
<1>6. all \subseteq Units BY <1>5, UnitsGrow
<1>7. removes \subseteq {p \in Removable : p[1] \in Initial(cmd)}
  BY <1>3 DEF DataOK, Removes
<1>8. hashed \subseteq done BY DEF Writes
<1>9. cmd.gone = {} BY <1>1, <1>4 DEF UseOK
<1> HIDE DEF all, removes
<1>10. /\ Cardinality(bad) \in Nat /\ (Cardinality(bad) = 0 => bad = {})
       /\ Cardinality(kept) \in Nat
  <2>1. bad \subseteq Units /\ kept \subseteq Removable BY <1>6, <1>7
  <2> QED BY <2>1, Counted
<1>11. faults' \in 0..MaxFaults /\ faults' = faults + (Cardinality(bad) + Cardinality(kept))
  BY <1>2, <1>3, <1>10, Spent DEF DataOK
<1>12. faults \in Nat BY <1>3 DEF DataOK
<1>13. faults' = 0 => faults = 0 /\ Cardinality(bad) = 0 BY <1>10, <1>11, <1>12
<1>14. faults' = 0 => faults = 0 /\ done = all BY <1>10, <1>13
<1>15. done \in SUBSET all /\ gone \in SUBSET removes OBVIOUS
<1>16. /\ EngineApply(cmd, done, gone) /\ owed' = owed \cup gone
       /\ cmd' = [cmd EXCEPT !.at = "save", !.hashed = hashed, !.gone = gone, !.ok = done]
  BY <1>2
<1> HIDE DEF done, gone, hashed
<1>17. /\ Onward(cmd, cmd') /\ cmd'.at = "save" /\ cmd'.hashed = hashed /\ cmd'.gone = gone
       /\ cmd'.ok = done
  <2>1. DOMAIN cmd = {"op", "scene", "req", "force", "at", "active", "out", "rev", "sharers",
                      "ok", "hashed", "gone"}
    BY <1>4 DEF UseOK
  <2> QED BY <1>16, <2>1 DEF Onward
<1>18. UseOK(cmd')
  <2>1. cmd'.ok \subseteq Units BY <1>6, <1>15, <1>17
  <2>2. cmd'.hashed \subseteq UnitsOf(Initial(cmd)) BY <1>8, <1>15, <1>17 DEF all
  <2>3. cmd'.gone \subseteq {p \in Removable : p[1] \in Initial(cmd)} BY <1>7, <1>15, <1>17
  <2>4. cmd'.at \in UseStages \ {"revert"} BY <1>17 DEF UseStages
  <2> QED BY <1>4, <1>17, <2>1, <2>2, <2>3, <2>4, OnwardUse
<1>19. CmdOK'
  <2>1. state' = cmd'.active BY <1>1, <1>4, <1>17 DEF Onward
  <2> QED BY <1>18, <2>1 DEF CmdOK
<1>20. DataOK'
  <2>1. uver' = uver /\ left' \subseteq Removable /\ seen' \in [Files -> 0..1]
        /\ effect' \in [Units -> Scenes \cup {None}]
    BY <1>3, <1>5, <1>16, SetInEffect
  <2>2. owed' \subseteq Removable BY <1>3, <1>7, <1>15, <1>16 DEF DataOK
  <2> QED BY <1>1, <1>3, <1>11, <2>1, <2>2 DEF DataOK
<1>21. Typed' BY <1>19, <1>20 DEF Typed
<1>22. cmd'.hashed = Writes(cmd, done) BY <1>17 DEF hashed
<1> QED BY <1>1, <1>4, <1>9, <1>14, <1>15, <1>16, <1>17, <1>18, <1>21, <1>22 DEF all, removes

\* An apply that raises goes on to save what is left of it.
LEMMA ApplyRaisesStep ==
  ASSUME Typed, ApplyRaises
  PROVE  \E done \in SUBSET UnitsOf(Initial(cmd)), gone \in SUBSET Removes(cmd) :
           /\ Typed' /\ UseOK(cmd) /\ UseOK(cmd') /\ Onward(cmd, cmd') /\ cmd.at = "apply"
           /\ EngineApply(cmd, done, gone) /\ owed' = owed \cup gone /\ UNCHANGED <<state, doubt>>
           /\ cmd'.at = "recover" /\ cmd'.gone = gone /\ state = cmd.active /\ cmd.gone = {}
           /\ faults' # 0
<1> DEFINE all == UnitsOf(Initial(cmd)) removes == Removes(cmd)
<1>1. cmd.at = "apply" /\ Spend(1) /\ UNCHANGED <<state, doubt>> BY DEF ApplyRaises
<1>2. PICK done \in SUBSET all, gone \in SUBSET removes :
        /\ PartialApply(cmd, done, gone) /\ owed' = owed \cup gone
        /\ \E rowed \in SUBSET Writes(cmd, done) :
             cmd' = [cmd EXCEPT !.at = "recover", !.hashed = rowed, !.gone = gone]
  BY DEF ApplyRaises
<1>3. PICK rowed \in SUBSET Writes(cmd, done) :
        cmd' = [cmd EXCEPT !.at = "recover", !.hashed = rowed, !.gone = gone]
  BY <1>2
<1>4. EngineApply(cmd, done, gone) BY <1>2 DEF PartialApply
<1>5. DataOK /\ CmdOK BY DEF Typed
<1>6. UseOK(cmd) /\ state = cmd.active BY <1>1, <1>5, CommandKinds
<1>7. Initial(cmd) \subseteq Tools /\ cmd.scene \in Scenes /\ cmd.ok \subseteq Units
  BY <1>6, CommandScope DEF UseOK
<1>8. removes \subseteq {p \in Removable : p[1] \in Initial(cmd)}
  BY <1>5 DEF DataOK, Removes
<1>9. rowed \subseteq UnitsOf(Initial(cmd)) BY DEF Writes
<1>10. cmd.gone = {} BY <1>1, <1>6 DEF UseOK
<1>11. faults' \in 0..MaxFaults /\ faults' # 0 BY <1>1, <1>5, OneFault DEF DataOK
<1>12. /\ Onward(cmd, cmd') /\ cmd'.at = "recover" /\ cmd'.hashed = rowed /\ cmd'.gone = gone
       /\ cmd'.ok = cmd.ok
  <2>1. DOMAIN cmd = {"op", "scene", "req", "force", "at", "active", "out", "rev", "sharers",
                      "ok", "hashed", "gone"}
    BY <1>6 DEF UseOK
  <2> HIDE DEF removes, all
  <2> QED BY <1>3, <2>1 DEF Onward
<1>13. UseOK(cmd')
  <2>1. cmd'.gone \subseteq {p \in Removable : p[1] \in Initial(cmd)} BY <1>8, <1>12
  <2>2. cmd'.at \in UseStages \ {"revert"} BY <1>12 DEF UseStages
  <2> QED BY <1>6, <1>7, <1>9, <1>12, <2>1, <2>2, OnwardUse
<1>14. CmdOK'
  <2>1. state' = cmd'.active BY <1>1, <1>6, <1>12 DEF Onward
  <2> QED BY <1>13, <2>1 DEF CmdOK
<1>15. DataOK'
  <2>1. uver' = uver /\ left' \subseteq Removable /\ seen' \in [Files -> 0..1]
        /\ effect' \in [Units -> Scenes \cup {None}]
    BY <1>4, <1>5, <1>7, SetInEffect
  <2>2. owed' \subseteq Removable BY <1>2, <1>5, <1>8 DEF DataOK
  <2> QED BY <1>1, <1>5, <1>11, <2>1, <2>2 DEF DataOK
<1> QED BY <1>1, <1>2, <1>4, <1>6, <1>10, <1>11, <1>12, <1>13, <1>14, <1>15 DEF Typed

\* The save after an apply that raised ends the command.
LEMMA RecoverStep ==
  ASSUME Typed, Recover
  PROVE  /\ Typed' /\ UseOK(cmd) /\ End /\ cmd.at = "recover" /\ UNCHANGED disk
         /\ state' \in {state, NextState(cmd)} /\ state = cmd.active
         /\ \/ state' = NextState(cmd) /\ UNCHANGED <<faults, owed, doubt>>
            \/ faults' # 0 /\ doubt' = TRUE /\ owed' = owed \ cmd.gone
<1> DEFINE new == NextState(cmd)
<1>1. cmd.at = "recover" /\ End /\ UNCHANGED disk BY DEF Recover
<1>2. DataOK /\ CmdOK BY DEF Typed
<1>3. UseOK(cmd) /\ state = cmd.active BY <1>1, <1>2, CommandKinds
<1>4. StateOK(new) BY <1>3, NextFields DEF NextKeeps
<1> HIDE DEF new
<1>5. \/ Saved(new) /\ UNCHANGED <<faults, owed, doubt>>
      \/ SaveRaises(new) /\ Spend(1) /\ doubt' = TRUE /\ owed' = owed \ cmd.gone
  BY DEF Recover, new
<1>6. state' \in {state, new} BY <1>5, Stored
<1>7. CASE Saved(new) /\ UNCHANGED <<faults, owed, doubt>>
  <2>1. DataOK' BY <1>1, <1>2, <1>4, <1>6, <1>7 DEF DataOK, disk
  <2> QED BY <1>1, <1>3, <1>6, <1>7, <2>1, Ends DEF Typed, new, Saved
<1>8. CASE SaveRaises(new) /\ Spend(1) /\ doubt' = TRUE /\ owed' = owed \ cmd.gone
  <2>1. faults' \in 0..MaxFaults /\ faults' # 0 BY <1>2, <1>8, OneFault DEF DataOK
  <2>2. owed' \subseteq Removable BY <1>2, <1>8 DEF DataOK
  <2>3. DataOK' BY <1>1, <1>2, <1>4, <1>6, <1>8, <2>1, <2>2 DEF DataOK, disk
  <2> QED BY <1>1, <1>3, <1>6, <1>8, <2>1, <2>3, Ends DEF Typed, new
<1> QED BY <1>5, <1>7, <1>8

\* The save of an activation ends it, or fails and is rolled back.
LEMMA SaveStep ==
  ASSUME Typed, Save
  PROVE  /\ Typed' /\ UseOK(cmd) /\ cmd.at = "save" /\ UNCHANGED <<disk, owed>>
         /\ state' \in {state, NextState(cmd)} /\ state = cmd.active
         /\ \/ /\ state' = NextState(cmd) /\ End /\ UNCHANGED faults
               /\ doubt' = (doubt /\ cmd.ok # Units)
            \/ /\ faults' # 0 /\ UNCHANGED doubt
               /\ UseOK(cmd') /\ Onward(cmd, cmd') /\ cmd'.at = "rollback"
               /\ cmd'.gone = cmd.gone
<1> DEFINE new == NextState(cmd)
<1>1. cmd.at = "save" /\ UNCHANGED <<disk, owed>> BY DEF Save
<1>2. DataOK /\ CmdOK BY DEF Typed
<1>3. UseOK(cmd) /\ state = cmd.active BY <1>1, <1>2, CommandKinds
<1>4. StateOK(new) BY <1>3, NextFields DEF NextKeeps
<1> HIDE DEF new
<1>5. \/ Saved(new) /\ UNCHANGED faults /\ End /\ doubt' = (doubt /\ cmd.ok # Units)
      \/ /\ SaveRaises(new) /\ Spend(1) /\ UNCHANGED doubt
         /\ cmd' = [cmd EXCEPT !.at = "rollback"]
  BY DEF Save, new
<1>6. state' \in {state, new} BY <1>5, Stored
<1>7. CASE Saved(new) /\ UNCHANGED faults /\ End /\ doubt' = (doubt /\ cmd.ok # Units)
  <2>1. doubt' \in BOOLEAN BY <1>7
  <2>2. DataOK' BY <1>1, <1>2, <1>4, <1>6, <1>7, <2>1 DEF DataOK, disk
  <2>3. CmdOK' BY <1>7, Ends
  <2>4. state' = new BY <1>7 DEF Saved
  <2> QED BY <1>1, <1>3, <1>6, <1>7, <2>2, <2>3, <2>4 DEF Typed, new
<1>8. CASE /\ SaveRaises(new) /\ Spend(1) /\ UNCHANGED doubt
           /\ cmd' = [cmd EXCEPT !.at = "rollback"]
  <2>1. faults' \in 0..MaxFaults /\ faults' # 0 BY <1>2, <1>8, OneFault DEF DataOK
  <2>2. DataOK' BY <1>1, <1>2, <1>4, <1>6, <1>8, <2>1 DEF DataOK, disk
  <2>3. DOMAIN cmd = {"op", "scene", "req", "force", "at", "active", "out", "rev", "sharers",
                      "ok", "hashed", "gone"}
    BY <1>3 DEF UseOK
  <2>4. /\ Onward(cmd, cmd') /\ cmd'.at = "rollback" /\ cmd'.gone = cmd.gone
        /\ cmd'.ok = cmd.ok /\ cmd'.hashed = cmd.hashed
    BY <1>8, <2>3 DEF Onward
  <2>5. UseOK(cmd')
    <3>1. /\ cmd.ok \subseteq Units /\ cmd.hashed \subseteq UnitsOf(Initial(cmd))
          /\ cmd.gone \subseteq {p \in Removable : p[1] \in Initial(cmd)}
      BY <1>3 DEF UseOK
    <3>2. cmd'.at \in UseStages \ {"revert"} BY <2>4 DEF UseStages
    <3> QED BY <1>3, <2>4, <3>1, <3>2, OnwardUse
  <2>6. CmdOK' BY <2>4, <2>5 DEF CmdOK
  <2> QED BY <1>1, <1>3, <1>6, <1>8, <2>1, <2>2, <2>4, <2>5, <2>6 DEF Typed, new
<1> QED BY <1>5, <1>7, <1>8

\* A rollback takes back what is not an error, and goes on to the state only without one.
LEMMA RollbackStep ==
  ASSUME Typed, Rollback
  PROVE  \E bad \in ErrorRows(Initial(cmd), TRUE) :
           /\ Typed' /\ UseOK(cmd) /\ cmd.at = "rollback" /\ UNCHANGED state
           /\ EngineClear(UnitsOf(Initial(cmd)) \ bad)
           /\ faults' = 0 => faults = 0
           /\ \/ /\ bad = {} /\ UseOK(cmd') /\ Onward(cmd, cmd') /\ cmd'.at = "restore"
                 /\ cmd'.gone = cmd.gone /\ UNCHANGED <<owed, doubt>>
              \/ End /\ doubt' = TRUE /\ Tell(cmd)
<1>1. cmd.at = "rollback" /\ UNCHANGED state BY DEF Rollback
<1>2. PICK bad \in ErrorRows(Initial(cmd), TRUE) :
        /\ Spend(Cardinality(bad)) /\ EngineClear(UnitsOf(Initial(cmd)) \ bad)
        /\ \/ bad = {} /\ cmd' = [cmd EXCEPT !.at = "restore"] /\ UNCHANGED <<owed, doubt>>
           \/ bad # {} /\ End /\ doubt' = TRUE /\ Tell(cmd)
  BY DEF Rollback
<1>3. DataOK /\ CmdOK BY DEF Typed
<1>4. UseOK(cmd) BY <1>1, <1>3, CommandKinds
<1>5. Initial(cmd) \subseteq Tools BY <1>4, CommandScope
<1>6. Cardinality(bad) \in Nat
  <2>1. bad \subseteq Units BY <1>5, RowsAreUnits DEF ErrorRows
  <2> QED BY <2>1, Counted
<1>7. faults' \in 0..MaxFaults /\ faults' = faults + Cardinality(bad)
  BY <1>2, <1>3, <1>6, Spent DEF DataOK
<1>8. faults' = 0 => faults = 0 BY <1>3, <1>6, <1>7 DEF DataOK
<1>9. uver' = uver /\ left' = left /\ seen' \in [Files -> 0..1]
      /\ effect' \in [Units -> Scenes \cup {None}]
  BY <1>2, <1>3, Undone
<1>10. CASE bad = {} /\ cmd' = [cmd EXCEPT !.at = "restore"] /\ UNCHANGED <<owed, doubt>>
  <2>1. DataOK' BY <1>1, <1>3, <1>7, <1>9, <1>10 DEF DataOK
  <2>2. DOMAIN cmd = {"op", "scene", "req", "force", "at", "active", "out", "rev", "sharers",
                      "ok", "hashed", "gone"}
    BY <1>4 DEF UseOK
  <2>3. /\ Onward(cmd, cmd') /\ cmd'.at = "restore" /\ cmd'.gone = cmd.gone
        /\ cmd'.ok = cmd.ok /\ cmd'.hashed = cmd.hashed
    BY <1>10, <2>2 DEF Onward
  <2>4. UseOK(cmd')
    <3>1. /\ cmd.ok \subseteq Units /\ cmd.hashed \subseteq UnitsOf(Initial(cmd))
          /\ cmd.gone \subseteq {p \in Removable : p[1] \in Initial(cmd)}
      BY <1>4 DEF UseOK
    <3>2. cmd'.at \in UseStages \ {"revert"} BY <2>3 DEF UseStages
    <3> QED BY <1>4, <2>3, <3>1, <3>2, OnwardUse
  <2>5. CmdOK' BY <2>3, <2>4 DEF CmdOK
  <2> QED BY <1>1, <1>2, <1>4, <1>8, <1>10, <2>1, <2>3, <2>4, <2>5 DEF Typed
<1>11. CASE bad # {} /\ End /\ doubt' = TRUE /\ Tell(cmd)
  <2>1. owed' \subseteq Removable BY <1>3, <1>11 DEF Tell, DataOK
  <2>2. DataOK' BY <1>1, <1>3, <1>7, <1>9, <1>11, <2>1 DEF DataOK
  <2>3. CmdOK' BY <1>11, Ends
  <2> QED BY <1>1, <1>2, <1>4, <1>8, <1>11, <2>2, <2>3 DEF Typed
<1> QED BY <1>2, <1>10, <1>11

\* A rollback that raises ends the command.
LEMMA RollbackRaisesStep ==
  ASSUME Typed, RollbackRaises
  PROVE  /\ Typed' /\ UseOK(cmd) /\ cmd.at = "rollback" /\ UNCHANGED state
         /\ \E done : EngineClear(done)
         /\ End /\ doubt' = TRUE /\ Tell(cmd) /\ faults' # 0
<1>1. /\ cmd.at = "rollback" /\ UNCHANGED state /\ Spend(1)
      /\ End /\ doubt' = TRUE /\ Tell(cmd)
  BY DEF RollbackRaises
<1>2. PICK done : EngineClear(done) BY DEF RollbackRaises
<1>3. DataOK /\ CmdOK BY DEF Typed
<1>4. UseOK(cmd) BY <1>1, <1>3, CommandKinds
<1>5. faults' \in 0..MaxFaults /\ faults' # 0 BY <1>1, <1>3, OneFault DEF DataOK
<1>6. uver' = uver /\ left' = left /\ seen' \in [Files -> 0..1]
      /\ effect' \in [Units -> Scenes \cup {None}]
  BY <1>2, <1>3, Undone
<1>7. owed' \subseteq Removable BY <1>1, <1>3 DEF Tell, DataOK
<1>8. DataOK' BY <1>1, <1>3, <1>5, <1>6, <1>7 DEF DataOK
<1>9. CmdOK' BY <1>1, Ends
<1> QED BY <1>1, <1>2, <1>4, <1>5, <1>8, <1>9 DEF Typed

\* The state after a rollback ends the command.
LEMMA RestoreStep ==
  ASSUME Typed, Restore
  PROVE  /\ Typed' /\ UseOK(cmd) /\ cmd.at = "restore" /\ UNCHANGED disk /\ End /\ Tell(cmd)
         /\ state' \in {state, RestoredState(cmd)}
         /\ faults' = 0 => faults = 0
         /\ doubt' = TRUE \/ (state' = RestoredState(cmd) /\ UNCHANGED doubt)
<1> DEFINE new == RestoredState(cmd)
<1>1. cmd.at = "restore" /\ UNCHANGED disk /\ End /\ Tell(cmd) BY DEF Restore
<1>2. DataOK /\ CmdOK BY DEF Typed
<1>3. UseOK(cmd) BY <1>1, <1>2, CommandKinds
<1>4. StateOK(new) BY <1>3, RestoredFields
<1> HIDE DEF new
<1>5. \/ Saved(new) /\ UNCHANGED <<faults, doubt>>
      \/ SaveRaises(new) /\ Spend(1) /\ doubt' = TRUE
  BY DEF Restore, new
<1>6. state' \in {state, new} BY <1>5, Stored
<1>7. owed' \subseteq Removable BY <1>1, <1>2 DEF Tell, DataOK
<1>8. CmdOK' BY <1>1, Ends
<1>9. CASE Saved(new) /\ UNCHANGED <<faults, doubt>>
  <2>1. DataOK' BY <1>1, <1>2, <1>4, <1>6, <1>7, <1>9 DEF DataOK, disk
  <2> QED BY <1>1, <1>3, <1>6, <1>8, <1>9, <2>1 DEF Typed, new, Saved
<1>10. CASE SaveRaises(new) /\ Spend(1) /\ doubt' = TRUE
  <2>1. faults' \in 0..MaxFaults /\ faults' # 0 BY <1>2, <1>10, OneFault DEF DataOK
  <2>2. DataOK' BY <1>1, <1>2, <1>4, <1>6, <1>7, <1>10, <2>1 DEF DataOK, disk
  <2> QED BY <1>1, <1>3, <1>6, <1>8, <1>10, <2>1, <2>2 DEF Typed, new
<1> QED BY <1>5, <1>9, <1>10

\* The end of a clear ends the command, with the cleared state unless the save failed.
LEMMA FinishStep ==
  ASSUME Typed, Finish
  PROVE  /\ Typed' /\ ClearOK(cmd) /\ cmd.at = "finish" /\ End /\ UNCHANGED <<disk, owed, doubt>>
         /\ state' \in {state, ClearedState(cmd)} /\ cmd.active = state
         /\ faults' # 0 \/ (faults' = faults /\ state' = ClearedState(cmd))
<1> DEFINE new == ClearedState(cmd)
<1>1. cmd.at = "finish" /\ End /\ UNCHANGED <<disk, owed, doubt>> BY DEF Finish
<1>2. DataOK /\ CmdOK BY DEF Typed
<1>3. cmd.active = state /\ ClearOK(cmd) BY <1>1, <1>2, CommandKinds
<1>4. StateOK(new) BY <1>3, ClearedFields
<1> HIDE DEF new
<1>5. \/ Saved(new) /\ UNCHANGED faults
      \/ SaveRaises(new) /\ Spend(1)
  BY DEF Finish, new
<1>6. state' \in {state, new} BY <1>5, Stored
<1>7. CASE Saved(new) /\ UNCHANGED faults
  <2>1. DataOK' BY <1>1, <1>2, <1>4, <1>6, <1>7 DEF DataOK, disk
  <2> QED BY <1>1, <1>3, <1>6, <1>7, <2>1, Ends DEF Typed, new, Saved
<1>8. CASE SaveRaises(new) /\ Spend(1)
  <2>1. faults' \in 0..MaxFaults /\ faults' # 0 BY <1>2, <1>8, OneFault DEF DataOK
  <2>2. DataOK' BY <1>1, <1>2, <1>4, <1>6, <2>1 DEF DataOK, disk
  <2> QED BY <1>1, <1>3, <1>6, <2>1, <2>2, Ends DEF Typed, new
<1> QED BY <1>5, <1>7, <1>8

\* A kill ends the command, wherever the engine was; the state file is what it was.
LEMMA CrashStep ==
  ASSUME Typed, Crash
  PROVE  /\ Typed' /\ cmd # Idle /\ End /\ doubt' = TRUE /\ owed' = owed \cap OnRecord
         /\ UNCHANGED state /\ faults' # 0 /\ uver' = uver
         /\ \A f \in Files : seen'[f] \in {seen[f], uver[f]}
         /\ cmd.at = "revert" =>
              \/ UNCHANGED disk
              \/ \E done \in SUBSET (UnitsOf(cmd.rev) \ Refused(cmd.rev, cmd.force)) :
                   EngineClear(done)
<1>1. /\ cmd # Idle /\ Spend(1) /\ End /\ doubt' = TRUE /\ owed' = owed \cap OnRecord
      /\ UNCHANGED state
  BY DEF Crash
<1>2. DataOK /\ CmdOK BY DEF Typed
<1>3. faults' \in 0..MaxFaults /\ faults' # 0 BY <1>1, <1>2, OneFault DEF DataOK
<1>4. /\ uver' = uver /\ left' \subseteq Removable /\ seen' \in [Files -> 0..1]
      /\ effect' \in [Units -> Scenes \cup {None}]
      /\ \A f \in Files : seen'[f] \in {seen[f], uver[f]}
      /\ cmd.at = "revert" =>
           \/ UNCHANGED disk
           \/ \E done \in SUBSET (UnitsOf(cmd.rev) \ Refused(cmd.rev, cmd.force)) :
                EngineClear(done)
  <2>1. CASE UNCHANGED disk BY <1>2, <2>1 DEF disk, DataOK
  <2>2. CASE cmd.at = "revert"
             /\ \E done \in SUBSET (UnitsOf(cmd.rev) \ Refused(cmd.rev, cmd.force)) :
                  EngineClear(done)
    <3>1. PICK done \in SUBSET (UnitsOf(cmd.rev) \ Refused(cmd.rev, cmd.force)) :
            EngineClear(done)
      BY <2>2
    <3>2. /\ uver' = uver /\ left' = left /\ seen' \in [Files -> 0..1]
          /\ effect' \in [Units -> Scenes \cup {None}]
          /\ \A f \in Files : seen'[f] \in {seen[f], uver[f]}
      BY <1>2, <3>1, Undone
    <3> QED BY <1>2, <2>2, <3>2 DEF DataOK
  <2>3. CASE cmd.at = "rollback" /\ \E done : EngineClear(done)
    <3>1. PICK done : EngineClear(done) BY <2>3
    <3>2. /\ uver' = uver /\ left' = left /\ seen' \in [Files -> 0..1]
          /\ effect' \in [Units -> Scenes \cup {None}]
          /\ \A f \in Files : seen'[f] \in {seen[f], uver[f]}
      BY <1>2, <3>1, Undone
    <3> QED BY <1>2, <2>3, <3>2 DEF DataOK
  <2>4. CASE cmd.at = "apply" /\ \E done, gone : EngineApply(cmd, done, gone)
    <3>1. PICK done, gone : EngineApply(cmd, done, gone) BY <2>4
    <3>2. cmd.scene \in Scenes BY <1>2, <2>4, CommandKinds DEF UseOK
    <3>3. /\ uver' = uver /\ left' \subseteq Removable /\ seen' \in [Files -> 0..1]
          /\ effect' \in [Units -> Scenes \cup {None}]
          /\ \A f \in Files : seen'[f] \in {seen[f], uver[f]}
      BY <1>2, <3>1, <3>2, SetInEffect
    <3> QED BY <2>4, <3>3
  <2>5. \/ UNCHANGED disk
        \/ /\ cmd.at = "revert"
           /\ \E done \in SUBSET (UnitsOf(cmd.rev) \ Refused(cmd.rev, cmd.force)) :
                EngineClear(done)
        \/ cmd.at = "rollback" /\ \E done : EngineClear(done)
        \/ cmd.at = "apply" /\ \E done, gone : EngineApply(cmd, done, gone)
    BY DEF Crash, PartialApply
  <2> QED BY <2>1, <2>2, <2>3, <2>4, <2>5
<1>5. owed' \subseteq Removable BY <1>1, <1>2 DEF DataOK
<1>6. DataOK' BY <1>1, <1>2, <1>3, <1>4, <1>5 DEF DataOK
<1>7. CmdOK' BY <1>1, Ends
<1> QED BY <1>1, <1>3, <1>4, <1>6, <1>7 DEF Typed

\* An edit is of one file, and no command runs.
LEMMA EditStep ==
  ASSUME Typed, NEW f \in Editable, UserEdits(f)
  PROVE  /\ Typed' /\ cmd = Idle
         /\ UNCHANGED <<effect, left, seen, state, cmd, owed, doubt, faults>>
         /\ \A g \in Files : uver[g] <= uver'[g]
<1>1. /\ cmd = Idle /\ uver[f] = 0 /\ uver' = [uver EXCEPT ![f] = @ + 1]
      /\ UNCHANGED <<effect, left, seen, state, cmd, owed, doubt, faults>>
  BY DEF UserEdits
<1>2. DataOK /\ CmdOK BY DEF Typed
<1>3. uver \in [Files -> 0..1] BY <1>2 DEF DataOK
<1>4. uver' \in [Files -> 0..1] /\ \A g \in Files : uver[g] <= uver'[g]
  <2>0. DOMAIN uver = Files BY <1>3
  <2>1. /\ DOMAIN uver' = Files /\ uver' = [g \in Files |-> uver'[g]]
        /\ \A g \in Files : uver'[g] = IF g = f THEN uver[g] + 1 ELSE uver[g]
    BY <1>1, <2>0
  <2>2. \A g \in Files : uver[g] \in 0..1 /\ uver'[g] = IF g = f THEN 1 ELSE uver[g]
    BY <1>1, <1>3, <2>1
  <2>3. \A g \in Files : uver'[g] \in 0..1 /\ uver[g] <= uver'[g] BY <1>1, <2>2
  <2> QED BY <2>1, <2>3
<1>5. DataOK' BY <1>1, <1>2, <1>4 DEF DataOK
<1>6. CmdOK'
  <2>1. UNCHANGED <<state, cmd>> BY <1>1
  <2> QED BY <1>2, <2>1 DEF CmdOK
<1> QED BY <1>1, <1>4, <1>5, <1>6 DEF Typed

\* A sync puts back what was removed, and no command runs.
LEMMA ResyncStep ==
  ASSUME Typed, Resync
  PROVE  /\ Typed' /\ cmd = Idle /\ owed' = {}
         /\ UNCHANGED <<effect, uver, seen, state, cmd, doubt, faults>>
<1>1. /\ cmd = Idle /\ left' = Removable /\ owed' = {}
      /\ UNCHANGED <<effect, uver, seen, state, cmd, doubt, faults>>
  BY DEF Resync
<1>2. DataOK /\ CmdOK BY DEF Typed
<1>3. DataOK' BY <1>1, <1>2 DEF DataOK
<1>4. CmdOK'
  <2>1. UNCHANGED <<state, cmd>> BY <1>1
  <2> QED BY <1>2, <2>1 DEF CmdOK
<1> QED BY <1>1, <1>3, <1>4 DEF Typed

\* Everything is of its type, and the running command works from the state file it loaded, on
\* tools that state file or the user named.
THEOREM TypedInductive == Spec => []Typed
<1>1. Init => Typed
  <2> SUFFICES ASSUME Init PROVE Typed OBVIOUS
  <2>1. cmd = Idle /\ state = NoState /\ owed = {} /\ doubt = FALSE /\ faults = 0
        /\ left = Removable /\ effect = [u \in Units |-> None]
        /\ uver = [f \in Files |-> 0] /\ seen = [f \in Files |-> 0]
    BY DEF Init
  <2>2. CmdOK BY <2>1 DEF CmdOK, Idle
  <2>3. MaxFaults \in Nat BY SceneActivationAssumption DEF SceneActivationAssumption
  <2>4. StateOK(state) BY <2>1 DEF StateOK
  <2>5. 0 \in 0..MaxFaults BY <2>3
  <2>6. effect \in [Units -> Scenes \cup {None}] BY <2>1
  <2>7. uver \in [Files -> 0..1] /\ seen \in [Files -> 0..1] BY <2>1
  <2>8. DataOK BY <2>1, <2>4, <2>5, <2>6, <2>7 DEF DataOK
  <2> QED BY <2>2, <2>8 DEF Typed
<1>2. Typed /\ [Next]_vars => Typed'
  <2> SUFFICES ASSUME Typed, [Next]_vars PROVE Typed' OBVIOUS
  <2>1. ASSUME NEW s \in Scenes, NEW r \in Requests, NEW force \in BOOLEAN, Use(s, r, force)
        PROVE  Typed'
    BY <2>1, UseStep
  <2>2. ASSUME NEW r \in Requests, NEW force \in BOOLEAN, Clear(r, force) PROVE Typed'
    BY <2>2, ClearStep
  <2>3. CASE Revert BY <2>3, RevertStep
  <2>4. CASE RevertRaises BY <2>4, RevertRaisesStep
  <2>5. CASE Reconcile BY <2>5, ReconcileStep
  <2>6. CASE Apply BY <2>6, ApplyStep
  <2>7. CASE ApplyRaises BY <2>7, ApplyRaisesStep
  <2>8. CASE Recover BY <2>8, RecoverStep
  <2>9. CASE Save BY <2>9, SaveStep
  <2>10. CASE Rollback BY <2>10, RollbackStep
  <2>11. CASE RollbackRaises BY <2>11, RollbackRaisesStep
  <2>12. CASE Restore BY <2>12, RestoreStep
  <2>13. CASE Finish BY <2>13, FinishStep
  <2>14. CASE Crash BY <2>14, CrashStep
  <2>15. ASSUME NEW f \in Editable, UserEdits(f) PROVE Typed' BY <2>15, EditStep
  <2>16. CASE Resync BY <2>16, ResyncStep
  <2>17. CASE UNCHANGED vars BY <2>17 DEF vars, Typed, DataOK, CmdOK
  <2> QED
    BY <2>1, <2>2, <2>3, <2>4, <2>5, <2>6, <2>7, <2>8, <2>9, <2>10, <2>11, <2>12, <2>13, <2>14,
       <2>15, <2>16, <2>17
       DEF Next, Step
<1> QED BY <1>1, <1>2, PTL DEF Spec

\* The state file names a scene exactly when it has a record of a tool, every record is of a
\* tool, its mechanisms are concerns and its hashes are of files crossby manages (save_scene_state
\* removes an empty state).
THEOREM TypeCorrect == Spec => []TypeOK
<1>1. Typed => TypeOK
  <2> SUFFICES ASSUME Typed PROVE TypeOK OBVIOUS
  <2>1. DataOK BY DEF Typed
  <2>2. StateOK(state) BY <2>1 DEF DataOK
  <2>3. state.scene \in Scenes \cup {None} /\ Recorded \subseteq Tools
        /\ ((state.scene = None) <=> (Recorded = {}))
    <3>1. CASE state = NoState
      <4>1. DOMAIN NoState.tools = {} /\ NoState.scene = None BY DEF NoState
      <4> QED BY <3>1, <4>1 DEF Recorded
    <3>2. CASE state # NoState
      <4>1. None \notin Scenes
        BY SceneActivationAssumption DEF SceneActivationAssumption, None
      <4> QED BY <2>2, <3>2, <4>1 DEF StateOK, Recorded
    <3> QED BY <3>1, <3>2
  <2>4. \A t \in Recorded : RecOK(state.tools[t]) BY <2>2, StateFields DEF Recorded
  <2>5. \A t \in Recorded : /\ state.tools[t].mech \subseteq Concerns
                            /\ DOMAIN state.tools[t].hash \subseteq Files
                            /\ state.tools[t].revoked \subseteq Irreversible
    BY <2>4 DEF RecOK
  <2> QED BY <2>1, <2>3, <2>5 DEF DataOK, TypeOK
<1> QED BY <1>1, TypedInductive, PTL
-----------------------------------------------------------------------------
(* What is in effect is accounted for.                                     *)

\* What is selected is of the tools asked for.
LEMMA SelectedUnits ==
  ASSUME NEW c, Initial(c) \subseteq Tools, NEW u, Selected(c, u)
  PROVE  u \in UnitsOf(Initial(c))
<1>1. PICK t \in Initial(c), k \in Reversible :
        Mech[t, k] # "unsupported" /\ u = UnitOf(t, k)
  BY DEF Selected
<1>2. u \in UnitsOf({t}) BY <1>1, UnitsOfTool
<1>3. {t} \subseteq Initial(c) OBVIOUS
<1> QED BY <1>2, <1>3, UnitsGrow

\* The same command selects and spares the same.
LEMMA OnwardScopes ==
  ASSUME NEW c, NEW d, UseOK(c), Onward(c, d)
  PROVE  /\ Initial(d) = Initial(c) /\ d.scene = c.scene /\ d.active = c.active /\ d.rev = c.rev
         /\ \A u : (Selected(d, u) <=> Selected(c, u)) /\ (Spared(d, u) <=> Spared(c, u))
<1>1. Initial(d) = Initial(c) BY DEF Initial, Onward
<1>2. d.scene = c.scene /\ d.active = c.active /\ d.rev = c.rev BY DEF Onward, UseOK
<1> QED BY <1>1, <1>2 DEF Selected, Spared

\* Between commands, what is in effect is of the state file.
LEMMA IdleAccounted ==
  ASSUME End, ~doubt' => Backed(state)'
  PROVE  Accounted'
<1>1. cmd'.at = "idle" BY Ends
<1> QED BY <1>1 DEF Accounted

\* What a state file with a record of the scene accounts for.
LEMMA BackedBy ==
  ASSUME NEW new, \A t \in DOMAIN new.tools : new.scene = state.scene,
         \A u \in Units : Chosen(u) => effect[u] = state.scene /\ Covered(new, u)
  PROVE  Backed(new)
  BY DEF Backed, Covered

\* The guard and the scope of an activation: what it does not revert is of its own scene, and not
\* of a tool it was asked for.
LEMMA UseScope ==
  ASSUME StateOK(state), NEW c, c.req \in Requests, ~Strands(c), NEW u \in Units,
         Covered(state, u)
  PROVE  /\ c.req = "all" => u \in UnitsOf(Recorded) /\ Recorded # {}
         /\ state # NoState
         /\ c.req # "all" /\ u \notin UnitsOf({c.req}) => state.scene = c.scene
         /\ c.req # "all" /\ OutgoingScope(c) = {} => u \notin UnitsOf({c.req})
<1>1. PICK t \in Recorded, k \in Reversible :
        k \in state.tools[t].mech /\ Mech[t, k] # "unsupported" /\ u = UnitOf(t, k)
  BY DEF Covered, Recorded
<1>2. Recorded \subseteq Tools BY StateFields DEF Recorded
<1>3. u \in UnitsOf({t}) BY <1>1, <1>2, UnitsOfTool
<1>4. u \in UnitsOf(Recorded)
  <2>1. {t} \subseteq Recorded OBVIOUS
  <2> QED BY <1>2, <1>3, <2>1, UnitsGrow
<1>5. state # NoState BY <1>1, StateFields DEF Recorded
<1>6. ASSUME c.req # "all" PROVE Initial(c) = {c.req} /\ c.req \in Tools BY <1>6, Asked
<1>7. ASSUME c.req # "all", u \notin UnitsOf({c.req}) PROVE state.scene = c.scene
  <2>1. SUFFICES ASSUME state.scene # c.scene PROVE FALSE OBVIOUS
  <2>2. t \notin Initial(c) BY <1>3, <1>6, <1>7
  <2>3. CASE t \in OutgoingSharers(c)
    <3>1. t \in OutgoingScope(c) \ Initial(c) BY <1>7, <2>2, <2>3 DEF OutgoingScope
    <3>2. state.tools[t].mech = {"skills"} BY <1>5, <1>7, <2>1, <3>1 DEF Strands
    <3>3. k = "skills" BY <1>1, <3>2
    <3>4. SkillsDir[t] = SkillsDir[c.req] BY <1>6, <1>7, <2>2, <2>3 DEF OutgoingSharers, Sharers
    <3> QED BY <1>1, <1>2, <1>6, <1>7, <3>3, <3>4, SharedUnit
  <2>4. CASE t \notin OutgoingSharers(c)
    <3>1. t \in Recorded \ (Initial(c) \cup OutgoingSharers(c)) BY <2>2, <2>4
    <3>2. state.tools[t].mech = {} BY <1>5, <1>7, <2>1, <3>1 DEF Strands
    <3> QED BY <1>1, <3>2
  <2> QED BY <2>3, <2>4
<1>8. ASSUME c.req # "all", OutgoingScope(c) = {} PROVE u \notin UnitsOf({c.req})
  <2>1. SUFFICES ASSUME u \in UnitsOf({c.req}) PROVE FALSE OBVIOUS
  <2>2. t \notin Initial(c) BY <1>8 DEF OutgoingScope
  <2>3. k = "skills" /\ SkillsDir[t] = SkillsDir[c.req]
    BY <1>1, <1>2, <1>6, <1>8, <2>1, <2>2, ForeignUnit
  <2>4. t \in OutgoingSharers(c)
    BY <1>1, <1>6, <1>8, <2>2, <2>3 DEF OutgoingSharers, Sharers
  <2> QED BY <1>8, <2>4 DEF OutgoingScope
<1> QED BY <1>4, <1>5, <1>7, <1>8

\* An activation that starts.
LEMMA UseAccounted ==
  ASSUME Typed, Accounted, NEW s \in Scenes, NEW r \in Requests, NEW force \in BOOLEAN,
         Use(s, r, force)
  PROVE  Accounted'
<1> DEFINE c == [op |-> "use", scene |-> s, req |-> r]
<1>1. /\ UseOK(cmd') /\ cmd = Idle /\ UNCHANGED <<disk, state, owed, doubt, faults>>
      /\ cmd'.scene = s /\ cmd'.req = r /\ cmd'.active = state
      /\ cmd'.op = "use"
      /\ cmd'.out = (IF state = NoState THEN {} ELSE OutgoingScope(c))
      /\ cmd'.at = (IF cmd'.out = {} THEN "apply" ELSE "revert")
      /\ ~Strands(c)
  BY UseStep
<1>2. c.req = r /\ c.scene = s OBVIOUS
<1> HIDE DEF c
<1>3. StateOK(state) BY DEF Typed, DataOK
<1>4. effect' = effect /\ doubt' = doubt BY <1>1 DEF disk
<1>5. ~doubt => Backed(state)
  <2>1. cmd.at = "idle" BY <1>1 DEF Idle
  <2> QED BY <2>1 DEF Accounted
<1>6. cmd'.rev = IF cmd'.out = {} THEN {} ELSE IF r = "all" THEN cmd'.out ELSE {r}
  BY <1>1 DEF UseOK
<1>7. (r # "all" => Initial(cmd') = {r}) /\ Initial(cmd') \subseteq Tools
  BY <1>1, Asked
<1>8. CASE cmd'.at = "revert"
  <2>1. cmd'.out # {} /\ state # NoState /\ cmd'.out = OutgoingScope(c) BY <1>1, <1>8
  <2>2. ASSUME NEW u \in Units, Covered(state, u)
        PROVE  \/ u \in UnitsOf(cmd'.rev)
               \/ u \notin UnitsOf(Initial(cmd')) /\ state.scene = s
    <3>1. /\ r = "all" => u \in UnitsOf(Recorded)
          /\ r # "all" /\ u \notin UnitsOf({r}) => state.scene = s
      BY <1>1, <1>2, <1>3, <2>2, UseScope
    <3>2. r = "all" => cmd'.rev = Recorded BY <1>2, <1>6, <2>1 DEF OutgoingScope
    <3>3. r # "all" => cmd'.rev = {r} BY <1>6, <2>1
    <3> QED BY <1>7, <3>1, <3>2, <3>3
  <2>3. Switchable(cmd)' BY <1>1, <2>2 DEF Switchable
  <2>4. ~doubt => Backed(state)' BY <1>1, <1>4, <1>5 DEF Backed, Chosen
  <2>5. ~doubt' => Backed(cmd.active)' BY <1>1, <1>4, <2>4 DEF Backed
  <2> QED BY <1>8, <2>3, <2>5 DEF Accounted
<1>9. CASE cmd'.at = "apply"
  <2>1. cmd'.out = {} BY <1>1, <1>9
  <2>2. ASSUME ~doubt, NEW u \in Units, Chosen(u)
        PROVE  effect[u] = s /\ Spared(cmd', u)
    <3>1. effect[u] = state.scene /\ Covered(state, u) BY <1>5, <2>2 DEF Backed
    <3>2. /\ r = "all" => Recorded # {}
          /\ state # NoState
          /\ r # "all" /\ u \notin UnitsOf({r}) => state.scene = s
          /\ r # "all" /\ OutgoingScope(c) = {} => u \notin UnitsOf({r})
      BY <1>1, <1>2, <1>3, <3>1, UseScope
    <3>3. OutgoingScope(c) = {} BY <1>1, <2>1, <3>2
    <3>4. r # "all" BY <1>2, <3>2, <3>3 DEF OutgoingScope
    <3> QED BY <1>1, <1>7, <3>1, <3>2, <3>3, <3>4 DEF Spared
  <2>3. ~doubt' => Others(cmd)' BY <1>1, <1>4, <2>2 DEF Others, Chosen, Spared
  <2> QED BY <1>9, <2>3 DEF Accounted
<1> QED BY <1>1, <1>8, <1>9

\* A clear that starts.
LEMMA ClearAccounted ==
  ASSUME Typed, Accounted, NEW r \in Requests, NEW force \in BOOLEAN, Clear(r, force)
  PROVE  Accounted'
<1>1. /\ cmd = Idle /\ UNCHANGED <<disk, state, doubt>>
      /\ cmd'.active = state /\ cmd'.op = "clear" /\ cmd'.at = "revert"
  BY ClearStep
<1>2. ~doubt => Backed(state)
  <2>1. cmd.at = "idle" BY <1>1 DEF Idle
  <2> QED BY <2>1 DEF Accounted
<1>3. ~doubt' => Backed(cmd.active)' BY <1>1, <1>2 DEF Backed, Chosen, disk
<1> QED BY <1>1, <1>3 DEF Accounted

\* A revert.
LEMMA RevertAccounted ==
  ASSUME Typed, Accounted, Revert
  PROVE  Accounted'
<1>1. PICK bad \in ErrorRows(cmd.rev, cmd.force) :
        /\ Onward(cmd, cmd') /\ cmd.at = "revert" /\ UNCHANGED <<state, owed, doubt>>
        /\ bad \subseteq Rows(cmd.rev)
        /\ EngineClear(UnitsOf(cmd.rev) \ bad)
        /\ cmd'.ok = Rows(cmd.rev) \ bad
        /\ cmd'.at = (IF bad # {} THEN "reconcile"
                      ELSE IF cmd.op = "use" THEN "apply" ELSE "finish")
  BY RevertStep
<1>2. DataOK /\ CmdOK BY DEF Typed
<1>3. /\ UseOK(cmd) \/ ClearOK(cmd)
      /\ cmd.op = "use" => UseOK(cmd)
  BY <1>1, <1>2, CommandKinds
<1>4. Rows(cmd.rev) \subseteq UnitsOf(cmd.rev) /\ UnitsOf(cmd.rev) \subseteq Units
  BY <1>3, CommandScope, RowsAreUnits
<1>5. /\ \A u \in Units : effect'[u] = IF u \in UnitsOf(cmd.rev) \ bad THEN None ELSE effect[u]
      /\ \A u \in Units : Chosen(u)' => /\ u \notin UnitsOf(cmd.rev) \ bad /\ Chosen(u)
                                        /\ effect'[u] = effect[u]
  BY <1>1, <1>2, Undone
<1>6. ~doubt => Backed(cmd.active) BY <1>1 DEF Accounted
<1>7. ~doubt' => Backed(cmd.active)' BY <1>1, <1>5, <1>6 DEF Backed, Onward
<1>8. CASE cmd'.at = "reconcile"
  <2>1. \A u \in cmd'.ok : effect'[u] = None BY <1>1, <1>4, <1>5
  <2> QED BY <1>7, <1>8, <2>1 DEF Accounted
<1>9. CASE cmd'.at = "apply"
  <2>1. bad = {} /\ cmd.op = "use" BY <1>1, <1>9
  <2>2. UseOK(cmd) BY <1>3, <2>1
  <2>3. /\ cmd'.scene = cmd.scene /\ \A u : Spared(cmd', u) <=> Spared(cmd, u)
    BY <1>1, <2>2, OnwardScopes
  <2>4. ASSUME ~doubt', NEW u \in Units, Chosen(u)'
        PROVE  effect'[u] = cmd.scene /\ Spared(cmd, u)
    <3>1. u \notin UnitsOf(cmd.rev) /\ Chosen(u) /\ effect'[u] = effect[u]
      BY <1>5, <2>1, <2>4
    <3>2. effect[u] = cmd.active.scene /\ Covered(cmd.active, u)
      BY <1>1, <1>6, <2>4, <3>1 DEF Backed
    <3>3. Switchable(cmd) BY <1>1, <2>1, <2>4 DEF Accounted
    <3> QED BY <3>1, <3>2, <3>3 DEF Switchable, Spared
  <2>5. ~doubt' => Others(cmd)' BY <2>3, <2>4 DEF Others
  <2> QED BY <1>9, <2>5 DEF Accounted
<1>10. CASE cmd'.at = "finish"
  <2>1. bad = {} BY <1>1, <1>10
  <2>2. \A u \in UnitsOf(cmd'.rev) : effect'[u] = None BY <1>1, <1>4, <1>5, <2>1 DEF Onward
  <2> QED BY <1>7, <1>10, <2>2 DEF Accounted
<1> QED BY <1>1, <1>8, <1>9, <1>10

\* A revert that raises.
LEMMA RevertRaisesAccounted ==
  ASSUME Typed, Accounted, RevertRaises
  PROVE  Accounted'
<1>1. PICK done \in SUBSET DeclareUnits(cmd.rev) :
        /\ End /\ cmd.at = "revert" /\ EngineClear(done) /\ UNCHANGED <<state, owed, doubt>>
  BY RevertRaisesStep
<1>2. DataOK /\ CmdOK BY DEF Typed
<1>3. state = cmd.active BY <1>1, <1>2, CommandKinds
<1>4. \A u \in Units : Chosen(u)' => Chosen(u) /\ effect'[u] = effect[u]
  BY <1>1, <1>2, Undone
<1>5. ~doubt => Backed(state) BY <1>1, <1>3 DEF Accounted
<1>6. ~doubt' => Backed(state)' BY <1>1, <1>4, <1>5 DEF Backed
<1> QED BY <1>1, <1>6, IdleAccounted

\* A reconciliation.
LEMMA ReconcileAccounted ==
  ASSUME Typed, Accounted, Reconcile
  PROVE  Accounted'
<1> DEFINE new == Reconciled(cmd.active, cmd.ok)
<1>1. /\ End /\ cmd.at = "reconcile" /\ UNCHANGED <<disk, owed, doubt>>
      /\ state' \in {state, new} /\ state = cmd.active /\ StateOK(cmd.active)
  BY ReconcileStep
<1>2. /\ \A t \in DOMAIN new.tools : new.scene = state.scene
      /\ \A u : Covered(state, u) /\ u \notin cmd.ok => Covered(new, u)
  BY <1>1, ReconciledState
<1>3. (~doubt => Backed(state)) /\ \A u \in cmd.ok : effect[u] = None
  BY <1>1 DEF Accounted
<1> HIDE DEF new
<1>4. ~doubt => Backed(new)
  <2>1. ASSUME ~doubt, NEW u \in Units, Chosen(u)
        PROVE  effect[u] = state.scene /\ Covered(new, u)
    <3>1. effect[u] = state.scene /\ Covered(state, u) BY <1>3, <2>1 DEF Backed
    <3>2. u \notin cmd.ok BY <1>3, <2>1 DEF Chosen
    <3> QED BY <1>2, <3>1, <3>2
  <2> QED BY <1>2, <2>1, BackedBy
<1>5. ~doubt' => Backed(state)' BY <1>1, <1>3, <1>4 DEF Backed, Chosen, disk
<1> QED BY <1>1, <1>5, IdleAccounted

\* What an activation puts in effect.
LEMMA SetAccounted ==
  ASSUME Typed, Accounted, UseOK(cmd), cmd.at = "apply",
         NEW done \in SUBSET UnitsOf(Initial(cmd)), NEW gone, EngineApply(cmd, done, gone)
  PROVE  \A u \in Units : Chosen(u)' =>
           /\ u \in done => effect'[u] = cmd.scene /\ Selected(cmd, u)
           /\ ~doubt => effect'[u] = cmd.scene /\ (Selected(cmd, u) \/ Spared(cmd, u))
<1> SUFFICES ASSUME NEW u \in Units, Chosen(u)'
             PROVE  /\ u \in done => effect'[u] = cmd.scene /\ Selected(cmd, u)
                    /\ ~doubt => /\ effect'[u] = cmd.scene
                                 /\ Selected(cmd, u) \/ Spared(cmd, u)
  OBVIOUS
<1>1. DataOK /\ cmd.scene \in Scenes BY DEF Typed, UseOK
<1>2. effect'[u] = IF u \in done THEN Applied(cmd, u) ELSE effect[u] BY <1>1, SetInEffect
<1>3. CASE u \in done
  <2>1. effect'[u] = Applied(cmd, u) BY <1>2, <1>3
  <2>2. Applied(cmd, u) # None /\ (u[1] = "dir" => "skills" \in Declares[Applied(cmd, u)])
    BY <2>1 DEF Chosen
  <2>3. Applied(cmd, u) = cmd.scene /\ Selected(cmd, u) BY <1>3, <2>2, SetIsSelected
  <2> QED BY <2>1, <2>3
<1>4. CASE u \notin done
  <2>1. effect'[u] = effect[u] /\ Chosen(u) BY <1>2, <1>4 DEF Chosen
  <2>2. ~doubt => Others(cmd) BY DEF Accounted
  <2> QED BY <1>4, <2>1, <2>2 DEF Others
<1> QED BY <1>3, <1>4

\* An apply.
LEMMA ApplyAccounted ==
  ASSUME Typed, Accounted, Apply
  PROVE  Accounted'
<1>1. PICK done \in SUBSET UnitsOf(Initial(cmd)), gone \in SUBSET Removes(cmd) :
        /\ UseOK(cmd) /\ Onward(cmd, cmd') /\ cmd.at = "apply"
        /\ EngineApply(cmd, done, gone) /\ UNCHANGED <<state, doubt>>
        /\ cmd'.at = "save" /\ cmd'.ok = done
  BY ApplyStep
<1>2. \A u \in Units : Chosen(u)' =>
        /\ u \in done => effect'[u] = cmd.scene /\ Selected(cmd, u)
        /\ ~doubt => effect'[u] = cmd.scene /\ (Selected(cmd, u) \/ Spared(cmd, u))
  BY <1>1, SetAccounted
<1>3. /\ cmd'.scene = cmd.scene
      /\ \A u : (Selected(cmd', u) <=> Selected(cmd, u)) /\ (Spared(cmd', u) <=> Spared(cmd, u))
  BY <1>1, OnwardScopes
<1>4. ~doubt' => InEffect(cmd)' BY <1>1, <1>2, <1>3 DEF InEffect
<1>5. cmd'.ok = Units =>
        \A u \in Units : Chosen(u)' => effect'[u] = cmd'.scene /\ Selected(cmd', u)
  BY <1>1, <1>2, <1>3
<1> QED BY <1>1, <1>4, <1>5 DEF Accounted

\* An apply that raises.
LEMMA ApplyRaisesAccounted ==
  ASSUME Typed, Accounted, ApplyRaises
  PROVE  Accounted'
<1>1. PICK done \in SUBSET UnitsOf(Initial(cmd)), gone \in SUBSET Removes(cmd) :
        /\ UseOK(cmd) /\ Onward(cmd, cmd') /\ cmd.at = "apply"
        /\ EngineApply(cmd, done, gone) /\ UNCHANGED <<state, doubt>> /\ cmd'.at = "recover"
  BY ApplyRaisesStep
<1>2. \A u \in Units : Chosen(u)' =>
        (~doubt => effect'[u] = cmd.scene /\ (Selected(cmd, u) \/ Spared(cmd, u)))
  BY <1>1, SetAccounted
<1>3. /\ cmd'.scene = cmd.scene
      /\ \A u : (Selected(cmd', u) <=> Selected(cmd, u)) /\ (Spared(cmd', u) <=> Spared(cmd, u))
  BY <1>1, OnwardScopes
<1>4. ~doubt' => InEffect(cmd)' BY <1>1, <1>2, <1>3 DEF InEffect
<1> QED BY <1>1, <1>4 DEF Accounted

\* What is selected or spared is in the state file of the activation.
LEMMA NextBacked ==
  ASSUME UseOK(cmd), \A u \in Units : Chosen(u) =>
                       effect[u] = cmd.scene /\ (Selected(cmd, u) \/ Spared(cmd, u))
  PROVE  Backed(NextState(cmd))
<1> DEFINE new == NextState(cmd)
<1>1. /\ \A t \in DOMAIN new.tools : new.scene = cmd.scene
      /\ \A u : Selected(cmd, u) \/ Spared(cmd, u) => Covered(new, u)
  BY NextFields DEF NextKeeps
<1> HIDE DEF new
<1>2. Backed(new) BY <1>1 DEF Backed, Covered
<1> QED BY <1>2 DEF new

\* The save after an apply that raised.
LEMMA RecoverAccounted ==
  ASSUME Typed, Accounted, Recover
  PROVE  Accounted'
<1>1. /\ UseOK(cmd) /\ End /\ cmd.at = "recover" /\ UNCHANGED disk
      /\ \/ state' = NextState(cmd) /\ UNCHANGED <<faults, owed, doubt>>
         \/ doubt' = TRUE
  BY RecoverStep
<1>2. ~doubt => InEffect(cmd) BY <1>1 DEF Accounted
<1>3. ~doubt => Backed(NextState(cmd)) BY <1>1, <1>2, NextBacked DEF InEffect
<1>4. ~doubt' => Backed(state)' BY <1>1, <1>3 DEF Backed, Chosen, disk
<1> QED BY <1>1, <1>4, IdleAccounted

\* The save of an activation.
LEMMA SaveAccounted ==
  ASSUME Typed, Accounted, Save
  PROVE  Accounted'
<1>1. /\ UseOK(cmd) /\ cmd.at = "save" /\ UNCHANGED <<disk, owed>>
      /\ \/ /\ state' = NextState(cmd) /\ End
            /\ doubt' = (doubt /\ cmd.ok # Units)
         \/ /\ UNCHANGED doubt /\ Onward(cmd, cmd') /\ cmd'.at = "rollback"
  BY SaveStep
<1>2. /\ ~doubt => InEffect(cmd)
      /\ cmd.ok = Units =>
           \A u \in Units : Chosen(u) => effect[u] = cmd.scene /\ Selected(cmd, u)
  BY <1>1 DEF Accounted
<1>3. CASE state' = NextState(cmd) /\ End /\ doubt' = (doubt /\ cmd.ok # Units)
  <2>1. ~doubt' => Backed(NextState(cmd))
    <3>1. CASE ~doubt BY <1>1, <1>2, <3>1, NextBacked DEF InEffect
    <3>2. CASE cmd.ok = Units BY <1>1, <1>2, <3>2, NextBacked
    <3> QED BY <1>3, <3>1, <3>2
  <2>2. ~doubt' => Backed(state)' BY <1>1, <1>3, <2>1 DEF Backed, Chosen, disk
  <2> QED BY <1>3, <2>2, IdleAccounted
<1>4. CASE UNCHANGED doubt /\ Onward(cmd, cmd') /\ cmd'.at = "rollback"
  <2>1. /\ cmd'.scene = cmd.scene
        /\ \A u : /\ Selected(cmd', u) <=> Selected(cmd, u)
                  /\ Spared(cmd', u) <=> Spared(cmd, u)
    BY <1>1, <1>4, OnwardScopes
  <2>2. ~doubt' => InEffect(cmd)' BY <1>1, <1>2, <1>4, <2>1 DEF InEffect, Chosen, disk
  <2> QED BY <1>4, <2>2 DEF Accounted
<1> QED BY <1>1, <1>3, <1>4

\* A rollback.
LEMMA RollbackAccounted ==
  ASSUME Typed, Accounted, Rollback
  PROVE  Accounted'
<1>1. PICK bad \in ErrorRows(Initial(cmd), TRUE) :
        /\ UseOK(cmd) /\ cmd.at = "rollback"
        /\ EngineClear(UnitsOf(Initial(cmd)) \ bad)
        /\ \/ /\ bad = {} /\ Onward(cmd, cmd') /\ cmd'.at = "restore" /\ UNCHANGED <<owed, doubt>>
           \/ End /\ doubt' = TRUE
  BY RollbackStep
<1>2. CASE End /\ doubt' = TRUE BY <1>2, IdleAccounted
<1>3. CASE bad = {} /\ Onward(cmd, cmd') /\ cmd'.at = "restore" /\ UNCHANGED <<owed, doubt>>
  <2>1. DataOK BY DEF Typed
  <2>2. \A u \in Units : Chosen(u)' => /\ u \notin UnitsOf(Initial(cmd)) /\ Chosen(u)
                                       /\ effect'[u] = effect[u]
    BY <1>1, <1>3, <2>1, Undone
  <2>3. Initial(cmd) \subseteq Tools BY <1>1, CommandScope
  <2>4. ~doubt => InEffect(cmd) BY <1>1 DEF Accounted
  <2>5. ASSUME ~doubt, NEW u \in Units, Chosen(u)'
        PROVE  effect'[u] = cmd.scene /\ Spared(cmd, u)
    <3>1. effect[u] = cmd.scene /\ (Selected(cmd, u) \/ Spared(cmd, u))
      BY <2>2, <2>4, <2>5 DEF InEffect
    <3>2. ~Selected(cmd, u) BY <2>2, <2>3, <2>5, SelectedUnits
    <3> QED BY <2>2, <2>5, <3>1, <3>2
  <2>6. cmd'.scene = cmd.scene /\ \A u : Spared(cmd', u) <=> Spared(cmd, u)
    BY <1>1, <1>3, OnwardScopes
  <2>7. ~doubt' => Others(cmd)' BY <1>3, <2>5, <2>6 DEF Others
  <2> QED BY <1>3, <2>7 DEF Accounted
<1> QED BY <1>1, <1>2, <1>3

\* The state after a rollback.
LEMMA RestoreAccounted ==
  ASSUME Typed, Accounted, Restore
  PROVE  Accounted'
<1> DEFINE new == RestoredState(cmd)
<1>1. /\ UseOK(cmd) /\ cmd.at = "restore" /\ UNCHANGED disk /\ End
      /\ doubt' = TRUE \/ (state' = new /\ UNCHANGED doubt)
  BY RestoreStep
<1>2. /\ \A t \in DOMAIN new.tools : new.scene = cmd.active.scene
      /\ \A u \in Units : Covered(cmd.active, u) /\ u \notin UnitsOf(Initial(cmd))
                            => Covered(new, u)
  BY <1>1, RestoredFields
<1> HIDE DEF new
<1>3. ~doubt => Others(cmd) BY <1>1 DEF Accounted
<1>4. ~doubt => Backed(new)
  <2>1. ASSUME ~doubt, NEW u \in Units, Chosen(u) PROVE effect[u] = new.scene /\ Covered(new, u)
    <3>1. /\ effect[u] = cmd.scene /\ u \notin UnitsOf(Initial(cmd))
          /\ cmd.active.scene = cmd.scene /\ Covered(cmd.active, u)
      BY <1>3, <2>1 DEF Others, Spared
    <3>2. Covered(new, u) BY <1>2, <3>1
    <3> QED BY <1>2, <3>1, <3>2 DEF Covered
  <2> QED BY <2>1 DEF Backed
<1>5. ~doubt' => Backed(state)' BY <1>1, <1>4 DEF Backed, Chosen, disk
<1> QED BY <1>1, <1>5, IdleAccounted

\* The end of a clear.
LEMMA FinishAccounted ==
  ASSUME Typed, Accounted, Finish
  PROVE  Accounted'
<1> DEFINE new == ClearedState(cmd)
<1>1. /\ ClearOK(cmd) /\ cmd.at = "finish" /\ End /\ UNCHANGED <<disk, owed, doubt>>
      /\ state' \in {state, new} /\ cmd.active = state
  BY FinishStep
<1>2. /\ \A t \in DOMAIN new.tools : new.scene = state.scene
      /\ \A u \in Units : Covered(state, u) /\ u \notin UnitsOf(cmd.rev) => Covered(new, u)
  BY <1>1, ClearedFields
<1> HIDE DEF new
<1>3. ~doubt => Backed(state) /\ \A u \in UnitsOf(cmd.rev) : effect[u] = None
  BY <1>1 DEF Accounted
<1>4. ~doubt => Backed(new)
  <2>1. ASSUME ~doubt, NEW u \in Units, Chosen(u)
        PROVE  effect[u] = state.scene /\ Covered(new, u)
    <3>1. effect[u] = state.scene /\ Covered(state, u) BY <1>3, <2>1 DEF Backed
    <3>2. u \notin UnitsOf(cmd.rev) BY <1>3, <2>1 DEF Chosen
    <3> QED BY <1>2, <3>1, <3>2
  <2> QED BY <1>2, <2>1, BackedBy
<1>5. ~doubt' => Backed(state)' BY <1>1, <1>3, <1>4 DEF Backed, Chosen, disk
<1> QED BY <1>1, <1>5, IdleAccounted

\* What is in effect is always accounted for: by the state file between commands, by what the
\* running command loaded and was asked for within one, as long as nothing is in doubt.
THEOREM AccountedInductive == Spec => []Accounted
<1>1. Init => Accounted
  <2> SUFFICES ASSUME Init PROVE Accounted OBVIOUS
  <2>1. cmd.at = "idle" BY DEF Init, Idle
  <2>2. \A u \in Units : ~Chosen(u) BY DEF Init, Chosen
  <2>3. Backed(state) BY <2>2 DEF Backed
  <2> QED BY <2>1, <2>3 DEF Accounted
<1>2. Typed /\ Accounted /\ [Next]_vars => Accounted'
  <2> SUFFICES ASSUME Typed, Accounted, [Next]_vars PROVE Accounted' OBVIOUS
  <2>1. ASSUME NEW s \in Scenes, NEW r \in Requests, NEW force \in BOOLEAN, Use(s, r, force)
        PROVE  Accounted'
    BY <2>1, UseAccounted
  <2>2. ASSUME NEW r \in Requests, NEW force \in BOOLEAN, Clear(r, force) PROVE Accounted'
    BY <2>2, ClearAccounted
  <2>3. CASE Revert BY <2>3, RevertAccounted
  <2>4. CASE RevertRaises BY <2>4, RevertRaisesAccounted
  <2>5. CASE Reconcile BY <2>5, ReconcileAccounted
  <2>6. CASE Apply BY <2>6, ApplyAccounted
  <2>7. CASE ApplyRaises BY <2>7, ApplyRaisesAccounted
  <2>8. CASE Recover BY <2>8, RecoverAccounted
  <2>9. CASE Save BY <2>9, SaveAccounted
  <2>10. CASE Rollback BY <2>10, RollbackAccounted
  <2>11. CASE RollbackRaises BY <2>11, RollbackRaisesStep, IdleAccounted
  <2>12. CASE Restore BY <2>12, RestoreAccounted
  <2>13. CASE Finish BY <2>13, FinishAccounted
  <2>14. CASE Crash BY <2>14, CrashStep, IdleAccounted
  <2>15. ASSUME NEW f \in Editable, UserEdits(f) PROVE Accounted'
    <3>1. UNCHANGED <<effect, state, cmd, doubt>> BY <2>15, EditStep
    <3> QED BY <3>1
      DEF Accounted, Backed, Chosen, Switchable, Others, InEffect, Spared, Selected
  <2>16. CASE Resync
    <3>1. UNCHANGED <<effect, state, cmd, doubt>> BY <2>16, ResyncStep
    <3> QED BY <3>1
      DEF Accounted, Backed, Chosen, Switchable, Others, InEffect, Spared, Selected
  <2>17. CASE UNCHANGED vars
    BY <2>17
      DEF vars, Accounted, Backed, Chosen, Switchable, Others, InEffect, Spared, Selected
  <2> QED
    BY <2>1, <2>2, <2>3, <2>4, <2>5, <2>6, <2>7, <2>8, <2>9, <2>10, <2>11, <2>12, <2>13, <2>14,
       <2>15, <2>16, <2>17
       DEF Next, Step
<1> QED BY <1>1, <1>2, TypedInductive, PTL DEF Spec

\* Between commands, what is in effect is of the state file.
LEMMA SettledBacked ==
  ASSUME Typed, Accounted, Settled, NEW u \in Units, Chosen(u)
  PROVE  effect[u] = state.scene /\ Reached(u)
<1>1. cmd.at = "idle" /\ ~doubt BY DEF Settled, Idle
<1>2. effect[u] = state.scene /\ Covered(state, u) BY <1>1 DEF Accounted, Backed
<1>3. PICK t \in Recorded, k \in Reversible :
        k \in state.tools[t].mech /\ Mech[t, k] # "unsupported" /\ u = UnitOf(t, k)
  BY <1>2 DEF Covered, Recorded
<1>4. Recorded \subseteq Tools BY StateFields DEF Typed, DataOK, Recorded
<1>5. u \in UnitsOf({t}) BY <1>3, <1>4, UnitsOfTool
<1> QED BY <1>2, <1>5 DEF Reached

\* However commands over any tools, scenes and directories follow each other and fail, whatever
\* a scene put in effect is of a tool in the state file, so that `scene clear' reaches it.
THEOREM EveryEffectRecorded == Spec => []EffectsRecorded
<1>1. Typed /\ Accounted => EffectsRecorded BY SettledBacked DEF EffectsRecorded
<1> QED BY <1>1, TypedInductive, AccountedInductive, PTL

\* What is in effect is of one scene, the one of the state file (the UNSAFE_SWITCH guard of
\* activate_scene and the revert before an apply).
THEOREM NeverTwoScenes == Spec => []OneScene
<1>1. Typed /\ Accounted => OneScene BY SettledBacked DEF OneScene
<1> QED BY <1>1, TypedInductive, AccountedInductive, PTL
-----------------------------------------------------------------------------
(* What was removed stays on record.                                       *)

\* Between commands, what the user was not warned of is on record.
LEMMA IdleOwing ==
  ASSUME End, owed' \subseteq OnRec(state')
  PROVE  Owing'
<1>1. cmd'.at = "idle" /\ cmd'.op = "none" BY Ends
<1> QED BY <1>1 DEF Owing

\* Before it applied anything, a command owes what its state file has on record.
LEMMA OwedOnRecord ==
  ASSUME Typed, Owing, cmd.at \in {"revert", "reconcile", "apply", "finish"}
  PROVE  owed \subseteq OnRec(cmd.active) /\ state = cmd.active
<1>1. CmdOK BY DEF Typed
<1>2. state = cmd.active /\ cmd # Idle BY <1>1, CommandKinds
<1>3. CASE UseOK(cmd)
  <2>1. cmd.op = "use" /\ cmd.at # "finish" BY <1>3 DEF UseOK, UseStages
  <2>2. cmd.gone = {} BY <1>3, <2>1 DEF UseOK
  <2> QED BY <1>2, <2>1, <2>2 DEF Owing
<1>4. CASE ClearOK(cmd)
  <2>1. cmd.op = "clear" BY <1>4 DEF ClearOK
  <2> QED BY <1>2, <2>1 DEF Owing
<1> QED BY <1>1, <1>2, <1>3, <1>4, CommandKinds

\* What a message tells leaves only what was on record before.
LEMMA ToldOwing ==
  ASSUME UseOK(cmd), Owing, Tell(cmd)
  PROVE  owed' \subseteq OnRec(cmd.active) /\ OnRec(cmd.active) \subseteq OnRec(state)
<1>1. cmd.op = "use" BY DEF UseOK
<1>2. owed \subseteq OnRec(cmd.active) \cup cmd.gone /\ OnRec(cmd.active) \subseteq OnRec(state)
  BY <1>1 DEF Owing
<1>3. \A p \in cmd.gone : p[2] \in Narrowed(cmd) BY DEF Narrowed
<1>4. \A p \in owed' : p \in owed /\ p[2] \notin Narrowed(cmd) BY DEF Tell
<1> QED BY <1>2, <1>3, <1>4

\* Steps of a command.
LEMMA OwingStep ==
  ASSUME Typed, Owing, Step
  PROVE  Owing'
<1>1. CASE Revert
  <2>1. /\ Onward(cmd, cmd') /\ cmd.at = "revert" /\ UNCHANGED <<state, owed, doubt>>
        /\ cmd'.at \in {"reconcile", "apply", "finish"}
        /\ cmd.op = "use" => cmd'.gone = {}
    BY <1>1, RevertStep
  <2>2. owed \subseteq OnRec(cmd.active) /\ state = cmd.active BY <2>1, OwedOnRecord
  <2>3. cmd'.op = cmd.op /\ cmd'.active = cmd.active /\ cmd'.rev = cmd.rev
    BY <2>1 DEF Onward
  <2>4. cmd.op = "clear" => \A p \in owed : p[1] \notin cmd.rev BY DEF Owing
  <2> QED BY <2>1, <2>2, <2>3, <2>4 DEF Owing
<1>2. CASE RevertRaises
  <2>1. End /\ cmd.at = "revert" /\ UNCHANGED <<state, owed, doubt>>
    BY <1>2, RevertRaisesStep
  <2> QED BY <2>1, OwedOnRecord, IdleOwing
<1>3. CASE Reconcile
  <2>1. /\ End /\ cmd.at = "reconcile" /\ UNCHANGED owed
        /\ state' \in {state, Reconciled(cmd.active, cmd.ok)} /\ StateOK(cmd.active)
    BY <1>3, ReconcileStep
  <2>2. owed \subseteq OnRec(cmd.active) /\ state = cmd.active BY <2>1, OwedOnRecord
  <2>3. OnRec(cmd.active) \subseteq OnRec(Reconciled(cmd.active, cmd.ok))
    BY <2>1, ReconciledState
  <2> QED BY <2>1, <2>2, <2>3, IdleOwing
<1>4. CASE Apply \/ ApplyRaises
  <2>1. /\ UseOK(cmd) /\ UseOK(cmd') /\ Onward(cmd, cmd') /\ cmd.at = "apply"
        /\ owed' = owed \cup cmd'.gone /\ UNCHANGED state
        /\ cmd'.at \in {"save", "recover"}
    BY <1>4, ApplyStep, ApplyRaisesStep
  <2>2. owed \subseteq OnRec(cmd.active) /\ state = cmd.active BY <2>1, OwedOnRecord
  <2>3. cmd'.op = "use" /\ cmd'.active = cmd.active BY <2>1 DEF Onward, UseOK
  <2> QED BY <2>1, <2>2, <2>3 DEF Owing
<1>5. CASE Recover
  <2>1. /\ UseOK(cmd) /\ End /\ cmd.at = "recover"
        /\ state' \in {state, NextState(cmd)} /\ state = cmd.active
        /\ \/ state' = NextState(cmd) /\ UNCHANGED <<faults, owed, doubt>>
           \/ owed' = owed \ cmd.gone
    BY <1>5, RecoverStep
  <2>2. cmd.op = "use" BY <2>1 DEF UseOK
  <2>3. owed \subseteq OnRec(cmd.active) \cup cmd.gone BY <2>2 DEF Owing
  <2>4. OnRec(cmd.active) \cup cmd.gone \subseteq OnRec(NextState(cmd))
    BY <2>1, NextFields DEF NextKeeps
  <2>5. owed' \subseteq OnRec(state') BY <2>1, <2>3, <2>4
  <2> QED BY <2>1, <2>5, IdleOwing
<1>6. CASE Save
  <2>1. /\ UseOK(cmd) /\ UNCHANGED owed
        /\ state' \in {state, NextState(cmd)}
        /\ \/ state' = NextState(cmd) /\ End
           \/ Onward(cmd, cmd') /\ cmd'.at = "rollback" /\ cmd'.gone = cmd.gone
    BY <1>6, SaveStep
  <2>2. cmd.op = "use" BY <2>1 DEF UseOK
  <2>3. /\ owed \subseteq OnRec(cmd.active) \cup cmd.gone
        /\ OnRec(cmd.active) \subseteq OnRec(state)
    BY <2>2 DEF Owing
  <2>4. OnRec(cmd.active) \cup cmd.gone \subseteq OnRec(NextState(cmd))
    BY <2>1, NextFields DEF NextKeeps
  <2>5. CASE state' = NextState(cmd) /\ End BY <2>1, <2>3, <2>4, <2>5, IdleOwing
  <2>6. CASE Onward(cmd, cmd') /\ cmd'.at = "rollback" /\ cmd'.gone = cmd.gone
    <3>1. cmd'.op = "use" /\ cmd'.active = cmd.active BY <2>2, <2>6 DEF Onward
    <3>2. OnRec(cmd.active) \subseteq OnRec(state') BY <2>1, <2>3, <2>4
    <3> QED BY <2>1, <2>3, <2>6, <3>1, <3>2 DEF Owing
  <2> QED BY <2>1, <2>5, <2>6
<1>7. CASE Rollback
  <2>1. /\ UseOK(cmd) /\ UNCHANGED state
        /\ \/ /\ Onward(cmd, cmd') /\ cmd'.at = "restore" /\ cmd'.gone = cmd.gone
              /\ UNCHANGED <<owed, doubt>>
           \/ End /\ Tell(cmd)
    BY <1>7, RollbackStep
  <2>2. CASE End /\ Tell(cmd)
    <3>1. owed' \subseteq OnRec(state') BY <2>1, <2>2, ToldOwing
    <3> QED BY <2>2, <3>1, IdleOwing
  <2>3. CASE /\ Onward(cmd, cmd') /\ cmd'.at = "restore" /\ cmd'.gone = cmd.gone
             /\ UNCHANGED <<owed, doubt>>
    <3>1. cmd'.op = cmd.op /\ cmd'.active = cmd.active /\ cmd.op = "use"
      BY <2>1, <2>3 DEF Onward, UseOK
    <3> QED BY <2>1, <2>3, <3>1 DEF Owing
  <2> QED BY <2>1, <2>2, <2>3
<1>8. CASE RollbackRaises
  <2>1. UseOK(cmd) /\ UNCHANGED state /\ End /\ Tell(cmd) BY <1>8, RollbackRaisesStep
  <2>2. owed' \subseteq OnRec(state') BY <2>1, ToldOwing
  <2> QED BY <2>1, <2>2, IdleOwing
<1>9. CASE Restore
  <2>1. /\ UseOK(cmd) /\ End /\ Tell(cmd) /\ state' \in {state, RestoredState(cmd)}
    BY <1>9, RestoreStep
  <2>2. OnRec(cmd.active) \subseteq OnRec(RestoredState(cmd)) BY <2>1, RestoredFields
  <2>3. owed' \subseteq OnRec(state') BY <2>1, <2>2, ToldOwing
  <2> QED BY <2>1, <2>3, IdleOwing
<1>10. CASE Finish
  <2>1. /\ ClearOK(cmd) /\ End /\ UNCHANGED owed
        /\ state' \in {state, ClearedState(cmd)} /\ cmd.active = state
    BY <1>10, FinishStep
  <2>2. cmd.op = "clear" BY <2>1 DEF ClearOK
  <2>3. \A p \in owed : p \in OnRec(state) /\ p[1] \notin cmd.rev BY <2>1, <2>2 DEF Owing
  <2>4. \A p \in OnRec(state) : p[1] \notin cmd.rev => p \in OnRec(ClearedState(cmd))
    BY <2>1, ClearedFields
  <2>5. owed' \subseteq OnRec(state') BY <2>1, <2>3, <2>4
  <2> QED BY <2>1, <2>5, IdleOwing
<1> QED
  BY <1>1, <1>2, <1>3, <1>4, <1>5, <1>6, <1>7, <1>8, <1>9, <1>10 DEF Step

\* What was removed is on record between commands, and within one it is on the record that it
\* loaded or among what it removed itself, whatever is in doubt.
THEOREM OwingInductive == Spec => []Owing
<1>1. Init => Owing BY DEF Init, Owing, Idle
<1>2. Typed /\ Owing /\ [Next]_vars => Owing'
  <2> SUFFICES ASSUME Typed, Owing, [Next]_vars PROVE Owing' OBVIOUS
  <2>1. ASSUME NEW s \in Scenes, NEW r \in Requests, NEW force \in BOOLEAN, Use(s, r, force)
        PROVE  Owing'
    <3>1. /\ cmd = Idle /\ UNCHANGED <<disk, state, owed, doubt, faults>>
          /\ cmd'.active = state /\ cmd'.op = "use" /\ cmd'.gone = {}
          /\ cmd'.at \in {"apply", "revert"}
      BY <2>1, UseStep
    <3>2. owed \subseteq OnRec(state)
      <4>1. cmd.at = "idle" BY <3>1 DEF Idle
      <4> QED BY <4>1 DEF Owing
    <3> QED BY <3>1, <3>2 DEF Owing
  <2>2. ASSUME NEW r \in Requests, NEW force \in BOOLEAN, Clear(r, force) PROVE Owing'
    <3>1. /\ cmd = Idle /\ UNCHANGED <<disk, state, doubt, faults>>
          /\ cmd'.active = state /\ cmd'.op = "clear" /\ cmd'.at = "revert"
          /\ owed' = {p \in owed : ~(p[1] \in cmd'.rev /\ p[2] \in state.tools[p[1]].revoked)}
      BY <2>2, ClearStep
    <3>2. owed \subseteq OnRec(state)
      <4>1. cmd.at = "idle" BY <3>1 DEF Idle
      <4> QED BY <4>1 DEF Owing
    <3>3. \A p \in owed' : p \in OnRec(state) /\ p[1] \notin cmd'.rev
      BY <3>1, <3>2 DEF OnRec
    <3> QED BY <3>1, <3>3 DEF Owing
  <2>3. CASE Step BY <2>3, OwingStep
  <2>4. CASE Crash
    <3>1. End /\ owed' = owed \cap OnRecord /\ UNCHANGED state BY <2>4, CrashStep
    <3>2. OnRecord = OnRec(state) BY DEF OnRecord, OnRec, Recorded
    <3> QED BY <3>1, <3>2, IdleOwing
  <2>5. ASSUME NEW f \in Editable, UserEdits(f) PROVE Owing'
    <3>1. UNCHANGED <<state, cmd, owed>> BY <2>5, EditStep
    <3> QED BY <3>1 DEF Owing
  <2>6. CASE Resync
    <3>1. cmd = Idle /\ owed' = {} /\ UNCHANGED <<state, cmd>> BY <2>6, ResyncStep
    <3> QED BY <3>1 DEF Owing, Idle
  <2>7. CASE UNCHANGED vars BY <2>7 DEF vars, Owing
  <2> QED BY <2>1, <2>2, <2>3, <2>4, <2>5, <2>6, <2>7 DEF Next
<1> QED BY <1>1, <1>2, TypedInductive, PTL DEF Spec

\* A removed hooks or permissions entry stays in the state file until the user was told to run
\* `crossby sync': merges, inherited revocations, reconciliations, rollbacks and scoped clears
\* keep it (`_inherit_revocations' and the recovery records).
THEOREM RemovalsStayRecorded == Spec => []RemovalsRecorded
<1>1. Owing => RemovalsRecorded
  <2> SUFFICES ASSUME Owing, Settled PROVE owed \subseteq OnRecord BY DEF RemovalsRecorded
  <2>1. cmd.at = "idle" BY DEF Settled, Idle
  <2>2. OnRecord = OnRec(state) BY DEF OnRecord, OnRec, Recorded
  <2> QED BY <2>1, <2>2 DEF Owing
<1> QED BY <1>1, OwingInductive, PTL
-----------------------------------------------------------------------------
(* No blind revert.                                                        *)

\* A key is a unit of its tool.
LEMMA KeyOf ==
  ASSUME NEW u \in Keys
  PROVE  /\ u[1] \in Tools /\ u[1] # "dir" /\ u \in Units /\ FileOf[u] \in Files
         /\ FileOfUnit(u) = FileOf[u]
         /\ \A S : S \subseteq Tools => /\ u[1] \in S => u \in DeclareUnits(S)
                                        /\ u \in UnitsOf(S) => u[1] \in S
<1>1. /\ u[1] \in Tools /\ u[2] \in Reversible /\ u = <<u[1], u[2]>> /\ Mech[u] = "declare"
      /\ u[1] # "dir" /\ FileOfUnit(u) = FileOf[u] /\ u \in Units
  BY KeyShape DEF Keys
<1>2. FileOf[u] \in Files BY <1>1 DEF Files
<1>3. ASSUME NEW S, S \subseteq Tools, u[1] \in S PROVE u \in DeclareUnits(S)
  BY <1>1, <1>3 DEF DeclareUnits
<1>4. ASSUME NEW S, S \subseteq Tools, u \in UnitsOf(S) PROVE u[1] \in S
  <2>1. u \notin PathUnits(S) BY <1>1, <1>4, PathShape
  <2>2. u \in DeclareUnits(S) BY <1>4, <2>1 DEF UnitsOf
  <2> QED BY <1>4, <2>2, KeyShape
<1> QED BY <1>1, <1>2, <1>3, <1>4

\* A hash stays no later than crossby's last change of the file.
LEMMA HashedLater ==
  ASSUME DataOK, \A f \in Files : seen[f] <= uver[f],
         seen' \in [Files -> 0..1], \A f \in Files : seen'[f] \in {seen[f], uver[f]},
         NEW st, NEW new, NEW u \in Keys, Hashed(st, u),
         HasHash(new, u), HashOf(new, u) = HashOf(st, u)
  PROVE  HasHash(new, u) /\ HashOf(new, u).user \in 0..seen'[FileOf[u]]
<1>1. FileOf[u] \in Files BY KeyOf
<1>2. HashOf(st, u).user \in 0..seen[FileOf[u]] BY DEF Hashed
<1>3. seen[FileOf[u]] \in 0..1 /\ seen'[FileOf[u]] \in 0..1 /\ uver[FileOf[u]] \in 0..1
  BY <1>1 DEF DataOK
<1>4. seen[FileOf[u]] <= seen'[FileOf[u]] BY <1>1, <1>3
<1>5. HashOf(new, u).user \in 0..seen[FileOf[u]] BY <1>2
<1> QED BY <1>3, <1>4, <1>5

\* What crossby has seen of a file is no later than the file.
LEMMA SeenLater ==
  ASSUME DataOK, \A f \in Files : seen[f] <= uver[f], uver' = uver,
         \A f \in Files : seen'[f] \in {seen[f], uver[f]}
  PROVE  \A f \in Files : seen'[f] <= uver'[f]
<1>1. \A f \in Files : uver[f] \in 0..1 BY DEF DataOK
<1> QED BY <1>1

\* A tool whose files have not drifted has seen what is in them.
LEMMA NoDrift ==
  ASSUME DataOK, \A f \in Files : seen[f] <= uver[f],
         NEW u \in Keys, Hashed(state, u), ~DriftedIn(state.tools[u[1]], Files)
  PROVE  seen[FileOf[u]] = uver[FileOf[u]]
<1> DEFINE f == FileOf[u]
<1>1. f \in Files BY KeyOf
<1>2. f \in DOMAIN state.tools[u[1]].hash /\ HashOf(state, u).user \in 0..seen[f]
  BY DEF Hashed, HasHash
<1>3. HashOf(state, u) = ContentHash(f) BY <1>1, <1>2 DEF DriftedIn, HashOf
<1>4. ContentHash(f).user = uver[f] BY DEF ContentHash
<1>5. uver[f] \in 0..1 /\ seen[f] \in 0..1 /\ seen[f] <= uver[f] BY <1>1 DEF DataOK
<1> HIDE DEF f
<1>6. uver[f] \in 0..seen[f] BY <1>2, <1>3, <1>4
<1>7. uver[f] = seen[f] BY <1>5, <1>6
<1> QED BY <1>7 DEF f

\* Between commands, as long as nothing failed.
LEMMA IdleHashing ==
  ASSUME End, \A f \in Files : seen'[f] <= uver'[f],
         faults' = 0 => /\ ~doubt'
                        /\ \A u \in Keys : effect'[u] # None =>
                             HasHash(state', u) /\ HashOf(state', u).user \in 0..seen'[FileOf[u]]
  PROVE  Hashing'
<1>1. cmd'.at = "idle" BY Ends
<1> QED BY <1>1 DEF Hashing, Hashed

\* An activation that starts.
LEMMA UseHashing ==
  ASSUME Typed, Hashing, NEW s \in Scenes, NEW r \in Requests, NEW force \in BOOLEAN,
         Use(s, r, force)
  PROVE  Hashing'
<1> DEFINE c == [op |-> "use", scene |-> s, req |-> r]
<1>1. /\ UseOK(cmd') /\ cmd = Idle /\ UNCHANGED <<disk, state, owed, doubt, faults>>
      /\ cmd'.req = r /\ cmd'.active = state /\ cmd'.op = "use" /\ cmd'.force = force
      /\ cmd'.out = (IF state = NoState THEN {} ELSE OutgoingScope(c))
      /\ cmd'.at = (IF cmd'.out = {} THEN "apply" ELSE "revert")
      /\ force \/ ~OutgoingDrift(c)
  BY UseStep
<1>2. c.req = r OBVIOUS
<1> HIDE DEF c
<1>3. DataOK /\ StateOK(state) BY DEF Typed, DataOK
<1>4. /\ \A f \in Files : seen[f] <= uver[f]
      /\ faults = 0 => ~doubt /\ \A u \in Keys : effect[u] # None => Hashed(state, u)
  <2>1. cmd.at = "idle" BY <1>1 DEF Idle
  <2> QED BY <2>1 DEF Hashing
<1>5. UNCHANGED <<effect, uver, seen, state, doubt, faults>> BY <1>1 DEF disk
<1>6. faults' = 0 => ~doubt' /\ \A u \in Keys : effect'[u] # None => Hashed(state, u)'
  BY <1>4, <1>5 DEF Hashed
<1>7. /\ Initial(cmd') = Initial(c) /\ Initial(c) \subseteq Tools
      /\ cmd'.rev = IF cmd'.out = {} THEN {} ELSE IF r = "all" THEN cmd'.out ELSE {r}
      /\ (r # "all" => Initial(c) = {r}) /\ (r = "all" => Initial(c) = Tools)
  BY <1>1, <1>2, Asked DEF UseOK, Initial
<1>8. Recorded \subseteq Tools BY <1>3, StateFields DEF Recorded
<1>9. \A t : t \in Recorded /\ t \in Initial(c) => t \in OutgoingScope(c)
  BY <1>2, <1>7 DEF OutgoingScope
<1>10. \A u : HasHash(state, u) => u[1] \in Recorded /\ state # NoState
  <2>1. DOMAIN NoState.tools = {} BY DEF NoState
  <2> QED BY <2>1 DEF HasHash, Recorded
<1>11. CASE cmd'.at = "revert"
  <2>1. cmd'.out = OutgoingScope(c) /\ cmd'.out # {} BY <1>1, <1>11
  <2>2. ASSUME faults = 0, ~force, NEW u \in DeclareUnits(cmd'.rev), effect[u] # None
        PROVE  seen[FileOf[u]] = uver[FileOf[u]]
    <3>1. OutgoingScope(c) \subseteq Recorded BY <1>2, <1>7 DEF OutgoingScope
    <3>2. cmd'.rev \subseteq Tools /\ cmd'.rev \subseteq Initial(c)
      BY <1>1, <1>7, CommandScope
    <3>3. u \in Keys /\ u[1] \in cmd'.rev BY <3>2, KeyShape
    <3>4. Hashed(state, u) BY <1>4, <2>2, <3>3
    <3>5. u[1] \in Recorded BY <1>10, <3>4 DEF Hashed
    <3>6. u[1] \in OutgoingScope(c) /\ u[1] \in Initial(c) BY <1>9, <3>2, <3>3, <3>5
    <3>7. ~DriftedIn(state.tools[u[1]], Files)
      BY <1>1, <2>2, <3>6 DEF OutgoingDrift
    <3> QED BY <1>3, <1>4, <3>3, <3>4, <3>7, NoDrift
  <2>3. faults' = 0 /\ ~cmd'.force =>
          \A u \in DeclareUnits(cmd'.rev) :
            effect'[u] # None => seen'[FileOf[u]] = uver'[FileOf[u]]
    BY <1>1, <1>5, <2>2
  <2> QED BY <1>4, <1>5, <1>6, <1>11, <2>3 DEF Hashing
<1>12. CASE cmd'.at = "apply"
  <2>1. ASSUME faults = 0, NEW u \in Keys, effect[u] # None
        PROVE  u[1] \notin Initial(c) /\ Hashed(state, u)
    <3>1. Hashed(state, u) BY <1>4, <2>1
    <3>2. u[1] \in Recorded /\ state # NoState BY <1>10, <3>1 DEF Hashed
    <3>3. OutgoingScope(c) = {} BY <1>1, <1>12, <3>2
    <3> QED BY <1>9, <3>1, <3>2, <3>3
  <2>2. faults' = 0 => \A u \in Keys : effect'[u] # None =>
          u[1] \notin Initial(cmd') /\ Hashed(cmd.active, u)'
    BY <1>1, <1>5, <1>7, <2>1 DEF Hashed
  <2> QED BY <1>4, <1>5, <1>6, <1>12, <2>2 DEF Hashing
<1> QED BY <1>1, <1>11, <1>12

\* A clear that starts.
LEMMA ClearHashing ==
  ASSUME Typed, Hashing, NEW r \in Requests, NEW force \in BOOLEAN, Clear(r, force)
  PROVE  Hashing'
<1>1. /\ ClearOK(cmd') /\ cmd = Idle /\ UNCHANGED <<disk, state, doubt, faults>>
      /\ cmd'.active = state /\ cmd'.at = "revert" /\ cmd'.force = force
      /\ force \/ ~\E t \in cmd'.rev : DriftedIn(state.tools[t], Files)
  BY ClearStep
<1>2. DataOK BY DEF Typed
<1>3. /\ \A f \in Files : seen[f] <= uver[f]
      /\ faults = 0 => ~doubt /\ \A u \in Keys : effect[u] # None => Hashed(state, u)
  <2>1. cmd.at = "idle" BY <1>1 DEF Idle
  <2> QED BY <2>1 DEF Hashing
<1>4. UNCHANGED <<effect, uver, seen, state, doubt, faults>> BY <1>1 DEF disk
<1>5. faults' = 0 => ~doubt' /\ \A u \in Keys : effect'[u] # None => Hashed(state, u)'
  BY <1>3, <1>4 DEF Hashed
<1>6. ASSUME faults = 0, ~force, NEW u \in DeclareUnits(cmd'.rev), effect[u] # None
      PROVE  seen[FileOf[u]] = uver[FileOf[u]]
  <2>1. cmd'.rev \subseteq Tools BY <1>1, CommandScope
  <2>2. u \in Keys /\ u[1] \in cmd'.rev BY <2>1, KeyShape
  <2>3. Hashed(state, u) BY <1>3, <1>6, <2>2
  <2>4. ~DriftedIn(state.tools[u[1]], Files) BY <1>1, <1>6, <2>2
  <2> QED BY <1>2, <1>3, <2>2, <2>3, <2>4, NoDrift
<1>7. faults' = 0 /\ ~cmd'.force =>
        \A u \in DeclareUnits(cmd'.rev) :
          effect'[u] # None => seen'[FileOf[u]] = uver'[FileOf[u]]
  BY <1>1, <1>4, <1>6
<1> QED BY <1>1, <1>3, <1>4, <1>5, <1>7 DEF Hashing

\* A revert.
LEMMA RevertHashing ==
  ASSUME Typed, Hashing, Revert
  PROVE  Hashing'
<1>1. PICK bad \in ErrorRows(cmd.rev, cmd.force) :
        /\ Typed' /\ Onward(cmd, cmd') /\ cmd.at = "revert" /\ UNCHANGED <<state, owed, doubt>>
        /\ faults' = faults + Cardinality(bad \ Refused(cmd.rev, cmd.force))
        /\ bad \subseteq Rows(cmd.rev)
        /\ Cardinality(bad \ Refused(cmd.rev, cmd.force)) \in Nat
        /\ EngineClear(UnitsOf(cmd.rev) \ bad)
        /\ cmd'.ok = Rows(cmd.rev) \ bad
        /\ cmd'.at = (IF bad # {} THEN "reconcile"
                      ELSE IF cmd.op = "use" THEN "apply" ELSE "finish")
  BY RevertStep
<1>2. DataOK /\ CmdOK BY DEF Typed
<1>3. /\ UseOK(cmd) \/ ClearOK(cmd)
      /\ cmd.op = "use" => UseOK(cmd)
      /\ state = cmd.active
  BY <1>1, <1>2, CommandKinds
<1>4. cmd.rev \subseteq Tools BY <1>3, CommandScope
<1>5. Rows(cmd.rev) \subseteq UnitsOf(cmd.rev) /\ UnitsOf(cmd.rev) \subseteq Units
  BY <1>4, RowsAreUnits
<1>6. /\ uver' = uver /\ seen' \in [Files -> 0..1]
      /\ \A f \in Files : seen'[f] \in {seen[f], uver[f]}
      /\ \A u \in Units : effect'[u] = IF u \in UnitsOf(cmd.rev) \ bad THEN None ELSE effect[u]
  BY <1>1, <1>2, Undone
<1>7. \A f \in Files : seen[f] <= uver[f] BY DEF Hashing
<1>8. \A f \in Files : seen'[f] <= uver'[f] BY <1>2, <1>6, <1>7, SeenLater
<1>9. ASSUME faults' = 0
      PROVE  /\ faults = 0 /\ \A u \in DeclareUnits(cmd.rev) : effect'[u] = None
  <2>1. faults \in Nat BY <1>2 DEF DataOK
  <2>2. faults = 0 /\ Cardinality(bad \ Refused(cmd.rev, cmd.force)) = 0
    BY <1>1, <1>9, <2>1
  <2>3. bad \ Refused(cmd.rev, cmd.force) = {}
    <3>1. bad \ Refused(cmd.rev, cmd.force) \subseteq Units BY <1>1, <1>5
    <3> QED BY <2>2, <3>1, Counted
  <2>4. bad \subseteq PathUnits(cmd.rev) BY <2>3 DEF Refused
  <2>5. ASSUME NEW u \in DeclareUnits(cmd.rev) PROVE effect'[u] = None
    <3>1. u \in Units /\ u[1] # "dir" BY <1>4, KeyShape
    <3>2. u \notin bad BY <1>4, <2>4, <3>1, PathShape
    <3>3. u \in UnitsOf(cmd.rev) BY DEF UnitsOf
    <3> QED BY <1>6, <3>1, <3>2, <3>3
  <2> QED BY <2>2, <2>5
<1>10. ASSUME faults' = 0
       PROVE  /\ ~doubt'
              /\ \A u \in Keys : effect'[u] # None =>
                   /\ effect[u] # None /\ Hashed(state, u) /\ Hashed(state, u)'
  <2>1. faults = 0 BY <1>9, <1>10
  <2>2. ~doubt /\ \A u \in Keys : effect[u] # None => Hashed(state, u)
    BY <1>1, <2>1 DEF Hashing
  <2>3. ASSUME NEW u \in Keys, effect'[u] # None
        PROVE  effect[u] # None /\ Hashed(state, u) /\ Hashed(state, u)'
    <3>1. u \in Units BY KeyOf
    <3>2. effect[u] # None BY <1>6, <2>3, <3>1
    <3>3. Hashed(state, u) BY <2>2, <3>2
    <3>4. HasHash(state, u) /\ HashOf(state, u).user \in 0..seen'[FileOf[u]]
      BY <1>2, <1>6, <1>7, <3>3, HashedLater DEF Hashed
    <3> QED BY <1>1, <3>2, <3>3, <3>4 DEF Hashed
  <2> QED BY <1>1, <2>2, <2>3
<1>11. CASE cmd'.at \in {"reconcile", "finish"}
  <2>1. faults' = 0 => \A u \in DeclareUnits(cmd'.rev) : effect'[u] = None
    BY <1>1, <1>9 DEF Onward
  <2>2. cmd'.ok \subseteq UnitsOf(cmd'.rev) BY <1>1, <1>5 DEF Onward
  <2> QED BY <1>8, <1>10, <1>11, <2>1, <2>2 DEF Hashing
<1>12. CASE cmd'.at = "apply"
  <2>1. cmd.op = "use" BY <1>1, <1>12
  <2>2. UseOK(cmd) BY <1>3, <2>1
  <2>3. Initial(cmd') = Initial(cmd) /\ cmd'.active = cmd.active
    BY <1>1, <2>2, OnwardScopes
  <2>4. Initial(cmd) \subseteq Tools /\ (cmd.req # "all" => Initial(cmd) = {cmd.req})
    BY <2>2, Asked DEF UseOK
  <2>5. ASSUME faults' = 0, NEW u \in Keys, effect'[u] # None
        PROVE  u[1] \notin Initial(cmd) /\ Hashed(state, u)'
    <3>1. Hashed(state, u) /\ Hashed(state, u)' BY <1>10, <2>5
    <3>2. u \notin DeclareUnits(cmd.rev) BY <1>9, <2>5
    <3>3. u[1] \notin cmd.rev BY <1>4, <3>2, KeyOf
    <3>4. cmd.out # {} BY <1>1, <2>2 DEF UseOK
    <3>5. u[1] \in DOMAIN cmd.active.tools BY <1>3, <3>1 DEF Hashed, HasHash
    <3>6. cmd.rev = (IF cmd.req = "all" THEN DOMAIN cmd.active.tools ELSE {cmd.req})
      BY <2>2, <3>4 DEF UseOK
    <3> QED BY <2>4, <3>1, <3>3, <3>5, <3>6
  <2>6. faults' = 0 => \A u \in Keys : effect'[u] # None =>
          u[1] \notin Initial(cmd') /\ Hashed(cmd.active, u)'
    BY <1>1, <1>3, <2>3, <2>5 DEF Hashed
  <2> QED BY <1>8, <1>10, <1>12, <2>6 DEF Hashing
<1> QED BY <1>1, <1>11, <1>12

\* What the engine undoes leaves what crossby has seen no later than the files.
LEMMA UndoneSeen ==
  ASSUME Typed, Hashing, NEW done, EngineClear(done)
  PROVE  \A f \in Files : seen'[f] <= uver'[f]
<1>1. DataOK BY DEF Typed
<1>2. uver' = uver /\ \A f \in Files : seen'[f] \in {seen[f], uver[f]} BY <1>1, Undone
<1>3. \A f \in Files : seen[f] <= uver[f] BY DEF Hashing
<1> QED BY <1>1, <1>2, <1>3, SeenLater

\* Keys that are still in effect are not of the tools that were cleared.
LEMMA NotCleared ==
  ASSUME Typed, Hashing, faults = 0, cmd.at \in {"reconcile", "finish"},
         NEW u \in Keys, effect[u] # None
  PROVE  u[1] \notin cmd.rev /\ Hashed(state, u) /\ cmd.rev \subseteq Tools
<1>1. CmdOK BY DEF Typed
<1>2. UseOK(cmd) \/ ClearOK(cmd) BY <1>1, CommandKinds
<1>3. cmd.rev \subseteq Tools BY <1>2, CommandScope
<1>4. \A w \in DeclareUnits(cmd.rev) : effect[w] = None BY DEF Hashing
<1>5. Hashed(state, u) BY DEF Hashing
<1>6. u[1] \notin cmd.rev BY <1>3, <1>4, KeyOf
<1> QED BY <1>3, <1>5, <1>6

\* A reconciliation.
LEMMA ReconcileHashing ==
  ASSUME Typed, Hashing, Reconcile
  PROVE  Hashing'
<1> DEFINE new == Reconciled(cmd.active, cmd.ok)
<1>1. /\ End /\ cmd.at = "reconcile" /\ UNCHANGED <<disk, owed, doubt>>
      /\ state = cmd.active /\ StateOK(cmd.active)
      /\ faults' # 0 \/ (faults' = faults /\ state' = new)
  BY ReconcileStep
<1>2. \A rev, u : u \in Keys /\ rev \subseteq Tools /\ cmd.ok \subseteq UnitsOf(rev)
                    /\ u[1] \notin rev /\ HasHash(state, u)
                    => HasHash(new, u) /\ HashOf(new, u) = HashOf(state, u)
  BY <1>1, ReconciledState
<1> HIDE DEF new
<1>3. \A f \in Files : seen'[f] <= uver'[f] BY <1>1 DEF Hashing, disk
<1>4. ASSUME faults' = 0
      PROVE  /\ ~doubt'
             /\ \A u \in Keys : effect'[u] # None =>
                  HasHash(state', u) /\ HashOf(state', u).user \in 0..seen'[FileOf[u]]
  <2>1. faults = 0 /\ state' = new BY <1>1, <1>4
  <2>2. ~doubt /\ cmd.ok \subseteq UnitsOf(cmd.rev) BY <1>1, <2>1 DEF Hashing
  <2>3. effect' = effect /\ seen' = seen /\ doubt' = doubt BY <1>1 DEF disk
  <2>4. ASSUME NEW u \in Keys, effect[u] # None
        PROVE  HasHash(new, u) /\ HashOf(new, u).user \in 0..seen[FileOf[u]]
    <3>1. u[1] \notin cmd.rev /\ Hashed(state, u) /\ cmd.rev \subseteq Tools
      BY <1>1, <2>1, <2>4, NotCleared
    <3> QED BY <1>2, <2>2, <3>1 DEF Hashed
  <2> QED BY <2>1, <2>2, <2>3, <2>4
<1> QED BY <1>1, <1>3, <1>4, IdleHashing

\* The end of a clear.
LEMMA FinishHashing ==
  ASSUME Typed, Hashing, Finish
  PROVE  Hashing'
<1> DEFINE new == ClearedState(cmd)
<1>1. /\ ClearOK(cmd) /\ cmd.at = "finish" /\ End /\ UNCHANGED <<disk, owed, doubt>>
      /\ cmd.active = state /\ (faults' # 0 \/ (faults' = faults /\ state' = new))
  BY FinishStep
<1>2. \A u \in Keys : u[1] \notin cmd.rev /\ HasHash(state, u)
                        => HasHash(new, u) /\ HashOf(new, u) = HashOf(state, u)
  BY <1>1, ClearedFields
<1> HIDE DEF new
<1>3. \A f \in Files : seen'[f] <= uver'[f] BY <1>1 DEF Hashing, disk
<1>4. ASSUME faults' = 0
      PROVE  /\ ~doubt'
             /\ \A u \in Keys : effect'[u] # None =>
                  HasHash(state', u) /\ HashOf(state', u).user \in 0..seen'[FileOf[u]]
  <2>1. faults = 0 /\ state' = new BY <1>1, <1>4
  <2>2. ~doubt BY <2>1 DEF Hashing
  <2>3. effect' = effect /\ seen' = seen /\ doubt' = doubt BY <1>1 DEF disk
  <2>4. ASSUME NEW u \in Keys, effect[u] # None
        PROVE  HasHash(new, u) /\ HashOf(new, u).user \in 0..seen[FileOf[u]]
    <3>1. u[1] \notin cmd.rev /\ Hashed(state, u) BY <1>1, <2>1, <2>4, NotCleared
    <3> QED BY <1>2, <3>1 DEF Hashed
  <2> QED BY <2>1, <2>2, <2>3, <2>4
<1> QED BY <1>1, <1>3, <1>4, IdleHashing

\* An apply: it writes the hash of every key it sets.
LEMMA ApplyHashing ==
  ASSUME Typed, Hashing, Apply
  PROVE  Hashing'
<1>1. PICK done \in SUBSET UnitsOf(Initial(cmd)), gone \in SUBSET Removes(cmd) :
        /\ UseOK(cmd) /\ Onward(cmd, cmd') /\ cmd.at = "apply"
        /\ EngineApply(cmd, done, gone) /\ UNCHANGED <<state, doubt>>
        /\ cmd'.at = "save" /\ cmd'.hashed = Writes(cmd, done)
        /\ faults' = 0 => faults = 0 /\ done = UnitsOf(Initial(cmd))
  BY ApplyStep
<1>2. DataOK BY DEF Typed
<1>3. cmd.scene \in Scenes /\ Initial(cmd) \subseteq Tools
  BY <1>1, CommandScope DEF UseOK
<1>4. /\ uver' = uver /\ seen' \in [Files -> 0..1]
      /\ \A f \in Files : seen'[f] \in {seen[f], uver[f]}
      /\ \A u \in Units : effect'[u] = IF u \in done THEN Applied(cmd, u) ELSE effect[u]
      /\ \A u \in Units : effect'[u] # effect[u]
                            => seen'[FileOfUnit(u)] = uver[FileOfUnit(u)]
  BY <1>1, <1>2, <1>3, SetInEffect
<1>5. \A f \in Files : seen[f] <= uver[f] BY DEF Hashing
<1>6. \A f \in Files : seen'[f] <= uver'[f] BY <1>2, <1>4, <1>5, SeenLater
<1>7. Initial(cmd') = Initial(cmd) /\ cmd'.active = cmd.active BY <1>1, OnwardScopes
<1>8. ASSUME faults' = 0, NEW u \in Keys, effect'[u] # None
      PROVE  IF u[1] \in Initial(cmd)
             THEN u \in cmd'.hashed /\ seen'[FileOf[u]] = uver'[FileOf[u]]
             ELSE /\ HasHash(cmd.active, u)
                  /\ HashOf(cmd.active, u).user \in 0..seen'[FileOf[u]]
  <2>1. faults = 0 /\ done = UnitsOf(Initial(cmd)) BY <1>1, <1>8
  <2>2. effect[u] # None => u[1] \notin Initial(cmd) /\ Hashed(cmd.active, u)
    BY <1>1, <2>1 DEF Hashing
  <2>3. u \in Units /\ u[1] # "dir" /\ FileOfUnit(u) = FileOf[u] BY KeyOf
  <2>4. CASE u[1] \in Initial(cmd)
    <3>1. u \in done BY <1>3, <2>1, <2>4, KeyOf DEF UnitsOf
    <3>2. effect[u] = None BY <2>2, <2>4
    <3>3. effect'[u] = Applied(cmd, u) BY <1>4, <2>3, <3>1
    <3>4. u \in Writes(cmd, done) BY <1>8, <2>3, <3>1, <3>2, <3>3 DEF Writes
    <3>5. seen'[FileOf[u]] = uver[FileOf[u]] BY <1>4, <1>8, <2>3, <3>2
    <3> QED BY <1>1, <1>4, <2>4, <3>4, <3>5
  <2>5. CASE u[1] \notin Initial(cmd)
    <3>1. u \notin done BY <1>3, <2>1, <2>5, KeyOf
    <3>2. effect[u] # None BY <1>4, <1>8, <2>3, <3>1
    <3>3. Hashed(cmd.active, u) BY <2>2, <3>2
    <3>4. /\ HasHash(cmd.active, u)
          /\ HashOf(cmd.active, u).user \in 0..seen'[FileOf[u]]
      BY <1>2, <1>4, <1>5, <3>3, HashedLater DEF Hashed
    <3> QED BY <2>5, <3>4
  <2> QED BY <2>4, <2>5
<1>9. faults' = 0 => ~doubt' BY <1>1 DEF Hashing
<1>10. faults' = 0 => \A u \in Keys : effect'[u] # None =>
         IF u[1] \in Initial(cmd')
         THEN u \in cmd'.hashed /\ seen'[FileOf[u]] = uver'[FileOf[u]]
         ELSE Hashed(cmd.active, u)'
  BY <1>7, <1>8 DEF Hashed
<1> QED BY <1>1, <1>6, <1>9, <1>10 DEF Hashing

\* The save of an activation: it records the hashes it wrote, and keeps those of its own scene.
LEMMA SaveHashing ==
  ASSUME Typed, Accounted, Hashing, Save
  PROVE  Hashing'
<1> DEFINE new == NextState(cmd)
<1>1. /\ UseOK(cmd) /\ cmd.at = "save" /\ UNCHANGED <<disk, owed>>
      /\ \/ /\ state' = new /\ End /\ UNCHANGED faults /\ doubt' = (doubt /\ cmd.ok # Units)
         \/ faults' # 0
  BY SaveStep
<1>0. NextKeeps(cmd, new) BY <1>1, NextFields
<1> HIDE DEF new
<1>2. /\ \A u \in Keys : u[1] \in Initial(cmd) /\ u \in cmd.hashed
                           => HasHash(new, u) /\ HashOf(new, u).user = uver[FileOf[u]]
      /\ \A u \in Keys : (/\ u[1] \notin Initial(cmd) /\ cmd.active.scene = cmd.scene
                          /\ HasHash(cmd.active, u))
                           => HasHash(new, u) /\ HashOf(new, u) = HashOf(cmd.active, u)
  <2>1. \A u \in Keys : u[1] \in Initial(cmd) /\ u \in cmd.hashed
                         => HasHash(new, u) /\ HashOf(new, u).user = uver[FileOf[u]]
    BY <1>0 DEF NextKeeps
  <2>2. \A u \in Keys : (/\ u[1] \notin Initial(cmd) /\ cmd.active.scene = cmd.scene
                         /\ HasHash(cmd.active, u))
                         => HasHash(new, u) /\ HashOf(new, u) = HashOf(cmd.active, u)
    <3>1. ASSUME NEW u \in Keys, u[1] \notin Initial(cmd), cmd.active.scene = cmd.scene,
                 HasHash(cmd.active, u)
          PROVE  HasHash(new, u) /\ HashOf(new, u) = HashOf(cmd.active, u)
      BY <1>0, <3>1 DEF NextKeeps
    <3> QED BY <3>1
  <2> QED BY <2>1, <2>2
<1>3. UNCHANGED <<effect, uver, seen>> BY <1>1 DEF disk
<1>4. \A f \in Files : seen'[f] <= uver'[f] BY <1>3 DEF Hashing
<1>5. CASE faults' # 0 BY <1>4, <1>5 DEF Hashing
<1>6. CASE /\ state' = new /\ End /\ UNCHANGED faults /\ doubt' = (doubt /\ cmd.ok # Units)
           /\ faults' = 0
  <2>1. /\ faults = 0 /\ ~doubt
        /\ \A u \in Keys : effect[u] # None =>
             IF u[1] \in Initial(cmd)
             THEN u \in cmd.hashed /\ seen[FileOf[u]] = uver[FileOf[u]]
             ELSE Hashed(cmd.active, u)
    BY <1>1, <1>6 DEF Hashing
  <2>2. ASSUME NEW u \in Keys, effect[u] # None
        PROVE  HasHash(new, u) /\ HashOf(new, u).user \in 0..seen[FileOf[u]]
    <3>1. CASE u[1] \in Initial(cmd)
      <4>1. u \in cmd.hashed /\ seen[FileOf[u]] = uver[FileOf[u]] BY <2>1, <2>2, <3>1
      <4>2. HasHash(new, u) /\ HashOf(new, u).user = uver[FileOf[u]] BY <1>2, <3>1, <4>1
      <4>3. uver[FileOf[u]] \in 0..1
        <5>1. FileOf[u] \in Files BY KeyOf
        <5> QED BY <5>1 DEF Typed, DataOK
      <4> QED BY <4>1, <4>2, <4>3
    <3>2. CASE u[1] \notin Initial(cmd)
      <4>1. Hashed(cmd.active, u) BY <2>1, <2>2, <3>2
      <4>2. u \in Units /\ Chosen(u) BY <2>2, KeyOf DEF Chosen
      <4>3. InEffect(cmd) BY <1>1, <2>1 DEF Accounted
      <4>4. Selected(cmd, u) \/ Spared(cmd, u) BY <4>2, <4>3 DEF InEffect
      <4>5. Initial(cmd) \subseteq Tools BY <1>1, CommandScope
      <4>6. ~Selected(cmd, u)
        <5>1. Selected(cmd, u) => u \in UnitsOf(Initial(cmd)) BY <4>5, SelectedUnits
        <5> QED BY <3>2, <4>5, <5>1, KeyOf
      <4>7. cmd.active.scene = cmd.scene BY <4>4, <4>6 DEF Spared
      <4> QED BY <1>2, <3>2, <4>1, <4>7 DEF Hashed
    <3> QED BY <3>1, <3>2
  <2>3. faults' = 0 => /\ ~doubt'
                       /\ \A u \in Keys : effect'[u] # None =>
                            /\ HasHash(state', u)
                            /\ HashOf(state', u).user \in 0..seen'[FileOf[u]]
    BY <1>3, <1>6, <2>1, <2>2
  <2> QED BY <1>4, <1>6, <2>3, IdleHashing
<1> QED BY <1>1, <1>5, <1>6

\* As long as no fault happened and whatever the user edited, every key in effect has the hash of
\* its file on record, from when crossby last wrote it.
THEOREM HashingInductive == Spec => []Hashing
<1>1. Init => Hashing
  <2> SUFFICES ASSUME Init PROVE Hashing OBVIOUS
  <2>1. cmd.at = "idle" /\ doubt = FALSE BY DEF Init, Idle
  <2>2. \A u \in Units : effect[u] = None BY DEF Init
  <2>3. \A u \in Keys : effect[u] = None BY <2>2, KeyOf
  <2>4. \A f \in Files : seen[f] <= uver[f] BY DEF Init
  <2> QED BY <2>1, <2>3, <2>4 DEF Hashing
<1>2. Typed /\ Accounted /\ Hashing /\ [Next]_vars => Hashing'
  <2> SUFFICES ASSUME Typed, Accounted, Hashing, [Next]_vars PROVE Hashing' OBVIOUS
  <2>1. ASSUME NEW s \in Scenes, NEW r \in Requests, NEW force \in BOOLEAN, Use(s, r, force)
        PROVE  Hashing'
    BY <2>1, UseHashing
  <2>2. ASSUME NEW r \in Requests, NEW force \in BOOLEAN, Clear(r, force) PROVE Hashing'
    BY <2>2, ClearHashing
  <2>3. CASE Revert BY <2>3, RevertHashing
  <2>4. CASE RevertRaises
    <3>1. PICK done : EngineClear(done) /\ faults' # 0 BY <2>4, RevertRaisesStep
    <3> QED BY <3>1, UndoneSeen DEF Hashing
  <2>5. CASE Reconcile BY <2>5, ReconcileHashing
  <2>6. CASE Apply BY <2>6, ApplyHashing
  <2>7. CASE ApplyRaises
    <3>1. PICK done, gone : UseOK(cmd) /\ EngineApply(cmd, done, gone) /\ faults' # 0
      BY <2>7, ApplyRaisesStep
    <3>2. DataOK /\ cmd.scene \in Scenes BY <3>1 DEF Typed, UseOK
    <3>3. uver' = uver /\ \A f \in Files : seen'[f] \in {seen[f], uver[f]}
      BY <3>1, <3>2, SetInEffect
    <3>4. \A f \in Files : seen'[f] <= uver'[f] BY <3>2, <3>3, SeenLater DEF Hashing
    <3> QED BY <3>1, <3>4 DEF Hashing
  <2>8. CASE Recover
    <3>1. /\ cmd.at = "recover" /\ UNCHANGED disk
          /\ faults' = faults \/ faults' # 0
      BY <2>8, RecoverStep
    <3>2. faults' # 0 BY <3>1 DEF Hashing
    <3> QED BY <3>1, <3>2 DEF Hashing, disk
  <2>9. CASE Save BY <2>9, SaveHashing
  <2>10. CASE Rollback
    <3>1. PICK bad : /\ cmd.at = "rollback" /\ (faults' = 0 => faults = 0)
                     /\ EngineClear(UnitsOf(Initial(cmd)) \ bad)
      BY <2>10, RollbackStep
    <3>2. faults' # 0 BY <3>1 DEF Hashing
    <3> QED BY <3>1, <3>2, UndoneSeen DEF Hashing
  <2>11. CASE RollbackRaises
    <3>1. PICK done : EngineClear(done) /\ faults' # 0 BY <2>11, RollbackRaisesStep
    <3> QED BY <3>1, UndoneSeen DEF Hashing
  <2>12. CASE Restore
    <3>1. cmd.at = "restore" /\ UNCHANGED disk /\ (faults' = 0 => faults = 0)
      BY <2>12, RestoreStep
    <3>2. faults' # 0 BY <3>1 DEF Hashing
    <3> QED BY <3>1, <3>2 DEF Hashing, disk
  <2>13. CASE Finish BY <2>13, FinishHashing
  <2>14. CASE Crash
    <3>1. /\ faults' # 0 /\ uver' = uver
          /\ \A f \in Files : seen'[f] \in {seen[f], uver[f]}
      BY <2>14, CrashStep
    <3>2. \A f \in Files : seen'[f] <= uver'[f] BY <3>1, SeenLater DEF Hashing, Typed
    <3> QED BY <3>1, <3>2 DEF Hashing
  <2>15. ASSUME NEW f \in Editable, UserEdits(f) PROVE Hashing'
    <3>1. /\ Typed' /\ cmd = Idle
          /\ UNCHANGED <<effect, left, seen, state, cmd, owed, doubt, faults>>
          /\ \A g \in Files : uver[g] <= uver'[g]
      BY <2>15, EditStep
    <3>2. \A g \in Files : seen'[g] <= uver'[g]
      <4>1. \A g \in Files : seen[g] \in 0..1 /\ uver[g] \in 0..1 /\ uver'[g] \in 0..1
        BY <3>1 DEF Typed, DataOK
      <4>2. \A g \in Files : seen[g] <= uver[g] BY DEF Hashing
      <4> QED BY <3>1, <4>1, <4>2
    <3>3. cmd.at = "idle" BY <3>1 DEF Idle
    <3> QED BY <3>1, <3>2, <3>3 DEF Hashing, Hashed
  <2>16. CASE Resync
    <3>1. cmd = Idle /\ UNCHANGED <<effect, uver, seen, state, cmd, doubt, faults>>
      BY <2>16, ResyncStep
    <3>2. cmd.at = "idle" BY <3>1 DEF Idle
    <3> QED BY <3>1, <3>2 DEF Hashing, Hashed
  <2>17. CASE UNCHANGED vars BY <2>17 DEF vars, Hashing, Hashed
  <2> QED
    BY <2>1, <2>2, <2>3, <2>4, <2>5, <2>6, <2>7, <2>8, <2>9, <2>10, <2>11, <2>12, <2>13, <2>14,
       <2>15, <2>16, <2>17
       DEF Next, Step
<1> QED BY <1>1, <1>2, TypedInductive, AccountedInductive, PTL DEF Spec

\* Without --force, a revert only changes what is in a file as crossby last wrote it.
LEMMA RevertsWhatItSaw ==
  ASSUME Typed, Hashing, cmd.at = "revert", ~cmd.force, faults = 0,
         NEW done \in SUBSET (UnitsOf(cmd.rev) \ Refused(cmd.rev, cmd.force)), EngineClear(done),
         NEW u \in Units, effect'[u] # effect[u]
  PROVE  uver[FileOfUnit(u)] = seen[FileOfUnit(u)]
<1>1. DataOK /\ CmdOK BY DEF Typed
<1>2. effect'[u] = IF u \in done THEN None ELSE effect[u] BY <1>1, Undone
<1>3. u \in done /\ effect[u] # None BY <1>2
<1>4. cmd.rev \subseteq Tools BY <1>1, CommandKinds, CommandScope
<1>5. CASE u \in DeclareUnits(cmd.rev)
  <2>1. FileOfUnit(u) = FileOf[u] BY <1>4, <1>5, KeyShape
  <2> QED BY <1>3, <1>5, <2>1 DEF Hashing
<1>6. CASE u \in PathUnits(cmd.rev)
  <2>1. u \in Rows(cmd.rev) BY <1>3, <1>6 DEF Rows
  <2>2. u \notin Refused(cmd.rev, cmd.force) BY <1>3
  <2>3. uver[u[2]] = seen[u[2]] BY <1>6, <2>1, <2>2 DEF Refused
  <2>4. u[1] = "dir" BY <1>4, <1>6, PathShape
  <2> QED BY <2>3, <2>4 DEF FileOfUnit
<1> QED BY <1>3, <1>5, <1>6 DEF UnitsOf

\* The drift check of the state file's hashes is enough: without --force and before any fault, no
\* revert rewrites a file that the user edited since crossby wrote it, for any tools, scenes,
\* files and directories, however often commands of any scope were run before.
THEOREM NeverRevertsBlindly == Spec => NoBlindRevert
<1> DEFINE Sees == cmd.at = "revert" /\ ~cmd.force /\ faults = 0 =>
                     \A u \in Units : effect'[u] # effect[u]
                                        => uver[FileOfUnit(u)] = seen[FileOfUnit(u)]
<1>1. Typed /\ Hashing /\ [Next]_vars => [Sees]_vars
  <2> SUFFICES ASSUME Typed, Hashing, Next, cmd.at = "revert", ~cmd.force, faults = 0,
                      NEW u \in Units, effect'[u] # effect[u]
               PROVE  uver[FileOfUnit(u)] = seen[FileOfUnit(u)]
    OBVIOUS
  <2>1. cmd # Idle BY DEF Idle
  <2>2. CmdOK BY DEF Typed
  <2>3. cmd.rev \subseteq Tools BY <2>1, <2>2, CommandKinds, CommandScope
  <2>4. Revert \/ RevertRaises \/ Crash
    BY <2>1 DEF Next, Step, Use, Clear, Reconcile, Apply, ApplyRaises, Recover, Save, Rollback,
                RollbackRaises, Restore, Finish, UserEdits, Resync
  <2>5. CASE Revert
    <3>1. PICK bad \in ErrorRows(cmd.rev, cmd.force) : EngineClear(UnitsOf(cmd.rev) \ bad)
      BY <2>5, RevertStep
    <3>2. Refused(cmd.rev, cmd.force) \subseteq bad BY DEF ErrorRows
    <3> QED BY <3>1, <3>2, RevertsWhatItSaw
  <2>6. CASE RevertRaises
    <3>1. PICK done \in SUBSET DeclareUnits(cmd.rev) : EngineClear(done)
      BY <2>6, RevertRaisesStep
    <3>2. \A w \in DeclareUnits(cmd.rev) : w \notin Refused(cmd.rev, cmd.force)
      <4>1. ASSUME NEW w \in DeclareUnits(cmd.rev), w \in PathUnits(cmd.rev) PROVE FALSE
        <5>1. w[1] # "dir" BY <2>3, KeyShape
        <5>2. w[1] = "dir" BY <2>3, <4>1, PathShape
        <5> QED BY <5>1, <5>2
      <4> QED BY <4>1 DEF Refused
    <3>3. done \in SUBSET (UnitsOf(cmd.rev) \ Refused(cmd.rev, cmd.force))
      BY <3>2 DEF UnitsOf
    <3> QED BY <3>1, <3>3, RevertsWhatItSaw
  <2>7. CASE Crash
    <3>1. CASE UNCHANGED disk BY <3>1 DEF disk
    <3>2. CASE \E done \in SUBSET (UnitsOf(cmd.rev) \ Refused(cmd.rev, cmd.force)) :
                 EngineClear(done)
      BY <3>2, RevertsWhatItSaw
    <3> QED BY <2>7, <3>1, <3>2, CrashStep
  <2> QED BY <2>4, <2>5, <2>6, <2>7
<1> QED BY <1>1, TypedInductive, HashingInductive, PTL DEF Spec, NoBlindRevert

-----------------------------------------------------------------------------
(* A launch in a worktree of its own.                                       *)

BeforeTool == {"prepare", "allocate", "add", "mark", "validate", "checkout", "spawn"}

\* Nothing of the tool runs, or an interrupt came where it could be lost.
Over == tool \in {"none", "gone"} \/ cut \cap {"spawn", "killing", "waiting", "except"} # {}

\* Where the launch is says what its tool may still be.
ToolPoint ==
  /\ pc \in BeforeTool => tool = "none"
  /\ pc \in BeforeTool \cup {"observe", "kill"} => ~stopped
  /\ pc \in {"drain", "reap", "waiting"} => tool \in {"killed", "gone"}
  /\ (pc = "killing" /\ stopped) => tool \in {"killed", "gone"}
  /\ pc \in {"observe", "kill", "killing"} => tool # "none"
  /\ pc = "except" => (exc = "tree" \/ Over)
  /\ pc \in {"finally", "rebind"} => (keep \/ Over)
  /\ pc = "cleanup" => Over

\* Where the removal is says what it has seen of the checkout.
RemovalPoint ==
  /\ clean # "idle" => pc \in {"cleanup", "over", "dead"}
  /\ clean \in {"status", "remove"} => (cmark /\ gmark /\ ws = "bound")
  /\ clean = "remove" => ((work \cap Protected) \ {"swap"}) \subseteq since
  /\ pc \in {"prepare", "allocate", "add"} => ws = "absent"

\* An interrupt arrived while the launch unwound.
CutShort == cut \cap {"finally", "rebind", "cleanup"} # {}

\* Where the launch is says what it owns, what is recorded of it and what the user was told.
TellPoint ==
  /\ pc \in {"prepare", "allocate", "add"} => (~owned /\ ~retained /\ ~gmark)
  /\ pc \in {"validate", "checkout"} => owned
  /\ yielded => retained
  /\ retained => owned
  /\ ws = "bound" => ((owned => gmark) /\ (gmark => cmark))
  /\ told = "retained" => retained
  /\ clean \in {"unlink", "rmdir"} => ws = "absent"
  /\ pc = "report" => (ws = "absent" \/ retained \/ told = "error" \/ CutShort)
  /\ pc = "over" => (ws = "absent" \/ told # "no" \/ (~yielded /\ CutShort))

LaunchInv == LaunchTypeOK /\ ToolPoint /\ RemovalPoint /\ TellPoint

\* What one step may do to a bound checkout.
SafeStep ==
  (ws = "bound" /\ ws' # "bound") =>
       /\ cmark /\ gmark
       /\ "swap" \notin work
       /\ work \cap Protected \subseteq since
       /\ pc = "cleanup" => \/ tool \in {"none", "gone"}
                            \/ cut \cap {"spawn", "killing", "waiting", "except"} # {}

-----------------------------------------------------------------------------
(* Where an exception leads.                                               *)

\* The finally blocks of create() and run_owned decide where an exception goes.
LEMMA Handlers ==
  /\ Handler("allocate") = "report"
  /\ \A p \in {"add", "mark", "validate", "checkout", "spawn"} : Handler(p) = "except"
  /\ \A p \in {"observe", "kill", "drain", "reap"} : Handler(p) = "killing"
  /\ \A p \in {"killing", "waiting"} : Handler(p) = "except"
  /\ Handler("except") = "finally"
  /\ \A p \in {"finally", "rebind", "cleanup"} : Handler(p) = "report"
  BY DEF Handler

\* The invariant holds at the start.
LEMMA LaunchInitInv == ASSUME WorktreeAssumption, LaunchInit PROVE LaunchInv
<1>1. FlagsOK BY DEF LaunchInit, FlagsOK
<1>2. PlacesOK BY DEF LaunchInit, PlacesOK, Points
<1>3. SetsOK BY DEF LaunchInit, SetsOK, WorktreeAssumption
<1>4. ToolPoint BY DEF LaunchInit, ToolPoint, BeforeTool, Over
<1>5. RemovalPoint BY DEF LaunchInit, RemovalPoint
<1>6. TellPoint BY DEF LaunchInit, TellPoint
<1> QED BY <1>1, <1>2, <1>3, <1>4, <1>5, <1>6 DEF LaunchInv, LaunchTypeOK

\* Every step keeps the types.
LEMMA LaunchTypeStep ==
  ASSUME WorktreeAssumption, LaunchTypeOK, [LaunchNext]_launchVars PROVE LaunchTypeOK'
<1> USE DEF LaunchTypeOK, FlagsOK, PlacesOK, SetsOK, Points, Setup, Running, Teardown, Work,
        Changes, onDisk, locals, cleaner, bounds, WorktreeAssumption
<1>1. CASE UNCHANGED launchVars BY <1>1 DEF launchVars
<1>2. CASE Prepare BY <1>2 DEF Prepare
<1>3. CASE Allocate BY <1>3 DEF Allocate, Go
<1>4. CASE Add BY <1>4, Handlers DEF Add, Raise
<1>5. CASE Bind
  <2>1. FlagsOK'
    <3>1. UNCHANGED <<container, extra, keep, yielded, retained, stopped, discard>>
      BY <1>5 DEF Bind
    <3>2. cmark' \in BOOLEAN /\ gmark' \in BOOLEAN /\ owned' \in BOOLEAN
      BY <1>5, Zenon DEF Bind, MarkContainer, MarkGitdir, Bound
    <3> QED BY <3>1, <3>2, Zenon
  <2>2. PlacesOK' BY <1>5, Handlers DEF Bind, Raise, MarkContainer, MarkGitdir, Bound
  <2>3. SetsOK' BY <1>5, Handlers DEF Bind, Raise, MarkContainer, MarkGitdir, Bound
  <2> QED BY <2>1, <2>2, <2>3
<1>6. CASE Validate BY <1>6, Handlers DEF Validate, Raise
<1>7. CASE Checkout
  <2>1. FlagsOK'
    <3>1. UNCHANGED <<container, extra, cmark, gmark, keep, owned, stopped, discard>>
      BY <1>7 DEF Checkout
    <3>2. yielded' \in BOOLEAN /\ retained' \in BOOLEAN
      BY <1>7, Zenon DEF Checkout
    <3> QED BY <3>1, <3>2, Zenon
  <2>2. PlacesOK' BY <1>7, Handlers DEF Checkout, Raise
  <2>3. SetsOK' BY <1>7, Handlers DEF Checkout, Raise
  <2> QED BY <2>1, <2>2, <2>3
<1>8. CASE Spawn BY <1>8, Handlers DEF Spawn, Raise
<1>9. CASE Observe BY <1>9, Handlers DEF Observe, Raise
<1>10. CASE Kill BY <1>10 DEF Kill, Go, Signalled
<1>11. CASE Drain BY <1>11, Handlers DEF Drain, Raise
<1>12. CASE Reap BY <1>12, Handlers DEF Reap, Raise
<1>13. CASE KillUnlessStopped BY <1>13 DEF KillUnlessStopped, Go, Signalled
<1>14. CASE WaitAgain BY <1>14, Handlers DEF WaitAgain, Raise
<1>15. CASE Except BY <1>15 DEF Except, Go
<1>16. CASE Finally
  <2>1. FlagsOK'
    <3>1. UNCHANGED <<extra, cmark, gmark, keep, owned, yielded, stopped>>
      BY <1>16 DEF Finally
    <3>2. container' \in BOOLEAN /\ retained' \in BOOLEAN /\ discard' \in BOOLEAN
      BY <1>16, Zenon DEF Finally
    <3> QED BY <3>1, <3>2, Zenon
  <2>2. PlacesOK' BY <1>16 DEF Finally
  <2>3. SetsOK' BY <1>16 DEF Finally
  <2> QED BY <2>1, <2>2, <2>3
<1>17. CASE Rebind
  <2>1. FlagsOK'
    <3>1. UNCHANGED <<container, extra, keep, yielded, retained, stopped, discard>>
      BY <1>17 DEF Rebind
    <3>2. cmark' \in BOOLEAN /\ gmark' \in BOOLEAN /\ owned' \in BOOLEAN
      BY <1>17, Zenon DEF Rebind, MarkContainer, MarkGitdir, Bound
    <3> QED BY <3>1, <3>2, Zenon
  <2>2. PlacesOK' BY <1>17 DEF Rebind, MarkContainer, MarkGitdir, Bound
  <2>3. SetsOK' BY <1>17 DEF Rebind, MarkContainer, MarkGitdir, Bound
  <2> QED BY <2>1, <2>2, <2>3
<1>18. CASE Report BY <1>18 DEF Report, Go
<1>19. CASE Check
  <2>1. FlagsOK' BY <1>19 DEF Check, Refuses, Returns
  <2>2. PlacesOK' BY <1>19 DEF Check, Refuses, Returns
  <2>3. SetsOK' BY <1>19 DEF Check, Refuses, Returns
  <2> QED BY <2>1, <2>2, <2>3
<1>20. CASE Status BY <1>20 DEF Status, Refuses, Returns
<1>21. CASE Remove
  <2>1. FlagsOK'
    <3>1. UNCHANGED <<container, extra, cmark, keep, owned, yielded, retained, stopped, discard>>
      BY <1>21 DEF Remove
    <3>2. gmark' \in BOOLEAN
      BY <1>21, Zenon DEF Remove
    <3> QED BY <3>1, <3>2, Zenon
  <2>2. PlacesOK' BY <1>21 DEF Remove, TakenAway, Refuses, Returns
  <2>3. SetsOK' BY <1>21 DEF Remove, TakenAway, Refuses, Returns
  <2> QED BY <2>1, <2>2, <2>3
<1>22. CASE Unlink
  <2>1. FlagsOK' BY <1>22 DEF Unlink
  <2>2. PlacesOK' BY <1>22 DEF Unlink
  <2>3. SetsOK' BY <1>22 DEF Unlink
  <2> QED BY <2>1, <2>2, <2>3
<1>23. CASE Rmdir BY <1>23 DEF Rmdir, Returns
<1>24. CASE CleanupWorktree BY <1>24 DEF CleanupWorktree
<1>25. CASE Interrupt
  <2>1. pc' \in Points
    BY <1>25, Handlers DEF Interrupt, Raise
  <2>2. FlagsOK' BY <1>25 DEF Interrupt, HalfDone
  <2>3. PlacesOK' BY <1>25, <2>1 DEF Interrupt, Raise, HalfDone, TakenAway
  <2>4. work' \subseteq Work BY <1>25 DEF Interrupt, HalfDone, TakenAway
  <2>5. cut' \subseteq Points /\ signals' \in 0..MaxSignals BY <1>25 DEF Interrupt
  <2>6. SetsOK' BY <1>25, <2>4, <2>5 DEF Interrupt
  <2> QED BY <2>2, <2>3, <2>6
<1>26. CASE LaunchCrash
  <2>1. FlagsOK' BY <1>26 DEF LaunchCrash, HalfDone, TakenAway
  <2>2. PlacesOK' BY <1>26 DEF LaunchCrash, HalfDone, TakenAway
  <2>3. SetsOK' BY <1>26 DEF LaunchCrash, HalfDone, TakenAway
  <2> QED BY <2>1, <2>2, <2>3
<1>27. CASE Dies BY <1>27 DEF Dies
<1>28. CASE WritesInto BY <1>28 DEF WritesInto
<1>29. CASE WritesBeside BY <1>29 DEF WritesBeside
<1> QED
  BY <1>1, <1>2, <1>3, <1>4, <1>5, <1>6, <1>7, <1>8, <1>9, <1>10, <1>11, <1>12, <1>13, <1>14,
     <1>15, <1>16, <1>17, <1>18, <1>19, <1>20, <1>21, <1>22, <1>23, <1>24, <1>25, <1>26, <1>27,
     <1>28, <1>29 DEF LaunchNext, Launch, Cleanup, Environment

\* Every step leaves the tool as the launch's next point expects it.
LEMMA ToolStep ==
  ASSUME WorktreeAssumption, LaunchTypeOK, ToolPoint, RemovalPoint, [LaunchNext]_launchVars
  PROVE  ToolPoint'
<1> USE DEF ToolPoint, BeforeTool, Over, onDisk, locals, cleaner, bounds
<1>1. CASE UNCHANGED launchVars BY <1>1 DEF launchVars
<1>2. CASE Prepare BY <1>2 DEF Prepare
<1>3. CASE Allocate BY <1>3 DEF Allocate, Go
<1>4. CASE Add BY <1>4, Handlers DEF Add, Raise
<1>5. CASE Bind BY <1>5, Handlers DEF Bind, Raise
<1>6. CASE Validate BY <1>6, Handlers DEF Validate, Raise
<1>7. CASE Checkout BY <1>7, Handlers DEF Checkout, Raise
<1>8. CASE Spawn BY <1>8, Handlers DEF Spawn, Raise
<1>9. CASE Observe BY <1>9, Handlers DEF Observe, Raise
<1>10. CASE Kill BY <1>10 DEF Kill, Go, Signalled, LaunchTypeOK, PlacesOK
<1>11. CASE Drain BY <1>11, Handlers DEF Drain, Raise
<1>12. CASE Reap BY <1>12, Handlers DEF Reap, Raise, LaunchTypeOK, PlacesOK
<1>13. CASE KillUnlessStopped BY <1>13 DEF KillUnlessStopped, Go, Signalled, LaunchTypeOK, PlacesOK
<1>14. CASE WaitAgain BY <1>14, Handlers DEF WaitAgain, Raise
<1>15. CASE Except BY <1>15 DEF Except, Go
<1>16. CASE Finally BY <1>16 DEF Finally
<1>17. CASE Rebind BY <1>17 DEF Rebind
<1>18. CASE Report BY <1>18 DEF Report, Go
<1>19. CASE Check BY <1>19 DEF Check, Refuses, Returns
<1>20. CASE Status BY <1>20 DEF Status, Refuses, Returns
<1>21. CASE Remove BY <1>21 DEF Remove, Refuses, Returns
<1>22. CASE Unlink BY <1>22 DEF Unlink
<1>23. CASE Rmdir BY <1>23 DEF Rmdir, Returns
<1>24. CASE CleanupWorktree BY <1>24 DEF CleanupWorktree
<1>25. CASE Interrupt
  <2> USE <1>25 DEF Interrupt, Raise
  <2>1. /\ cut' = cut \cup {pc} /\ exc' = "interrupt" /\ pc' = Handler(pc)
        /\ UNCHANGED <<keep, stopped>>
    OBVIOUS
  <2>2. tool' = tool \/ (pc = "spawn" /\ tool' = "alive")
    BY DEF HalfDone
  <2>3. CASE pc \in {"add", "mark", "validate", "checkout"} BY <2>1, <2>2, <2>3, Handlers
  <2>4. CASE pc \in {"allocate", "finally", "rebind", "cleanup"} BY <2>1, <2>4, Handlers
  <2>5. CASE pc \in {"spawn", "killing", "waiting"} BY <2>1, <2>5, Handlers
  <2>6. CASE pc \in {"observe", "kill", "drain", "reap"} BY <2>1, <2>2, <2>6, Handlers
  <2>7. CASE pc = "except" BY <2>1, <2>7, Handlers
  <2> QED BY <2>3, <2>4, <2>5, <2>6, <2>7 DEF LaunchTypeOK, PlacesOK, Points, Setup, Running,
     Teardown
<1>26. CASE LaunchCrash BY <1>26 DEF LaunchCrash
<1>27. CASE Dies BY <1>27 DEF Dies
<1>28. CASE WritesInto BY <1>28 DEF WritesInto
<1>29. CASE WritesBeside BY <1>29 DEF WritesBeside
<1> QED
  BY <1>1, <1>2, <1>3, <1>4, <1>5, <1>6, <1>7, <1>8, <1>9, <1>10, <1>11, <1>12, <1>13, <1>14,
     <1>15, <1>16, <1>17, <1>18, <1>19, <1>20, <1>21, <1>22, <1>23, <1>24, <1>25, <1>26, <1>27,
     <1>28, <1>29 DEF LaunchNext, Launch, Cleanup, Environment

\* Every step leaves the checkout as the removal has seen it, but for what came since.
LEMMA RemovalStep ==
  ASSUME WorktreeAssumption, LaunchTypeOK, RemovalPoint, [LaunchNext]_launchVars PROVE RemovalPoint'
<1> USE DEF RemovalPoint, Protected, onDisk, locals, cleaner, bounds
<1>1. CASE UNCHANGED launchVars BY <1>1 DEF launchVars
<1>2. CASE Prepare BY <1>2 DEF Prepare
<1>3. CASE Allocate BY <1>3 DEF Allocate, Go
<1>4. CASE Add BY <1>4, Handlers DEF Add, Raise
<1>5. CASE Bind BY <1>5, Handlers DEF Bind, Raise
<1>6. CASE Validate BY <1>6, Handlers DEF Validate, Raise
<1>7. CASE Checkout BY <1>7, Handlers DEF Checkout, Raise
<1>8. CASE Spawn BY <1>8, Handlers DEF Spawn, Raise
<1>9. CASE Observe BY <1>9, Handlers DEF Observe, Raise
<1>10. CASE Kill BY <1>10 DEF Kill, Go
<1>11. CASE Drain BY <1>11, Handlers DEF Drain, Raise
<1>12. CASE Reap BY <1>12, Handlers DEF Reap, Raise
<1>13. CASE KillUnlessStopped BY <1>13 DEF KillUnlessStopped, Go
<1>14. CASE WaitAgain BY <1>14, Handlers DEF WaitAgain, Raise
<1>15. CASE Except BY <1>15 DEF Except, Go
<1>16. CASE Finally BY <1>16 DEF Finally
<1>17. CASE Rebind BY <1>17 DEF Rebind
<1>18. CASE Report BY <1>18 DEF Report, Go
<1>19. CASE Check BY <1>19 DEF Check, Authentic, Refuses, Returns
<1>20. CASE Status BY <1>20 DEF Status, Dirty, Refuses, Returns
<1>21. CASE Remove BY <1>21 DEF Remove, Refuses, Returns
<1>22. CASE Unlink BY <1>22 DEF Unlink
<1>23. CASE Rmdir BY <1>23 DEF Rmdir, Returns
<1>24. CASE CleanupWorktree BY <1>24 DEF CleanupWorktree
<1>25. CASE Interrupt
  BY <1>25, Handlers DEF Interrupt, Raise, LaunchTypeOK, PlacesOK, Points, Setup, Running, Teardown
<1>26. CASE LaunchCrash BY <1>26 DEF LaunchCrash
<1>27. CASE Dies BY <1>27 DEF Dies
<1>28. CASE WritesInto BY <1>28 DEF WritesInto
<1>29. CASE WritesBeside BY <1>29 DEF WritesBeside
<1> QED
  BY <1>1, <1>2, <1>3, <1>4, <1>5, <1>6, <1>7, <1>8, <1>9, <1>10, <1>11, <1>12, <1>13, <1>14,
     <1>15, <1>16, <1>17, <1>18, <1>19, <1>20, <1>21, <1>22, <1>23, <1>24, <1>25, <1>26, <1>27,
     <1>28, <1>29 DEF LaunchNext, Launch, Cleanup, Environment

\* Every step leaves the user told of what is left, once the launch is over.
LEMMA TellStep ==
  ASSUME WorktreeAssumption, LaunchTypeOK, RemovalPoint, TellPoint, [LaunchNext]_launchVars
  PROVE  TellPoint'
<1> USE DEF TellPoint, CutShort, onDisk, locals, cleaner, bounds
<1>1. CASE UNCHANGED launchVars BY <1>1 DEF launchVars
<1>2. CASE Prepare BY <1>2 DEF Prepare, RemovalPoint
<1>3. CASE Allocate BY <1>3 DEF Allocate, Go
<1>4. CASE Add BY <1>4, Handlers DEF Add, Raise, RemovalPoint
<1>5. CASE Bind
  <2>1. /\ pc = "mark" /\ pc' \in {"mark", "validate", "except"}
        /\ pc' = "validate" => owned'
        /\ UNCHANGED <<ws, yielded, retained, told, clean>>
    BY <1>5, Handlers DEF Bind, Bound, Raise
  <2>2. \/ UNCHANGED <<cmark, gmark, owned>>
        \/ cmark' /\ UNCHANGED <<gmark, owned>>
        \/ cmark /\ gmark' /\ UNCHANGED <<cmark, owned>>
        \/ gmark /\ owned' /\ UNCHANGED <<cmark, gmark>>
    BY <1>5 DEF Bind, MarkContainer, MarkGitdir, Bound
  <2> QED BY <2>1, <2>2
<1>6. CASE Validate BY <1>6, Handlers DEF Validate, Raise
<1>7. CASE Checkout BY <1>7, Handlers DEF Checkout, Raise
<1>8. CASE Spawn BY <1>8, Handlers DEF Spawn, Raise
<1>9. CASE Observe BY <1>9, Handlers DEF Observe, Raise
<1>10. CASE Kill BY <1>10 DEF Kill, Go
<1>11. CASE Drain BY <1>11, Handlers DEF Drain, Raise
<1>12. CASE Reap BY <1>12, Handlers DEF Reap, Raise
<1>13. CASE KillUnlessStopped BY <1>13 DEF KillUnlessStopped, Go
<1>14. CASE WaitAgain BY <1>14, Handlers DEF WaitAgain, Raise
<1>15. CASE Except BY <1>15 DEF Except, Go
<1>16. CASE Finally BY <1>16 DEF Finally
<1>17. CASE Rebind
  <2>1. /\ pc = "rebind" /\ pc' \in {"rebind", "finally", "report"}
        /\ pc' = "report" => told' = "error"
        /\ told' \in {told, "error"}
        /\ UNCHANGED <<ws, yielded, retained, clean>>
    BY <1>17 DEF Rebind
  <2>2. \/ UNCHANGED <<cmark, gmark, owned>>
        \/ cmark' /\ UNCHANGED <<gmark, owned>>
        \/ cmark /\ gmark' /\ UNCHANGED <<cmark, owned>>
        \/ gmark /\ owned' /\ UNCHANGED <<cmark, gmark>>
    BY <1>17 DEF Rebind, MarkContainer, MarkGitdir, Bound
  <2> QED BY <2>1, <2>2
<1>18. CASE Report BY <1>18 DEF Report, Go
<1>19. CASE Check BY <1>19 DEF Check, Refuses, Returns, RemovalPoint
<1>20. CASE Status BY <1>20 DEF Status, Refuses, Returns, RemovalPoint
<1>21. CASE Remove BY <1>21 DEF Remove, TakenAway, Refuses, Returns, RemovalPoint
<1>22. CASE Unlink BY <1>22 DEF Unlink, RemovalPoint
<1>23. CASE Rmdir BY <1>23 DEF Rmdir, Returns, RemovalPoint
<1>24. CASE CleanupWorktree BY <1>24 DEF CleanupWorktree
<1>25. CASE Interrupt
  <2>1. /\ cut' = cut \cup {pc} /\ pc' = Handler(pc) /\ told' = "no" /\ clean' = "idle"
        /\ UNCHANGED <<owned, yielded, retained, cmark, gmark>>
        /\ pc \notin {"prepare", "report", "over", "dead"}
    BY <1>25 DEF Interrupt, Raise, HalfDone
  <2>2. ws' = "bound" => (ws = "bound" \/ pc = "add")
    BY <1>25 DEF Interrupt, HalfDone, TakenAway
  <2>3. ws' # "absent" => (ws # "absent" \/ pc = "add")
    BY <1>25 DEF Interrupt, HalfDone, TakenAway, RemovalPoint
  <2>4. /\ pc' \notin {"prepare", "allocate", "add", "validate", "checkout", "over"}
        /\ pc' = "report" => pc \in {"allocate", "finally", "rebind", "cleanup"}
    BY <2>1, Handlers DEF LaunchTypeOK, PlacesOK, Points, Setup, Running, Teardown
  <2> QED BY <2>1, <2>2, <2>3, <2>4 DEF RemovalPoint
<1>26. CASE LaunchCrash
  <2>1. /\ UNCHANGED <<owned, yielded, retained, cmark, gmark, told, cut>>
        /\ clean' = "idle" /\ pc' = (IF pc = "over" THEN "over" ELSE "dead")
        /\ pc = "over" => clean # "idle"
    BY <1>26 DEF LaunchCrash, HalfDone
  <2>2. ws' = "bound" => (ws = "bound" \/ pc = "add")
    BY <1>26 DEF LaunchCrash, HalfDone, TakenAway
  <2>3. ws' # "absent" => (ws # "absent" \/ pc = "add")
    BY <1>26 DEF LaunchCrash, HalfDone, TakenAway, RemovalPoint
  <2> QED BY <2>1, <2>2, <2>3
<1>27. CASE Dies BY <1>27 DEF Dies
<1>28. CASE WritesInto BY <1>28 DEF WritesInto
<1>29. CASE WritesBeside BY <1>29 DEF WritesBeside
<1> QED
  BY <1>1, <1>2, <1>3, <1>4, <1>5, <1>6, <1>7, <1>8, <1>9, <1>10, <1>11, <1>12, <1>13, <1>14,
     <1>15, <1>16, <1>17, <1>18, <1>19, <1>20, <1>21, <1>22, <1>23, <1>24, <1>25, <1>26, <1>27,
     <1>28, <1>29 DEF LaunchNext, Launch, Cleanup, Environment

\* Only `git worktree remove', finished or not, takes a bound checkout away.
LEMMA OnlyRemove ==
  ASSUME [LaunchNext]_launchVars, RemovalPoint, ws = "bound", ws' # "bound"
  PROVE  clean = "remove" /\ "swap" \notin work
<1> USE DEF RemovalPoint, onDisk
<1>1. CASE Launch
  BY <1>1 DEF Launch, Prepare, Allocate, Go, Add, Bind, Validate, Checkout, Spawn, Observe,
     Kill, Drain, Reap, KillUnlessStopped, WaitAgain, Except, Finally, Rebind, Report
<1>2. CASE Cleanup
  BY <1>2 DEF Cleanup, Check, Status, Remove, Unlink, Rmdir
<1>3. CASE CleanupWorktree BY <1>3 DEF CleanupWorktree
<1>4. CASE Environment
  BY <1>4 DEF Environment, Interrupt, LaunchCrash, HalfDone, Dies, WritesInto, WritesBeside
<1>5. CASE UNCHANGED launchVars BY <1>5 DEF launchVars
<1> QED BY <1>1, <1>2, <1>3, <1>4, <1>5 DEF LaunchNext

-----------------------------------------------------------------------------
(* Theorems.                                                               *)

\* The inductive invariant: types, where the tool may be, what the removal has
\* seen, what the user was told.
THEOREM LaunchInductive == ASSUME WorktreeAssumption PROVE LaunchSpec => []LaunchInv
<1>1. LaunchInit => LaunchInv BY LaunchInitInv
<1>2. LaunchInv /\ [LaunchNext]_launchVars => LaunchInv'
  BY LaunchTypeStep, ToolStep, RemovalStep, TellStep DEF LaunchInv
<1> QED BY <1>1, <1>2, PTL DEF LaunchSpec

\* The state always has its type.
THEOREM LaunchTypeCorrect == ASSUME WorktreeAssumption PROVE LaunchSpec => []LaunchTypeOK
<1>1. LaunchInv => LaunchTypeOK BY DEF LaunchInv
<1> QED BY <1>1, LaunchInductive, PTL

\* A launch that ends and leaves a checkout has told the user of it, and what it calls retained
\* is recorded for removal, for any number of interrupts and changes.
THEOREM AlwaysTold == ASSUME WorktreeAssumption PROVE LaunchSpec => []NothingUntold
<1>1. LaunchInv => NothingUntold BY DEF LaunchInv, TellPoint, CutShort, NothingUntold
<1> QED BY <1>1, LaunchInductive, PTL

\* No removal takes a checkout that is not the launch's own, a change it had to respect, or the
\* checkout of a tool that runs on, for any number of interrupts and changes.
THEOREM RemovalAlwaysSafe == ASSUME WorktreeAssumption PROVE LaunchSpec => RemovalIsSafe
<1>1. LaunchInv /\ [LaunchNext]_launchVars => SafeStep
  <2> SUFFICES ASSUME LaunchInv, [LaunchNext]_launchVars, ws = "bound", ws' # "bound"
               PROVE  /\ cmark /\ gmark
                      /\ "swap" \notin work
                      /\ work \cap Protected \subseteq since
                      /\ pc = "cleanup" => Over
    BY DEF SafeStep, Over
  <2>1. clean = "remove" /\ "swap" \notin work BY OnlyRemove DEF LaunchInv
  <2> QED BY <2>1 DEF LaunchInv, RemovalPoint, ToolPoint
<1>2. LaunchInv /\ [LaunchNext]_launchVars => [SafeStep]_launchVars BY <1>1
<1> QED BY <1>2, LaunchInductive, PTL DEF LaunchSpec, RemovalIsSafe, SafeStep
=============================================================================
