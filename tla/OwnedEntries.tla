---------------------------- MODULE OwnedEntries ----------------------------
(* The entries crossby adds to a settings file that is the user's as well,  *)
(* and the ledger .crossby/owned.json that says which of them it may revoke *)
(* (sync/__init__.py, sync/permissions.py, sync/mcp.py, scenes/declare.py). *)
(*                                                                          *)
(* One file with two sections.  A is written by run_sync: permissions.allow *)
(* or the server tables.  M is written by a scene's DECLARE surfaces: what  *)
(* is switched off.  A command is a sequence of jobs, each of which loads   *)
(* the ledger, reads the file, replaces it by an edited copy and saves the  *)
(* whole ledger.  Commands of two processes interleave; the user edits at   *)
(* any moment; a command may die, a write or a save may raise.              *)
EXTENDS Naturals, FiniteSets

CONSTANTS Names,      \* commands, servers, skills, agents
          Procs,      \* crossby processes
          Tools,      \* which surfaces: see Init
          Fragile,    \* the tools whose file the user may leave malformed
          MaxRuns,    \* bound on commands
          MaxEdits    \* bound on what the user does

ASSUME OwnedEntriesAssumption ==
    /\ IsFiniteSet(Names)
    /\ Tools \subseteq {"claude", "deny", "codex", "agy"}
    /\ MaxRuns \in Nat /\ MaxEdits \in Nat

VARIABLES
    tool,    \* claude: allow and skillOverrides; deny: allow and a list of
             \* names; codex, agy: server tables and a flag in each of them
    file,    \* ok: it parses; A, M: who wrote each entry
    led,     \* the saved ledger: the names owned in A and in M
    cmd,     \* per process: where its command is, and what it holds
    wrote,   \* ghost: the names crossby ever wrote in A and in M
    settled, \* ghost: the job that completed last, if nothing happened since
    trouble, \* ghost: what went wrong in this behaviour
    runs, edits

vars == <<tool, file, led, cmd, wrote, settled, trouble, runs, edits>>

Own == [A : SUBSET Names, M : SUBSET Names]
Nothing == [A |-> {}, M |-> {}]
Section == [Names -> {"none", "ours", "users"}]
Flags == [Names -> {"none", "ours", "users", "other"}]
NoJob == [kind |-> "none", want |-> {}, gone |-> {}, old |-> FALSE]
Job == [kind : {"sync", "declare", "none"}, want : SUBSET Names, gone : SUBSET Names, old : BOOLEAN]
Idle == [at |-> "idle", job |-> NoJob, then |-> NoJob, own |-> Nothing, new |-> Nothing,
         out |-> [A |-> [n \in Names |-> "none"], M |-> [n \in Names |-> "none"]],
         error |-> FALSE, stale |-> FALSE]

(* The tools whose sections are server tables and a flag inside each.       *)
Servers == tool \in {"codex", "agy"}
In(section) == {n \in Names : section[n] # "none"}
Off(f) == {n \in Names : f.M[n] \in {"ours", "users"}}

Init ==
    /\ tool \in Tools
    /\ file = [ok |-> TRUE, A |-> [n \in Names |-> "none"], M |-> [n \in Names |-> "none"]]
    /\ led = Nothing
    /\ cmd = [p \in Procs |-> Idle]
    /\ wrote = Nothing
    /\ settled = NoJob
    /\ trouble = {}
    /\ runs = 0 /\ edits = 0

-----------------------------------------------------------------------------
(* What a job makes of a file and of the ownership it loaded: the sections, *)
(* the new ownership, whether the file is to be written, and whether the    *)
(* row is an error.                                                         *)

(* Mutant: what is disabled is removed, whoever wrote it.                   *)
RevokedUnwanted(own, job) == IF Servers THEN job.gone ELSE own.A \ job.want

Revoked(own, job) == IF Servers THEN own.A \cap job.gone ELSE own.A \ job.want

(* A section with entries created in it and taken out of it.                *)
Put(section, created, removed) ==
    [n \in Names |-> IF n \in created THEN "ours"
                     ELSE IF n \in removed THEN "none" ELSE section[n]]

(* Mutants: a pattern that is there is appended again; ownership of the     *)
(* whole source set, as if nobody else could have written it.               *)
AllowEditAppends(f, own, job) ==
    [A |-> Put(f.A, job.want, Revoked(own, job)), M |-> f.M, error |-> FALSE,
     new |-> [own EXCEPT !.A = (@ \cap job.want) \cup job.want],
     writes |-> job.want # {} \/ Revoked(own, job) # {}]
AllowEditClaims(f, own, job) ==
    LET created == job.want \ In(f.A) IN
    [A |-> Put(f.A, created, Revoked(own, job)), M |-> f.M, error |-> FALSE,
     new |-> [own EXCEPT !.A = job.want],
     writes |-> created # {} \/ Revoked(own, job) \cap In(f.A) # {}]

(* permissions.allow: what is missing is appended, what crossby owns and    *)
(* nobody wants is dropped.                                                 *)
AllowEdit(f, own, job) ==
    LET created == job.want \ In(f.A) IN
    [A |-> Put(f.A, created, Revoked(own, job)), M |-> f.M, error |-> FALSE,
     new |-> [own EXCEPT !.A = (@ \cap job.want) \cup created],
     writes |-> created # {} \/ Revoked(own, job) \cap In(f.A) # {}]

(* The server tables.  A server that is there is overwritten in place: the  *)
(* entry, and the user's or the scene's flag in it, keep their owner; a     *)
(* flag goes with its table.                                                *)
ServersEdit(f, own, job) ==
    LET created == job.want \ In(f.A)
        removed == Revoked(own, job)
    IN  [A |-> Put(f.A, created, removed), M |-> Put(f.M, {}, removed), error |-> FALSE,
         new |-> [own EXCEPT !.A = (@ \ removed) \cup created],
         writes |-> created # {} \/ removed \cap In(f.A) # {}]

Diff(own, desired, present) ==
    [add |-> desired \ present, remove |-> own \ desired,
     new |-> (own \cap desired) \cup (desired \ present)]

Switched(f, own, adds, gone, owned, writes, error) ==
    [A |-> f.A, M |-> Put(f.M, adds, gone), new |-> [own EXCEPT !.M = owned],
     writes |-> writes, error |-> error]

(* skillOverrides: not written by an old claude, nor over a user's value.   *)
OverridesEdit(f, own, job) ==
    LET d == Diff(own.M, job.want, Off(f))
        adds == IF job.old THEN {} ELSE {n \in d.add : f.M[n] # "other"}
    IN  Switched(f, own, adds, d.remove \cap Off(f), (own.M \cap job.want) \cup adds,
                 adds \cup d.remove # {}, FALSE)

(* Mutant: what was in the list before is forgotten.                        *)
ListEditForgets(f, own, job) ==
    LET d == Diff(own.M, job.want, Off(f))
    IN  Switched(f, own, d.add, d.remove, d.add, d.add \cup d.remove # {}, FALSE)

(* permissions.deny, disabledMcpjsonServers: lists of names.                *)
ListEdit(f, own, job) ==
    LET d == Diff(own.M, job.want, Off(f))
    IN  Switched(f, own, d.add, d.remove, d.new, d.add \cup d.remove # {}, FALSE)

(* A flag inside each server, in JSON.                                      *)
FlagEdit(f, own, job) ==
    LET d == Diff(own.M, job.want \cap In(f.A), Off(f))
    IN  Switched(f, own, d.add, d.remove \cap Off(f), d.new, d.add \cup d.remove # {}, FALSE)

(* The same in TOML; failed are the flags that could not be spliced.        *)
CodexEdit(f, own, job, failed) ==
    LET target == job.want \cap In(f.A)
        d == Diff(own.M, target, Off(f))
        adds == d.add \ failed
        gone == (d.remove \cap Off(f)) \ failed
        kept == (own.M \cap target \cap Off(f)) \cup (d.remove \cap Off(f) \cap failed)
    IN  Switched(f, own, adds, gone, kept \cup adds, adds \cup gone # {},
                 failed \cap (d.add \cup (d.remove \cap Off(f))) # {})

SyncEdit(f, own, job) == IF Servers THEN ServersEdit(f, own, job) ELSE AllowEdit(f, own, job)

DeclareEdit(f, own, job, failed) ==
    CASE tool = "claude" -> OverridesEdit(f, own, job)
      [] tool = "deny" -> ListEdit(f, own, job)
      [] tool = "codex" -> CodexEdit(f, own, job, failed)
      [] tool = "agy" -> FlagEdit(f, own, job)

(* Mutant: a malformed file drops the ownership.                            *)
MalformedForgets(own, job) ==
    [A |-> file.A, M |-> file.M, writes |-> FALSE, error |-> FALSE, new |-> Nothing]


(* A malformed file: every JSON surface refuses with an error row and keeps *)
(* its ownership; codex's DECLARE finds no server and owns none.            *)
Malformed(own, job) ==
    LET blind == tool = "codex" /\ job.kind = "declare"
    IN  [A |-> file.A, M |-> file.M, writes |-> FALSE, error |-> ~blind,
         new |-> IF blind THEN [own EXCEPT !.M = {}] ELSE own]

-----------------------------------------------------------------------------
(* The steps of a command.                                                  *)

At(p, place) == cmd[p].at = place
Alone(p) == \A q \in Procs \ {p} : At(q, "idle")

(* crossby sync; crossby scene use, whose narrowing of the allowlist is a   *)
(* run_sync of its own after the DECLARE surfaces; crossby scene clear.     *)
SyncJob(want, gone) == [kind |-> "sync", want |-> want, gone |-> gone, old |-> FALSE]
DeclareJob(want, old) == [kind |-> "declare", want |-> want, gone |-> {}, old |-> old]
Syncs == {SyncJob(w, g) : w \in SUBSET Names, g \in IF Servers THEN SUBSET Names ELSE {{}}}
Narrowings == {NoJob} \cup (IF Servers THEN {} ELSE {SyncJob(w, {}) : w \in SUBSET Names})
Declares == {DeclareJob(w, o) : w \in SUBSET Names, o \in {b \in BOOLEAN : b => tool = "claude"}}

Start(p) ==
    /\ At(p, "idle") /\ runs < MaxRuns
    /\ \E job \in Syncs \cup Declares, then \in Narrowings :
         /\ job.want \cap job.gone = {}
         /\ job.kind = "sync" \/ job.want = {} => then = NoJob
         /\ cmd' = [cmd EXCEPT ![p] = [Idle EXCEPT !.at = "load", !.job = job, !.then = then]]
    /\ runs' = runs + 1
    /\ trouble' = IF Alone(p) THEN trouble ELSE trouble \cup {"overlap"}
    /\ UNCHANGED <<tool, file, led, wrote, settled, edits>>

Load(p) ==
    /\ At(p, "load")
    /\ cmd' = [cmd EXCEPT ![p].at = "read", ![p].own = led]
    /\ UNCHANGED <<tool, file, led, wrote, settled, trouble, runs, edits>>

(* A sync job with an error row records nothing and saves nothing.          *)
AfterRead(e, kind) == IF e.writes THEN "write"
                      ELSE IF e.error /\ kind = "sync" THEN "next" ELSE "save"

Edit(p, failed) ==
    LET job == cmd[p].job IN
    IF ~file.ok THEN Malformed(cmd[p].own, job)
    ELSE IF job.kind = "sync" THEN SyncEdit(file, cmd[p].own, job)
    ELSE DeclareEdit(file, cmd[p].own, job, failed)

Read(p) ==
    /\ At(p, "read")
    /\ \E failed \in IF tool = "codex" THEN SUBSET Names ELSE {{}} :
         LET e == Edit(p, failed) IN
         cmd' = [cmd EXCEPT ![p].at = AfterRead(e, cmd[p].job.kind),
                            ![p].out = IF e.writes THEN [A |-> e.A, M |-> e.M] ELSE @,
                            ![p].new = e.new, ![p].error = e.error, ![p].stale = FALSE]
    /\ UNCHANGED <<tool, file, led, wrote, settled, trouble, runs, edits>>

(* os.replace of the edited copy, whatever the file has become since.       *)
Write(p) ==
    /\ At(p, "write")
    /\ LET out == cmd[p].out IN
       /\ file' = [ok |-> TRUE, A |-> out.A, M |-> out.M]
       /\ wrote' = [A |-> wrote.A \cup {n \in Names : out.A[n] = "ours"},
                    M |-> wrote.M \cup {n \in Names : out.M[n] = "ours"}]
       /\ cmd' = [q \in Procs |-> IF q = p THEN [cmd[p] EXCEPT !.at = "save", !.out = Idle.out]
                                  ELSE [cmd[q] EXCEPT !.stale = ~At(q, "idle")]]
    /\ settled' = NoJob
    /\ UNCHANGED <<tool, led, trouble, runs, edits>>

(* The write raises: a sync ends in an error row and saves nothing, a scene *)
(* saves what it loaded and is over.                                        *)
WriteRaises(p) ==
    /\ At(p, "write")
    /\ cmd' = [cmd EXCEPT ![p].at = IF cmd[p].job.kind = "sync" THEN "next" ELSE "save",
                          ![p].new = cmd[p].own, ![p].error = TRUE, ![p].out = Idle.out,
                          ![p].then = NoJob]
    /\ UNCHANGED <<tool, file, led, wrote, settled, trouble, runs, edits>>

Save(p) ==
    /\ At(p, "save")
    /\ led' = cmd[p].new
    /\ cmd' = [cmd EXCEPT ![p].at = "next"]
    /\ settled' = IF cmd[p].error \/ cmd[p].stale \/ ~Alone(p) THEN NoJob ELSE cmd[p].job
    /\ UNCHANGED <<tool, file, wrote, trouble, runs, edits>>

(* run_sync logs an OSError of the save; apply_scene and clear_scene raise. *)
SaveRaises(p) ==
    /\ At(p, "save")
    /\ led # cmd[p].new
    /\ cmd' = [cmd EXCEPT ![p].at = "next", ![p].then = NoJob]
    /\ trouble' = trouble \cup {"save"}
    /\ settled' = NoJob
    /\ UNCHANGED <<tool, file, led, wrote, runs, edits>>

NextJob(p) ==
    /\ At(p, "next")
    /\ cmd' = [cmd EXCEPT ![p] = IF cmd[p].then = NoJob THEN Idle
                                 ELSE [Idle EXCEPT !.at = "load", !.job = cmd[p].then]]
    /\ UNCHANGED <<tool, file, led, wrote, settled, trouble, runs, edits>>

Crash(p) ==
    /\ cmd[p].at \in {"write", "save"}
    /\ cmd' = [cmd EXCEPT ![p] = Idle]
    /\ trouble' = trouble \cup {"crash"}
    /\ settled' = NoJob
    /\ UNCHANGED <<tool, file, led, wrote, runs, edits>>

-----------------------------------------------------------------------------
(* The user adds or removes an entry, breaks the file or repairs it.        *)

Edited(f) ==
    /\ edits < MaxEdits
    /\ file' = f
    /\ edits' = edits + 1
    /\ cmd' = [p \in Procs |-> [cmd[p] EXCEPT !.stale = ~At(p, "idle")]]
    /\ settled' = NoJob
    /\ UNCHANGED <<tool, led, wrote, trouble, runs>>

UserEditsA(n) ==
    /\ file.ok
    /\ IF file.A[n] = "none" THEN Edited([file EXCEPT !.A[n] = "users"])
       ELSE Edited([file EXCEPT !.A[n] = "none", !.M[n] = IF Servers THEN "none" ELSE @])

UserEditsM(n) ==
    /\ file.ok
    /\ Servers => file.A[n] # "none"
    /\ IF file.M[n] = "none"
       THEN \E v \in {"users"} \cup (IF tool = "claude" THEN {"other"} ELSE {}) :
              Edited([file EXCEPT !.M[n] = v])
       ELSE Edited([file EXCEPT !.M[n] = "none"])

UserBreaks == file.ok /\ tool \in Fragile /\ Edited([file EXCEPT !.ok = FALSE])
UserRepairs == ~file.ok /\ Edited([file EXCEPT !.ok = TRUE])

(* Nobody calls crossby.                                                    *)
Resting == (\A p \in Procs : At(p, "idle")) /\ UNCHANGED vars

Command(p) == Start(p) \/ Load(p) \/ Read(p) \/ Write(p) \/ WriteRaises(p)
                \/ Save(p) \/ SaveRaises(p) \/ NextJob(p) \/ Crash(p)
User == (\E n \in Names : UserEditsA(n) \/ UserEditsM(n)) \/ UserBreaks \/ UserRepairs

Next == (\E p \in Procs : Command(p)) \/ User \/ Resting

Spec == Init /\ [][Next]_vars

-----------------------------------------------------------------------------

(* Every variable has its type.                                             *)
TypeOK ==
    /\ tool \in Tools
    /\ file \in [ok : BOOLEAN, A : Section, M : Flags]
    /\ led \in Own /\ wrote \in Own
    /\ cmd \in [Procs -> [at : {"idle", "load", "read", "write", "save", "next"},
                          job : Job, then : Job, own : Own, new : Own,
                          out : [A : Section, M : Flags], error : BOOLEAN, stale : BOOLEAN]]
    /\ settled \in Job
    /\ trouble \subseteq {"crash", "save", "overlap"}
    /\ runs \in 0..MaxRuns /\ edits \in 0..MaxEdits

(* The ledger never claims what crossby did not write: whatever dies, fails *)
(* or overlaps (two processes save the whole ledger and the last one wins), *)
(* an entry that only ever was the user's is in nobody's ownership, so that *)
(* no later sync or clear removes it.                                       *)
ClaimsOnlyOwn ==
    /\ led.A \subseteq wrote.A /\ led.M \subseteq wrote.M

(* Without a crash, a failed save or an overlap, every entry crossby wrote  *)
(* and the user has not replaced is in the ledger once the command is over, *)
(* so that it can still be revoked, whatever the user did to the file.      *)
EveryEntryOwned ==
    trouble = {} /\ (\A p \in Procs : At(p, "idle")) =>
        \A n \in Names : /\ file.A[n] = "ours" => n \in led.A
                         /\ file.M[n] = "ours" => n \in led.M

(* crossby removes an entry of the user only if it once wrote one of that   *)
(* name (and the user took it over), or if the user added it after crossby  *)
(* had read the file; a flag may also go with its server.                   *)
UserEntriesSurvive ==
    [][\A p \in Procs : At(p, "write") /\ cmd'[p].at = "save" /\ file' # file /\ ~cmd[p].stale =>
         \A n \in Names :
           /\ file.A[n] = "users" /\ file'.A[n] # "users" => n \in wrote.A
           /\ file.M[n] \in {"users", "other"} /\ file'.M[n] # file.M[n] =>
                n \in wrote.M \/ file'.A[n] = "none"]_vars

(* A job run a second time has nothing to write and owns what it owned.     *)
SecondRunIsIdle ==
    [][\A p \in Procs : At(p, "read") /\ ~At(p, "read")' /\ file.ok
                        /\ settled = cmd[p].job /\ cmd[p].own = led =>
         cmd'[p].at = "save" /\ cmd'[p].new = led]_vars

(* A clear that ended without an error leaves nothing that a scene wrote    *)
(* switched off, if nothing went wrong before.                              *)
ClearReverts ==
    [][\A p \in Procs : At(p, "save") /\ At(p, "next")' /\ trouble' = {} /\ ~cmd[p].stale
                        /\ file.ok /\ ~cmd[p].error
                        /\ cmd[p].job.kind = "declare" /\ cmd[p].job.want = {} =>
         \A n \in Names : file.M[n] # "ours"]_vars

(* sync/__init__.py:486 says of the ledger's save: "A dropped save simply   *)
(* retries next run."  So a sync that ends well owns what it once wrote,    *)
(* also when the save of an earlier one was dropped.                        *)
DroppedSaveIsRetried ==
    trouble \subseteq {"save"} /\ settled.kind = "sync" =>
        \A n \in settled.want : file.A[n] = "ours" => n \in led.A
=============================================================================
