------------------------- MODULE OwnedEntriesProofs -------------------------
(* Whom the entries of a settings file belong to, for any number of names,  *)
(* processes, commands and edits: the ledger claims no more than crossby    *)
(* wrote and no less, the user's entries stay, and a second run is idle.    *)
EXTENDS OwnedEntries, TLAPS

Within(o, w) == o.A \subseteq w.A /\ o.M \subseteq w.M

(* What a process that is about to write will own beyond what crossby wrote *)
(* before is in the copy it writes.                                         *)
Pending(c) ==
    /\ c.new.A \subseteq wrote.A \cup {n \in Names : c.out.A[n] = "ours"}
    /\ c.new.M \subseteq wrote.M \cup {n \in Names : c.out.M[n] = "ours"}

HeldIsOwn(c) ==
    /\ c.at \in {"read", "write"} => Within(c.own, wrote)
    /\ c.at = "write" => Pending(c)
    /\ c.at = "save" => Within(c.new, wrote)

IInv == TypeOK /\ Within(led, wrote) /\ \A p \in Procs : HeldIsOwn(cmd[p])

Cmds == [at : {"idle", "load", "read", "write", "save", "next"},
         job : Job, then : Job, own : Own, new : Own,
         out : [A : Section, M : Flags], error : BOOLEAN, stale : BOOLEAN]

(* An edit has the types of the sections and of an ownership.               *)
Edits == [A : Section, M : Flags, new : Own, writes : BOOLEAN, error : BOOLEAN]

(* Every command but an idle one may be told that the file changed.         *)
LEMMA StaleTyped == \A x \in Cmds, b \in BOOLEAN : [x EXCEPT !.stale = b] \in Cmds
  BY DEF Cmds

LEMMA IdleType == Idle \in Cmds
  BY DEF Idle, Cmds, Own, Nothing, Section, Flags, Job, NoJob

(* What an edit adds to the ownership it writes, and a job that writes      *)
(* nothing adds nothing.                                                    *)
Honest(e, own) ==
    /\ e.new.A \subseteq own.A \cup {n \in Names : e.A[n] = "ours"}
    /\ e.new.M \subseteq own.M \cup {n \in Names : e.M[n] = "ours"}
    /\ ~e.writes => e.new.A \subseteq own.A /\ e.new.M \subseteq own.M

LEMMA PutFlags ==
  ASSUME NEW s \in Flags, NEW created \in SUBSET Names, NEW removed
  PROVE  /\ Put(s, created, removed) \in Flags
         /\ \A n \in created : Put(s, created, removed)[n] = "ours"
  BY DEF Put, Flags

LEMMA PutSection ==
  ASSUME NEW s \in Section, NEW created \in SUBSET Names, NEW removed
  PROVE  /\ Put(s, created, removed) \in Section
         /\ \A n \in created : Put(s, created, removed)[n] = "ours"
  BY DEF Put, Section

LEMMA SyncEditFacts ==
  ASSUME NEW f \in [ok : BOOLEAN, A : Section, M : Flags], NEW own \in Own, NEW job \in Job
  PROVE  SyncEdit(f, own, job) \in Edits /\ Honest(SyncEdit(f, own, job), own)
<1> DEFINE created == job.want \ In(f.A)
           removed == Revoked(own, job)
<1>1. created \in SUBSET Names /\ f.A \in Section /\ f.M \in Flags
  BY DEF Job
<1>2. /\ Put(f.A, created, removed) \in Section
      /\ \A n \in created : Put(f.A, created, removed)[n] = "ours"
  BY <1>1, PutSection
<1>3. Put(f.M, {}, removed) \in Flags
  BY <1>1, PutFlags
<1>4. AllowEdit(f, own, job) \in Edits /\ Honest(AllowEdit(f, own, job), own)
  BY <1>1, <1>2 DEF AllowEdit, Edits, Own, Honest
<1>5. ServersEdit(f, own, job) \in Edits /\ Honest(ServersEdit(f, own, job), own)
  BY <1>1, <1>2, <1>3 DEF ServersEdit, Edits, Own, Honest
<1> QED BY <1>4, <1>5 DEF SyncEdit

(* What is added to M is new in the ownership, and nothing else is.         *)
LEMMA SwitchedFacts ==
  ASSUME NEW f \in [ok : BOOLEAN, A : Section, M : Flags], NEW own \in Own,
         NEW adds \in SUBSET Names, NEW gone, NEW owned \in SUBSET Names,
         NEW writes \in BOOLEAN, NEW error \in BOOLEAN,
         owned \subseteq own.M \cup adds, adds # {} => writes
  PROVE  /\ Switched(f, own, adds, gone, owned, writes, error) \in Edits
         /\ Honest(Switched(f, own, adds, gone, owned, writes, error), own)
<1>1. /\ Put(f.M, adds, gone) \in Flags
      /\ \A n \in adds : Put(f.M, adds, gone)[n] = "ours"
  BY PutFlags
<1> DEFINE e == Switched(f, own, adds, gone, owned, writes, error)
<1>2. e \in Edits
  BY <1>1 DEF Switched, Edits, Own
<1>3. e.A = f.A /\ e.M = Put(f.M, adds, gone) /\ e.writes = writes
  BY DEF Switched
<1>4. e.new.A = own.A /\ e.new.M = owned
  BY DEF Switched, Own
<1> HIDE DEF e
<1>5. Honest(e, own)
  BY <1>1, <1>3, <1>4 DEF Honest
<1> QED BY <1>2, <1>5 DEF e

LEMMA DeclareEditFacts ==
  ASSUME NEW f \in [ok : BOOLEAN, A : Section, M : Flags], NEW own \in Own,
         NEW job \in Job, NEW failed \in SUBSET Names, tool \in Tools
  PROVE  DeclareEdit(f, own, job, failed) \in Edits /\ Honest(DeclareEdit(f, own, job, failed), own)
<1> USE DEF Diff, Own, Job
<1>1. OverridesEdit(f, own, job) \in Edits /\ Honest(OverridesEdit(f, own, job), own)
  <2> DEFINE d == Diff(own.M, job.want, Off(f))
             adds == IF job.old THEN {} ELSE {n \in d.add : f.M[n] # "other"}
             gone == d.remove \cap Off(f)
             owned == (own.M \cap job.want) \cup adds
             writes == adds \cup d.remove # {}
  <2>1. adds \in SUBSET Names /\ owned \in SUBSET Names
    OBVIOUS
  <2>2. (adds # {} => writes) /\ writes \in BOOLEAN
    OBVIOUS
  <2>3. owned \subseteq own.M \cup adds
    OBVIOUS
  <2>4. OverridesEdit(f, own, job) = Switched(f, own, adds, gone, owned, writes, FALSE)
    BY DEF OverridesEdit
  <2> HIDE DEF adds, gone, owned, writes
  <2> DEFINE e == Switched(f, own, adds, gone, owned, writes, FALSE)
  <2>5. e \in Edits /\ Honest(e, own)
    BY <2>1, <2>2, <2>3, SwitchedFacts, Zenon DEF Own
  <2> QED BY <2>4, <2>5, Zenon
<1>2. ListEdit(f, own, job) \in Edits /\ Honest(ListEdit(f, own, job), own)
  BY SwitchedFacts DEF ListEdit
<1>3. FlagEdit(f, own, job) \in Edits /\ Honest(FlagEdit(f, own, job), own)
  BY SwitchedFacts DEF FlagEdit
<1>4. CodexEdit(f, own, job, failed) \in Edits /\ Honest(CodexEdit(f, own, job, failed), own)
  <2> DEFINE target == job.want \cap In(f.A)
             d == Diff(own.M, target, Off(f))
             adds == d.add \ failed
             gone == (d.remove \cap Off(f)) \ failed
             kept == (own.M \cap target \cap Off(f)) \cup (d.remove \cap Off(f) \cap failed)
             error == failed \cap (d.add \cup (d.remove \cap Off(f))) # {}
  <2>1. d.remove \subseteq own.M /\ adds \in SUBSET Names
    OBVIOUS
  <2>2. kept \cup adds \in SUBSET Names /\ kept \cup adds \subseteq own.M \cup adds
    BY <2>1
  <2>3. error \in BOOLEAN /\ (adds \cup gone # {}) \in BOOLEAN
        /\ (adds # {} => adds \cup gone # {})
    OBVIOUS
  <2>4. CodexEdit(f, own, job, failed)
          = Switched(f, own, adds, gone, kept \cup adds, adds \cup gone # {}, error)
    BY DEF CodexEdit
  <2> HIDE DEF target, d, adds, gone, kept, error, Diff, Own, Job
  <2>5. /\ Switched(f, own, adds, gone, kept \cup adds, adds \cup gone # {}, error) \in Edits
        /\ Honest(Switched(f, own, adds, gone, kept \cup adds, adds \cup gone # {}, error), own)
    BY <2>1, <2>2, <2>3, SwitchedFacts
  <2> QED BY <2>4, <2>5
<1>5. tool \in {"claude", "deny", "codex", "agy"}
  BY OwnedEntriesAssumption
<1> QED BY <1>1, <1>2, <1>3, <1>4, <1>5 DEF DeclareEdit

LEMMA MalformedFacts ==
  ASSUME TypeOK, NEW own \in Own, NEW job \in Job
  PROVE  Malformed(own, job) \in Edits /\ Honest(Malformed(own, job), own)
<1>1. Malformed(own, job) \in Edits
  <2>1. file.A \in Section /\ file.M \in Flags
    BY DEF TypeOK
  <2>2. job.want \in SUBSET Names /\ own.A \in SUBSET Names /\ own.M \in SUBSET Names
    BY DEF Job, Own
  <2> QED BY <2>1, <2>2 DEF Malformed, Edits, Own
<1>2. Honest(Malformed(own, job), own)
  BY DEF Malformed, Own, Job, Honest
<1> QED BY <1>1, <1>2

LEMMA EditFacts ==
  ASSUME TypeOK, NEW p \in Procs, NEW failed \in SUBSET Names
  PROVE  Edit(p, failed) \in Edits /\ Honest(Edit(p, failed), cmd[p].own)
<1> DEFINE job == cmd[p].job
<1>1. job \in Job /\ cmd[p].own \in Own /\ file \in [ok : BOOLEAN, A : Section, M : Flags]
      /\ tool \in Tools
  BY DEF TypeOK
<1> HIDE DEF job
<1>2. CASE ~file.ok
  <2>1. Edit(p, failed) = Malformed(cmd[p].own, job)
    BY <1>2 DEF Edit, job
  <2> QED BY <1>1, <2>1, MalformedFacts
<1>3. CASE file.ok /\ job.kind = "sync"
  <2>1. Edit(p, failed) = SyncEdit(file, cmd[p].own, job)
    BY <1>3 DEF Edit, job
  <2> QED BY <1>1, <2>1, SyncEditFacts
<1>4. CASE file.ok /\ job.kind # "sync"
  <2>1. Edit(p, failed) = DeclareEdit(file, cmd[p].own, job, failed)
    BY <1>4 DEF Edit, job
  <2> QED BY <1>1, <2>1, DeclareEditFacts
<1> QED BY <1>2, <1>3, <1>4

-----------------------------------------------------------------------------

LEMMA InitIInv == Init => IInv
<1> SUFFICES ASSUME Init PROVE IInv
  OBVIOUS
<1>1. TypeOK
  BY IdleType, OwnedEntriesAssumption
     DEF Init, TypeOK, Own, Nothing, Section, Flags, Job, NoJob, Cmds
<1>2. \A p \in Procs : HeldIsOwn(cmd[p])
  BY DEF Init, HeldIsOwn, Idle
<1> QED BY <1>1, <1>2 DEF IInv, Init, Within, Nothing

(* The ghost only grows, and what a process holds stays covered.            *)
LEMMA HeldGrows ==
  ASSUME NEW c, HeldIsOwn(c), wrote.A \subseteq wrote'.A, wrote.M \subseteq wrote'.M
  PROVE  HeldIsOwn(c)'
  BY DEF HeldIsOwn, Within, Pending

LEMMA NoJobType == NoJob \in Job
  BY DEF NoJob, Job

LEMMA JobsTyped == Syncs \cup Declares \cup Narrowings \subseteq Job
<1>1. \A w \in SUBSET Names, g \in SUBSET Names : SyncJob(w, g) \in Job
  BY DEF SyncJob, Job
<1>2. \A w \in SUBSET Names, o \in BOOLEAN : DeclareJob(w, o) \in Job
  BY DEF DeclareJob, Job
<1>3. Syncs \subseteq Job
  BY <1>1 DEF Syncs
<1>4. Declares \subseteq Job
  BY <1>2 DEF Declares
<1>5. Narrowings \subseteq Job
  BY <1>1, NoJobType DEF Narrowings
<1> QED BY <1>3, <1>4, <1>5

(* A process whose command is replaced by one of the right type.            *)
LEMMA CmdTyped ==
  ASSUME TypeOK, NEW p \in Procs, NEW c \in Cmds, cmd' = [cmd EXCEPT ![p] = c]
  PROVE  cmd' \in [Procs -> Cmds] /\ cmd'[p] = c
                /\ \A q \in Procs \ {p} : cmd'[q] = cmd[q]
  BY DEF TypeOK, Cmds

LEMMA StartStep ==
  ASSUME IInv, NEW p \in Procs, Start(p)
  PROVE  IInv'
<1>1. PICK job \in Syncs \cup Declares, then \in Narrowings :
        cmd' = [cmd EXCEPT ![p] = [Idle EXCEPT !.at = "load", !.job = job, !.then = then]]
  BY DEF Start
<1> DEFINE c == [Idle EXCEPT !.at = "load", !.job = job, !.then = then]
<1>2. c \in Cmds /\ c.at = "load"
  BY JobsTyped, IdleType DEF Cmds, Idle
<1> HIDE DEF c
<1>3. cmd' \in [Procs -> Cmds]
  BY <1>1, <1>2 DEF IInv, TypeOK, Cmds, c
<1>4. TypeOK'
  BY <1>3, OwnedEntriesAssumption DEF IInv, TypeOK, Cmds, Start, Alone
<1>5. \A q \in Procs : HeldIsOwn(cmd[q])'
  BY <1>1, <1>2, HeldGrows DEF IInv, TypeOK, Start, HeldIsOwn, Within, Pending, c
<1> QED BY <1>4, <1>5 DEF IInv, Start, Within

LEMMA LoadStep ==
  ASSUME IInv, NEW p \in Procs, Load(p)
  PROVE  IInv'
<1>1. [cmd[p] EXCEPT !.at = "read", !.own = led] \in Cmds
  <2>1. cmd[p] \in Cmds /\ led \in Own
    BY DEF IInv, TypeOK, Cmds
  <2> QED BY <2>1 DEF Cmds
<1>2. cmd' = [cmd EXCEPT ![p] = [cmd[p] EXCEPT !.at = "read", !.own = led]]
  BY DEF Load
<1>3. TypeOK'
  BY <1>1, <1>2, CmdTyped DEF IInv, TypeOK, Cmds, Load
<1>4. \A q \in Procs : HeldIsOwn(cmd[q])'
  BY DEF IInv, TypeOK, Load, HeldIsOwn, Within, Pending
<1> QED BY <1>3, <1>4 DEF IInv, Load, Within

LEMMA ReadStep ==
  ASSUME IInv, NEW p \in Procs, Read(p)
  PROVE  IInv'
<1>1. PICK failed \in SUBSET Names :
        cmd' = [cmd EXCEPT ![p].at = AfterRead(Edit(p, failed), cmd[p].job.kind),
                           ![p].out = IF Edit(p, failed).writes
                                      THEN [A |-> Edit(p, failed).A,
                                            M |-> Edit(p, failed).M]
                                      ELSE @,
                           ![p].new = Edit(p, failed).new,
                           ![p].error = Edit(p, failed).error, ![p].stale = FALSE]
  BY DEF Read
<1> DEFINE e == Edit(p, failed)
<1>2. e \in Edits /\ Honest(e, cmd[p].own)
  BY EditFacts DEF IInv
<1> HIDE DEF e
<1>3. UNCHANGED <<tool, file, led, wrote, settled, trouble, runs, edits>>
  BY DEF Read
<1> DEFINE c == [cmd[p] EXCEPT !.at = AfterRead(e, cmd[p].job.kind),
                               !.out = IF e.writes THEN [A |-> e.A, M |-> e.M] ELSE @,
                               !.new = e.new, !.error = e.error, !.stale = FALSE]
<1>a. c \in Cmds
  <2>1. AfterRead(e, cmd[p].job.kind) \in {"write", "next", "save"}
    BY DEF AfterRead
  <2>2. e.new \in Own /\ e.error \in BOOLEAN
    BY <1>2 DEF Edits
  <2>3. (IF e.writes THEN [A |-> e.A, M |-> e.M] ELSE cmd[p].out) \in [A : Section, M : Flags]
    BY <1>2 DEF IInv, TypeOK, Edits
  <2>4. cmd[p] \in Cmds
    BY DEF IInv, TypeOK, Cmds
  <2> QED BY <2>1, <2>2, <2>3, <2>4 DEF Cmds
<1>b. cmd' = [cmd EXCEPT ![p] = c]
  BY <1>1 DEF e
<1> HIDE DEF c
<1>4. TypeOK'
  BY <1>a, <1>b, <1>3, CmdTyped DEF IInv, TypeOK, Cmds
<1>5. \A q \in Procs \ {p} : HeldIsOwn(cmd[q])'
  <2> SUFFICES ASSUME NEW q \in Procs \ {p} PROVE HeldIsOwn(cmd[q])'
    OBVIOUS
  <2>1. cmd'[q] = cmd[q]
    BY <1>a, <1>b, CmdTyped DEF IInv
  <2> QED BY <1>3, <2>1 DEF IInv, HeldIsOwn, Within, Pending
<1>6. HeldIsOwn(cmd[p])'
  <2>1. Within(cmd[p].own, wrote)
    BY DEF IInv, HeldIsOwn, Read, At
  <2>2. /\ cmd'[p].own = cmd[p].own /\ cmd'[p].new = e.new
        /\ cmd'[p].at = AfterRead(e, cmd[p].job.kind)
        /\ e.writes => cmd'[p].out = [A |-> e.A, M |-> e.M]
    BY <1>1 DEF IInv, TypeOK, e
  <2>3. CASE e.writes
    BY <1>2, <1>3, <2>1, <2>2, <2>3 DEF HeldIsOwn, Within, Pending, Honest, AfterRead
  <2>4. CASE ~e.writes
    BY <1>2, <1>3, <2>1, <2>2, <2>4 DEF HeldIsOwn, Within, Pending, Honest, AfterRead
  <2> QED BY <2>3, <2>4
<1> QED BY <1>3, <1>4, <1>5, <1>6 DEF IInv, Within

LEMMA WriteStep ==
  ASSUME IInv, NEW p \in Procs, Write(p)
  PROVE  IInv'
<1>1. TypeOK'
  <2>1. Idle.out \in [A : Section, M : Flags]
    BY IdleType DEF Cmds
  <2>0. \A q \in Procs : cmd[q] \in Cmds
    BY DEF IInv, TypeOK, Cmds
  <2>s. \A q \in Procs : [cmd[q] EXCEPT !.stale = ~At(q, "idle")] \in Cmds
    BY <2>0, StaleTyped DEF At
  <2>2. \A q \in Procs : [cmd[q] EXCEPT !.at = "save", !.out = Idle.out] \in Cmds
    <3> DEFINE none == Idle.out
    <3>1. none \in [A : Section, M : Flags]
      BY <2>1
    <3> HIDE DEF none
    <3>2. \A q \in Procs : [cmd[q] EXCEPT !.at = "save", !.out = none] \in Cmds
      BY <2>0, <3>1 DEF Cmds
    <3> QED BY <3>2 DEF none
  <2>3. cmd' \in [Procs -> Cmds]
    BY <2>s, <2>2 DEF Write
  <2>4. cmd[p].out \in [A : Section, M : Flags]
    BY DEF IInv, TypeOK
  <2>5. file' \in [ok : BOOLEAN, A : Section, M : Flags] /\ wrote' \in Own
    BY <2>4 DEF IInv, TypeOK, Write, Own
  <2> QED BY <2>3, <2>5, NoJobType DEF IInv, TypeOK, Write, Cmds
<1>2. wrote.A \subseteq wrote'.A /\ wrote.M \subseteq wrote'.M
  BY DEF Write
<1>3. \A q \in Procs \ {p} : HeldIsOwn(cmd[q])'
  <2> SUFFICES ASSUME NEW q \in Procs \ {p} PROVE HeldIsOwn(cmd[q])'
    OBVIOUS
  <2>1. cmd'[q] = [cmd[q] EXCEPT !.stale = ~At(q, "idle")]
    BY DEF Write
  <2> QED BY <1>2, <2>1 DEF IInv, TypeOK, HeldIsOwn, Within, Pending
<1>4. HeldIsOwn(cmd[p])'
  <2>1. cmd'[p].at = "save" /\ cmd'[p].new = cmd[p].new
    BY DEF Write, IInv, TypeOK
  <2>2. Pending(cmd[p])
    BY DEF Write, IInv, HeldIsOwn, At
  <2>3. Within(cmd[p].new, wrote')
    BY <2>2 DEF Within, Pending, Write
  <2> QED BY <2>1, <2>3 DEF HeldIsOwn
<1> QED BY <1>1, <1>2, <1>3, <1>4 DEF IInv, Write, Within

LEMMA WriteRaisesStep ==
  ASSUME IInv, NEW p \in Procs, WriteRaises(p)
  PROVE  IInv'
<1> DEFINE c == [cmd[p] EXCEPT !.at = IF cmd[p].job.kind = "sync" THEN "next" ELSE "save",
                               !.new = cmd[p].own, !.error = TRUE, !.out = Idle.out,
                               !.then = NoJob]
<1>a. c \in Cmds
  <2>1. Idle.out \in [A : Section, M : Flags]
    BY IdleType DEF Cmds
  <2>2. cmd[p] \in Cmds
    BY DEF IInv, TypeOK, Cmds
  <2> QED BY <2>1, <2>2, NoJobType DEF Cmds
<1>b. cmd' = [cmd EXCEPT ![p] = c]
  BY DEF WriteRaises
<1> HIDE DEF c
<1>1. TypeOK'
  BY <1>a, <1>b, CmdTyped DEF IInv, TypeOK, WriteRaises, Cmds
<1>2. \A q \in Procs \ {p} : HeldIsOwn(cmd[q])'
  <2> SUFFICES ASSUME NEW q \in Procs \ {p} PROVE HeldIsOwn(cmd[q])'
    OBVIOUS
  <2>1. cmd'[q] = cmd[q]
    BY <1>a, <1>b, CmdTyped DEF IInv
  <2>2. HeldIsOwn(cmd[q])
    BY DEF IInv
  <2>3. UNCHANGED wrote
    BY Zenon DEF WriteRaises
  <2> QED BY <2>1, <2>2, <2>3, Zenon DEF HeldIsOwn, Within, Pending
<1>3. HeldIsOwn(cmd[p])'
  <2>1. cmd'[p].at \in {"next", "save"} /\ cmd'[p].new = cmd[p].own
    BY <1>a, <1>b, CmdTyped DEF IInv, TypeOK, c
  <2>2. Within(cmd[p].own, wrote)
    BY DEF IInv, HeldIsOwn, WriteRaises, At
  <2> QED BY <2>1, <2>2 DEF HeldIsOwn, WriteRaises, Within
<1> QED BY <1>1, <1>2, <1>3 DEF IInv, WriteRaises, Within

LEMMA SaveStep ==
  ASSUME IInv, NEW p \in Procs, Save(p)
  PROVE  IInv'
<1>1. TypeOK'
  BY NoJobType DEF IInv, TypeOK, Save
<1>2. \A q \in Procs : HeldIsOwn(cmd[q])'
  BY DEF IInv, TypeOK, Save, HeldIsOwn, Within, Pending
<1>3. Within(led, wrote)'
  BY DEF IInv, Save, At, HeldIsOwn, Within
<1> QED BY <1>1, <1>2, <1>3 DEF IInv

LEMMA SaveRaisesStep ==
  ASSUME IInv, NEW p \in Procs, SaveRaises(p)
  PROVE  IInv'
<1>1. TypeOK'
  <2> DEFINE c == [cmd[p] EXCEPT !.at = "next", !.then = NoJob]
  <2>1. c \in Cmds /\ cmd' = [cmd EXCEPT ![p] = c]
    BY NoJobType DEF IInv, TypeOK, SaveRaises, Cmds
  <2> HIDE DEF c
  <2> QED BY <2>1, CmdTyped, NoJobType DEF IInv, TypeOK, SaveRaises, Cmds
<1>2. \A q \in Procs : HeldIsOwn(cmd[q])'
  BY DEF IInv, TypeOK, SaveRaises, HeldIsOwn, Within, Pending
<1> QED BY <1>1, <1>2 DEF IInv, SaveRaises, Within

LEMMA NextJobStep ==
  ASSUME IInv, NEW p \in Procs, NextJob(p)
  PROVE  IInv'
<1> DEFINE c == IF cmd[p].then = NoJob THEN Idle
                ELSE [Idle EXCEPT !.at = "load", !.job = cmd[p].then]
<1>1. c \in Cmds /\ c.at \in {"idle", "load"}
  BY IdleType DEF IInv, TypeOK, Cmds, Idle
<1>2. cmd' = [cmd EXCEPT ![p] = c]
  BY DEF NextJob
<1> HIDE DEF c
<1>3. TypeOK'
  BY <1>1, <1>2, CmdTyped DEF IInv, TypeOK, NextJob, Cmds
<1>4. \A q \in Procs : HeldIsOwn(cmd[q])'
  BY <1>1, <1>2 DEF IInv, TypeOK, NextJob, HeldIsOwn, Within, Pending
<1> QED BY <1>3, <1>4 DEF IInv, NextJob, Within

LEMMA CrashStep ==
  ASSUME IInv, NEW p \in Procs, Crash(p)
  PROVE  IInv'
<1>1. cmd' = [cmd EXCEPT ![p] = Idle] /\ Idle.at = "idle"
  BY DEF Crash, Idle
<1>2. TypeOK'
  BY <1>1, IdleType, CmdTyped, NoJobType DEF IInv, TypeOK, Crash, Cmds
<1>3. \A q \in Procs : HeldIsOwn(cmd[q])'
  BY <1>1 DEF IInv, TypeOK, Crash, HeldIsOwn, Within, Pending
<1> QED BY <1>2, <1>3 DEF IInv, Crash, Within

(* Whatever the user does to the file, what the processes hold is as it was *)
(* but for the note that it is stale.                                       *)
LEMMA UserStep ==
  ASSUME IInv, User
  PROVE  IInv'
<1>1. PICK f : f \in [ok : BOOLEAN, A : Section, M : Flags] /\ Edited(f)
  <2>1. CASE \E n \in Names : UserEditsA(n)
    BY <2>1 DEF IInv, TypeOK, UserEditsA, Section, Flags
  <2>2. CASE \E n \in Names : UserEditsM(n)
    BY <2>2 DEF IInv, TypeOK, UserEditsM, Section, Flags
  <2>3. CASE UserBreaks \/ UserRepairs
    BY <2>3 DEF IInv, TypeOK, UserBreaks, UserRepairs
  <2> QED BY <2>1, <2>2, <2>3 DEF User
<1>2. TypeOK'
  <2>0. \A q \in Procs : cmd[q] \in Cmds
    BY DEF IInv, TypeOK, Cmds
  <2>1. \A q \in Procs : [cmd[q] EXCEPT !.stale = ~At(q, "idle")] \in Cmds
    BY <2>0, StaleTyped DEF At
  <2>2. cmd' \in [Procs -> Cmds]
    BY <1>1, <2>1 DEF Edited
  <2> QED BY <1>1, <2>2, NoJobType, OwnedEntriesAssumption DEF IInv, TypeOK, Edited, Cmds
<1>3. \A q \in Procs : HeldIsOwn(cmd[q])'
  BY <1>1 DEF IInv, TypeOK, Edited, HeldIsOwn, Within, Pending
<1> QED BY <1>1, <1>2, <1>3 DEF IInv, Edited, Within

LEMMA NextIInv == IInv /\ [Next]_vars => IInv'
<1> SUFFICES ASSUME IInv, [Next]_vars PROVE IInv'
  OBVIOUS
<1>1. CASE \E p \in Procs : Command(p)
  BY <1>1, StartStep, LoadStep, ReadStep, WriteStep, WriteRaisesStep, SaveStep,
     SaveRaisesStep, NextJobStep, CrashStep DEF Command
<1>2. CASE User
  BY <1>2, UserStep
<1>3. CASE UNCHANGED vars
  BY <1>3 DEF vars, IInv, TypeOK, HeldIsOwn, Within, Pending
<1> QED BY <1>1, <1>2, <1>3 DEF Next, Resting

-----------------------------------------------------------------------------

(* What every process holds of the ledger is covered by what crossby wrote  *)
(* or, while it is about to write, by the copy it is going to put in place. *)
THEOREM Inductive == Spec => []IInv
<1> QED BY InitIInv, NextIInv, PTL DEF Spec

(* Every variable of the entries model keeps its type.                      *)
THEOREM TypeCorrect == Spec => []TypeOK
<1>1. IInv => TypeOK
  BY DEF IInv
<1> QED BY <1>1, Inductive, PTL

(* However commands overlap, die and fail, owned.json never claims an entry *)
(* that crossby did not write.                                              *)
THEOREM LedgerClaimsOnlyOwn == Spec => []ClaimsOnlyOwn
<1>1. IInv => ClaimsOnlyOwn
  BY DEF IInv, Within, ClaimsOnlyOwn
<1> QED BY <1>1, Inductive, PTL
-----------------------------------------------------------------------------
(* What an edit leaves: the user's entries, the ownership of crossby's, and *)
(* a file the same job has nothing more to do to.                           *)

File == [ok : BOOLEAN, A : Section, M : Flags]

(* From the file f to its copy out only what crossby wrote, w, is replaced. *)
Spares(w, f, out) ==
    \A n \in Names :
      /\ f.A[n] = "users" /\ out.A[n] # "users" => n \in w.A
      /\ f.M[n] \in {"users", "other"} /\ out.M[n] # f.M[n] => n \in w.M \/ out.A[n] = "none"

Covers(own, f) ==
    \A n \in Names : (f.A[n] = "ours" => n \in own.A) /\ (f.M[n] = "ours" => n \in own.M)

(* Only claude's skillOverrides has values that are neither on nor off.     *)
OnOff(t, f) == t # "claude" => \A n \in Names : f.M[n] # "other"

(* The job has nothing to do to the file f of the tool t, and owns own.     *)
AtRest(t, f, own, job) ==
    LET servers == t \in {"codex", "agy"}
        target == IF servers THEN job.want \cap In(f.A) ELSE job.want
    IN  IF job.kind = "sync"
        THEN /\ job.want \subseteq In(f.A)
             /\ IF servers THEN own.A \cap job.gone = {} ELSE own.A \subseteq job.want
        ELSE /\ own.M \subseteq target
             /\ \A n \in target : \/ n \in Off(f)
                                  \/ t = "claude" /\ (job.old \/ f.M[n] = "other")
             /\ t = "codex" => own.M \subseteq Off(f)

EditOf(f, own, job, failed) ==
    IF job.kind = "sync" THEN SyncEdit(f, own, job) ELSE DeclareEdit(f, own, job, failed)

(* What is true of every edit e of f.                                       *)
Good(e, f, own, job) ==
    /\ \A n \in Names : e.M[n] = "other" => f.M[n] = "other"
    /\ OnOff(tool, f) => Spares(own, f, e)
    /\ Covers(own, f) => Covers(e.new, e) /\ (~e.writes => Covers(e.new, f))
    /\ ~e.error => AtRest(tool, e, e.new, job)
    /\ ~e.error /\ ~e.writes => AtRest(tool, f, e.new, job)

LEMMA PutValue ==
  ASSUME NEW s, NEW created, NEW removed
  PROVE  \A n \in Names : Put(s, created, removed)[n] =
            IF n \in created THEN "ours" ELSE IF n \in removed THEN "none" ELSE s[n]
  BY DEF Put

(* permissions.allow.                                                       *)
LEMMA AllowGood ==
  ASSUME NEW f \in File, NEW own \in Own, NEW job \in Job, job.kind = "sync", ~Servers
  PROVE  Good(AllowEdit(f, own, job), f, own, job)
<1> DEFINE e == AllowEdit(f, own, job)
           created == job.want \ In(f.A)
           removed == own.A \ job.want
<1>1. /\ e.A = Put(f.A, created, removed) /\ e.M = f.M /\ e.error = FALSE
      /\ e.new.A = (own.A \cap job.want) \cup created /\ e.new.M = own.M
      /\ e.writes <=> (created # {} \/ removed \cap In(f.A) # {})
  BY DEF AllowEdit, Revoked, Own
<1>2. /\ job.want \subseteq Names /\ own.A \subseteq Names
      /\ f.A \in Section /\ f.M \in Flags
  BY DEF Job, Own, File
<1>3. \A n \in Names : e.A[n] = IF n \in created THEN "ours"
                                ELSE IF n \in removed THEN "none" ELSE f.A[n]
  BY <1>1, PutValue
<1> HIDE DEF e
<1>4. Spares(own, f, e) BY <1>1, <1>2, <1>3 DEF Spares, In
<1>5. Covers(own, f) => Covers(e.new, e) /\ (~e.writes => Covers(e.new, f))
  BY <1>1, <1>2, <1>3 DEF Covers, In
<1>6. AtRest(tool, e, e.new, job) /\ (~e.writes => AtRest(tool, f, e.new, job))
  BY <1>1, <1>2, <1>3 DEF AtRest, Servers, In
<1> QED BY <1>1, <1>4, <1>5, <1>6 DEF Good, e

(* The server tables.                                                       *)
LEMMA ServersGood ==
  ASSUME NEW f \in File, NEW own \in Own, NEW job \in Job, job.kind = "sync", Servers,
         job.want \cap job.gone = {}
  PROVE  Good(ServersEdit(f, own, job), f, own, job)
<1> DEFINE e == ServersEdit(f, own, job)
           created == job.want \ In(f.A)
           removed == own.A \cap job.gone
<1>1. /\ e.A = Put(f.A, created, removed) /\ e.M = Put(f.M, {}, removed) /\ e.error = FALSE
      /\ e.new.A = (own.A \ removed) \cup created /\ e.new.M = own.M
      /\ e.writes <=> (created # {} \/ removed \cap In(f.A) # {})
  BY DEF ServersEdit, Revoked, Own
<1>2. /\ job.want \subseteq Names /\ own.A \subseteq Names
      /\ f.A \in Section /\ f.M \in Flags
  BY DEF Job, Own, File
<1>3. \A n \in Names : e.A[n] = IF n \in created THEN "ours"
                                ELSE IF n \in removed THEN "none" ELSE f.A[n]
  BY <1>1, PutValue
<1>4. \A n \in Names : e.M[n] = IF n \in removed THEN "none" ELSE f.M[n]
  BY <1>1, PutValue
<1> HIDE DEF e
<1>5. Spares(own, f, e) BY <1>1, <1>2, <1>3, <1>4 DEF Spares, In
<1>6. Covers(own, f) => Covers(e.new, e) /\ (~e.writes => Covers(e.new, f))
  BY <1>1, <1>2, <1>3, <1>4 DEF Covers, In
<1>7. AtRest(tool, e, e.new, job) /\ (~e.writes => AtRest(tool, f, e.new, job))
  BY <1>1, <1>2, <1>3 DEF AtRest, Servers, In
<1>8. \A n \in Names : e.M[n] = "other" => f.M[n] = "other" BY <1>4
<1> QED BY <1>1, <1>5, <1>6, <1>7, <1>8 DEF Good, e

(* A switch adds what is neither off nor the user's own value, takes out of  *)
(* what is owned, and owns what it adds and what it leaves.                 *)
Warranted(f, own, adds, gone, owned, writes) ==
    /\ adds \subseteq Names /\ gone \subseteq own.M /\ owned \subseteq Names
    /\ \A n \in adds : n \notin Off(f) /\ (tool = "claude" => f.M[n] # "other")
    /\ adds \subseteq owned /\ (own.M \cap Off(f)) \ gone \subseteq owned
    /\ writes \in BOOLEAN /\ (~writes => gone \cap Off(f) = {})

Switching(e, f, own, adds, gone, owned, writes, error) ==
    /\ \A n \in Names : e.M[n] = "other" => f.M[n] = "other"
    /\ OnOff(tool, f) => Spares(own, f, e)
    /\ Covers(own, f) => Covers(e.new, e) /\ (~e.writes => Covers(e.new, f))
    /\ e.A = f.A /\ e.new.M = owned /\ e.writes = writes /\ e.error = error
    /\ \A n \in Names : n \in Off(e) <=> (n \in adds \/ (n \in Off(f) /\ n \notin gone))
    /\ \A n \in Names \ adds : f.M[n] = "other" /\ n \notin gone => e.M[n] = "other"

(* What a switch leaves of the user's values and covers of its own.         *)
LEMMA SwitchedGood ==
  ASSUME NEW f \in File, NEW own \in Own, NEW adds, NEW gone, NEW owned, NEW writes, NEW error,
         Warranted(f, own, adds, gone, owned, writes)
  PROVE  Switching(Switched(f, own, adds, gone, owned, writes, error),
                   f, own, adds, gone, owned, writes, error)
<1> DEFINE e == Switched(f, own, adds, gone, owned, writes, error)
<1> USE DEF Warranted
<1>1. /\ e.A = f.A /\ e.M = Put(f.M, adds, gone) /\ e.error = error /\ e.writes = writes
      /\ e.new.A = own.A /\ e.new.M = owned
  BY DEF Switched, Own
<1>2. f.A \in Section /\ f.M \in Flags BY DEF File
<1>3. \A n \in Names : e.M[n] = IF n \in adds THEN "ours"
                                ELSE IF n \in gone THEN "none" ELSE f.M[n]
  BY <1>1, PutValue
<1> HIDE DEF e
<1>4. OnOff(tool, f) => Spares(own, f, e)
  BY <1>1, <1>2, <1>3 DEF Spares, OnOff, Off, Flags
<1>5. Covers(own, f) => Covers(e.new, e) /\ (~e.writes => Covers(e.new, f))
  BY <1>1, <1>2, <1>3 DEF Covers, Off
<1>6. \A n \in Names : n \in Off(e) <=> (n \in adds \/ (n \in Off(f) /\ n \notin gone))
  BY <1>3 DEF Off
<1>7. \A n \in Names : e.M[n] = "other" => f.M[n] = "other" BY <1>3
<1>8. \A n \in Names \ adds : f.M[n] = "other" /\ n \notin gone => e.M[n] = "other" BY <1>3
<1>9. Switching(e, f, own, adds, gone, owned, writes, error)
  BY <1>1, <1>4, <1>5, <1>6, <1>7, <1>8 DEF Switching
<1> QED BY <1>9 DEF e

LEMMA OverridesGood ==
  ASSUME NEW f \in File, NEW own \in Own, NEW job \in Job, job.kind # "sync", tool = "claude"
  PROVE  Good(OverridesEdit(f, own, job), f, own, job)
<1> DEFINE e == OverridesEdit(f, own, job)
           adds == IF job.old THEN {} ELSE {n \in job.want \ Off(f) : f.M[n] # "other"}
           remove == own.M \ job.want
           gone == remove \cap Off(f)
           owned == (own.M \cap job.want) \cup adds
           writes == adds \cup remove # {}
<1>1. e = Switched(f, own, adds, gone, owned, writes, FALSE)
  BY DEF OverridesEdit, Diff
<1>2. job.want \in SUBSET Names /\ own.M \in SUBSET Names /\ job.old \in BOOLEAN
  BY DEF Job, Own
<1>3. Warranted(f, own, adds, gone, owned, writes)
  BY <1>2 DEF Warranted
<1>4. /\ \A n \in job.want : n \in Off(f) \/ job.old \/ f.M[n] = "other" \/ n \in adds
      /\ owned \subseteq job.want /\ gone \cap job.want = {}
      /\ ~writes => adds = {}
  BY <1>2
<1> HIDE DEF e, adds, gone, owned, writes
<1>5. Switching(e, f, own, adds, gone, owned, writes, FALSE)
  BY <1>1, <1>3, SwitchedGood
<1>6. AtRest(tool, e, e.new, job) /\ (~e.writes => AtRest(tool, f, e.new, job))
  <2>1. /\ e.new.M \subseteq job.want
        /\ \A n \in job.want : n \in Off(e) \/ job.old \/ e.M[n] = "other"
    BY <1>2, <1>4, <1>5 DEF Switching
  <2>2. ~e.writes => \A n \in job.want : n \in Off(f) \/ job.old \/ f.M[n] = "other"
    BY <1>4, <1>5 DEF Switching
  <2> QED BY <2>1, <2>2 DEF AtRest
<1> QED BY <1>5, <1>6 DEF Good, Switching, e

LEMMA ListGood ==
  ASSUME NEW f \in File, NEW own \in Own, NEW job \in Job, job.kind # "sync", tool = "deny"
  PROVE  Good(ListEdit(f, own, job), f, own, job)
<1> DEFINE e == ListEdit(f, own, job)
           adds == job.want \ Off(f)
           gone == own.M \ job.want
           owned == (own.M \cap job.want) \cup adds
           writes == adds \cup gone # {}
<1>1. e = Switched(f, own, adds, gone, owned, writes, FALSE)
  BY DEF ListEdit, Diff
<1>2. job.want \in SUBSET Names /\ own.M \in SUBSET Names
  BY DEF Job, Own
<1>3. Warranted(f, own, adds, gone, owned, writes)
  BY <1>2 DEF Warranted
<1>4. /\ \A n \in job.want : n \in Off(f) \/ n \in adds
      /\ owned \subseteq job.want /\ gone \cap job.want = {}
      /\ ~writes => adds = {}
  BY <1>2
<1> HIDE DEF e, adds, gone, owned, writes
<1>5. Switching(e, f, own, adds, gone, owned, writes, FALSE)
  BY <1>1, <1>3, SwitchedGood
<1>6. AtRest(tool, e, e.new, job) /\ (~e.writes => AtRest(tool, f, e.new, job))
  <2>1. e.new.M \subseteq job.want /\ \A n \in job.want : n \in Off(e)
    BY <1>2, <1>4, <1>5 DEF Switching
  <2>2. ~e.writes => \A n \in job.want : n \in Off(f)
    BY <1>4, <1>5 DEF Switching
  <2> QED BY <2>1, <2>2 DEF AtRest
<1> QED BY <1>5, <1>6 DEF Good, Switching, e

LEMMA FlagGood ==
  ASSUME NEW f \in File, NEW own \in Own, NEW job \in Job, job.kind # "sync", tool = "agy"
  PROVE  Good(FlagEdit(f, own, job), f, own, job)
<1> DEFINE e == FlagEdit(f, own, job)
           target == job.want \cap In(f.A)
           adds == target \ Off(f)
           remove == own.M \ target
           gone == remove \cap Off(f)
           owned == (own.M \cap target) \cup adds
           writes == adds \cup remove # {}
<1>1. e = Switched(f, own, adds, gone, owned, writes, FALSE)
  BY DEF FlagEdit, Diff
<1>2. target \in SUBSET Names /\ own.M \in SUBSET Names
  BY DEF Job, Own
<1>3. Warranted(f, own, adds, gone, owned, writes)
  BY <1>2 DEF Warranted
<1>4. /\ \A n \in target : n \in Off(f) \/ n \in adds
      /\ owned \subseteq target /\ gone \cap target = {}
      /\ ~writes => adds = {}
  BY <1>2
<1> HIDE DEF e, adds, gone, owned, writes
<1>5. Switching(e, f, own, adds, gone, owned, writes, FALSE)
  BY <1>1, <1>3, SwitchedGood
<1>6. AtRest(tool, e, e.new, job) /\ (~e.writes => AtRest(tool, f, e.new, job))
  <2> HIDE DEF target
  <2>1. e.new.M \subseteq target /\ \A n \in target : n \in Off(e)
    BY <1>2, <1>4, <1>5 DEF Switching
  <2>2. ~e.writes => \A n \in target : n \in Off(f)
    BY <1>4, <1>5 DEF Switching
  <2> QED BY <1>5, <2>1, <2>2 DEF AtRest, Switching, target
<1> QED BY <1>5, <1>6 DEF Good, Switching, e

LEMMA CodexGood ==
  ASSUME NEW f \in File, NEW own \in Own, NEW job \in Job, job.kind # "sync", tool = "codex",
         NEW failed \in SUBSET Names
  PROVE  Good(CodexEdit(f, own, job, failed), f, own, job)
<1> DEFINE e == CodexEdit(f, own, job, failed)
           target == job.want \cap In(f.A)
           add == target \ Off(f)
           remove == (own.M \ target) \cap Off(f)
           adds == add \ failed
           gone == remove \ failed
           kept == (own.M \cap target \cap Off(f)) \cup (remove \cap failed)
           owned == kept \cup adds
           writes == adds \cup gone # {}
           error == failed \cap (add \cup remove) # {}
<1>1. e = Switched(f, own, adds, gone, owned, writes, error)
  BY DEF CodexEdit, Diff
<1>2. target \in SUBSET Names /\ own.M \in SUBSET Names
  BY DEF Job, Own
<1>3. Warranted(f, own, adds, gone, owned, writes)
  BY <1>2 DEF Warranted
<1>4. ~error => /\ \A n \in target : n \in Off(f) \/ n \in adds
                /\ owned \subseteq target /\ gone \cap target = {}
                /\ owned \subseteq Off(f) \cup adds
                /\ ~writes => adds = {}
  BY <1>2
<1> HIDE DEF e, adds, gone, owned, writes, error
<1>5. Switching(e, f, own, adds, gone, owned, writes, error)
  BY <1>1, <1>3, SwitchedGood
<1>6. ~e.error => AtRest(tool, e, e.new, job) /\ (~e.writes => AtRest(tool, f, e.new, job))
  <2> HIDE DEF target
  <2>1. ~e.error => /\ e.new.M \subseteq target /\ e.new.M \subseteq Off(e)
                    /\ \A n \in target : n \in Off(e)
    BY <1>2, <1>3, <1>4, <1>5 DEF Switching
  <2>2. ~e.error /\ ~e.writes => /\ \A n \in target : n \in Off(f)
                                 /\ e.new.M \subseteq Off(f)
    BY <1>4, <1>5 DEF Switching
  <2> QED BY <1>5, <2>1, <2>2 DEF AtRest, Switching, target
<1> QED BY <1>5, <1>6 DEF Good, Switching, e

(* Every edit of a file that parses spares the user's entries, covers       *)
(* crossby's, and leaves the same job nothing to do.                        *)
LEMMA EditGood ==
  ASSUME NEW f \in File, NEW own \in Own, NEW job \in Job, NEW failed \in SUBSET Names,
         tool \in Tools, job.want \cap job.gone = {}
  PROVE  Good(EditOf(f, own, job, failed), f, own, job)
<1>1. CASE job.kind = "sync"
  BY <1>1, AllowGood, ServersGood, Zenon DEF EditOf, SyncEdit
<1>2. CASE job.kind # "sync"
  <2>1. tool \in {"claude", "deny", "codex", "agy"}
    BY OwnedEntriesAssumption
  <2>2. CASE tool = "claude" BY <1>2, <2>2, OverridesGood DEF EditOf, DeclareEdit
  <2>3. CASE tool = "deny" BY <1>2, <2>3, ListGood DEF EditOf, DeclareEdit
  <2>4. CASE tool = "agy" BY <1>2, <2>4, FlagGood DEF EditOf, DeclareEdit
  <2>5. CASE tool = "codex" BY <1>2, <2>5, CodexGood DEF EditOf, DeclareEdit
  <2> QED BY <2>1, <2>2, <2>3, <2>4, <2>5
<1> QED BY <1>1, <1>2

(* A job that is at rest writes nothing, reports nothing and owns the same. *)
LEMMA RestIsIdle ==
  ASSUME NEW f \in File, NEW own \in Own, NEW job \in Job, NEW failed \in SUBSET Names,
         tool \in Tools, AtRest(tool, f, own, job)
  PROVE  LET e == EditOf(f, own, job, failed) IN ~e.writes /\ ~e.error /\ e.new = own
<1>1. /\ \A s \in SUBSET Names : s = own.A => [own EXCEPT !.A = s] = own
      /\ \A s \in SUBSET Names : s = own.M => [own EXCEPT !.M = s] = own
  BY DEF Own
<1>2. own.A \in SUBSET Names /\ own.M \in SUBSET Names /\ job.want \in SUBSET Names
  BY DEF Own, Job
<1>3. CASE job.kind = "sync" /\ ~Servers
  <2>1. /\ job.want \ In(f.A) = {} /\ Revoked(own, job) = {}
        /\ (own.A \cap job.want) \cup (job.want \ In(f.A)) = own.A
    BY <1>2, <1>3 DEF AtRest, Revoked, Servers
  <2> QED BY <1>1, <1>2, <1>3, <2>1 DEF EditOf, SyncEdit, AllowEdit
<1>4. CASE job.kind = "sync" /\ Servers
  <2>1. /\ job.want \ In(f.A) = {} /\ Revoked(own, job) = {}
        /\ (own.A \ Revoked(own, job)) \cup (job.want \ In(f.A)) = own.A
    BY <1>2, <1>4 DEF AtRest, Revoked, Servers
  <2> QED BY <1>1, <1>2, <1>4, <2>1 DEF EditOf, SyncEdit, ServersEdit
<1>5. CASE job.kind # "sync" /\ tool = "claude"
  <2> DEFINE adds == IF job.old THEN {} ELSE {n \in job.want \ Off(f) : f.M[n] # "other"}
  <2>1. adds = {} /\ own.M \ job.want = {} /\ (own.M \cap job.want) \cup adds = own.M
    BY <1>2, <1>5 DEF AtRest
  <2> QED BY <1>1, <1>2, <1>5, <2>1 DEF EditOf, DeclareEdit, OverridesEdit, Diff, Switched
<1>6. CASE job.kind # "sync" /\ tool = "deny"
  <2>1. /\ job.want \ Off(f) = {} /\ own.M \ job.want = {}
        /\ (own.M \cap job.want) \cup (job.want \ Off(f)) = own.M
    BY <1>2, <1>6 DEF AtRest
  <2> QED BY <1>1, <1>2, <1>6, <2>1 DEF EditOf, DeclareEdit, ListEdit, Diff, Switched
<1> DEFINE target == job.want \cap In(f.A)
<1>7. CASE job.kind # "sync" /\ tool = "agy"
  <2>1. /\ target \ Off(f) = {} /\ own.M \ target = {}
        /\ (own.M \cap target) \cup (target \ Off(f)) = own.M
    BY <1>2, <1>7 DEF AtRest
  <2> QED BY <1>1, <1>2, <1>7, <2>1 DEF EditOf, DeclareEdit, FlagEdit, Diff, Switched
<1>8. CASE job.kind # "sync" /\ tool = "codex"
  <2>1. /\ target \ Off(f) = {} /\ own.M \ target = {} /\ own.M \cap target \cap Off(f) = own.M
    BY <1>2, <1>8 DEF AtRest
  <2> DEFINE d == Diff(own.M, target, Off(f))
             adds == d.add \ failed
             gone == (d.remove \cap Off(f)) \ failed
             kept == (own.M \cap target \cap Off(f)) \cup (d.remove \cap Off(f) \cap failed)
             error == failed \cap (d.add \cup (d.remove \cap Off(f))) # {}
  <2>2. adds = {} /\ gone = {} /\ kept \cup adds = own.M /\ ~error
    BY <2>1 DEF Diff
  <2>3. EditOf(f, own, job, failed)
          = Switched(f, own, adds, gone, kept \cup adds, adds \cup gone # {}, error)
    BY <1>8 DEF EditOf, DeclareEdit, CodexEdit
  <2> HIDE DEF d, adds, gone, kept, error, target
  <2> DEFINE e == EditOf(f, own, job, failed)
  <2>4. /\ e.writes = (adds \cup gone # {})
        /\ e.error = error /\ e.new = [own EXCEPT !.M = kept \cup adds]
    BY <2>3 DEF Switched
  <2>5. e.new = own
    BY <1>1, <1>2, <2>2, <2>4
  <2> QED BY <2>2, <2>4, <2>5
<1>9. tool \in {"claude", "deny", "codex", "agy"}
  BY OwnedEntriesAssumption
<1> QED BY <1>3, <1>4, <1>5, <1>6, <1>7, <1>8, <1>9 DEF Servers

-----------------------------------------------------------------------------
(* What the user has is spared, and a job that ended well is at rest.       *)

JobOK(c) ==
    /\ c.job.want \cap c.job.gone = {}
    /\ c.then = NoJob \/ (c.then.kind = "sync" /\ c.then.gone = {})
    /\ c.at # "idle" => c.job.kind # "none"

(* The copy that a command c is about to put in place of the file f of the  *)
(* tool t, and the file it has put there.                                   *)
Sound(c, t, f, w) ==
    /\ JobOK(c)
    /\ c.at = "write" => /\ OnOff(t, c.out)
                         /\ ~c.stale => Spares(w, f, c.out)
                         /\ ~c.error => AtRest(t, c.out, c.new, c.job)
    /\ (c.at = "save" /\ ~c.stale /\ ~c.error /\ f.ok) => AtRest(t, f, c.new, c.job)

Careful ==
    /\ OnOff(tool, file)
    /\ \A p \in Procs : Sound(cmd[p], tool, file, wrote)
    /\ (settled # NoJob /\ file.ok) => AtRest(tool, file, led, settled)

(* Only its sections count of a file.                                       *)
LEMMA SameSections ==
  ASSUME NEW f, NEW g, f.A = g.A, f.M = g.M
  PROVE  /\ \A t : OnOff(t, f) <=> OnOff(t, g)
         /\ \A own : Covers(own, f) <=> Covers(own, g)
         /\ \A w, h : Spares(w, h, f) <=> Spares(w, h, g)
         /\ \A t, own, job : AtRest(t, f, own, job) <=> AtRest(t, g, own, job)
<1>1. Off(f) = Off(g) BY DEF Off
<1>2. \A t : OnOff(t, f) <=> OnOff(t, g) BY DEF OnOff
<1>3. \A own : Covers(own, f) <=> Covers(own, g) BY DEF Covers
<1>4. \A w, h : Spares(w, h, f) <=> Spares(w, h, g) BY DEF Spares
<1>5. \A t, own, job : AtRest(t, f, own, job) <=> AtRest(t, g, own, job)
  BY <1>1 DEF AtRest
<1> QED BY <1>2, <1>3, <1>4, <1>5

(* A step of one command that leaves the file as it is.                     *)
LEMMA CarefulOne ==
  ASSUME IInv, Careful, NEW p \in Procs, NEW c, cmd' = [cmd EXCEPT ![p] = c],
         UNCHANGED <<tool, file, wrote>>, Sound(c, tool, file, wrote),
         (settled' # NoJob /\ file.ok) => AtRest(tool, file, led', settled')
  PROVE  Careful'
<1>1. cmd'[p] = c /\ \A q \in Procs \ {p} : cmd'[q] = cmd[q]
  BY DEF IInv, TypeOK
<1>2. \A q \in Procs : Sound(cmd'[q], tool, file, wrote)
  BY <1>1 DEF Careful
<1>3. OnOff(tool, file)
  BY DEF Careful
<1> QED BY <1>2, <1>3 DEF Careful

(* Two commands, or a command and the user: what the others hold is stale.  *)
LEMMA StaleIsSound ==
  ASSUME IInv, Careful, NEW q \in Procs, NEW f, NEW w
  PROVE  Sound([cmd[q] EXCEPT !.stale = ~At(q, "idle")], tool, f, w)
<1> DEFINE c == [cmd[q] EXCEPT !.stale = ~At(q, "idle")]
<1>1. cmd[q] \in Cmds BY DEF IInv, TypeOK, Cmds
<1>2. /\ c.at = cmd[q].at /\ c.job = cmd[q].job /\ c.then = cmd[q].then /\ c.out = cmd[q].out
      /\ c.new = cmd[q].new /\ c.error = cmd[q].error
      /\ c.at # "idle" => c.stale
  BY <1>1 DEF Cmds, At
<1> HIDE DEF c
<1>3. Sound(cmd[q], tool, file, wrote) BY DEF Careful
<1>4. JobOK(c) BY <1>2, <1>3 DEF Sound, JobOK
<1>5. Sound(c, tool, f, w) BY <1>2, <1>3, <1>4 DEF Sound
<1> QED BY <1>5 DEF c

(* The ownership covers more, and more may be replaced.                     *)
LEMMA SparesMore ==
  ASSUME NEW own, NEW w, Within(own, w), NEW f, NEW out, Spares(own, f, out)
  PROVE  Spares(w, f, out)
  BY DEF Spares, Within

LEMMA StartCareful ==
  ASSUME IInv, Careful, NEW p \in Procs, Start(p) PROVE Careful'
<1>1. PICK job \in Syncs \cup Declares, then \in Narrowings :
        /\ job.want \cap job.gone = {}
        /\ cmd' = [cmd EXCEPT ![p] = [Idle EXCEPT !.at = "load", !.job = job, !.then = then]]
  BY DEF Start
<1> DEFINE c == [Idle EXCEPT !.at = "load", !.job = job, !.then = then]
<1>2. c.at = "load" /\ c.job = job /\ c.then = then BY DEF Idle
<1>3. job.kind # "none"
  BY DEF Syncs, Declares, SyncJob, DeclareJob
<1>4. then = NoJob \/ (then.kind = "sync" /\ then.gone = {})
  BY DEF Narrowings, SyncJob
<1> HIDE DEF c
<1>5. Sound(c, tool, file, wrote) BY <1>1, <1>2, <1>3, <1>4 DEF Sound, JobOK
<1>6. UNCHANGED <<tool, file, led, wrote, settled>> BY DEF Start
<1>7. cmd' = [cmd EXCEPT ![p] = c] BY <1>1 DEF c
<1>8. (settled' # NoJob /\ file.ok) => AtRest(tool, file, led', settled')
  BY <1>6 DEF Careful
<1> QED BY <1>5, <1>6, <1>7, <1>8, CarefulOne

LEMMA LoadCareful ==
  ASSUME IInv, Careful, NEW p \in Procs, Load(p) PROVE Careful'
<1> DEFINE c == [cmd[p] EXCEPT !.at = "read", !.own = led]
<1>1. cmd[p] \in Cmds BY DEF IInv, TypeOK, Cmds
<1>2. c.at = "read" /\ c.job = cmd[p].job /\ c.then = cmd[p].then BY <1>1 DEF Cmds
<1>3. cmd' = [cmd EXCEPT ![p] = c] BY DEF Load
<1> HIDE DEF c
<1>4. Sound(c, tool, file, wrote)
  BY <1>2 DEF Sound, JobOK, Careful, Load, At
<1>5. UNCHANGED <<tool, file, led, wrote, settled>> BY DEF Load
<1>6. (settled' # NoJob /\ file.ok) => AtRest(tool, file, led', settled')
  BY <1>5 DEF Careful
<1> QED BY <1>3, <1>4, <1>5, <1>6, CarefulOne

(* The command c of the process p once it has read, with the edit e.        *)
Makes(p, e, c) ==
    /\ cmd' = [cmd EXCEPT ![p] = c]
    /\ c.at = AfterRead(e, cmd[p].job.kind) /\ c.new = e.new
    /\ c.job = cmd[p].job /\ c.then = cmd[p].then /\ c.own = cmd[p].own
    /\ c.error = e.error /\ c.stale = FALSE
    /\ e.writes => (c.out.A = e.A /\ c.out.M = e.M)

LEMMA ReadMakes ==
  ASSUME IInv, NEW p \in Procs, Read(p)
  PROVE  \E failed \in SUBSET Names : \E c : Makes(p, Edit(p, failed), c)
<1>1. PICK failed \in SUBSET Names :
        cmd' = [cmd EXCEPT ![p].at = AfterRead(Edit(p, failed), cmd[p].job.kind),
                           ![p].out = IF Edit(p, failed).writes
                                      THEN [A |-> Edit(p, failed).A,
                                            M |-> Edit(p, failed).M]
                                      ELSE @,
                           ![p].new = Edit(p, failed).new,
                           ![p].error = Edit(p, failed).error, ![p].stale = FALSE]
  BY DEF Read
<1>2. cmd[p] \in Cmds BY DEF IInv, TypeOK, Cmds
<1> DEFINE e == Edit(p, failed)
           c == [cmd[p] EXCEPT !.at = AfterRead(e, cmd[p].job.kind),
                               !.out = IF e.writes THEN [A |-> e.A, M |-> e.M] ELSE @,
                               !.new = e.new, !.error = e.error, !.stale = FALSE]
<1>3. cmd' = [cmd EXCEPT ![p] = c] BY <1>1
<1> HIDE DEF e
<1>4. /\ c.at = AfterRead(e, cmd[p].job.kind) /\ c.new = e.new
      /\ c.job = cmd[p].job /\ c.then = cmd[p].then /\ c.own = cmd[p].own
      /\ c.error = e.error /\ c.stale = FALSE
      /\ e.writes => (c.out.A = e.A /\ c.out.M = e.M)
  BY <1>2 DEF Cmds
<1> HIDE DEF c
<1>5. Makes(p, e, c) BY <1>3, <1>4 DEF Makes
<1> QED BY <1>5 DEF e

LEMMA ReadCareful ==
  ASSUME IInv, Careful, NEW p \in Procs, Read(p) PROVE Careful'
<1>0. PICK failed \in SUBSET Names : \E c : Makes(p, Edit(p, failed), c)
  BY ReadMakes
<1>1. PICK c : Makes(p, Edit(p, failed), c) BY <1>0
<1> DEFINE e == Edit(p, failed)
<1> HIDE DEF e
<1>2. Makes(p, e, c) BY <1>1 DEF e
<1> USE DEF Makes
<1>3. UNCHANGED <<tool, file, led, wrote, settled>> BY DEF Read
<1>4. /\ file \in File /\ cmd[p].own \in Own /\ cmd[p].job \in Job /\ tool \in Tools
  BY DEF IInv, TypeOK, File
<1>5. JobOK(cmd[p]) /\ OnOff(tool, file) /\ cmd[p].at = "read" /\ Within(cmd[p].own, wrote)
  BY DEF Careful, Sound, IInv, HeldIsOwn, Read, At
<1>6. file.ok => Good(e, file, cmd[p].own, cmd[p].job)
  <2> HAVE file.ok
  <2>1. e = EditOf(file, cmd[p].own, cmd[p].job, failed)
    BY DEF e, Edit, EditOf
  <2>2. cmd[p].job.want \cap cmd[p].job.gone = {} BY <1>5 DEF JobOK
  <2> QED BY <1>4, <2>1, <2>2, EditGood
<1>7. ~file.ok => ~e.writes BY DEF e, Edit, Malformed
<1>8. c.at = "write" => e.writes BY <1>2 DEF AfterRead
<1>9. c.at = "save" => ~e.writes BY <1>2 DEF AfterRead
<1>10. c.at # "idle" BY <1>2 DEF AfterRead
<1>11. ASSUME c.at = "write"
       PROVE  OnOff(tool, c.out) /\ Spares(wrote, file, c.out)
              /\ (~c.error => AtRest(tool, c.out, c.new, c.job))
  <2>1. e.writes /\ file.ok /\ Good(e, file, cmd[p].own, cmd[p].job)
        /\ c.out.A = e.A /\ c.out.M = e.M
    BY <1>2, <1>6, <1>7, <1>8, <1>11
  <2>2. OnOff(tool, e) BY <1>5, <2>1 DEF Good, OnOff
  <2>3. Spares(wrote, file, e) BY <1>5, <2>1, SparesMore DEF Good
  <2>4. ~e.error => AtRest(tool, e, e.new, c.job) BY <1>2, <2>1 DEF Good
  <2> QED BY <1>2, <2>1, <2>2, <2>3, <2>4, SameSections
<1>12. (c.at = "save" /\ ~c.error /\ file.ok) => AtRest(tool, file, c.new, c.job)
  BY <1>2, <1>6, <1>9 DEF Good
<1>13. JobOK(c) BY <1>2, <1>5 DEF JobOK
<1>14. Sound(c, tool, file, wrote) BY <1>11, <1>12, <1>13 DEF Sound
<1>15. (settled' # NoJob /\ file.ok) => AtRest(tool, file, led', settled')
  BY <1>3 DEF Careful
<1> QED BY <1>2, <1>3, <1>14, <1>15, CarefulOne

LEMMA WriteCareful ==
  ASSUME IInv, Careful, NEW p \in Procs, Write(p) PROVE Careful'
<1>1. /\ file'.A = cmd[p].out.A /\ file'.M = cmd[p].out.M
      /\ UNCHANGED tool /\ settled' = NoJob
      /\ cmd' = [q \in Procs |-> IF q = p THEN [cmd[p] EXCEPT !.at = "save", !.out = Idle.out]
                                 ELSE [cmd[q] EXCEPT !.stale = ~At(q, "idle")]]
  BY DEF Write
<1>2. /\ OnOff(tool, cmd[p].out) /\ JobOK(cmd[p])
      /\ ~cmd[p].error => AtRest(tool, cmd[p].out, cmd[p].new, cmd[p].job)
  BY DEF Careful, Sound, Write, At
<1>3. /\ OnOff(tool, file')
      /\ ~cmd[p].error => AtRest(tool, file', cmd[p].new, cmd[p].job)
  BY <1>1, <1>2, SameSections
<1>4. Sound(cmd'[p], tool, file', wrote')
  <2>1. cmd[p] \in Cmds BY DEF IInv, TypeOK, Cmds
  <2>2. cmd'[p] = [cmd[p] EXCEPT !.at = "save", !.out = Idle.out] BY <1>1
  <2>3. /\ cmd'[p].at = "save" /\ cmd'[p].job = cmd[p].job /\ cmd'[p].then = cmd[p].then
        /\ cmd'[p].new = cmd[p].new /\ cmd'[p].error = cmd[p].error
    BY <2>1, <2>2 DEF Cmds
  <2>4. JobOK(cmd'[p]) BY <1>2, <2>3 DEF JobOK, Write, At
  <2> QED BY <1>3, <2>3, <2>4 DEF Sound
<1>5. \A q \in Procs \ {p} : Sound(cmd'[q], tool, file', wrote')
  <2> SUFFICES ASSUME NEW q \in Procs \ {p} PROVE Sound(cmd'[q], tool, file', wrote')
    OBVIOUS
  <2>1. cmd'[q] = [cmd[q] EXCEPT !.stale = ~At(q, "idle")] BY <1>1
  <2> QED BY <2>1, StaleIsSound
<1> QED BY <1>1, <1>3, <1>4, <1>5 DEF Careful

LEMMA WriteRaisesCareful ==
  ASSUME IInv, Careful, NEW p \in Procs, WriteRaises(p) PROVE Careful'
<1> DEFINE c == [cmd[p] EXCEPT !.at = IF cmd[p].job.kind = "sync" THEN "next" ELSE "save",
                               !.new = cmd[p].own, !.error = TRUE, !.out = Idle.out,
                               !.then = NoJob]
<1>1. cmd[p] \in Cmds BY DEF IInv, TypeOK, Cmds
<1>2. c.at \in {"next", "save"} /\ c.error = TRUE /\ c.job = cmd[p].job /\ c.then = NoJob
  BY <1>1 DEF Cmds
<1>3. cmd' = [cmd EXCEPT ![p] = c] BY DEF WriteRaises
<1> HIDE DEF c
<1>4. Sound(c, tool, file, wrote)
  BY <1>2 DEF Sound, JobOK, Careful, WriteRaises, At
<1>5. UNCHANGED <<tool, file, led, wrote, settled>> BY DEF WriteRaises
<1>6. (settled' # NoJob /\ file.ok) => AtRest(tool, file, led', settled')
  BY <1>5 DEF Careful
<1> QED BY <1>3, <1>4, <1>5, <1>6, CarefulOne

LEMMA SaveCareful ==
  ASSUME IInv, Careful, NEW p \in Procs, Save(p) PROVE Careful'
<1> DEFINE c == [cmd[p] EXCEPT !.at = "next"]
<1>1. cmd[p] \in Cmds BY DEF IInv, TypeOK, Cmds
<1>2. c.at = "next" /\ c.job = cmd[p].job /\ c.then = cmd[p].then
  BY <1>1 DEF Cmds
<1>3. cmd' = [cmd EXCEPT ![p] = c] BY DEF Save
<1> HIDE DEF c
<1>4. Sound(c, tool, file, wrote)
  BY <1>2 DEF Sound, JobOK, Careful, Save, At
<1>5. UNCHANGED <<tool, file, wrote>> /\ led' = cmd[p].new /\ cmd[p].at = "save"
      /\ settled' = IF cmd[p].error \/ cmd[p].stale \/ ~Alone(p) THEN NoJob ELSE cmd[p].job
  BY DEF Save, At
<1>6. Sound(cmd[p], tool, file, wrote) BY DEF Careful
<1>7. (settled' # NoJob /\ file.ok) => AtRest(tool, file, led', settled')
  BY <1>5, <1>6 DEF Sound
<1> QED BY <1>3, <1>4, <1>5, <1>7, CarefulOne

LEMMA SaveRaisesCareful ==
  ASSUME IInv, Careful, NEW p \in Procs, SaveRaises(p) PROVE Careful'
<1> DEFINE c == [cmd[p] EXCEPT !.at = "next", !.then = NoJob]
<1>1. cmd[p] \in Cmds BY DEF IInv, TypeOK, Cmds
<1>2. c.at = "next" /\ c.job = cmd[p].job /\ c.then = NoJob
  BY <1>1 DEF Cmds
<1>3. cmd' = [cmd EXCEPT ![p] = c] BY DEF SaveRaises
<1> HIDE DEF c
<1>4. Sound(c, tool, file, wrote)
  BY <1>2 DEF Sound, JobOK, Careful, SaveRaises, At
<1>5. UNCHANGED <<tool, file, wrote>> /\ settled' = NoJob BY DEF SaveRaises
<1> QED BY <1>3, <1>4, <1>5, CarefulOne

LEMMA NextJobCareful ==
  ASSUME IInv, Careful, NEW p \in Procs, NextJob(p) PROVE Careful'
<1> DEFINE c == IF cmd[p].then = NoJob THEN Idle
                ELSE [Idle EXCEPT !.at = "load", !.job = cmd[p].then]
<1>1. /\ c.then = NoJob /\ c.at \in {"idle", "load"}
      /\ c.at = "idle" => c.job = NoJob
      /\ c.at = "load" => (c.job = cmd[p].then /\ cmd[p].then # NoJob)
  BY DEF Idle
<1>2. cmd' = [cmd EXCEPT ![p] = c] BY DEF NextJob
<1> HIDE DEF c
<1>3. JobOK(cmd[p]) BY DEF Careful, Sound
<1>4. JobOK(c)
  <2>1. CASE c.at = "idle" BY <1>1, <2>1 DEF JobOK, NoJob
  <2>2. CASE c.at = "load" BY <1>1, <1>3, <2>2 DEF JobOK
  <2> QED BY <1>1, <2>1, <2>2
<1>5. Sound(c, tool, file, wrote) BY <1>1, <1>4 DEF Sound
<1>6. UNCHANGED <<tool, file, led, wrote, settled>> BY DEF NextJob
<1>7. (settled' # NoJob /\ file.ok) => AtRest(tool, file, led', settled')
  BY <1>6 DEF Careful
<1> QED BY <1>2, <1>5, <1>6, <1>7, CarefulOne

LEMMA IdleIsSound == \A t, f, w : Sound(Idle, t, f, w)
  BY DEF Sound, JobOK, Idle, NoJob

LEMMA CrashCareful ==
  ASSUME IInv, Careful, NEW p \in Procs, Crash(p) PROVE Careful'
  BY IdleIsSound, CarefulOne DEF Crash

LEMMA UserCareful ==
  ASSUME IInv, Careful, User PROVE Careful'
<1>1. PICK f : Edited(f) /\ OnOff(tool, f)
  <2>0. file \in File /\ OnOff(tool, file) BY DEF IInv, TypeOK, File, Careful
  <2>1. CASE \E n \in Names : UserEditsA(n)
    <3>1. PICK n \in Names : UserEditsA(n) BY <2>1
    <3>2. Edited([file EXCEPT !.A[n] = "users"])
            \/ Edited([file EXCEPT !.A[n] = "none", !.M[n] = IF Servers THEN "none" ELSE @])
      BY <3>1 DEF UserEditsA
    <3>3. \A v : OnOff(tool, [file EXCEPT !.A[n] = v]) BY <2>0 DEF File, OnOff
    <3>4. OnOff(tool, [file EXCEPT !.A[n] = "none", !.M[n] = IF Servers THEN "none" ELSE @])
      BY <2>0 DEF File, OnOff, Flags
    <3> QED BY <3>2, <3>3, <3>4
  <2>2. CASE \E n \in Names : UserEditsM(n)
    <3>1. PICK n \in Names : UserEditsM(n) BY <2>2
    <3>2. PICK v : Edited([file EXCEPT !.M[n] = v]) /\ (v = "other" => tool = "claude")
      <4>1. CASE file.M[n] = "none"
        <5>1. PICK v \in {"users"} \cup (IF tool = "claude" THEN {"other"} ELSE {}) :
                Edited([file EXCEPT !.M[n] = v])
          BY <3>1, <4>1, Zenon DEF UserEditsM
        <5>2. v = "users" \/ (v = "other" /\ tool = "claude") BY <5>1
        <5> QED BY <5>1, <5>2
      <4>2. CASE file.M[n] # "none"
        <5>1. Edited([file EXCEPT !.M[n] = "none"]) BY <3>1, <4>2, Zenon DEF UserEditsM
        <5> QED BY <5>1
      <4> QED BY <4>1, <4>2
    <3>3. OnOff(tool, [file EXCEPT !.M[n] = v]) BY <2>0, <3>2 DEF File, OnOff, Flags
    <3> QED BY <3>2, <3>3
  <2>3. CASE UserBreaks \/ UserRepairs
    BY <2>3 DEF IInv, TypeOK, UserBreaks, UserRepairs, Careful, OnOff
  <2> QED BY <2>1, <2>2, <2>3 DEF User
<1>2. /\ file' = f /\ UNCHANGED tool /\ settled' = NoJob
      /\ cmd' = [q \in Procs |-> [cmd[q] EXCEPT !.stale = ~At(q, "idle")]]
  BY <1>1 DEF Edited
<1>3. \A q \in Procs : Sound(cmd'[q], tool, file', wrote')
  BY <1>2, StaleIsSound
<1> QED BY <1>1, <1>2, <1>3 DEF Careful

LEMMA CarefulStep == IInv /\ Careful /\ [Next]_vars => Careful'
<1> SUFFICES ASSUME IInv, Careful, [Next]_vars PROVE Careful'
  OBVIOUS
<1>1. CASE \E p \in Procs : Command(p)
  BY <1>1, StartCareful, LoadCareful, ReadCareful, WriteCareful, WriteRaisesCareful, SaveCareful,
     SaveRaisesCareful, NextJobCareful, CrashCareful DEF Command
<1>2. CASE User
  BY <1>2, UserCareful
<1>3. CASE UNCHANGED vars
  BY <1>3 DEF vars, Careful
<1> QED BY <1>1, <1>2, <1>3 DEF Next, Resting

LEMMA InitCareful == Init => Careful
<1> SUFFICES ASSUME Init PROVE Careful
  OBVIOUS
<1>1. \A p \in Procs : cmd[p] = Idle BY DEF Init
<1>2. \A p \in Procs : Sound(cmd[p], tool, file, wrote) BY <1>1, IdleIsSound
<1>3. OnOff(tool, file) /\ settled = NoJob BY DEF Init, OnOff
<1> QED BY <1>2, <1>3 DEF Careful

-----------------------------------------------------------------------------
(* Every entry of crossby's is accounted for, as long as nothing goes wrong.*)

(* What the busy command c holds of the ledger l and the file f.            *)
Owing(c, l, f) ==
    /\ c.at \in {"read", "write"} => c.own = l
    /\ c.at = "write" => Covers(c.new, c.out)
    /\ c.at = "save" => Covers(c.new, f)

Accounted ==
    /\ tool \notin Fragile => file.ok
    /\ trouble = {} =>
         /\ \A p, q \in Procs : At(p, "idle") \/ At(q, "idle") \/ p = q
         /\ (\A p \in Procs : ~At(p, "save")) => Covers(led, file)
         /\ \A p \in Procs : Owing(cmd[p], led, file)

(* A step of one command, the only one under way.                           *)
LEMMA AccountedOne ==
  ASSUME IInv, Accounted, NEW p \in Procs, ~At(p, "idle"), NEW c, cmd' = [cmd EXCEPT ![p] = c],
         UNCHANGED tool, tool \notin Fragile => file'.ok,
         trouble' = {} => /\ trouble = {}
                          /\ c.at = "save" \/ Covers(led', file')
                          /\ Owing(c, led', file')
  PROVE  Accounted'
<1>1. cmd'[p] = c /\ \A q \in Procs \ {p} : cmd'[q] = cmd[q]
  BY DEF IInv, TypeOK
<1>2. ASSUME trouble' = {}
      PROVE  /\ \A q \in Procs \ {p} : cmd'[q].at = "idle"
             /\ (\A q \in Procs : cmd'[q].at # "save") => Covers(led', file')
             /\ \A q \in Procs : Owing(cmd'[q], led', file')
  <2>1. \A q \in Procs \ {p} : cmd'[q].at = "idle"
    BY <1>1, <1>2 DEF Accounted, At
  <2>2. \A q \in Procs \ {p} : Owing(cmd'[q], led', file')
    BY <2>1 DEF Owing
  <2> QED BY <1>1, <1>2, <2>1, <2>2
<1>3. ASSUME trouble' = {}
      PROVE  \A r, q \in Procs : At(r, "idle")' \/ At(q, "idle")' \/ r = q
  BY <1>2, <1>3 DEF At
<1> QED BY <1>2, <1>3 DEF Accounted, At

LEMMA StartAccounted ==
  ASSUME IInv, Accounted, NEW p \in Procs, Start(p) PROVE Accounted'
<1>1. PICK job, then :
        cmd' = [cmd EXCEPT ![p] = [Idle EXCEPT !.at = "load", !.job = job, !.then = then]]
  BY DEF Start
<1> DEFINE c == [Idle EXCEPT !.at = "load", !.job = job, !.then = then]
<1>2. c.at = "load" BY DEF Idle
<1> HIDE DEF c
<1>3. cmd'[p] = c /\ \A q \in Procs \ {p} : cmd'[q] = cmd[q]
  BY <1>1 DEF IInv, TypeOK, c
<1>4. UNCHANGED <<tool, file, led>> BY DEF Start
<1>5. ASSUME trouble' = {}
      PROVE  /\ trouble = {} /\ Covers(led, file)
             /\ \A q \in Procs \ {p} : cmd'[q].at = "idle"
  <2>1. trouble = {} /\ Alone(p) BY <1>5 DEF Start
  <2>2. \A q \in Procs : At(q, "idle") BY <2>1 DEF Alone, Start
  <2> QED BY <1>3, <2>1, <2>2 DEF Accounted, At
<1>6. ASSUME trouble' = {} PROVE \A q \in Procs : Owing(cmd'[q], led', file')
  BY <1>2, <1>3, <1>5, <1>6 DEF Owing
<1>7. ASSUME trouble' = {}
      PROVE  \A r, q \in Procs : At(r, "idle")' \/ At(q, "idle")' \/ r = q
  BY <1>5, <1>7 DEF At
<1> QED BY <1>4, <1>5, <1>6, <1>7 DEF Accounted

LEMMA LoadAccounted ==
  ASSUME IInv, Accounted, NEW p \in Procs, Load(p) PROVE Accounted'
<1> DEFINE c == [cmd[p] EXCEPT !.at = "read", !.own = led]
<1>1. cmd[p] \in Cmds BY DEF IInv, TypeOK, Cmds
<1>2. c.at = "read" /\ c.own = led BY <1>1 DEF Cmds
<1>3. cmd' = [cmd EXCEPT ![p] = c] BY DEF Load
<1> HIDE DEF c
<1>4. UNCHANGED <<tool, file, led, trouble>> /\ At(p, "load") BY DEF Load
<1>5. ASSUME trouble = {} PROVE Covers(led, file)
  BY <1>4, <1>5 DEF Accounted, At
<1>6. Owing(c, led, file) BY <1>2 DEF Owing
<1>7. tool \notin Fragile => file.ok BY DEF Accounted
<1> QED BY <1>3, <1>4, <1>5, <1>6, <1>7, AccountedOne DEF At

LEMMA ReadAccounted ==
  ASSUME "codex" \notin Fragile, IInv, Careful, Accounted, NEW p \in Procs, Read(p)
  PROVE  Accounted'
<1>0. PICK failed \in SUBSET Names : \E c : Makes(p, Edit(p, failed), c)
  BY ReadMakes
<1>1. PICK c : Makes(p, Edit(p, failed), c) BY <1>0
<1> DEFINE e == Edit(p, failed)
<1> HIDE DEF e
<1>2. Makes(p, e, c) BY <1>1 DEF e
<1> USE DEF Makes
<1>3. UNCHANGED <<tool, file, led, trouble>> BY DEF Read
<1>4. /\ file \in File /\ cmd[p].own \in Own /\ cmd[p].job \in Job /\ tool \in Tools
      /\ cmd[p].at = "read" /\ JobOK(cmd[p])
  BY DEF IInv, TypeOK, File, Careful, Sound, Read, At
<1>5. tool \notin Fragile => file.ok BY DEF Accounted
<1>6. file.ok => Good(e, file, cmd[p].own, cmd[p].job)
  <2> HAVE file.ok
  <2>1. e = EditOf(file, cmd[p].own, cmd[p].job, failed)
    BY DEF e, Edit, EditOf
  <2>2. cmd[p].job.want \cap cmd[p].job.gone = {} BY <1>4 DEF JobOK
  <2> QED BY <1>4, <2>1, <2>2, EditGood
<1>7. ~file.ok => ~e.writes /\ e.new = cmd[p].own
  BY <1>5 DEF e, Edit, Malformed
<1>8. (c.at = "write" => e.writes) /\ (c.at = "save" => ~e.writes)
      /\ c.at \in {"write", "next", "save"}
  BY <1>2 DEF AfterRead
<1>9. ASSUME trouble = {}
      PROVE  Covers(led, file) /\ Owing(c, led, file)
  <2>1. cmd[p].own = led /\ Covers(led, file)
    <3>1. Owing(cmd[p], led, file) BY <1>9 DEF Accounted
    <3>2. \A q \in Procs : ~At(q, "save") BY <1>4, <1>9 DEF Accounted, At
    <3> QED BY <1>4, <1>9, <3>1, <3>2 DEF Accounted, Owing
  <2>2. c.at = "write" => Covers(c.new, c.out)
    <3>1. c.at = "write" => Covers(e.new, e) BY <1>6, <1>7, <1>8, <2>1 DEF Good
    <3> QED BY <1>2, <1>8, <3>1, SameSections
  <2>3. c.at = "save" => Covers(c.new, file)
    <3>1. CASE file.ok BY <1>2, <1>6, <1>8, <2>1, <3>1 DEF Good
    <3>2. CASE ~file.ok BY <1>2, <1>7, <2>1, <3>2
    <3> QED BY <3>1, <3>2
  <2> QED BY <1>2, <2>1, <2>2, <2>3 DEF Owing
<1> QED BY <1>2, <1>3, <1>4, <1>5, <1>9, AccountedOne DEF At

LEMMA WriteAccounted ==
  ASSUME IInv, Accounted, NEW p \in Procs, Write(p) PROVE Accounted'
<1>1. /\ file'.ok /\ file'.A = cmd[p].out.A /\ file'.M = cmd[p].out.M
      /\ UNCHANGED <<tool, led, trouble>> /\ cmd[p].at = "write"
      /\ cmd' = [q \in Procs |-> IF q = p THEN [cmd[p] EXCEPT !.at = "save", !.out = Idle.out]
                                 ELSE [cmd[q] EXCEPT !.stale = ~At(q, "idle")]]
  BY DEF Write, At
<1>2. \A q \in Procs : cmd[q] \in Cmds BY DEF IInv, TypeOK, Cmds
<1>3. /\ cmd'[p].at = "save" /\ cmd'[p].new = cmd[p].new
      /\ \A q \in Procs \ {p} : cmd'[q].at = cmd[q].at
  <2>1. cmd'[p] = [cmd[p] EXCEPT !.at = "save", !.out = Idle.out] BY <1>1
  <2>2. \A q \in Procs \ {p} : cmd'[q] = [cmd[q] EXCEPT !.stale = ~At(q, "idle")] BY <1>1
  <2>3. cmd'[p].at = "save" /\ cmd'[p].new = cmd[p].new BY <1>2, <2>1 DEF Cmds
  <2>4. \A q \in Procs \ {p} : cmd'[q].at = cmd[q].at BY <1>2, <2>2 DEF Cmds
  <2> QED BY <2>3, <2>4
<1>4. ASSUME trouble = {}
      PROVE  /\ \A q \in Procs \ {p} : cmd'[q].at = "idle"
             /\ \A q \in Procs : Owing(cmd'[q], led', file')
  <2>1. \A q \in Procs \ {p} : cmd'[q].at = "idle" BY <1>1, <1>3, <1>4 DEF Accounted, At
  <2>2. Covers(cmd[p].new, cmd[p].out) BY <1>1, <1>4 DEF Accounted, Owing
  <2>3. Covers(cmd'[p].new, file') BY <1>1, <1>3, <2>2, SameSections
  <2> QED BY <1>3, <2>1, <2>3 DEF Owing
<1>5. ASSUME trouble = {}
      PROVE  \A r, q \in Procs : At(r, "idle")' \/ At(q, "idle")' \/ r = q
  BY <1>4, <1>5 DEF At
<1> QED BY <1>1, <1>3, <1>4, <1>5 DEF Accounted, At

LEMMA WriteRaisesAccounted ==
  ASSUME IInv, Accounted, NEW p \in Procs, WriteRaises(p) PROVE Accounted'
<1> DEFINE c == [cmd[p] EXCEPT !.at = IF cmd[p].job.kind = "sync" THEN "next" ELSE "save",
                               !.new = cmd[p].own, !.error = TRUE, !.out = Idle.out,
                               !.then = NoJob]
<1>1. cmd[p] \in Cmds BY DEF IInv, TypeOK, Cmds
<1>2. c.at \in {"next", "save"} /\ c.new = cmd[p].own BY <1>1 DEF Cmds
<1>3. cmd' = [cmd EXCEPT ![p] = c] BY DEF WriteRaises
<1> HIDE DEF c
<1>4. UNCHANGED <<tool, file, led, trouble>> /\ cmd[p].at = "write" BY DEF WriteRaises, At
<1>5. ASSUME trouble = {} PROVE Covers(led, file) /\ cmd[p].own = led
  <2>1. \A q \in Procs : ~At(q, "save") BY <1>4, <1>5 DEF Accounted, At
  <2> QED BY <1>4, <1>5, <2>1 DEF Accounted, Owing
<1>6. ASSUME trouble = {} PROVE Owing(c, led, file) BY <1>2, <1>5, <1>6 DEF Owing
<1>7. tool \notin Fragile => file.ok BY DEF Accounted
<1> QED BY <1>3, <1>4, <1>5, <1>6, <1>7, AccountedOne DEF At

LEMMA SaveAccounted ==
  ASSUME IInv, Accounted, NEW p \in Procs, Save(p) PROVE Accounted'
<1> DEFINE c == [cmd[p] EXCEPT !.at = "next"]
<1>1. cmd[p] \in Cmds BY DEF IInv, TypeOK, Cmds
<1>2. c.at = "next" BY <1>1 DEF Cmds
<1>3. cmd' = [cmd EXCEPT ![p] = c] BY DEF Save
<1> HIDE DEF c
<1>4. UNCHANGED <<tool, file, trouble>> /\ led' = cmd[p].new /\ cmd[p].at = "save"
  BY DEF Save, At
<1>5. trouble = {} => Covers(led', file) BY <1>4 DEF Accounted, Owing
<1>6. Owing(c, led', file) BY <1>2 DEF Owing
<1>7. tool \notin Fragile => file.ok BY DEF Accounted
<1> QED BY <1>3, <1>4, <1>5, <1>6, <1>7, AccountedOne DEF At

LEMMA NextJobAccounted ==
  ASSUME IInv, Accounted, NEW p \in Procs, NextJob(p) PROVE Accounted'
<1> DEFINE c == IF cmd[p].then = NoJob THEN Idle
                ELSE [Idle EXCEPT !.at = "load", !.job = cmd[p].then]
<1>1. c.at \in {"idle", "load"} BY DEF Idle
<1>2. cmd' = [cmd EXCEPT ![p] = c] BY DEF NextJob
<1> HIDE DEF c
<1>3. UNCHANGED <<tool, file, led, trouble>> /\ cmd[p].at = "next" BY DEF NextJob, At
<1>4. trouble = {} => Covers(led, file) BY <1>3 DEF Accounted, At
<1>5. Owing(c, led, file) BY <1>1 DEF Owing
<1>6. tool \notin Fragile => file.ok BY DEF Accounted
<1> QED BY <1>2, <1>3, <1>4, <1>5, <1>6, AccountedOne DEF At

(* What the user does takes entries of crossby's away, and adds none.       *)
LEMMA UserAccounted ==
  ASSUME IInv, Accounted, User PROVE Accounted'
<1>0. file \in File BY DEF IInv, TypeOK, File
<1>1. PICK f : /\ Edited(f)
               /\ tool \notin Fragile => f.ok
               /\ \A n \in Names : /\ f.A[n] = "ours" => file.A[n] = "ours"
                                   /\ f.M[n] = "ours" => file.M[n] = "ours"
  <2>0. tool \notin Fragile => file.ok BY DEF Accounted
  <2>1. CASE \E n \in Names : UserEditsA(n)
    <3>1. PICK n \in Names : UserEditsA(n) BY <2>1
    <3>2. Edited([file EXCEPT !.A[n] = "users"])
            \/ Edited([file EXCEPT !.A[n] = "none", !.M[n] = IF Servers THEN "none" ELSE @])
      BY <3>1 DEF UserEditsA
    <3>3. CASE Edited([file EXCEPT !.A[n] = "users"])
      <4> DEFINE f == [file EXCEPT !.A[n] = "users"]
      <4>1. f.ok = file.ok /\ f.M = file.M /\ f.A = [file.A EXCEPT ![n] = "users"]
        BY <1>0 DEF File
      <4>2. \A m \in Names : f.A[m] = "ours" => file.A[m] = "ours"
        BY <1>0, <4>1 DEF File, Section
      <4> QED BY <2>0, <3>3, <4>1, <4>2
    <3>4. CASE Edited([file EXCEPT !.A[n] = "none", !.M[n] = IF Servers THEN "none" ELSE @])
      <4> DEFINE f == [file EXCEPT !.A[n] = "none", !.M[n] = IF Servers THEN "none" ELSE @]
      <4>1. f.ok = file.ok /\ f.A = [file.A EXCEPT ![n] = "none"]
            /\ f.M = [file.M EXCEPT ![n] = IF Servers THEN "none" ELSE @]
        BY <1>0 DEF File
      <4>2. \A m \in Names : /\ f.A[m] = "ours" => file.A[m] = "ours"
                             /\ f.M[m] = "ours" => file.M[m] = "ours"
        BY <1>0, <4>1 DEF File, Section, Flags
      <4> QED BY <2>0, <3>4, <4>1, <4>2
    <3> QED BY <3>2, <3>3, <3>4
  <2>2. CASE \E n \in Names : UserEditsM(n)
    <3>1. PICK n \in Names : UserEditsM(n) BY <2>2
    <3>2. PICK v : Edited([file EXCEPT !.M[n] = v]) /\ v # "ours"
      <4>1. CASE file.M[n] = "none"
        <5>1. PICK v \in {"users"} \cup (IF tool = "claude" THEN {"other"} ELSE {}) :
                Edited([file EXCEPT !.M[n] = v])
          BY <3>1, <4>1, Zenon DEF UserEditsM
        <5>2. v = "users" \/ (v = "other" /\ tool = "claude") BY <5>1
        <5> QED BY <5>1, <5>2
      <4>2. CASE file.M[n] # "none"
        <5>1. Edited([file EXCEPT !.M[n] = "none"]) BY <3>1, <4>2, Zenon DEF UserEditsM
        <5> QED BY <5>1
      <4> QED BY <4>1, <4>2
    <3> DEFINE f == [file EXCEPT !.M[n] = v]
    <3>3. f.ok = file.ok /\ f.A = file.A /\ f.M = [file.M EXCEPT ![n] = v]
      BY <1>0 DEF File
    <3>4. \A m \in Names : f.M[m] = "ours" => file.M[m] = "ours"
      BY <1>0, <3>2, <3>3 DEF File, Flags
    <3> QED BY <2>0, <3>2, <3>3, <3>4
  <2>3. CASE UserBreaks
    <3> DEFINE f == [file EXCEPT !.ok = FALSE]
    <3>1. f.A = file.A /\ f.M = file.M BY <1>0 DEF File
    <3> QED BY <2>3, <3>1 DEF UserBreaks
  <2>4. CASE UserRepairs
    <3> DEFINE f == [file EXCEPT !.ok = TRUE]
    <3>1. f.A = file.A /\ f.M = file.M /\ f.ok BY <1>0 DEF File
    <3> QED BY <2>4, <3>1 DEF UserRepairs
  <2> QED BY <2>1, <2>2, <2>3, <2>4 DEF User
<1>2. /\ file' = f /\ UNCHANGED <<tool, led, trouble>>
      /\ cmd' = [q \in Procs |-> [cmd[q] EXCEPT !.stale = ~At(q, "idle")]]
  BY <1>1 DEF Edited
<1>3. \A q \in Procs : cmd[q] \in Cmds BY DEF IInv, TypeOK, Cmds
<1>4. \A q \in Procs : /\ cmd'[q].at = cmd[q].at /\ cmd'[q].own = cmd[q].own
                       /\ cmd'[q].new = cmd[q].new /\ cmd'[q].out = cmd[q].out
  <2>1. \A q \in Procs : cmd'[q] = [cmd[q] EXCEPT !.stale = ~At(q, "idle")] BY <1>2
  <2> QED BY <1>3, <2>1 DEF Cmds
<1>5. \A own : Covers(own, file) => Covers(own, f) BY <1>1 DEF Covers
<1>6. trouble = {} => \A q \in Procs : Owing(cmd'[q], led, file')
  BY <1>2, <1>4, <1>5 DEF Accounted, Owing
<1> QED BY <1>1, <1>2, <1>4, <1>5, <1>6 DEF Accounted, At

LEMMA AccountedStep ==
  ASSUME "codex" \notin Fragile PROVE IInv /\ Careful /\ Accounted /\ [Next]_vars => Accounted'
<1> SUFFICES ASSUME IInv, Careful, Accounted, [Next]_vars PROVE Accounted'
  OBVIOUS
<1>1. CASE \E p \in Procs : SaveRaises(p) \/ Crash(p)
  <2>1. trouble' # {} /\ UNCHANGED <<tool, file>> BY <1>1 DEF SaveRaises, Crash
  <2> QED BY <2>1 DEF Accounted
<1>2. CASE \E p \in Procs : Command(p)
  BY <1>1, <1>2, StartAccounted, LoadAccounted, ReadAccounted, WriteAccounted,
     WriteRaisesAccounted, SaveAccounted, NextJobAccounted DEF Command
<1>3. CASE User
  BY <1>3, UserAccounted
<1>4. CASE UNCHANGED vars
  BY <1>4 DEF vars, Accounted, At
<1> QED BY <1>2, <1>3, <1>4 DEF Next, Resting

LEMMA InitAccounted == Init => Accounted
  BY DEF Init, Accounted, Idle, At, Owing, Covers

-----------------------------------------------------------------------------

(* In every reachable state the copy a command is about to put in place     *)
(* spares the user's entries, and the job that ended last is at rest.       *)
THEOREM CarefulInductive == Spec => [](IInv /\ Careful)
<1>1. Init => IInv /\ Careful BY InitIInv, InitCareful
<1>2. IInv /\ Careful /\ [Next]_vars => (IInv /\ Careful)' BY NextIInv, CarefulStep
<1> QED BY <1>1, <1>2, PTL DEF Spec

(* Nothing that went wrong is undone.                                       *)
LEMMA TroubleStays == ASSUME [Next]_vars PROVE trouble \subseteq trouble'
<1>1. ASSUME NEW p \in Procs, Command(p) PROVE trouble \subseteq trouble'
  <2>1. CASE Start(p) BY <2>1 DEF Start
  <2>2. CASE SaveRaises(p) \/ Crash(p)
    <3>1. trouble' = trouble \cup {"save"} \/ trouble' = trouble \cup {"crash"}
      BY <2>2, Zenon DEF SaveRaises, Crash
    <3> QED BY <3>1
  <2>3. CASE Load(p) \/ Read(p) \/ Write(p) BY <2>3 DEF Load, Read, Write
  <2>4. CASE WriteRaises(p) \/ Save(p) \/ NextJob(p) BY <2>4 DEF WriteRaises, Save, NextJob
  <2> QED BY <1>1, <2>1, <2>2, <2>3, <2>4 DEF Command
<1>2. CASE User
  <2>1. PICK f : Edited(f) BY <1>2 DEF User, UserEditsA, UserEditsM, UserBreaks, UserRepairs
  <2>2. trouble' = trouble BY <2>1, Zenon DEF Edited
  <2> QED BY <2>2
<1>3. CASE UNCHANGED vars BY <1>3 DEF vars
<1> QED BY <1>1, <1>2, <1>3 DEF Next, Resting

(* What the user does moves no command on.                                  *)
LEMMA UserMovesNone ==
  ASSUME IInv, User PROVE \A p \in Procs : cmd'[p].at = cmd[p].at
<1>1. PICK f : Edited(f) BY DEF User, UserEditsA, UserEditsM, UserBreaks, UserRepairs
<1>2. \A p \in Procs : cmd'[p] = [cmd[p] EXCEPT !.stale = ~At(p, "idle")] BY <1>1 DEF Edited
<1>3. \A p \in Procs : cmd[p] \in Cmds BY DEF IInv, TypeOK, Cmds
<1> QED BY <1>2, <1>3 DEF Cmds

(* The file is replaced only by the process that leaves "write" for "save". *)
LEMMA ReplacedByWrite ==
  ASSUME IInv, NEW p \in Procs, [Next]_vars, At(p, "write"), cmd'[p].at = "save", file' # file
  PROVE  Write(p)
<1>0. \A q \in Procs : cmd[q] \in Cmds BY DEF IInv, TypeOK, Cmds
<1>1. ASSUME NEW q \in Procs, Command(q) PROVE Write(p)
  <2>1. Write(q)
    BY <1>1 DEF Command, Start, Load, Read, WriteRaises, Save, SaveRaises, NextJob, Crash
  <2>2. CASE q # p
    <3>1. cmd'[p] = [cmd[p] EXCEPT !.stale = ~At(p, "idle")] BY <2>1, <2>2 DEF Write
    <3>2. cmd'[p].at = cmd[p].at BY <1>0, <3>1 DEF Cmds
    <3> QED BY <3>2 DEF At
  <2> QED BY <2>1, <2>2, Zenon
<1>2. ASSUME User PROVE FALSE
  <2>1. cmd'[p].at = cmd[p].at BY <1>2, UserMovesNone
  <2> QED BY <2>1 DEF At
<1> QED BY <1>1, <1>2 DEF Next, Resting, vars

(* crossby takes an entry of the user's only if it once wrote one of that   *)
(* name or had not seen it, however many commands and edits interleave.     *)
THEOREM UsersEntriesKept == Spec => UserEntriesSurvive
<1> DEFINE Kept ==
      \A p \in Procs : At(p, "write") /\ cmd'[p].at = "save" /\ file' # file /\ ~cmd[p].stale =>
         \A n \in Names :
           /\ file.A[n] = "users" /\ file'.A[n] # "users" => n \in wrote.A
           /\ file.M[n] \in {"users", "other"} /\ file'.M[n] # file.M[n] =>
                n \in wrote.M \/ file'.A[n] = "none"
<1>1. IInv /\ Careful /\ [Next]_vars => Kept
  <2> SUFFICES ASSUME IInv, Careful, [Next]_vars, NEW p \in Procs, At(p, "write"),
                      cmd'[p].at = "save", file' # file, ~cmd[p].stale
               PROVE  Spares(wrote, file, file')
    BY DEF Spares
  <2>1. file'.A = cmd[p].out.A /\ file'.M = cmd[p].out.M
    <3>1. Write(p) BY ReplacedByWrite
    <3> QED BY <3>1 DEF Write
  <2>2. Spares(wrote, file, cmd[p].out) BY DEF Careful, Sound, At
  <2> QED BY <2>1, <2>2, SameSections
<1>2. IInv /\ Careful /\ [Next]_vars => [Kept]_vars BY <1>1
<1> QED BY <1>2, CarefulInductive, PTL DEF Spec, UserEntriesSurvive, Kept

(* Only its own step takes a process from "read".                           *)
LEMMA ReadByItself ==
  ASSUME IInv, NEW p \in Procs, [Next]_vars, At(p, "read"), ~At(p, "read")'
  PROVE  Read(p)
<1>0. \A q \in Procs : cmd[q] \in Cmds BY DEF IInv, TypeOK, Cmds
<1>1. ASSUME NEW q \in Procs, Command(q) PROVE Read(p)
  <2>1. CASE q # p
    <3>1. CASE Write(q)
      <4>1. cmd'[p] = [cmd[p] EXCEPT !.stale = ~At(p, "idle")] BY <2>1, <3>1 DEF Write
      <4>2. cmd'[p].at = cmd[p].at BY <1>0, <4>1 DEF Cmds
      <4> QED BY <4>2 DEF At
    <3>2. CASE ~Write(q)
      <4>1. PICK c : cmd' = [cmd EXCEPT ![q] = c]
        <5>1. CASE Read(q) BY <5>1, ReadMakes DEF Makes
        <5>2. CASE ~Read(q)
          BY <1>1, <3>2, <5>2 DEF Command, Start, Load, WriteRaises, Save, SaveRaises, NextJob,
             Crash
        <5> QED BY <5>1, <5>2
      <4>2. cmd'[p] = cmd[p] BY <2>1, <4>1 DEF IInv, TypeOK
      <4> QED BY <4>2 DEF At
    <3> QED BY <3>1, <3>2
  <2>2. CASE q = p
    BY <1>1, <2>2 DEF At, Command, Start, Load, Write, WriteRaises, Save, SaveRaises, NextJob,
       Crash
  <2> QED BY <2>1, <2>2
<1>2. ASSUME User PROVE FALSE
  <2>1. cmd'[p].at = cmd[p].at BY <1>2, UserMovesNone
  <2> QED BY <2>1 DEF At
<1> QED BY <1>1, <1>2 DEF Next, Resting, vars, At

(* What was synced or switched stays so: the same job run again writes      *)
(* nothing and owns what it owned, for any set of names.                    *)
THEOREM SecondRunIdle == Spec => SecondRunIsIdle
<1> DEFINE Again ==
      \A p \in Procs : At(p, "read") /\ ~At(p, "read")' /\ file.ok
                       /\ settled = cmd[p].job /\ cmd[p].own = led =>
        cmd'[p].at = "save" /\ cmd'[p].new = led
<1>1. IInv /\ Careful /\ [Next]_vars => Again
  <2> SUFFICES ASSUME IInv, Careful, [Next]_vars, NEW p \in Procs, At(p, "read"),
                      ~At(p, "read")', file.ok, settled = cmd[p].job, cmd[p].own = led
               PROVE  cmd'[p].at = "save" /\ cmd'[p].new = led
    OBVIOUS
  <2>1. Read(p) BY ReadByItself
  <2>0. PICK failed \in SUBSET Names : \E c : Makes(p, Edit(p, failed), c)
    BY <2>1, ReadMakes
  <2>2. PICK c : Makes(p, Edit(p, failed), c) BY <2>0
  <2> DEFINE e == Edit(p, failed)
  <2> HIDE DEF e
  <2>3. Makes(p, e, c) BY <2>2 DEF e
  <2> USE DEF Makes
  <2>4. cmd'[p] = c BY <2>3 DEF IInv, TypeOK
  <2>5. settled # NoJob
    <3>1. JobOK(cmd[p]) BY DEF Careful, Sound
    <3> QED BY <3>1 DEF JobOK, NoJob, At
  <2>6. AtRest(tool, file, cmd[p].own, cmd[p].job) BY <2>5 DEF Careful
  <2>7. /\ file \in File /\ cmd[p].own \in Own /\ cmd[p].job \in Job /\ tool \in Tools
    BY DEF IInv, TypeOK, File
  <2>8. e = EditOf(file, cmd[p].own, cmd[p].job, failed) BY DEF e, Edit, EditOf
  <2>9. ~e.writes /\ ~e.error /\ e.new = cmd[p].own BY <2>6, <2>7, <2>8, RestIsIdle
  <2> QED BY <2>3, <2>4, <2>9 DEF AfterRead
<1>2. IInv /\ Careful /\ [Next]_vars => [Again]_vars BY <1>1
<1> QED BY <1>2, CarefulInductive, PTL DEF Spec, SecondRunIsIdle, Again

(* Without a crash, a failed save or an overlap, what the ledger, or the    *)
(* one command under way, owns covers every entry of crossby's.             *)
THEOREM AccountedInductive ==
  ASSUME "codex" \notin Fragile PROVE Spec => [](IInv /\ Careful /\ Accounted)
<1>1. Init => Accounted BY InitAccounted
<1>2. IInv /\ Careful /\ Accounted /\ [Next]_vars => Accounted' BY AccountedStep
<1> QED BY <1>1, <1>2, CarefulInductive, PTL DEF Spec

(* Without a crash, a failed save or an overlap, every entry crossby wrote  *)
(* can still be revoked when no command is under way; a config.toml that    *)
(* does not parse is excluded, for there the DECLARE surface owns nothing.  *)
THEOREM EveryEntryIsOwned ==
  ASSUME "codex" \notin Fragile PROVE Spec => []EveryEntryOwned
<1>1. Accounted => EveryEntryOwned
  BY DEF Accounted, EveryEntryOwned, At, Covers
<1> QED BY <1>1, AccountedInductive, PTL

(* A clear that ends without an error leaves nothing of a scene's switched  *)
(* off, under the same condition.                                           *)
THEOREM ClearLeavesNothing ==
  ASSUME "codex" \notin Fragile PROVE Spec => ClearReverts
<1> DEFINE Clear ==
      \A p \in Procs : At(p, "save") /\ At(p, "next")' /\ trouble' = {} /\ ~cmd[p].stale
                       /\ file.ok /\ ~cmd[p].error
                       /\ cmd[p].job.kind = "declare" /\ cmd[p].job.want = {} =>
        \A n \in Names : file.M[n] # "ours"
<1>1. IInv /\ Careful /\ Accounted /\ [Next]_vars => Clear
  <2> SUFFICES ASSUME IInv, Careful, Accounted, [Next]_vars, NEW p \in Procs, At(p, "save"),
                      At(p, "next")', trouble' = {}, ~cmd[p].stale, file.ok, ~cmd[p].error,
                      cmd[p].job.kind = "declare", cmd[p].job.want = {}
               PROVE  \A n \in Names : file.M[n] # "ours"
    BY Zenon
  <2>1. trouble = {} BY TroubleStays
  <2>2. AtRest(tool, file, cmd[p].new, cmd[p].job) BY DEF Careful, Sound, At
  <2>3. cmd[p].new.M = {} BY <2>2 DEF AtRest
  <2>4. Covers(cmd[p].new, file) BY <2>1 DEF Accounted, Owing, At
  <2> QED BY <2>3, <2>4 DEF Covers
<1>2. IInv /\ Careful /\ Accounted /\ [Next]_vars => [Clear]_vars BY <1>1
<1> QED BY <1>2, AccountedInductive, PTL DEF Spec, ClearReverts, Clear
=============================================================================
