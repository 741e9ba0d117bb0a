------------------------------ MODULE HookSync ------------------------------
(* Hooks, read from the tools' own files, merged, and written into the      *)
(* files of other tools (sync/readers.py, sync/hooks.py, and what cli/      *)
(* sync.py and sync/__init__.py do around them).                            *)
(*                                                                          *)
(* A hook is a command under a canonical event.  Every tool keeps an ordered *)
(* list of entries per event; an entry has a matcher, which says for which  *)
(* tool calls its commands run, and in the claude-shaped files may hold     *)
(* several commands.  What a sync writes into one tool is what a later sync *)
(* reads from it, so the readers and the writers form a loop.  HookEntries  *)
(* has what is done to one list.                                            *)
(*                                                                          *)
(* Left out: timeouts, descriptions and failClosed, which are only added;   *)
(* the names of agy's containers; events that behave as one of these three; *)
(* the order in which several hooks are written.  A writer is one step here; *)
(* OwnedEntries takes its read and its write apart.                         *)
EXTENDS HookEntries, FiniteSets

CONSTANTS Early,      \* the hooks a user may have before crossby is run
          Groups,     \* the sets of tools that may be installed
          Scopes,     \* canonical scopes a hand may write
          MaxRuns,    \* bound on syncs
          MaxEdits    \* bound on edits

ASSUME HookSyncAssumption ==
    /\ IsFiniteSet(Hooks) /\ Early \subseteq Hooks /\ Scopes \subseteq SUBSET Everything
    /\ \A T \in Groups : T \subseteq {"claude", "codex", "cursor", "copilot", "agy"}
    /\ MaxRuns \in Nat /\ MaxEdits \in Nat

VARIABLES
    tools,   \* the installed tools
    file,    \* the entries of each event in the file of each tool
    legacy,  \* the event arrays crossby <= 0.12 left at the top of cursor's file
    flag,    \* [features] of codex' config.toml: hooks, and its old name
    broken,  \* the tools whose file does not parse
    led,     \* the saved ledger: the hooks owned in each tool
    run,     \* the sync in progress
    still,   \* ghost: the last syncs, all alike, with nothing in between
    runs, edits

vars == <<tools, file, legacy, flag, broken, led, run, still, runs, edits>>

-----------------------------------------------------------------------------
(* The event arrays of a file, and the events a tool has.                   *)

Slots == {"pre", "shell", "stop", "note"}
Supports(t, h) == h \in Notes => t = "claude"

-----------------------------------------------------------------------------
(* Readers.                                                                 *)

(* What the entries of one tool say of a hook: nothing, or for which tools  *)
(* it runs; {} is all of them and wins.                                     *)
Unioned(scopes) == IF {} \in scopes THEN {} ELSE UNION scopes

ScopesIn(list, h) == {MatcherTools(list[i].scope) : i \in Holding(list, h)}

(* Cursor's shell event is folded back into pre_tool_use, where its lack of *)
(* a scope yields to a scope.                                               *)
ReadScopes(t, f, old, h) ==
    LET list == f[Event(h)] IN
    CASE t = "copilot" -> IF Present(list, h) THEN {{}} ELSE {}
      [] t = "cursor" ->
           IF \E s \in Slots : f[s] # <<>>
           THEN IF Present(list, h) THEN {Unioned(ScopesIn(list, h))}
                ELSE IF h \in Guards /\ Present(f["shell"], h) THEN {{}} ELSE {}
           ELSE IF h \in Guards THEN ScopesIn(old, h) ELSE {}
      [] t = "agy" /\ h \notin Guards -> IF Present(list, h) THEN {{}} ELSE {}
      [] OTHER -> ScopesIn(list, h)

NoData == [hooks |-> {}, tools |-> [h \in Hooks |-> {}]]

(* Several tools' hooks are merged by event and command.                    *)
DiscoverHooks(sources) ==
    LET found(h) == UNION {ReadScopes(t, file[t], legacy, h) : t \in sources}
    IN  [hooks |-> {h \in Hooks : found(h) # {}},
         tools |-> [h \in Hooks |-> IF found(h) = {} THEN {} ELSE Unioned(found(h))]]

-----------------------------------------------------------------------------
(* Writers.                                                                 *)

(* Mutant: the shell event is written for a new entry only. *)
UpsertMirrorsNew(t, f, h, canonical, owned) ==
    LET event == Event(h)
        scoped == Scoped(t, event)
        names == IF t \in {"cursor", "agy"} THEN TranslateTools(t, canonical) ELSE canonical
    IN  CASE ClaudeShaped(t) -> [f EXCEPT ![event] = ClaudeUpsert(t, @, h, names, owned)]
          [] t = "copilot" -> [f EXCEPT ![event] = CopilotUpsert(@, h)]
          [] t = "cursor" ->
               [f EXCEPT ![event] = CursorUpsert(@, h, names, scoped, owned),
                         !["shell"] = IF scoped /\ "Shell" \in names /\ ~Present(f[event], h)
                                      THEN CursorUpsert(@, h, {}, FALSE, FALSE) ELSE @]

(* One hook into the file of one tool.  A guard that covers the shell is    *)
(* mirrored, unscoped, onto Cursor's shell event.                           *)
Upsert(t, f, h, canonical, owned) ==
    LET event == Event(h)
        scoped == Scoped(t, event)
        names == IF t \in {"cursor", "agy"} THEN TranslateTools(t, canonical) ELSE canonical
    IN  CASE ClaudeShaped(t) -> [f EXCEPT ![event] = ClaudeUpsert(t, @, h, names, owned)]
          [] t = "copilot" -> [f EXCEPT ![event] = CopilotUpsert(@, h)]
          [] t = "cursor" ->
               [f EXCEPT ![event] = CursorUpsert(@, h, names, scoped, owned),
                         !["shell"] = IF scoped /\ "Shell" \in names
                                      THEN CursorUpsert(@, h, {}, FALSE, FALSE) ELSE @]

Removed(t, f, h) ==
    [f EXCEPT ![Event(h)] = Without(@, h),
              !["shell"] = IF h \in Guards THEN Without(@, h) ELSE @]

(* crossby <= 0.12 left Cursor's arrays at the top level, where Cursor does *)
(* not look.                                                                *)
Migrate(target, e) ==
    IF \E h \in e.cmds : Present(target, h) THEN target
    ELSE Append(target, [e EXCEPT !.scope = TranslateTools("cursor", MatcherTools(@))])

MigrateLegacy(f, old) == [f EXCEPT !["pre"] = FoldLeft(Migrate, @, old)]

(* The whole file of a tool: hooks of events it has, then the revocations.  *)
Merged(t, f, data, own) ==
    LET kept == {h \in data.hooks : Supports(t, h)}
    IN  FoldSet(LAMBDA h, g : Removed(t, g, h),
                FoldSet(LAMBDA h, g : Upsert(t, g, h, data.tools[h], h \in own), f, kept),
                own \ data.hooks)

Created(t, f, data) ==
    {h \in data.hooks : Supports(t, h) /\ ~Present(f[Event(h)], h)}

(* config.toml of codex: enabled for a hook that is kept, otherwise only    *)
(* the old name is replaced, with its value.                                *)
Enabled(enable) ==
    [ok |-> TRUE, old |-> "none",
     hooks |-> IF enable THEN "on" ELSE IF flag.hooks = "none" THEN flag.old ELSE flag.hooks]

EnsureFlag(enable) ==
    IF ~flag.ok \/ ((enable => flag.hooks = "on") /\ flag.old = "none") THEN flag
    ELSE Enabled(enable)

CodexFlag(data, own) ==
    IF \E h \in data.hooks : Supports("codex", h) THEN EnsureFlag(TRUE) ELSE EnsureFlag(FALSE)

-----------------------------------------------------------------------------
(* A sync: discover, write each target, save the ledger.                    *)

AllTools == UNION Groups
Nobody == [t \in AllTools |-> {}]
Nothing == [s \in Slots |-> <<>>]
NoMode == [from |-> {}, to |-> {}, port |-> FALSE]
(* A sync: the mode, what was discovered, the ledger it loaded, the targets *)
(* left, the ownership to record and whose; whether nothing failed and no   *)
(* hand edited meanwhile, and whether cursor's old arrays were moved.       *)
Idle == [at |-> "idle", mode |-> NoMode, data |-> NoData, own |-> Nobody, todo |-> {},
         pend |-> Nobody, good |-> {}, smooth |-> TRUE, moved |-> FALSE]
Moved == [mode |-> NoMode, data |-> NoData, n |-> 0]

(* crossby sync --from a tool, to one or all of the others; or the wizard,  *)
(* which merges all tools and asks whether to port what it found.           *)
Modes ==
    {[from |-> {s}, to |-> T \ {s}, port |-> TRUE] :
        s \in tools, T \in {tools} \cup {{t} : t \in tools}}
    \cup {[from |-> tools, to |-> tools, port |-> p] : p \in BOOLEAN}
Wizard(mode) == mode.from = tools

(* What a hand may write of the hooks hs into the file of t.                *)
HandEntries(t, hs) ==
    {Entry(h, TranslateTools(t, s)) :
        h \in hs \cap Guards, s \in IF t = "copilot" THEN {{}} ELSE Scopes}
    \cup {Entry(h, {}) : h \in {g \in hs \ Guards : Supports(t, g)}}
ByHand(t) ==
    {Nothing} \cup
    UNION {{[Nothing EXCEPT ![Event(h)] = <<e>>] : e \in HandEntries(t, {h})} : h \in Early}
NoFlag(ok) == [ok |-> ok, hooks |-> "none", old |-> "none"]
Flags == [ok : {TRUE}, hooks : {"none", "off"}, old : {"on"}] \cup {NoFlag(FALSE)}

(* Any tool may have an entry written by hand; codex any flag, or a file    *)
(* that cannot be edited; cursor what crossby <= 0.12 wrote.                *)
Init ==
    /\ tools \in Groups
    /\ file \in [AllTools -> UNION {ByHand(t) : t \in AllTools}]
    /\ \A t \in AllTools : file[t] \in IF t \in tools THEN ByHand(t) ELSE {Nothing}
    /\ legacy \in {<<>>} \cup
         IF "cursor" \in tools /\ file["cursor"] = Nothing
         THEN {<<Entry(h, s)>> : h \in Early \cap Guards, s \in Scopes \ {All, {Regex}}}
         ELSE {}
    /\ flag \in IF "codex" \in tools THEN Flags ELSE {NoFlag(TRUE)}
    /\ broken = {} /\ led = Nobody /\ run = Idle /\ still = Moved
    /\ runs = 0 /\ edits = 0

(* A source that cannot be read is an error row of every writer.            *)
Refuses ==
    /\ run.at = "idle" /\ runs < MaxRuns
    /\ \E mode \in Modes : mode.from \cap broken # {}
    /\ runs' = runs + 1 /\ still' = Moved
    /\ UNCHANGED <<tools, file, legacy, flag, broken, led, run, edits>>

Start ==
    /\ run.at = "idle" /\ runs < MaxRuns
    /\ \E mode \in Modes :
         /\ mode.to # {} /\ mode.from \cap broken = {}
         /\ run' = [Idle EXCEPT !.at = "write", !.mode = mode, !.todo = mode.to, !.own = led,
                      !.data = IF mode.port THEN DiscoverHooks(mode.from) ELSE NoData]
         /\ still' = IF still.mode = mode THEN still ELSE Moved
    /\ runs' = runs + 1
    /\ UNCHANGED <<tools, file, legacy, flag, broken, led, edits>>

(* A writer with nothing to write and nothing to revoke leaves its file     *)
(* alone.                                                                   *)
HasWork(t) == run.data.hooks # {} \/ run.own[t] # {}
Migrated(t) == IF t = "cursor" /\ HasWork(t) THEN MigrateLegacy(file[t], legacy) ELSE file[t]

(* The result of one writer is noted.                                       *)
Done(t, good, pend) ==
    run' = [run EXCEPT !.todo = @ \ {t}, !.at = IF run.todo = {t} THEN "save" ELSE "write",
                       !.good = IF good THEN @ \cup {t} ELSE @, !.pend[t] = pend,
                       !.moved = @ \/ legacy' # legacy,
                       !.smooth = @ /\ good /\
                         (t = "codex" /\ flag.ok => flag' = CodexFlag(run.data, run.own[t]))]

(* The flag that cannot be edited in place, or written, is left.            *)
FlagStep(t) ==
    IF t = "codex" THEN flag' \in {flag, CodexFlag(run.data, run.own[t])} ELSE flag' = flag

Write(t) ==
    /\ run.at = "write" /\ t \in run.todo /\ (t \in broken => ~HasWork(t))
    /\ file' = [file EXCEPT ![t] = Merged(t, Migrated(t), run.data, run.own[t])]
    /\ legacy' = IF t = "cursor" /\ HasWork(t) THEN <<>> ELSE legacy
    /\ FlagStep(t)
    /\ Done(t, TRUE, (run.own[t] \cap run.data.hooks) \cup Created(t, Migrated(t), run.data))
    /\ UNCHANGED <<tools, broken, led, still, runs, edits>>

(* The target does not parse, or its write raises; by then codex' flag has  *)
(* been set.                                                                *)
WriteFails(t) ==
    /\ run.at = "write" /\ t \in run.todo /\ HasWork(t)
    /\ IF t \in broken THEN flag' = flag ELSE FlagStep(t)
    /\ legacy' = legacy
    /\ Done(t, FALSE, {})
    /\ UNCHANGED <<tools, file, broken, led, still, runs, edits>>

(* Ownership is recorded for the writers that did not fail.                 *)
Save ==
    /\ run.at = "save"
    /\ led' = [t \in AllTools |-> IF t \in run.good THEN run.pend[t] ELSE led[t]]
    /\ run' = [run EXCEPT !.at = "flag"]
    /\ UNCHANGED <<tools, file, legacy, flag, broken, still, runs, edits>>

(* The save raises and is logged.                                           *)
SaveFails ==
    /\ run.at = "save"
    /\ run' = [run EXCEPT !.at = "flag", !.smooth = FALSE]
    /\ UNCHANGED <<tools, file, legacy, flag, broken, led, still, runs, edits>>

(* crossby dies: what was written stays, and was not recorded.              *)
Dies ==
    /\ run.at \in {"write", "save"}
    /\ run' = Idle /\ still' = Moved
    /\ UNCHANGED <<tools, file, legacy, flag, broken, led, runs, edits>>

(* The old name of codex' flag is replaced even when codex is the source.   *)
Ends ==
    /\ run.at = "flag"
    /\ LET new == IF run.mode.from = {"codex"} THEN EnsureFlag(FALSE) ELSE flag
       IN  /\ flag' \in {flag, new}
           /\ still' = IF run.smooth /\ flag' = new
                       THEN [mode |-> run.mode, data |-> run.data,
                             n |-> IF run.moved THEN 0 ELSE IF still.n < 2 THEN still.n + 1 ELSE 2]
                       ELSE Moved
    /\ run' = Idle
    /\ UNCHANGED <<tools, file, legacy, broken, led, runs, edits>>

-----------------------------------------------------------------------------
(* The user edits the file of a tool.                                       *)

(* Ghosts: a hand between two syncs, or during one.                         *)
Disturbs ==
    /\ still' = Moved
    /\ run' = IF run.at = "idle" THEN run ELSE [run EXCEPT !.smooth = FALSE]

Edited(t, slot, list) ==
    /\ edits < MaxEdits /\ t \notin broken
    /\ file' = [file EXCEPT ![t][slot] = list]
    /\ edits' = edits + 1 /\ Disturbs
    /\ UNCHANGED <<tools, legacy, flag, broken, led, runs>>

UserAdds(t) ==
    \E e \in HandEntries(t, Hooks), h \in Hooks :
      /\ h \in e.cmds /\ Len(file[t][Event(h)]) < 2
      /\ Edited(t, Event(h), Append(file[t][Event(h)], e))
UserMirrors(h) ==
    /\ "cursor" \in tools /\ file["cursor"]["shell"] = <<>>
    /\ Edited("cursor", "shell", <<Entry(h, {})>>)
UserJoins(t, h) ==
    /\ ClaudeShaped(t)
    /\ \E i \in DOMAIN file[t]["pre"] :
         /\ h \notin file[t]["pre"][i].cmds
         /\ Edited(t, "pre", [file[t]["pre"] EXCEPT ![i].cmds = @ \cup {h}])
UserRescopes(t) ==
    /\ t # "copilot"
    /\ \E i \in DOMAIN file[t]["pre"], s \in Scopes :
         /\ file[t]["pre"][i].scope # TranslateTools(t, s)
         /\ Edited(t, "pre", Rescoped(file[t]["pre"], i, TranslateTools(t, s)))
UserRemoves(t, h) ==
    /\ Present(file[t][Event(h)], h)
    /\ Edited(t, Event(h), Without(file[t][Event(h)], h))

UserBreaks(t) ==
    /\ edits < MaxEdits /\ t \notin broken
    /\ broken' = broken \cup {t} /\ edits' = edits + 1 /\ Disturbs
    /\ UNCHANGED <<tools, file, legacy, flag, led, runs>>
UserRepairs(t) ==
    /\ t \in broken
    /\ broken' = broken \ {t} /\ Disturbs
    /\ UNCHANGED <<tools, file, legacy, flag, led, runs, edits>>

(* Between two syncs nothing need happen.                                   *)
Resting == run.at = "idle" /\ UNCHANGED vars

User ==
    \/ \E t \in tools : UserAdds(t) \/ UserRescopes(t) \/ UserBreaks(t) \/ UserRepairs(t)
    \/ \E t \in tools, h \in Guards : UserJoins(t, h)
    \/ \E t \in tools, h \in Hooks : UserRemoves(t, h)
    \/ \E h \in Guards : UserMirrors(h)

Sync ==
    \/ Refuses \/ Start \/ Save \/ SaveFails \/ Dies \/ Ends
    \/ \E t \in tools : Write(t) \/ WriteFails(t)

Next == Sync \/ User \/ Resting

Spec == Init /\ [][Next]_vars

-----------------------------------------------------------------------------
(* Properties.                                                              *)

(* Every variable has its type.                                             *)
TypeOK ==
    /\ tools \in Groups /\ broken \subseteq tools
    /\ \A t \in AllTools, s \in Slots : \A i \in DOMAIN file[t][s] :
         file[t][s][i].cmds \subseteq Hooks /\ file[t][s][i].cmds # {}
    /\ led \in [AllTools -> SUBSET Hooks]
    /\ run.at \in {"idle", "write", "save", "flag"} /\ run.todo \subseteq tools
    /\ still.n \in 0..2 /\ runs \in 0..MaxRuns /\ edits \in 0..MaxEdits

(* An entry that also holds a hook crossby owns has the scope of that hook. *)
Shares(t, list, h, own) == \E i \in Holding(list, h) : list[i].cmds \cap (own \ {h}) # {}

(* What a hand wrote stands: no sync, from whichever source and after       *)
(* whatever edits, makes a hook that crossby does not own in a file run for *)
(* fewer tool calls, or takes it out.  (An entry without a matcher in a     *)
(* claude-shaped file is the exception: it is given the scope of the        *)
(* source.)                                                                 *)
HandScopeStands ==
    [][\A t \in tools, s \in Slots, h \in Hooks :
         LET list == file[t][s] IN
         /\ Present(list, h) /\ t \in run.todo /\ t \notin run'.todo
         /\ h \notin run.own[t] /\ ~Shares(t, list, h, run.own[t])
         /\ ~(ClaudeShaped(t) /\ s = "pre" /\ \E i \in Holding(list, h) : list[i].scope = {})
         => Reaches(t, s, list, h) \subseteq Reaches(t, s, file'[t][s], h)]_vars

(* After a sync that ended well a hook of the source runs in every target   *)
(* that has its event, for every tool call it ran for in the source; in     *)
(* Cursor for the shell event too.                                          *)
GuardEverywhere ==
    still.mode # NoMode /\ run.at = "idle" =>
      \A t \in still.mode.to, h \in still.data.hooks : Supports(t, h) =>
        LET list == file[t][Event(h)]
            names == TranslateTools(t, still.data.tools[h]) IN
        /\ Present(list, h)
        /\ \/ Reach(names) \subseteq Reaches(t, Event(h), list, h)
           \/ \E i \in Holding(list, h) : Regex \in list[i].scope
           \/ Shares(t, list, h, led[t])
        /\ t = "cursor" /\ h \in Guards /\ "Shell" \in names => Present(file[t]["shell"], h)
        /\ t = "codex" /\ flag.ok => flag.hooks = "on" /\ flag.old = "none"

(* Readers and writers settle: a sync from one tool that is repeated has    *)
(* nothing left to change.                                                  *)
Target(t) == t \in run.todo /\ t \notin run'.todo
OneToolSettles ==
    [][\A t \in tools :
         /\ Target(t) /\ still.mode = run.mode /\ ~Wizard(run.mode)
         => UNCHANGED <<file, legacy, flag>>]_vars

(* The wizard, which reads back what it wrote in other tools' names, has    *)
(* nothing left after the second time.  (Not while hooks are joined in one  *)
(* entry by hand: a scope that one of them is given is read as the other's, *)
(* so that every time carries it one tool further.)                         *)
Joined ==
    \E t \in tools : \E i \in DOMAIN file[t]["pre"] :
       \E h, g \in file[t]["pre"][i].cmds : h # g
WizardSettles ==
    [][\A t \in tools :
         /\ Target(t) /\ still.mode = run.mode /\ still.n >= 2 /\ Wizard(run.mode) /\ ~Joined
         => UNCHANGED <<file, legacy, flag>>]_vars

(* Readers and writers settle, whoever the sync is for.                     *)
SyncSettles == OneToolSettles /\ WizardSettles
=============================================================================
