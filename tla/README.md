# Verification of crossby

crossby keeps the configuration of several AI coding tools in step: it syncs
rules, skills, agents, hooks, MCP servers and permissions into each tool's own
files, activates named *scenes* (a filtered view of them), launches tools, and
serves them in a browser terminal. This directory holds TLA+ models of the parts
where order, failure and concurrency matter, the TLC runs that check them, and
TLAPS proofs about them. Source paths below are relative to `src/crossby/`.

## 1. Inventory

| Component | State it keeps | Operations | What is hard | What makes it correct |
|---|---|---|---|---|
| Scene engine, PROJECT half (`scenes/engine.py`, `scenes/projection.py`) | skills/agents directories of the project, their `.bak` siblings, the projection `.crossby/scene/active` | `apply_scene`, `clear_scene` | several durable writes per path, a crash between any two, a user who edits meanwhile | the exact baseline can always be put back; no user content is lost |
| Ownership ledger (`sync/ownership.py`) | `.crossby/owned.json`: `scene_paths`, owned hooks, permissions, servers, DECLARE keys | load, record, clear, save the whole file | a save that fails after the disk changed, two processes | the ledger explains everything crossby wrote and claims nothing else |
| Directory writers (`sync/skills.py`, `sync/agents.py`, `config/linker.py`) | a tool's target directory and its `.crossby-managed` marker | link, copy, translate, back up | check-then-act on the file system, marker written last | unmarked directories are the user's |
| Sync engine and settings writers (`sync/__init__.py`, `sync/mcp.py`, `sync/permissions.py`) | the tools' settings files | `run_sync`: load ledger, write, revoke, save | partial failure, revocation of entries the user edited | only owned entries are revoked; every entry crossby wrote is owned |
| Hooks: readers and writers (`sync/readers.py`, `sync/hooks.py`) | the hooks of five tools, Cursor's shell event, Codex' feature flag | read, merge, translate, write, widen, migrate, revoke | what one sync writes another reads; each tool has its own names for tools and its own idea of a matcher | a guard reaches every tool whole; what a hand wrote is not narrowed; syncing settles |
| Scene activation (`services/scene_activation.py`, `scenes/state.py`) | `scene-state.json` | use, switch, clear, rollback | state file and ledger saved separately, tools that share a directory | state and disk agree or the user is told |
| DECLARE (`scenes/declare.py`) | owned keys in shared settings | apply, revert | shared with the user's own keys | a key the user wrote survives |
| Session-scoped launch (`scenes/launch.py`) | arguments and temporary files of one launch | plan, write, remove | — | — |
| Owned worktree launch (`scenes/worktree.py`, `utils/owned_launch.py`) | a private checkout with two ownership records, a process tree | prepare, create, run, clean up; `scene cleanup-worktree` | signals and failures at every step | changes in the checkout are never thrown away, and what stays is told of |
| Terminal session (`utils/pty_runner.py`) | a child on a pseudo-terminal, its master descriptor, scrollback, subscribers | constructor, write, resize, attach, detach, close | one reader thread, many callers; process and descriptor numbers are reused by the kernel | signals and bytes reach this session only; every viewer sees all output or is told; closing ends |
| Session registry (`web/sessions.py` `SessionManager`) | sessions, slots, listeners | create, close, shutdown | concurrent creates, exits at any time, shutdown | the limit holds; nothing is left running |
| Multiplexed stream (`web/sessions.py` `MultiplexedStream`) | pumps and a shared queue | open, pump, cut, close, interrupt | sessions created while it opens, full queue, teardown by several threads | every session is streamed once; nobody stays parked; an exit follows all output |
| HTTP server (`web/server.py`) | none of its own | requests, SSE | the keepalive thread; a browser that stays and stops reading | an event stream whose browser left ends |
| Brokered and headless sessions (`ai_tools/{base,headless,headless_cli,session_protocol,plan_process}.py`) | a child, its pipe, deadlines, one outcome | run, cancel, clean up | timeouts racing answers, handlers that never return | one outcome, no torn frame, the caller gets it back, the child goes |
| Tool adapters, hook runtime, handoff, subagent translation, scene resolution, CLI, UI | none | pure functions, tables, rendering | — | — |

They interact as follows. The CLI calls the activation service, which calls the
scene engine, which calls the directory writers, the DECLARE surfaces and the sync
engine; all of them meet in the ledger file and on the disk. The HTTP server
calls the registry; the registry owns terminal sessions and calls back the streams
that listen; streams attach to sessions. Launches, in a worktree or headless,
own a process tree each. `PROJECT.json` lists the hazards of all this, each at
the line where it bites, with the properties that would catch it.

## 2. Modules

| Module | Models |
|---|---|
| `ScenePath` | the PROJECT half of the engine with the ledger's `scene_paths` section and the steps of the directory writers |
| `SceneActivation` | `scene use` and `scene clear` over the state file and an engine reduced to units |
| `OwnedEntries` | entries in a settings file shared with the user, and the ledger that says which are crossby's, under overlapping commands |
| `HookEntries` | the entries of one hooks file: matchers, and what each writer does to the list for one hook |
| `HookSync` | hooks read from some tools and written into others, over `HookEntries` |
| `PtySession` | one terminal session |
| `SessionLifecycle` | what a session promises the registry; `PtySession` implements it, `SessionManager` relies on it |
| `SessionManager` | the registry and the opening half of the event stream |
| `MultiplexedStream` | the whole event stream, its pumps, handler and heartbeat |
| `OwnedWorktree` | a launch in a worktree of its own, and the cleanup command |
| `HeadlessSession` | one headless session: monitor, adapter, cleanup, child |
| `*Proofs` | the inductive invariants and theorems of the module they are named after (those of `HookEntries` are in `HookSyncProofs`, those of `OwnedWorktree` at the end of `SceneActivationProofs`) |
| `MC*` | symmetry sets, constant functions and exploration bounds for TLC |

### ScenePath

`disk` maps every target (`.agents/skills`, ...) and each of its backup names to
what is there: nothing, a file, a link with its literal destination, or a
directory that is empty, full (content without a marker) or marked, with its
device and inode as one id. `led` is the saved ledger and `mem` that of the running command: the one
survives a crash, the other is loaded at the start of a command and saved whole.

A command is a sequence of steps named by `pc`. Every durable operation of the
code is one step: `SaveCapture` (the save of a baseline), `Displace`
(`os.replace` of the directory to its backup), `SaveDisplaced`, the writer's
`WriteBackup` / `WriteDiscard` / `WriteUnlink` / `WriteLink` / `WriteCopy` /
`WriteMarker`, and on the way back `ClearIdentify`, `SaveIdentity`, `ClearOutput`,
`ClearRename`, `ClearUnlink`, `ClearRelink`, `ClearToAbsent`, `SaveClear`. Each save
has a counterpart that raises. `Crash` leaves the command anywhere. `UserEdit`,
`UserMove` and `UserCleans` are the user, at any moment, at most `MaxDrift` times
in a behaviour (an exhaustive bound, not an assumption of the proofs: `MaxDrift`
is any natural number there).

`Removable`, `RestoreAuthentic`, `Matches` and `Intact` are the engine's checks,
evaluated on the disk as it is at that step. A check and the system call right
behind it are one step, except where the code does enough between the two for an
edit to be plausible: the two validations of a restore are separate, and so are
each call of a writer. Targets are processed in any order. The writer that makes a link
falls back to a copy when `os.symlink` raises (`WriteInto`).

Not represented: contents of files, which skills a scene selects, dry runs, rows
and messages, and the ledger's other sections. The DECLARE half of both commands
saves the ledger before PROJECT begins, unchanged in this section.

### SceneActivation

What the engine changes is a set of units: a skills directory, shared by every tool
that reads it, or one DECLARE key of a tool. `effect` says which scene is in effect
on each; `left` which removable hooks and permissions are still there; `state` is
`scene-state.json` with its record per tool (mechanisms, hashes, revocations,
`recovery`). `uver` and `seen` count the user's edits of a file and how many of them
crossby's last write followed, which is all a hash can tell.

A command is a sequence of engine calls and saves: `Use` and `Clear` evaluate the
guards (`Strands` is UNSAFE_SWITCH, `OutgoingDrift` the drift refusal), `Revert` and the
apply report any set of error rows or raise in the middle, and a save raises before
or after it replaced the file. What the state file becomes is the code's own algebra,
definition by definition: `BuiltTools`, `Merged`, `Inherited`, `Reconciled`, `DropSkills`,
`RestoredState`, `ClearedState`. `doubt` is set by a kill, or where the command itself
says that recovery is incomplete; the invariants speak of settled states without it.

### OwnedEntries

One settings file with two sections: `A`, written by a sync (permissions.allow, or server
tables), and `M`, written by a scene's DECLARE surfaces (what is switched off). The
variable `tool` selects the surface: `claude` (a map of overrides), `deny` (a list of
names), `codex` (a flag inside a server's table, spliced line by line), `agy` (a flag in
JSON). An entry is `ours` or `users` (a ghost: the file does not say, only the ledger does),
and a switch may also have the opposite value (`other`). A command is one or two jobs; each
`Load`s the ledger, `Read`s the file, `Write`s an edited copy of what it read, and `Save`s the
whole ledger; commands of two processes interleave between these four. A write or a save may raise,
a surface may refuse, the file may be malformed, a command may die, and the user may edit
between any two steps.

### HookSync

`file` is an ordered list of entries per tool and event; an entry holds the commands that
run (several, in claude-shaped files) and its matcher as a set: `{}` without one, `All`, a set of
names, or an expression crossby cannot read. `DiscoverHooks` is the readers and their
merge, `Merged(t, ...)` the writer of tool `t`, built from the upserts of `HookEntries`; both translate tool names (Cursor has one name for Edit
and Write, agy has its own), so what a sync writes comes back to it changed. A writer widens the
matcher of an entry it finds, revokes what the ledger owns and the source lost, mirrors shell
guards into Cursor's second event, moves the arrays crossby up to 0.12 left in Cursor's file, and sets Codex'
feature flag first. A writer is one step; between writers, the save and the final flag edit the user may
edit, a write or the save may fail, and crossby may die.

### PtySession

A critical section under `_lock` is one step, because all it contains is
non-blocking. `_fd_lock` is held across `os.write`, which may block, so it is a
variable. The constructor (`stage`), the reader thread (`rpc`), each closer
(`cpc`), writer (`wpc`) and viewer (`vpc`) have their own position.

The environment is what makes the session hard, and it is explicit: the child's
process group may fork, print, stop reading and die; with `Unruly` a descendant
may leave the group (`setsid`), or a process may give its terminal up and live
on; and the kernel hands the number of a closed descriptor to the next session (`Recycled`).
`leader` distinguishes a zombie from a collected child, because a
signal sent to the number of a collected child may reach anyone.

`Finished` is a stuttering step of a session whose threads are all done, so that
TLC's deadlock check finds every other state in which nothing can happen.

### SessionManager

Critical sections under `_lock` are single steps, except the one in `create()`
that reads `session.running` twice: a child may exit between `ReapsExited` and
`Reserves`/`RefusesLimit`, so that section holds `lock` over two steps. Sessions
are what `SessionLifecycle` promises: running until they exit, and over when a
`close()` returns. `timedOut` records that `shutdown()` stopped waiting for a
create (`SHUTDOWN_DRAIN_SECONDS`); what it promises is conditional on that.

### MultiplexedStream

A pump thread per session moves its private channel into the bounded `queue`; the
handler thread writes the queue to the browser; the heartbeat notices a browser that left while
everything is quiet. Both write under one lock and without a timeout: `Stalls` parks the one that writes until the browser
reads (`Reads`) or leaves, and meanwhile the other cannot write either. A queue operation, a critical section and a test or setting of an Event are one
step each, so a close by one pump, a cut by another, the handler's `__exit__` and the heartbeat's
`interrupt()` interleave freely with a pump that is just attaching. `Wake`/`Evict` is the
eviction loop of `interrupt()` with its bounded number of tries. Events carry the
range of chunks they stand for, so that `Paint` can say whether the browser's picture has a gap.
A session here is what its viewers see of `PtySession`: it prints, ends, and has a channel.

### OwnedWorktree

The launch is one thread (`pc`); an interrupt raises KeyboardInterrupt at whatever point it
has reached (`cut` remembers where), and from there it unwinds as Python does: the finally blocks run,
and a later exception replaces an earlier one. The checkout (`ws`) is absent, half-made or bound to Git,
with one ownership record in its container and one in Git's private directory. The removal
(`clean`) is the same procedure for the launch and the command: check, status, remove,
unlink, rmdir; the tool and the user may change the checkout between any two of them (`since`).
Any Git command may fail; the process may be killed. `tool` follows the process group.

### HeadlessSession

The monitor (`m`) owns the deadline and the outcome; the adapter (`a`), in a thread of its own,
either talks JSON-RPC with a child (`style = "protocol"`) or runs a command and collects its output; the
cleanup (`c`) runs in whichever of the two starts it (`cby`), and its native abort (`ab`) in a third
thread. The completion lock (`comp`), the claim, the session's lock (`gate`) and the write lock of the pipe
(`slock`) are those of the code; a write that is given up half-way leaves `torn`. A status is one the adapter reports
or `complete()` finds (`Natural`; output that is not valid is one of them), or one that stops the session. Handlers may never return,
the child may do anything, the caller may cancel at any time.

## 3. Runs

| Run | Question | Result |
|---|---|---|
| `scene` | a linked target, a copied one and the canonical source; either one target with a user who edits between any two steps, or two and nobody edits; commands crash and saves fail at will: is the way back ever lost, is anything of the user's lost, is a record dropped too early? | passes |
| `activation` | activations, switches and clears, scoped and not, with error rows, exceptions, failed saves, rollbacks, kills and edits: is what is in effect on record and of one scene, are removals remembered, does a revert overwrite an edit? | passes |
| `owned` | syncs, scenes and clears of one file and one ledger, overlapping or in a row: does the ledger claim what it should and nothing else, does a second run write, does a clear revert? | passes |
| `hooks` | syncs between three pairs of tools, from one tool or by the wizard, over what hands wrote, edit, join and break: does a guard arrive whole, does a hand-written scope stand, does a sync from one tool, or the wizard, come to rest? | passes |
| `unruly` | two closers, a writer, a viewer, a child that may escape: do signals and input stay with this session; does it implement `SessionLifecycle`? | passes |
| `tame` | a child that stays in its group: is what a viewer is told of the end true, do closes and viewers end? | passes |
| `manager` | creates, closes, exits, shutdown and a stream interleaved: limit, slots, lost sessions | passes |
| `stream` | several threads close, cut and interrupt one event stream while sessions print, end and are created: does a teardown reach everybody? | passes |
| `stream_live` | one session whose channel and the queue overflow: is every gap told, is every exit reported, does a stream end with its threads, also when the browser stops reading? | passes |
| `worktree` | a launch and the cleanup command with interrupts, a kill, failing Git commands and changes at any point: is work ever thrown away, or left without a word? | passes |
| `headless` | monitor, adapter and cleanup with a cancellation and a deadline: one outcome, whole frames, does the caller get it back, does the child go? | passes |
| `orphan` | does a session that is over leave a child? | yes, section 4 |

**Bounds.** `scene`: targets are independent but for the shared ledger, the shared
projection and the saves of a whole ledger; two targets, one of which is the
canonical source, exercise those, and one target suffices for the rest. Two
backup names let a wrong one be chosen. Two user directories let one be
replaced by another. Two edits are needed for the user to undo an edit or to
act at both ends of a displacement.
`activation`: two tools that share a skills directory and one that does not, two scenes that declare
disjoint concerns; two faults or edits are a failed activation with a failing rollback, or a fault
on top of a drift. `owned`: two names, so that one is kept while another
is revoked; two overlapping commands, or three in a row (write, revoke, again); the user edits once,
or breaks the file and repairs it, and edits during an overlap only for the simplest surface.
`hooks`: two guards, of which one may have been there before crossby, a stop hook and one only
Claude has; the pairs bring a claude-shaped reader before every other kind of writer; three syncs are needed
to see that the wizard, which reads its own output back, is at rest after the second; one edit. For `WizardSettles`, a half of `SyncSettles`, the instance is
as large as the statement: where more guards are joined in chains the wizard needs more runs (section 4).
`unruly`/`tame`: two closers for the race of two closes (`unruly`); a viewer whose channel of two entries meets three chunks
(`tame`) comes to an orderly end or overflows, and then shows output from behind the gap before its mark. `manager`: two slots, so the limit is reached with one free
slot contested by two requests, and a third session after one has been reaped.
`stream`: two sessions, of which the late and quiet one is started by its creation while the other fills the
queue of one entry. `stream_live`: one session, because liveness multiplies, with a channel and a queue of two and three chunks:
the third evicts the first from the channel and the DESYNC stands behind the second, so that output after a gap is painted
before the cut; a channel of one entry never shows this.
`worktree`: two interrupts (the second in the unwinding of the first) and two changes (one before, one during a removal).
`headless`: four frames are a request, the child's request, a reply and an abort.

**Deadlock** is checked in `ScenePath`, `SceneActivation`, `OwnedEntries`, `HookSync` (which may only rest
between two syncs) and `PtySession`. `SessionManager`, `MultiplexedStream`, `OwnedWorktree` and
`HeadlessSession` may really stop: the threads are back and there is nothing left to do.

**Fairness.** `PtySession!FairSpec`: a thread that can run does (weak fairness of each
thread's steps); a lock that is free again and again is obtained (strong
fairness of `Retires`); a process that got SIGKILL dies. Timed waits (the grace
period, the settle wait) end because they have a timeout. Nothing is assumed of the child,
of the user, or of whoever might call `close()`. `tame` takes `Unruly = {}`: with a
process outside the group close can hang (section 4), and with a child that gives up
its terminal while it runs the reader stops waiting for its status after the
grace period and publishes none. `MultiplexedStream`: each thread of the server (handler, heartbeat, pumps,
creations that were begun) is scheduled, and the handler gets the lock of `_Heartbeat.write` when the heartbeat, which sleeps
between its writes, leaves it free again and again (strong fairness of `Write`). Nothing is assumed of the sessions or of the browser:
`Stalls`, `Reads` and `Disconnect` have no fairness, so that a browser may stop reading for good and park whoever writes. What
depends on it has that as a condition, `[]<>~Stalled`: no write waits for the browser for ever. `ExitReported`, and the half of
`StreamEnds` about a handler whose stream was cut while the browser stays, are stated for such a browser only; without the condition TLC finds
both violated by a handler parked in its write. That a browser that left ends the handler, and that all pumps of a closed stream end, needs no condition.
`HeadlessSession`: the monitor, the adapter, the cleanup and the abort take their steps and the deadline
expires; nothing is assumed of the handlers, of the child, or of a write that blocks.

## 4. Findings

**`orphan`**: a Codex or Cursor turn that fails publishes its result before its process is
closed (`ai_tools/base.py:526`, `codex.py:805`, `cursor.py:911`). If the caller cancels or the deadline passes before
the monitor's next checkpoint, `finalize_stop()` returns that result and no cleanup is ever run: the child and its
hooks stay. `docs/brokered-headless-verification.md:17` says cleanup kills the entire owned tree.

Smaller observations, met while modelling. Where a definition is named, it is in the module as a statement the code does
not keep, and no run lists it.

*Scenes.*
- A revert that fails for a directory of a scene without skills drops the tool's record although the directory is still
  projected (`services/scene_activation.py:424`, `IncompleteClearKeepsRecord`).
- `_restore_one_path` validates, saves the directory's identity and validates again; moving the backup back by hand in between
  satisfies the second validation, and the next statement removes what is at the target if it carries a marker
  (`scenes/engine.py:1147-1149`, `RecordedBaselineSurvives`).
- The marker of a copied directory is a write of its own (`sync/skills.py:345-349`, `OutputRecognised`): an interrupted copy
  leaves an unmarked directory that a plain clear refuses, so `AlwaysClearable` excepts writers that copy.
- `FileExistsError` from `os.symlink` is taken for a file system without links; the fallback copies into the user's directory and marks it.
- `safe_copy` then `safe_rmtree` removes what arrives in between; `UserContentSurvives` states exactly this exception.

*Ledger and settings.*
- "A dropped save simply retries next run" (`sync/__init__.py:486`) holds for what the next run writes, not for ownership:
  an entry that is already there is never claimed (`DroppedSaveIsRetried`).
- Nothing locks `owned.json` between processes: an overlap loses ownership, never invents it (`ClaimsOnlyOwn`).
- DECLARE over a malformed `config.toml` of Codex drops the ownership with a row that says skipped.
- Claude's `.mcp.json` is written before the approval; if the second write raises, the servers are never owned.

*Hooks.*
- `_widen_matcher` only widens (`sync/hooks.py:195`), but an entry without a matcher in a claude-shaped file, which runs for
  every tool call, is given the scope of the source (`sync/hooks.py:155-192`); `HandScopeStands` excepts it.
- Two owned commands that a hand joined in one entry overwrite each other's matcher, and narrow a command of the user's in it (`Shares`).
- Cursor's shell mirror stays when a guard's scope narrows away from Shell; one of a hand-written hook is never revoked; a hand-written
  shell entry of an owned command goes with it.
- The wizard reads back Copilot's unscoped copy and Cursor's Edit/Write collapse, so its second run broadens the user's own hook.
- Commands that a hand joined in one entry share its matcher (`sync/hooks.py:155-192`), so a scope that one of them is given by a sync is read
  as the other's by the next. Where g and h are joined in one tool and h and k in another, each run of the wizard carries a scope one link
  further: it comes to rest after as many runs as the chain has links, not after two. TLC shows it with three tools, three guards
  and two such edits; `WizardSettles` excepts joined entries.

*Terminal sessions and streams.*
- `close()` waits without a timeout for `_fd_lock` (`utils/pty_runner.py:384`), which a `write()` holds while the terminal's input
  buffer is full; SIGKILL to the group frees it only if nobody outside the group holds the terminal.
- The reader uses the descriptor without `_fd_lock`; if the join of `close()` times out it can read from the number after the next
  session got it (`OutputIsOwn`).
- Sessions popped as exited are not closed if `create()` then refuses at the limit (`web/sessions.py:308-318`, `DroppedAreClosed`).
- An output event evicted by a teardown's `interrupt()` may be followed by an exit event (`web/sessions.py:628`, `NoExitOverGap`);
  `NothingMissing` says when the browser is told.
- A channel that overflows loses its oldest chunk and gets the DESYNC behind the rest (`_force`, `utils/pty_runner.py:551-566`), so a
  viewer that fell behind is sent output after the gap first and is cut, and repainted, once it has read up to the mark (`CutComing`;
  `NoSilentGap` says that the mark is there, and nothing more is offered, before it shows any of that output).
- `_Heartbeat.write` has no timeout (`web/server.py:510-513`). A browser that stays connected and stops reading, which is also what fills the queue,
  parks the handler in it, and the heartbeat on its lock: the pumps of a cut stream end, but its handler and listener stay, and an exit that is queued is
  not sent, until the browser reads or goes away (`Stalled`).

*Worktrees and headless sessions.*
- An interrupt inside `Popen`, or a second one in the teardown, removes the checkout under a live tool (`KilledBeforeUnwinding`
  against `utils/owned_launch.py:41`); a second one in the `finally` of the setup leaves a checkout without a word.
- What arrives between `git status` and `git worktree remove` goes; so do ignored files. A crash between the removal and the unlink
  of the marker makes the cleanup command refuse the empty container.
- The event handler may be shown two terminal events of one session (`OneTerminal` against `ai_tools/headless.py:980-982`);
  the published outcome is one.

## 5. Proofs

Each `*Proofs` module has an inductive invariant, mostly called `IInv` (`Inductive` is `Spec => []IInv`),
and its preservation has one step per action. `TypeOK` follows from it, so the runs do not list it again.
Where a second property needs more, a further invariant is proved on top of the first. Every safety
property of the runs is a theorem, but for the wizard's half of `SyncSettles` of `hooks`.

`ScenePathProofs`, for all sets of targets, backups and directories, every
set of copying writers and every number of user edits, under `ScenePathAssumption` (the kinds of
names are disjoint): `TypeCorrect`, `AuthorityAlwaysSaved`, `FirstBaselineNeverReplaced`,
`UserContentAlwaysSurvives`, `DroppedWhenRestored`, `ProjectionOutlives`, `AlwaysAWayBack` and
`BaselineSurvives`.
The argument for `AuthorityAlwaysSaved` needs more than the property: a step that writes
scene output is allowed by `mem`, while the property speaks of `led`. `MemAgrees`
says that outside the save that records or drops a descriptor the two differ at most in the
displaced phase; `CommandPoint` says which descriptor each point of a command
works with and that what it is about to capture, or has just restored, is not scene
output; `BackupsAreUsers` says that nothing restored from a backup is scene output;
`DescriptorsWellFormed` that a recorded symlink or directory is the user's. That a captured
directory is the user's follows from the property itself: scene output
already has a descriptor and is not captured again. `UserContentSurvives` needs
`CopyStands`: what a writer is about to remove is what it copied, unless the user was there
since. Each conjunct is preserved by a lemma of its own (`TypeStep`, `DescriptorStep`,
`AgreeStep`, `OutputStep`, `CopyStep`).
`Clearing` is what a clear relies on while it goes from target to target: what it restored stands until the
descriptor is dropped (`RestoreStands`), a target it is done with links nowhere into the projection
(`ClearedUnlinked`), and no directory is in two places (`OneHome`: a move keeps the inode, so an inode found
at a target is not at a backup too). `DroppedWhenRestored` and `ProjectionOutlives` follow, whatever the user
does. The other two hold only while the user edits nothing. `Undisturbed` says what is where then: the baseline of
every recorded target is at the target, at its backup, or on its way between the two (`Homes`), the
projection stands as long as something links into it (`TreeStands`), what is not recorded is as the command
found it (`AsFound`), and the way back exists at every point inside a command too (`WayBack`), which is why
a kill at any point leaves `AlwaysClearable`.

`SceneActivationProofs`, for any finite set of tools, any assignment of mechanisms, directories and
files, any declarations and any number of faults and edits: `TypeCorrect`, `EveryEffectRecorded`,
`NeverTwoScenes`, `RemovalsStayRecorded` and `NeverRevertsBlindly`. `MechanismAssumption` states what
`scenes/mechanism.py` and `config/skills.py` guarantee of the table: skills are declared, projected or
unsupported; tools that share a skills directory project it; no settings file is a skills directory.
Four invariants, each proved from the ones before it:

- `Typed`: a command works from the state file it loaded, which only its own save can replace, and its
  scopes are of tools that file or the user named;
- `Accounted`: what is in effect at every stage. Between commands all of it is on record and of the scene of
  the state (`Backed`). When a switch starts its revert, whatever it does not revert is out of
  its reach and of the new scene already (`Switchable`, what `Strands` and the widened scope of the
  outgoing tools are for); after the revert only that is left (`Others`), after the apply only that
  and what was selected (`InEffect`). A clear rests on the reconciled records covering what it failed
  to remove. `doubt` excludes the outcomes the command itself reports as incomplete;
- `Owing`: a removed entry is on record, or among what the running activation removed and its next save
  adds. This one holds in doubt as well;
- `Hashing`: before the first fault the files of all keys in effect have a hash on record from
  no later than crossby's last write, so that a file the user edited since cannot pass the drift check; the
  checks of an activation cover the outgoing tools as well as those asked for.

What the state file becomes in each case (`NextState`, `ClearedState`, `ReconciledRecord`, `RestoredState`)
is characterised once, by lemmas on records and files (`NextFields`, `DropFields`, ...), and
cited by the steps.

`SessionManagerProofs`, for every
number of request threads, sessions, streams and slots (finite sets of threads and
sessions, at least one slot, and a lock value that is no thread's name), every property of the `manager` run:

- `SlotsAlwaysAccounted`: the two counters are the numbers of
  creates between their claim and their return, so neither goes below zero;
- `CapAlwaysHolds`: the limit is never passed. `Room` (running sessions and creates
  that may still start one fit together) is inductive because, as long as no shutdown
  began, a running session outside the registry belongs to a create whose slot is still
  claimed, and two such creates never have the same session (`Counted`). `ClosedStops`
  and `LockHeld` say why no shutdown falls between the counting and the claim;
- `NoLiveSessionEverLost`: `Kept` names who still has each running session;
- `ShutdownAlwaysStopsAll`: a shutdown that waited for the creates ends with none left
  and nothing running, because what it did not take was refused at registration;
- `EverySessionAlwaysStreamed`: `Heard` says that between its listener and its snapshot
  a stream misses nothing.

`OwnedEntriesProofs`, for any number of names, processes, commands and edits: `LedgerClaimsOnlyOwn`. The invariant adds
to the property what each process holds: the ownership it loaded is within what crossby wrote (`HeldIsOwn`), and what it
will save is within that and the copy it is about to put in place (`Pending`). That a save overwrites another's is then harmless,
because what it saves was true when it was loaded and `wrote` only grows.

Of the jobs themselves `OwnedEntriesProofs` has `UsersEntriesKept`, `SecondRunIdle`, `EveryEntryIsOwned` and `ClearLeavesNothing`.
`Careful` says of the edited copy a command holds that it spares the user's entries (`Spares`) and that the job, run again on it, would
find nothing to do (`AtRest`); `settled` is the job that ended last. For the last two, `Accounted` adds that, as long as nothing died, failed or
overlapped (`trouble = {}`), the saved ownership covers every entry of crossby's, or the one command under way has what is missing. They are
proved for `"codex" \notin Fragile`, as the run has it: with it they are false (section 4: DECLARE over a malformed
`config.toml` drops the ownership). The files of the other surfaces may be malformed at any time.

Of `OwnedWorktree` the end of `SceneActivationProofs` proves, for any number of interrupts and changes, `RemovalAlwaysSafe` and `AlwaysTold`.
`LaunchInv` is `LaunchTypeOK`, `ToolPoint` (where the launch is says what its tool may still be), `RemovalPoint` (where a removal is says what
it has seen: the records, and nothing protected but what came since) and `TellPoint` (where the launch is says what it owns, what is recorded
and what the user was told; a checkout that is bound and owned has both its records).

`HeadlessSessionProofs`, for any number of frames: `OutcomeAlwaysStands` and `WireAlwaysWhole`. `Race` says where the monitor and the adapter
may be while either holds the completion lock or has claimed; `Reasons` that nobody stops a session without a cause and that a cleanup starts once;
`Beginning` that the child is started, and its hooks registered, once; `Torn` that half a frame nobody is still writing on is the abort's, or its child is down.

`PtySessionProofs`, for any number of closers, writers and viewers, any capacity and any child: `SignalsAlwaysOwn`, `InputAlwaysOwn`,
`ClosedAlwaysOver`, `NoGapUntold`, `EndAlwaysToldTruly` and `LifecycleImplemented`, the refinement of `SessionLifecycle` step by step. `IInv` is `TypeOK`, `CountsOK`, `OneWorker` (of several closers one does
the work), `WorkDone` (its position says what it has done to the child and the descriptor), `LockHeld` (a writer at the
descriptor holds the lock) and `Retired` (who is about to close the descriptor has retired it).
`Followed` describes the channel of every viewer in its drain loop: what a subscriber has shown and what is queued for it are all that
was broadcast, in order (`Streams`); the channel of one that is no subscriber any more ends in a marker, an END only behind all of the output
(`Ends`). `NoGapUntold`, for any child, follows: a viewer that does not have all of the output (`HasAll`) is offered no more, and the
marker that cuts its stream is the last entry of its channel. That holds from the step that makes the gap, so it does not say that the viewer shows nothing from
behind the gap (section 4), but that the cut is certain before it does. `EndAlwaysToldTruly` assumes `Unruly = {}`, as the run `tame` does: `Tame` says that the reader then meets the end of
output only when the child is gone and publishes its status before anybody collects it. With a descendant that left
the group, or a process that gave up its terminal, a close may collect the child first and the status is unknown.

`MultiplexedStreamProofs`, for any number of sessions and pumps and any bounds of channel, queue and output: `NothingMissed`, from two invariants.
`Typed` is what channels, queues and hands may hold, and which points a pump can be at with it. `Following` has three parts:

- `Undisturbed`: a thread closes the stream or cuts a pump off only after a cut, for a browser that left, or on the handler's way out, so that while
  the handler serves a connected browser (`Served`) nothing is being torn down;
- `Sound`, of each session while `Served`. A session is either `Whole`: what was painted, the frame in the handler's hand and the events
  in the queue `Covers` the chunks up to some `t`, each once and in order, and the pump `Brings` the rest from its hand and its channel
  (`Flows`), whose end follows the last chunk; or it is `Marked`: its subscription overflowed, a DESYNC ends its channel or was
  met by its pump, and no exit is on its way that the browser could see before the cut;
- `Honest`: an exit that was painted on a stream that was not cut came after everything the session printed.

`NothingMissing` follows because the chunks a `Whole` session lacks are in its pump's reach, and those of a `Marked` one are announced by a cut that
nothing can take back.

A teardown reaches everybody, and this is in two theorems. `PumpsReached` needs no hypothesis: whoever closes the stream or cuts a pump
off is on the way to every pump attached before, and a pump that attaches later sees the mark (`Reaching`), so that a closed stream leaves no
pump parked. `TeardownReached` adds the handler, which is parked on the queue and needs a sentinel there that nobody evicts: `Rescue` counts. After the mark every
other thread puts at most once more, so of the capacity + 8 tries of an `interrupt` one succeeds if the sessions, and the creation under way, are
fewer; that is its first hypothesis, `Cardinality(Sessions) + 1 < Capacity + Slack` (the code makes 4096 + 8 tries, and at most 16 sessions run at once). The second
is about the heartbeat. It interrupts a stream nobody has cut yet, whose pumps may refill the queue as often as they like; should it lose
all of its tries, its last eviction could take a sentinel that a closer put in the meantime. `HeartbeatGetsThrough` says that it does not lose them all.
Neither is an idle hypothesis: with a `Slack` of 3 and two pumps whose channels hold 2, TLC finds `SentinelSurvives` violated.

`HookSyncProofs`, for any finite sets of hooks, any groups of tools and any number of syncs and edits: `GuardedEverywhere` and `HandStandsAlways`, over
what the writers do to one list of entries of any length (`WideningNeverNarrows`, `WideningCovers`, and, for entries that hold no command
too, `CursorNeverNarrows` and `ClaudeNeverNarrowsMatcher`). A writer folds an upsert over all the hooks of its source and a removal over those it
revokes, in an order nobody chose. What a step keeps the fold keeps, which is an induction on the
finite set of hooks: `SubsetInduction` (by the well-foundedness of the strict subset) gives `FoldExists`, that the fold is what its steps say, and from
it `UpsertsKeep` and `RemovalsKeep`, for whatever set of files is closed under the steps. `HandStandsAlways` takes for it the files in which a hook stands as a hand
left it (`Stands`); it holds because a hook not owned is widened and one that is there is never taken out by another's step. `GuardedEverywhere` takes
the files in which a hook has arrived (`GuardIn`): its own step puts it there, and those of the others leave it, unless they own the entry
they share. Around the writers, `Typed` says what files, data and matchers are made of and `Targets` that a sync has only the tools of its mode to write; `Halfway` is
`GuardEverywhere` for the targets a sync that goes well is done with, and `After` that the ledger saved then is the one the next statement is about.

`OneToolAlwaysSettles` is the half of `SyncSettles` about a sync from one tool. It compares two whole runs of a writer, the second over what the first left, so what a run
leaves is not a set of files closed under the steps, and the induction is on the hooks done by both at once. A writer does to each list what it does without
regard to the others (`UpsertLists`), so one list is followed. In it a hook finds one entry to touch, the same for both runs, since entries are only added at the end
(`TouchesPrefix`); what it gives that entry is one scope whatever was there, or the scope that was there, or that one widened (`Gifts`).
`Written` says what the first run has made of the list when the hooks of a set T are done, and `Rewritten` what the second has: the same entries; where only
widening hooks touch an entry, each finds the scope it asks for, as a scope once wide enough stays so (`WideningAbsorbs`); where one sets the scope,
the entry is from then on what it was when the first run had done as much. When all are done the two agree (`ListSettles`). A hook that is new in a file is owned by the second run and not by
the first, which is why `MergedSettles` takes the ownership that the first one recorded. Revocations commute with the upserts
of other hooks (`ListUpsertWithout`), so they do not disturb what has settled. Around the writer, `Steady` carries through a sync that goes well that its source, which is no
target of it, reads as it did; `Settled` beyond its end that every target sits (`Sits`: its writer would leave it, cursor's old arrays and codex' flag alone);
and `Repeats` into the next sync of the same mode that what it has yet to write sits.

Only model-checked: `WizardSettles`, the other half of `SyncSettles`. The wizard's targets are its sources, so that what it writes changes what it reads:
that this ends after the second run depends on how each pair of tools translates scopes, and holds only while no two hooks share an entry (section 4). And all liveness (`CloseReturns`,
`ViewersReleased`, `StreamEnds`, `ExitReported`, `RunReturns`, `TornDown`), which is out of the prover's reach.

## 6. Plan

What is left, in this order:

1. Proofs: `WizardSettles`, for which what every reader makes of what every writer leaves must be known, scope by scope.
2. The remaining ways to reach a child: `run_captured`, the OpenCode server and the SDK bridges, over `HeadlessSession`'s monitor.
3. The other loop of readers and writers, that of MCP servers and permissions, over the entries of `OwnedEntries`.
4. `scenes/launch.py`: the temporary files of a session-scoped launch.

## 7. Not modelled

- The contract checks on what an adapter returns (`ai_tools/base.py:595-606`), of which the last raises without a cleanup: `complete()` builds
  no result that they refuse, and the adapters return no other.
- The refusal on a corrupt ledger, which comes before anything happens; dry runs; rows and messages.
- The time between the confirmation prompt of `scene clear` and the clear (`cli/scene.py:627`): `SceneActivation` runs one
  command at a time and lets the user edit between commands.
- Windows: process groups and links there are other system calls with other guarantees.
- The SDK bridges of Claude and Copilot, the OpenCode server, `run_captured` and plan sessions: their control is partly
  that of libraries outside this repository.
- Pure functions over configuration text (translation, merging, parsing), rendering and
  prompts, argument builders and tool capability tables, handoff and the hook runtime: no state to check. They are most of the lines of the
  implementation (the adapters and the models of tools alone are a third of it), and a definition for
  each would repeat the table it stands for; this is why the models stand for a smaller part of the lines than of the program's control.
- HTTP routing, tokens and static files; the registry's operations are their only effect here.
