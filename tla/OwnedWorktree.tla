--------------------------- MODULE OwnedWorktree ---------------------------
(***************************************************************************)
(* A launch in a disposable Git worktree (scenes/worktree.py), the tool it *)
(* runs there (utils/owned_launch.py), and the command that removes what a *)
(* launch left (`scene cleanup-worktree').                                 *)
(*                                                                         *)
(* The launch is one thread.  A SIGTERM or Ctrl-C raises KeyboardInterrupt *)
(* at whatever point it has reached; from there it unwinds as Python does: *)
(* the finally blocks run, and a later exception replaces an earlier one.  *)
(* The two removals, at the end of a launch and by the command, are one    *)
(* procedure: OwnedWorktree.cleanup.                                       *)
(***************************************************************************)
EXTENDS Naturals, FiniteSets

CONSTANTS
  MaxSignals,  \* interrupts in a behaviour
  MaxWrites    \* changes by the tool and the user in a behaviour

ASSUME WorktreeAssumption == MaxSignals \in Nat /\ MaxWrites \in Nat

VARIABLES
  container,  \* the private directory exists
  extra,      \* with a file of the user's beside the checkout
  ws,         \* the checkout: absent, partly made or removed, bound to Git
  cmark,      \* the ownership record in the container
  gmark,      \* its copy in the private Git directory
  work,       \* what is in the checkout beyond the commit
  pc,         \* where the launch is
  keep, owned, yielded, retained, stopped,  \* its variables
  exc,        \* the exception it unwinds with
  told,       \* what the user learned of the checkout
  tool,       \* the tool's process group
  clean,      \* where the removal is
  discard,    \* and whether it may discard changes
  since,      \* what came into the checkout since the removal looked
  cut,        \* the points at which an interrupt arrived
  signals, writes

onDisk == <<container, extra, ws, cmark, gmark, work>>
locals == <<keep, owned, yielded, retained, stopped, exc>>
cleaner == <<clean, discard, since>>
bounds == <<signals, writes>>
launchVars == <<onDisk, pc, locals, told, tool, cleaner, cut, bounds>>

Changes == {"edit", "ignored", "commit", "nested", "swap"}
Work == Changes \cup {"injected"}

Setup == {"add", "mark", "validate", "checkout"}
Running == {"spawn", "observe", "kill", "drain", "reap"}
Teardown == {"killing", "waiting", "except"}
Points == {"prepare", "allocate", "finally", "rebind", "cleanup", "report",
           "over", "dead"} \cup Setup \cup Running \cup Teardown

FlagsOK ==
  /\ container \in BOOLEAN /\ extra \in BOOLEAN
  /\ cmark \in BOOLEAN /\ gmark \in BOOLEAN
  /\ keep \in BOOLEAN /\ owned \in BOOLEAN /\ yielded \in BOOLEAN
  /\ retained \in BOOLEAN /\ stopped \in BOOLEAN
  /\ discard \in BOOLEAN

PlacesOK ==
  /\ pc \in Points
  /\ ws \in {"absent", "partial", "bound"}
  /\ exc \in {"none", "error", "interrupt", "tree"}
  /\ told \in {"no", "error", "retained"}
  /\ tool \in {"none", "alive", "killed", "gone"}
  /\ clean \in {"idle", "check", "status", "remove", "unlink", "rmdir"}

SetsOK ==
  /\ work \subseteq Work
  /\ since \subseteq Changes
  /\ cut \subseteq Points
  /\ signals \in 0..MaxSignals /\ writes \in 0..MaxWrites

LaunchTypeOK == FlagsOK /\ PlacesOK /\ SetsOK

LaunchInit ==
  /\ container = FALSE /\ extra = FALSE /\ ws = "absent"
  /\ cmark = FALSE /\ gmark = FALSE /\ work = {}
  /\ pc = "prepare"
  /\ keep \in BOOLEAN
  /\ owned = FALSE /\ yielded = FALSE /\ retained = FALSE /\ stopped = FALSE
  /\ exc = "none" /\ told = "no" /\ tool = "none"
  /\ clean = "idle" /\ discard = FALSE /\ since = {}
  /\ cut = {} /\ signals = 0 /\ writes = 0

Go(from, to) == pc = from /\ pc' = to

\* An exception at this point: the finally blocks it meets decide where it leads.
Handler(p) ==
  CASE p = "allocate"                          -> "report"
    [] p \in {"add", "mark", "validate", "checkout", "spawn"} -> "except"
    [] p \in {"observe", "kill", "drain", "reap"} -> "killing"
    [] p \in {"killing", "waiting"}            -> "except"
    [] p = "except"                            -> "finally"
    [] p \in {"finally", "rebind", "cleanup"} -> "report"

Raise(e) == exc' = e /\ pc' = Handler(pc)

-----------------------------------------------------------------------------
(* Setting up.                                                             *)

\* Everything that can be refused before anything is allocated.
Prepare ==
  /\ pc = "prepare"
  /\ pc' \in {"allocate", "over"}
  /\ UNCHANGED <<onDisk, locals, told, tool, cleaner, cut, bounds>>

Allocate ==
  /\ Go("allocate", "add")
  /\ container' = TRUE
  /\ UNCHANGED <<extra, ws, cmark, gmark, work, locals, told, tool, cleaner, cut, bounds>>

\* `git worktree add --no-checkout'.  One that fails or is stopped leaves any prefix of its work.
Add ==
  /\ pc = "add"
  /\ \/ ws' = "bound" /\ pc' = "mark" /\ exc' = exc
     \/ ws' \in {"absent", "partial", "bound"} /\ Raise("error")
  /\ UNCHANGED <<container, extra, cmark, gmark, work, keep, owned, yielded, retained,
                 stopped, told, tool, cleaner, cut, bounds>>

\* bind(): the reciprocal links are verified and the two records written, in this order.
MarkContainer == ws = "bound" /\ ~cmark /\ cmark' = TRUE /\ gmark' = gmark /\ owned' = owned
MarkGitdir == cmark /\ ~gmark /\ gmark' = TRUE /\ cmark' = cmark /\ owned' = owned
Bound == gmark /\ owned' = TRUE /\ UNCHANGED <<cmark, gmark>>

Bind ==
  /\ pc = "mark"
  /\ \/ MarkContainer /\ UNCHANGED <<pc, exc>>
     \/ MarkGitdir /\ UNCHANGED <<pc, exc>>
     \/ Bound /\ pc' = "validate" /\ exc' = exc
     \/ Raise("error") /\ UNCHANGED <<cmark, gmark, owned>>
  /\ UNCHANGED <<container, extra, ws, work, keep, yielded, retained, stopped, told, tool,
                 cleaner, cut, bounds>>

\* The hooks and filters of the new worktree are inspected before Git populates it.
Validate ==
  /\ pc = "validate"
  /\ \/ pc' = "checkout" /\ exc' = exc
     \/ Raise("error")
  /\ UNCHANGED <<onDisk, keep, owned, yielded, retained, stopped, told, tool, cleaner, cut, bounds>>

\* Git populates the checkout, the scene's skills are copied into it, and it is yielded.
Checkout ==
  /\ pc = "checkout"
  /\ work' \in {work, work \cup {"injected"}}
  /\ \/ /\ pc' = "spawn" /\ exc' = exc
        /\ yielded' = TRUE /\ retained' = TRUE
     \/ Raise("error") /\ UNCHANGED <<yielded, retained>>
  /\ UNCHANGED <<container, extra, ws, cmark, gmark, keep, owned, stopped, told, tool,
                 cleaner, cut, bounds>>

-----------------------------------------------------------------------------
(* run_owned: the tool runs in a process group of its own.                 *)

Spawn ==
  /\ pc = "spawn"
  /\ \/ tool' = "alive" /\ pc' = "observe" /\ exc' = exc
     \/ tool' = tool /\ Raise("error")
  /\ UNCHANGED <<onDisk, keep, owned, yielded, retained, stopped, told, cleaner, cut, bounds>>

\* The leader exits, observed without being collected: its number keeps the group's.
Observe ==
  /\ pc = "observe"
  /\ \/ pc' = "kill" /\ exc' = exc
     \/ Raise("error")
  /\ UNCHANGED <<onDisk, keep, owned, yielded, retained, stopped, told, tool, cleaner, cut, bounds>>

\* SIGKILL to the group: nothing of it runs on, but its leader may take its time to go.
Signalled == IF tool = "alive" THEN "killed" ELSE tool

Kill ==
  /\ Go("kill", "drain")
  /\ tool' = Signalled
  /\ stopped' = TRUE
  /\ UNCHANGED <<onDisk, keep, owned, yielded, retained, exc, told, cleaner, cut, bounds>>

Drain ==
  /\ pc = "drain"
  /\ \/ pc' = "reap" /\ exc' = exc
     \/ Raise("error")
  /\ UNCHANGED <<onDisk, keep, owned, yielded, retained, stopped, told, tool, cleaner, cut, bounds>>

\* wait(timeout=2)
Reap ==
  /\ pc = "reap"
  /\ \/ tool = "gone" /\ pc' = "killing" /\ exc' = exc
     \/ tool # "gone" /\ Raise("tree")
  /\ UNCHANGED <<onDisk, keep, owned, yielded, retained, stopped, told, tool, cleaner, cut, bounds>>

\* The finally of run_owned.
KillUnlessStopped ==
  /\ Go("killing", "waiting")
  /\ tool' = IF stopped THEN tool ELSE Signalled
  /\ UNCHANGED <<onDisk, locals, told, cleaner, cut, bounds>>

WaitAgain ==
  /\ pc = "waiting"
  /\ \/ tool = "gone" /\ pc' = "except" /\ exc' = exc
     \/ tool # "gone" /\ Raise("tree")
  /\ UNCHANGED <<onDisk, keep, owned, yielded, retained, stopped, told, tool, cleaner, cut, bounds>>

-----------------------------------------------------------------------------
(* Unwinding create().                                                     *)

\* Mutant: an exception is an exception, and the checkout of a tool that lives on goes too.
ExceptForgetsTree ==
  /\ Go("except", "finally")
  /\ told' = IF keep /\ owned /\ ~yielded THEN "error" ELSE told
  /\ UNCHANGED <<onDisk, locals, tool, cleaner, cut, bounds>>

\* A tool that could not be stopped keeps its checkout; a setup that failed names what it kept.
Except ==
  /\ Go("except", "finally")
  /\ keep' = (keep \/ exc = "tree")
  /\ told' = IF keep /\ owned /\ ~yielded THEN "error" ELSE told
  /\ UNCHANGED <<onDisk, owned, yielded, retained, stopped, exc, tool, cleaner, cut, bounds>>

\* What an interrupted setup left is bound before it is removed.
Finally ==
  /\ pc = "finally"
  /\ \/ ~owned /\ ws # "absent" /\ pc' = "rebind" /\ UNCHANGED <<container, retained, cleaner>>
     \/ /\ ~owned /\ ws = "absent"
        /\ container' = extra
        /\ pc' = "report"
        /\ UNCHANGED <<retained, cleaner>>
     \/ owned /\ keep /\ retained' = TRUE /\ pc' = "report" /\ UNCHANGED <<container, cleaner>>
     \/ /\ owned /\ ~keep
        /\ pc' = "cleanup" /\ clean' = "check" /\ discard' = TRUE /\ since' = {}
        /\ UNCHANGED <<container, retained>>
  /\ UNCHANGED <<extra, ws, cmark, gmark, work, keep, owned, yielded, stopped, exc, told,
                 tool, cut, bounds>>

Rebind ==
  /\ pc = "rebind"
  /\ \/ MarkContainer /\ UNCHANGED <<pc, told>>
     \/ MarkGitdir /\ UNCHANGED <<pc, told>>
     \/ Bound /\ pc' = "finally" /\ told' = told
     \/ told' = "error" /\ pc' = "report" /\ UNCHANGED <<cmark, gmark, owned>>
  /\ UNCHANGED <<container, extra, ws, work, keep, yielded, retained, stopped, exc, tool,
                 cleaner, cut, bounds>>

\* Mutant: only a checkout that was to be kept is reported.
ReportKept ==
  /\ Go("report", "over")
  /\ told' = IF retained /\ keep /\ ws # "absent" THEN "retained" ELSE told
  /\ UNCHANGED <<onDisk, locals, tool, cleaner, cut, bounds>>

\* The command's last words: the checkout, if it was handed out and is still there.
Report ==
  /\ Go("report", "over")
  /\ told' = IF retained /\ ws # "absent" THEN "retained" ELSE told
  /\ UNCHANGED <<onDisk, locals, tool, cleaner, cut, bounds>>

-----------------------------------------------------------------------------
(* OwnedWorktree.cleanup.                                                  *)

\* The removal ends: the launch goes on to its report, the command returns.
Returns == clean' = "idle" /\ pc' = IF pc = "cleanup" THEN "report" ELSE pc

\* A refusal names the checkout.
Refuses ==
  /\ Returns
  /\ told' = IF pc = "cleanup" THEN "error" ELSE told

Authentic == cmark /\ gmark /\ ws = "bound" /\ "swap" \notin work
Dirty == work \cap {"edit", "injected", "commit", "nested"} # {}

\* The records, the links and the registration are compared; any Git command may fail.
Check ==
  /\ clean = "check"
  /\ \/ /\ Authentic /\ "nested" \notin work
        /\ clean' = IF discard THEN "remove" ELSE "status"
        /\ since' = {}
        /\ UNCHANGED <<pc, told>>
     \/ Refuses /\ since' = since
  /\ UNCHANGED <<onDisk, locals, tool, discard, cut, bounds>>

\* `git status' refuses changes, and may fail.
Status ==
  /\ clean = "status"
  /\ \/ ~Dirty /\ clean' = "remove" /\ UNCHANGED <<pc, told>>
     \/ Refuses
  /\ since' = since \cap {"nested"}
  /\ UNCHANGED <<onDisk, locals, tool, discard, cut, bounds>>

TakenAway == ws' = "absent" /\ work' = {}

\* `git worktree remove --force' checks the binding again.  One that fails or is stopped may
\* have deleted some of the files, or all but the private directory.
Remove ==
  /\ clean = "remove"
  /\ \/ "swap" \notin work /\ TakenAway /\ gmark' = FALSE /\ clean' = "unlink"
        /\ UNCHANGED <<pc, told>>
     \/ /\ \/ UNCHANGED <<ws, work>>
           \/ "swap" \notin work /\ ws' = "partial" /\ work' = work
           \/ "swap" \notin work /\ TakenAway
        /\ gmark' = gmark
        /\ Refuses
  /\ UNCHANGED <<container, extra, cmark, locals, tool, discard, since, cut, bounds>>

Unlink ==
  /\ clean = "unlink"
  /\ cmark' = FALSE /\ clean' = "rmdir"
  /\ UNCHANGED <<container, extra, ws, gmark, work, pc, locals, told, tool, discard, since,
                 cut, bounds>>

Rmdir ==
  /\ clean = "rmdir"
  /\ container' = extra
  /\ Returns
  /\ UNCHANGED <<extra, ws, cmark, gmark, work, locals, told, tool, discard, since, cut, bounds>>

\* `scene cleanup-worktree PATH' on what a launch left.
CleanupWorktree ==
  /\ pc \in {"over", "dead"} /\ clean = "idle" /\ ws # "absent"
  /\ clean' = "check" /\ discard' \in BOOLEAN /\ since' = {}
  /\ UNCHANGED <<onDisk, pc, locals, told, tool, cut, bounds>>

-----------------------------------------------------------------------------
(* Interrupts, crashes, the tool and the user.                             *)

\* A Git command that is stopped may have done any part of its work; a Popen that is left
\* may have started its child, which nobody then holds.
HalfDone ==
  \/ UNCHANGED <<onDisk, tool>>
  \/ /\ pc = "add" /\ ws' \in {"partial", "bound"}
     /\ UNCHANGED <<container, extra, cmark, gmark, work, tool>>
  \/ pc = "spawn" /\ tool' = "alive" /\ UNCHANGED onDisk
  \/ /\ clean = "remove" /\ "swap" \notin work
     /\ (TakenAway \/ (ws' = "partial" /\ work' = work))
     /\ UNCHANGED <<container, extra, cmark, gmark, tool>>

\* KeyboardInterrupt replaces an exception that was on its way, and its message.
Interrupt ==
  /\ pc \notin {"prepare", "report", "over", "dead"}
  /\ signals < MaxSignals
  /\ signals' = signals + 1
  /\ cut' = cut \cup {pc}
  /\ Raise("interrupt")
  /\ told' = "no"
  /\ HalfDone
  /\ clean' = "idle"
  /\ UNCHANGED <<keep, owned, yielded, retained, stopped, discard, since, writes>>

\* SIGKILL of the launch or of the command, or the machine: the tool may live on.
LaunchCrash ==
  /\ pc # "prepare"
  /\ pc \in {"over", "dead"} => clean # "idle"
  /\ pc' = IF pc = "over" THEN pc ELSE "dead"
  /\ HalfDone
  /\ clean' = "idle"
  /\ UNCHANGED <<locals, told, discard, since, cut, bounds>>

\* A killed process is gone some time later.
Dies ==
  /\ tool = "killed" /\ tool' = "gone"
  /\ UNCHANGED <<onDisk, pc, locals, told, cleaner, cut, bounds>>

\* The tool, or the user, edits, commits, makes a repository or replaces the checkout.
WritesInto ==
  /\ ws = "bound" /\ writes < MaxWrites
  /\ tool = "alive" \/ pc \in {"over", "dead"}
  /\ \E k \in Changes \ work :
        /\ work' = work \cup {k} /\ since' = since \cup {k}
  /\ writes' = writes + 1
  /\ UNCHANGED <<container, extra, ws, cmark, gmark, pc, locals, told, tool, clean, discard,
                 cut, signals>>

\* The user puts a file beside the checkout.
WritesBeside ==
  /\ container /\ ~extra /\ writes < MaxWrites
  /\ extra' = TRUE /\ writes' = writes + 1
  /\ UNCHANGED <<container, ws, cmark, gmark, work, pc, locals, told, tool, cleaner, cut,
                 signals>>

Launch ==
  \/ Prepare \/ Allocate \/ Add \/ Bind \/ Validate \/ Checkout
  \/ Spawn \/ Observe \/ Kill \/ Drain \/ Reap \/ KillUnlessStopped \/ WaitAgain
  \/ Except \/ Finally \/ Rebind \/ Report
Cleanup == Check \/ Status \/ Remove \/ Unlink \/ Rmdir
Environment == Interrupt \/ LaunchCrash \/ Dies \/ WritesInto \/ WritesBeside

LaunchNext == Launch \/ Cleanup \/ CleanupWorktree \/ Environment

LaunchSpec == LaunchInit /\ [][LaunchNext]_launchVars

-----------------------------------------------------------------------------
(* Properties.                                                             *)

\* What a removal must not take with it.
Protected == {"nested", "swap"} \cup IF discard THEN {} ELSE {"edit", "commit", "injected"}

\* A checkout is removed only with both ownership records in place, never one the user put in
\* its place, and with nothing protected but what came after the removal had looked.  A launch
\* removes it only when the tool's process group is gone, unless an interrupt arrived while the
\* tool was being started or torn down (worktree.py:449-532, owned_launch.py:203-214).
RemovalIsSafe ==
  [][(ws = "bound" /\ ws' # "bound") =>
       /\ cmark /\ gmark
       /\ "swap" \notin work
       /\ work \cap Protected \subseteq since
       /\ pc = "cleanup" => \/ tool \in {"none", "gone"}
                            \/ cut \cap {"spawn", "killing", "waiting", "except"} # {}]_launchVars

\* A launch that ends and leaves a checkout has told the user, by an error that names it or as
\* retained, and what it calls retained can be removed by the command; unless an interrupt
\* arrived while it unwound a setup that had not handed the checkout out (worktree.py:425-447).
NothingUntold ==
  (pc = "over" /\ ws # "absent") =>
    /\ \/ told # "no"
       \/ ~yielded /\ cut \cap {"finally", "rebind", "cleanup"} # {}
    /\ (told = "retained" /\ ws = "bound") => (cmark /\ gmark)

\* "Kill descendants before returning or unwinding" (owned_launch.py:41): no launch removes a
\* checkout its tool still runs in.
KilledBeforeUnwinding ==
  [][(pc = "cleanup" /\ ws = "bound" /\ ws' # "bound") => tool # "alive"]_launchVars
=============================================================================
