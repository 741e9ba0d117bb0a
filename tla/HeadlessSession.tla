-------------------------- MODULE HeadlessSession --------------------------
(***************************************************************************)
(* One managed headless session: the monitor that owns its deadline and    *)
(* its outcome (base.run_headless_session), the runtime context it shares  *)
(* with the adapter's thread (headless.py), and the adapter, which either  *)
(* talks JSON-RPC with a child (session_protocol.py, plan_process.py; the  *)
(* brokered Codex and Cursor sessions) or runs a command and collects its  *)
(* output (headless_cli.py; every unattended session).                     *)
(*                                                                         *)
(* Event and interaction handlers, the child and the caller who cancels    *)
(* may do what they may do at any time, or never.                          *)
(***************************************************************************)
EXTENDS Naturals

CONSTANT MaxFrames  \* what the child prints and the adapter sends in a behaviour

ASSUME FramesAssumption == MaxFrames \in Nat

VARIABLES
  style,      \* how the adapter reaches its child
  rstop,      \* the stop the monitor claimed
  result,     \* the published result
  hooks,      \* the adapter registered its cleanup
  closed,     \* the cleanup has started
  cabort,     \* with a native abort
  comp,       \* who holds the completion lock
  cancelled, expired,
  m, stop, out,       \* the monitor: where it is, the stop it saw, what the caller got
  a, val, want,       \* the adapter: where it is, what it returned, the status it reports
  seenA, seenM,       \* the terminal status either showed to the event handler
  held, creq,         \* a command's controller: its process, cleanup was requested
  child,
  torn,       \* the child's input ends in the middle of a frame
  pend,       \* a request of the child's is outstanding
  resolved,   \* replies are revoked
  armed,      \* the native abort is bound to a turn
  gate,       \* who holds the session's lock
  sending,    \* the frame the adapter sends
  slock,      \* who writes to the child
  c, cby,     \* the cleanup: where it is, and who runs it
  ab,         \* the thread of its native abort
  frames

context == <<rstop, result, hooks, closed, cabort>>
caller == <<cancelled, expired>>
monitor == <<m, stop, out>>
adapter == <<a, val, want>>
told == <<seenA, seenM>>
controller == <<held, creq>>
protocol == <<pend, resolved, armed, gate, sending>>
pipe == <<torn, slock>>
cleaner == <<c, cby, ab>>
vars == <<style, context, comp, caller, monitor, adapter, told, controller, child, pipe,
          protocol, cleaner, frames>>

Stopped == {"cancelled", "timed_out", "invalid"}
Natural == {"succeeded", "failed", "invalid"}
Status == Stopped \cup Natural

TypeOK ==
  /\ style \in {"protocol", "command"}
  /\ rstop \in Stopped \cup {"none"} /\ stop \in Stopped \cup {"none"}
  /\ result \in Status \cup {"none"} /\ out \in Status \cup {"none", "raised"}
  /\ val \in Stopped \cup {"none", "error", "result"} /\ want \in Natural
  /\ seenA \in Status \cup {"none"} /\ seenM \in Status \cup {"none"}
  /\ hooks \in BOOLEAN /\ closed \in BOOLEAN /\ cabort \in BOOLEAN
  /\ cancelled \in BOOLEAN /\ expired \in BOOLEAN /\ held \in BOOLEAN /\ creq \in BOOLEAN
  /\ torn \in BOOLEAN /\ pend \in BOOLEAN /\ resolved \in BOOLEAN /\ armed \in BOOLEAN
  /\ comp \in {"none", "adapter", "monitor"}
  /\ m \in {"poll", "took", "claim", "finalize", "notify", "close", "cleanup", "done"}
  /\ a \in {"start", "register", "late", "spawn", "rotate", "check", "work", "emit",
            "interact", "respond", "acquire", "write", "closing", "close", "complete",
            "terminal", "publish", "commit", "done"}
  /\ child \in {"none", "alive", "dead"}
  /\ gate \in {"none", "adapter"} /\ sending \in {"none", "request", "reply"}
  /\ slock \in {"none", "adapter", "abort"}
  /\ c \in {"idle", "abort", "close", "terminate", "kill"}
  /\ cby \in {"none", "monitor", "adapter"}
  /\ ab \in {"none", "gate", "lock", "write", "done"}
  /\ frames \in 0..MaxFrames

Init ==
  /\ style \in {"protocol", "command"}
  /\ rstop = "none" /\ result = "none"
  /\ hooks = FALSE /\ closed = FALSE /\ cabort = FALSE
  /\ comp = "none" /\ cancelled = FALSE /\ expired = FALSE
  /\ m = "poll" /\ stop = "none" /\ out = "none"
  /\ a = "start" /\ val = "none" /\ want = "failed"
  /\ seenA = "none" /\ seenM = "none"
  /\ held = FALSE /\ creq = FALSE /\ child = "none" /\ torn = FALSE
  /\ pend = FALSE /\ resolved = FALSE /\ armed = FALSE
  /\ gate = "none" /\ sending = "none" /\ slock = "none"
  /\ c = "idle" /\ cby = "none" /\ ab = "none"
  /\ frames = 0

-----------------------------------------------------------------------------
(* The runtime context.                                                    *)

\* What a checkpoint raises, "none" for nothing.
StopNow ==
  IF rstop # "none" THEN rstop
  ELSE IF cancelled \/ (closed /\ result = "none") THEN "cancelled"
  ELSE IF expired THEN "timed_out"
  ELSE "none"

\* The adapter's thread ends and leaves a value for the monitor.
Ends(v) == a' = "done" /\ val' = v /\ want' = want
Goes(to) == a' = to /\ UNCHANGED <<val, want>>

\* What native I/O raises is reconciled with the stop there may be by then.
Fails == Ends(IF StopNow # "none" THEN StopNow ELSE "error")

\* A command's hooks reach the process its controller holds, a protocol's the one it started.
Reached == style = "protocol" \/ held
Killed == IF Reached /\ child = "alive" THEN "dead" ELSE child

\* _run_cleanup: the native abort, if there is one, has a thread of its own.
RunsHooks(by, abort) ==
  /\ cby' = by
  /\ c' = IF abort /\ style = "protocol" THEN "abort" ELSE "close"
  /\ ab' = IF abort /\ style = "protocol" THEN "gate" ELSE ab

\* cleanup(): what is not registered yet is run when it is.
Cleanup(abort) ==
  /\ closed' = TRUE /\ cabort' = abort
  /\ IF hooks THEN RunsHooks("monitor", abort) /\ m' = "cleanup"
     ELSE UNCHANGED cleaner /\ m' = "done"
  /\ UNCHANGED <<rstop, result, hooks>>

-----------------------------------------------------------------------------
(* The monitor.                                                            *)

\* It polls for a stop, then for the adapter's value.
Poll ==
  /\ m = "poll"
  /\ \/ StopNow # "none" /\ stop' = StopNow /\ m' = "claim"
     \/ StopNow = "none" /\ val # "none" /\ stop' = stop /\ m' = "took"
  /\ UNCHANGED <<style, context, comp, caller, out, adapter, told, controller, child, pipe,
                 protocol, cleaner, frames>>

\* Another checkpoint, and the value decides.  The contract checks behind it (base.py:595-606)
\* refuse what an adapter returns without complete(); what complete() built passes them.
Took ==
  /\ m = "took"
  /\ \/ /\ StopNow # "none" \/ val \in Stopped
        /\ stop' = IF StopNow # "none" THEN StopNow ELSE val
        /\ m' = "claim"
        /\ UNCHANGED <<context, out, cleaner>>
     \/ /\ StopNow = "none" /\ val = "error"
        /\ out' = "raised" /\ stop' = stop
        /\ Cleanup(TRUE)
     \/ /\ StopNow = "none" /\ val = "result"
        /\ out' = result /\ stop' = stop
        /\ Cleanup(result \in {"cancelled", "timed_out"})
  /\ UNCHANGED <<style, comp, caller, adapter, told, controller, child, pipe, protocol, frames>>

\* _claim_runtime_stop: a result that was published first wins, and is returned at once.
Claim ==
  /\ m = "claim"
  /\ IF result # "none"
       THEN out' = result /\ m' = "done" /\ rstop' = rstop
       ELSE rstop' = stop /\ m' = "finalize" /\ out' = out
  /\ UNCHANGED <<style, result, hooks, closed, cabort, comp, caller, stop, adapter, told,
                 controller, child, pipe, protocol, cleaner, frames>>

\* The stop becomes the result and is shown to the event handler, for a bounded time.
Finalize ==
  /\ m = "finalize" /\ comp = "none"
  /\ IF result # "none" THEN m' = "close" /\ UNCHANGED <<comp, result, seenM>>
     ELSE m' = "notify" /\ comp' = "monitor" /\ result' = stop /\ seenM' = stop
  /\ UNCHANGED <<style, rstop, hooks, closed, cabort, caller, stop, out, adapter, seenA,
                 controller, child, pipe, protocol, cleaner, frames>>

Notified ==
  /\ m = "notify"
  /\ m' = "close" /\ comp' = "none"
  /\ UNCHANGED <<style, context, caller, stop, out, adapter, told, controller, child, pipe,
                 protocol, cleaner, frames>>

Close ==
  /\ m = "close"
  /\ out' = result /\ stop' = stop
  /\ Cleanup(TRUE)
  /\ UNCHANGED <<style, comp, caller, adapter, told, controller, child, pipe, protocol, frames>>

Monitor == Poll \/ Took \/ Claim \/ Finalize \/ Notified \/ Close

-----------------------------------------------------------------------------
(* The adapter: its child and its cleanup.                                 *)

\* A command checks first and registers before it starts its process.
Start ==
  /\ a = "start"
  /\ IF style = "protocol" THEN Goes("spawn")
     ELSE IF StopNow # "none" THEN Ends(StopNow) ELSE Goes("register")
  /\ UNCHANGED <<style, context, comp, caller, monitor, told, controller, child, pipe,
                 protocol, cleaner, frames>>

Spawn ==
  /\ a = "spawn"
  /\ \/ child' = "alive" /\ Goes(IF style = "protocol" THEN "register" ELSE "rotate")
     \/ child' = child /\ Ends("error")
  /\ UNCHANGED <<style, context, comp, caller, monitor, told, controller, pipe, protocol,
                 cleaner, frames>>

AfterRegister == Goes(IF style = "protocol" THEN "work" ELSE "spawn")

\* Mutant: a registration that comes after the cleanup is only noted.
RegisterOnly ==
  /\ a = "register"
  /\ hooks' = TRUE
  /\ AfterRegister /\ UNCHANGED cleaner
  /\ UNCHANGED <<style, rstop, result, closed, cabort, comp, caller, monitor, told, controller,
                 child, pipe, protocol, frames>>

\* register_cleanup: hooks that come after the cleanup are run here.
Register ==
  /\ a = "register"
  /\ hooks' = TRUE
  /\ IF closed THEN Goes("late") /\ RunsHooks("adapter", cabort)
     ELSE AfterRegister /\ UNCHANGED cleaner
  /\ UNCHANGED <<style, rstop, result, closed, cabort, comp, caller, monitor, told, controller,
                 child, pipe, protocol, frames>>

Late ==
  /\ a = "late" /\ c = "idle"
  /\ AfterRegister
  /\ UNCHANGED <<style, context, comp, caller, monitor, told, controller, child, pipe,
                 protocol, cleaner, frames>>

\* The controller takes the process its hooks will reach.
Rotate ==
  /\ a = "rotate"
  /\ held' = TRUE /\ Goes("check")
  /\ UNCHANGED <<style, context, comp, caller, monitor, told, creq, child, pipe, protocol,
                 cleaner, frames>>

\* A cleanup that ran while the process was being started did not reach it.
CheckRequested ==
  /\ a = "check"
  /\ child' = IF creq THEN Killed ELSE child
  /\ IF StopNow # "none" THEN Ends(StopNow) ELSE Goes("work")
  /\ UNCHANGED <<style, context, comp, caller, monitor, told, controller, pipe, protocol,
                 cleaner, frames>>

-----------------------------------------------------------------------------
(* The adapter: its session with the child.                                *)

Polled == {"work", "emit", "interact", "terminal", "publish"}

\* Mutant: the handler of the terminal event is waited for without a checkpoint.
CheckpointNotInTerminal ==
  /\ a \in Polled \ {"terminal"} /\ StopNow # "none"
  /\ Ends(StopNow)
  /\ comp' = IF comp = "adapter" THEN "none" ELSE comp
  /\ UNCHANGED <<style, context, caller, monitor, told, controller, child, pipe, protocol,
                 cleaner, frames>>

\* Reads and callbacks are waited for in short turns, with a checkpoint between them.
Checkpoint ==
  /\ a \in Polled /\ StopNow # "none"
  /\ Ends(StopNow)
  /\ comp' = IF comp = "adapter" THEN "none" ELSE comp
  /\ UNCHANGED <<style, context, caller, monitor, told, controller, child, pipe, protocol,
                 cleaner, frames>>

\* What the child prints: progress, a question, the end of the turn, or something else.
Read ==
  /\ a = "work" /\ StopNow = "none" /\ child = "alive" /\ frames < MaxFrames
  /\ frames' = frames + 1
  /\ \/ Goes("emit") /\ pend' = pend
     \/ style = "protocol" /\ armed /\ ~resolved /\ ~pend /\ pend' = TRUE /\ Goes("interact")
     \/ style = "protocol" /\ armed /\ Goes("closing") /\ pend' = pend
     \/ /\ style = "protocol" /\ armed
        /\ a' = "complete" /\ want' = "failed" /\ val' = val /\ pend' = pend
     \/ Ends("error") /\ pend' = pend
  /\ UNCHANGED <<style, context, comp, caller, monitor, told, controller, child, pipe,
                 resolved, armed, gate, sending, cleaner>>

\* A command's exit ends its session, a protocol's breaks it.
Exited ==
  /\ a = "work" /\ StopNow = "none" /\ child = "dead"
  /\ \/ style = "protocol" /\ Ends("error")
     \/ style = "command" /\ Ends("error")
     \/ style = "command" /\ a' = "complete" /\ val' = val /\ want' \in Natural
  /\ UNCHANGED <<style, context, comp, caller, monitor, told, controller, child, pipe,
                 protocol, cleaner, frames>>

\* An event handler returns, or raises.
Emitted ==
  /\ a = "emit" /\ StopNow = "none"
  /\ Goes("work") \/ Ends("error")
  /\ UNCHANGED <<style, context, comp, caller, monitor, told, controller, child, pipe,
                 protocol, cleaner, frames>>

\* An interaction is answered, cancelled, left unanswered for too long, or answered badly.
Answered ==
  /\ a = "interact" /\ StopNow = "none"
  /\ \/ Goes("respond")
     \/ \E v \in Stopped \cup {"error"} : Ends(v)
  /\ UNCHANGED <<style, context, comp, caller, monitor, told, controller, child, pipe,
                 protocol, cleaner, frames>>

\* The requests of a session; once its turn is bound, it can be aborted.
Request ==
  /\ a = "work" /\ style = "protocol" /\ StopNow = "none" /\ frames < MaxFrames
  /\ Goes("acquire")
  /\ frames' = frames + 1
  /\ sending' = "request"
  /\ UNCHANGED <<style, context, comp, caller, monitor, told, controller, child, pipe, pend,
                 resolved, armed, gate, cleaner>>

SetAbort ==
  /\ a = "work" /\ style = "protocol" /\ ~armed /\ ~resolved
  /\ armed' = TRUE
  /\ UNCHANGED <<style, context, comp, caller, monitor, adapter, told, controller, child, pipe,
                 pend, resolved, gate, sending, cleaner, frames>>

\* respond_native: the session's lock is held until the reply is written.
Respond ==
  /\ a = "respond"
  /\ IF StopNow # "none" \/ resolved \/ ~pend
       THEN Fails /\ UNCHANGED <<gate, sending>>
       ELSE Goes("acquire") /\ gate' = "adapter" /\ sending' = "reply"
  /\ UNCHANGED <<style, context, comp, caller, monitor, told, controller, child, pipe, pend,
                 resolved, armed, cleaner, frames>>

\* The frame is over, well or not.
Releases == gate' = "none" /\ sending' = "none"

\* send: the writer's turn comes, or the time is over first.
Acquire ==
  /\ a = "acquire"
  /\ \/ /\ slock = "none" /\ ~cancelled /\ ~expired /\ child = "alive"
        /\ slock' = "adapter" /\ torn' = TRUE /\ Goes("write")
        /\ UNCHANGED <<gate, sending>>
     \/ /\ (slock = "none" /\ (cancelled \/ child # "alive")) \/ expired
        /\ Fails /\ Releases /\ UNCHANGED pipe
  /\ UNCHANGED <<style, context, comp, caller, monitor, told, controller, child, pend,
                 resolved, armed, cleaner, frames>>

\* The child reads the whole frame.
Written ==
  /\ a = "write" /\ child = "alive"
  /\ torn' = FALSE /\ slock' = "none" /\ Releases
  /\ IF StopNow # "none" THEN Ends(StopNow) ELSE Goes("work")
  /\ pend' = IF sending = "reply" THEN FALSE ELSE pend
  /\ UNCHANGED <<style, context, comp, caller, monitor, told, controller, child, resolved,
                 armed, cleaner, frames>>

\* Mutant: a write that lasts too long is given up and its child lives on.
UnwrittenKeeps ==
  /\ a = "write" /\ (cancelled \/ expired \/ child = "dead")
  /\ child' = child
  /\ slock' = "none" /\ torn' = torn /\ Releases
  /\ Fails
  /\ UNCHANGED <<style, context, comp, caller, monitor, told, controller, pend, resolved,
                 armed, cleaner, frames>>

\* A write that lasts too long is stopped by killing its reader; the frame stays torn.
Unwritten ==
  /\ a = "write" /\ (cancelled \/ expired \/ child = "dead")
  /\ child' = "dead"
  /\ slock' = "none" /\ torn' = torn /\ Releases
  /\ Fails
  /\ UNCHANGED <<style, context, comp, caller, monitor, told, controller, pend, resolved,
                 armed, cleaner, frames>>

\* close_cleanly revokes replies, then ends the child whatever it does.
CloseCleanly ==
  /\ a = "closing"
  /\ IF StopNow # "none" THEN Ends(StopNow) /\ UNCHANGED <<resolved, pend>>
     ELSE Goes("close") /\ resolved' = TRUE /\ pend' = FALSE
  /\ UNCHANGED <<style, context, comp, caller, monitor, told, controller, child, pipe, armed,
                 gate, sending, cleaner, frames>>

CloseProcess ==
  /\ a = "close"
  /\ child' = "dead"
  /\ IF StopNow # "none" THEN Ends(StopNow)
     ELSE a' = "complete" /\ val' = val /\ want' \in Natural
  /\ UNCHANGED <<style, context, comp, caller, monitor, told, controller, pipe, protocol,
                 cleaner, frames>>

-----------------------------------------------------------------------------
(* The adapter: its result.                                                *)

\* complete() reconciles the evidence, by which a session may have failed or have no valid output
\* after all, and shows the terminal event before the result is published.
Complete ==
  /\ a = "complete" /\ comp = "none"
  /\ \/ result # "none" /\ Ends("error") /\ UNCHANGED <<comp, seenA>>
     \/ result = "none" /\ StopNow # "none" /\ Ends(StopNow) /\ UNCHANGED <<comp, seenA>>
     \/ /\ result = "none" /\ StopNow = "none"
        /\ a' = "terminal" /\ val' = val
        /\ want' \in IF want = "invalid" THEN {want} ELSE {want, "failed", "invalid"}
        /\ comp' = "adapter" /\ seenA' = want'
  /\ UNCHANGED <<style, context, caller, monitor, seenM, controller, child, pipe, protocol,
                 cleaner, frames>>

TerminalShown ==
  /\ a = "terminal" /\ StopNow = "none"
  /\ \/ Goes("publish") /\ comp' = comp
     \/ Ends("error") /\ comp' = "none"
  /\ UNCHANGED <<style, context, caller, monitor, told, controller, child, pipe, protocol,
                 cleaner, frames>>

\* The last checkpoint before the result is built.
Publish ==
  /\ a = "publish" /\ StopNow = "none"
  /\ Goes("commit")
  /\ UNCHANGED <<style, context, comp, caller, monitor, told, controller, child, pipe, protocol,
                 cleaner, frames>>

\* Mutant: the result is published without a look at the monitor's claim.
CommitBlindly ==
  /\ a = "commit"
  /\ comp' = "none"
  /\ Ends("result") /\ result' = want
  /\ UNCHANGED <<style, rstop, hooks, closed, cabort, caller, monitor, told, controller, child,
                 pipe, protocol, cleaner, frames>>

\* Under the lock that the monitor claims a stop with.
Commit ==
  /\ a = "commit"
  /\ comp' = "none"
  /\ IF rstop # "none" THEN Ends(rstop) /\ result' = result
     ELSE Ends("result") /\ result' = want
  /\ UNCHANGED <<style, rstop, hooks, closed, cabort, caller, monitor, told, controller, child,
                 pipe, protocol, cleaner, frames>>

Adapter ==
  \/ Start \/ Spawn \/ Register \/ Late \/ Rotate \/ CheckRequested \/ Checkpoint \/ Read
  \/ Exited \/ Emitted \/ Answered \/ Request \/ SetAbort \/ Respond \/ Acquire \/ Written
  \/ Unwritten \/ CloseCleanly \/ CloseProcess \/ Complete \/ TerminalShown \/ Publish \/ Commit

-----------------------------------------------------------------------------
(* The cleanup.                                                            *)

\* The first stage ends when its time is over, whichever hook has not returned.
GraceOver ==
  /\ c \in {"abort", "close"}
  /\ c' = "kill"
  /\ creq' = (creq \/ (c = "close" /\ style = "command"))
  /\ UNCHANGED <<style, context, comp, caller, monitor, adapter, told, held, child, pipe,
                 protocol, cby, ab, frames>>

AbortReturns ==
  /\ c = "abort" /\ ab = "done"
  /\ c' = "close"
  /\ UNCHANGED <<style, context, comp, caller, monitor, adapter, told, controller, child, pipe,
                 protocol, cby, ab, frames>>

CloseInput ==
  /\ c = "close"
  /\ c' = "terminate"
  /\ creq' = (creq \/ style = "command")
  /\ UNCHANGED <<style, context, comp, caller, monitor, adapter, told, held, child, pipe,
                 protocol, cby, ab, frames>>

\* SIGTERM, which a child may outlive.
Terminate ==
  /\ c = "terminate"
  /\ c' = "kill"
  /\ child' \in {child, Killed}
  /\ UNCHANGED <<style, context, comp, caller, monitor, adapter, told, controller, pipe,
                 protocol, cby, ab, frames>>

\* SIGKILL to the group, then the child and the workers are waited for, for a bounded time.
Kill ==
  /\ c = "kill"
  /\ child' = Killed
  /\ c' = "idle"
  /\ m' = IF cby = "monitor" THEN "done" ELSE m
  /\ UNCHANGED <<style, context, comp, caller, stop, out, adapter, told, controller, pipe,
                 protocol, cby, ab, frames>>

\* The native abort revokes replies, and is written unless a writer is stalled.
AbortGate ==
  /\ ab = "gate" /\ gate = "none"
  /\ resolved' = TRUE /\ pend' = FALSE
  /\ ab' = IF armed /\ child = "alive" THEN "lock" ELSE "done"
  /\ UNCHANGED <<style, context, comp, caller, monitor, adapter, told, controller, child, pipe,
                 armed, gate, sending, c, cby, frames>>

AbortLock ==
  /\ ab = "lock"
  /\ \/ /\ slock = "none" /\ child = "alive"
        /\ slock' = "abort" /\ torn' = TRUE /\ ab' = "write"
     \/ UNCHANGED pipe /\ ab' = "done"
  /\ UNCHANGED <<style, context, comp, caller, monitor, adapter, told, controller, child,
                 protocol, c, cby, frames>>

\* The child reads it, or some of it in the time there is.
AbortWritten ==
  /\ ab = "write"
  /\ ab' = "done" /\ slock' = "none"
  /\ torn' \in IF child = "alive" THEN BOOLEAN ELSE {TRUE}
  /\ UNCHANGED <<style, context, comp, caller, monitor, adapter, told, controller, child,
                 protocol, c, cby, frames>>

Cleaning ==
  \/ GraceOver \/ AbortReturns \/ CloseInput \/ Terminate \/ Kill
  \/ AbortGate \/ AbortLock \/ AbortWritten

-----------------------------------------------------------------------------
(* The caller, the clock and the child.                                    *)

Cancel ==
  /\ ~cancelled /\ m # "done" /\ cancelled' = TRUE
  /\ UNCHANGED <<style, context, comp, expired, monitor, adapter, told, controller, child, pipe,
                 protocol, cleaner, frames>>

Expire ==
  /\ ~expired /\ expired' = TRUE
  /\ UNCHANGED <<style, context, comp, cancelled, monitor, adapter, told, controller, child,
                 pipe, protocol, cleaner, frames>>

ChildExits ==
  /\ child = "alive" /\ child' = "dead"
  /\ UNCHANGED <<style, context, comp, caller, monitor, adapter, told, controller, pipe,
                 protocol, cleaner, frames>>

Next == Monitor \/ Adapter \/ Cleaning \/ Cancel \/ Expire \/ ChildExits

\* The threads' own steps are taken; handlers, writes and the child promise nothing, and the
\* deadline comes.
Fairness ==
  /\ WF_vars(Monitor) /\ WF_vars(Expire)
  /\ WF_vars(Start) /\ WF_vars(Register) /\ WF_vars(Late) /\ WF_vars(Rotate)
  /\ WF_vars(CheckRequested) /\ WF_vars(Checkpoint) /\ WF_vars(Exited) /\ WF_vars(Respond)
  /\ WF_vars(Acquire) /\ WF_vars(Unwritten) /\ WF_vars(CloseCleanly) /\ WF_vars(CloseProcess)
  /\ WF_vars(Complete) /\ WF_vars(Publish) /\ WF_vars(Commit)
  /\ WF_vars(GraceOver) /\ WF_vars(CloseInput) /\ WF_vars(Terminate) /\ WF_vars(Kill)
  /\ WF_vars(AbortLock) /\ WF_vars(AbortWritten)

Spec == Init /\ [][Next]_vars /\ Fairness

-----------------------------------------------------------------------------
(* Properties.                                                             *)

\* What is published stands: after the monitor has claimed a stop only that stop is, and the
\* caller gets what was published (headless.py:789-801, 993-1005; base.py:524-538).
OutcomeStands ==
  [][/\ result # "none" => result' = result
     /\ (rstop # "none" /\ result = "none") => result' \in {"none", rstop}
     /\ (out = "none" /\ out' \in Status) => out' = result']_vars

\* No frame, the abort's neither, begins behind half a frame on the input of a child that may
\* still read it (plan_process.py:796-818, 837-838).
WireStaysWhole ==
  [][slock = "none" /\ slock' # "none" => ~torn \/ child # "alive"]_vars

\* The caller gets its session back, whatever the child and the handlers do (base.py:562-572).
RunReturns == <>(m = "done")

\* Once the cleanup has started the child is down for good, one that was being started too
\* (headless.py:783-787, headless_cli.py:238-242).
TornDown == closed ~> [](child # "alive")

\* "Cleanup kills the entire owned tree" (docs/brokered-headless-verification.md:17): a session
\* that is over, for its caller and for its thread, leaves no child.
NoOrphan == (m = "done" /\ a = "done" /\ c = "idle") => child # "alive"

\* "a caller can never observe two terminal outcomes for one session" (headless.py:980-982).
OneTerminal == seenA = "none" \/ seenM = "none"
=============================================================================
