----------------------- MODULE HeadlessSessionProofs -----------------------
(***************************************************************************)
(* The published outcome of a headless session stands, whatever MaxFrames  *)
(* is.  The monitor and the adapter race for it under two locks: the       *)
(* completion lock, which either holds while it shows a terminal event,    *)
(* and the lock of the claim.  What has to be known of the race is Race.   *)
(***************************************************************************)
EXTENDS HeadlessSession, TLAPS

(* TypeOK, in parts that a step can be checked against one at a time.      *)
OutcomeOK ==
  /\ rstop \in Stopped \cup {"none"} /\ stop \in Stopped \cup {"none"}
  /\ result \in Status \cup {"none"} /\ out \in Status \cup {"none", "raised"}
  /\ val \in Stopped \cup {"none", "error", "result"} /\ want \in Natural
  /\ seenA \in Status \cup {"none"} /\ seenM \in Status \cup {"none"}

FlagsOK ==
  /\ style \in {"protocol", "command"}
  /\ hooks \in BOOLEAN /\ closed \in BOOLEAN /\ cabort \in BOOLEAN
  /\ cancelled \in BOOLEAN /\ expired \in BOOLEAN /\ held \in BOOLEAN /\ creq \in BOOLEAN
  /\ torn \in BOOLEAN /\ pend \in BOOLEAN /\ resolved \in BOOLEAN /\ armed \in BOOLEAN

PlacesOK ==
  /\ comp \in {"none", "adapter", "monitor"}
  /\ m \in {"poll", "took", "claim", "finalize", "notify", "close", "cleanup", "done"}
  /\ a \in {"start", "register", "late", "spawn", "rotate", "check", "work", "emit",
            "interact", "respond", "acquire", "write", "closing", "close", "complete",
            "terminal", "publish", "commit", "done"}
  /\ child \in {"none", "alive", "dead"}
  /\ gate \in {"none", "adapter"} /\ sending \in {"none", "request", "reply"}
  /\ slock \in {"none", "adapter", "abort"}
  /\ c \in {"idle", "abort", "close", "terminate", "kill"}
  /\ cby \in {"none", "monitor", "adapter"}
  /\ ab \in {"none", "gate", "lock", "write", "done"}
  /\ frames \in 0..MaxFrames

LEMMA TypeParts == TypeOK <=> OutcomeOK /\ FlagsOK /\ PlacesOK
  BY DEF TypeOK, OutcomeOK, FlagsOK, PlacesOK

-----------------------------------------------------------------------------
(* What a step may do.                                                     *)

\* The session is being stopped, or its adapter's thread is over.
Stopping == cancelled \/ expired \/ a = "done"

\* Where either side is in the race for the outcome.
Race ==
  /\ m \in {"poll", "took", "claim"} => rstop = "none"
  /\ m = "claim" => stop # "none"
  /\ m = "finalize" => (result = "none" /\ stop # "none" /\ rstop = stop)
  /\ m = "notify" => comp = "monitor"
  /\ a \in {"terminal", "publish", "commit"} => (comp = "adapter" /\ result = "none")

\* Nobody stops a session without a reason, and a cleanup starts once.
Reasons ==
  /\ val # "none" => a = "done"
  /\ stop # "none" => Stopping
  /\ rstop # "none" => Stopping
  /\ closed => Stopping
  /\ closed => m \in {"cleanup", "done"}
  /\ ab # "none" => (closed /\ hooks)
  /\ m = "close" => Stopping
  /\ m \in {"finalize", "notify"} => Stopping

\* The child is started once, and its hooks are registered once.
Beginning ==
  /\ a = "start" => ~hooks
  /\ a = "register" => ~hooks
  /\ (a = "spawn" /\ style = "protocol") => ~hooks
  /\ a \in {"start", "spawn"} => child = "none"
  /\ (a \in {"register", "late"} /\ style = "command") => child = "none"
  /\ ab = "write" => child # "none"
  /\ child = "none" => ~torn

\* Half a frame nobody writes on is the abort's, or its child is down.
Torn == (torn /\ slock = "none" /\ child = "alive") => ab = "done"

IInv == TypeOK /\ Race /\ Reasons /\ Beginning /\ Torn

OutcomeStep ==
  /\ result # "none" => result' = result
  /\ (rstop # "none" /\ result = "none") => result' \in {"none", rstop}
  /\ (out = "none" /\ out' \in Status) => out' = result'

WireStep == slock = "none" /\ slock' # "none" => ~torn \/ child # "alive"

\* A checkpoint raises a stop, and only when the session is being stopped.
LEMMA StopType ==
  ASSUME TypeOK PROVE StopNow \in Stopped \cup {"none"}
  BY DEF TypeOK, StopNow, Stopped

LEMMA StopReason ==
  ASSUME Reasons, StopNow # "none" PROVE Stopping
  BY DEF Reasons, StopNow, Stopping

\* The invariant holds at the start.
LEMMA InitInv == ASSUME Init PROVE IInv
<1>1. TypeOK
  <2>1. OutcomeOK BY DEF Init, OutcomeOK, Stopped, Natural, Status
  <2>2. FlagsOK BY DEF Init, FlagsOK
  <2>3. PlacesOK BY FramesAssumption DEF Init, PlacesOK
  <2> QED BY <2>1, <2>2, <2>3, TypeParts
<1>2. Race BY DEF Init, Race
<1>3. Reasons BY DEF Init, Reasons
<1>4. Beginning BY DEF Init, Beginning
<1>5. Torn BY DEF Init, Torn
<1> QED BY <1>1, <1>2, <1>3, <1>4, <1>5 DEF IInv

-----------------------------------------------------------------------------
(* Types.                                                                  *)

\* The types, by the steps of Monitor.
LEMMA TypeMonitor ==
  ASSUME OutcomeOK, FlagsOK, PlacesOK, Monitor
  PROVE  OutcomeOK' /\ FlagsOK' /\ PlacesOK'
<1> USE DEF context, caller, monitor, adapter, told, controller, protocol, pipe, cleaner
<1>s. StopNow \in Stopped \cup {"none"} BY StopType, TypeParts
<1>1. CASE Poll
  <2>1. OutcomeOK' BY <1>1, <1>s DEF Poll, OutcomeOK, PlacesOK, Stopped, Natural, Status
  <2>2. FlagsOK' BY <1>1 DEF Poll, FlagsOK
  <2>3. PlacesOK' BY <1>1, FramesAssumption DEF Poll, PlacesOK, FlagsOK
  <2> QED BY <2>1, <2>2, <2>3
<1>2. CASE Took
  <2>1. OutcomeOK'
    BY <1>2, <1>s DEF Took, Cleanup, RunsHooks, OutcomeOK, PlacesOK, Stopped, Natural, Status
  <2>0. (result \in {"cancelled", "timed_out"}) \in BOOLEAN OBVIOUS
  <2>4. cabort' = cabort \/ cabort' = TRUE \/ cabort' = (result \in {"cancelled", "timed_out"})
    BY <1>2, Zenon DEF Took, Cleanup, RunsHooks
  <2>5. cabort' \in BOOLEAN BY <2>0, <2>4, Zenon DEF FlagsOK
  <2>2. FlagsOK'
    <3>1. UNCHANGED <<style, hooks, cancelled, expired, held, creq, torn, pend, resolved, armed>>
      BY <1>2 DEF Took, Cleanup
    <3>2. closed' = TRUE \/ closed' = closed
      BY <1>2 DEF Took, Cleanup
    <3>3. closed' \in BOOLEAN
      BY <3>2, Zenon DEF FlagsOK
    <3> QED BY <3>1, <3>3, <2>5, Zenon DEF FlagsOK
  <2>3. PlacesOK' BY <1>2, FramesAssumption DEF Took, Cleanup, RunsHooks, PlacesOK, FlagsOK
  <2> QED BY <2>1, <2>2, <2>3
<1>3. CASE Claim
  <2>1. OutcomeOK' BY <1>3, <1>s DEF Claim, OutcomeOK, PlacesOK, Stopped, Natural, Status
  <2>2. FlagsOK' BY <1>3 DEF Claim, FlagsOK
  <2>3. PlacesOK' BY <1>3, FramesAssumption DEF Claim, PlacesOK, FlagsOK
  <2> QED BY <2>1, <2>2, <2>3
<1>4. CASE Finalize
  <2>1. OutcomeOK' BY <1>4, <1>s DEF Finalize, OutcomeOK, PlacesOK, Stopped, Natural, Status
  <2>2. FlagsOK' BY <1>4 DEF Finalize, FlagsOK
  <2>3. PlacesOK' BY <1>4, FramesAssumption DEF Finalize, PlacesOK, FlagsOK
  <2> QED BY <2>1, <2>2, <2>3
<1>5. CASE Notified
  <2>1. OutcomeOK' BY <1>5, <1>s DEF Notified, OutcomeOK, PlacesOK, Stopped, Natural, Status
  <2>2. FlagsOK' BY <1>5 DEF Notified, FlagsOK
  <2>3. PlacesOK' BY <1>5, FramesAssumption DEF Notified, PlacesOK, FlagsOK
  <2> QED BY <2>1, <2>2, <2>3
<1>6. CASE Close
  <2>1. OutcomeOK'
    BY <1>6, <1>s DEF Close, Cleanup, RunsHooks, OutcomeOK, PlacesOK, Stopped, Natural, Status
  <2>2. FlagsOK' BY <1>6 DEF Close, Cleanup, RunsHooks, FlagsOK
  <2>3. PlacesOK' BY <1>6, FramesAssumption DEF Close, Cleanup, RunsHooks, PlacesOK, FlagsOK
  <2> QED BY <2>1, <2>2, <2>3
<1> QED BY <1>1, <1>2, <1>3, <1>4, <1>5, <1>6 DEF Monitor

\* The types, by the steps of Adapter.
LEMMA TypeAdapter ==
  ASSUME OutcomeOK, FlagsOK, PlacesOK, Adapter
  PROVE  OutcomeOK' /\ FlagsOK' /\ PlacesOK'
<1> USE DEF context, caller, monitor, adapter, told, controller, protocol, pipe, cleaner
<1>s. StopNow \in Stopped \cup {"none"} BY StopType, TypeParts
<1>1. CASE Start
  <2>1. OutcomeOK'
    BY <1>1, <1>s DEF Start, Goes, Ends, OutcomeOK, PlacesOK, Stopped, Natural, Status
  <2>2. FlagsOK' BY <1>1 DEF Start, Goes, Ends, FlagsOK
  <2>3. PlacesOK' BY <1>1, FramesAssumption DEF Start, Goes, Ends, PlacesOK, FlagsOK
  <2> QED BY <2>1, <2>2, <2>3
<1>2. CASE Spawn
  <2>1. OutcomeOK'
    BY <1>2, <1>s DEF Spawn, Goes, Ends, OutcomeOK, PlacesOK, Stopped, Natural, Status
  <2>2. FlagsOK' BY <1>2 DEF Spawn, Goes, Ends, FlagsOK
  <2>3. PlacesOK' BY <1>2, FramesAssumption DEF Spawn, Goes, Ends, PlacesOK, FlagsOK
  <2> QED BY <2>1, <2>2, <2>3
<1>3. CASE Register
  <2>1. OutcomeOK'
    BY <1>3, <1>s DEF Register, AfterRegister, Goes, RunsHooks, OutcomeOK, PlacesOK, Stopped,
         Natural, Status
  <2>2. FlagsOK' BY <1>3 DEF Register, AfterRegister, Goes, RunsHooks, FlagsOK
  <2>3. PlacesOK'
    BY <1>3, FramesAssumption DEF Register, AfterRegister, Goes, RunsHooks, PlacesOK, FlagsOK
  <2> QED BY <2>1, <2>2, <2>3
<1>4. CASE Late
  <2>1. OutcomeOK'
    BY <1>4, <1>s DEF Late, AfterRegister, Goes, OutcomeOK, PlacesOK, Stopped, Natural, Status
  <2>2. FlagsOK' BY <1>4 DEF Late, AfterRegister, Goes, FlagsOK
  <2>3. PlacesOK' BY <1>4, FramesAssumption DEF Late, AfterRegister, Goes, PlacesOK, FlagsOK
  <2> QED BY <2>1, <2>2, <2>3
<1>5. CASE Rotate
  <2>1. OutcomeOK' BY <1>5, <1>s DEF Rotate, Goes, OutcomeOK, PlacesOK, Stopped, Natural, Status
  <2>2. FlagsOK' BY <1>5 DEF Rotate, Goes, FlagsOK
  <2>3. PlacesOK' BY <1>5, FramesAssumption DEF Rotate, Goes, PlacesOK, FlagsOK
  <2> QED BY <2>1, <2>2, <2>3
<1>6. CASE CheckRequested
  <2>1. OutcomeOK'
    BY <1>6, <1>s DEF CheckRequested, Goes, Ends, Killed, OutcomeOK, PlacesOK, Stopped, Natural,
         Status
  <2>2. FlagsOK' BY <1>6 DEF CheckRequested, Goes, Ends, Killed, FlagsOK
  <2>3. PlacesOK'
    BY <1>6, FramesAssumption DEF CheckRequested, Goes, Ends, Killed, PlacesOK, FlagsOK
  <2> QED BY <2>1, <2>2, <2>3
<1>7. CASE Checkpoint
  <2>1. OutcomeOK'
    BY <1>7, <1>s DEF Checkpoint, Ends, Polled, OutcomeOK, PlacesOK, Stopped, Natural, Status
  <2>2. FlagsOK' BY <1>7 DEF Checkpoint, Ends, Polled, FlagsOK
  <2>3. PlacesOK' BY <1>7, FramesAssumption DEF Checkpoint, Ends, Polled, PlacesOK, FlagsOK
  <2> QED BY <2>1, <2>2, <2>3
<1>8. CASE Read
  <2>1. OutcomeOK' BY <1>8, <1>s DEF Read, Goes, Ends, OutcomeOK, PlacesOK, Stopped, Natural, Status
  <2>2. FlagsOK'
    <3>1. UNCHANGED <<style, hooks, closed, cabort, cancelled, expired, held, creq, torn,
                      resolved, armed>>
      BY <1>8 DEF Read
    <3>2. pend' = TRUE \/ pend' = pend
      BY <1>8 DEF Read
    <3>3. pend' \in BOOLEAN
      BY <3>2, Zenon DEF FlagsOK
    <3> QED BY <3>1, <3>3, Zenon DEF FlagsOK
  <2>3. PlacesOK' BY <1>8, FramesAssumption DEF Read, Goes, Ends, PlacesOK, FlagsOK
  <2> QED BY <2>1, <2>2, <2>3
<1>9. CASE Exited
  <2>1. OutcomeOK' BY <1>9, <1>s DEF Exited, Ends, OutcomeOK, PlacesOK, Stopped, Natural, Status
  <2>2. FlagsOK' BY <1>9 DEF Exited, Ends, FlagsOK
  <2>3. PlacesOK' BY <1>9, FramesAssumption DEF Exited, Ends, PlacesOK, FlagsOK
  <2> QED BY <2>1, <2>2, <2>3
<1>10. CASE Emitted
  <2>1. OutcomeOK'
    BY <1>10, <1>s DEF Emitted, Goes, Ends, OutcomeOK, PlacesOK, Stopped, Natural, Status
  <2>2. FlagsOK' BY <1>10 DEF Emitted, Goes, Ends, FlagsOK
  <2>3. PlacesOK' BY <1>10, FramesAssumption DEF Emitted, Goes, Ends, PlacesOK, FlagsOK
  <2> QED BY <2>1, <2>2, <2>3
<1>11. CASE Answered
  <2>1. OutcomeOK'
    BY <1>11, <1>s DEF Answered, Goes, Ends, OutcomeOK, PlacesOK, Stopped, Natural, Status
  <2>2. FlagsOK' BY <1>11 DEF Answered, Goes, Ends, FlagsOK
  <2>3. PlacesOK' BY <1>11, FramesAssumption DEF Answered, Goes, Ends, PlacesOK, FlagsOK
  <2> QED BY <2>1, <2>2, <2>3
<1>12. CASE Request
  <2>1. OutcomeOK' BY <1>12, <1>s DEF Request, Goes, OutcomeOK, PlacesOK, Stopped, Natural, Status
  <2>2. FlagsOK' BY <1>12 DEF Request, Goes, FlagsOK
  <2>3. PlacesOK' BY <1>12, FramesAssumption DEF Request, Goes, PlacesOK, FlagsOK
  <2> QED BY <2>1, <2>2, <2>3
<1>13. CASE SetAbort
  <2>1. OutcomeOK' BY <1>13, <1>s DEF SetAbort, OutcomeOK, PlacesOK, Stopped, Natural, Status
  <2>2. FlagsOK' BY <1>13 DEF SetAbort, FlagsOK
  <2>3. PlacesOK' BY <1>13, FramesAssumption DEF SetAbort, PlacesOK, FlagsOK
  <2> QED BY <2>1, <2>2, <2>3
<1>14. CASE Respond
  <2>1. OutcomeOK'
    BY <1>14, <1>s DEF Respond, Fails, Ends, Goes, OutcomeOK, PlacesOK, Stopped, Natural, Status
  <2>2. FlagsOK' BY <1>14 DEF Respond, Fails, Ends, Goes, FlagsOK
  <2>3. PlacesOK' BY <1>14, FramesAssumption DEF Respond, Fails, Ends, Goes, PlacesOK, FlagsOK
  <2> QED BY <2>1, <2>2, <2>3
<1>15. CASE Acquire
  <2>1. OutcomeOK'
    BY <1>15, <1>s DEF Acquire, Fails, Ends, Goes, Releases, OutcomeOK, PlacesOK, Stopped,
         Natural, Status
  <2>2. FlagsOK'
    <3>1. UNCHANGED <<style, hooks, closed, cabort, cancelled, expired, held, creq, pend,
                      resolved, armed>>
      BY <1>15 DEF Acquire
    <3>2. torn' = TRUE \/ torn' = torn
      BY <1>15 DEF Acquire
    <3>3. torn' \in BOOLEAN
      BY <3>2, Zenon DEF FlagsOK
    <3> QED BY <3>1, <3>3, Zenon DEF FlagsOK
  <2>3. PlacesOK'
    BY <1>15, FramesAssumption DEF Acquire, Fails, Ends, Goes, Releases, PlacesOK, FlagsOK
  <2> QED BY <2>1, <2>2, <2>3
<1>16. CASE Written
  <2>1. OutcomeOK'
    BY <1>16, <1>s DEF Written, Ends, Goes, Releases, OutcomeOK, PlacesOK, Stopped, Natural,
         Status
  <2>2. FlagsOK' BY <1>16 DEF Written, Ends, Goes, Releases, FlagsOK
  <2>3. PlacesOK' BY <1>16, FramesAssumption DEF Written, Ends, Goes, Releases, PlacesOK, FlagsOK
  <2> QED BY <2>1, <2>2, <2>3
<1>17. CASE Unwritten
  <2>1. OutcomeOK'
    BY <1>17, <1>s DEF Unwritten, Fails, Ends, Releases, OutcomeOK, PlacesOK, Stopped, Natural,
         Status
  <2>2. FlagsOK' BY <1>17 DEF Unwritten, Fails, Ends, Releases, FlagsOK
  <2>3. PlacesOK' BY <1>17, FramesAssumption DEF Unwritten, Fails, Ends, Releases, PlacesOK, FlagsOK
  <2> QED BY <2>1, <2>2, <2>3
<1>18. CASE CloseCleanly
  <2>1. OutcomeOK'
    BY <1>18, <1>s DEF CloseCleanly, Ends, Goes, OutcomeOK, PlacesOK, Stopped, Natural, Status
  <2>2. FlagsOK'
    <3>1. UNCHANGED <<style, hooks, closed, cabort, cancelled, expired, held, creq, torn, armed>>
      BY <1>18 DEF CloseCleanly
    <3>2. (resolved' = TRUE /\ pend' = FALSE) \/ UNCHANGED <<resolved, pend>>
      BY <1>18 DEF CloseCleanly
    <3>3. resolved' \in BOOLEAN /\ pend' \in BOOLEAN
      BY <3>2, Zenon DEF FlagsOK
    <3> QED BY <3>1, <3>3, Zenon DEF FlagsOK
  <2>3. PlacesOK' BY <1>18, FramesAssumption DEF CloseCleanly, Ends, Goes, PlacesOK, FlagsOK
  <2> QED BY <2>1, <2>2, <2>3
<1>19. CASE CloseProcess
  <2>1. OutcomeOK'
    BY <1>19, <1>s DEF CloseProcess, Ends, OutcomeOK, PlacesOK, Stopped, Natural, Status
  <2>2. FlagsOK' BY <1>19 DEF CloseProcess, Ends, FlagsOK
  <2>3. PlacesOK' BY <1>19, FramesAssumption DEF CloseProcess, Ends, PlacesOK, FlagsOK
  <2> QED BY <2>1, <2>2, <2>3
<1>20. CASE Complete
  <2>1. OutcomeOK' BY <1>20, <1>s DEF Complete, Ends, OutcomeOK, PlacesOK, Stopped, Natural, Status
  <2>2. FlagsOK' BY <1>20 DEF Complete, Ends, FlagsOK
  <2>3. PlacesOK' BY <1>20, FramesAssumption DEF Complete, Ends, PlacesOK, FlagsOK
  <2> QED BY <2>1, <2>2, <2>3
<1>21. CASE TerminalShown
  <2>1. OutcomeOK'
    BY <1>21, <1>s DEF TerminalShown, Goes, Ends, OutcomeOK, PlacesOK, Stopped, Natural, Status
  <2>2. FlagsOK' BY <1>21 DEF TerminalShown, Goes, Ends, FlagsOK
  <2>3. PlacesOK' BY <1>21, FramesAssumption DEF TerminalShown, Goes, Ends, PlacesOK, FlagsOK
  <2> QED BY <2>1, <2>2, <2>3
<1>22. CASE Publish
  <2>1. OutcomeOK' BY <1>22, <1>s DEF Publish, Goes, OutcomeOK, PlacesOK, Stopped, Natural, Status
  <2>2. FlagsOK' BY <1>22 DEF Publish, Goes, FlagsOK
  <2>3. PlacesOK' BY <1>22, FramesAssumption DEF Publish, Goes, PlacesOK, FlagsOK
  <2> QED BY <2>1, <2>2, <2>3
<1>23. CASE Commit
  <2>1. OutcomeOK' BY <1>23, <1>s DEF Commit, Ends, OutcomeOK, PlacesOK, Stopped, Natural, Status
  <2>2. FlagsOK' BY <1>23 DEF Commit, Ends, FlagsOK
  <2>3. PlacesOK' BY <1>23, FramesAssumption DEF Commit, Ends, PlacesOK, FlagsOK
  <2> QED BY <2>1, <2>2, <2>3
<1> QED
  BY <1>1, <1>2, <1>3, <1>4, <1>5, <1>6, <1>7, <1>8, <1>9, <1>10, <1>11, <1>12, <1>13, <1>14,
       <1>15, <1>16, <1>17, <1>18, <1>19, <1>20, <1>21, <1>22, <1>23 DEF Adapter

\* The types, by the steps of Cleaning.
LEMMA TypeCleaning ==
  ASSUME OutcomeOK, FlagsOK, PlacesOK, Cleaning
  PROVE  OutcomeOK' /\ FlagsOK' /\ PlacesOK'
<1> USE DEF context, caller, monitor, adapter, told, controller, protocol, pipe, cleaner
<1>s. StopNow \in Stopped \cup {"none"} BY StopType, TypeParts
<1>1. CASE GraceOver
  <2>1. OutcomeOK' BY <1>1, <1>s DEF GraceOver, OutcomeOK, PlacesOK, Stopped, Natural, Status
  <2>2. FlagsOK' BY <1>1 DEF GraceOver, FlagsOK
  <2>3. PlacesOK' BY <1>1, FramesAssumption DEF GraceOver, PlacesOK, FlagsOK
  <2> QED BY <2>1, <2>2, <2>3
<1>2. CASE AbortReturns
  <2>1. OutcomeOK' BY <1>2, <1>s DEF AbortReturns, OutcomeOK, PlacesOK, Stopped, Natural, Status
  <2>2. FlagsOK' BY <1>2 DEF AbortReturns, FlagsOK
  <2>3. PlacesOK' BY <1>2, FramesAssumption DEF AbortReturns, PlacesOK, FlagsOK
  <2> QED BY <2>1, <2>2, <2>3
<1>3. CASE CloseInput
  <2>1. OutcomeOK' BY <1>3, <1>s DEF CloseInput, OutcomeOK, PlacesOK, Stopped, Natural, Status
  <2>2. FlagsOK' BY <1>3 DEF CloseInput, FlagsOK
  <2>3. PlacesOK' BY <1>3, FramesAssumption DEF CloseInput, PlacesOK, FlagsOK
  <2> QED BY <2>1, <2>2, <2>3
<1>4. CASE Terminate
  <2>1. OutcomeOK'
    BY <1>4, <1>s DEF Terminate, Killed, OutcomeOK, PlacesOK, Stopped, Natural, Status
  <2>2. FlagsOK' BY <1>4 DEF Terminate, Killed, FlagsOK
  <2>3. PlacesOK' BY <1>4, FramesAssumption DEF Terminate, Killed, PlacesOK, FlagsOK
  <2> QED BY <2>1, <2>2, <2>3
<1>5. CASE Kill
  <2>1. OutcomeOK' BY <1>5, <1>s DEF Kill, Killed, OutcomeOK, PlacesOK, Stopped, Natural, Status
  <2>2. FlagsOK' BY <1>5 DEF Kill, Killed, FlagsOK
  <2>3. PlacesOK' BY <1>5, FramesAssumption DEF Kill, Killed, PlacesOK, FlagsOK
  <2> QED BY <2>1, <2>2, <2>3
<1>6. CASE AbortGate
  <2>1. OutcomeOK' BY <1>6, <1>s DEF AbortGate, OutcomeOK, PlacesOK, Stopped, Natural, Status
  <2>2. FlagsOK' BY <1>6 DEF AbortGate, FlagsOK
  <2>3. PlacesOK' BY <1>6, FramesAssumption DEF AbortGate, PlacesOK, FlagsOK
  <2> QED BY <2>1, <2>2, <2>3
<1>7. CASE AbortLock
  <2>1. OutcomeOK' BY <1>7, <1>s DEF AbortLock, OutcomeOK, PlacesOK, Stopped, Natural, Status
  <2>2. FlagsOK'
    <3>1. UNCHANGED <<style, hooks, closed, cabort, cancelled, expired, held, creq, pend,
                      resolved, armed>>
      BY <1>7 DEF AbortLock
    <3>2. torn' = TRUE \/ torn' = torn
      BY <1>7 DEF AbortLock
    <3>3. torn' \in BOOLEAN
      BY <3>2, Zenon DEF FlagsOK
    <3> QED BY <3>1, <3>3, Zenon DEF FlagsOK
  <2>3. PlacesOK' BY <1>7, FramesAssumption DEF AbortLock, PlacesOK, FlagsOK
  <2> QED BY <2>1, <2>2, <2>3
<1>8. CASE AbortWritten
  <2>1. OutcomeOK' BY <1>8, <1>s DEF AbortWritten, OutcomeOK, PlacesOK, Stopped, Natural, Status
  <2>2. FlagsOK' BY <1>8 DEF AbortWritten, FlagsOK
  <2>3. PlacesOK' BY <1>8, FramesAssumption DEF AbortWritten, PlacesOK, FlagsOK
  <2> QED BY <2>1, <2>2, <2>3
<1> QED BY <1>1, <1>2, <1>3, <1>4, <1>5, <1>6, <1>7, <1>8 DEF Cleaning

\* Every step keeps the types.
LEMMA TypeStep == ASSUME TypeOK, [Next]_vars PROVE TypeOK'
<1> SUFFICES ASSUME OutcomeOK, FlagsOK, PlacesOK PROVE OutcomeOK' /\ FlagsOK' /\ PlacesOK'
  BY TypeParts DEF TypeOK, OutcomeOK, FlagsOK, PlacesOK
<1> USE DEF context, caller, monitor, adapter, told, controller, protocol, pipe, cleaner
<1>1. CASE Monitor BY <1>1, TypeMonitor
<1>2. CASE Adapter BY <1>2, TypeAdapter
<1>3. CASE Cleaning BY <1>3, TypeCleaning
<1>4. CASE Cancel BY <1>4 DEF Cancel, OutcomeOK, FlagsOK, PlacesOK
<1>5. CASE Expire BY <1>5 DEF Expire, OutcomeOK, FlagsOK, PlacesOK
<1>6. CASE ChildExits BY <1>6 DEF ChildExits, OutcomeOK, FlagsOK, PlacesOK
<1>7. CASE UNCHANGED vars BY <1>7 DEF vars, OutcomeOK, FlagsOK, PlacesOK
<1> QED BY <1>1, <1>2, <1>3, <1>4, <1>5, <1>6, <1>7 DEF Next

-----------------------------------------------------------------------------
(* The race, the reasons and the pipe.                                     *)

\* What Monitor keeps, and what a step of it may do.
LEMMA SafeMonitor ==
  ASSUME IInv, Monitor
  PROVE  Race' /\ Reasons' /\ Beginning' /\ Torn' /\ OutcomeStep /\ WireStep
<1> USE DEF IInv, context, caller, monitor, adapter, told, controller, protocol, pipe, cleaner
<1>s. StopNow \in Stopped \cup {"none"} BY StopType
<1>r. StopNow # "none" => Stopping BY StopReason
<1>1. CASE Poll
  <2>1. Race' BY <1>1, <1>s DEF Poll, Race, Reasons, Stopped
  <2>2. Reasons' BY <1>1, <1>r DEF Poll, Race, Reasons, Beginning, Stopping, Stopped
  <2>3. Beginning' BY <1>1 DEF Poll, Beginning, Reasons, TypeOK
  <2>4. Torn' BY <1>1 DEF Poll, Torn, Reasons, Beginning
  <2>5. OutcomeStep BY <1>1 DEF Poll, OutcomeStep, Race, Status, Stopped, Natural
  <2>6. WireStep BY <1>1 DEF Poll, WireStep, Torn, Reasons, Stopping
  <2> QED BY <2>1, <2>2, <2>3, <2>4, <2>5, <2>6
<1>2. CASE Took
  <2>1. Race' BY <1>2, <1>s DEF Took, Cleanup, RunsHooks, Race, Reasons, Stopped
  <2>2. Reasons'
    BY <1>2, <1>r DEF Took, Cleanup, RunsHooks, Race, Reasons, Beginning, Stopping, Stopped
  <2>3. Beginning' BY <1>2 DEF Took, Cleanup, RunsHooks, Beginning, Reasons, TypeOK
  <2>4. Torn' BY <1>2 DEF Took, Cleanup, RunsHooks, Torn, Reasons, Beginning
  <2>5. OutcomeStep
    BY <1>2 DEF Took, Cleanup, RunsHooks, OutcomeStep, Race, Status, Stopped, Natural
  <2>6. WireStep BY <1>2 DEF Took, Cleanup, RunsHooks, WireStep, Torn, Reasons, Stopping
  <2> QED BY <2>1, <2>2, <2>3, <2>4, <2>5, <2>6
<1>3. CASE Claim
  <2>1. Race' BY <1>3, <1>s DEF Claim, Race, Reasons, Stopped
  <2>2. Reasons' BY <1>3, <1>r DEF Claim, Race, Reasons, Beginning, Stopping, Stopped
  <2>3. Beginning' BY <1>3 DEF Claim, Beginning, Reasons, TypeOK
  <2>4. Torn' BY <1>3 DEF Claim, Torn, Reasons, Beginning
  <2>5. OutcomeStep BY <1>3 DEF Claim, OutcomeStep, Race, Status, Stopped, Natural
  <2>6. WireStep BY <1>3 DEF Claim, WireStep, Torn, Reasons, Stopping
  <2> QED BY <2>1, <2>2, <2>3, <2>4, <2>5, <2>6
<1>4. CASE Finalize
  <2>1. Race' BY <1>4, <1>s DEF Finalize, Race, Reasons, Stopped
  <2>2. Reasons' BY <1>4, <1>r DEF Finalize, Race, Reasons, Beginning, Stopping, Stopped
  <2>3. Beginning' BY <1>4 DEF Finalize, Beginning, Reasons, TypeOK
  <2>4. Torn' BY <1>4 DEF Finalize, Torn, Reasons, Beginning
  <2>5. OutcomeStep BY <1>4 DEF Finalize, OutcomeStep, Race, Status, Stopped, Natural
  <2>6. WireStep BY <1>4 DEF Finalize, WireStep, Torn, Reasons, Stopping
  <2> QED BY <2>1, <2>2, <2>3, <2>4, <2>5, <2>6
<1>5. CASE Notified
  <2>1. Race' BY <1>5, <1>s DEF Notified, Race, Reasons, Stopped
  <2>2. Reasons' BY <1>5, <1>r DEF Notified, Race, Reasons, Beginning, Stopping, Stopped
  <2>3. Beginning' BY <1>5 DEF Notified, Beginning, Reasons, TypeOK
  <2>4. Torn' BY <1>5 DEF Notified, Torn, Reasons, Beginning
  <2>5. OutcomeStep BY <1>5 DEF Notified, OutcomeStep, Race, Status, Stopped, Natural
  <2>6. WireStep BY <1>5 DEF Notified, WireStep, Torn, Reasons, Stopping
  <2> QED BY <2>1, <2>2, <2>3, <2>4, <2>5, <2>6
<1>6. CASE Close
  <2>1. Race' BY <1>6, <1>s DEF Close, Cleanup, RunsHooks, Race, Reasons, Stopped
  <2>2. Reasons'
    BY <1>6, <1>r DEF Close, Cleanup, RunsHooks, Race, Reasons, Beginning, Stopping, Stopped
  <2>3. Beginning' BY <1>6 DEF Close, Cleanup, RunsHooks, Beginning, Reasons, TypeOK
  <2>4. Torn' BY <1>6 DEF Close, Cleanup, RunsHooks, Torn, Reasons, Beginning
  <2>5. OutcomeStep
    BY <1>6 DEF Close, Cleanup, RunsHooks, OutcomeStep, Race, Status, Stopped, Natural
  <2>6. WireStep BY <1>6 DEF Close, Cleanup, RunsHooks, WireStep, Torn, Reasons, Stopping
  <2> QED BY <2>1, <2>2, <2>3, <2>4, <2>5, <2>6
<1> QED BY <1>1, <1>2, <1>3, <1>4, <1>5, <1>6 DEF Monitor

\* What Adapter keeps, and what a step of it may do.
LEMMA SafeAdapter ==
  ASSUME IInv, Adapter
  PROVE  Race' /\ Reasons' /\ Beginning' /\ Torn' /\ OutcomeStep /\ WireStep
<1> USE DEF IInv, context, caller, monitor, adapter, told, controller, protocol, pipe, cleaner
<1>s. StopNow \in Stopped \cup {"none"} BY StopType
<1>r. StopNow # "none" => Stopping BY StopReason
<1>1. CASE Start
  <2>1. Race' BY <1>1, <1>s DEF Start, Goes, Ends, Race, Reasons, Stopped
  <2>2. Reasons' BY <1>1, <1>r DEF Start, Goes, Ends, Race, Reasons, Beginning, Stopping, Stopped
  <2>3. Beginning' BY <1>1 DEF Start, Goes, Ends, Beginning, Reasons, TypeOK
  <2>4. Torn' BY <1>1 DEF Start, Goes, Ends, Torn, Reasons, Beginning
  <2>5. OutcomeStep BY <1>1 DEF Start, Goes, Ends, OutcomeStep, Race, Status, Stopped, Natural
  <2>6. WireStep BY <1>1 DEF Start, Goes, Ends, WireStep, Torn, Reasons, Stopping
  <2> QED BY <2>1, <2>2, <2>3, <2>4, <2>5, <2>6
<1>2. CASE Spawn
  <2>1. Race' BY <1>2, <1>s DEF Spawn, Goes, Ends, Race, Reasons, Stopped
  <2>2. Reasons' BY <1>2, <1>r DEF Spawn, Goes, Ends, Race, Reasons, Beginning, Stopping, Stopped
  <2>3. Beginning' BY <1>2 DEF Spawn, Goes, Ends, Beginning, Reasons, TypeOK
  <2>4. Torn' BY <1>2 DEF Spawn, Goes, Ends, Torn, Reasons, Beginning
  <2>5. OutcomeStep BY <1>2 DEF Spawn, Goes, Ends, OutcomeStep, Race, Status, Stopped, Natural
  <2>6. WireStep BY <1>2 DEF Spawn, Goes, Ends, WireStep, Torn, Reasons, Stopping
  <2> QED BY <2>1, <2>2, <2>3, <2>4, <2>5, <2>6
<1>3. CASE Register
  <2>1. Race' BY <1>3, <1>s DEF Register, AfterRegister, Goes, RunsHooks, Race, Reasons, Stopped
  <2>2. Reasons'
    BY <1>3, <1>r DEF Register, AfterRegister, Goes, RunsHooks, Race, Reasons, Beginning,
         Stopping, Stopped
  <2>3. Beginning' BY <1>3 DEF Register, AfterRegister, Goes, RunsHooks, Beginning, Reasons, TypeOK
  <2>4. Torn' BY <1>3 DEF Register, AfterRegister, Goes, RunsHooks, Torn, Reasons, Beginning
  <2>5. OutcomeStep
    BY <1>3 DEF Register, AfterRegister, Goes, RunsHooks, OutcomeStep, Race, Status, Stopped,
         Natural
  <2>6. WireStep
    BY <1>3 DEF Register, AfterRegister, Goes, RunsHooks, WireStep, Torn, Reasons, Stopping
  <2> QED BY <2>1, <2>2, <2>3, <2>4, <2>5, <2>6
<1>4. CASE Late
  <2>1. Race' BY <1>4, <1>s DEF Late, AfterRegister, Goes, Race, Reasons, Stopped
  <2>2. Reasons'
    BY <1>4, <1>r DEF Late, AfterRegister, Goes, Race, Reasons, Beginning, Stopping, Stopped
  <2>3. Beginning' BY <1>4 DEF Late, AfterRegister, Goes, Beginning, Reasons, TypeOK
  <2>4. Torn' BY <1>4 DEF Late, AfterRegister, Goes, Torn, Reasons, Beginning
  <2>5. OutcomeStep
    BY <1>4 DEF Late, AfterRegister, Goes, OutcomeStep, Race, Status, Stopped, Natural
  <2>6. WireStep BY <1>4 DEF Late, AfterRegister, Goes, WireStep, Torn, Reasons, Stopping
  <2> QED BY <2>1, <2>2, <2>3, <2>4, <2>5, <2>6
<1>5. CASE Rotate
  <2>1. Race' BY <1>5, <1>s DEF Rotate, Goes, Race, Reasons, Stopped
  <2>2. Reasons' BY <1>5, <1>r DEF Rotate, Goes, Race, Reasons, Beginning, Stopping, Stopped
  <2>3. Beginning' BY <1>5 DEF Rotate, Goes, Beginning, Reasons, TypeOK
  <2>4. Torn' BY <1>5 DEF Rotate, Goes, Torn, Reasons, Beginning
  <2>5. OutcomeStep BY <1>5 DEF Rotate, Goes, OutcomeStep, Race, Status, Stopped, Natural
  <2>6. WireStep BY <1>5 DEF Rotate, Goes, WireStep, Torn, Reasons, Stopping
  <2> QED BY <2>1, <2>2, <2>3, <2>4, <2>5, <2>6
<1>6. CASE CheckRequested
  <2>1. Race' BY <1>6, <1>s DEF CheckRequested, Goes, Ends, Killed, Race, Reasons, Stopped
  <2>2. Reasons'
    BY <1>6, <1>r DEF CheckRequested, Goes, Ends, Killed, Race, Reasons, Beginning, Stopping,
         Stopped
  <2>3. Beginning' BY <1>6 DEF CheckRequested, Goes, Ends, Killed, Beginning, Reasons, TypeOK
  <2>4. Torn' BY <1>6 DEF CheckRequested, Goes, Ends, Killed, Torn, Reasons, Beginning
  <2>5. OutcomeStep
    BY <1>6 DEF CheckRequested, Goes, Ends, Killed, OutcomeStep, Race, Status, Stopped, Natural
  <2>6. WireStep BY <1>6 DEF CheckRequested, Goes, Ends, Killed, WireStep, Torn, Reasons, Stopping
  <2> QED BY <2>1, <2>2, <2>3, <2>4, <2>5, <2>6
<1>7. CASE Checkpoint
  <2>1. Race' BY <1>7, <1>s DEF Checkpoint, Ends, Polled, Race, Reasons, Stopped
  <2>2. Reasons'
    BY <1>7, <1>r DEF Checkpoint, Ends, Polled, Race, Reasons, Beginning, Stopping, Stopped
  <2>3. Beginning' BY <1>7 DEF Checkpoint, Ends, Polled, Beginning, Reasons, TypeOK
  <2>4. Torn' BY <1>7 DEF Checkpoint, Ends, Polled, Torn, Reasons, Beginning
  <2>5. OutcomeStep
    BY <1>7 DEF Checkpoint, Ends, Polled, OutcomeStep, Race, Status, Stopped, Natural
  <2>6. WireStep BY <1>7 DEF Checkpoint, Ends, Polled, WireStep, Torn, Reasons, Stopping
  <2> QED BY <2>1, <2>2, <2>3, <2>4, <2>5, <2>6
<1>8. CASE Read
  <2>1. Race' BY <1>8, <1>s DEF Read, Goes, Ends, Race, Reasons, Stopped
  <2>2. Reasons' BY <1>8, <1>r DEF Read, Goes, Ends, Race, Reasons, Beginning, Stopping, Stopped
  <2>3. Beginning' BY <1>8 DEF Read, Goes, Ends, Beginning, Reasons, TypeOK
  <2>4. Torn' BY <1>8 DEF Read, Goes, Ends, Torn, Reasons, Beginning
  <2>5. OutcomeStep BY <1>8 DEF Read, Goes, Ends, OutcomeStep, Race, Status, Stopped, Natural
  <2>6. WireStep BY <1>8 DEF Read, Goes, Ends, WireStep, Torn, Reasons, Stopping
  <2> QED BY <2>1, <2>2, <2>3, <2>4, <2>5, <2>6
<1>9. CASE Exited
  <2>1. Race' BY <1>9, <1>s DEF Exited, Ends, Race, Reasons, Stopped
  <2>2. Reasons' BY <1>9, <1>r DEF Exited, Ends, Race, Reasons, Beginning, Stopping, Stopped
  <2>3. Beginning' BY <1>9 DEF Exited, Ends, Beginning, Reasons, TypeOK
  <2>4. Torn' BY <1>9 DEF Exited, Ends, Torn, Reasons, Beginning
  <2>5. OutcomeStep BY <1>9 DEF Exited, Ends, OutcomeStep, Race, Status, Stopped, Natural
  <2>6. WireStep BY <1>9 DEF Exited, Ends, WireStep, Torn, Reasons, Stopping
  <2> QED BY <2>1, <2>2, <2>3, <2>4, <2>5, <2>6
<1>10. CASE Emitted
  <2>1. Race' BY <1>10, <1>s DEF Emitted, Goes, Ends, Race, Reasons, Stopped
  <2>2. Reasons' BY <1>10, <1>r DEF Emitted, Goes, Ends, Race, Reasons, Beginning, Stopping, Stopped
  <2>3. Beginning' BY <1>10 DEF Emitted, Goes, Ends, Beginning, Reasons, TypeOK
  <2>4. Torn' BY <1>10 DEF Emitted, Goes, Ends, Torn, Reasons, Beginning
  <2>5. OutcomeStep BY <1>10 DEF Emitted, Goes, Ends, OutcomeStep, Race, Status, Stopped, Natural
  <2>6. WireStep BY <1>10 DEF Emitted, Goes, Ends, WireStep, Torn, Reasons, Stopping
  <2> QED BY <2>1, <2>2, <2>3, <2>4, <2>5, <2>6
<1>11. CASE Answered
  <2>1. Race' BY <1>11, <1>s DEF Answered, Goes, Ends, Race, Reasons, Stopped
  <2>2. Reasons'
    BY <1>11, <1>r DEF Answered, Goes, Ends, Race, Reasons, Beginning, Stopping, Stopped
  <2>3. Beginning' BY <1>11 DEF Answered, Goes, Ends, Beginning, Reasons, TypeOK
  <2>4. Torn' BY <1>11 DEF Answered, Goes, Ends, Torn, Reasons, Beginning
  <2>5. OutcomeStep BY <1>11 DEF Answered, Goes, Ends, OutcomeStep, Race, Status, Stopped, Natural
  <2>6. WireStep BY <1>11 DEF Answered, Goes, Ends, WireStep, Torn, Reasons, Stopping
  <2> QED BY <2>1, <2>2, <2>3, <2>4, <2>5, <2>6
<1>12. CASE Request
  <2>1. Race' BY <1>12, <1>s DEF Request, Goes, Race, Reasons, Stopped
  <2>2. Reasons' BY <1>12, <1>r DEF Request, Goes, Race, Reasons, Beginning, Stopping, Stopped
  <2>3. Beginning' BY <1>12 DEF Request, Goes, Beginning, Reasons, TypeOK
  <2>4. Torn' BY <1>12 DEF Request, Goes, Torn, Reasons, Beginning
  <2>5. OutcomeStep BY <1>12 DEF Request, Goes, OutcomeStep, Race, Status, Stopped, Natural
  <2>6. WireStep BY <1>12 DEF Request, Goes, WireStep, Torn, Reasons, Stopping
  <2> QED BY <2>1, <2>2, <2>3, <2>4, <2>5, <2>6
<1>13. CASE SetAbort
  <2>1. Race' BY <1>13, <1>s DEF SetAbort, Race, Reasons, Stopped
  <2>2. Reasons' BY <1>13, <1>r DEF SetAbort, Race, Reasons, Beginning, Stopping, Stopped
  <2>3. Beginning' BY <1>13 DEF SetAbort, Beginning, Reasons, TypeOK
  <2>4. Torn' BY <1>13 DEF SetAbort, Torn, Reasons, Beginning
  <2>5. OutcomeStep BY <1>13 DEF SetAbort, OutcomeStep, Race, Status, Stopped, Natural
  <2>6. WireStep BY <1>13 DEF SetAbort, WireStep, Torn, Reasons, Stopping
  <2> QED BY <2>1, <2>2, <2>3, <2>4, <2>5, <2>6
<1>14. CASE Respond
  <2>1. Race' BY <1>14, <1>s DEF Respond, Fails, Ends, Goes, Race, Reasons, Stopped
  <2>2. Reasons'
    BY <1>14, <1>r DEF Respond, Fails, Ends, Goes, Race, Reasons, Beginning, Stopping, Stopped
  <2>3. Beginning' BY <1>14 DEF Respond, Fails, Ends, Goes, Beginning, Reasons, TypeOK
  <2>4. Torn' BY <1>14 DEF Respond, Fails, Ends, Goes, Torn, Reasons, Beginning
  <2>5. OutcomeStep
    BY <1>14 DEF Respond, Fails, Ends, Goes, OutcomeStep, Race, Status, Stopped, Natural
  <2>6. WireStep BY <1>14 DEF Respond, Fails, Ends, Goes, WireStep, Torn, Reasons, Stopping
  <2> QED BY <2>1, <2>2, <2>3, <2>4, <2>5, <2>6
<1>15. CASE Acquire
  <2>1. Race' BY <1>15, <1>s DEF Acquire, Fails, Ends, Goes, Releases, Race, Reasons, Stopped
  <2>2. Reasons'
    BY <1>15, <1>r DEF Acquire, Fails, Ends, Goes, Releases, Race, Reasons, Beginning, Stopping,
         Stopped
  <2>3. Beginning' BY <1>15 DEF Acquire, Fails, Ends, Goes, Releases, Beginning, Reasons, TypeOK
  <2>4. Torn' BY <1>15 DEF Acquire, Fails, Ends, Goes, Releases, Torn, Reasons, Beginning
  <2>5. OutcomeStep
    BY <1>15 DEF Acquire, Fails, Ends, Goes, Releases, OutcomeStep, Race, Status, Stopped, Natural
  <2>6. WireStep
    BY <1>15 DEF Acquire, Fails, Ends, Goes, Releases, WireStep, Torn, Reasons, Stopping
  <2> QED BY <2>1, <2>2, <2>3, <2>4, <2>5, <2>6
<1>16. CASE Written
  <2>1. Race' BY <1>16, <1>s DEF Written, Ends, Goes, Releases, Race, Reasons, Stopped
  <2>2. Reasons'
    BY <1>16, <1>r DEF Written, Ends, Goes, Releases, Race, Reasons, Beginning, Stopping, Stopped
  <2>3. Beginning' BY <1>16 DEF Written, Ends, Goes, Releases, Beginning, Reasons, TypeOK
  <2>4. Torn' BY <1>16 DEF Written, Ends, Goes, Releases, Torn, Reasons, Beginning
  <2>5. OutcomeStep
    BY <1>16 DEF Written, Ends, Goes, Releases, OutcomeStep, Race, Status, Stopped, Natural
  <2>6. WireStep BY <1>16 DEF Written, Ends, Goes, Releases, WireStep, Torn, Reasons, Stopping
  <2> QED BY <2>1, <2>2, <2>3, <2>4, <2>5, <2>6
<1>17. CASE Unwritten
  <2>1. Race' BY <1>17, <1>s DEF Unwritten, Fails, Ends, Releases, Race, Reasons, Stopped
  <2>2. Reasons'
    BY <1>17, <1>r DEF Unwritten, Fails, Ends, Releases, Race, Reasons, Beginning, Stopping,
         Stopped
  <2>3. Beginning' BY <1>17 DEF Unwritten, Fails, Ends, Releases, Beginning, Reasons, TypeOK
  <2>4. Torn' BY <1>17 DEF Unwritten, Fails, Ends, Releases, Torn, Reasons, Beginning
  <2>5. OutcomeStep
    BY <1>17 DEF Unwritten, Fails, Ends, Releases, OutcomeStep, Race, Status, Stopped, Natural
  <2>6. WireStep BY <1>17 DEF Unwritten, Fails, Ends, Releases, WireStep, Torn, Reasons, Stopping
  <2> QED BY <2>1, <2>2, <2>3, <2>4, <2>5, <2>6
<1>18. CASE CloseCleanly
  <2>1. Race' BY <1>18, <1>s DEF CloseCleanly, Ends, Goes, Race, Reasons, Stopped
  <2>2. Reasons'
    BY <1>18, <1>r DEF CloseCleanly, Ends, Goes, Race, Reasons, Beginning, Stopping, Stopped
  <2>3. Beginning' BY <1>18 DEF CloseCleanly, Ends, Goes, Beginning, Reasons, TypeOK
  <2>4. Torn' BY <1>18 DEF CloseCleanly, Ends, Goes, Torn, Reasons, Beginning
  <2>5. OutcomeStep
    BY <1>18 DEF CloseCleanly, Ends, Goes, OutcomeStep, Race, Status, Stopped, Natural
  <2>6. WireStep BY <1>18 DEF CloseCleanly, Ends, Goes, WireStep, Torn, Reasons, Stopping
  <2> QED BY <2>1, <2>2, <2>3, <2>4, <2>5, <2>6
<1>19. CASE CloseProcess
  <2>1. Race' BY <1>19, <1>s DEF CloseProcess, Ends, Race, Reasons, Stopped
  <2>2. Reasons' BY <1>19, <1>r DEF CloseProcess, Ends, Race, Reasons, Beginning, Stopping, Stopped
  <2>3. Beginning' BY <1>19 DEF CloseProcess, Ends, Beginning, Reasons, TypeOK
  <2>4. Torn' BY <1>19 DEF CloseProcess, Ends, Torn, Reasons, Beginning
  <2>5. OutcomeStep BY <1>19 DEF CloseProcess, Ends, OutcomeStep, Race, Status, Stopped, Natural
  <2>6. WireStep BY <1>19 DEF CloseProcess, Ends, WireStep, Torn, Reasons, Stopping
  <2> QED BY <2>1, <2>2, <2>3, <2>4, <2>5, <2>6
<1>20. CASE Complete
  <2>1. Race' BY <1>20, <1>s DEF Complete, Ends, Race, Reasons, Stopped
  <2>2. Reasons' BY <1>20, <1>r DEF Complete, Ends, Race, Reasons, Beginning, Stopping, Stopped
  <2>3. Beginning' BY <1>20 DEF Complete, Ends, Beginning, Reasons, TypeOK
  <2>4. Torn' BY <1>20 DEF Complete, Ends, Torn, Reasons, Beginning
  <2>5. OutcomeStep BY <1>20 DEF Complete, Ends, OutcomeStep, Race, Status, Stopped, Natural
  <2>6. WireStep BY <1>20 DEF Complete, Ends, WireStep, Torn, Reasons, Stopping
  <2> QED BY <2>1, <2>2, <2>3, <2>4, <2>5, <2>6
<1>21. CASE TerminalShown
  <2>1. Race' BY <1>21, <1>s DEF TerminalShown, Goes, Ends, Race, Reasons, Stopped
  <2>2. Reasons'
    BY <1>21, <1>r DEF TerminalShown, Goes, Ends, Race, Reasons, Beginning, Stopping, Stopped
  <2>3. Beginning' BY <1>21 DEF TerminalShown, Goes, Ends, Beginning, Reasons, TypeOK
  <2>4. Torn' BY <1>21 DEF TerminalShown, Goes, Ends, Torn, Reasons, Beginning
  <2>5. OutcomeStep
    BY <1>21 DEF TerminalShown, Goes, Ends, OutcomeStep, Race, Status, Stopped, Natural
  <2>6. WireStep BY <1>21 DEF TerminalShown, Goes, Ends, WireStep, Torn, Reasons, Stopping
  <2> QED BY <2>1, <2>2, <2>3, <2>4, <2>5, <2>6
<1>22. CASE Publish
  <2>1. Race' BY <1>22, <1>s DEF Publish, Goes, Race, Reasons, Stopped
  <2>2. Reasons' BY <1>22, <1>r DEF Publish, Goes, Race, Reasons, Beginning, Stopping, Stopped
  <2>3. Beginning' BY <1>22 DEF Publish, Goes, Beginning, Reasons, TypeOK
  <2>4. Torn' BY <1>22 DEF Publish, Goes, Torn, Reasons, Beginning
  <2>5. OutcomeStep BY <1>22 DEF Publish, Goes, OutcomeStep, Race, Status, Stopped, Natural
  <2>6. WireStep BY <1>22 DEF Publish, Goes, WireStep, Torn, Reasons, Stopping
  <2> QED BY <2>1, <2>2, <2>3, <2>4, <2>5, <2>6
<1>23. CASE Commit
  <2>1. Race' BY <1>23, <1>s DEF Commit, Ends, Race, Reasons, Stopped
  <2>2. Reasons' BY <1>23, <1>r DEF Commit, Ends, Race, Reasons, Beginning, Stopping, Stopped
  <2>3. Beginning' BY <1>23 DEF Commit, Ends, Beginning, Reasons, TypeOK
  <2>4. Torn' BY <1>23 DEF Commit, Ends, Torn, Reasons, Beginning
  <2>5. OutcomeStep BY <1>23 DEF Commit, Ends, OutcomeStep, Race, Status, Stopped, Natural
  <2>6. WireStep BY <1>23 DEF Commit, Ends, WireStep, Torn, Reasons, Stopping
  <2> QED BY <2>1, <2>2, <2>3, <2>4, <2>5, <2>6
<1> QED
  BY <1>1, <1>2, <1>3, <1>4, <1>5, <1>6, <1>7, <1>8, <1>9, <1>10, <1>11, <1>12, <1>13, <1>14,
       <1>15, <1>16, <1>17, <1>18, <1>19, <1>20, <1>21, <1>22, <1>23 DEF Adapter

\* What Cleaning keeps, and what a step of it may do.
LEMMA SafeCleaning ==
  ASSUME IInv, Cleaning
  PROVE  Race' /\ Reasons' /\ Beginning' /\ Torn' /\ OutcomeStep /\ WireStep
<1> USE DEF IInv, context, caller, monitor, adapter, told, controller, protocol, pipe, cleaner
<1>s. StopNow \in Stopped \cup {"none"} BY StopType
<1>r. StopNow # "none" => Stopping BY StopReason
<1>1. CASE GraceOver
  <2>1. Race' BY <1>1, <1>s DEF GraceOver, Race, Reasons, Stopped
  <2>2. Reasons' BY <1>1, <1>r DEF GraceOver, Race, Reasons, Beginning, Stopping, Stopped
  <2>3. Beginning' BY <1>1 DEF GraceOver, Beginning, Reasons, TypeOK
  <2>4. Torn' BY <1>1 DEF GraceOver, Torn, Reasons, Beginning
  <2>5. OutcomeStep BY <1>1 DEF GraceOver, OutcomeStep, Race, Status, Stopped, Natural
  <2>6. WireStep BY <1>1 DEF GraceOver, WireStep, Torn, Reasons, Stopping
  <2> QED BY <2>1, <2>2, <2>3, <2>4, <2>5, <2>6
<1>2. CASE AbortReturns
  <2>1. Race' BY <1>2, <1>s DEF AbortReturns, Race, Reasons, Stopped
  <2>2. Reasons' BY <1>2, <1>r DEF AbortReturns, Race, Reasons, Beginning, Stopping, Stopped
  <2>3. Beginning' BY <1>2 DEF AbortReturns, Beginning, Reasons, TypeOK
  <2>4. Torn' BY <1>2 DEF AbortReturns, Torn, Reasons, Beginning
  <2>5. OutcomeStep BY <1>2 DEF AbortReturns, OutcomeStep, Race, Status, Stopped, Natural
  <2>6. WireStep BY <1>2 DEF AbortReturns, WireStep, Torn, Reasons, Stopping
  <2> QED BY <2>1, <2>2, <2>3, <2>4, <2>5, <2>6
<1>3. CASE CloseInput
  <2>1. Race' BY <1>3, <1>s DEF CloseInput, Race, Reasons, Stopped
  <2>2. Reasons' BY <1>3, <1>r DEF CloseInput, Race, Reasons, Beginning, Stopping, Stopped
  <2>3. Beginning' BY <1>3 DEF CloseInput, Beginning, Reasons, TypeOK
  <2>4. Torn' BY <1>3 DEF CloseInput, Torn, Reasons, Beginning
  <2>5. OutcomeStep BY <1>3 DEF CloseInput, OutcomeStep, Race, Status, Stopped, Natural
  <2>6. WireStep BY <1>3 DEF CloseInput, WireStep, Torn, Reasons, Stopping
  <2> QED BY <2>1, <2>2, <2>3, <2>4, <2>5, <2>6
<1>4. CASE Terminate
  <2>1. Race' BY <1>4, <1>s DEF Terminate, Killed, Race, Reasons, Stopped
  <2>2. Reasons' BY <1>4, <1>r DEF Terminate, Killed, Race, Reasons, Beginning, Stopping, Stopped
  <2>3. Beginning' BY <1>4 DEF Terminate, Killed, Beginning, Reasons, TypeOK
  <2>4. Torn' BY <1>4 DEF Terminate, Killed, Torn, Reasons, Beginning
  <2>5. OutcomeStep BY <1>4 DEF Terminate, Killed, OutcomeStep, Race, Status, Stopped, Natural
  <2>6. WireStep BY <1>4 DEF Terminate, Killed, WireStep, Torn, Reasons, Stopping
  <2> QED BY <2>1, <2>2, <2>3, <2>4, <2>5, <2>6
<1>5. CASE Kill
  <2>1. Race' BY <1>5, <1>s DEF Kill, Killed, Race, Reasons, Stopped
  <2>2. Reasons' BY <1>5, <1>r DEF Kill, Killed, Race, Reasons, Beginning, Stopping, Stopped
  <2>3. Beginning' BY <1>5 DEF Kill, Killed, Beginning, Reasons, TypeOK
  <2>4. Torn' BY <1>5 DEF Kill, Killed, Torn, Reasons, Beginning
  <2>5. OutcomeStep BY <1>5 DEF Kill, Killed, OutcomeStep, Race, Status, Stopped, Natural
  <2>6. WireStep BY <1>5 DEF Kill, Killed, WireStep, Torn, Reasons, Stopping
  <2> QED BY <2>1, <2>2, <2>3, <2>4, <2>5, <2>6
<1>6. CASE AbortGate
  <2>1. Race' BY <1>6, <1>s DEF AbortGate, Race, Reasons, Stopped
  <2>2. Reasons' BY <1>6, <1>r DEF AbortGate, Race, Reasons, Beginning, Stopping, Stopped
  <2>3. Beginning' BY <1>6 DEF AbortGate, Beginning, Reasons, TypeOK
  <2>4. Torn' BY <1>6 DEF AbortGate, Torn, Reasons, Beginning
  <2>5. OutcomeStep BY <1>6 DEF AbortGate, OutcomeStep, Race, Status, Stopped, Natural
  <2>6. WireStep BY <1>6 DEF AbortGate, WireStep, Torn, Reasons, Stopping
  <2> QED BY <2>1, <2>2, <2>3, <2>4, <2>5, <2>6
<1>7. CASE AbortLock
  <2>1. Race' BY <1>7, <1>s DEF AbortLock, Race, Reasons, Stopped
  <2>2. Reasons' BY <1>7, <1>r DEF AbortLock, Race, Reasons, Beginning, Stopping, Stopped
  <2>3. Beginning' BY <1>7 DEF AbortLock, Beginning, Reasons, TypeOK
  <2>4. Torn' BY <1>7 DEF AbortLock, Torn, Reasons, Beginning
  <2>5. OutcomeStep BY <1>7 DEF AbortLock, OutcomeStep, Race, Status, Stopped, Natural
  <2>6. WireStep BY <1>7 DEF AbortLock, WireStep, Torn, Reasons, Stopping
  <2> QED BY <2>1, <2>2, <2>3, <2>4, <2>5, <2>6
<1>8. CASE AbortWritten
  <2>1. Race' BY <1>8, <1>s DEF AbortWritten, Race, Reasons, Stopped
  <2>2. Reasons' BY <1>8, <1>r DEF AbortWritten, Race, Reasons, Beginning, Stopping, Stopped
  <2>3. Beginning' BY <1>8 DEF AbortWritten, Beginning, Reasons, TypeOK
  <2>4. Torn' BY <1>8 DEF AbortWritten, Torn, Reasons, Beginning
  <2>5. OutcomeStep BY <1>8 DEF AbortWritten, OutcomeStep, Race, Status, Stopped, Natural
  <2>6. WireStep BY <1>8 DEF AbortWritten, WireStep, Torn, Reasons, Stopping
  <2> QED BY <2>1, <2>2, <2>3, <2>4, <2>5, <2>6
<1> QED BY <1>1, <1>2, <1>3, <1>4, <1>5, <1>6, <1>7, <1>8 DEF Cleaning

\* Every step keeps the invariant, and is a safe one.
LEMMA SafeNext == ASSUME IInv, [Next]_vars PROVE IInv' /\ OutcomeStep /\ WireStep
<1>t. TypeOK' BY TypeStep DEF IInv
<1> SUFFICES Race' /\ Reasons' /\ Beginning' /\ Torn' /\ OutcomeStep /\ WireStep BY <1>t DEF IInv
<1> USE DEF context, caller, monitor, adapter, told, controller, protocol, pipe, cleaner
<1>1. CASE Monitor BY <1>1, SafeMonitor
<1>2. CASE Adapter BY <1>2, SafeAdapter
<1>3. CASE Cleaning BY <1>3, SafeCleaning
<1> DEFINE D == Cancel \/ Expire \/ ChildExits \/ UNCHANGED vars
<1>4. CASE D
  <2>1. Race' BY <1>4 DEF IInv, Cancel, Expire, ChildExits, vars, Race
  <2>2. Reasons' BY <1>4 DEF IInv, Cancel, Expire, ChildExits, vars, Reasons, Stopping
  <2>3. Beginning' BY <1>4 DEF IInv, Cancel, Expire, ChildExits, vars, Beginning
  <2>4. Torn' BY <1>4 DEF IInv, Cancel, Expire, ChildExits, vars, Torn
  <2>5. OutcomeStep
    BY <1>4 DEF IInv, Cancel, Expire, ChildExits, vars, OutcomeStep, Status, Stopped, Natural
  <2>6. WireStep BY <1>4 DEF IInv, Cancel, Expire, ChildExits, vars, WireStep
  <2> QED BY <2>1, <2>2, <2>3, <2>4, <2>5, <2>6
<1> QED BY <1>1, <1>2, <1>3, <1>4 DEF Next

-----------------------------------------------------------------------------
(* The theorems.                                                           *)

\* What has to be known of the race holds for any number of frames.
THEOREM Inductive == Spec => []IInv
<1>1. Init => IInv BY InitInv
<1>2. IInv /\ [Next]_vars => IInv' BY SafeNext
<1> QED BY <1>1, <1>2, PTL DEF Spec

\* Every variable keeps to its values (headless.py:260-282).
THEOREM TypeCorrect == Spec => []TypeOK
<1>1. IInv => TypeOK BY DEF IInv
<1> QED BY <1>1, Inductive, PTL

\* A published outcome stands, a claimed stop is what is published, and the caller gets what was
\* published (headless.py:789-801, 993-1005).
THEOREM OutcomeAlwaysStands == Spec => OutcomeStands
<1>1. IInv /\ [Next]_vars => [OutcomeStep]_vars BY SafeNext
<1>2. Spec => [][OutcomeStep]_vars BY <1>1, Inductive, PTL DEF Spec
<1> QED BY <1>2 DEF OutcomeStands, OutcomeStep

\* No frame begins behind half a frame of a child that may still read it
\* (plan_process.py:796-818, 837-838).
THEOREM WireAlwaysWhole == Spec => WireStaysWhole
<1>1. IInv /\ [Next]_vars => [WireStep]_vars BY SafeNext
<1>2. Spec => [][WireStep]_vars BY <1>1, Inductive, PTL DEF Spec
<1> QED BY <1>2 DEF WireStaysWhole, WireStep
=============================================================================
