----------------------------- MODULE PtySession -----------------------------
(***************************************************************************)
(* One terminal session of the browser UI (utils/pty_runner.py): a child   *)
(* process group on a pseudo-terminal, the reader thread that drains the   *)
(* master, the viewers it feeds, the threads that write to it and the      *)
(* threads that close it.                                                  *)
(*                                                                         *)
(* A critical section under _lock is one step (every queue operation in it *)
(* is non-blocking); _fd_lock is held across a system call and is a        *)
(* variable.  Everything else a thread does takes one step per statement   *)
(* another thread can fall between.                                        *)
(***************************************************************************)
EXTENDS Naturals, Sequences

CONSTANTS
    Closers,    \* threads that call close()
    Viewers,    \* threads that attach(), drain() and detach()
    Writers,    \* threads that call write() or resize()
    Limit,      \* SUBSCRIBER_QUEUE_LIMIT
    MaxOutput,  \* bound: chunks the child prints
    Unruly,     \* what the child may do besides run, print and exit
    NoStatus    \* None as an exit status

ASSUME PtyAssumption ==
    /\ Limit \in Nat \ {0} /\ MaxOutput \in Nat
    /\ Unruly \subseteq {"escape", "release"}
    /\ "free" \notin Writers
    /\ NoStatus # "ok"

VARIABLES
    stage,     \* the constructor: "new", "popen", "undo", "up", "failed"
    leader,    \* the child: "none", "running", "zombie", "collected"
    alive,     \* living processes: the leader, its group, an escaped one
    tty,       \* those that hold the slave open
    doomed,    \* those SIGKILL was delivered to
    out,       \* chunks written to the slave
    full,      \* the terminal's input buffer has no room
    fd,        \* the master: "mine", "retired", "closed", "recycled"
    fdLock,    \* the writer that holds _fd_lock, or "free"
    rpc,       \* the reader thread
    rstatus,   \* its local `status`
    read,      \* chunks it has broadcast: the scrollback
    exited, code, closed, stopped, closeDone,   \* the fields of the session
    status,    \* Popen.returncode
    cpc,       \* closer |-> where it is in close()
    wpc,       \* writer |-> where it is in write() or resize()
    vpc,       \* viewer |-> where it is
    subs,      \* _subscribers
    chan,      \* viewer |-> its channel
    view,      \* viewer |-> what it has shown: last chunk, and any gap
    final      \* history: chunks broadcast when the exit was published

child  == <<leader, alive, tty, doomed, out, full>>
master == <<fd, fdLock>>
reader == <<rpc, rstatus, read>>
result == <<exited, code, final>>
flags  == <<closed, stopped, closeDone, status>>
screen == <<subs, chan>>
viewer == <<vpc, view>>
session == <<result, flags>>
callers == <<cpc, wpc, viewer>>
parent == <<stage, fd, fdLock, rpc, rstatus, read, exited, code, final, closed,
            stopped, closeDone, status, cpc, wpc, vpc, subs, chan, view>>
vars == <<stage, leader, alive, tty, doomed, out, full, fd, fdLock, rpc,
          rstatus, read, exited, code, closed, stopped, closeDone, status,
          cpc, wpc, vpc, subs, chan, view, final>>

Group == {"leader", "group"}   \* what killpg reaches
Procs == Group \cup {"escaped"}
Statuses == {"ok", NoStatus}
Bytes(n) == [kind |-> "chunk", n |-> n]
Marker(k) == [kind |-> k, n |-> 0]
END == Marker("END")
DESYNC == Marker("DESYNC")
DETACH == Marker("DETACH")
Markers == {END, DESYNC, DETACH}
Blank == [last |-> 0, gap |-> FALSE]

Init ==
    /\ stage = "new" /\ leader = "none" /\ alive = {} /\ tty = {} /\ doomed = {}
    /\ out = 0 /\ full = FALSE
    /\ fd = "mine" /\ fdLock = "free"
    /\ rpc = "none" /\ rstatus = NoStatus /\ read = 0
    /\ exited = FALSE /\ code = NoStatus /\ final = 0
    /\ closed = FALSE /\ stopped = FALSE /\ closeDone = FALSE /\ status = NoStatus
    /\ cpc = [c \in Closers |-> "out"]
    /\ wpc = [w \in Writers |-> "out"]
    /\ vpc = [v \in Viewers |-> "out"]
    /\ subs = {} /\ chan = [v \in Viewers |-> <<>>]
    /\ view = [v \in Viewers |-> Blank]

-----------------------------------------------------------------------------
(* The constructor.                                                         *)

(* openpty(), then Popen: on an exception the master is closed. *)
Popen ==
    /\ stage = "new"
    /\ stage' = "popen" /\ leader' = "running"
    /\ alive' = {"leader"} /\ tty' = {"leader"}
    /\ UNCHANGED <<doomed, out, full, master, reader, session, callers, screen>>

PopenFails ==
    /\ stage = "new"
    /\ stage' = "failed" /\ fd' = "closed"
    /\ UNCHANGED <<child, fdLock, reader, session, callers, screen>>

StartReader ==
    /\ stage = "popen"
    /\ stage' = "up" /\ rpc' = "load"
    /\ UNCHANGED <<child, master, rstatus, read, session, callers, screen>>

(* The reader could not start: signal before reaping, then close. *)
StartReaderFails ==
    /\ stage = "popen"
    /\ stage' = "undo" /\ doomed' = alive \cap Group
    /\ UNCHANGED <<leader, alive, tty, out, full, master, reader, session, callers,
                   screen>>

UndoStart ==
    /\ stage = "undo" /\ leader = "zombie"
    /\ stage' = "failed" /\ leader' = "collected" /\ fd' = "closed"
    /\ UNCHANGED <<alive, tty, doomed, out, full, fdLock, reader, session, callers,
                   screen>>

-----------------------------------------------------------------------------
(* The child and its descendants.                                           *)

Prints ==
    /\ tty # {} /\ out < MaxOutput
    /\ out' = out + 1
    /\ UNCHANGED parent /\ UNCHANGED <<leader, alive, tty, doomed, full>>

(* The child reads its input and there is room again. *)
Reads ==
    /\ tty # {} /\ full /\ full' = FALSE
    /\ UNCHANGED parent /\ UNCHANGED <<leader, alive, tty, doomed, out>>

(* A shell command of the agent, in the leader's group. *)
Forks ==
    /\ "leader" \in alive \ doomed /\ "group" \notin alive
    /\ alive' = alive \cup {"group"}
    /\ tty' = IF "leader" \in tty THEN tty \cup {"group"} ELSE tty
    /\ UNCHANGED parent /\ UNCHANGED <<leader, doomed, out, full>>

(* A command that calls setsid(): signals to the group miss it. *)
Escapes ==
    /\ "escape" \in Unruly
    /\ "group" \in alive \ doomed /\ "escaped" \notin alive
    /\ alive' = (alive \ {"group"}) \cup {"escaped"}
    /\ tty' = IF "group" \in tty THEN (tty \ {"group"}) \cup {"escaped"} ELSE tty
    /\ UNCHANGED parent /\ UNCHANGED <<leader, doomed, out, full>>

(* A process that closes or redirects its standard streams and lives on. *)
Releases(p) ==
    /\ "release" \in Unruly /\ p \in tty \ doomed
    /\ tty' = tty \ {p}
    /\ UNCHANGED parent /\ UNCHANGED <<leader, alive, doomed, out, full>>

Dies(p) ==
    /\ p \in alive
    /\ alive' = alive \ {p} /\ tty' = tty \ {p} /\ doomed' = doomed \ {p}
    /\ leader' = IF p = "leader" THEN "zombie" ELSE leader
    /\ UNCHANGED parent /\ UNCHANGED <<out, full>>

(* The next session's openpty() is handed the number of a closed master. *)
Recycled ==
    /\ fd = "closed" /\ stage = "up" /\ fd' = "recycled"
    /\ UNCHANGED <<stage, child, fdLock, reader, session, callers, screen>>

-----------------------------------------------------------------------------
(* Channels.                                                                *)

Full(q) == Len(q) >= Limit

(* _force: a marker always gets in, evicting the oldest entry. *)
ForceIn(q, m) == Append(IF Full(q) THEN Tail(q) ELSE q, m)

(* _finish: the first caller publishes the status and ends every viewer. *)
Finish(s) ==
    IF exited THEN UNCHANGED <<result, screen>>
    ELSE /\ exited' = TRUE /\ code' = s /\ final' = read
         /\ subs' = {}
         /\ chan' = [v \in Viewers |->
              IF v \in subs
              THEN ForceIn(chan[v], IF Full(chan[v]) THEN DESYNC ELSE END)
              ELSE chan[v]]

(* Mutant: the oldest chunk makes room for the new one. *)
BroadcastDropsOldest(chunk) ==
    /\ UNCHANGED subs
    /\ chan' = [v \in Viewers |->
         IF v \in subs THEN ForceIn(chan[v], Bytes(chunk)) ELSE chan[v]]

(* _broadcast: a viewer whose channel is full is cut. *)
Broadcast(chunk) ==
    LET behind == {v \in subs : Full(chan[v])} IN
    /\ subs' = subs \ behind
    /\ chan' = [v \in Viewers |->
         IF v \in behind THEN ForceIn(chan[v], DESYNC)
         ELSE IF v \in subs THEN Append(chan[v], Bytes(chunk))
         ELSE chan[v]]

-----------------------------------------------------------------------------
(* _pump_output: the reader thread.                                         *)

(* The argument of os.read is evaluated before the call. *)
ReadLoads ==
    /\ rpc = "load"
    /\ rpc' = IF fd = "mine" THEN "call" ELSE "await"
    /\ UNCHANGED <<stage, child, master, rstatus, read, session, callers, screen>>

(* Inside the call the kernel keeps the file, whatever happens to its number. *)
ReadEnters ==
    /\ rpc = "call"
    /\ rpc' = CASE fd = "closed" -> "await"
                [] fd = "recycled" -> "foreign"
                [] OTHER -> "read"
    /\ UNCHANGED <<stage, child, master, rstatus, read, session, callers, screen>>

ReadReturns ==
    /\ rpc = "read"
    /\ \/ read < out /\ rpc' = "broadcast"
       \/ read = out /\ tty = {} /\ rpc' = "await"
    /\ UNCHANGED <<stage, child, master, rstatus, read, session, callers, screen>>

(* Somebody else's output lands in this session's scrollback. *)
ReadForeign ==
    /\ rpc = "foreign" /\ rpc' = "load"
    /\ UNCHANGED <<stage, child, master, rstatus, read, session, callers, screen>>

ReaderBroadcasts ==
    /\ rpc = "broadcast"
    /\ read' = read + 1 /\ rpc' = "load"
    /\ Broadcast(read + 1)
    /\ UNCHANGED <<stage, child, master, rstatus, session, callers>>

(* _await_exit with WNOWAIT: the status, or None while the child runs at    *)
(* the deadline and when somebody has collected it.                         *)
ReaderAwaits ==
    /\ rpc = "await"
    /\ rstatus' = IF leader = "zombie" THEN "ok" ELSE NoStatus
    /\ rpc' = "finish"
    /\ UNCHANGED <<stage, child, master, read, session, callers, screen>>

ReaderFinishes ==
    /\ rpc = "finish" /\ rpc' = "done"
    /\ Finish(IF rstatus # NoStatus THEN rstatus ELSE status)
    /\ UNCHANGED <<stage, child, master, rstatus, read, flags, callers>>

-----------------------------------------------------------------------------
(* close() and _teardown().                                                 *)

CloserGoes(c, at, to) == cpc[c] = at /\ cpc' = [cpc EXCEPT ![c] = to]

(* Mutants: _closed is not tested and set in one critical section; a close  *)
(* after a natural exit counts as a stop.                                   *)
CloseEntersTwice(c) ==
    /\ stage = "up"
    /\ CloserGoes(c, "out", "hangup")
    /\ closed' = TRUE
    /\ stopped' = (stopped \/ (~closed /\ ~exited))
    /\ UNCHANGED <<stage, child, master, reader, result, closeDone, status, wpc,
                   viewer, screen>>

CloseEntersStops(c) ==
    /\ stage = "up"
    /\ CloserGoes(c, "out", IF closed THEN "settle" ELSE "hangup")
    /\ closed' = TRUE
    /\ stopped' = TRUE
    /\ UNCHANGED <<stage, child, master, reader, result, closeDone, status, wpc,
                   viewer, screen>>

CloseEnters(c) ==
    /\ stage = "up"
    /\ CloserGoes(c, "out", IF closed THEN "settle" ELSE "hangup")
    /\ closed' = TRUE
    /\ stopped' = (stopped \/ (~closed /\ ~exited))
    /\ UNCHANGED <<stage, child, master, reader, result, closeDone, status, wpc,
                   viewer, screen>>

(* Mutant: a second close returns at once. *)
CloseSettlesAtOnce(c) ==
    /\ CloserGoes(c, "settle", "closed")
    /\ UNCHANGED <<stage, child, master, reader, session, wpc, viewer, screen>>

CloseSettles(c) ==
    /\ \/ closeDone /\ CloserGoes(c, "settle", "closed")
       \/ ~closeDone /\ CloserGoes(c, "settle", "gaveUp")
    /\ UNCHANGED <<stage, child, master, reader, session, wpc, viewer, screen>>

(* SIGHUP, which any process may ignore. *)
HangsUp(c) ==
    /\ CloserGoes(c, "hangup", "grace")
    /\ UNCHANGED <<stage, child, master, reader, session, wpc, viewer, screen>>

(* _await_exit returns when the child is gone or the grace period is over. *)
GraceEnds(c) ==
    /\ CloserGoes(c, "grace", "kill")
    /\ UNCHANGED <<stage, child, master, reader, session, wpc, viewer, screen>>

(* Mutant: the second signal is another SIGHUP. *)
KillsPolitely(c) ==
    /\ CloserGoes(c, "kill", "join")
    /\ UNCHANGED <<stage, child, master, reader, session, wpc, viewer, screen>>

Kills(c) ==
    /\ CloserGoes(c, "kill", "join")
    /\ doomed' = doomed \cup (alive \cap Group)
    /\ UNCHANGED <<stage, leader, alive, tty, out, full, master, reader, session,
                   wpc, viewer, screen>>

(* Mutant: the reader is not waited for. *)
JoinsNobody(c) ==
    /\ CloserGoes(c, "join", "collect")
    /\ UNCHANGED <<stage, child, master, reader, session, wpc, viewer, screen>>

(* The join times out only while a process no SIGKILL reached holds the     *)
(* slave: otherwise the reader sees the end of output.                      *)
Joins(c) ==
    /\ CloserGoes(c, "join", "collect")
    /\ rpc = "done" \/ tty \ doomed # {}
    /\ UNCHANGED <<stage, child, master, reader, session, wpc, viewer, screen>>

(* Popen.wait: the kernel forgets the child, then returncode is assigned.   *)
Collects(c) ==
    /\ CloserGoes(c, "collect", "record")
    /\ leader = "zombie" /\ leader' = "collected"
    /\ UNCHANGED <<stage, alive, tty, doomed, out, full, master, reader, session,
                   wpc, viewer, screen>>

Records(c) ==
    /\ CloserGoes(c, "record", "retire")
    /\ status' = "ok"
    /\ UNCHANGED <<stage, child, master, reader, result, closed, stopped,
                   closeDone, wpc, viewer, screen>>

(* Mutant: without _fd_lock. *)
RetiresUnlocked(c) ==
    /\ CloserGoes(c, "retire", "closeFd")
    /\ fd' = "retired"
    /\ UNCHANGED <<stage, child, fdLock, reader, session, wpc, viewer, screen>>

(* Under _fd_lock. *)
Retires(c) ==
    /\ CloserGoes(c, "retire", "closeFd")
    /\ fdLock = "free" /\ fd' = "retired"
    /\ UNCHANGED <<stage, child, fdLock, reader, session, wpc, viewer, screen>>

ClosesFd(c) ==
    /\ CloserGoes(c, "closeFd", "finish")
    /\ fd' = "closed"
    /\ UNCHANGED <<stage, child, fdLock, reader, session, wpc, viewer, screen>>

CloserFinishes(c) ==
    /\ CloserGoes(c, "finish", "publish")
    /\ Finish(status)
    /\ UNCHANGED <<stage, child, master, reader, flags, wpc, viewer>>

CloseDone(c) ==
    /\ CloserGoes(c, "publish", "closed")
    /\ closeDone' = TRUE
    /\ UNCHANGED <<stage, child, master, reader, result, closed, stopped, status,
                   wpc, viewer, screen>>

-----------------------------------------------------------------------------
(* write() and resize().                                                    *)

WriterGoes(w, at, to) == wpc[w] = at /\ wpc' = [wpc EXCEPT ![w] = to]

(* Once the child has exited both are a no-op. *)
InputBegins(w) ==
    /\ stage = "up" /\ ~exited
    /\ WriterGoes(w, "out", "lock")
    /\ UNCHANGED <<stage, child, master, reader, session, cpc, viewer, screen>>

InputLocks(w) ==
    /\ fdLock = "free"
    /\ IF fd = "mine"
       THEN fdLock' = w /\ \E k \in {"write", "brief"} : WriterGoes(w, "lock", k)
       ELSE UNCHANGED fdLock /\ WriterGoes(w, "lock", "out")
    /\ UNCHANGED <<stage, child, fd, reader, session, cpc, viewer, screen>>

(* The ioctl, or a terminal report that is dropped: neither can block. *)
InputReturns(w) ==
    /\ WriterGoes(w, "brief", "out")
    /\ fdLock' = "free"
    /\ UNCHANGED <<stage, child, fd, reader, session, cpc, viewer, screen>>

(* os.write blocks while the input buffer is full and the slave is open. *)
WriteReturns(w) ==
    /\ WriterGoes(w, "write", "out")
    /\ ~full \/ tty = {}
    /\ full' \in IF tty = {} THEN {full} ELSE BOOLEAN
    /\ fdLock' = "free"
    /\ UNCHANGED <<stage, leader, alive, tty, doomed, out, fd, reader, session,
                   cpc, viewer, screen>>

-----------------------------------------------------------------------------
(* attach(), drain() and detach().                                          *)

(* Mutant: _exited is not looked at again under the lock. *)
AttachesBlindly(v) ==
    /\ stage = "up" /\ vpc[v] \in {"out", "cut", "left"}
    /\ view' = [view EXCEPT ![v] = [last |-> read, gap |-> FALSE]]
    /\ vpc' = [vpc EXCEPT ![v] = "drain"]
    /\ subs' = subs \cup {v} /\ chan' = [chan EXCEPT ![v] = <<>>]
    /\ UNCHANGED <<stage, child, master, reader, session, cpc, wpc>>

(* The scrollback and the registration are taken in one critical section;   *)
(* a viewer that was cut or left may come back.                             *)
Attaches(v) ==
    /\ stage = "up" /\ vpc[v] \in {"out", "cut", "left"}
    /\ view' = [view EXCEPT ![v] = [last |-> read, gap |-> FALSE]]
    /\ IF exited
       THEN vpc' = [vpc EXCEPT ![v] = "late"] /\ UNCHANGED screen
       ELSE /\ vpc' = [vpc EXCEPT ![v] = "drain"]
            /\ subs' = subs \cup {v} /\ chan' = [chan EXCEPT ![v] = <<>>]
    /\ UNCHANGED <<stage, child, master, reader, session, cpc, wpc>>

DrainsChunk(v) ==
    /\ vpc[v] = "drain" /\ chan[v] # <<>> /\ Head(chan[v]) \notin Markers
    /\ view' = [view EXCEPT ![v] =
         [last |-> Head(chan[v]).n, gap |-> @.gap \/ Head(chan[v]).n # @.last + 1]]
    /\ chan' = [chan EXCEPT ![v] = Tail(@)]
    /\ UNCHANGED <<stage, child, master, reader, session, cpc, wpc, vpc, subs>>

(* The detach of the viewer's own `finally` follows; its channel is gone.   *)
DrainsMarker(v) ==
    /\ vpc[v] = "drain" /\ chan[v] # <<>> /\ Head(chan[v]) \in Markers
    /\ vpc' = [vpc EXCEPT ![v] =
         CASE Head(chan[v]) = END -> "end"
           [] Head(chan[v]) = DESYNC -> "cut"
           [] OTHER -> "left"]
    /\ subs' = subs \ {v} /\ chan' = [chan EXCEPT ![v] = <<>>]
    /\ UNCHANGED <<stage, child, master, reader, session, cpc, wpc, view>>

IsCutLoose(v) == \E i \in DOMAIN chan[v] : chan[v][i] = DETACH

(* Another thread detaches a viewer that may be parked in Queue.get(), or    *)
(* that was already sent its marker; whoever does takes the subscription    *)
(* from a table first, so it happens once.                                  *)
IsDetached(v) ==
    /\ vpc[v] = "drain" /\ ~IsCutLoose(v)
    /\ subs' = subs \ {v} /\ chan' = [chan EXCEPT ![v] = ForceIn(@, DETACH)]
    /\ UNCHANGED <<stage, child, master, reader, session, callers>>

-----------------------------------------------------------------------------
Constructs == Popen \/ PopenFails \/ StartReader \/ StartReaderFails \/ UndoStart

ChildStep ==
    \/ Prints \/ Reads \/ Forks \/ Escapes
    \/ \E p \in Procs : Releases(p) \/ Dies(p)

ReaderStep ==
    \/ ReadLoads \/ ReadEnters \/ ReadReturns \/ ReadForeign
    \/ ReaderBroadcasts \/ ReaderAwaits \/ ReaderFinishes

CloserStep(c) ==
    \/ CloseSettles(c) \/ HangsUp(c) \/ GraceEnds(c) \/ Kills(c) \/ Joins(c)
    \/ Collects(c) \/ Records(c) \/ Retires(c) \/ ClosesFd(c)
    \/ CloserFinishes(c) \/ CloseDone(c)

WriterStep(w) == InputLocks(w) \/ InputReturns(w) \/ WriteReturns(w)
ViewerStep(v) == DrainsChunk(v) \/ DrainsMarker(v)

(* Every thread is done, or the session never came up. *)
Finished ==
    /\ stage = "failed" \/ (stage = "up" /\ rpc = "done")
    /\ \A c \in Closers : cpc[c] \in {"out", "closed", "gaveUp"}
    /\ \A w \in Writers : wpc[w] = "out"
    /\ \A v \in Viewers : vpc[v] # "drain"
    /\ UNCHANGED vars

Next ==
    \/ Constructs \/ ChildStep \/ ReaderStep \/ Recycled
    \/ \E c \in Closers : CloseEnters(c) \/ CloserStep(c)
    \/ \E w \in Writers : InputBegins(w) \/ WriterStep(w)
    \/ \E v \in Viewers : Attaches(v) \/ ViewerStep(v) \/ IsDetached(v)
    \/ Finished

Spec == Init /\ [][Next]_vars

(* A thread that can run does, a lock that is free again and again is       *)
(* obtained, and a process SIGKILL reached dies.  Nothing is assumed of the *)
(* child, of the user, or of who closes and when.                           *)
Fairness ==
    /\ WF_vars(Constructs) /\ WF_vars(ReaderStep)
    /\ \A c \in Closers : WF_vars(CloserStep(c)) /\ SF_vars(Retires(c))
    /\ \A w \in Writers : WF_vars(WriterStep(w))
    /\ \A v \in Viewers : WF_vars(ViewerStep(v))
    /\ \A p \in Group : WF_vars(p \in doomed /\ Dies(p))

FairSpec == Spec /\ Fairness

-----------------------------------------------------------------------------
(* Properties.                                                              *)

Items == {Bytes(n) : n \in 1..MaxOutput} \cup Markers

(* Type invariant. *)
TypeOK ==
    /\ stage \in {"new", "popen", "undo", "up", "failed"}
    /\ leader \in {"none", "running", "zombie", "collected"}
    /\ alive \subseteq Procs /\ tty \subseteq alive /\ doomed \subseteq alive \cap Group
    /\ out \in 0..MaxOutput /\ full \in BOOLEAN
    /\ fd \in {"mine", "retired", "closed", "recycled"}
    /\ fdLock \in Writers \cup {"free"}
    /\ rpc \in {"none", "load", "call", "read", "foreign", "broadcast", "await",
               "finish", "done"}
    /\ rstatus \in Statuses /\ read \in 0..out
    /\ exited \in BOOLEAN /\ code \in Statuses /\ final \in 0..read
    /\ closed \in BOOLEAN /\ stopped \in BOOLEAN /\ closeDone \in BOOLEAN
    /\ status \in Statuses
    /\ cpc \in [Closers -> {"out", "settle", "hangup", "grace", "kill", "join",
                           "collect", "record", "retire", "closeFd", "finish",
                           "publish", "closed", "gaveUp"}]
    /\ wpc \in [Writers -> {"out", "lock", "write", "brief"}]
    /\ vpc \in [Viewers -> {"out", "late", "drain", "end", "cut", "left"}]
    /\ subs \subseteq Viewers /\ DOMAIN chan = Viewers
    /\ \A v \in Viewers : chan[v] \in Seq(Items) /\ Len(chan[v]) <= Limit
    /\ view \in [Viewers -> [last : 0..MaxOutput, gap : BOOLEAN]]

(* A signal to the group is sent only while the child is uncollected: the  *)
(* kernel still holds the number, so it cannot reach another process.      *)
SignalsOwnGroup ==
    \A c \in Closers : cpc[c] \in {"hangup", "kill"} => leader \in {"running", "zombie"}

(* Whatever the order of write(), resize() and close(), the descriptor a   *)
(* keystroke or a resize goes to is this session's, never one the next     *)
(* session was handed the number of.                                       *)
InputReachesOwnTerminal ==
    \A w \in Writers : wpc[w] \in {"write", "brief"} => fd = "mine"

(* The same of the reader thread, which does not take _fd_lock.            *)
OutputIsOwn == rpc # "foreign"

(* What the viewer has shown and what its channel holds are together all   *)
(* the chunks broadcast, up to the exit once that is out.                  *)
HasAll(v) ==
    LET q == chan[v]
        n == IF q # <<>> /\ q[Len(q)] = END THEN Len(q) - 1 ELSE Len(q)
    IN /\ ~view[v].gap
       /\ \A i \in 1..n : q[i] = Bytes(view[v].last + i)
       /\ view[v].last + n = IF exited THEN final ELSE read

(* No gap goes unmarked.  An orderly end is what comes next only for a     *)
(* viewer that saw every chunk broadcast up to the exit (one that somebody  *)
(* has detached shows nothing any more).  From the step that costs a viewer *)
(* its first chunk on, before it has shown anything from behind the gap,    *)
(* the marker that cuts its stream is the last entry of its channel, and    *)
(* no thread offers it more: what it may still show, ahead of the marker,   *)
(* is what the channel held by then.                                        *)
NoSilentGap ==
    \A v \in Viewers : vpc[v] = "drain" =>
      /\ chan[v] # <<>> /\ Head(chan[v]) = END /\ ~IsCutLoose(v)
           => ~view[v].gap /\ view[v].last = final
      /\ ~HasAll(v)
           => /\ v \notin subs
              /\ chan[v] # <<>> /\ chan[v][Len(chan[v])] \in {DESYNC, DETACH}

(* The session is what its users take it for: the exit is published once,  *)
(* closing after a natural exit does not relabel it as stopped, and no     *)
(* close returns before the session is over.                               *)
Lifecycle == INSTANCE SessionLifecycle WITH
    running <- ~exited,
    call <- [c \in Closers |->
        CASE cpc[c] = "settle" -> "waits"
          [] cpc[c] \in {"out", "closed", "gaveUp"} -> cpc[c]
          [] OTHER -> "works"]

ImplementsLifecycle == Lifecycle!Spec

(* When a close returns, for the thread that did the work and for those    *)
(* that waited for it, nothing of the session's process group runs except  *)
(* what SIGKILL has reached, the child is collected and the exit is out.   *)
ClosedMeansOver ==
    \A c \in Closers : cpc[c] = "closed" =>
      /\ exited /\ leader = "collected" /\ fd \in {"closed", "recycled"}
      /\ alive \cap Group \subseteq doomed

(* Unless the child gave its terminal up, the status published is the      *)
(* child's own, never None.                                                *)
StatusKnown == exited => code # NoStatus

(* What a viewer is told of the end is true: the status is the child's own, *)
(* and an orderly end follows all of the output.                            *)
EndToldTruly == StatusKnown /\ NoSilentGap

(* Every close() ends, whatever writers and viewers do. *)
CloseReturns ==
    \A c \in Closers : cpc[c] = "hangup" ~> cpc[c] \in {"closed", "gaveUp"}

(* A viewer is never left parked: it leaves its drain loop once the session *)
(* ends, somebody detaches it, or the session is closed.                    *)
ViewersReleased ==
    \A v \in Viewers : (vpc[v] = "drain" /\ (closed \/ v \notin subs)) ~> vpc[v] # "drain"
=============================================================================
