--------------------------- MODULE SessionManager ---------------------------
(***************************************************************************)
(* The registry of terminal sessions behind the browser UI                 *)
(* (web/sessions.py): request threads create and close sessions while      *)
(* children exit on their own, event streams pick new sessions up, and one *)
(* thread shuts the server down.                                           *)
(*                                                                         *)
(* A session is what SessionLifecycle promises of it: it runs until it     *)
(* exits; a close makes it exit and frees its descriptor, its reader and   *)
(* its process id; closes of one session wait for the first.               *)
(***************************************************************************)
EXTENDS Naturals, FiniteSets

CONSTANTS
    Threads,   \* request threads
    Sessions,  \* sessions there can ever be
    Streams,   \* MultiplexedStreams, one per event-stream request
    MaxLive    \* MAX_CONCURRENT_SESSIONS

Free == "free"

ASSUME ManagerAssumption ==
    /\ IsFiniteSet(Threads) /\ IsFiniteSet(Sessions)
    /\ MaxLive \in Nat \ {0}
    /\ Free \notin Threads

VARIABLES
    registry,   \* _sessions
    reserved,   \* _reserved
    inflight,   \* _inflight
    closed,     \* _closed
    listening,  \* _listeners: the streams that registered one
    lock,       \* who holds _lock across more than one step, or Free
    spawned,    \* sessions whose child was started
    running,    \* those whose exit is not published
    freed,      \* those whose close() has done its work
    tpc,        \* request thread |-> where it is
    mine,       \* request thread |-> the session it works on, as a set
    todo,       \* request thread |-> exited sessions it has to close
    toTell,     \* request thread |-> listeners it has to call
    spc,        \* the thread in shutdown()
    snapshot,   \* sessions it still has to close
    timedOut,   \* shutdown stopped waiting for a create
    mpc,        \* stream |-> "out", "opening", "starting", "open", "closed"
    found,      \* stream |-> sessions its __enter__ still has to start
    started     \* stream |-> _started: sessions that have a pump

table    == <<registry, reserved, inflight, closed>>
sessions == <<spawned, running, freed>>
request  == <<mine, todo, toTell>>
stop     == <<spc, snapshot, timedOut>>
stream   == <<mpc, found, started>>
vars == <<registry, reserved, inflight, closed, listening, lock, spawned,
          running, freed, tpc, mine, todo, toTell, spc, snapshot, timedOut,
          mpc, found, started>>

Unlocked == lock = Free

Init ==
    /\ registry = {} /\ reserved = 0 /\ inflight = 0 /\ closed = FALSE
    /\ listening = {} /\ lock = Free
    /\ spawned = {} /\ running = {} /\ freed = {}
    /\ tpc = [t \in Threads |-> "out"]
    /\ mine = [t \in Threads |-> {}] /\ todo = [t \in Threads |-> {}]
    /\ toTell = [t \in Threads |-> {}]
    /\ spc = "out" /\ snapshot = {} /\ timedOut = FALSE
    /\ mpc = [m \in Streams |-> "out"]
    /\ found = [m \in Streams |-> {}] /\ started = [m \in Streams |-> {}]

Goes(t, at, to) == tpc[t] = at /\ tpc' = [tpc EXCEPT ![t] = to]

-----------------------------------------------------------------------------
(* PtySession, as the manager uses it.                                      *)

(* The child exits by itself; no lock of the manager is involved. *)
Exits(s) ==
    /\ s \in running /\ running' = running \ {s}
    /\ UNCHANGED <<table, listening, lock, spawned, freed, tpc, request, stop, stream>>

(* close() returns to its caller: the first one did the work. *)
Close(s) ==
    /\ running' = running \ {s} /\ freed' = freed \cup {s}
    /\ UNCHANGED spawned

-----------------------------------------------------------------------------
(* create() and _spawn().                                                   *)

(* Under _lock: refuse after a shutdown, else pop what has exited. *)
ReapsExited(t) ==
    /\ Unlocked /\ ~closed
    /\ Goes(t, "out", "count") /\ lock' = t
    /\ registry' = registry \cap running
    /\ todo' = [todo EXCEPT ![t] = registry \ running]
    /\ UNCHANGED <<reserved, inflight, closed, listening, sessions, mine, toTell,
                   stop, stream>>

Live == Cardinality(registry \cap running)

(* Mutant: the slots of creates in flight are not counted. *)
ReservesBlindly(t) ==
    /\ Live < MaxLive
    /\ Goes(t, "count", "reap") /\ lock' = Free
    /\ reserved' = reserved + 1 /\ inflight' = inflight + 1
    /\ UNCHANGED <<registry, closed, listening, sessions, request, stop, stream>>

(* Still under _lock, but a child may have exited since. *)
Reserves(t) ==
    /\ Live + reserved < MaxLive
    /\ Goes(t, "count", "reap") /\ lock' = Free
    /\ reserved' = reserved + 1 /\ inflight' = inflight + 1
    /\ UNCHANGED <<registry, closed, listening, sessions, request, stop, stream>>

(* Too many live sessions: LaunchValidationError leaves create(). *)
RefusesLimit(t) ==
    /\ Live + reserved >= MaxLive
    /\ Goes(t, "count", "out") /\ lock' = Free
    /\ todo' = [todo EXCEPT ![t] = {}]
    /\ UNCHANGED <<table, listening, sessions, mine, toTell, stop, stream>>

ClosesExited(t) ==
    /\ tpc[t] = "reap"
    /\ \E s \in todo[t] : Close(s) /\ todo' = [todo EXCEPT ![t] = @ \ {s}]
    /\ UNCHANGED <<table, listening, lock, tpc, mine, toTell, stop, stream>>

Spawns(t) ==
    /\ Goes(t, "reap", "register") /\ todo[t] = {}
    /\ \E s \in Sessions \ spawned :
         /\ spawned' = spawned \cup {s} /\ running' = running \cup {s}
         /\ mine' = [mine EXCEPT ![t] = {s}]
    /\ UNCHANGED <<table, listening, lock, freed, todo, toTell, stop, stream>>

(* Mutants: the slot is kept; it is given back in an except and a finally. *)
SpawnFailsKeeps(t) ==
    /\ Unlocked /\ todo[t] = {}
    /\ Goes(t, "reap", "settle")
    /\ UNCHANGED <<table, listening, lock, sessions, request, stop, stream>>

(* The argv could not be built or the child not be started. *)
SpawnFails(t) ==
    /\ Unlocked /\ todo[t] = {}
    /\ Goes(t, "reap", "settle")
    /\ reserved' = reserved - 1
    /\ UNCHANGED <<registry, inflight, closed, listening, lock, sessions, request,
                   stop, stream>>

(* Mutant: _closed is not looked at again. *)
RegistersAnyway(t) ==
    /\ Unlocked
    /\ Goes(t, "register", "tell")
    /\ reserved' = reserved - 1
    /\ registry' = registry \cup mine[t]
    /\ toTell' = [toTell EXCEPT ![t] = listening]
    /\ UNCHANGED <<inflight, closed, listening, lock, sessions, mine, todo, stop,
                   stream>>

Registers(t) ==
    /\ Unlocked /\ ~closed
    /\ Goes(t, "register", "tell")
    /\ reserved' = reserved - 1
    /\ registry' = registry \cup mine[t]
    /\ toTell' = [toTell EXCEPT ![t] = listening]
    /\ UNCHANGED <<inflight, closed, listening, lock, sessions, mine, todo, stop,
                   stream>>

(* Mutant: the error is raised and the child forgotten. *)
RegisterForgets(t) ==
    /\ Unlocked /\ closed
    /\ Goes(t, "register", "settle")
    /\ reserved' = reserved - 1
    /\ UNCHANGED <<registry, inflight, closed, listening, lock, sessions, request,
                   stop, stream>>

(* The loser of the race with shutdown() cleans its own child up. *)
RegisterRefused(t) ==
    /\ Unlocked /\ closed
    /\ Goes(t, "register", "orphan")
    /\ reserved' = reserved - 1
    /\ UNCHANGED <<registry, inflight, closed, listening, lock, sessions, request,
                   stop, stream>>

ClosesOrphan(t) ==
    /\ Goes(t, "orphan", "settle")
    /\ \E s \in mine[t] : Close(s)
    /\ UNCHANGED <<table, listening, lock, request, stop, stream>>

(* _start_pump: the claim on the session comes before the thread. *)
StartPump(m, s) == started' = [started EXCEPT ![m] = @ \cup {s}]

TellsListener(t) ==
    /\ tpc[t] = "tell"
    /\ \E m \in toTell[t], s \in mine[t] :
         /\ toTell' = [toTell EXCEPT ![t] = @ \ {m}]
         /\ IF mpc[m] # "closed" THEN StartPump(m, s) ELSE UNCHANGED started
    /\ UNCHANGED <<table, listening, lock, sessions, tpc, mine, todo, stop, mpc, found>>

(* Mutant: a listener may not hear of it. *)
ToldSome(t) ==
    /\ Goes(t, "tell", "settle")
    /\ UNCHANGED <<table, listening, lock, sessions, request, stop, stream>>

ToldAll(t) ==
    /\ Goes(t, "tell", "settle") /\ toTell[t] = {}
    /\ UNCHANGED <<table, listening, lock, sessions, request, stop, stream>>

Settles(t) ==
    /\ Unlocked /\ Goes(t, "settle", "out")
    /\ inflight' = inflight - 1
    /\ mine' = [mine EXCEPT ![t] = {}]
    /\ UNCHANGED <<registry, reserved, closed, listening, lock, sessions, todo,
                   toTell, stop, stream>>

-----------------------------------------------------------------------------
(* close(session_id): get, close, then pop.                                 *)

Gets(t) ==
    /\ Unlocked /\ Goes(t, "out", "close")
    /\ \E s \in registry : mine' = [mine EXCEPT ![t] = {s}]
    /\ UNCHANGED <<table, listening, lock, sessions, todo, toTell, stop, stream>>

Closes(t) ==
    /\ Goes(t, "close", "pop")
    /\ \E s \in mine[t] : Close(s)
    /\ UNCHANGED <<table, listening, lock, request, stop, stream>>

Pops(t) ==
    /\ Unlocked /\ Goes(t, "pop", "out")
    /\ registry' = registry \ mine[t]
    /\ mine' = [mine EXCEPT ![t] = {}]
    /\ UNCHANGED <<reserved, inflight, closed, listening, lock, sessions, todo,
                   toTell, stop, stream>>

-----------------------------------------------------------------------------
(* shutdown().                                                              *)

ShutdownBegins ==
    /\ Unlocked /\ spc = "out"
    /\ closed' = TRUE /\ snapshot' = registry /\ registry' = {}
    /\ spc' = "drain"
    /\ UNCHANGED <<reserved, inflight, listening, lock, sessions, tpc, request,
                   timedOut, stream>>

(* Condition.wait_for: no create is left, or SHUTDOWN_DRAIN_SECONDS passed. *)
Drained ==
    /\ Unlocked /\ spc = "drain" /\ spc' = "close"
    /\ timedOut' = (inflight # 0)
    /\ UNCHANGED <<table, listening, lock, sessions, tpc, request, snapshot, stream>>

ShutdownCloses ==
    /\ spc = "close"
    /\ \E s \in snapshot : Close(s) /\ snapshot' = snapshot \ {s}
    /\ UNCHANGED <<table, listening, lock, tpc, request, spc, timedOut, stream>>

ShutdownReturns ==
    /\ spc = "close" /\ snapshot = {} /\ spc' = "done"
    /\ UNCHANGED <<table, listening, lock, sessions, tpc, request, snapshot,
                   timedOut, stream>>

-----------------------------------------------------------------------------
(* MultiplexedStream.__enter__ and close().                                 *)

StreamGoes(m, at, to) == mpc[m] = at /\ mpc' = [mpc EXCEPT ![m] = to]

AddsListener(m) ==
    /\ Unlocked /\ StreamGoes(m, "out", "opening")
    /\ listening' = listening \cup {m}
    /\ UNCHANGED <<table, lock, sessions, tpc, request, stop, found, started>>

ListsSessions(m) ==
    /\ Unlocked /\ StreamGoes(m, "opening", "starting")
    /\ found' = [found EXCEPT ![m] = registry]
    /\ UNCHANGED <<table, listening, lock, sessions, tpc, request, stop, started>>

StartsFound(m) ==
    /\ mpc[m] = "starting"
    /\ \E s \in found[m] :
         StartPump(m, s) /\ found' = [found EXCEPT ![m] = @ \ {s}]
    /\ UNCHANGED <<table, listening, lock, sessions, tpc, request, stop, mpc>>

Opened(m) ==
    /\ StreamGoes(m, "starting", "open") /\ found[m] = {}
    /\ UNCHANGED <<table, listening, lock, sessions, tpc, request, stop, found, started>>

(* By its reader, or by a pump that cuts a stream that fell behind, perhaps  *)
(* while __enter__ still starts pumps: from here on it starts none.         *)
StreamCloses(m) ==
    /\ Unlocked
    /\ StreamGoes(m, "open", "closed") \/ StreamGoes(m, "starting", "closed")
    /\ listening' = listening \ {m}
    /\ UNCHANGED <<table, lock, sessions, tpc, request, stop, found, started>>

-----------------------------------------------------------------------------
CreateStep(t) ==
    \/ Reserves(t) \/ RefusesLimit(t) \/ ClosesExited(t) \/ Spawns(t)
    \/ SpawnFails(t) \/ Registers(t) \/ RegisterRefused(t) \/ ClosesOrphan(t)
    \/ TellsListener(t) \/ ToldAll(t) \/ Settles(t)

CloseStep(t) == Closes(t) \/ Pops(t)
ShutdownStep == Drained \/ ShutdownCloses \/ ShutdownReturns
EnterStep(m) == ListsSessions(m) \/ StartsFound(m) \/ Opened(m)

Next ==
    \/ \E s \in Sessions : Exits(s)
    \/ \E t \in Threads :
         ReapsExited(t) \/ CreateStep(t) \/ Gets(t) \/ CloseStep(t)
    \/ ShutdownBegins \/ ShutdownStep
    \/ \E m \in Streams : AddsListener(m) \/ EnterStep(m) \/ StreamCloses(m)

Spec == Init /\ [][Next]_vars

-----------------------------------------------------------------------------
(* Properties.                                                              *)

Creating == {"reap", "register", "orphan", "tell", "settle"}
Holding  == {"reap", "register"}
At(pcs)  == {t \in Threads : tpc[t] \in pcs}

(* Type invariant. *)
TypeOK ==
    /\ registry \subseteq Sessions /\ reserved \in Nat /\ inflight \in Nat
    /\ closed \in BOOLEAN /\ listening \subseteq Streams
    /\ lock \in Threads \cup {Free}
    /\ spawned \subseteq Sessions /\ running \subseteq spawned /\ freed \subseteq spawned
    /\ tpc \in [Threads -> {"out", "count", "close", "pop"} \cup Creating]
    /\ mine \in [Threads -> SUBSET Sessions] /\ todo \in [Threads -> SUBSET Sessions]
    /\ toTell \in [Threads -> SUBSET Streams]
    /\ spc \in {"out", "drain", "close", "done"} /\ snapshot \subseteq Sessions
    /\ timedOut \in BOOLEAN
    /\ mpc \in [Streams -> {"out", "opening", "starting", "open", "closed"}]
    /\ found \in [Streams -> SUBSET Sessions] /\ started \in [Streams -> SUBSET Sessions]

(* Every slot claimed is given back on every way out of create(): a server *)
(* that refused bad requests still launches good ones.                     *)
SlotsAccounted ==
    /\ reserved = Cardinality(At(Holding))
    /\ inflight = Cardinality(At(Creating))

(* However the creates, closes and exits fall, the number of running       *)
(* sessions never passes the limit.                                        *)
CapHolds == Cardinality(running) <= MaxLive

(* Somebody who will close the session still has it. *)
Known(s) ==
    \/ s \in registry \cup snapshot
    \/ \E t \in Threads : s \in todo[t] \/ (s \in mine[t] /\ tpc[t] \in {"register", "orphan"})

(* No tool runs that nothing in the server can stop. *)
NoLiveSessionLost == \A s \in running : Known(s)

(* A session that left the registry is closed, or somebody is about to:    *)
(* "dropping the reference without closing leaked" its descriptor, its     *)
(* reader and its process entry.                                           *)
DroppedAreClosed == \A s \in spawned \ freed : Known(s)

(* A shutdown that outlasted every create leaves no tool running, and no   *)
(* request that raced it can start another.                                *)
ShutdownStopsAll ==
    spc = "done" /\ ~timedOut => running = {} /\ At(Creating) = {}

(* A stream that is open pumps every session of the registry once the      *)
(* create that registered it has told its listeners, even a session that   *)
(* was registered while the stream was opening.                            *)
EverySessionStreamed ==
    \A m \in Streams, s \in registry :
      mpc[m] = "open" /\ (\A t \in Threads : s \in mine[t] => tpc[t] # "tell")
        => s \in started[m]
=============================================================================
