------------------------ MODULE SessionManagerProofs ------------------------
(* What SessionManager guarantees for every number of request threads,      *)
(* sessions, event streams and slots.                                       *)
EXTENDS SessionManager, FiniteSetTheorems, TLAPS

-----------------------------------------------------------------------------
(* The inductive invariant.                                                 *)

(* A create that got as far as a child has that child, and only that one;   *)
(* so has a close the session it looked up.                                 *)
OneEach ==
    \A t \in Threads :
      /\ tpc[t] \in {"register", "orphan", "tell", "close"} =>
           \E s \in Sessions : mine[t] = {s}
      /\ tpc[t] = "pop" => mine[t] \subseteq freed

(* Whatever the manager holds was started; what it set aside has exited.    *)
OnlyStarted ==
    /\ registry \subseteq spawned /\ snapshot \subseteq spawned
    /\ freed \cap running = {}
    /\ \A t \in Threads : mine[t] \subseteq spawned /\ todo[t] \subseteq spawned \ running

(* The lock is held over the counting, and no shutdown begins under it.     *)
LockHeld == \A t \in Threads : tpc[t] = "count" => lock = t /\ ~closed

(* From its first step on, a shutdown owns what was in the registry.        *)
ClosedStops ==
    /\ closed <=> spc # "out"
    /\ closed => registry = {}
    /\ ~closed => snapshot = {}
    /\ spc = "done" => snapshot = {}
    /\ spc \in {"close", "done"} /\ ~timedOut => At(Creating) = {}
    /\ \A t \in Threads : tpc[t] = "orphan" => closed

(* A running session is in the registry, in the shutdown's list or with the *)
(* create that started it.                                                  *)
Kept ==
    \A s \in running :
      \/ s \in registry \cup snapshot
      \/ \E t \in Threads : s \in mine[t] /\ tpc[t] \in {"register", "orphan"}

(* A create about to start a child has room for it. *)
Room == Cardinality(running) + Cardinality(At({"reap"})) <= MaxLive

(* A stream that looked at the registry pumps a session, has found it, or   *)
(* is about to be told of it.                                               *)
Heard ==
    /\ \A m \in Streams : mpc[m] \in {"opening", "starting", "open"} => m \in listening
    /\ \A m \in Streams, s \in registry :
         mpc[m] \in {"starting", "open"} =>
           \/ s \in found[m] \cup started[m]
           \/ \E t \in Threads : tpc[t] = "tell" /\ s \in mine[t] /\ m \in toTell[t]
    /\ \A m \in Streams : mpc[m] = "open" => found[m] = {}

IInv ==
    /\ TypeOK /\ SlotsAccounted /\ OneEach /\ OnlyStarted /\ LockHeld
    /\ ClosedStops /\ Kept /\ Room /\ Heard

-----------------------------------------------------------------------------
(* Lemmas about counting.                                                   *)

(* The threads at some points, when one of them moves. *)
LEMMA AtMoves ==
  ASSUME TypeOK, NEW t \in Threads, NEW to, NEW pcs,
         tpc' = [tpc EXCEPT ![t] = to]
  PROVE  /\ IsFiniteSet(At(pcs)) /\ Cardinality(At(pcs)) \in Nat
         /\ (tpc[t] \in pcs <=> to \in pcs) => At(pcs)' = At(pcs)
         /\ tpc[t] \notin pcs /\ to \in pcs =>
              Cardinality(At(pcs)') = Cardinality(At(pcs)) + 1
         /\ tpc[t] \in pcs /\ to \notin pcs =>
              Cardinality(At(pcs)') = Cardinality(At(pcs)) - 1
<1>1. \A u \in Threads : tpc'[u] = IF u = t THEN to ELSE tpc[u]
  BY DEF TypeOK
<1>2. IsFiniteSet(At(pcs)) /\ Cardinality(At(pcs)) \in Nat
  BY ManagerAssumption, FS_Subset, FS_CardinalityType DEF At
<1>3. (tpc[t] \in pcs <=> to \in pcs) => At(pcs)' = At(pcs)
  BY <1>1 DEF At
<1>4. ASSUME tpc[t] \notin pcs, to \in pcs
      PROVE  Cardinality(At(pcs)') = Cardinality(At(pcs)) + 1
  <2>1. At(pcs)' = At(pcs) \cup {t} /\ t \notin At(pcs)
    BY <1>1, <1>4 DEF At
  <2> QED BY <1>2, <2>1, FS_AddElement
<1>5. ASSUME tpc[t] \in pcs, to \notin pcs
      PROVE  Cardinality(At(pcs)') = Cardinality(At(pcs)) - 1
  <2>1. At(pcs)' = At(pcs) \ {t} /\ t \in At(pcs)
    BY <1>1, <1>5 DEF At
  <2> QED BY <1>2, <2>1, FS_RemoveElement
<1> QED BY <1>2, <1>3, <1>4, <1>5

(* A thread at one of the points makes their number positive. *)
LEMMA AtSome ==
  ASSUME TypeOK, NEW pcs
  PROVE  /\ IsFiniteSet(At(pcs)) /\ Cardinality(At(pcs)) \in Nat
         /\ \A t \in Threads : tpc[t] \in pcs => Cardinality(At(pcs)) > 0
         /\ Cardinality(At(pcs)) = 0 => At(pcs) = {}
<1>1. IsFiniteSet(At(pcs)) /\ Cardinality(At(pcs)) \in Nat
  BY ManagerAssumption, FS_Subset, FS_CardinalityType DEF At
<1>2. Cardinality(At(pcs)) = 0 => At(pcs) = {}
  BY <1>1, FS_EmptySet
<1>3. \A t \in Threads : tpc[t] \in pcs => t \in At(pcs)
  BY DEF At
<1> QED BY <1>1, <1>2, <1>3

(* The running sessions are finitely many. *)
LEMMA RunningFinite ==
  ASSUME TypeOK, NEW R \in SUBSET Sessions
  PROVE  IsFiniteSet(R) /\ Cardinality(R) \in Nat
BY ManagerAssumption, FS_Subset, FS_CardinalityType

-----------------------------------------------------------------------------
(* Each step keeps each part of the invariant.                              *)

(* The slots are counted by the creates that hold them. *)
LEMMA SlotsStep == IInv /\ [Next]_vars => SlotsAccounted'
<1> SUFFICES ASSUME IInv, [Next]_vars PROVE SlotsAccounted'
  OBVIOUS
<1> TypeOK /\ SlotsAccounted
  BY DEF IInv
<1> USE DEF SlotsAccounted
<1>0. ASSUME tpc' = tpc, reserved' = reserved, inflight' = inflight
      PROVE  SlotsAccounted'
  BY <1>0 DEF At
<1>1. ASSUME NEW t \in Threads, NEW to, tpc' = [tpc EXCEPT ![t] = to],
             (tpc[t] \in Holding <=> to \in Holding), reserved' = reserved,
             (tpc[t] \in Creating <=> to \in Creating), inflight' = inflight
      PROVE  SlotsAccounted'
  BY <1>1, AtMoves
<1>2. ASSUME NEW t \in Threads, Reserves(t) PROVE SlotsAccounted'
  <2> tpc[t] = "count" /\ tpc' = [tpc EXCEPT ![t] = "reap"]
    BY <1>2 DEF Reserves, Goes
  <2> /\ "count" \notin Holding /\ "reap" \in Holding
      /\ "count" \notin Creating /\ "reap" \in Creating
    BY DEF Holding, Creating
  <2>1. Cardinality(At(Holding)') = Cardinality(At(Holding)) + 1
    BY AtMoves
  <2>2. Cardinality(At(Creating)') = Cardinality(At(Creating)) + 1
    BY AtMoves
  <2> QED BY <1>2, <2>1, <2>2 DEF Reserves
<1>3. ASSUME NEW t \in Threads, SpawnFails(t) \/ Registers(t) \/ RegisterRefused(t)
      PROVE  SlotsAccounted'
  <2>1. reserved' = reserved - 1 /\ inflight' = inflight
    BY <1>3 DEF SpawnFails, Registers, RegisterRefused
  <2>2. PICK to \in {"settle", "tell", "orphan"} : tpc' = [tpc EXCEPT ![t] = to]
    BY <1>3 DEF SpawnFails, Registers, RegisterRefused, Goes
  <2>3. tpc[t] \in {"reap", "register"}
    BY <1>3 DEF SpawnFails, Registers, RegisterRefused, Goes
  <2>4. Cardinality(At(Holding)') = Cardinality(At(Holding)) - 1
    BY <2>2, <2>3, AtMoves DEF Holding
  <2>5. At(Creating)' = At(Creating)
    BY <2>2, <2>3, AtMoves DEF Creating
  <2> QED BY <2>1, <2>4, <2>5
<1>4. ASSUME NEW t \in Threads, Settles(t) PROVE SlotsAccounted'
  <2> tpc[t] = "settle" /\ tpc' = [tpc EXCEPT ![t] = "out"]
    BY <1>4 DEF Settles, Goes
  <2> /\ "settle" \notin Holding /\ "out" \notin Holding
      /\ "settle" \in Creating /\ "out" \notin Creating
    BY DEF Holding, Creating
  <2>1. At(Holding)' = At(Holding)
    BY AtMoves
  <2>2. Cardinality(At(Creating)') = Cardinality(At(Creating)) - 1
    BY AtMoves
  <2> QED BY <1>4, <2>1, <2>2 DEF Settles
<1>5. ASSUME NEW t \in Threads, ReapsExited(t) \/ RefusesLimit(t) PROVE SlotsAccounted'
  BY <1>5, <1>1 DEF ReapsExited, RefusesLimit, Goes, table, Holding, Creating
<1>6. ASSUME NEW t \in Threads, Spawns(t) \/ ClosesOrphan(t) \/ ToldAll(t)
      PROVE  SlotsAccounted'
  BY <1>6, <1>1 DEF Spawns, ClosesOrphan, ToldAll, Goes, table, Holding, Creating
<1>7. ASSUME NEW t \in Threads, Gets(t) \/ Closes(t) \/ Pops(t) PROVE SlotsAccounted'
  BY <1>7, <1>1 DEF Gets, Closes, Pops, Goes, table, Holding, Creating
<1>8. CASE \E t \in Threads : ClosesExited(t) \/ TellsListener(t)
  BY <1>0, <1>8 DEF ClosesExited, TellsListener, table
<1>9. CASE (\E s \in Sessions : Exits(s)) \/ ShutdownBegins \/ ShutdownStep
           \/ (\E m \in Streams : AddsListener(m) \/ EnterStep(m) \/ StreamCloses(m))
           \/ UNCHANGED vars
  BY <1>0, <1>9 DEF Exits, ShutdownBegins, ShutdownStep, Drained, ShutdownCloses,
    ShutdownReturns, AddsListener, EnterStep, ListsSessions, StartsFound, Opened,
    StreamCloses, table, vars
<1> QED BY <1>2, <1>3, <1>4, <1>5, <1>6, <1>7, <1>8, <1>9 DEF Next, CreateStep, CloseStep

(* Every step keeps the types; the counters stay natural because they count *)
(* threads.                                                                 *)
LEMMA TypeStep == IInv /\ [Next]_vars => TypeOK'
<1> SUFFICES ASSUME IInv, [Next]_vars PROVE TypeOK'
  OBVIOUS
<1> TypeOK /\ SlotsAccounted /\ OnlyStarted
  BY DEF IInv
<1> USE DEF TypeOK, table, sessions, request, stop, stream
<1>0. reserved' \in Nat /\ inflight' \in Nat
  <2>1. At(Holding)' \in SUBSET Threads /\ At(Creating)' \in SUBSET Threads
    BY DEF At
  <2>2. Cardinality(At(Holding)') \in Nat /\ Cardinality(At(Creating)') \in Nat
    BY <2>1, ManagerAssumption, FS_Subset, FS_CardinalityType
  <2> QED BY <2>2, SlotsStep DEF SlotsAccounted
<1>1. CASE \E s \in Sessions : Exits(s)
  BY <1>1 DEF Exits
<1>2. ASSUME NEW t \in Threads, ReapsExited(t) PROVE TypeOK'
  BY <1>2 DEF ReapsExited, Goes
<1>3. ASSUME NEW t \in Threads, CreateStep(t) PROVE TypeOK'
  <2>1. CASE Reserves(t) \/ RefusesLimit(t) \/ Spawns(t) \/ SpawnFails(t)
    BY <1>0, <2>1 DEF Reserves, RefusesLimit, Spawns, SpawnFails, Goes, Creating
  <2>2. CASE ClosesExited(t)
    BY <2>2 DEF ClosesExited, Close, OnlyStarted
  <2>3. CASE Registers(t) \/ RegisterRefused(t)
    BY <1>0, <2>3 DEF Registers, RegisterRefused, Goes, Creating
  <2>4. CASE ClosesOrphan(t)
    BY <2>4 DEF ClosesOrphan, Goes, Close, OnlyStarted, Creating
  <2>5. CASE TellsListener(t)
    BY <2>5 DEF TellsListener, StartPump
  <2>6. CASE ToldAll(t) \/ Settles(t)
    BY <1>0, <2>6 DEF ToldAll, Settles, Goes, Creating
  <2> QED BY <1>3, <2>1, <2>2, <2>3, <2>4, <2>5, <2>6 DEF CreateStep
<1>4. ASSUME NEW t \in Threads, Gets(t) \/ CloseStep(t) PROVE TypeOK'
  <2>1. CASE Gets(t) \/ Pops(t)
    BY <2>1 DEF Gets, Pops, Goes
  <2>2. CASE Closes(t)
    BY <2>2 DEF Closes, Goes, Close, OnlyStarted
  <2> QED BY <1>4, <2>1, <2>2 DEF CloseStep
<1>5. CASE ShutdownBegins \/ ShutdownStep
  BY <1>5 DEF ShutdownBegins, ShutdownStep, Drained, ShutdownCloses, ShutdownReturns,
    Close, OnlyStarted
<1>6. ASSUME NEW m \in Streams, AddsListener(m) \/ EnterStep(m) \/ StreamCloses(m)
      PROVE  TypeOK'
  BY <1>6 DEF AddsListener, EnterStep, ListsSessions, StartsFound, Opened,
    StreamCloses, StreamGoes, StartPump
<1>7. CASE UNCHANGED vars
  BY <1>7 DEF vars
<1> QED BY <1>1, <1>2, <1>3, <1>4, <1>5, <1>6, <1>7 DEF Next

(* What is held was started, and what was set aside stays exited: a session *)
(* only starts to run with a child nobody had before.                       *)
LEMMA StartedStep == IInv /\ [Next]_vars => OnlyStarted' /\ OneEach'
<1> SUFFICES ASSUME IInv, [Next]_vars PROVE OnlyStarted' /\ OneEach'
  OBVIOUS
<1> TypeOK /\ OnlyStarted /\ OneEach
  BY DEF IInv
<1> USE DEF TypeOK, OnlyStarted, OneEach, table, sessions, request, stop, stream
<1>1. CASE \E s \in Sessions : Exits(s)
  BY <1>1 DEF Exits
<1>2. ASSUME NEW t \in Threads, ReapsExited(t) PROVE OnlyStarted' /\ OneEach'
  BY <1>2 DEF ReapsExited, Goes
<1>3. ASSUME NEW t \in Threads, CreateStep(t) PROVE OnlyStarted' /\ OneEach'
  <2>1. CASE Reserves(t) \/ RefusesLimit(t)
    BY <2>1 DEF Reserves, RefusesLimit, Goes
  <2>2. CASE Spawns(t)
    BY <2>2 DEF Spawns, Goes
  <2>3. CASE SpawnFails(t) \/ Settles(t) \/ ToldAll(t)
    BY <2>3 DEF SpawnFails, Settles, ToldAll, Goes
  <2>4. CASE ClosesExited(t)
    BY <2>4 DEF ClosesExited, Close
  <2>5. CASE Registers(t)
    BY <2>5 DEF Registers, Goes
  <2>6. CASE RegisterRefused(t)
    BY <2>6 DEF RegisterRefused, Goes
  <2>7. CASE ClosesOrphan(t)
    BY <2>7 DEF ClosesOrphan, Goes, Close
  <2>8. CASE TellsListener(t)
    BY <2>8 DEF TellsListener
  <2> QED BY <1>3, <2>1, <2>2, <2>3, <2>4, <2>5, <2>6, <2>7, <2>8 DEF CreateStep
<1>4. ASSUME NEW t \in Threads, Gets(t) \/ CloseStep(t) PROVE OnlyStarted' /\ OneEach'
  <2>1. CASE Gets(t) \/ Pops(t)
    BY <2>1 DEF Gets, Pops, Goes
  <2>2. CASE Closes(t)
    BY <2>2 DEF Closes, Goes, Close
  <2> QED BY <1>4, <2>1, <2>2 DEF CloseStep
<1>5. CASE ShutdownBegins \/ ShutdownStep
  BY <1>5 DEF ShutdownBegins, ShutdownStep, Drained, ShutdownCloses, ShutdownReturns, Close
<1>6. CASE (\E m \in Streams : AddsListener(m) \/ EnterStep(m) \/ StreamCloses(m))
           \/ UNCHANGED vars
  BY <1>6 DEF AddsListener, EnterStep, ListsSessions, StartsFound, Opened,
    StreamCloses, vars
<1> QED BY <1>1, <1>2, <1>3, <1>4, <1>5, <1>6 DEF Next

(* Counting and shutdown exclude each other, and what is closed stays shut.  *)
LEMMA ClosedStep == IInv /\ [Next]_vars => LockHeld' /\ ClosedStops'
<1> SUFFICES ASSUME IInv, [Next]_vars PROVE LockHeld' /\ ClosedStops'
  OBVIOUS
<1> TypeOK /\ LockHeld /\ ClosedStops /\ SlotsAccounted
  BY DEF IInv
<1> USE DEF TypeOK, LockHeld, ClosedStops, table, stop
<1>1. CASE \E s \in Sessions : Exits(s)
  BY <1>1 DEF Exits, At
<1>2. ASSUME NEW t \in Threads, ReapsExited(t) PROVE LockHeld' /\ ClosedStops'
  BY <1>2, ManagerAssumption DEF ReapsExited, Goes, Unlocked
<1>3. ASSUME NEW t \in Threads, CreateStep(t) PROVE LockHeld' /\ ClosedStops'
  <2>1. CASE Reserves(t) \/ RefusesLimit(t)
    BY <2>1 DEF Reserves, RefusesLimit, Goes
  <2>2. CASE Spawns(t) \/ SpawnFails(t) \/ Registers(t) \/ RegisterRefused(t)
    BY <2>2 DEF Spawns, SpawnFails, Registers, RegisterRefused, Goes, Creating, At
  <2>3. CASE ClosesOrphan(t) \/ ToldAll(t) \/ Settles(t)
    BY <2>3 DEF ClosesOrphan, ToldAll, Settles, Goes, Creating, At
  <2>4. CASE ClosesExited(t) \/ TellsListener(t)
    BY <2>4 DEF ClosesExited, TellsListener, At
  <2> QED BY <1>3, <2>1, <2>2, <2>3, <2>4 DEF CreateStep
<1>4. ASSUME NEW t \in Threads, Gets(t) \/ CloseStep(t) PROVE LockHeld' /\ ClosedStops'
  BY <1>4 DEF Gets, CloseStep, Closes, Pops, Goes, Creating, At
<1>5. CASE ShutdownBegins
  <2>1. \A t \in Threads : tpc[t] # "count"
    BY <1>5, ManagerAssumption DEF ShutdownBegins, Unlocked
  <2>2. \A t \in Threads : tpc'[t] = tpc[t]
    BY <1>5 DEF ShutdownBegins
  <2> QED BY <1>5, <2>1, <2>2 DEF ShutdownBegins
<1>6. CASE ShutdownStep
  <2>1. ~timedOut' /\ Drained => At(Creating) = {}
    BY AtSome DEF Drained, SlotsAccounted
  <2>2. tpc' = tpc /\ At(Creating)' = At(Creating)
    BY <1>6 DEF ShutdownStep, Drained, ShutdownCloses, ShutdownReturns, At
  <2> QED BY <1>6, <2>1, <2>2 DEF ShutdownStep, Drained, ShutdownCloses, ShutdownReturns
<1>7. CASE (\E m \in Streams : AddsListener(m) \/ EnterStep(m) \/ StreamCloses(m))
           \/ UNCHANGED vars
  BY <1>7 DEF AddsListener, EnterStep, ListsSessions, StartsFound, Opened,
    StreamCloses, vars, At
<1> QED BY <1>1, <1>2, <1>3, <1>4, <1>5, <1>6, <1>7 DEF Next

(* No step loses a session that runs. *)
LEMMA KeptStep == IInv /\ [Next]_vars => Kept'
<1> SUFFICES ASSUME IInv, [Next]_vars PROVE Kept'
  OBVIOUS
<1> TypeOK /\ OnlyStarted /\ OneEach /\ ClosedStops /\ Kept
  BY DEF IInv
<1> USE DEF TypeOK, Kept, OnlyStarted, table, sessions, request, stop
<1>1. CASE \E s \in Sessions : Exits(s)
  BY <1>1 DEF Exits
<1>2. ASSUME NEW t \in Threads, ReapsExited(t) PROVE Kept'
  BY <1>2 DEF ReapsExited, Goes
<1>3. ASSUME NEW t \in Threads, CreateStep(t) PROVE Kept'
  <2>1. CASE Reserves(t) \/ RefusesLimit(t) \/ SpawnFails(t)
    BY <2>1 DEF Reserves, RefusesLimit, SpawnFails, Goes
  <2>2. CASE Spawns(t)
    BY <2>2 DEF Spawns, Goes
  <2>3. CASE ClosesExited(t)
    BY <2>3 DEF ClosesExited, Close
  <2>4. CASE Registers(t)
    BY <2>4 DEF Registers, Goes
  <2>5. CASE RegisterRefused(t)
    BY <2>5 DEF RegisterRefused, Goes
  <2>6. CASE ClosesOrphan(t)
    <3>1. PICK s \in Sessions : mine[t] = {s}
      BY <2>6 DEF ClosesOrphan, Goes, OneEach
    <3>2. running' = running \ {s}
      BY <2>6, <3>1 DEF ClosesOrphan, Close
    <3> QED BY <2>6, <3>1, <3>2 DEF ClosesOrphan, Goes
  <2>7. CASE TellsListener(t) \/ ToldAll(t) \/ Settles(t)
    BY <2>7 DEF TellsListener, ToldAll, Settles, Goes
  <2> QED BY <1>3, <2>1, <2>2, <2>3, <2>4, <2>5, <2>6, <2>7 DEF CreateStep
<1>4. ASSUME NEW t \in Threads, Gets(t) \/ CloseStep(t) PROVE Kept'
  <2>1. CASE Gets(t)
    BY <2>1 DEF Gets, Goes
  <2>2. CASE Closes(t)
    BY <2>2 DEF Closes, Goes, Close
  <2>3. CASE Pops(t)
    BY <2>3 DEF Pops, Goes, OneEach
  <2> QED BY <1>4, <2>1, <2>2, <2>3 DEF CloseStep
<1>5. CASE ShutdownBegins \/ ShutdownStep
  BY <1>5 DEF ShutdownBegins, ShutdownStep, Drained, ShutdownCloses, ShutdownReturns,
    Close, ClosedStops
<1>6. CASE (\E m \in Streams : AddsListener(m) \/ EnterStep(m) \/ StreamCloses(m))
           \/ UNCHANGED vars
  BY <1>6 DEF AddsListener, EnterStep, ListsSessions, StartsFound, Opened,
    StreamCloses, vars
<1> QED BY <1>1, <1>2, <1>3, <1>4, <1>5, <1>6 DEF Next

(* A create counts before it starts a child, and a slot is kept for each    *)
(* child it has not handed over: the counting sees all there are.           *)
LEMMA Counted ==
  ASSUME IInv, ~closed
  PROVE  /\ Live \in Nat
         /\ Cardinality(running) + Cardinality(At({"reap"})) <= Live + reserved
<1> TypeOK /\ SlotsAccounted /\ OneEach /\ ClosedStops /\ Kept
  BY DEF IInv
<1> DEFINE R == running \ registry
           T == At({"register"})
<1>1. /\ Live \in Nat /\ IsFiniteSet(registry \cap running)
      /\ IsFiniteSet(R) /\ Cardinality(R) \in Nat
  <2>1. registry \cap running \in SUBSET Sessions /\ R \in SUBSET Sessions
    BY DEF TypeOK
  <2> QED BY <2>1, RunningFinite DEF Live
<1>2. IsFiniteSet(T) /\ Cardinality(T) \in Nat
  BY AtSome
<1>3. Cardinality(R) <= Cardinality(T)
  <2>1. \A s \in R : \E t \in T : s \in mine[t]
    <3> SUFFICES ASSUME NEW s \in R PROVE \E t \in T : s \in mine[t]
      OBVIOUS
    <3>1. PICK t \in Threads : s \in mine[t] /\ tpc[t] \in {"register", "orphan"}
      BY DEF Kept, ClosedStops
    <3>2. tpc[t] = "register"
      BY <3>1 DEF ClosedStops
    <3> QED BY <3>1, <3>2 DEF At
  <2>2. \A t \in T : \E s \in Sessions : mine[t] = {s}
    BY DEF OneEach, At
  <2> DEFINE f == [s \in R |-> CHOOSE t \in T : s \in mine[t]]
  <2>3. \A s \in R : f[s] \in T /\ s \in mine[f[s]]
    BY <2>1
  <2>4. f \in [R -> T]
    BY <2>3
  <2>5. \A a, b \in R : f[a] = f[b] => a = b
    BY <2>2, <2>3
  <2> HIDE DEF f, R, T
  <2>6. f \in Injection(R, T)
    BY <2>4, <2>5 DEF Injection, IsInjective
  <2> QED BY <1>2, <2>6, FS_Injection
<1>4. Cardinality(running) = Live + Cardinality(R)
  <2>1. running = (registry \cap running) \cup R /\ (registry \cap running) \cap R = {}
    OBVIOUS
  <2> HIDE DEF R
  <2>2. Cardinality(running) = Live + Cardinality(R) - Cardinality({})
    BY <1>1, <2>1, FS_Union DEF Live
  <2> QED BY <1>1, <2>2, FS_EmptySet
<1>5. reserved = Cardinality(T) + Cardinality(At({"reap"}))
  <2>1. At(Holding) = T \cup At({"reap"}) /\ T \cap At({"reap"}) = {}
    BY DEF At, Holding
  <2>2. IsFiniteSet(At({"reap"})) /\ Cardinality(At({"reap"})) \in Nat
    BY AtSome
  <2> HIDE DEF T
  <2>3. Cardinality(At(Holding)) =
          Cardinality(T) + Cardinality(At({"reap"})) - Cardinality({})
    BY <1>2, <2>1, <2>2, FS_Union
  <2> QED BY <1>2, <2>2, <2>3, FS_EmptySet DEF SlotsAccounted
<1>6. Cardinality(At({"reap"})) \in Nat
  BY AtSome
<1> HIDE DEF R, T
<1> QED BY <1>1, <1>2, <1>3, <1>4, <1>5, <1>6

(* A step that starts no child and gives no create its slot leaves the room. *)
LEMMA RoomStep == IInv /\ [Next]_vars => Room'
<1> SUFFICES ASSUME IInv, [Next]_vars PROVE Room'
  OBVIOUS
<1> TypeOK /\ Room /\ LockHeld
  BY DEF IInv
<1>1. IsFiniteSet(running) /\ Cardinality(running) \in Nat
  BY RunningFinite DEF TypeOK
<1>2. Cardinality(At({"reap"})) \in Nat
  BY AtSome
<1>3. running' \subseteq running =>
        Cardinality(running') \in Nat /\ Cardinality(running') <= Cardinality(running)
  BY <1>1, FS_Subset, FS_CardinalityType
<1>4. ASSUME running' \subseteq running, At({"reap"})' = At({"reap"}) PROVE Room'
  BY <1>1, <1>2, <1>3, <1>4, ManagerAssumption DEF Room
<1>5. ASSUME NEW t \in Threads, NEW to, tpc' = [tpc EXCEPT ![t] = to],
             tpc[t] # "reap", to # "reap", running' \subseteq running
      PROVE  Room'
  <2>1. At({"reap"})' = At({"reap"})
    BY <1>5, AtMoves
  <2> QED BY <1>4, <1>5, <2>1
<1>6. ASSUME NEW t \in Threads, Reserves(t) PROVE Room'
  <2>1. tpc[t] = "count" /\ tpc' = [tpc EXCEPT ![t] = "reap"] /\ running' = running
        /\ Live + reserved < MaxLive
    BY <1>6 DEF Reserves, Goes, sessions
  <2>2. Cardinality(At({"reap"})') = Cardinality(At({"reap"})) + 1
    BY <2>1, AtMoves
  <2>3. Live \in Nat /\ Cardinality(running) + Cardinality(At({"reap"})) <= Live + reserved
    BY <2>1, Counted DEF LockHeld
  <2>4. reserved \in Nat
    BY DEF TypeOK
  <2> QED BY <1>1, <1>2, <2>1, <2>2, <2>3, <2>4, ManagerAssumption DEF Room
<1>7. ASSUME NEW t \in Threads, Spawns(t) PROVE Room'
  <2>1. tpc[t] = "reap" /\ tpc' = [tpc EXCEPT ![t] = "register"]
    BY <1>7 DEF Spawns, Goes
  <2>2. Cardinality(At({"reap"})') = Cardinality(At({"reap"})) - 1
    <3>1. tpc[t] \in {"reap"} /\ "register" \notin {"reap"}
      BY <2>1
    <3> QED BY <2>1, <3>1, AtMoves
  <2>3. PICK s \in Sessions : running' = running \cup {s}
    BY <1>7 DEF Spawns
  <2>4. Cardinality(running') \in Nat /\ Cardinality(running') <= Cardinality(running) + 1
    <3>1. Cardinality(running) \in Nat /\ IsFiniteSet(running \cup {s})
      BY <1>1, FS_AddElement, FS_CardinalityType
    <3>2. Cardinality(running \cup {s}) \in Nat
      BY <3>1, FS_CardinalityType
    <3>3. Cardinality(running \cup {s}) \in {Cardinality(running), Cardinality(running) + 1}
      BY <1>1, FS_AddElement
    <3> QED BY <2>3, <3>1, <3>2, <3>3
  <2> QED BY <1>1, <1>2, <2>2, <2>4, ManagerAssumption DEF Room
<1>8. ASSUME NEW t \in Threads, SpawnFails(t) PROVE Room'
  <2>1. tpc[t] = "reap" /\ tpc' = [tpc EXCEPT ![t] = "settle"] /\ running' = running
    BY <1>8 DEF SpawnFails, Goes, sessions
  <2>2. Cardinality(At({"reap"})') = Cardinality(At({"reap"})) - 1
    <3>1. tpc[t] \in {"reap"} /\ "settle" \notin {"reap"}
      BY <2>1
    <3> QED BY <2>1, <3>1, AtMoves
  <2> QED BY <1>1, <1>2, <2>1, <2>2, ManagerAssumption DEF Room
<1>9. ASSUME NEW t \in Threads,
             ReapsExited(t) \/ RefusesLimit(t) \/ Registers(t) \/ RegisterRefused(t)
             \/ ToldAll(t) \/ Settles(t) \/ Gets(t) \/ Pops(t)
      PROVE  Room'
  BY <1>5, <1>9 DEF ReapsExited, RefusesLimit, Registers, RegisterRefused, ToldAll,
    Settles, Gets, Pops, Goes, sessions
<1>10. ASSUME NEW t \in Threads, ClosesOrphan(t) \/ Closes(t) PROVE Room'
  BY <1>5, <1>10 DEF ClosesOrphan, Closes, Close, Goes
<1>11. CASE \E t \in Threads : ClosesExited(t) \/ TellsListener(t)
  <2>1. running' \subseteq running /\ tpc' = tpc
    BY <1>11 DEF ClosesExited, TellsListener, Close, sessions
  <2> QED BY <1>4, <2>1 DEF At
<1>12. CASE (\E s \in Sessions : Exits(s)) \/ ShutdownBegins \/ ShutdownStep
            \/ (\E m \in Streams : AddsListener(m) \/ EnterStep(m) \/ StreamCloses(m))
            \/ UNCHANGED vars
  <2>1. running' \subseteq running /\ tpc' = tpc
    BY <1>12 DEF Exits, ShutdownBegins, ShutdownStep, Drained, ShutdownCloses,
      ShutdownReturns, Close, AddsListener, EnterStep, ListsSessions, StartsFound,
      Opened, StreamCloses, sessions, vars
  <2> QED BY <1>4, <2>1 DEF At
<1> QED BY <1>6, <1>7, <1>8, <1>9, <1>10, <1>11, <1>12 DEF Next, CreateStep, CloseStep

(* A stream hears of every session that stays registered. *)
LEMMA HeardStep == IInv /\ [Next]_vars => Heard'
<1> SUFFICES ASSUME IInv, [Next]_vars PROVE Heard'
  OBVIOUS
<1> TypeOK /\ OneEach /\ Heard
  BY DEF IInv
<1> USE DEF TypeOK, Heard, table, request, stream
<1>1. ASSUME NEW t \in Threads, tpc[t] # "tell",
             \A u \in Threads : u # t => /\ tpc'[u] = tpc[u] /\ mine'[u] = mine[u]
                                         /\ toTell'[u] = toTell[u],
             registry' \subseteq registry, UNCHANGED <<listening, stream>>
      PROVE  Heard'
  BY <1>1
<1>2. ASSUME registry' \subseteq registry, UNCHANGED <<tpc, mine, toTell, listening, stream>>
      PROVE  Heard'
  BY <1>2
<1>3. ASSUME NEW t \in Threads, CreateStep(t) PROVE Heard'
  <2>1. CASE Reserves(t) \/ RefusesLimit(t) \/ Spawns(t) \/ SpawnFails(t)
    BY <1>1, <2>1 DEF Reserves, RefusesLimit, Spawns, SpawnFails, Goes
  <2>2. CASE RegisterRefused(t) \/ ClosesOrphan(t) \/ Settles(t)
    BY <1>1, <2>2 DEF RegisterRefused, ClosesOrphan, Settles, Goes
  <2>3. CASE ClosesExited(t)
    BY <1>2, <2>3 DEF ClosesExited
  <2>4. CASE Registers(t)
    <3>1. /\ tpc[t] = "register" /\ tpc'[t] = "tell" /\ toTell'[t] = listening
          /\ \A u \in Threads : u # t => tpc'[u] = tpc[u] /\ toTell'[u] = toTell[u]
          /\ mine' = mine /\ registry' = registry \cup mine[t]
          /\ listening' = listening /\ mpc' = mpc /\ found' = found /\ started' = started
      BY <2>4 DEF Registers, Goes
    <3> QED BY <3>1
  <2>5. CASE TellsListener(t)
    <3>1. PICK m \in toTell[t], s \in mine[t] :
            /\ toTell' = [toTell EXCEPT ![t] = @ \ {m}]
            /\ IF mpc[m] # "closed" THEN StartPump(m, s) ELSE UNCHANGED started
      BY <2>5 DEF TellsListener
    <3>2. mine[t] = {s}
      BY <2>5 DEF TellsListener, OneEach
    <3>3. UNCHANGED <<registry, listening, tpc, mine, mpc, found>>
      BY <2>5 DEF TellsListener
    <3>4. /\ \A n \in Streams : started[n] \subseteq started'[n]
          /\ mpc[m] # "closed" => s \in started'[m]
      BY <3>1 DEF StartPump
    <3> QED BY <3>1, <3>2, <3>3, <3>4
  <2>6. CASE ToldAll(t)
    BY <2>6 DEF ToldAll, Goes
  <2> QED BY <1>3, <2>1, <2>2, <2>3, <2>4, <2>5, <2>6 DEF CreateStep
<1>4. ASSUME NEW t \in Threads, ReapsExited(t) \/ Gets(t) \/ CloseStep(t) PROVE Heard'
  BY <1>1, <1>4 DEF ReapsExited, Gets, CloseStep, Closes, Pops, Goes
<1>5. CASE (\E s \in Sessions : Exits(s)) \/ ShutdownBegins \/ ShutdownStep \/ UNCHANGED vars
  BY <1>2, <1>5 DEF Exits, ShutdownBegins, ShutdownStep, Drained, ShutdownCloses,
    ShutdownReturns, vars
<1>6. ASSUME NEW m \in Streams, AddsListener(m) \/ EnterStep(m) \/ StreamCloses(m)
      PROVE  Heard'
  BY <1>6 DEF AddsListener, EnterStep, ListsSessions, StartsFound, Opened,
    StreamCloses, StreamGoes, StartPump
<1> QED BY <1>3, <1>4, <1>5, <1>6 DEF Next

-----------------------------------------------------------------------------
(* The theorems.                                                            *)

(* The invariant holds of the empty registry and every step of a request,   *)
(* a stream, the shutdown or a child keeps it (web/sessions.py).            *)
THEOREM Inductive == Spec => []IInv
<1>1. Init => IInv
  <2> SUFFICES ASSUME Init PROVE IInv
    OBVIOUS
  <2>1. \A pcs : "out" \notin pcs => At(pcs) = {}
    BY DEF Init, At
  <2>2. At(Holding) = {} /\ At(Creating) = {} /\ At({"reap"}) = {}
    BY <2>1 DEF Holding, Creating
  <2>z. Cardinality({}) = 0
    BY FS_EmptySet
  <2>3. SlotsAccounted
    BY <2>2, <2>z DEF Init, SlotsAccounted
  <2>r. Room
    <3>1. running = {}
      BY DEF Init
    <3>2. Cardinality(running) + Cardinality(At({"reap"})) = 0
      BY <2>2, <2>z, <3>1
    <3> QED BY <3>2, ManagerAssumption DEF Room
  <2>4. TypeOK
    BY DEF Init, TypeOK
  <2> QED BY <2>2, <2>3, <2>r, <2>4
    DEF Init, IInv, OneEach, OnlyStarted, LockHeld, ClosedStops, Kept, Heard
<1>2. IInv /\ [Next]_vars => IInv'
  BY SlotsStep, TypeStep, StartedStep, ClosedStep, KeptStep, RoomStep, HeardStep DEF IInv
<1> QED BY <1>1, <1>2, PTL DEF Spec

(* Every variable of the registry keeps its type; that the two counters     *)
(* never go below zero rests on every create() giving back what it took.    *)
THEOREM TypeCorrect == Spec => []TypeOK
BY Inductive, PTL DEF IInv

(* Every way out of create() gives its slot back, once. *)
THEOREM SlotsAlwaysAccounted == Spec => []SlotsAccounted
BY Inductive, PTL DEF IInv

(* MAX_CONCURRENT_SESSIONS is never passed, however many requests race.     *)
THEOREM CapAlwaysHolds == Spec => []CapHolds
<1>1. IInv => CapHolds
  <2> SUFFICES ASSUME IInv PROVE CapHolds
    OBVIOUS
  <2> TypeOK /\ Room
    BY DEF IInv
  <2>1. Cardinality(running) \in Nat /\ Cardinality(At({"reap"})) \in Nat
    BY RunningFinite, AtSome DEF TypeOK
  <2> QED BY <2>1, ManagerAssumption DEF Room, CapHolds
<1> QED BY <1>1, Inductive, PTL

(* A tool that runs can always still be stopped: the registry, the create   *)
(* that started it or the shutdown has it.                                  *)
THEOREM NoLiveSessionEverLost == Spec => []NoLiveSessionLost
<1>1. IInv => NoLiveSessionLost
  BY DEF IInv, Kept, NoLiveSessionLost, Known
<1> QED BY <1>1, Inductive, PTL

(* shutdown() that waited for every create leaves no tool running behind.   *)
THEOREM ShutdownAlwaysStopsAll == Spec => []ShutdownStopsAll
<1>1. IInv => ShutdownStopsAll
  <2> SUFFICES ASSUME IInv, spc = "done", ~timedOut
               PROVE  running = {} /\ At(Creating) = {}
    BY DEF ShutdownStopsAll
  <2>1. At(Creating) = {} /\ registry = {} /\ snapshot = {}
    BY DEF IInv, ClosedStops
  <2>2. \A t \in Threads : tpc[t] \notin {"register", "orphan"}
    BY <2>1 DEF At, Creating
  <2> QED BY <2>1, <2>2 DEF IInv, Kept
<1> QED BY <1>1, Inductive, PTL

(* An open stream pumps every registered session once its create has told   *)
(* the listeners, also one registered while the stream was opening.         *)
THEOREM EverySessionAlwaysStreamed == Spec => []EverySessionStreamed
<1>1. IInv => EverySessionStreamed
  BY DEF IInv, Heard, EverySessionStreamed
<1> QED BY <1>1, Inductive, PTL
=============================================================================
