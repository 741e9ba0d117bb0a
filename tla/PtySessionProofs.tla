-------------------------- MODULE PtySessionProofs --------------------------
(***************************************************************************)
(* One terminal session keeps to itself and to its lifecycle, for every    *)
(* number of closers, writers and viewers, every channel size, any amount  *)
(* of output and whatever the child does.                                  *)
(***************************************************************************)
EXTENDS PtySession, SequenceTheorems, TLAPS

-----------------------------------------------------------------------------
(* The inductive invariant.                                                *)

\* The scalars of the type invariant.
PartsOK ==
  /\ stage \in {"new", "popen", "undo", "up", "failed"}
  /\ leader \in {"none", "running", "zombie", "collected"}
  /\ full \in BOOLEAN
  /\ fd \in {"mine", "retired", "closed", "recycled"}
  /\ fdLock \in Writers \cup {"free"}
  /\ rpc \in {"none", "load", "call", "read", "foreign", "broadcast", "await", "finish", "done"}
  /\ exited \in BOOLEAN /\ closed \in BOOLEAN /\ stopped \in BOOLEAN /\ closeDone \in BOOLEAN

\* The statuses.
StatusesOK == rstatus \in Statuses /\ code \in Statuses /\ status \in Statuses

\* The processes.
ProcsOK == alive \subseteq Procs /\ tty \subseteq alive /\ doomed \subseteq alive \cap Group

\* The output: what the reader is about to broadcast was written.
CountsOK ==
  /\ out \in 0..MaxOutput /\ read \in 0..out /\ final \in 0..read
  /\ rpc = "broadcast" => read < out

\* Where the threads are.
ThreadsOK ==
  /\ cpc \in [Closers -> {"out", "settle", "hangup", "grace", "kill", "join", "collect",
                         "record", "retire", "closeFd", "finish", "publish", "closed", "gaveUp"}]
  /\ wpc \in [Writers -> {"out", "lock", "write", "brief"}]
  /\ vpc \in [Viewers -> {"out", "late", "drain", "end", "cut", "left"}]

\* What the viewers have.
ScreenOK ==
  /\ subs \subseteq Viewers /\ DOMAIN chan = Viewers
  /\ \A v \in Viewers : chan[v] \in Seq(Items) /\ Len(chan[v]) <= Limit
  /\ view \in [Viewers -> [last : 0..MaxOutput, gap : BOOLEAN]]

Idle == {"out", "settle", "closed", "gaveUp"}
Uncollected == {"running", "zombie"}

\* The first close() does the work, alone.
OneWorker ==
  /\ \A c, d \in Closers : cpc[c] \notin Idle /\ cpc[d] \notin Idle => c = d
  /\ closeDone => \A c \in Closers : cpc[c] \in Idle
  /\ closed <=> \E c \in Closers : cpc[c] # "out"
  /\ closeDone => \E c \in Closers : cpc[c] = "closed"
  /\ \A c \in Closers : cpc[c] = "closed" => closeDone
  /\ closed => stage = "up"

\* Its position says what it has done to the child and the descriptor.
WorkDone ==
  /\ stage \in {"popen", "undo"} => leader \in Uncollected
  /\ (stage = "up" /\ ~closed) => leader \in Uncollected
  /\ "leader" \in alive <=> leader = "running"
  /\ \A c \in Closers :
       /\ cpc[c] \in {"hangup", "grace", "kill", "join", "collect"} => leader \in Uncollected
       /\ cpc[c] \in {"join", "collect", "record", "retire", "closeFd", "finish", "publish"}
            => alive \cap Group \subseteq doomed
       /\ cpc[c] \in {"record", "retire", "closeFd", "finish", "publish"} => leader = "collected"
       /\ cpc[c] \in {"finish", "publish"} => fd \in {"closed", "recycled"}
       /\ cpc[c] = "publish" => exited
  /\ closeDone => /\ exited /\ leader = "collected" /\ fd \in {"closed", "recycled"}
                  /\ alive \cap Group \subseteq doomed

\* Whoever writes holds the lock of the descriptor, and nobody retires it meanwhile.
LockHeld ==
  \A w \in Writers :
    /\ wpc[w] \in {"write", "brief"} <=> fdLock = w
    /\ wpc[w] \in {"write", "brief"} => fd = "mine"
    /\ wpc[w] # "out" => stage = "up"

\* The descriptor is somebody's own until a worker retired it.
Retired ==
  /\ \A c \in Closers : cpc[c] = "closeFd" => fd = "retired"

IInv == TypeOK /\ CountsOK /\ OneWorker /\ WorkDone /\ LockHeld /\ Retired

\* The type invariant, for a state and its successor, in the parts the steps prove.
LEMMA TypeParts ==
  ASSUME CountsOK
  PROVE TypeOK <=> PartsOK /\ StatusesOK /\ ProcsOK /\ ThreadsOK /\ ScreenOK
  BY DEF TypeOK, PartsOK, StatusesOK, ProcsOK, CountsOK, ThreadsOK, ScreenOK

-----------------------------------------------------------------------------
(* One step per action.                                                    *)

\* The scalars keep their types.
LEMMA PartsStep ==
  ASSUME PartsOK, LockHeld, [Next]_vars
  PROVE  PartsOK'
<1> USE DEF PartsOK, child, master, reader, result, flags, screen, viewer, session, callers, parent
<1>1. CASE Popen BY <1>1 DEF Popen
<1>2. CASE PopenFails BY <1>2 DEF PopenFails
<1>3. CASE StartReader BY <1>3 DEF StartReader
<1>4. CASE StartReaderFails BY <1>4 DEF StartReaderFails
<1>5. CASE UndoStart BY <1>5 DEF UndoStart
<1>6. CASE Prints BY <1>6 DEF Prints
<1>7. CASE Reads
  <2>1. full' = FALSE BY <1>7 DEF Reads
  <2>2. UNCHANGED <<stage, leader, fd, fdLock, rpc, exited, closed, stopped, closeDone>>
    BY <1>7 DEF Reads
  <2>3. full' \in BOOLEAN BY <2>1
  <2> QED BY <2>2, <2>3
<1>8. CASE Forks BY <1>8 DEF Forks
<1>9. CASE Escapes BY <1>9 DEF Escapes
<1>10. ASSUME NEW p \in Procs, Releases(p) PROVE PartsOK' BY <1>10 DEF Releases
<1>11. ASSUME NEW p \in Procs, Dies(p) PROVE PartsOK' BY <1>11 DEF Dies
<1>12. CASE ReadLoads BY <1>12 DEF ReadLoads
<1>13. CASE ReadEnters BY <1>13 DEF ReadEnters
<1>14. CASE ReadReturns BY <1>14 DEF ReadReturns
<1>15. CASE ReadForeign BY <1>15 DEF ReadForeign
<1>16. CASE ReaderBroadcasts BY <1>16 DEF ReaderBroadcasts, Broadcast
<1>17. CASE ReaderAwaits BY <1>17 DEF ReaderAwaits
<1>18. CASE ReaderFinishes
  <2>1. exited' = exited \/ exited' = TRUE BY <1>18 DEF ReaderFinishes, Finish
  <2>2. exited' \in BOOLEAN BY <2>1
  <2>3. rpc' \in {rpc, "done"} BY <1>18 DEF ReaderFinishes, Finish
  <2>4. UNCHANGED <<stage, leader, full, fd, fdLock, closed, stopped, closeDone>>
    BY <1>18 DEF ReaderFinishes, Finish
  <2> QED BY <2>2, <2>3, <2>4
<1>19. CASE Recycled BY <1>19 DEF Recycled
<1>20. ASSUME NEW c \in Closers, CloseEnters(c) PROVE PartsOK' BY <1>20 DEF CloseEnters, CloserGoes
<1>21. ASSUME NEW c \in Closers, CloseSettles(c) PROVE PartsOK'
  BY <1>21 DEF CloseSettles, CloserGoes
<1>22. ASSUME NEW c \in Closers, HangsUp(c) PROVE PartsOK' BY <1>22 DEF HangsUp, CloserGoes
<1>23. ASSUME NEW c \in Closers, GraceEnds(c) PROVE PartsOK' BY <1>23 DEF GraceEnds, CloserGoes
<1>24. ASSUME NEW c \in Closers, Kills(c) PROVE PartsOK' BY <1>24 DEF Kills, CloserGoes
<1>25. ASSUME NEW c \in Closers, Joins(c) PROVE PartsOK' BY <1>25 DEF Joins, CloserGoes
<1>26. ASSUME NEW c \in Closers, Collects(c) PROVE PartsOK' BY <1>26 DEF Collects, CloserGoes
<1>27. ASSUME NEW c \in Closers, Records(c) PROVE PartsOK' BY <1>27 DEF Records, CloserGoes
<1>28. ASSUME NEW c \in Closers, Retires(c) PROVE PartsOK' BY <1>28 DEF Retires, CloserGoes
<1>29. ASSUME NEW c \in Closers, ClosesFd(c) PROVE PartsOK' BY <1>29 DEF ClosesFd, CloserGoes
<1>30. ASSUME NEW c \in Closers, CloserFinishes(c) PROVE PartsOK'
  <2>1. exited' = exited \/ exited' = TRUE BY <1>30 DEF CloserFinishes, Finish, CloserGoes
  <2>2. exited' \in BOOLEAN BY <2>1
  <2>3. rpc' \in {rpc, "done"} BY <1>30 DEF CloserFinishes, Finish, CloserGoes
  <2>4. UNCHANGED <<stage, leader, full, fd, fdLock, closed, stopped, closeDone>>
    BY <1>30 DEF CloserFinishes, Finish, CloserGoes
  <2> QED BY <2>2, <2>3, <2>4
<1>31. ASSUME NEW c \in Closers, CloseDone(c) PROVE PartsOK' BY <1>31 DEF CloseDone, CloserGoes
<1>32. ASSUME NEW u \in Writers, InputBegins(u) PROVE PartsOK' BY <1>32 DEF InputBegins, WriterGoes
<1>33. ASSUME NEW u \in Writers, InputLocks(u) PROVE PartsOK' BY <1>33 DEF InputLocks, WriterGoes
<1>34. ASSUME NEW u \in Writers, InputReturns(u) PROVE PartsOK'
  BY <1>34 DEF InputReturns, WriterGoes
<1>35. ASSUME NEW u \in Writers, WriteReturns(u) PROVE PartsOK'
  BY <1>35 DEF WriteReturns, WriterGoes
<1>36. ASSUME NEW v \in Viewers, Attaches(v) PROVE PartsOK' BY <1>36 DEF Attaches
<1>37. ASSUME NEW v \in Viewers, DrainsChunk(v) PROVE PartsOK' BY <1>37 DEF DrainsChunk
<1>38. ASSUME NEW v \in Viewers, DrainsMarker(v) PROVE PartsOK' BY <1>38 DEF DrainsMarker
<1>39. ASSUME NEW v \in Viewers, IsDetached(v) PROVE PartsOK' BY <1>39 DEF IsDetached
<1>40. CASE UNCHANGED vars BY <1>40 DEF vars
<1> QED
  BY <1>1, <1>2, <1>3, <1>4, <1>5, <1>6, <1>7, <1>8, <1>9, <1>10, <1>11, <1>12, <1>13, <1>14,
       <1>15, <1>16, <1>17, <1>18, <1>19, <1>20, <1>21, <1>22, <1>23, <1>24, <1>25, <1>26,
       <1>27, <1>28, <1>29, <1>30, <1>31, <1>32, <1>33, <1>34, <1>35, <1>36, <1>37, <1>38,
       <1>39, <1>40
  DEF Next, Constructs, ChildStep, ReaderStep, CloserStep, WriterStep, ViewerStep, Finished

\* So do the statuses.
LEMMA StatusesStep ==
  ASSUME StatusesOK, [Next]_vars
  PROVE  StatusesOK'
<1> USE DEF StatusesOK, Statuses, child, master, reader, result, flags, screen, viewer, session,
     callers, parent
<1>1. CASE Popen BY <1>1 DEF Popen
<1>2. CASE PopenFails BY <1>2 DEF PopenFails
<1>3. CASE StartReader BY <1>3 DEF StartReader
<1>4. CASE StartReaderFails BY <1>4 DEF StartReaderFails
<1>5. CASE UndoStart BY <1>5 DEF UndoStart
<1>6. CASE Prints BY <1>6 DEF Prints
<1>7. CASE Reads BY <1>7 DEF Reads
<1>8. CASE Forks BY <1>8 DEF Forks
<1>9. CASE Escapes BY <1>9 DEF Escapes
<1>10. ASSUME NEW p \in Procs, Releases(p) PROVE StatusesOK' BY <1>10 DEF Releases
<1>11. ASSUME NEW p \in Procs, Dies(p) PROVE StatusesOK' BY <1>11 DEF Dies
<1>12. CASE ReadLoads BY <1>12 DEF ReadLoads
<1>13. CASE ReadEnters BY <1>13 DEF ReadEnters
<1>14. CASE ReadReturns BY <1>14 DEF ReadReturns
<1>15. CASE ReadForeign BY <1>15 DEF ReadForeign
<1>16. CASE ReaderBroadcasts BY <1>16 DEF ReaderBroadcasts, Broadcast
<1>17. CASE ReaderAwaits BY <1>17 DEF ReaderAwaits
<1>18. CASE ReaderFinishes BY <1>18 DEF ReaderFinishes, Finish
<1>19. CASE Recycled BY <1>19 DEF Recycled
<1>20. ASSUME NEW c \in Closers, CloseEnters(c) PROVE StatusesOK'
  BY <1>20 DEF CloseEnters, CloserGoes
<1>21. ASSUME NEW c \in Closers, CloseSettles(c) PROVE StatusesOK'
  BY <1>21 DEF CloseSettles, CloserGoes
<1>22. ASSUME NEW c \in Closers, HangsUp(c) PROVE StatusesOK' BY <1>22 DEF HangsUp, CloserGoes
<1>23. ASSUME NEW c \in Closers, GraceEnds(c) PROVE StatusesOK' BY <1>23 DEF GraceEnds, CloserGoes
<1>24. ASSUME NEW c \in Closers, Kills(c) PROVE StatusesOK' BY <1>24 DEF Kills, CloserGoes
<1>25. ASSUME NEW c \in Closers, Joins(c) PROVE StatusesOK' BY <1>25 DEF Joins, CloserGoes
<1>26. ASSUME NEW c \in Closers, Collects(c) PROVE StatusesOK' BY <1>26 DEF Collects, CloserGoes
<1>27. ASSUME NEW c \in Closers, Records(c) PROVE StatusesOK' BY <1>27 DEF Records, CloserGoes
<1>28. ASSUME NEW c \in Closers, Retires(c) PROVE StatusesOK' BY <1>28 DEF Retires, CloserGoes
<1>29. ASSUME NEW c \in Closers, ClosesFd(c) PROVE StatusesOK' BY <1>29 DEF ClosesFd, CloserGoes
<1>30. ASSUME NEW c \in Closers, CloserFinishes(c) PROVE StatusesOK'
  BY <1>30 DEF CloserFinishes, Finish, CloserGoes
<1>31. ASSUME NEW c \in Closers, CloseDone(c) PROVE StatusesOK' BY <1>31 DEF CloseDone, CloserGoes
<1>32. ASSUME NEW u \in Writers, InputBegins(u) PROVE StatusesOK'
  BY <1>32 DEF InputBegins, WriterGoes
<1>33. ASSUME NEW u \in Writers, InputLocks(u) PROVE StatusesOK' BY <1>33 DEF InputLocks, WriterGoes
<1>34. ASSUME NEW u \in Writers, InputReturns(u) PROVE StatusesOK'
  BY <1>34 DEF InputReturns, WriterGoes
<1>35. ASSUME NEW u \in Writers, WriteReturns(u) PROVE StatusesOK'
  BY <1>35 DEF WriteReturns, WriterGoes
<1>36. ASSUME NEW v \in Viewers, Attaches(v) PROVE StatusesOK' BY <1>36 DEF Attaches
<1>37. ASSUME NEW v \in Viewers, DrainsChunk(v) PROVE StatusesOK' BY <1>37 DEF DrainsChunk
<1>38. ASSUME NEW v \in Viewers, DrainsMarker(v) PROVE StatusesOK' BY <1>38 DEF DrainsMarker
<1>39. ASSUME NEW v \in Viewers, IsDetached(v) PROVE StatusesOK' BY <1>39 DEF IsDetached
<1>40. CASE UNCHANGED vars BY <1>40 DEF vars
<1> QED
  BY <1>1, <1>2, <1>3, <1>4, <1>5, <1>6, <1>7, <1>8, <1>9, <1>10, <1>11, <1>12, <1>13, <1>14,
       <1>15, <1>16, <1>17, <1>18, <1>19, <1>20, <1>21, <1>22, <1>23, <1>24, <1>25, <1>26,
       <1>27, <1>28, <1>29, <1>30, <1>31, <1>32, <1>33, <1>34, <1>35, <1>36, <1>37, <1>38,
       <1>39, <1>40
  DEF Next, Constructs, ChildStep, ReaderStep, CloserStep, WriterStep, ViewerStep, Finished

\* So do the processes.
LEMMA ProcsStep ==
  ASSUME ProcsOK, [Next]_vars
  PROVE  ProcsOK'
<1> USE DEF ProcsOK, Procs, Group, child, master, reader, result, flags, screen, viewer,
     session, callers, parent
<1>1. CASE Popen BY <1>1 DEF Popen
<1>2. CASE PopenFails BY <1>2 DEF PopenFails
<1>3. CASE StartReader BY <1>3 DEF StartReader
<1>4. CASE StartReaderFails BY <1>4 DEF StartReaderFails
<1>5. CASE UndoStart BY <1>5 DEF UndoStart
<1>6. CASE Prints BY <1>6 DEF Prints
<1>7. CASE Reads BY <1>7 DEF Reads
<1>8. CASE Forks BY <1>8 DEF Forks
<1>9. CASE Escapes BY <1>9 DEF Escapes
<1>10. ASSUME NEW p \in Procs, Releases(p) PROVE ProcsOK' BY <1>10 DEF Releases
<1>11. ASSUME NEW p \in Procs, Dies(p) PROVE ProcsOK' BY <1>11 DEF Dies
<1>12. CASE ReadLoads BY <1>12 DEF ReadLoads
<1>13. CASE ReadEnters BY <1>13 DEF ReadEnters
<1>14. CASE ReadReturns BY <1>14 DEF ReadReturns
<1>15. CASE ReadForeign BY <1>15 DEF ReadForeign
<1>16. CASE ReaderBroadcasts BY <1>16 DEF ReaderBroadcasts, Broadcast
<1>17. CASE ReaderAwaits BY <1>17 DEF ReaderAwaits
<1>18. CASE ReaderFinishes BY <1>18 DEF ReaderFinishes, Finish
<1>19. CASE Recycled BY <1>19 DEF Recycled
<1>20. ASSUME NEW c \in Closers, CloseEnters(c) PROVE ProcsOK' BY <1>20 DEF CloseEnters, CloserGoes
<1>21. ASSUME NEW c \in Closers, CloseSettles(c) PROVE ProcsOK'
  BY <1>21 DEF CloseSettles, CloserGoes
<1>22. ASSUME NEW c \in Closers, HangsUp(c) PROVE ProcsOK' BY <1>22 DEF HangsUp, CloserGoes
<1>23. ASSUME NEW c \in Closers, GraceEnds(c) PROVE ProcsOK' BY <1>23 DEF GraceEnds, CloserGoes
<1>24. ASSUME NEW c \in Closers, Kills(c) PROVE ProcsOK' BY <1>24 DEF Kills, CloserGoes
<1>25. ASSUME NEW c \in Closers, Joins(c) PROVE ProcsOK' BY <1>25 DEF Joins, CloserGoes
<1>26. ASSUME NEW c \in Closers, Collects(c) PROVE ProcsOK' BY <1>26 DEF Collects, CloserGoes
<1>27. ASSUME NEW c \in Closers, Records(c) PROVE ProcsOK' BY <1>27 DEF Records, CloserGoes
<1>28. ASSUME NEW c \in Closers, Retires(c) PROVE ProcsOK' BY <1>28 DEF Retires, CloserGoes
<1>29. ASSUME NEW c \in Closers, ClosesFd(c) PROVE ProcsOK' BY <1>29 DEF ClosesFd, CloserGoes
<1>30. ASSUME NEW c \in Closers, CloserFinishes(c) PROVE ProcsOK'
  BY <1>30 DEF CloserFinishes, Finish, CloserGoes
<1>31. ASSUME NEW c \in Closers, CloseDone(c) PROVE ProcsOK' BY <1>31 DEF CloseDone, CloserGoes
<1>32. ASSUME NEW u \in Writers, InputBegins(u) PROVE ProcsOK' BY <1>32 DEF InputBegins, WriterGoes
<1>33. ASSUME NEW u \in Writers, InputLocks(u) PROVE ProcsOK' BY <1>33 DEF InputLocks, WriterGoes
<1>34. ASSUME NEW u \in Writers, InputReturns(u) PROVE ProcsOK'
  BY <1>34 DEF InputReturns, WriterGoes
<1>35. ASSUME NEW u \in Writers, WriteReturns(u) PROVE ProcsOK'
  BY <1>35 DEF WriteReturns, WriterGoes
<1>36. ASSUME NEW v \in Viewers, Attaches(v) PROVE ProcsOK' BY <1>36 DEF Attaches
<1>37. ASSUME NEW v \in Viewers, DrainsChunk(v) PROVE ProcsOK' BY <1>37 DEF DrainsChunk
<1>38. ASSUME NEW v \in Viewers, DrainsMarker(v) PROVE ProcsOK' BY <1>38 DEF DrainsMarker
<1>39. ASSUME NEW v \in Viewers, IsDetached(v) PROVE ProcsOK' BY <1>39 DEF IsDetached
<1>40. CASE UNCHANGED vars BY <1>40 DEF vars
<1> QED
  BY <1>1, <1>2, <1>3, <1>4, <1>5, <1>6, <1>7, <1>8, <1>9, <1>10, <1>11, <1>12, <1>13, <1>14,
       <1>15, <1>16, <1>17, <1>18, <1>19, <1>20, <1>21, <1>22, <1>23, <1>24, <1>25, <1>26,
       <1>27, <1>28, <1>29, <1>30, <1>31, <1>32, <1>33, <1>34, <1>35, <1>36, <1>37, <1>38,
       <1>39, <1>40
  DEF Next, Constructs, ChildStep, ReaderStep, CloserStep, WriterStep, ViewerStep, Finished

\* So do the positions.
LEMMA ThreadsStep ==
  ASSUME ThreadsOK, [Next]_vars
  PROVE  ThreadsOK'
<1> USE DEF ThreadsOK, child, master, reader, result, flags, screen, viewer, session, callers,
     parent
<1>1. CASE Popen BY <1>1 DEF Popen
<1>2. CASE PopenFails BY <1>2 DEF PopenFails
<1>3. CASE StartReader BY <1>3 DEF StartReader
<1>4. CASE StartReaderFails BY <1>4 DEF StartReaderFails
<1>5. CASE UndoStart BY <1>5 DEF UndoStart
<1>6. CASE Prints BY <1>6 DEF Prints
<1>7. CASE Reads BY <1>7 DEF Reads
<1>8. CASE Forks BY <1>8 DEF Forks
<1>9. CASE Escapes BY <1>9 DEF Escapes
<1>10. ASSUME NEW p \in Procs, Releases(p) PROVE ThreadsOK' BY <1>10 DEF Releases
<1>11. ASSUME NEW p \in Procs, Dies(p) PROVE ThreadsOK' BY <1>11 DEF Dies
<1>12. CASE ReadLoads BY <1>12 DEF ReadLoads
<1>13. CASE ReadEnters BY <1>13 DEF ReadEnters
<1>14. CASE ReadReturns BY <1>14 DEF ReadReturns
<1>15. CASE ReadForeign BY <1>15 DEF ReadForeign
<1>16. CASE ReaderBroadcasts BY <1>16 DEF ReaderBroadcasts, Broadcast
<1>17. CASE ReaderAwaits BY <1>17 DEF ReaderAwaits
<1>18. CASE ReaderFinishes BY <1>18 DEF ReaderFinishes, Finish
<1>19. CASE Recycled BY <1>19 DEF Recycled
<1>20. ASSUME NEW c \in Closers, CloseEnters(c) PROVE ThreadsOK'
  BY <1>20 DEF CloseEnters, CloserGoes
<1>21. ASSUME NEW c \in Closers, CloseSettles(c) PROVE ThreadsOK'
  BY <1>21 DEF CloseSettles, CloserGoes
<1>22. ASSUME NEW c \in Closers, HangsUp(c) PROVE ThreadsOK' BY <1>22 DEF HangsUp, CloserGoes
<1>23. ASSUME NEW c \in Closers, GraceEnds(c) PROVE ThreadsOK' BY <1>23 DEF GraceEnds, CloserGoes
<1>24. ASSUME NEW c \in Closers, Kills(c) PROVE ThreadsOK' BY <1>24 DEF Kills, CloserGoes
<1>25. ASSUME NEW c \in Closers, Joins(c) PROVE ThreadsOK' BY <1>25 DEF Joins, CloserGoes
<1>26. ASSUME NEW c \in Closers, Collects(c) PROVE ThreadsOK' BY <1>26 DEF Collects, CloserGoes
<1>27. ASSUME NEW c \in Closers, Records(c) PROVE ThreadsOK' BY <1>27 DEF Records, CloserGoes
<1>28. ASSUME NEW c \in Closers, Retires(c) PROVE ThreadsOK' BY <1>28 DEF Retires, CloserGoes
<1>29. ASSUME NEW c \in Closers, ClosesFd(c) PROVE ThreadsOK' BY <1>29 DEF ClosesFd, CloserGoes
<1>30. ASSUME NEW c \in Closers, CloserFinishes(c) PROVE ThreadsOK'
  BY <1>30 DEF CloserFinishes, Finish, CloserGoes
<1>31. ASSUME NEW c \in Closers, CloseDone(c) PROVE ThreadsOK' BY <1>31 DEF CloseDone, CloserGoes
<1>32. ASSUME NEW u \in Writers, InputBegins(u) PROVE ThreadsOK'
  BY <1>32 DEF InputBegins, WriterGoes
<1>33. ASSUME NEW u \in Writers, InputLocks(u) PROVE ThreadsOK' BY <1>33 DEF InputLocks, WriterGoes
<1>34. ASSUME NEW u \in Writers, InputReturns(u) PROVE ThreadsOK'
  BY <1>34 DEF InputReturns, WriterGoes
<1>35. ASSUME NEW u \in Writers, WriteReturns(u) PROVE ThreadsOK'
  BY <1>35 DEF WriteReturns, WriterGoes
<1>36. ASSUME NEW v \in Viewers, Attaches(v) PROVE ThreadsOK' BY <1>36 DEF Attaches
<1>37. ASSUME NEW v \in Viewers, DrainsChunk(v) PROVE ThreadsOK' BY <1>37 DEF DrainsChunk
<1>38. ASSUME NEW v \in Viewers, DrainsMarker(v) PROVE ThreadsOK' BY <1>38 DEF DrainsMarker
<1>39. ASSUME NEW v \in Viewers, IsDetached(v) PROVE ThreadsOK' BY <1>39 DEF IsDetached
<1>40. CASE UNCHANGED vars BY <1>40 DEF vars
<1> QED
  BY <1>1, <1>2, <1>3, <1>4, <1>5, <1>6, <1>7, <1>8, <1>9, <1>10, <1>11, <1>12, <1>13, <1>14,
       <1>15, <1>16, <1>17, <1>18, <1>19, <1>20, <1>21, <1>22, <1>23, <1>24, <1>25, <1>26,
       <1>27, <1>28, <1>29, <1>30, <1>31, <1>32, <1>33, <1>34, <1>35, <1>36, <1>37, <1>38,
       <1>39, <1>40
  DEF Next, Constructs, ChildStep, ReaderStep, CloserStep, WriterStep, ViewerStep, Finished

\* What is broadcast was written.
LEMMA CountsStep ==
  ASSUME CountsOK, [Next]_vars
  PROVE  CountsOK'
<1> USE DEF CountsOK, PtyAssumption, child, master, reader, result, flags, screen, viewer,
     session, callers, parent
<1>1. CASE Popen BY <1>1, PtyAssumption DEF Popen
<1>2. CASE PopenFails BY <1>2, PtyAssumption DEF PopenFails
<1>3. CASE StartReader BY <1>3, PtyAssumption DEF StartReader
<1>4. CASE StartReaderFails BY <1>4, PtyAssumption DEF StartReaderFails
<1>5. CASE UndoStart BY <1>5, PtyAssumption DEF UndoStart
<1>6. CASE Prints BY <1>6, PtyAssumption DEF Prints
<1>7. CASE Reads BY <1>7, PtyAssumption DEF Reads
<1>8. CASE Forks BY <1>8, PtyAssumption DEF Forks
<1>9. CASE Escapes BY <1>9, PtyAssumption DEF Escapes
<1>10. ASSUME NEW p \in Procs, Releases(p) PROVE CountsOK' BY <1>10, PtyAssumption DEF Releases
<1>11. ASSUME NEW p \in Procs, Dies(p) PROVE CountsOK' BY <1>11, PtyAssumption DEF Dies
<1>12. CASE ReadLoads BY <1>12, PtyAssumption DEF ReadLoads
<1>13. CASE ReadEnters BY <1>13, PtyAssumption DEF ReadEnters
<1>14. CASE ReadReturns BY <1>14, PtyAssumption DEF ReadReturns
<1>15. CASE ReadForeign BY <1>15, PtyAssumption DEF ReadForeign
<1>16. CASE ReaderBroadcasts BY <1>16, PtyAssumption DEF ReaderBroadcasts, Broadcast
<1>17. CASE ReaderAwaits BY <1>17, PtyAssumption DEF ReaderAwaits
<1>18. CASE ReaderFinishes BY <1>18, PtyAssumption DEF ReaderFinishes, Finish
<1>19. CASE Recycled BY <1>19, PtyAssumption DEF Recycled
<1>20. ASSUME NEW c \in Closers, CloseEnters(c) PROVE CountsOK'
  BY <1>20, PtyAssumption DEF CloseEnters, CloserGoes
<1>21. ASSUME NEW c \in Closers, CloseSettles(c) PROVE CountsOK'
  BY <1>21, PtyAssumption DEF CloseSettles, CloserGoes
<1>22. ASSUME NEW c \in Closers, HangsUp(c) PROVE CountsOK'
  BY <1>22, PtyAssumption DEF HangsUp, CloserGoes
<1>23. ASSUME NEW c \in Closers, GraceEnds(c) PROVE CountsOK'
  BY <1>23, PtyAssumption DEF GraceEnds, CloserGoes
<1>24. ASSUME NEW c \in Closers, Kills(c) PROVE CountsOK'
  BY <1>24, PtyAssumption DEF Kills, CloserGoes
<1>25. ASSUME NEW c \in Closers, Joins(c) PROVE CountsOK'
  BY <1>25, PtyAssumption DEF Joins, CloserGoes
<1>26. ASSUME NEW c \in Closers, Collects(c) PROVE CountsOK'
  BY <1>26, PtyAssumption DEF Collects, CloserGoes
<1>27. ASSUME NEW c \in Closers, Records(c) PROVE CountsOK'
  BY <1>27, PtyAssumption DEF Records, CloserGoes
<1>28. ASSUME NEW c \in Closers, Retires(c) PROVE CountsOK'
  BY <1>28, PtyAssumption DEF Retires, CloserGoes
<1>29. ASSUME NEW c \in Closers, ClosesFd(c) PROVE CountsOK'
  BY <1>29, PtyAssumption DEF ClosesFd, CloserGoes
<1>30. ASSUME NEW c \in Closers, CloserFinishes(c) PROVE CountsOK'
  BY <1>30, PtyAssumption DEF CloserFinishes, Finish, CloserGoes
<1>31. ASSUME NEW c \in Closers, CloseDone(c) PROVE CountsOK'
  BY <1>31, PtyAssumption DEF CloseDone, CloserGoes
<1>32. ASSUME NEW u \in Writers, InputBegins(u) PROVE CountsOK'
  BY <1>32, PtyAssumption DEF InputBegins, WriterGoes
<1>33. ASSUME NEW u \in Writers, InputLocks(u) PROVE CountsOK'
  BY <1>33, PtyAssumption DEF InputLocks, WriterGoes
<1>34. ASSUME NEW u \in Writers, InputReturns(u) PROVE CountsOK'
  BY <1>34, PtyAssumption DEF InputReturns, WriterGoes
<1>35. ASSUME NEW u \in Writers, WriteReturns(u) PROVE CountsOK'
  BY <1>35, PtyAssumption DEF WriteReturns, WriterGoes
<1>36. ASSUME NEW v \in Viewers, Attaches(v) PROVE CountsOK' BY <1>36, PtyAssumption DEF Attaches
<1>37. ASSUME NEW v \in Viewers, DrainsChunk(v) PROVE CountsOK'
  BY <1>37, PtyAssumption DEF DrainsChunk
<1>38. ASSUME NEW v \in Viewers, DrainsMarker(v) PROVE CountsOK'
  BY <1>38, PtyAssumption DEF DrainsMarker
<1>39. ASSUME NEW v \in Viewers, IsDetached(v) PROVE CountsOK'
  BY <1>39, PtyAssumption DEF IsDetached
<1>40. CASE UNCHANGED vars BY <1>40 DEF vars
<1> QED
  BY <1>1, <1>2, <1>3, <1>4, <1>5, <1>6, <1>7, <1>8, <1>9, <1>10, <1>11, <1>12, <1>13, <1>14,
       <1>15, <1>16, <1>17, <1>18, <1>19, <1>20, <1>21, <1>22, <1>23, <1>24, <1>25, <1>26,
       <1>27, <1>28, <1>29, <1>30, <1>31, <1>32, <1>33, <1>34, <1>35, <1>36, <1>37, <1>38,
       <1>39, <1>40
  DEF Next, Constructs, ChildStep, ReaderStep, CloserStep, WriterStep, ViewerStep, Finished

\* There is one worker.
LEMMA WorkerStep ==
  ASSUME OneWorker, ThreadsOK, [Next]_vars
  PROVE  OneWorker'
<1> USE DEF OneWorker, Idle, ThreadsOK, child, master, reader, result, flags, screen, viewer,
     session, callers, parent
<1>1. CASE Popen BY <1>1 DEF Popen
<1>2. CASE PopenFails BY <1>2 DEF PopenFails
<1>3. CASE StartReader BY <1>3 DEF StartReader
<1>4. CASE StartReaderFails BY <1>4 DEF StartReaderFails
<1>5. CASE UndoStart BY <1>5 DEF UndoStart
<1>6. CASE Prints BY <1>6 DEF Prints
<1>7. CASE Reads BY <1>7 DEF Reads
<1>8. CASE Forks BY <1>8 DEF Forks
<1>9. CASE Escapes BY <1>9 DEF Escapes
<1>10. ASSUME NEW p \in Procs, Releases(p) PROVE OneWorker' BY <1>10 DEF Releases
<1>11. ASSUME NEW p \in Procs, Dies(p) PROVE OneWorker' BY <1>11 DEF Dies
<1>12. CASE ReadLoads BY <1>12 DEF ReadLoads
<1>13. CASE ReadEnters BY <1>13 DEF ReadEnters
<1>14. CASE ReadReturns BY <1>14 DEF ReadReturns
<1>15. CASE ReadForeign BY <1>15 DEF ReadForeign
<1>16. CASE ReaderBroadcasts BY <1>16 DEF ReaderBroadcasts, Broadcast
<1>17. CASE ReaderAwaits BY <1>17 DEF ReaderAwaits
<1>18. CASE ReaderFinishes BY <1>18 DEF ReaderFinishes, Finish
<1>19. CASE Recycled BY <1>19 DEF Recycled
<1>20. ASSUME NEW c \in Closers, CloseEnters(c) PROVE OneWorker'
  BY <1>20 DEF CloseEnters, CloserGoes
<1>21. ASSUME NEW c \in Closers, CloseSettles(c) PROVE OneWorker'
  BY <1>21 DEF CloseSettles, CloserGoes
<1>22. ASSUME NEW c \in Closers, HangsUp(c) PROVE OneWorker' BY <1>22 DEF HangsUp, CloserGoes
<1>23. ASSUME NEW c \in Closers, GraceEnds(c) PROVE OneWorker' BY <1>23 DEF GraceEnds, CloserGoes
<1>24. ASSUME NEW c \in Closers, Kills(c) PROVE OneWorker' BY <1>24 DEF Kills, CloserGoes
<1>25. ASSUME NEW c \in Closers, Joins(c) PROVE OneWorker' BY <1>25 DEF Joins, CloserGoes
<1>26. ASSUME NEW c \in Closers, Collects(c) PROVE OneWorker' BY <1>26 DEF Collects, CloserGoes
<1>27. ASSUME NEW c \in Closers, Records(c) PROVE OneWorker' BY <1>27 DEF Records, CloserGoes
<1>28. ASSUME NEW c \in Closers, Retires(c) PROVE OneWorker' BY <1>28 DEF Retires, CloserGoes
<1>29. ASSUME NEW c \in Closers, ClosesFd(c) PROVE OneWorker' BY <1>29 DEF ClosesFd, CloserGoes
<1>30. ASSUME NEW c \in Closers, CloserFinishes(c) PROVE OneWorker'
  BY <1>30 DEF CloserFinishes, Finish, CloserGoes
<1>31. ASSUME NEW c \in Closers, CloseDone(c) PROVE OneWorker' BY <1>31 DEF CloseDone, CloserGoes
<1>32. ASSUME NEW u \in Writers, InputBegins(u) PROVE OneWorker'
  BY <1>32 DEF InputBegins, WriterGoes
<1>33. ASSUME NEW u \in Writers, InputLocks(u) PROVE OneWorker' BY <1>33 DEF InputLocks, WriterGoes
<1>34. ASSUME NEW u \in Writers, InputReturns(u) PROVE OneWorker'
  BY <1>34 DEF InputReturns, WriterGoes
<1>35. ASSUME NEW u \in Writers, WriteReturns(u) PROVE OneWorker'
  BY <1>35 DEF WriteReturns, WriterGoes
<1>36. ASSUME NEW v \in Viewers, Attaches(v) PROVE OneWorker' BY <1>36 DEF Attaches
<1>37. ASSUME NEW v \in Viewers, DrainsChunk(v) PROVE OneWorker' BY <1>37 DEF DrainsChunk
<1>38. ASSUME NEW v \in Viewers, DrainsMarker(v) PROVE OneWorker' BY <1>38 DEF DrainsMarker
<1>39. ASSUME NEW v \in Viewers, IsDetached(v) PROVE OneWorker' BY <1>39 DEF IsDetached
<1>40. CASE UNCHANGED vars BY <1>40 DEF vars
<1> QED
  BY <1>1, <1>2, <1>3, <1>4, <1>5, <1>6, <1>7, <1>8, <1>9, <1>10, <1>11, <1>12, <1>13, <1>14,
       <1>15, <1>16, <1>17, <1>18, <1>19, <1>20, <1>21, <1>22, <1>23, <1>24, <1>25, <1>26,
       <1>27, <1>28, <1>29, <1>30, <1>31, <1>32, <1>33, <1>34, <1>35, <1>36, <1>37, <1>38,
       <1>39, <1>40
  DEF Next, Constructs, ChildStep, ReaderStep, CloserStep, WriterStep, ViewerStep, Finished

\* The worker's position says what it has done.
LEMMA DoneStep ==
  ASSUME WorkDone, OneWorker, ThreadsOK, PartsOK, ProcsOK, [Next]_vars
  PROVE  WorkDone'
<1> USE DEF WorkDone, OneWorker, Idle, Uncollected, ThreadsOK, ProcsOK, PartsOK, Group, Procs,
     child, master, reader, result, flags, screen, viewer, session, callers, parent
<1>1. CASE Popen BY <1>1 DEF Popen
<1>2. CASE PopenFails BY <1>2 DEF PopenFails
<1>3. CASE StartReader BY <1>3 DEF StartReader
<1>4. CASE StartReaderFails BY <1>4 DEF StartReaderFails
<1>5. CASE UndoStart BY <1>5 DEF UndoStart
<1>6. CASE Prints BY <1>6 DEF Prints
<1>7. CASE Reads BY <1>7 DEF Reads
<1>8. CASE Forks BY <1>8 DEF Forks
<1>9. CASE Escapes BY <1>9 DEF Escapes
<1>10. ASSUME NEW p \in Procs, Releases(p) PROVE WorkDone' BY <1>10 DEF Releases
<1>11. ASSUME NEW p \in Procs, Dies(p) PROVE WorkDone' BY <1>11 DEF Dies
<1>12. CASE ReadLoads BY <1>12 DEF ReadLoads
<1>13. CASE ReadEnters BY <1>13 DEF ReadEnters
<1>14. CASE ReadReturns BY <1>14 DEF ReadReturns
<1>15. CASE ReadForeign BY <1>15 DEF ReadForeign
<1>16. CASE ReaderBroadcasts BY <1>16 DEF ReaderBroadcasts, Broadcast
<1>17. CASE ReaderAwaits BY <1>17 DEF ReaderAwaits
<1>18. CASE ReaderFinishes BY <1>18 DEF ReaderFinishes, Finish
<1>19. CASE Recycled BY <1>19 DEF Recycled
<1>20. ASSUME NEW c \in Closers, CloseEnters(c) PROVE WorkDone' BY <1>20 DEF CloseEnters, CloserGoes
<1>21. ASSUME NEW c \in Closers, CloseSettles(c) PROVE WorkDone'
  BY <1>21 DEF CloseSettles, CloserGoes
<1>22. ASSUME NEW c \in Closers, HangsUp(c) PROVE WorkDone' BY <1>22 DEF HangsUp, CloserGoes
<1>23. ASSUME NEW c \in Closers, GraceEnds(c) PROVE WorkDone' BY <1>23 DEF GraceEnds, CloserGoes
<1>24. ASSUME NEW c \in Closers, Kills(c) PROVE WorkDone' BY <1>24 DEF Kills, CloserGoes
<1>25. ASSUME NEW c \in Closers, Joins(c) PROVE WorkDone' BY <1>25 DEF Joins, CloserGoes
<1>26. ASSUME NEW c \in Closers, Collects(c) PROVE WorkDone' BY <1>26 DEF Collects, CloserGoes
<1>27. ASSUME NEW c \in Closers, Records(c) PROVE WorkDone' BY <1>27 DEF Records, CloserGoes
<1>28. ASSUME NEW c \in Closers, Retires(c) PROVE WorkDone' BY <1>28 DEF Retires, CloserGoes
<1>29. ASSUME NEW c \in Closers, ClosesFd(c) PROVE WorkDone' BY <1>29 DEF ClosesFd, CloserGoes
<1>30. ASSUME NEW c \in Closers, CloserFinishes(c) PROVE WorkDone'
  BY <1>30 DEF CloserFinishes, Finish, CloserGoes
<1>31. ASSUME NEW c \in Closers, CloseDone(c) PROVE WorkDone' BY <1>31 DEF CloseDone, CloserGoes
<1>32. ASSUME NEW u \in Writers, InputBegins(u) PROVE WorkDone' BY <1>32 DEF InputBegins, WriterGoes
<1>33. ASSUME NEW u \in Writers, InputLocks(u) PROVE WorkDone' BY <1>33 DEF InputLocks, WriterGoes
<1>34. ASSUME NEW u \in Writers, InputReturns(u) PROVE WorkDone'
  BY <1>34 DEF InputReturns, WriterGoes
<1>35. ASSUME NEW u \in Writers, WriteReturns(u) PROVE WorkDone'
  BY <1>35 DEF WriteReturns, WriterGoes
<1>36. ASSUME NEW v \in Viewers, Attaches(v) PROVE WorkDone' BY <1>36 DEF Attaches
<1>37. ASSUME NEW v \in Viewers, DrainsChunk(v) PROVE WorkDone' BY <1>37 DEF DrainsChunk
<1>38. ASSUME NEW v \in Viewers, DrainsMarker(v) PROVE WorkDone' BY <1>38 DEF DrainsMarker
<1>39. ASSUME NEW v \in Viewers, IsDetached(v) PROVE WorkDone' BY <1>39 DEF IsDetached
<1>40. CASE UNCHANGED vars BY <1>40 DEF vars
<1> QED
  BY <1>1, <1>2, <1>3, <1>4, <1>5, <1>6, <1>7, <1>8, <1>9, <1>10, <1>11, <1>12, <1>13, <1>14,
       <1>15, <1>16, <1>17, <1>18, <1>19, <1>20, <1>21, <1>22, <1>23, <1>24, <1>25, <1>26,
       <1>27, <1>28, <1>29, <1>30, <1>31, <1>32, <1>33, <1>34, <1>35, <1>36, <1>37, <1>38,
       <1>39, <1>40
  DEF Next, Constructs, ChildStep, ReaderStep, CloserStep, WriterStep, ViewerStep, Finished

\* Whoever writes holds the lock.
LEMMA LockStep ==
  ASSUME LockHeld, ThreadsOK, PartsOK, Retired, [Next]_vars
  PROVE  LockHeld'
<1> USE DEF LockHeld, ThreadsOK, PartsOK, Retired, PtyAssumption, child, master, reader, result,
     flags, screen, viewer, session, callers, parent
<1>1. CASE Popen BY <1>1, PtyAssumption DEF Popen
<1>2. CASE PopenFails BY <1>2, PtyAssumption DEF PopenFails
<1>3. CASE StartReader BY <1>3, PtyAssumption DEF StartReader
<1>4. CASE StartReaderFails BY <1>4, PtyAssumption DEF StartReaderFails
<1>5. CASE UndoStart BY <1>5, PtyAssumption DEF UndoStart
<1>6. CASE Prints BY <1>6, PtyAssumption DEF Prints
<1>7. CASE Reads BY <1>7, PtyAssumption DEF Reads
<1>8. CASE Forks BY <1>8, PtyAssumption DEF Forks
<1>9. CASE Escapes BY <1>9, PtyAssumption DEF Escapes
<1>10. ASSUME NEW p \in Procs, Releases(p) PROVE LockHeld' BY <1>10, PtyAssumption DEF Releases
<1>11. ASSUME NEW p \in Procs, Dies(p) PROVE LockHeld' BY <1>11, PtyAssumption DEF Dies
<1>12. CASE ReadLoads BY <1>12, PtyAssumption DEF ReadLoads
<1>13. CASE ReadEnters BY <1>13, PtyAssumption DEF ReadEnters
<1>14. CASE ReadReturns BY <1>14, PtyAssumption DEF ReadReturns
<1>15. CASE ReadForeign BY <1>15, PtyAssumption DEF ReadForeign
<1>16. CASE ReaderBroadcasts BY <1>16, PtyAssumption DEF ReaderBroadcasts, Broadcast
<1>17. CASE ReaderAwaits BY <1>17, PtyAssumption DEF ReaderAwaits
<1>18. CASE ReaderFinishes BY <1>18, PtyAssumption DEF ReaderFinishes, Finish
<1>19. CASE Recycled BY <1>19, PtyAssumption DEF Recycled
<1>20. ASSUME NEW c \in Closers, CloseEnters(c) PROVE LockHeld'
  BY <1>20, PtyAssumption DEF CloseEnters, CloserGoes
<1>21. ASSUME NEW c \in Closers, CloseSettles(c) PROVE LockHeld'
  BY <1>21, PtyAssumption DEF CloseSettles, CloserGoes
<1>22. ASSUME NEW c \in Closers, HangsUp(c) PROVE LockHeld'
  BY <1>22, PtyAssumption DEF HangsUp, CloserGoes
<1>23. ASSUME NEW c \in Closers, GraceEnds(c) PROVE LockHeld'
  BY <1>23, PtyAssumption DEF GraceEnds, CloserGoes
<1>24. ASSUME NEW c \in Closers, Kills(c) PROVE LockHeld'
  BY <1>24, PtyAssumption DEF Kills, CloserGoes
<1>25. ASSUME NEW c \in Closers, Joins(c) PROVE LockHeld'
  BY <1>25, PtyAssumption DEF Joins, CloserGoes
<1>26. ASSUME NEW c \in Closers, Collects(c) PROVE LockHeld'
  BY <1>26, PtyAssumption DEF Collects, CloserGoes
<1>27. ASSUME NEW c \in Closers, Records(c) PROVE LockHeld'
  BY <1>27, PtyAssumption DEF Records, CloserGoes
<1>28. ASSUME NEW c \in Closers, Retires(c) PROVE LockHeld'
  BY <1>28, PtyAssumption DEF Retires, CloserGoes
<1>29. ASSUME NEW c \in Closers, ClosesFd(c) PROVE LockHeld'
  BY <1>29, PtyAssumption DEF ClosesFd, CloserGoes
<1>30. ASSUME NEW c \in Closers, CloserFinishes(c) PROVE LockHeld'
  BY <1>30, PtyAssumption DEF CloserFinishes, Finish, CloserGoes
<1>31. ASSUME NEW c \in Closers, CloseDone(c) PROVE LockHeld'
  BY <1>31, PtyAssumption DEF CloseDone, CloserGoes
<1>32. ASSUME NEW u \in Writers, InputBegins(u) PROVE LockHeld'
  BY <1>32, PtyAssumption DEF InputBegins, WriterGoes
<1>33. ASSUME NEW u \in Writers, InputLocks(u) PROVE LockHeld'
  BY <1>33, PtyAssumption DEF InputLocks, WriterGoes
<1>34. ASSUME NEW u \in Writers, InputReturns(u) PROVE LockHeld'
  BY <1>34, PtyAssumption DEF InputReturns, WriterGoes
<1>35. ASSUME NEW u \in Writers, WriteReturns(u) PROVE LockHeld'
  BY <1>35, PtyAssumption DEF WriteReturns, WriterGoes
<1>36. ASSUME NEW v \in Viewers, Attaches(v) PROVE LockHeld' BY <1>36, PtyAssumption DEF Attaches
<1>37. ASSUME NEW v \in Viewers, DrainsChunk(v) PROVE LockHeld'
  BY <1>37, PtyAssumption DEF DrainsChunk
<1>38. ASSUME NEW v \in Viewers, DrainsMarker(v) PROVE LockHeld'
  BY <1>38, PtyAssumption DEF DrainsMarker
<1>39. ASSUME NEW v \in Viewers, IsDetached(v) PROVE LockHeld'
  BY <1>39, PtyAssumption DEF IsDetached
<1>40. CASE UNCHANGED vars BY <1>40 DEF vars
<1> QED
  BY <1>1, <1>2, <1>3, <1>4, <1>5, <1>6, <1>7, <1>8, <1>9, <1>10, <1>11, <1>12, <1>13, <1>14,
       <1>15, <1>16, <1>17, <1>18, <1>19, <1>20, <1>21, <1>22, <1>23, <1>24, <1>25, <1>26,
       <1>27, <1>28, <1>29, <1>30, <1>31, <1>32, <1>33, <1>34, <1>35, <1>36, <1>37, <1>38,
       <1>39, <1>40
  DEF Next, Constructs, ChildStep, ReaderStep, CloserStep, WriterStep, ViewerStep, Finished

\* A retired descriptor is closed by its worker.
LEMMA RetiredStep ==
  ASSUME Retired, OneWorker, WorkDone, ThreadsOK, LockHeld, [Next]_vars
  PROVE  Retired'
<1> USE DEF Retired, OneWorker, Idle, ThreadsOK, child, master, reader, result, flags, screen,
     viewer, session, callers, parent
<1>1. CASE Popen BY <1>1 DEF Popen
<1>2. CASE PopenFails BY <1>2 DEF PopenFails
<1>3. CASE StartReader BY <1>3 DEF StartReader
<1>4. CASE StartReaderFails BY <1>4 DEF StartReaderFails
<1>5. CASE UndoStart BY <1>5 DEF UndoStart
<1>6. CASE Prints BY <1>6 DEF Prints
<1>7. CASE Reads BY <1>7 DEF Reads
<1>8. CASE Forks BY <1>8 DEF Forks
<1>9. CASE Escapes BY <1>9 DEF Escapes
<1>10. ASSUME NEW p \in Procs, Releases(p) PROVE Retired' BY <1>10 DEF Releases
<1>11. ASSUME NEW p \in Procs, Dies(p) PROVE Retired' BY <1>11 DEF Dies
<1>12. CASE ReadLoads BY <1>12 DEF ReadLoads
<1>13. CASE ReadEnters BY <1>13 DEF ReadEnters
<1>14. CASE ReadReturns BY <1>14 DEF ReadReturns
<1>15. CASE ReadForeign BY <1>15 DEF ReadForeign
<1>16. CASE ReaderBroadcasts BY <1>16 DEF ReaderBroadcasts, Broadcast
<1>17. CASE ReaderAwaits BY <1>17 DEF ReaderAwaits
<1>18. CASE ReaderFinishes BY <1>18 DEF ReaderFinishes, Finish
<1>19. CASE Recycled BY <1>19 DEF Recycled
<1>20. ASSUME NEW c \in Closers, CloseEnters(c) PROVE Retired' BY <1>20 DEF CloseEnters, CloserGoes
<1>21. ASSUME NEW c \in Closers, CloseSettles(c) PROVE Retired'
  BY <1>21 DEF CloseSettles, CloserGoes
<1>22. ASSUME NEW c \in Closers, HangsUp(c) PROVE Retired' BY <1>22 DEF HangsUp, CloserGoes
<1>23. ASSUME NEW c \in Closers, GraceEnds(c) PROVE Retired' BY <1>23 DEF GraceEnds, CloserGoes
<1>24. ASSUME NEW c \in Closers, Kills(c) PROVE Retired' BY <1>24 DEF Kills, CloserGoes
<1>25. ASSUME NEW c \in Closers, Joins(c) PROVE Retired' BY <1>25 DEF Joins, CloserGoes
<1>26. ASSUME NEW c \in Closers, Collects(c) PROVE Retired' BY <1>26 DEF Collects, CloserGoes
<1>27. ASSUME NEW c \in Closers, Records(c) PROVE Retired' BY <1>27 DEF Records, CloserGoes
<1>28. ASSUME NEW c \in Closers, Retires(c) PROVE Retired' BY <1>28 DEF Retires, CloserGoes
<1>29. ASSUME NEW c \in Closers, ClosesFd(c) PROVE Retired' BY <1>29 DEF ClosesFd, CloserGoes
<1>30. ASSUME NEW c \in Closers, CloserFinishes(c) PROVE Retired'
  BY <1>30 DEF CloserFinishes, Finish, CloserGoes
<1>31. ASSUME NEW c \in Closers, CloseDone(c) PROVE Retired' BY <1>31 DEF CloseDone, CloserGoes
<1>32. ASSUME NEW u \in Writers, InputBegins(u) PROVE Retired' BY <1>32 DEF InputBegins, WriterGoes
<1>33. ASSUME NEW u \in Writers, InputLocks(u) PROVE Retired' BY <1>33 DEF InputLocks, WriterGoes
<1>34. ASSUME NEW u \in Writers, InputReturns(u) PROVE Retired'
  BY <1>34 DEF InputReturns, WriterGoes
<1>35. ASSUME NEW u \in Writers, WriteReturns(u) PROVE Retired'
  BY <1>35 DEF WriteReturns, WriterGoes
<1>36. ASSUME NEW v \in Viewers, Attaches(v) PROVE Retired' BY <1>36 DEF Attaches
<1>37. ASSUME NEW v \in Viewers, DrainsChunk(v) PROVE Retired' BY <1>37 DEF DrainsChunk
<1>38. ASSUME NEW v \in Viewers, DrainsMarker(v) PROVE Retired' BY <1>38 DEF DrainsMarker
<1>39. ASSUME NEW v \in Viewers, IsDetached(v) PROVE Retired' BY <1>39 DEF IsDetached
<1>40. CASE UNCHANGED vars BY <1>40 DEF vars
<1> QED
  BY <1>1, <1>2, <1>3, <1>4, <1>5, <1>6, <1>7, <1>8, <1>9, <1>10, <1>11, <1>12, <1>13, <1>14,
       <1>15, <1>16, <1>17, <1>18, <1>19, <1>20, <1>21, <1>22, <1>23, <1>24, <1>25, <1>26,
       <1>27, <1>28, <1>29, <1>30, <1>31, <1>32, <1>33, <1>34, <1>35, <1>36, <1>37, <1>38,
       <1>39, <1>40
  DEF Next, Constructs, ChildStep, ReaderStep, CloserStep, WriterStep, ViewerStep, Finished

-----------------------------------------------------------------------------
(* Channels.                                                               *)

\* What goes into a channel keeps it a channel of its limit.
Channel(q) == q \in Seq(Items) /\ Len(q) <= Limit

\* A marker that evicts the oldest entry.
LEMMA ForceKeeps ==
  ASSUME NEW q, Channel(q), NEW k \in Items
  PROVE  Channel(ForceIn(q, k))
<1>1. Len(q) \in Nat /\ Limit \in Nat \ {0}
  BY LenProperties, PtyAssumption DEF Channel, PtyAssumption
<1>2. CASE Full(q)
  <2>1. ForceIn(q, k) = Append(Tail(q), k) BY <1>2 DEF ForceIn
  <2>2. q # <<>> BY <1>1, <1>2 DEF Full
  <2>3. Tail(q) \in Seq(Items) /\ Len(Tail(q)) = Len(q) - 1 BY <2>2, HeadTailProperties DEF Channel
  <2>4. Append(Tail(q), k) \in Seq(Items) /\ Len(Append(Tail(q), k)) = Len(Tail(q)) + 1
    BY <2>3, AppendProperties
  <2> QED BY <1>1, <2>1, <2>3, <2>4 DEF Channel
<1>3. CASE ~Full(q)
  <2>1. ForceIn(q, k) = Append(q, k) BY <1>3 DEF ForceIn
  <2>2. Append(q, k) \in Seq(Items) /\ Len(Append(q, k)) = Len(q) + 1
    BY AppendProperties DEF Channel
  <2> QED BY <1>1, <1>3, <2>1, <2>2 DEF Channel, Full
<1> QED BY <1>2, <1>3

\* A chunk that there is room for.
LEMMA AppendKeeps ==
  ASSUME NEW q, Channel(q), ~Full(q), NEW k \in Items
  PROVE  Channel(Append(q, k))
<1>1. Append(q, k) \in Seq(Items) /\ Len(Append(q, k)) = Len(q) + 1 BY AppendProperties DEF Channel
<1>2. Len(q) \in Nat BY LenProperties DEF Channel
<1> QED BY <1>1, <1>2, PtyAssumption DEF Channel, Full, PtyAssumption

\* What a viewer takes out.
LEMMA TailKeeps ==
  ASSUME NEW q, Channel(q), q # <<>> PROVE Channel(Tail(q)) /\ Head(q) \in Items
<1>1. Tail(q) \in Seq(Items) /\ Len(Tail(q)) = Len(q) - 1 /\ Head(q) \in Items
  BY HeadTailProperties DEF Channel
<1>2. Len(q) \in Nat BY LenProperties DEF Channel
<1> QED BY <1>1, <1>2, PtyAssumption DEF Channel, PtyAssumption

\* Markers and chunks are what channels are made of.
LEMMA ItemKinds ==
  /\ END \in Items /\ DESYNC \in Items /\ DETACH \in Items
  /\ \A n \in 1..MaxOutput : Bytes(n) \in Items
  /\ \A k \in Items : k \notin Markers => k.n \in 1..MaxOutput
  BY DEF Items, Markers, Bytes

\* Every step keeps the channels and what the viewers have shown.
LEMMA ScreenStep ==
  ASSUME ScreenOK, CountsOK, ThreadsOK, [Next]_vars
  PROVE  ScreenOK'
<1> USE DEF child, master, reader, result, flags, screen, viewer, session, callers, parent
<1>e. Channel(<<>>) BY PtyAssumption, EmptySeq DEF Channel, PtyAssumption
<1>c. \A v \in Viewers : Channel(chan[v]) BY DEF ScreenOK, Channel
<1>1. CASE UNCHANGED <<subs, chan, view>> BY <1>1 DEF ScreenOK
<1>2. ASSUME NEW s, Finish(s), UNCHANGED view PROVE ScreenOK'
  <2>1. CASE exited BY <2>1, <1>2, <1>1 DEF Finish
  <2>2. CASE ~exited
    <3>1. \A v \in Viewers : Channel(chan'[v])
      BY <2>2, <1>2, <1>c, ForceKeeps, ItemKinds DEF Finish
    <3>2. subs' = {} /\ DOMAIN chan' = Viewers BY <2>2, <1>2 DEF Finish
    <3> QED BY <1>2, <3>1, <3>2 DEF ScreenOK, Channel
  <2> QED BY <2>1, <2>2
<1>3. CASE ReaderFinishes
  <2>1. \E s : Finish(s) BY <1>3 DEF ReaderFinishes
  <2>2. UNCHANGED view BY <1>3 DEF ReaderFinishes
  <2> QED BY <2>1, <2>2, <1>2
<1>4. ASSUME NEW c \in Closers, CloserFinishes(c) PROVE ScreenOK'
  <2>1. Finish(status) /\ UNCHANGED view BY <1>4 DEF CloserFinishes
  <2> QED BY <2>1, <1>2
<1>5. CASE ReaderBroadcasts
  <2>1. Broadcast(read + 1) /\ UNCHANGED view BY <1>5 DEF ReaderBroadcasts
  <2>2. Bytes(read + 1) \in Items
    BY <1>5, ItemKinds, PtyAssumption DEF ReaderBroadcasts, CountsOK, PtyAssumption
  <2>3. ASSUME NEW v \in Viewers PROVE Channel(chan'[v])
    <3>1. CASE v \in subs /\ Full(chan[v])
      BY <3>1, <2>1, <1>c, ForceKeeps, ItemKinds DEF Broadcast
    <3>2. CASE v \in subs /\ ~Full(chan[v])
      BY <3>2, <2>1, <2>2, <1>c, AppendKeeps DEF Broadcast
    <3>3. CASE v \notin subs BY <3>3, <2>1, <1>c DEF Broadcast
    <3> QED BY <3>1, <3>2, <3>3
  <2>4. subs' \subseteq Viewers /\ DOMAIN chan' = Viewers BY <2>1 DEF Broadcast, ScreenOK
  <2> QED BY <2>1, <2>3, <2>4 DEF ScreenOK, Channel
<1>6. ASSUME NEW v \in Viewers, Attaches(v) PROVE ScreenOK'
  <2>1. [last |-> read, gap |-> FALSE] \in [last : 0..MaxOutput, gap : BOOLEAN]
    BY PtyAssumption DEF CountsOK, PtyAssumption
  <2>2. view' \in [Viewers -> [last : 0..MaxOutput, gap : BOOLEAN]]
    BY <1>6, <2>1 DEF Attaches, ScreenOK
  <2>3. subs' \subseteq Viewers /\ DOMAIN chan' = Viewers BY <1>6 DEF Attaches, ScreenOK
  <2>4. \A u \in Viewers : Channel(chan'[u]) BY <1>6, <1>c, <1>e DEF Attaches, ScreenOK
  <2> QED BY <2>2, <2>3, <2>4 DEF ScreenOK, Channel
<1>7. ASSUME NEW v \in Viewers, DrainsChunk(v) PROVE ScreenOK'
  <2>1. chan[v] # <<>> /\ Head(chan[v]) \notin Markers BY <1>7 DEF DrainsChunk
  <2>2. Channel(Tail(chan[v])) /\ Head(chan[v]) \in Items BY <2>1, <1>c, TailKeeps
  <2>3. Head(chan[v]).n \in 0..MaxOutput BY <2>1, <2>2, ItemKinds
  <2> DEFINE n == Head(chan[v]).n
             g == view[v].gap \/ n # view[v].last + 1
  <2>4. view' = [view EXCEPT ![v] = [last |-> n, gap |-> g]] BY <1>7 DEF DrainsChunk, ScreenOK
  <2>5. n \in 0..MaxOutput BY <2>3
  <2>6. g \in BOOLEAN OBVIOUS
  <2> HIDE DEF n, g
  <2>7. view' \in [Viewers -> [last : 0..MaxOutput, gap : BOOLEAN]]
    BY <2>4, <2>5, <2>6 DEF ScreenOK
  <2>8. \A u \in Viewers : Channel(chan'[u]) BY <1>7, <2>2, <1>c DEF DrainsChunk, ScreenOK
  <2>9. subs' \subseteq Viewers /\ DOMAIN chan' = Viewers BY <1>7 DEF DrainsChunk, ScreenOK
  <2> QED BY <2>7, <2>8, <2>9 DEF ScreenOK, Channel
<1>8. ASSUME NEW v \in Viewers, DrainsMarker(v) PROVE ScreenOK'
  <2>1. \A u \in Viewers : Channel(chan'[u]) BY <1>8, <1>c, <1>e DEF DrainsMarker, ScreenOK
  <2>2. subs' \subseteq Viewers /\ DOMAIN chan' = Viewers /\ view' = view
    BY <1>8 DEF DrainsMarker, ScreenOK
  <2> QED BY <2>1, <2>2 DEF ScreenOK, Channel
<1>9. ASSUME NEW v \in Viewers, IsDetached(v) PROVE ScreenOK'
  <2>1. Channel(ForceIn(chan[v], DETACH)) BY <1>c, ForceKeeps, ItemKinds
  <2>2. \A u \in Viewers : Channel(chan'[u]) BY <1>9, <1>c, <2>1 DEF IsDetached, ScreenOK
  <2>3. subs' \subseteq Viewers /\ DOMAIN chan' = Viewers /\ view' = view
    BY <1>9 DEF IsDetached, ScreenOK
  <2> QED BY <2>2, <2>3 DEF ScreenOK, Channel
<1>10. CASE Constructs
  BY <1>1, <1>10 DEF Constructs, Popen, PopenFails, StartReader, StartReaderFails, UndoStart
<1>11. CASE ChildStep
  BY <1>1, <1>11 DEF ChildStep, Prints, Reads, Forks, Escapes, Releases, Dies
<1>12. CASE ReadLoads \/ ReadEnters \/ ReadReturns \/ ReadForeign \/ ReaderAwaits \/ Recycled
  BY <1>1, <1>12 DEF ReadLoads, ReadEnters, ReadReturns, ReadForeign, ReaderAwaits, Recycled
<1>13. ASSUME NEW c \in Closers, CloseEnters(c) \/ CloserStep(c), ~CloserFinishes(c)
       PROVE  ScreenOK'
  BY <1>1, <1>13 DEF CloseEnters, CloserStep, CloseSettles, HangsUp, GraceEnds, Kills, Joins,
     Collects, Records, Retires, ClosesFd, CloseDone
<1>14. ASSUME NEW u \in Writers, InputBegins(u) \/ WriterStep(u) PROVE ScreenOK'
  BY <1>1, <1>14 DEF InputBegins, WriterStep, InputLocks, InputReturns, WriteReturns
<1>15. CASE UNCHANGED vars BY <1>1, <1>15 DEF vars
<1> QED
  BY <1>3, <1>4, <1>5, <1>6, <1>7, <1>8, <1>9, <1>10, <1>11, <1>12, <1>13, <1>14, <1>15
  DEF Next, ReaderStep, ViewerStep, CloserStep, Finished

-----------------------------------------------------------------------------
(* The invariant, and what follows from it.                                *)

\* The invariant holds at the start.
LEMMA InitInv == ASSUME Init PROVE IInv
<1> USE PtyAssumption DEF Init, PtyAssumption
<1>1. PartsOK BY DEF PartsOK
<1>2. StatusesOK BY DEF StatusesOK, Statuses
<1>3. ProcsOK BY DEF ProcsOK
<1>4. CountsOK BY DEF CountsOK
<1>5. ThreadsOK BY DEF ThreadsOK
<1>6. ScreenOK BY EmptySeq DEF ScreenOK, Blank
<1>7. OneWorker BY DEF OneWorker, Idle
<1>8. WorkDone BY DEF WorkDone
<1>9. LockHeld BY DEF LockHeld
<1>10. Retired BY DEF Retired
<1> QED BY <1>1, <1>2, <1>3, <1>4, <1>5, <1>6, <1>7, <1>8, <1>9, <1>10, TypeParts DEF IInv

\* Every step keeps it.
LEMMA InvStep == ASSUME IInv, [Next]_vars PROVE IInv'
<1>1. PartsOK /\ StatusesOK /\ ProcsOK /\ ThreadsOK /\ ScreenOK BY TypeParts DEF IInv
<1>2. CountsOK' BY CountsStep DEF IInv
<1>3. PartsOK' BY <1>1, PartsStep DEF IInv
<1>4. StatusesOK' BY <1>1, StatusesStep
<1>5. ProcsOK' BY <1>1, ProcsStep
<1>6. ThreadsOK' BY <1>1, ThreadsStep
<1>7. ScreenOK' BY <1>1, ScreenStep DEF IInv
<1>8. OneWorker' BY <1>1, WorkerStep DEF IInv
<1>9. WorkDone' BY <1>1, DoneStep DEF IInv
<1>10. LockHeld' BY <1>1, LockStep DEF IInv
<1>11. Retired' BY <1>1, RetiredStep DEF IInv
<1>12. TypeOK' BY <1>2, <1>3, <1>4, <1>5, <1>6, <1>7
  DEF TypeOK, PartsOK, StatusesOK, ProcsOK, CountsOK, ThreadsOK, ScreenOK
<1> QED BY <1>2, <1>8, <1>9, <1>10, <1>11, <1>12 DEF IInv

\* The invariant of a session, for every number of threads.
THEOREM Inductive == Spec => []IInv
<1>1. Init => IInv BY InitInv
<1>2. IInv /\ [Next]_vars => IInv' BY InvStep
<1> QED BY <1>1, <1>2, PTL DEF Spec

\* Every variable keeps its type (utils/pty_runner.py:170-250).
THEOREM TypeCorrect == Spec => []TypeOK
<1>1. IInv => TypeOK BY DEF IInv
<1> QED BY <1>1, Inductive, PTL

\* A signal goes to the group only while the child is uncollected (utils/pty_runner.py:327-376).
THEOREM SignalsAlwaysOwn == Spec => []SignalsOwnGroup
<1>1. IInv => SignalsOwnGroup BY DEF IInv, WorkDone, SignalsOwnGroup, Uncollected
<1> QED BY <1>1, Inductive, PTL

\* Input goes to this session's terminal (utils/pty_runner.py:384-412).
THEOREM InputAlwaysOwn == Spec => []InputReachesOwnTerminal
<1>1. IInv => InputReachesOwnTerminal BY DEF IInv, LockHeld, InputReachesOwnTerminal
<1> QED BY <1>1, Inductive, PTL

\* When a close returns the session is over (utils/pty_runner.py:327-400).
THEOREM ClosedAlwaysOver == Spec => []ClosedMeansOver
<1>1. IInv => ClosedMeansOver BY DEF IInv, OneWorker, WorkDone, ClosedMeansOver
<1> QED BY <1>1, Inductive, PTL

-----------------------------------------------------------------------------
(* What a viewer has in its channel, and what it was told of the end.      *)

\* A queue's first k entries are the chunks after the n-th.
Chunks(q, n, k) == \A i \in 1..k : q[i] = Bytes(n + i)

\* A subscribed viewer has seen, or has in its channel, each of the n chunks broadcast.
Streams(q, w, n) == ~w.gap /\ Chunks(q, w.last, Len(q)) /\ w.last + Len(q) = n

\* The channel of a viewer that is no subscriber any more ends in a marker: an orderly end only
\* behind all of the n chunks, a cut only behind chunks.
Ends(q, w, over, n) ==
  /\ q # <<>> /\ q[Len(q)] \in Markers
  /\ q[Len(q)] = END => /\ over /\ ~w.gap /\ Chunks(q, w.last, Len(q) - 1)
                        /\ w.last + Len(q) - 1 = n
  /\ q[Len(q)] = DESYNC => \A i \in 1..(Len(q) - 1) : q[i] \notin Markers

\* Every viewer in its drain loop has the one or the other.
Follows(q, w, sub, n, over, m) == IF sub THEN Streams(q, w, n) ELSE Ends(q, w, over, m)

Followed ==
  /\ exited => subs = {}
  /\ \A v \in Viewers : vpc[v] = "drain" =>
       Follows(chan[v], view[v], v \in subs, read, exited, final)

\* A chunk is no marker, and the markers differ.
LEMMA Kinds ==
  /\ \A n : Bytes(n) \notin Markers
  /\ END # DESYNC /\ END # DETACH /\ DESYNC # DETACH
  /\ END \in Markers /\ DESYNC \in Markers /\ DETACH \in Markers
<1>1. \A n : Bytes(n).kind = "chunk" /\ Bytes(n).n = n BY DEF Bytes
<1>2. END.kind = "END" /\ DESYNC.kind = "DESYNC" /\ DETACH.kind = "DETACH"
  BY DEF END, DESYNC, DETACH, Marker
<1>3. Markers = {END, DESYNC, DETACH} BY DEF Markers
<1> QED BY <1>1, <1>2, <1>3

\* The number of a chunk.
LEMMA ChunkNumber == ASSUME NEW n PROVE Bytes(n).n = n
  BY DEF Bytes

\* What is forced into a channel is its last entry; the others are those that were there, but for
\* the oldest of a full one.
LEMMA Forced ==
  ASSUME NEW q, Channel(q), NEW k \in Items
  PROVE  /\ Len(ForceIn(q, k)) \in Nat \ {0} /\ ForceIn(q, k) # <<>>
         /\ ForceIn(q, k)[Len(ForceIn(q, k))] = k
         /\ ~Full(q) => /\ Len(ForceIn(q, k)) = Len(q) + 1
                        /\ \A i \in 1..Len(q) : ForceIn(q, k)[i] = q[i]
         /\ Full(q) => /\ Len(ForceIn(q, k)) = Len(q)
                       /\ \A i \in 1..(Len(q) - 1) : ForceIn(q, k)[i] = q[i + 1]
<1>1. Len(q) \in Nat /\ Limit \in Nat \ {0} /\ q \in Seq(Items)
  BY LenProperties, PtyAssumption DEF Channel, PtyAssumption
<1>2. CASE Full(q)
  <2>1. ForceIn(q, k) = Append(Tail(q), k) BY <1>2 DEF ForceIn
  <2>2. q # <<>> BY <1>1, <1>2 DEF Full
  <2>3. Tail(q) \in Seq(Items) /\ Len(Tail(q)) = Len(q) - 1 BY <1>1, <2>2, HeadTailProperties
  <2>4. \A i \in 1..(Len(q) - 1) : Tail(q)[i] = q[i + 1] BY <1>1, <2>2, <2>3
  <2> DEFINE t == Tail(q)
  <2>t. t \in Seq(Items) BY <2>3
  <2> HIDE DEF t
  <2>a. /\ Append(t, k) # <<>> /\ Len(Append(t, k)) = Len(t) + 1
        /\ \A i \in 1..Len(t) : Append(t, k)[i] = t[i]
        /\ Append(t, k)[Len(t) + 1] = k
    BY <2>t, AppendProperties
  <2>5. /\ Append(Tail(q), k) # <<>> /\ Len(Append(Tail(q), k)) = Len(Tail(q)) + 1
        /\ \A i \in 1..Len(Tail(q)) : Append(Tail(q), k)[i] = Tail(q)[i]
        /\ Append(Tail(q), k)[Len(Tail(q)) + 1] = k
    BY <2>a DEF t
  <2>6. Len(q) \in Nat \ {0} /\ Len(Tail(q)) + 1 = Len(q) BY <1>1, <1>2, <2>3 DEF Full
  <2>7. \A i \in 1..(Len(q) - 1) : ForceIn(q, k)[i] = q[i + 1] BY <2>1, <2>3, <2>4, <2>5
  <2>8. Len(ForceIn(q, k)) = Len(q) /\ ForceIn(q, k) # <<>> /\ ForceIn(q, k)[Len(q)] = k
    BY <2>1, <2>5, <2>6
  <2> QED BY <1>2, <2>6, <2>7, <2>8
<1>3. CASE ~Full(q)
  <2>1. ForceIn(q, k) = Append(q, k) BY <1>3 DEF ForceIn
  <2>2. /\ Append(q, k) # <<>> /\ Len(Append(q, k)) = Len(q) + 1
        /\ \A i \in 1..Len(q) : Append(q, k)[i] = q[i]
        /\ Append(q, k)[Len(q) + 1] = k
    BY <1>1, AppendProperties
  <2> QED BY <1>1, <1>3, <2>1, <2>2
<1> QED BY <1>2, <1>3

\* What is left of a channel is what was there behind its first entry.
LEMMA Rest ==
  ASSUME NEW q, Channel(q), q # <<>>
  PROVE  /\ Len(q) \in Nat \ {0} /\ Head(q) = q[1] /\ Len(Tail(q)) = Len(q) - 1
         /\ \A i \in 1..(Len(q) - 1) : Tail(q)[i] = q[i + 1]
         /\ Tail(q) = <<>> <=> Len(q) = 1
<1>1. q \in Seq(Items) /\ Len(q) \in Nat BY LenProperties DEF Channel
<1>2. Tail(q) \in Seq(Items) /\ Len(Tail(q)) = Len(q) - 1 BY <1>1, HeadTailProperties
<1>3. Len(q) # 0 BY <1>1, EmptySeq
<1>4. Tail(q) = <<>> <=> Len(Tail(q)) = 0 BY <1>2, EmptySeq
<1> QED BY <1>1, <1>2, <1>3, <1>4

\* The next chunk goes to the end of a stream.
LEMMA StreamGrows ==
  ASSUME NEW q, Channel(q), ~Full(q), NEW w, w.last \in Nat, NEW n \in Nat, Streams(q, w, n),
         Bytes(n + 1) \in Items
  PROVE  Streams(Append(q, Bytes(n + 1)), w, n + 1)
<1>1. q \in Seq(Items) /\ Len(q) \in Nat BY LenProperties DEF Channel
<1>2. /\ Len(Append(q, Bytes(n + 1))) = Len(q) + 1
      /\ \A i \in 1..Len(q) : Append(q, Bytes(n + 1))[i] = q[i]
      /\ Append(q, Bytes(n + 1))[Len(q) + 1] = Bytes(n + 1)
  BY <1>1, AppendProperties
<1>3. \A i \in 1..Len(q) : q[i] = Bytes(w.last + i) BY DEF Streams, Chunks
<1>4. w.last + Len(q) = n /\ ~w.gap BY DEF Streams
<1>5. \A i \in 1..(Len(q) + 1) : Append(q, Bytes(n + 1))[i] = Bytes(w.last + i)
  <2> TAKE i \in 1..(Len(q) + 1)
  <2>1. CASE i \in 1..Len(q) BY <2>1, <1>2, <1>3
  <2>2. CASE i = Len(q) + 1
    <3>1. w.last + i = n + 1 BY <1>1, <1>4, <2>2
    <3> QED BY <1>2, <2>2, <3>1
  <2> QED BY <1>1, <2>1, <2>2
<1> DEFINE r == Append(q, Bytes(n + 1))
<1>6. Chunks(r, w.last, Len(r)) BY <1>2, <1>5 DEF Chunks
<1>7. w.last + Len(r) = n + 1 BY <1>1, <1>2, <1>4
<1> HIDE DEF r
<1>8. Streams(r, w, n + 1) BY <1>4, <1>6, <1>7 DEF Streams
<1> QED BY <1>8 DEF r

\* A stream that is cut ends in the marker that says so.
LEMMA StreamCut ==
  ASSUME NEW q, Channel(q), NEW w, NEW n, Streams(q, w, n), NEW over, NEW m
  PROVE  Ends(ForceIn(q, DESYNC), w, over, m)
<1>1. Len(q) \in Nat BY LenProperties DEF Channel
<1>2. \A i \in 1..Len(q) : q[i] \notin Markers BY Kinds DEF Streams, Chunks
<1> DEFINE r == ForceIn(q, DESYNC)
<1>3. /\ Len(r) \in Nat \ {0} /\ r # <<>> /\ r[Len(r)] = DESYNC
      /\ ~Full(q) => Len(r) = Len(q) + 1 /\ \A i \in 1..Len(q) : r[i] = q[i]
      /\ Full(q) => Len(r) = Len(q) /\ \A i \in 1..(Len(q) - 1) : r[i] = q[i + 1]
  BY Forced, ItemKinds
<1> HIDE DEF r
<1>4. \A i \in 1..(Len(r) - 1) : r[i] \notin Markers
  <2>1. CASE Full(q)
    <3> TAKE i \in 1..(Len(r) - 1)
    <3>1. i + 1 \in 1..Len(q) /\ r[i] = q[i + 1] BY <1>1, <1>3, <2>1
    <3> QED BY <1>2, <3>1
  <2>2. CASE ~Full(q) BY <1>1, <1>2, <1>3, <2>2
  <2> QED BY <2>1, <2>2
<1> SUFFICES Ends(r, w, over, m) BY DEF r
<1> QED BY <1>3, <1>4, Kinds DEF Ends

\* A stream that is complete may end.
LEMMA StreamEnds ==
  ASSUME NEW q, Channel(q), ~Full(q), NEW w, w.last \in Nat, NEW n \in Nat, Streams(q, w, n)
  PROVE  Ends(ForceIn(q, END), w, TRUE, n)
<1>1. Len(q) \in Nat BY LenProperties DEF Channel
<1> DEFINE r == ForceIn(q, END)
<1>2. /\ r # <<>> /\ r[Len(r)] = END /\ Len(r) = Len(q) + 1
      /\ \A i \in 1..Len(q) : r[i] = q[i]
  BY Forced, ItemKinds
<1> HIDE DEF r
<1>3. Len(r) - 1 = Len(q) /\ w.last + Len(r) - 1 = w.last + Len(q) BY <1>1, <1>2
<1>4. Chunks(r, w.last, Len(r) - 1) BY <1>2, <1>3 DEF Streams, Chunks
<1> SUFFICES Ends(r, w, TRUE, n) BY DEF r
<1> QED BY <1>2, <1>3, <1>4, Kinds DEF Ends, Streams

\* A viewer that somebody detaches is told so, whatever its channel holds.
LEMMA Detached ==
  ASSUME NEW q, Channel(q), NEW w, NEW over, NEW m
  PROVE  Ends(ForceIn(q, DETACH), w, over, m)
<1> DEFINE r == ForceIn(q, DETACH)
<1>1. r # <<>> /\ r[Len(r)] = DETACH BY Forced, ItemKinds
<1> HIDE DEF r
<1> SUFFICES Ends(r, w, over, m) BY DEF r
<1> QED BY <1>1, Kinds DEF Ends

\* What a viewer has shown when it has taken a chunk.
Shown(q, w) == [last |-> Head(q).n, gap |-> w.gap \/ Head(q).n # w.last + 1]

\* The first of the chunks behind the n-th is the next.
LEMMA NextChunk ==
  ASSUME NEW q, Channel(q), NEW w, w.last \in Nat, ~w.gap, NEW k \in Nat \ {0},
         k \leq Len(q), Chunks(q, w.last, k), q # <<>>
  PROVE  /\ Shown(q, w).last = w.last + 1 /\ ~Shown(q, w).gap
         /\ Chunks(Tail(q), Shown(q, w).last, k - 1)
<1>1. /\ Len(q) \in Nat \ {0} /\ Head(q) = q[1]
      /\ \A i \in 1..(Len(q) - 1) : Tail(q)[i] = q[i + 1]
  BY Rest
<1>2. \A i \in 1..k : q[i] = Bytes(w.last + i) BY DEF Chunks
<1>3. Head(q).n = w.last + 1 BY <1>1, <1>2, ChunkNumber
<1>4. Shown(q, w).last = w.last + 1 /\ ~Shown(q, w).gap BY <1>3 DEF Shown
<1>5. ASSUME NEW i \in 1..(k - 1) PROVE Tail(q)[i] = Bytes(w.last + 1 + i)
  <2>1. i \in 1..(Len(q) - 1) /\ i + 1 \in 1..k /\ w.last + (i + 1) = w.last + 1 + i BY <1>1
  <2> QED BY <1>1, <1>2, <2>1
<1> QED BY <1>4, <1>5 DEF Chunks

\* A viewer that shows a chunk of a stream still follows it.
LEMMA StreamShown ==
  ASSUME NEW q, Channel(q), q # <<>>, NEW w, w.last \in Nat, NEW n \in Nat, Streams(q, w, n)
  PROVE  Streams(Tail(q), Shown(q, w), n)
<1>1. Len(q) \in Nat \ {0} /\ Len(Tail(q)) = Len(q) - 1 BY Rest
<1>2. /\ Shown(q, w).last = w.last + 1 /\ ~Shown(q, w).gap
      /\ Chunks(Tail(q), Shown(q, w).last, Len(q) - 1)
  BY <1>1, NextChunk DEF Streams
<1> QED BY <1>1, <1>2 DEF Streams

\* So does one whose stream has ended.
LEMMA EndShown ==
  ASSUME NEW q, Channel(q), q # <<>>, Head(q) \notin Markers, NEW w, w.last \in Nat, NEW over,
         NEW n \in Nat, Ends(q, w, over, n)
  PROVE  Ends(Tail(q), Shown(q, w), over, n)
<1>1. /\ Len(q) \in Nat \ {0} /\ Head(q) = q[1] /\ Len(Tail(q)) = Len(q) - 1
      /\ \A i \in 1..(Len(q) - 1) : Tail(q)[i] = q[i + 1]
      /\ Tail(q) = <<>> <=> Len(q) = 1
  BY Rest
<1>2. Len(q) # 1 BY <1>1 DEF Ends
<1>3. Tail(q) # <<>> /\ Tail(q)[Len(Tail(q))] = q[Len(q)]
  <2>1. Len(q) - 1 \in 1..(Len(q) - 1) /\ (Len(q) - 1) + 1 = Len(q) BY <1>1, <1>2
  <2> QED BY <1>1, <1>2, <2>1
<1>4. ASSUME q[Len(q)] = END
      PROVE  /\ over /\ ~Shown(q, w).gap /\ Shown(q, w).last + Len(Tail(q)) - 1 = n
             /\ Chunks(Tail(q), Shown(q, w).last, Len(Tail(q)) - 1)
  <2>1. /\ over /\ ~w.gap /\ Chunks(q, w.last, Len(q) - 1) /\ w.last + Len(q) - 1 = n
    BY <1>4 DEF Ends
  <2>2. Len(q) - 1 \in Nat \ {0} /\ Len(q) - 1 \leq Len(q) BY <1>1, <1>2
  <2>3. /\ Shown(q, w).last = w.last + 1 /\ ~Shown(q, w).gap
        /\ Chunks(Tail(q), Shown(q, w).last, Len(q) - 1 - 1)
    BY <2>1, <2>2, NextChunk
  <2>4. Len(Tail(q)) - 1 = Len(q) - 1 - 1 BY <1>1
  <2> DEFINE a == w.last
             b == Len(q)
             d == Len(Tail(q))
  <2>n. a \in Nat /\ b \in Nat /\ d = b - 1 /\ a + b - 1 = n BY <1>1, <2>1
  <2> HIDE DEF a, b, d
  <2>d. a + 1 + d - 1 = n BY <2>n
  <2>5. w.last + 1 + Len(Tail(q)) - 1 = n BY <2>d DEF a, b, d
  <2> QED BY <2>1, <2>3, <2>4, <2>5
<1>5. ASSUME q[Len(q)] = DESYNC, NEW i \in 1..(Len(Tail(q)) - 1) PROVE Tail(q)[i] \notin Markers
  <2>1. i \in 1..(Len(q) - 1) /\ i + 1 \in 1..(Len(q) - 1) BY <1>1
  <2> QED BY <1>1, <1>5, <2>1 DEF Ends
<1> QED BY <1>3, <1>4, <1>5 DEF Ends

-----------------------------------------------------------------------------
\* The numbers and channels the lemmas above ask for.
LEMMA Numbers ==
  ASSUME ScreenOK, CountsOK
  PROVE  /\ read \in Nat /\ final \in Nat
         /\ \A v \in Viewers : Channel(chan[v]) /\ view[v].last \in Nat
<1>1. read \in Nat /\ final \in Nat BY PtyAssumption DEF CountsOK, PtyAssumption
<1>2. \A v \in Viewers : view[v].last \in 0..MaxOutput BY DEF ScreenOK
<1>3. 0..MaxOutput \subseteq Nat BY PtyAssumption DEF PtyAssumption
<1> QED BY <1>1, <1>2, <1>3 DEF ScreenOK, Channel

\* Whoever publishes the exit ends every stream, or cuts it.
LEMMA FinishFollowed ==
  ASSUME Followed, ScreenOK, CountsOK, NEW s, Finish(s), UNCHANGED <<viewer, read>>
  PROVE  Followed'
<1>1. CASE exited BY <1>1 DEF Finish, Followed, result, screen, viewer
<1>2. CASE ~exited
  <2>1. /\ exited' = TRUE /\ final' = read /\ subs' = {}
        /\ chan' = [v \in Viewers |->
             IF v \in subs
             THEN ForceIn(chan[v], IF Full(chan[v]) THEN DESYNC ELSE END)
             ELSE chan[v]]
    BY <1>2 DEF Finish
  <2>2. ASSUME NEW v \in Viewers, vpc[v] = "drain"
        PROVE  Ends(chan'[v], view[v], TRUE, read)
    <3>1. Follows(chan[v], view[v], v \in subs, read, exited, final) BY <2>2 DEF Followed
    <3>2. read \in Nat /\ Channel(chan[v]) /\ view[v].last \in Nat BY Numbers
    <3>3. CASE v \in subs /\ Full(chan[v])
      <4>1. chan'[v] = ForceIn(chan[v], DESYNC) BY <2>1, <3>3
      <4> QED BY <3>1, <3>2, <3>3, <4>1, StreamCut DEF Follows
    <3>4. CASE v \in subs /\ ~Full(chan[v])
      <4>1. chan'[v] = ForceIn(chan[v], END) BY <2>1, <3>4
      <4> QED BY <3>1, <3>2, <3>4, <4>1, StreamEnds DEF Follows
    <3>5. CASE v \notin subs
      <4>1. Ends(chan[v], view[v], exited, final) BY <3>1, <3>5 DEF Follows
      <4>2. chan'[v] = chan[v] BY <2>1, <3>5
      <4> QED BY <1>2, <4>1, <4>2 DEF Ends
    <3> QED BY <3>3, <3>4, <3>5
  <2>3. vpc' = vpc /\ view' = view BY DEF viewer
  <2>4. ASSUME NEW v \in Viewers, vpc'[v] = "drain"
        PROVE  Follows(chan'[v], view'[v], v \in subs', read', exited', final')
    BY <2>1, <2>2, <2>3, <2>4 DEF Follows
  <2> QED BY <2>1, <2>4 DEF Followed
<1> QED BY <1>1, <1>2

\* A chunk reaches every viewer that has room for it, and cuts the others.
LEMMA BroadcastFollowed ==
  ASSUME Followed, ScreenOK, CountsOK, ReaderBroadcasts
  PROVE  Followed'
<1>1. /\ read' = read + 1 /\ Broadcast(read + 1)
      /\ exited' = exited /\ final' = final /\ vpc' = vpc /\ view' = view
  BY DEF ReaderBroadcasts, session, result, callers, viewer
<1>2. subs' = subs \ {v \in subs : Full(chan[v])} BY <1>1 DEF Broadcast
<1>3. chan' = [v \in Viewers |->
         IF v \in {u \in subs : Full(chan[u])} THEN ForceIn(chan[v], DESYNC)
         ELSE IF v \in subs THEN Append(chan[v], Bytes(read + 1))
         ELSE chan[v]]
  BY <1>1 DEF Broadcast
<1>4. Bytes(read + 1) \in Items
  BY ItemKinds, PtyAssumption DEF ReaderBroadcasts, CountsOK, PtyAssumption
<1>5. ASSUME NEW v \in Viewers, vpc'[v] = "drain"
      PROVE  Follows(chan'[v], view'[v], v \in subs', read', exited', final')
  <2>1. Follows(chan[v], view[v], v \in subs, read, exited, final) BY <1>1, <1>5 DEF Followed
  <2>2. read \in Nat /\ Channel(chan[v]) /\ view[v].last \in Nat BY Numbers
  <2>3. CASE v \in subs /\ Full(chan[v])
    <3>1. v \notin subs' /\ chan'[v] = ForceIn(chan[v], DESYNC) BY <1>2, <1>3, <2>3
    <3> QED BY <1>1, <2>1, <2>2, <2>3, <3>1, StreamCut DEF Follows
  <2>4. CASE v \in subs /\ ~Full(chan[v])
    <3>1. v \in subs' /\ chan'[v] = Append(chan[v], Bytes(read + 1)) BY <1>2, <1>3, <2>4
    <3> QED BY <1>1, <1>4, <2>1, <2>2, <2>4, <3>1, StreamGrows DEF Follows
  <2>5. CASE v \notin subs
    <3>1. v \notin subs' /\ chan'[v] = chan[v] BY <1>2, <1>3, <2>5
    <3> QED BY <1>1, <2>1, <2>5, <3>1 DEF Follows
  <2> QED BY <2>3, <2>4, <2>5
<1>6. exited' => subs' = {} BY <1>1, <1>2 DEF Followed
<1> QED BY <1>5, <1>6 DEF Followed

\* A viewer takes the scrollback with its place among the subscribers.
LEMMA AttachFollowed ==
  ASSUME Followed, ScreenOK, CountsOK, ThreadsOK, NEW v \in Viewers, Attaches(v)
  PROVE  Followed'
<1>1. /\ read' = read /\ exited' = exited /\ final' = final
      /\ view' = [view EXCEPT ![v] = [last |-> read, gap |-> FALSE]]
  BY DEF Attaches, reader, session, result
<1>2. CASE exited
  <2>1. vpc' = [vpc EXCEPT ![v] = "late"] /\ subs' = subs /\ chan' = chan
    BY <1>2 DEF Attaches, screen
  <2>2. \A u \in Viewers : vpc'[u] = "drain" => vpc[u] = "drain" /\ view'[u] = view[u]
    BY <1>1, <2>1 DEF ThreadsOK, ScreenOK
  <2> QED BY <1>1, <2>1, <2>2 DEF Followed
<1>3. CASE ~exited
  <2>1. /\ vpc' = [vpc EXCEPT ![v] = "drain"] /\ subs' = subs \cup {v}
        /\ chan' = [chan EXCEPT ![v] = <<>>]
    BY <1>3 DEF Attaches
  <2>2. view'[v] = [last |-> read, gap |-> FALSE] /\ chan'[v] = <<>> /\ v \in subs'
    BY <1>1, <2>1 DEF ScreenOK
  <2>3. Streams(<<>>, [last |-> read, gap |-> FALSE], read)
    <3>1. read \in Nat /\ Len(<<>>) = 0 BY Numbers, EmptySeq
    <3> QED BY <3>1 DEF Streams, Chunks
  <2>4. ASSUME NEW u \in Viewers, vpc'[u] = "drain"
        PROVE  Follows(chan'[u], view'[u], u \in subs', read', exited', final')
    <3>1. CASE u = v BY <1>1, <2>2, <2>3, <3>1 DEF Follows
    <3>2. CASE u # v
      <4>1. /\ vpc[u] = "drain" /\ chan'[u] = chan[u] /\ view'[u] = view[u]
            /\ u \in subs' <=> u \in subs
        BY <1>1, <2>1, <2>4, <3>2 DEF ThreadsOK, ScreenOK
      <4>2. Follows(chan[u], view[u], u \in subs, read, exited, final) BY <4>1 DEF Followed
      <4> QED BY <1>1, <4>1, <4>2 DEF Follows
    <3> QED BY <3>1, <3>2
  <2> QED BY <1>1, <1>3, <2>4 DEF Followed
<1> QED BY <1>2, <1>3

\* A viewer that shows a chunk is where it was in its stream.
LEMMA ChunkFollowed ==
  ASSUME Followed, ScreenOK, CountsOK, ThreadsOK, NEW v \in Viewers, DrainsChunk(v)
  PROVE  Followed'
<1>1. /\ vpc[v] = "drain" /\ chan[v] # <<>> /\ Head(chan[v]) \notin Markers
      /\ read' = read /\ exited' = exited /\ final' = final /\ vpc' = vpc /\ subs' = subs
      /\ chan' = [chan EXCEPT ![v] = Tail(@)]
      /\ view' = [view EXCEPT ![v] = Shown(chan[v], @)]
  BY DEF DrainsChunk, reader, session, result, Shown
<1>2. chan'[v] = Tail(chan[v]) /\ view'[v] = Shown(chan[v], view[v]) BY <1>1 DEF ScreenOK
<1>3. /\ read \in Nat /\ final \in Nat /\ Channel(chan[v]) /\ view[v].last \in Nat BY Numbers
<1>4. Follows(chan[v], view[v], v \in subs, read, exited, final) BY <1>1 DEF Followed
<1>5. Follows(chan'[v], view'[v], v \in subs', read', exited', final')
  <2>1. CASE v \in subs
    <3>1. Streams(Tail(chan[v]), Shown(chan[v], view[v]), read)
      BY <1>1, <1>3, <1>4, <2>1, StreamShown DEF Follows
    <3> QED BY <1>1, <1>2, <2>1, <3>1 DEF Follows
  <2>2. CASE v \notin subs
    <3>1. Ends(Tail(chan[v]), Shown(chan[v], view[v]), exited, final)
      BY <1>1, <1>3, <1>4, <2>2, EndShown DEF Follows
    <3> QED BY <1>1, <1>2, <2>2, <3>1 DEF Follows
  <2> QED BY <2>1, <2>2
<1>6. \A u \in Viewers : u # v => chan'[u] = chan[u] /\ view'[u] = view[u]
  BY <1>1 DEF ScreenOK
<1>7. ASSUME NEW u \in Viewers, vpc'[u] = "drain"
      PROVE  Follows(chan'[u], view'[u], u \in subs', read', exited', final')
  <2>1. CASE u = v BY <1>5, <2>1
  <2>2. CASE u # v
    <3>1. Follows(chan[u], view[u], u \in subs, read, exited, final) BY <1>1, <1>7 DEF Followed
    <3>2. chan'[u] = chan[u] /\ view'[u] = view[u] BY <1>6, <2>2
    <3> QED BY <1>1, <3>1, <3>2
  <2> QED BY <2>1, <2>2
<1> QED BY <1>1, <1>7 DEF Followed

\* A viewer that takes its marker is in the loop no more.
LEMMA MarkerFollowed ==
  ASSUME Followed, ScreenOK, ThreadsOK, NEW v \in Viewers, DrainsMarker(v)
  PROVE  Followed'
<1>1. /\ read' = read /\ exited' = exited /\ final' = final /\ view' = view
      /\ subs' = subs \ {v} /\ chan' = [chan EXCEPT ![v] = <<>>]
  BY DEF DrainsMarker, reader, session, result
<1>2. vpc'[v] # "drain" /\ \A u \in Viewers : u # v => vpc'[u] = vpc[u]
  BY DEF DrainsMarker, ThreadsOK
<1>3. ASSUME NEW u \in Viewers, vpc'[u] = "drain"
      PROVE  Follows(chan'[u], view'[u], u \in subs', read', exited', final')
  <2>1. u # v BY <1>2, <1>3
  <2>2. vpc[u] = "drain" /\ chan'[u] = chan[u] /\ (u \in subs' <=> u \in subs)
    BY <1>1, <1>2, <1>3, <2>1 DEF ScreenOK
  <2>3. Follows(chan[u], view[u], u \in subs, read, exited, final) BY <2>2 DEF Followed
  <2> QED BY <1>1, <2>2, <2>3 DEF Follows
<1> QED BY <1>1, <1>3 DEF Followed

\* A viewer that is detached has the marker that says so.
LEMMA DetachFollowed ==
  ASSUME Followed, ScreenOK, CountsOK, NEW v \in Viewers, IsDetached(v)
  PROVE  Followed'
<1>1. /\ read' = read /\ exited' = exited /\ final' = final /\ view' = view /\ vpc' = vpc
      /\ subs' = subs \ {v} /\ chan' = [chan EXCEPT ![v] = ForceIn(@, DETACH)]
  BY DEF IsDetached, reader, session, result, callers, viewer
<1>2. ASSUME NEW u \in Viewers, vpc'[u] = "drain"
      PROVE  Follows(chan'[u], view'[u], u \in subs', read', exited', final')
  <2>1. CASE u = v
    <3>1. chan'[u] = ForceIn(chan[u], DETACH) /\ u \notin subs' BY <1>1, <2>1 DEF ScreenOK
    <3>2. Channel(chan[u]) BY Numbers
    <3> QED BY <3>1, <3>2, Detached DEF Follows
  <2>2. CASE u # v
    <3>1. chan'[u] = chan[u] /\ (u \in subs' <=> u \in subs) BY <1>1, <2>2 DEF ScreenOK
    <3>2. Follows(chan[u], view[u], u \in subs, read, exited, final) BY <1>1, <1>2 DEF Followed
    <3> QED BY <1>1, <3>1, <3>2 DEF Follows
  <2> QED BY <2>1, <2>2
<1> QED BY <1>1, <1>2 DEF Followed

\* Every step keeps what the viewers are told of the end.
LEMMA FollowStep ==
  ASSUME Followed, ScreenOK, CountsOK, ThreadsOK, [Next]_vars
  PROVE  Followed'
<1> USE DEF child, master, reader, result, flags, screen, viewer, session, callers, parent
<1>1. CASE UNCHANGED <<subs, chan, view, vpc, read, exited, final>> BY <1>1 DEF Followed
<1>2. CASE ReaderFinishes
  <2>1. (\E s : Finish(s)) /\ UNCHANGED <<viewer, read>> BY <1>2 DEF ReaderFinishes
  <2> QED BY <2>1, FinishFollowed
<1>3. ASSUME NEW c \in Closers, CloserFinishes(c) PROVE Followed'
  <2>1. Finish(status) /\ UNCHANGED <<viewer, read>> BY <1>3 DEF CloserFinishes
  <2> QED BY <2>1, FinishFollowed
<1>4. CASE Constructs
  BY <1>1, <1>4 DEF Constructs, Popen, PopenFails, StartReader, StartReaderFails, UndoStart
<1>5. CASE ChildStep
  BY <1>1, <1>5 DEF ChildStep, Prints, Reads, Forks, Escapes, Releases, Dies
<1>6. CASE ReadLoads \/ ReadEnters \/ ReadReturns \/ ReadForeign \/ ReaderAwaits \/ Recycled
  BY <1>1, <1>6 DEF ReadLoads, ReadEnters, ReadReturns, ReadForeign, ReaderAwaits, Recycled
<1>7. ASSUME NEW c \in Closers, CloseEnters(c) \/ CloserStep(c), ~CloserFinishes(c)
      PROVE  Followed'
  BY <1>1, <1>7 DEF CloseEnters, CloserStep, CloseSettles, HangsUp, GraceEnds, Kills, Joins,
     Collects, Records, Retires, ClosesFd, CloseDone
<1>8. ASSUME NEW u \in Writers, InputBegins(u) \/ WriterStep(u) PROVE Followed'
  BY <1>1, <1>8 DEF InputBegins, WriterStep, InputLocks, InputReturns, WriteReturns
<1>9. CASE UNCHANGED vars BY <1>1, <1>9 DEF vars
<1> QED
  BY <1>2, <1>3, <1>4, <1>5, <1>6, <1>7, <1>8, <1>9, BroadcastFollowed, AttachFollowed,
     ChunkFollowed, MarkerFollowed, DetachFollowed
  DEF Next, ReaderStep, ViewerStep, CloserStep, Finished

\* What the viewers are told of the end is an invariant of the session.
THEOREM FollowedInductive == Spec => []Followed
<1>1. Init => Followed BY DEF Init, Followed
<1>2. IInv /\ Followed /\ [Next]_vars => Followed'
  BY FollowStep, TypeParts DEF IInv
<1> QED BY <1>1, <1>2, Inductive, PTL DEF Spec

\* Whatever the child does, a viewer has all of the output broadcast, shown or in its channel, or
\* it is offered no more and the marker that cuts its stream is the last entry of its channel; and
\* it comes to an orderly end only with all of it shown (utils/pty_runner.py:430-625).
THEOREM NoGapUntold == Spec => []NoSilentGap
<1>1. ASSUME IInv, Followed PROVE NoSilentGap
  <2>1. ScreenOK /\ CountsOK BY <1>1, TypeParts DEF IInv
  <2> SUFFICES ASSUME NEW v \in Viewers, vpc[v] = "drain"
      PROVE  /\ chan[v] # <<>> /\ Head(chan[v]) = END /\ ~IsCutLoose(v)
                  => ~view[v].gap /\ view[v].last = final
             /\ ~HasAll(v)
                  => /\ v \notin subs
                     /\ chan[v] # <<>> /\ chan[v][Len(chan[v])] \in {DESYNC, DETACH}
    BY DEF NoSilentGap
  <2>2. Channel(chan[v]) /\ view[v].last \in Nat /\ final \in Nat BY <2>1, Numbers
  <2>3. Follows(chan[v], view[v], v \in subs, read, exited, final) BY <1>1 DEF Followed
  <2>4. CASE v \in subs
    <3>1. Streams(chan[v], view[v], read) BY <2>3, <2>4 DEF Follows
    <3>2. ASSUME chan[v] # <<>> PROVE Head(chan[v]) # END
      <4>1. Len(chan[v]) \in Nat \ {0} /\ Head(chan[v]) = chan[v][1] BY <2>2, <3>2, Rest
      <4>2. chan[v][1] = Bytes(view[v].last + 1) BY <3>1, <4>1 DEF Streams, Chunks
      <4> QED BY <4>1, <4>2, Kinds
    <3>3. ~(chan[v] # <<>> /\ chan[v][Len(chan[v])] = END)
      <4> SUFFICES ASSUME chan[v] # <<>> PROVE chan[v][Len(chan[v])] # END OBVIOUS
      <4>1. Len(chan[v]) \in 1..Len(chan[v]) BY <2>2, Rest
      <4>2. chan[v][Len(chan[v])] = Bytes(view[v].last + Len(chan[v]))
        BY <3>1, <4>1 DEF Streams, Chunks
      <4> QED BY <4>2, Kinds
    <3>4. ~exited BY <1>1, <2>4 DEF Followed
    <3>5. HasAll(v) BY <3>1, <3>3, <3>4 DEF HasAll, Streams, Chunks
    <3> QED BY <3>2, <3>5
  <2>5. CASE v \notin subs
    <3>1. Ends(chan[v], view[v], exited, final) BY <2>3, <2>5 DEF Follows
    <3>2. chan[v] # <<>> /\ chan[v][Len(chan[v])] \in Markers BY <3>1 DEF Ends
    <3>3. Len(chan[v]) \in Nat \ {0} /\ Head(chan[v]) = chan[v][1] BY <2>2, <3>2, Rest
    <3>4. ASSUME Head(chan[v]) = END, ~IsCutLoose(v)
          PROVE  ~view[v].gap /\ view[v].last = final
      <4>1. chan[v][Len(chan[v])] # DETACH
        <5>1. chan[v] \in Seq(Items) BY <2>2 DEF Channel
        <5>2. DOMAIN chan[v] = 1..Len(chan[v]) BY <5>1, LenProperties
        <5>3. Len(chan[v]) \in DOMAIN chan[v] BY <3>3, <5>2
        <5> QED BY <3>4, <5>3 DEF IsCutLoose
      <4>2. CASE Len(chan[v]) = 1
        BY <2>2, <3>1, <3>3, <3>4, <4>2 DEF Ends
      <4>3. CASE Len(chan[v]) # 1
        <5> DEFINE l == Len(chan[v])
        <5>n. l \in Nat \ {0} /\ l # 1 BY <3>3, <4>3
        <5> HIDE DEF l
        <5>l. 1 \in 1..(l - 1) BY <5>n
        <5>1. 1 \in 1..(Len(chan[v]) - 1) BY <5>l DEF l
        <5>2. chan[v][Len(chan[v])] # END
          <6>1. chan[v][1] # Bytes(view[v].last + 1) BY <3>3, <3>4, Kinds
          <6> QED BY <3>1, <5>1, <6>1 DEF Ends, Chunks
        <5>3. chan[v][Len(chan[v])] # DESYNC BY <3>1, <3>3, <3>4, <5>1, Kinds DEF Ends
        <5> QED BY <3>2, <4>1, <5>2, <5>3 DEF Markers
      <4> QED BY <4>2, <4>3
    <3>5. ASSUME chan[v][Len(chan[v])] = END PROVE HasAll(v)
      <4>1. /\ exited /\ ~view[v].gap /\ Chunks(chan[v], view[v].last, Len(chan[v]) - 1)
            /\ view[v].last + Len(chan[v]) - 1 = final
        BY <3>1, <3>5 DEF Ends
      <4> DEFINE a == view[v].last
                 b == Len(chan[v])
      <4>n. a \in Nat /\ b \in Nat /\ a + b - 1 = final BY <2>2, <3>3, <4>1
      <4> HIDE DEF a, b
      <4>d. a + (b - 1) = final BY <4>n
      <4>2. view[v].last + (Len(chan[v]) - 1) = final BY <4>d DEF a, b
      <4> QED BY <3>2, <3>5, <4>1, <4>2 DEF HasAll, Chunks
    <3>6. ASSUME chan[v][Len(chan[v])] # END PROVE chan[v][Len(chan[v])] \in {DESYNC, DETACH}
      BY <3>2, <3>6 DEF Markers
    <3>7. HasAll(v) \/ chan[v][Len(chan[v])] \in {DESYNC, DETACH}
      <4>1. CASE chan[v][Len(chan[v])] = END BY <3>5, <4>1
      <4>2. CASE chan[v][Len(chan[v])] # END BY <3>6, <4>2
      <4> QED BY <4>1, <4>2
    <3> QED BY <2>5, <3>2, <3>4, <3>7
  <2> QED BY <2>4, <2>5
<1>2. IInv /\ Followed => NoSilentGap BY <1>1
<1> QED BY <1>2, Inductive, FollowedInductive, PTL

-----------------------------------------------------------------------------
(* The status of the end.                                                  *)

\* A child whose processes keep their terminal and stay in the leader's group: the reader finds
\* the end of output only when all of them are gone, and nobody closes the descriptor or collects
\* the child before the exit is published.
Tame ==
  /\ "escaped" \notin alive /\ ("leader" \in alive => "leader" \in tty)
  /\ rpc \in {"await", "finish", "done"} => leader # "running"
  /\ rpc # "none" => leader # "none" /\ stage = "up"
  /\ rpc = "finish" => rstatus = "ok"
  /\ exited <=> rpc = "done"
  /\ exited => code = "ok"
  /\ \A c \in Closers :
       cpc[c] \in {"collect", "record", "retire", "closeFd", "finish", "publish"} => exited
  /\ leader = "collected" /\ stage = "up" => exited
  /\ fd # "mine" /\ stage = "up" => exited
  /\ stage \in {"new", "popen"} => fd = "mine"

\* Such a child's status is published before it is collected.
LEMMA TameStep ==
  ASSUME Unruly = {}, Tame, PartsOK, StatusesOK, ProcsOK, ThreadsOK, WorkDone, [Next]_vars
  PROVE  Tame'
<1> USE DEF Tame, PartsOK, StatusesOK, Statuses, ProcsOK, Procs, Group, ThreadsOK, WorkDone,
     Uncollected, child, master, reader, result, flags, screen, viewer, session, callers, parent
<1>u. Unruly = {} OBVIOUS
<1>1. CASE Popen BY <1>1, <1>u DEF Popen
<1>2. CASE PopenFails BY <1>2, <1>u DEF PopenFails
<1>3. CASE StartReader BY <1>3, <1>u DEF StartReader
<1>4. CASE StartReaderFails BY <1>4, <1>u DEF StartReaderFails
<1>5. CASE UndoStart BY <1>5, <1>u DEF UndoStart
<1>6. CASE Prints BY <1>6, <1>u DEF Prints
<1>7. CASE Reads BY <1>7, <1>u DEF Reads
<1>8. CASE Forks BY <1>8, <1>u DEF Forks
<1>9. CASE Escapes BY <1>9, <1>u DEF Escapes
<1>10. ASSUME NEW p \in Procs, Releases(p) PROVE Tame' BY <1>10, <1>u DEF Releases
<1>11. ASSUME NEW p \in Procs, Dies(p) PROVE Tame' BY <1>11, <1>u DEF Dies
<1>12. CASE ReadLoads BY <1>12, <1>u DEF ReadLoads
<1>13. CASE ReadEnters BY <1>13, <1>u DEF ReadEnters
<1>14. CASE ReadReturns BY <1>14, <1>u DEF ReadReturns
<1>15. CASE ReadForeign BY <1>15, <1>u DEF ReadForeign
<1>16. CASE ReaderBroadcasts BY <1>16, <1>u DEF ReaderBroadcasts, Broadcast
<1>17. CASE ReaderAwaits BY <1>17, <1>u DEF ReaderAwaits
<1>18. CASE ReaderFinishes BY <1>18, <1>u DEF ReaderFinishes, Finish
<1>19. CASE Recycled BY <1>19, <1>u DEF Recycled
<1>20. ASSUME NEW c \in Closers, CloseEnters(c) PROVE Tame' BY <1>20 DEF CloseEnters, CloserGoes
<1>21. ASSUME NEW c \in Closers, CloseSettles(c) PROVE Tame' BY <1>21 DEF CloseSettles, CloserGoes
<1>22. ASSUME NEW c \in Closers, HangsUp(c) PROVE Tame' BY <1>22 DEF HangsUp, CloserGoes
<1>23. ASSUME NEW c \in Closers, GraceEnds(c) PROVE Tame' BY <1>23 DEF GraceEnds, CloserGoes
<1>24. ASSUME NEW c \in Closers, Kills(c) PROVE Tame' BY <1>24 DEF Kills, CloserGoes
<1>25. ASSUME NEW c \in Closers, Joins(c) PROVE Tame'
  <2>1. alive \subseteq Group BY DEF Tame, ProcsOK, Procs, Group
  <2>2. alive \cap Group \subseteq doomed BY <1>25 DEF Joins, CloserGoes, WorkDone
  <2>3. tty \ doomed = {} BY <2>1, <2>2 DEF ProcsOK
  <2>4. rpc = "done" BY <1>25, <2>3 DEF Joins
  <2> QED BY <1>25, <2>4 DEF Joins, CloserGoes
<1>26. ASSUME NEW c \in Closers, Collects(c) PROVE Tame' BY <1>26 DEF Collects, CloserGoes
<1>27. ASSUME NEW c \in Closers, Records(c) PROVE Tame' BY <1>27 DEF Records, CloserGoes
<1>28. ASSUME NEW c \in Closers, Retires(c) PROVE Tame' BY <1>28 DEF Retires, CloserGoes
<1>29. ASSUME NEW c \in Closers, ClosesFd(c) PROVE Tame' BY <1>29 DEF ClosesFd, CloserGoes
<1>30. ASSUME NEW c \in Closers, CloserFinishes(c) PROVE Tame'
  BY <1>30 DEF CloserFinishes, CloserGoes, Finish
<1>31. ASSUME NEW c \in Closers, CloseDone(c) PROVE Tame' BY <1>31 DEF CloseDone, CloserGoes
<1>32. ASSUME NEW u \in Writers, InputBegins(u) PROVE Tame' BY <1>32 DEF InputBegins, WriterGoes
<1>33. ASSUME NEW u \in Writers, InputLocks(u) PROVE Tame' BY <1>33 DEF InputLocks, WriterGoes
<1>34. ASSUME NEW u \in Writers, InputReturns(u) PROVE Tame' BY <1>34 DEF InputReturns, WriterGoes
<1>35. ASSUME NEW u \in Writers, WriteReturns(u) PROVE Tame' BY <1>35 DEF WriteReturns, WriterGoes
<1>36. ASSUME NEW v \in Viewers, Attaches(v) PROVE Tame' BY <1>36 DEF Attaches
<1>37. ASSUME NEW v \in Viewers, DrainsChunk(v) PROVE Tame' BY <1>37 DEF DrainsChunk
<1>38. ASSUME NEW v \in Viewers, DrainsMarker(v) PROVE Tame' BY <1>38 DEF DrainsMarker
<1>39. ASSUME NEW v \in Viewers, IsDetached(v) PROVE Tame' BY <1>39 DEF IsDetached
<1>40. CASE UNCHANGED vars BY <1>40 DEF vars
<1> QED
  BY <1>1, <1>2, <1>3, <1>4, <1>5, <1>6, <1>7, <1>8, <1>9, <1>10, <1>11, <1>12, <1>13, <1>14,
       <1>15, <1>16, <1>17, <1>18, <1>19, <1>20, <1>21, <1>22, <1>23, <1>24, <1>25, <1>26,
       <1>27, <1>28, <1>29, <1>30, <1>31, <1>32, <1>33, <1>34, <1>35, <1>36, <1>37, <1>38,
       <1>39, <1>40
  DEF Next, Constructs, ChildStep, ReaderStep, CloserStep, WriterStep, ViewerStep, Finished

\* A child that keeps its terminal and its group, for every number of threads.
THEOREM TameInductive == ASSUME Unruly = {} PROVE Spec => []Tame
<1>1. Init => Tame BY DEF Init, Tame
<1>2. IInv /\ Tame /\ [Next]_vars => Tame'
  BY TameStep, TypeParts DEF IInv
<1> QED BY <1>1, <1>2, Inductive, PTL DEF Spec

\* While no process leaves the group or gives its terminal up, what a viewer is told of the end is
\* true: the status published is the child's own, never None, and an orderly end follows all of
\* the output (utils/pty_runner.py:430-620).
THEOREM EndAlwaysToldTruly == ASSUME Unruly = {} PROVE Spec => []EndToldTruly
<1>1. Tame => StatusKnown BY PtyAssumption DEF Tame, StatusKnown, PtyAssumption
<1>2. StatusKnown /\ NoSilentGap => EndToldTruly BY DEF EndToldTruly
<1> QED BY <1>1, <1>2, TameInductive, NoGapUntold, PTL

-----------------------------------------------------------------------------
(* PtySession implements SessionLifecycle.                                 *)

\* What a closer's position is to the lifecycle.
CallOf(p) ==
  CASE p = "settle" -> "waits"
    [] p \in {"out", "closed", "gaveUp"} -> p
    [] OTHER -> "works"

Call == [c \in Closers |-> CallOf(cpc[c])]

\* The names of the refinement.
LEMMA Names ==
  /\ Lifecycle!life = <<~exited, code, stopped, Call>>
  /\ Lifecycle!life' = <<~exited', code', stopped', Call'>>
  BY DEF Lifecycle!life, Call, CallOf

\* What the other threads do leaves every call where it is.
LEMMA CallStays ==
  ASSUME UNCHANGED cpc PROVE Call' = Call
  BY DEF Call

\* So does the work of the closer that does it.
LEMMA CallWorks ==
  ASSUME ThreadsOK, NEW c \in Closers, NEW p, cpc' = [cpc EXCEPT ![c] = p],
         cpc[c] \notin Idle, p \notin Idle
  PROVE  Call' = Call
<1>1. \A d \in Closers : CallOf(cpc'[d]) = CallOf(cpc[d]) BY DEF ThreadsOK, CallOf, Idle
<1> QED BY <1>1 DEF Call

\* A call that gets on.
LEMMA CallMoves ==
  ASSUME ThreadsOK, NEW c \in Closers, NEW p, cpc' = [cpc EXCEPT ![c] = p]
  PROVE  Call' = [Call EXCEPT ![c] = CallOf(p)]
  BY DEF ThreadsOK, Call

\* A step in which nothing of the lifecycle changes.
LEMMA Stutters ==
  ASSUME UNCHANGED <<exited, code, stopped>>, Call' = Call
  PROVE  UNCHANGED Lifecycle!life
  BY Names

\* The exit is published once, whoever publishes it.
LEMMA Publishes ==
  ASSUME StatusesOK, NEW s \in Statuses, Finish(s), Call' = Call, UNCHANGED stopped
  PROVE  [Lifecycle!Next]_(Lifecycle!life)
<1>1. CASE exited
  <2>1. UNCHANGED <<exited, code>> BY <1>1 DEF Finish, result
  <2> QED BY <2>1, Stutters
<1>2. CASE ~exited
  <2>1. exited' = TRUE /\ code' = s BY <1>2 DEF Finish
  <2>2. Lifecycle!Exit
    BY <1>2, <2>1 DEF Lifecycle!Exit, Call, CallOf
  <2> QED BY <2>2 DEF Lifecycle!Next
<1> QED BY <1>1, <1>2

\* Every step is one of the lifecycle, or none.
LEMMA RefineStep ==
  ASSUME PartsOK, StatusesOK, ThreadsOK, OneWorker, WorkDone, [Next]_vars
  PROVE  [Lifecycle!Next]_(Lifecycle!life)
<1> USE DEF child, master, reader, result, flags, screen, viewer, session, callers, parent
<1>1. CASE UNCHANGED <<cpc, exited, code, stopped>> BY <1>1, CallStays, Stutters
<1>2. ASSUME NEW c \in Closers, CloseEnters(c) PROVE [Lifecycle!Next]_(Lifecycle!life)
  <2>1. Call[c] = "out" BY <1>2 DEF CloseEnters, CloserGoes, Call, CallOf
  <2>2. (\A d \in Closers : Call[d] = "out") <=> ~closed
    BY DEF OneWorker, ThreadsOK, Call, CallOf
  <2>3. Call' = [Call EXCEPT ![c] = IF closed THEN "waits" ELSE "works"]
    <3>1. CallOf("settle") = "waits" /\ CallOf("hangup") = "works" BY DEF CallOf
    <3> QED BY <1>2, <3>1, CallMoves DEF CloseEnters, CloserGoes
  <2>4. stopped' = (stopped \/ (~closed /\ ~exited)) /\ UNCHANGED <<exited, code>>
    BY <1>2 DEF CloseEnters
  <2>5. Lifecycle!Enter(c)
    BY <2>1, <2>2, <2>3, <2>4 DEF Lifecycle!Enter, Lifecycle!First, Call, CallOf
  <2> QED BY <2>5 DEF Lifecycle!Next
<1>3. ASSUME NEW c \in Closers, CloseSettles(c) PROVE [Lifecycle!Next]_(Lifecycle!life)
  <2>1. Call[c] = "waits" BY <1>3 DEF CloseSettles, CloserGoes, Call, CallOf
  <2>2. closeDone => \E d \in Closers : Call[d] = "closed" BY DEF OneWorker, Call, CallOf
  <2>3. CallOf("closed") = "closed" /\ CallOf("gaveUp") = "gaveUp" BY DEF CallOf
  <2>4. \/ closeDone /\ Call' = [Call EXCEPT ![c] = "closed"]
        \/ Call' = [Call EXCEPT ![c] = "gaveUp"]
    BY <1>3, <2>3, CallMoves DEF CloseSettles, CloserGoes
  <2>5. UNCHANGED <<exited, code, stopped>> BY <1>3 DEF CloseSettles
  <2>6. Lifecycle!Return(c)
    BY <2>1, <2>2, <2>4, <2>5 DEF Lifecycle!Return, Call, CallOf
  <2> QED BY <2>6 DEF Lifecycle!Next
<1>4. ASSUME NEW c \in Closers, CloseDone(c) PROVE [Lifecycle!Next]_(Lifecycle!life)
  <2>1. Call[c] = "works" /\ exited BY <1>4 DEF CloseDone, CloserGoes, WorkDone, Call, CallOf
  <2>2. CallOf("closed") = "closed" BY DEF CallOf
  <2>3. Call' = [Call EXCEPT ![c] = "closed"] BY <1>4, <2>2, CallMoves DEF CloseDone, CloserGoes
  <2>4. UNCHANGED <<exited, code, stopped>> BY <1>4 DEF CloseDone
  <2>5. Lifecycle!Finish(c) BY <2>1, <2>3, <2>4 DEF Lifecycle!Finish, Call, CallOf
  <2> QED BY <2>5 DEF Lifecycle!Next
<1>5. ASSUME NEW c \in Closers, CloserFinishes(c) PROVE [Lifecycle!Next]_(Lifecycle!life)
  <2>1. Call' = Call BY <1>5, CallWorks DEF CloserFinishes, CloserGoes, Idle
  <2>2. status \in Statuses /\ Finish(status) /\ UNCHANGED stopped
    BY <1>5 DEF CloserFinishes, StatusesOK
  <2> QED BY <2>1, <2>2, Publishes
<1>6. CASE ReaderFinishes
  <2>1. Call' = Call BY <1>6, CallStays DEF ReaderFinishes
  <2> DEFINE s == IF rstatus # NoStatus THEN rstatus ELSE status
  <2>2. s \in Statuses /\ Finish(s) /\ UNCHANGED stopped BY <1>6 DEF ReaderFinishes, StatusesOK
  <2> HIDE DEF s
  <2> QED BY <2>1, <2>2, Publishes
<1>7. ASSUME NEW c \in Closers, CloserStep(c), ~CloseSettles(c), ~CloseDone(c), ~CloserFinishes(c)
      PROVE  [Lifecycle!Next]_(Lifecycle!life)
  <2>1. UNCHANGED <<exited, code, stopped>>
    BY <1>7 DEF CloserStep, HangsUp, GraceEnds, Kills, Joins, Collects, Records, Retires, ClosesFd
  <2>2. \E p : cpc' = [cpc EXCEPT ![c] = p] /\ p \notin Idle /\ cpc[c] \notin Idle
    BY <1>7 DEF CloserStep, HangsUp, GraceEnds, Kills, Joins, Collects, Records, Retires, ClosesFd,
       CloserGoes, Idle
  <2>3. Call' = Call BY <2>2, CallWorks
  <2> QED BY <2>1, <2>3, Stutters
<1>8. CASE Constructs
  BY <1>1, <1>8 DEF Constructs, Popen, PopenFails, StartReader, StartReaderFails, UndoStart
<1>9. CASE ChildStep
  BY <1>1, <1>9 DEF ChildStep, Prints, Reads, Forks, Escapes, Releases, Dies
<1>10. CASE (ReaderStep /\ ~ReaderFinishes) \/ Recycled
  BY <1>1, <1>10 DEF ReaderStep, ReadLoads, ReadEnters, ReadReturns, ReadForeign,
     ReaderBroadcasts, ReaderAwaits, Recycled
<1>11. ASSUME NEW u \in Writers, InputBegins(u) \/ WriterStep(u)
       PROVE  [Lifecycle!Next]_(Lifecycle!life)
  BY <1>1, <1>11 DEF InputBegins, WriterStep, InputLocks, InputReturns, WriteReturns
<1>12. ASSUME NEW v \in Viewers, Attaches(v) \/ ViewerStep(v) \/ IsDetached(v)
       PROVE  [Lifecycle!Next]_(Lifecycle!life)
  BY <1>1, <1>12 DEF Attaches, ViewerStep, DrainsChunk, DrainsMarker, IsDetached
<1>13. CASE UNCHANGED vars BY <1>1, <1>13 DEF vars
<1> QED
  BY <1>2, <1>3, <1>4, <1>5, <1>6, <1>7, <1>8, <1>9, <1>10, <1>11, <1>12, <1>13
  DEF Next, Finished

\* A session is what its users take it for: its exit is published once, closing after a natural
\* exit does not relabel it, and no close returns before it is over (utils/pty_runner.py:320-400).
THEOREM LifecycleImplemented == Spec => ImplementsLifecycle
<1>1. Init => Lifecycle!Init
  <2>1. ASSUME Init PROVE Lifecycle!Init
    BY <2>1 DEF Init, Lifecycle!Init, Statuses
  <2> QED BY <2>1
<1>2. IInv /\ [Next]_vars => [Lifecycle!Next]_(Lifecycle!life)
  BY RefineStep, TypeParts DEF IInv
<1> QED BY <1>1, <1>2, Inductive, PTL DEF Spec, ImplementsLifecycle, Lifecycle!Spec
=============================================================================
