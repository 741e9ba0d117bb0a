---------------------- MODULE MultiplexedStreamProofs ----------------------
(* What the event stream of the browser UI guarantees for every number of   *)
(* sessions and every bound of the queue and of the channels: nothing a     *)
(* session printed is missing from what the browser was sent, untold, and   *)
(* closing it, on however many threads, reaches the handler and each pump.  *)
EXTENDS MultiplexedStream, FiniteSets, FiniteSetTheorems, TLAPS

-----------------------------------------------------------------------------
(* Types.                                                                  *)

Outputs(s) == [kind : {"output"}, of : {s}, from : 1..MaxOutput, to : 1..MaxOutput]
Hands(s) == Outputs(s) \cup {None, Exit(s), Cut(s)}
Items == {Bytes(n) : n \in 1..MaxOutput} \cup {END, DESYNC, DETACH}

\* The handler does not come back from where it stops serving.
Gone == {"stop", "done"} \cup Tearing
PumpPoints == {"none", "attach", "register", "emit", "put", "drain", "release", "detach self",
               "last", "cut", "cut set", "done"} \cup Tearing

Scenes ==
  /\ born \in [Sessions -> {"absent", "announced", "created"}] /\ heard \subseteq Sessions
  /\ out \in [Sessions -> 0..MaxOutput] /\ ended \subseteq Sessions
  /\ viewed \subseteq Sessions
  /\ chan \in [Sessions -> Seq(Items)] /\ \A s \in Sessions : Len(chan[s]) <= Limit

Stream ==
  /\ queue \in Seq(Events) /\ Len(queue) <= Capacity
  /\ {closed, desynced, listening, beating, connected} \subseteq BOOLEAN
  /\ started \subseteq Sessions /\ subs \subseteq Sessions /\ got \subseteq Sessions
  /\ todo \in [Closers -> SUBSET Sessions] /\ tries \in [Threads -> 0..Capacity + Slack]
  /\ frame \in Events
  /\ shown \in [Sessions -> [last : 0..MaxOutput, gap : BOOLEAN, over : BOOLEAN]]

\* Where a pump can be, and what it has in its hand there.
PlaceOK(s, p, h, claimed) ==
  /\ p \in PumpPoints /\ h \in Hands(s)
  /\ p \in {"none", "attach"} => h = None
  /\ p = "register" => h \in Outputs(s) \cup {None}
  /\ p = "emit" => h # Cut(s)
  /\ p = "put" => h \notin {None, Cut(s)}
  /\ h = Cut(s) => p \in {"cut", "cut set", "release", "detach self", "done"} \cup Tearing
  /\ p = "none" <=> ~claimed

Places ==
  /\ pc \in [Threads -> Points]
  /\ pc[Handler] \in {"enter", "snapshot", "start", "get", "write", "parked"} \cup Gone
  /\ pc[Heartbeat] \in {"none", "beat", "parked", "wake", "evict", "done"}
  /\ frame # None => pc[Handler] \in {"write", "parked"}
  /\ hand \in [Sessions -> UNION {Hands(s) : s \in Sessions}]
  /\ \A s \in Sessions : PlaceOK(s, pc[s], hand[s], s \in started)

Typed == Scenes /\ Stream /\ Places

-----------------------------------------------------------------------------
(* What the browser is sent.                                               *)

\* The browser is there, the handler serves it, and nothing was cut.
Served == connected /\ ~desynced /\ pc[Handler] \notin Gone

\* Only then does nobody close, interrupt or cut.
Undisturbed ==
  /\ \A s \in Sessions : pc[s] \in Tearing => desynced
  /\ pc[Heartbeat] \in {"wake", "evict"} => ~connected \/ pc[Handler] \in Gone
  /\ closed => desynced \/ pc[Handler] \in Gone

IsOut(e, s) == e.kind = "output" /\ e.of = s
IsExit(e, s) == e.kind = "exit" /\ e.of = s

\* The events of a session in a queue stand for its chunks from b + 1 to t, in order, once.
Covers(q, s, b, t) ==
  /\ b <= t
  /\ \A i \in 1..Len(q) : IsOut(q[i], s) =>
       b < q[i].from /\ q[i].from <= q[i].to /\ q[i].to <= t
  /\ \A i, j \in 1..Len(q) :
       i < j /\ IsOut(q[i], s) /\ IsOut(q[j], s) => q[i].to < q[j].from
  /\ \A n \in b + 1..t :
       \E i \in 1..Len(q) : IsOut(q[i], s) /\ q[i].from <= n /\ n <= q[i].to

\* Nothing of it comes after its exit.
ExitLast(q, s) == \A i, j \in 1..Len(q) : i < j /\ IsExit(q[i], s) => ~IsOut(q[j], s)

\* An exit event of a session is on its way, or was painted.
Exiting(s) ==
  shown[s].over \/ IsExit(frame, s) \/ \E i \in 1..Len(queue) : IsExit(queue[i], s)

\* The last chunk painted when the handler is through with what it holds.
Base(s) == IF IsOut(frame, s) THEN frame.to ELSE shown[s].last

\* A channel holds the chunks after m, and the end when there is one.
Flows(ch, m, o, vw, en) ==
  IF vw THEN ~en /\ Len(ch) = o - m /\ \A i \in 1..Len(ch) : ch[i] = Bytes(m + i)
  ELSE /\ en /\ Len(ch) = o - m + 1 /\ ch[Len(ch)] = END
       /\ \A i \in 1..Len(ch) - 1 : ch[i] = Bytes(m + i)

\* What a pump is about to emit is nothing, or the chunks from t + 1 to m.
Carries(h, s, t, m) ==
  \/ h = None /\ m = t
  \/ IsOut(h, s) /\ h.from = t + 1 /\ h.to = m /\ t < m

\* What a pump has yet to emit, given what it holds, are the chunks after t.
Brings(s, t) ==
  /\ pc[s] \notin Tearing
  /\ pc[s] \in {"none", "attach"} =>
       t = 0 /\ s \notin got /\ s \notin viewed /\ chan[s] = <<>>
  /\ pc[s] \in {"register", "emit", "put"} =>
       \/ IsExit(hand[s], s) /\ s \in ended /\ t = out[s] /\ s \notin viewed
       \/ \E m \in t..out[s] :
            /\ Carries(hand[s], s, t, m)
            /\ IF s \in got THEN Flows(chan[s], m, out[s], s \in viewed, s \in ended)
               ELSE s \in ended /\ m = out[s] /\ s \notin viewed
  /\ pc[s] = "drain" =>
       s \in got /\ hand[s] = None /\ Flows(chan[s], t, out[s], s \in viewed, s \in ended)
  /\ pc[s] \in {"release", "detach self", "last", "done"} =>
       s \in ended /\ t = out[s] /\ s \notin viewed /\ hand[s].kind # "cut"

\* Nothing of the session was lost.
Whole(s) ==
  /\ ~shown[s].gap
  /\ IsOut(frame, s) => frame.from = shown[s].last + 1 /\ frame.from <= frame.to
  /\ ExitLast(queue, s)
  /\ (shown[s].over \/ IsExit(frame, s)) => \A i \in 1..Len(queue) : ~IsOut(queue[i], s)
  /\ Exiting(s) => pc[s] = "done"
  /\ \E t \in 0..out[s] : Covers(queue, s, Base(s), t) /\ Brings(s, t)

\* The channel of a pump ends with a DESYNC, or the pump has met it.
Marked(s) ==
  /\ s \notin viewed
  /\ \/ /\ pc[s] \in {"register", "emit", "put", "drain"} /\ s \in got /\ ~IsExit(hand[s], s)
        /\ chan[s] # <<>> /\ chan[s][Len(chan[s])] = DESYNC
        /\ \A i \in 1..Len(chan[s]) - 1 : chan[s][i].kind = "chunk"
     \/ /\ pc[s] \in {"cut", "cut set"}
        /\ hand[s] = Cut(s) \/ \E i \in 1..Len(chan[s]) : chan[s][i] = DESYNC

\* Nothing was lost, or what was lost is told before any exit is.
Sound(s) == Whole(s) \/ (~Exiting(s) /\ Marked(s))

\* An exit that was painted without a cut came after everything.
Honest ==
  \A s \in Sessions :
    shown[s].over /\ ~desynced => s \in ended /\ ~shown[s].gap /\ shown[s].last = out[s]

Following ==
  /\ Undisturbed /\ Honest
  /\ Served => \A s \in Sessions : Sound(s)
-----------------------------------------------------------------------------
(* What the handler and the heartbeat write.                               *)

Untouched ==
  UNCHANGED <<births, session, viewed, chan, flags, queue, started, subs, closing, pump,
              beating, connected>>

\* The handler is writing, at once or after it had to wait.
Writing == pc[Handler] \in {"write", "parked"}

\* The frame is sent,
Sent ==
  /\ connected /\ Writing /\ pc' = [pc EXCEPT ![Handler] = "get"]
  /\ Paints /\ frame' = None /\ Untouched

\* or the write raises,
Raised ==
  /\ ~connected /\ Writing /\ pc' = [pc EXCEPT ![Handler] = "stop"]
  /\ shown' = shown /\ frame' = None /\ Untouched

\* or it waits; a keepalive that waits, or no longer does, is all the same to the rest.
Waits ==
  /\ \/ pc[Handler] = "write" /\ pc' = [pc EXCEPT ![Handler] = "parked"]
     \/ pc[Heartbeat] = "beat" /\ pc' = [pc EXCEPT ![Heartbeat] = "parked"]
     \/ pc[Heartbeat] = "parked" /\ pc' = [pc EXCEPT ![Heartbeat] = "beat"]
  /\ UNCHANGED <<shown, frame>> /\ Untouched

\* A write does one of the three.
LEMMA Writes ==
  ASSUME Write \/ Stalls \/ Reads PROVE Sent \/ Raised \/ Waits
<1>1. CASE Write BY <1>1 DEF Write, Go, Sent, Raised, Writing, Untouched
<1>2. CASE Stalls BY <1>2 DEF Stalls, Go, Waits, Untouched, page
<1>3. CASE Reads BY <1>3 DEF Reads, Go, Sent, Waits, Writing, Untouched
<1> QED BY <1>1, <1>2, <1>3
-----------------------------------------------------------------------------
(* Types, step by step.                                                    *)

\* The events differ by their kind, and have the fields they were made of.
LEMMA Kinds ==
  /\ \A s, a, b : /\ Output(s, a, b).kind = "output" /\ Output(s, a, b).of = s
                  /\ Output(s, a, b).from = a /\ Output(s, a, b).to = b
  /\ \A s : Exit(s).kind = "exit" /\ Exit(s).of = s
  /\ \A s : Cut(s).kind = "cut" /\ Cut(s).of = s
  /\ None.kind = "none" /\ None.of = Handler
  /\ \A n : Bytes(n).kind = "chunk" /\ Bytes(n).n = n
  /\ END.kind = "END" /\ DESYNC.kind = "DESYNC" /\ DETACH.kind = "DETACH"
  /\ END # DESYNC /\ END # DETACH /\ DESYNC # DETACH
BY DEF Output, Exit, Cut, None, Event, Bytes, END, DESYNC, DETACH, Marker

\* The names of the threads differ.
LEMMA Names ==
  /\ Handler \notin Sessions /\ Heartbeat \notin Sessions /\ Handler # Heartbeat
  /\ Threads = Sessions \cup {Handler, Heartbeat} /\ Closers = Sessions \cup {Handler}
BY StreamAssumption DEF Threads, Closers

\* A marker forced into a channel leaves it within its bound.
LEMMA Forced ==
  ASSUME NEW q \in Seq(Items), Len(q) <= Limit, NEW m \in Items
  PROVE  /\ ForceIn(q, m) \in Seq(Items) /\ Len(ForceIn(q, m)) <= Limit
         /\ Len(ForceIn(q, m)) >= 1 /\ ForceIn(q, m)[Len(ForceIn(q, m))] = m
<1>1. Limit \in Nat \ {0} BY StreamAssumption
<1>2. CASE Full(q)
  <2>1. q # <<>> /\ Tail(q) \in Seq(Items) /\ Len(Tail(q)) = Len(q) - 1
    BY <1>1, <1>2 DEF Full
  <2>2. ForceIn(q, m) = Append(Tail(q), m) BY <1>2 DEF ForceIn
  <2> QED BY <2>1, <2>2
<1>3. CASE ~Full(q)
  <2>1. ForceIn(q, m) = Append(q, m) BY <1>3 DEF ForceIn
  <2> QED BY <1>1, <1>3, <2>1 DEF Full
<1> QED BY <1>2, <1>3

\* The markers and the chunks a session prints belong into its channel.
LEMMA ItemsAre ==
  /\ END \in Items /\ DESYNC \in Items /\ DETACH \in Items
  /\ \A n \in 1..MaxOutput : Bytes(n) \in Items
BY DEF Items

\* What a session's viewers see keeps its type.
LEMMA ScenesStep == ASSUME Typed, [Next]_vars PROVE Scenes'
<1> USE DEF Typed
<1>a. MaxOutput \in Nat /\ Limit \in Nat \ {0} BY StreamAssumption
<1>1. ASSUME NEW s \in Sessions, Detached(s), UNCHANGED <<births, session>> PROVE Scenes'
  <2>1. chan[s] \in Seq(Items) /\ Len(chan[s]) <= Limit BY DEF Scenes
  <2>2. ForceIn(chan[s], DETACH) \in Seq(Items) /\ Len(ForceIn(chan[s], DETACH)) <= Limit
    BY <2>1, Forced, ItemsAre
  <2> QED BY <1>1, <2>2 DEF Scenes, Detached, births, session
<1>2. ASSUME NEW s \in Sessions, Prints(s) PROVE Scenes'
  <2>1. chan[s] \in Seq(Items) /\ Len(chan[s]) <= Limit /\ out[s] \in 0..MaxOutput BY DEF Scenes
  <2>2. /\ out' = [out EXCEPT ![s] = out[s] + 1] /\ out[s] + 1 \in 1..MaxOutput
        /\ UNCHANGED <<born, heard, ended>>
    BY <1>2, <1>a, <2>1 DEF Prints, births
  <2>3. out' \in [Sessions -> 0..MaxOutput] BY <1>a, <2>2 DEF Scenes
  <2>4. ForceIn(chan[s], DESYNC) \in Seq(Items) /\ Len(ForceIn(chan[s], DESYNC)) <= Limit
    BY <2>1, Forced, ItemsAre
  <2>5. CASE UNCHANGED <<viewed, chan>> BY <2>2, <2>3, <2>5 DEF Scenes
  <2>6. CASE viewed' = viewed \ {s} /\ chan' = [chan EXCEPT ![s] = ForceIn(chan[s], DESYNC)]
    BY <2>2, <2>3, <2>4, <2>6 DEF Scenes
  <2>7. CASE /\ UNCHANGED viewed /\ ~Full(chan[s])
             /\ chan' = [chan EXCEPT ![s] = Append(chan[s], Bytes(out[s] + 1))]
    <3>1. Bytes(out[s] + 1) \in Items BY <2>2, ItemsAre
    <3>2. /\ Append(chan[s], Bytes(out[s] + 1)) \in Seq(Items)
          /\ Len(Append(chan[s], Bytes(out[s] + 1))) <= Limit
      BY <1>a, <2>1, <2>7, <3>1 DEF Full
    <3> QED BY <2>2, <2>3, <2>7, <3>2 DEF Scenes
  <2> QED BY <1>2, <2>5, <2>6, <2>7 DEF Prints
<1>3. ASSUME NEW s \in Sessions, Finish(s) PROVE Scenes'
  <2>1. chan[s] \in Seq(Items) /\ Len(chan[s]) <= Limit BY DEF Scenes
  <2> DEFINE m == IF Full(chan[s]) THEN DESYNC ELSE END
  <2>2. m \in Items BY ItemsAre
  <2> HIDE DEF m
  <2>3. ForceIn(chan[s], m) \in Seq(Items) /\ Len(ForceIn(chan[s], m)) <= Limit
    BY <2>1, <2>2, Forced
  <2>4. /\ UNCHANGED <<born, heard, out>> /\ ended' = ended \cup {s} /\ viewed' = viewed \ {s}
        /\ chan' = [chan EXCEPT ![s] = IF s \notin viewed THEN chan[s] ELSE ForceIn(chan[s], m)]
    BY <1>3 DEF Finish, births, m
  <2> QED BY <2>1, <2>3, <2>4 DEF Scenes
<1>4. ASSUME NEW s \in Sessions, Drain(s) PROVE Scenes'
  <2>1. chan[s] \in Seq(Items) /\ Len(chan[s]) <= Limit /\ chan[s] # <<>> BY <1>4 DEF Scenes, Drain
  <2>2. Tail(chan[s]) \in Seq(Items) /\ Len(Tail(chan[s])) <= Limit BY <1>a, <2>1
  <2>3. /\ UNCHANGED <<born, heard, out, ended, viewed>>
        /\ chan' = [chan EXCEPT ![s] = Tail(chan[s])]
    BY <1>4 DEF Drain, births, session
  <2> QED BY <2>2, <2>3 DEF Scenes
<1>5. ASSUME NEW s \in Sessions, Attach(s) PROVE Scenes'
  BY <1>5 DEF Attach, Scenes, births, session
<1>6. ASSUME NEW s \in Sessions, Register(s) \/ Announce(s) PROVE Scenes'
  BY <1>6 DEF Register, Announce, Scenes, session
<1>7. ASSUME UNCHANGED <<births, session, viewed, chan>> PROVE Scenes'
  BY <1>7 DEF Scenes, births, session
<1>8. ASSUME NEW t \in Closers, Detach(t) PROVE Scenes'
  <2>1. CASE todo[t] = {} BY <1>7, <1>8, <2>1 DEF Detach
  <2>2. CASE todo[t] # {}
    <3>1. PICK s \in todo[t] : Detached(s) BY <1>8, <2>2 DEF Detach
    <3>2. s \in Sessions BY DEF Stream
    <3> QED BY <1>1, <1>8, <3>1, <3>2 DEF Detach
  <2> QED BY <2>1, <2>2
<1>9. ASSUME NEW s \in Sessions, RegisterPump(s) PROVE Scenes'
  BY <1>1, <1>7, <1>9 DEF RegisterPump
<1>10. ASSUME NEW s \in Sessions, DetachSelf(s) PROVE Scenes'
  BY <1>1, <1>10 DEF DetachSelf
<1>11. ASSUME NEW t \in Threads, Shut(t) \/ Collect(t) \/ Interrupt(t) PROVE Scenes'
  BY <1>7, <1>11 DEF Shut, Collect, Interrupt, Wake, Evict
<1>12. ASSUME NEW s \in Sessions, Pump(s) PROVE Scenes'
  <2>1. s \in Threads /\ s \in Closers BY Names
  <2> QED BY <1>4, <1>5, <1>7, <1>8, <1>9, <1>10, <1>11, <1>12, <2>1
        DEF Pump, Close, Emit, Put, Unregister, Last, CutTest, CutSet
<1>13. CASE Handle
  BY <1>7, <1>8, <1>11, <1>13, Names
  DEF Handle, Close, Listen, LiveSessions, StartEach, Ready, Get, Write, Stop
<1>14. CASE Keepalive BY <1>7, <1>11, <1>14, Names DEF Keepalive, Beat
<1>15. CASE Environment BY <1>2, <1>3, <1>6, <1>7, <1>15 DEF Environment, Disconnect, Stalls, Reads
<1>16. CASE UNCHANGED vars BY <1>7, <1>16 DEF vars, births, session
<1> QED BY <1>6, <1>12, <1>13, <1>14, <1>15, <1>16 DEF Next

\* What a pump puts into the queue is an event.
LEMMA PutsEvents ==
  ASSUME Places, NEW s \in Sessions, pc[s] = "put" PROVE hand[s] \in Events
<1>1. hand[s] \in Outputs(s) \cup {Exit(s)} BY DEF Places, PlaceOK, Hands
<1> QED BY <1>1 DEF Outputs, Events

\* The event that the handler writes, if it is not the ready frame, is of a session.
LEMMA WritesOfSession ==
  ASSUME Typed, frame # None
  PROVE  /\ frame \in Events /\ frame.of \in Sessions
         /\ IsOut(frame, frame.of) \/ IsExit(frame, frame.of)
         /\ frame.kind = "output" => frame.to \in 1..MaxOutput
<1>1. frame # None /\ frame \in Events BY DEF Typed, Places, Stream
<1>2. CASE \E s \in Sessions : frame = Exit(s)
  BY <1>1, <1>2, Kinds DEF IsOut, IsExit
<1>3. CASE frame \in [kind : {"output"}, of : Sessions, from : 1..MaxOutput, to : 1..MaxOutput]
  BY <1>1, <1>3 DEF IsOut
<1> QED BY <1>1, <1>2, <1>3 DEF Events

\* What a view is after a frame was painted.
LEMMA Painted ==
  ASSUME NEW v \in [last : 0..MaxOutput, gap : BOOLEAN, over : BOOLEAN], NEW e,
         e.kind = "output" => e.to \in 1..MaxOutput
  PROVE  /\ Paint(v, e) \in [last : 0..MaxOutput, gap : BOOLEAN, over : BOOLEAN]
         /\ Paint(v, e).last = IF e.kind = "output" THEN e.to ELSE v.last
         /\ Paint(v, e).gap = (v.gap \/ (e.kind = "output" /\ e.from # v.last + 1))
         /\ Paint(v, e).over = (v.over \/ e.kind = "exit")
<1>1. MaxOutput \in Nat BY StreamAssumption
<1> QED BY <1>1 DEF Paint

\* The fields of the stream, the threads' lists and the browser's page keep their types.
LEMMA StreamStep == ASSUME Typed, [Next]_vars PROVE Stream'
<1> USE DEF Typed
<1>a. MaxOutput \in Nat /\ Capacity \in Nat /\ Slack \in Nat BY StreamAssumption
<1>b. None \in Events BY DEF Events
<1>c. queue \in Seq(Events) /\ Len(queue) <= Capacity BY DEF Stream
<1>1. ASSUME UNCHANGED <<queue, flags, started, subs, got, closing, page>> PROVE Stream'
  BY <1>1 DEF Stream, flags, closing, page
<1>2. ASSUME NEW s, s \in Sessions, UNCHANGED <<queue, flags, subs, got, closing, page>>,
             StartPump(s) \/ UNCHANGED <<started, pc>>
      PROVE Stream'
  BY <1>2 DEF Stream, StartPump, flags, closing, page
<1>3. ASSUME NEW s \in Sessions, Attach(s) \/ RegisterPump(s) \/ Unregister(s) PROVE Stream'
  BY <1>3 DEF Attach, RegisterPump, Unregister, Stream, flags, closing, page, pump
<1>4. ASSUME NEW s \in Sessions, Put(s) PROVE Stream'
  <2>1. hand[s] \in Events BY <1>4, PutsEvents DEF Put, Go
  <2>2. queue' \in Seq(Events) /\ Len(queue') <= Capacity
    <3>1. CASE Len(queue) < Capacity
      <4>1. queue' = Append(queue, hand[s]) BY <1>4, <3>1 DEF Put
      <4> QED BY <1>a, <1>c, <2>1, <3>1, <4>1
    <3>2. CASE ~(Len(queue) < Capacity) BY <1>4, <1>c, <3>2 DEF Put
    <3> QED BY <3>1, <3>2
  <2> QED BY <1>4, <2>2 DEF Put, Stream, flags, closing, page
<1>5. ASSUME NEW s \in Sessions, CutSet(s) PROVE Stream'
  BY <1>5 DEF CutSet, Stream, closing, page, pump
<1>6. ASSUME NEW t \in Closers, Shut(t) \/ Collect(t) PROVE Stream'
  BY <1>6, Names DEF Shut, Collect, Stream, flags, closing, page, pump
<1>7. ASSUME NEW t \in Closers, Detach(t) PROVE Stream'
  <2>1. CASE todo[t] = {}
    <3>1. tries' = [tries EXCEPT ![t] = Capacity + Slack] BY <1>7, <2>1 DEF Detach
    <3>3. Capacity + Slack \in 0..Capacity + Slack BY <1>a
    <3>2. tries' \in [Threads -> 0..Capacity + Slack] BY <3>1, <3>3 DEF Stream
    <3> QED BY <1>7, <2>1, <3>2 DEF Detach, Stream, flags, page, pump
  <2>2. CASE todo[t] # {}
    <3>1. PICK s \in todo[t] : todo' = [todo EXCEPT ![t] = todo[t] \ {s}] /\ UNCHANGED tries
      BY <1>7, <2>2 DEF Detach
    <3>2. todo[t] \subseteq Sessions BY DEF Stream
    <3> QED BY <1>7, <3>1, <3>2 DEF Detach, Stream, flags, page, pump
  <2> QED BY <2>1, <2>2
<1>8. ASSUME NEW t \in Threads, Wake(t) PROVE Stream'
  <2>1. tries[t] \in 0..Capacity + Slack BY DEF Stream
  <2>2. tries' \in [Threads -> 0..Capacity + Slack]
    <3>1. CASE tries' = tries BY <3>1 DEF Stream
    <3>2. CASE tries' = [tries EXCEPT ![t] = 0] BY <1>a, <3>2 DEF Stream
    <3>3. CASE tries' = [tries EXCEPT ![t] = tries[t] - 1] /\ tries[t] # 0
      <4>1. tries[t] - 1 \in 0..Capacity + Slack BY <1>a, <2>1, <3>3
      <4> QED BY <3>3, <4>1 DEF Stream
    <3> QED BY <1>8, <3>1, <3>2, <3>3 DEF Wake
  <2>3. queue' \in Seq(Events) /\ Len(queue') <= Capacity BY <1>8, <1>a, <1>b, <1>c DEF Wake
  <2> QED BY <1>8, <2>2, <2>3 DEF Wake, Stream, flags, page, pump
<1>9. ASSUME NEW t \in Threads, Evict(t) PROVE Stream'
  <2>1. queue' \in Seq(Events) /\ Len(queue') <= Capacity BY <1>9, <1>a, <1>c DEF Evict
  <2> QED BY <1>9, <2>1 DEF Evict, Stream, flags, page, pump, closing
<1>10. CASE Listen \/ LiveSessions \/ Ready \/ Stop
  <2>1. CASE Listen BY <2>1 DEF Listen, Stream, closing, page, pump
  <2>2. CASE LiveSessions
    BY <2>2, Names DEF LiveSessions, Stream, flags, page, pump
  <2>3. CASE Ready BY <1>1, <2>3 DEF Ready, pump
  <2>4. CASE Stop BY <2>4 DEF Stop, Stream, flags, closing, pump
  <2> QED BY <1>10, <2>1, <2>2, <2>3, <2>4
<1>11. CASE StartEach
  <2>1. PICK s \in todo[Handler] :
          StartPump(s) /\ todo' = [todo EXCEPT ![Handler] = todo[Handler] \ {s}]
    BY <1>11 DEF StartEach
  <2>2. s \in Sessions /\ todo[Handler] \subseteq Sessions BY Names DEF Stream
  <2> QED BY <1>11, <2>1, <2>2 DEF StartEach, StartPump, Stream, flags, page, pump
<1>12. CASE Get
  <2>1. queue # <<>> /\ queue' = Tail(queue) /\ frame' = Head(queue) BY <1>12 DEF Get
  <2>2. queue' \in Seq(Events) /\ Len(queue') <= Capacity /\ frame' \in Events
    BY <1>a, <1>c, <2>1
  <2> QED BY <1>12, <2>2 DEF Get, Stream, flags, page, pump, closing
<1>13. CASE Sent \/ Raised \/ Waits
  <2>1. shown' \in [Sessions -> [last : 0..MaxOutput, gap : BOOLEAN, over : BOOLEAN]]
    <3>1. CASE shown' = shown BY <3>1 DEF Stream
    <3>2. CASE frame # None /\ shown' = [shown EXCEPT ![frame.of] = Paint(shown[frame.of], frame)]
      <4>1. frame.of \in Sessions /\ (frame.kind = "output" => frame.to \in 1..MaxOutput)
        BY <3>2, WritesOfSession
      <4>2. shown[frame.of] \in [last : 0..MaxOutput, gap : BOOLEAN, over : BOOLEAN]
        BY <4>1 DEF Stream
      <4>3. Paint(shown[frame.of], frame)
              \in [last : 0..MaxOutput, gap : BOOLEAN, over : BOOLEAN]
        BY <4>1, <4>2, Painted
      <4> QED BY <3>2, <4>3 DEF Stream
    <3> QED BY <1>13, <3>1, <3>2 DEF Sent, Raised, Waits, Paints
  <2>2. frame' \in Events BY <1>13, <1>b DEF Sent, Raised, Waits, Stream
  <2>3. Untouched BY <1>13 DEF Sent, Raised, Waits
  <2> QED BY <2>1, <2>2, <2>3 DEF Untouched, Stream, flags, pump, closing
<1>14. CASE Beat
  <2>1. tries' \in [Threads -> 0..Capacity + Slack] BY <1>14, <1>a, Names DEF Beat, Stream
  <2> QED BY <1>14, <2>1 DEF Beat, Stream, flags, pump, page
<1>15. CASE Disconnect BY <1>15 DEF Disconnect, Stream, flags, pump, closing
<1>16. ASSUME NEW s \in Sessions, Prints(s) \/ Finish(s) \/ Register(s) PROVE Stream'
  BY <1>1, <1>16 DEF Prints, Finish, Register, pump
<1>17. ASSUME NEW s \in Sessions, Announce(s) PROVE Stream'
  BY <1>2, <1>17 DEF Announce, pump
<1>18. ASSUME NEW s \in Sessions, Pump(s) PROVE Stream'
  <2>1. s \in Threads /\ s \in Closers BY Names
  <2> QED BY <1>1, <1>3, <1>4, <1>5, <1>6, <1>7, <1>8, <1>9, <1>18, <2>1
        DEF Pump, Close, Interrupt, Emit, Drain, DetachSelf, Last, CutTest, pump
<1>19. CASE Handle
  BY <1>6, <1>7, <1>8, <1>9, <1>10, <1>11, <1>12, <1>13, <1>19, Names, Writes
  DEF Handle, Close, Interrupt
<1>20. CASE Keepalive BY <1>8, <1>9, <1>14, <1>20, Names DEF Keepalive, Interrupt
<1>21. CASE UNCHANGED vars BY <1>1, <1>21 DEF vars, flags, closing, page
<1> QED BY <1>13, Writes, <1>15, <1>16, <1>17, <1>18, <1>19, <1>20, <1>21 DEF Next, Environment

\* Where a pump goes on after it has emitted or cut.
LEMMA Resumes ==
  ASSUME NEW s \in Sessions
  PROVE  /\ Resume(s) \in {"done", "release", "drain", "last"}
         /\ hand[s] = Cut(s) => Resume(s) = "release"
         /\ hand[s].kind = "exit" => Resume(s) = "done"
         /\ (hand[s].kind # "exit" /\ hand[s].kind # "cut") =>
              Resume(s) = IF s \in got THEN "drain" ELSE "last"
BY Kinds DEF Resume

\* A pump that moves on its own keeps every thread in its place.
LEMMA PumpMoves ==
  ASSUME Places, NEW s \in Sessions, NEW p, NEW h,
         pc' = [pc EXCEPT ![s] = p], hand' = [hand EXCEPT ![s] = h], UNCHANGED <<frame, started>>,
         PlaceOK(s, p, h, s \in started)
  PROVE  Places'
<1>1. s # Handler /\ s # Heartbeat /\ s \in Threads BY Names
<1>2. pc' \in [Threads -> Points] BY <1>1 DEF Places, PlaceOK, PumpPoints, Points, Tearing
<1>3. hand' \in [Sessions -> UNION {Hands(r) : r \in Sessions}]
  <2>1. h \in Hands(s) BY DEF PlaceOK
  <2>2. h \in UNION {Hands(r) : r \in Sessions} BY <2>1
  <2> QED BY <2>2 DEF Places
<1>4. pc'[Handler] = pc[Handler] /\ pc'[Heartbeat] = pc[Heartbeat] BY <1>1 DEF Places
<1>5. ASSUME NEW r \in Sessions PROVE PlaceOK(r, pc'[r], hand'[r], r \in started)
  <2>1. r \in Threads BY Names
  <2>2. CASE r = s BY <1>1, <2>2 DEF Places
  <2>3. CASE r # s BY <2>1, <2>3 DEF Places
  <2> QED BY <2>2, <2>3
<1> QED BY <1>2, <1>3, <1>4, <1>5 DEF Places

\* So does the handler or the heartbeat.
LEMMA OthersMove ==
  ASSUME Places, NEW t \in {Handler, Heartbeat}, NEW p,
         pc' = [pc EXCEPT ![t] = p], UNCHANGED <<hand, started>>,
         IF t = Handler
         THEN /\ p \in {"enter", "snapshot", "start", "get", "write", "parked"} \cup Gone
              /\ frame' # None => p \in {"write", "parked"}
         ELSE p \in {"none", "beat", "parked", "wake", "evict", "done"} /\ UNCHANGED frame
  PROVE  Places'
<1>1. Handler # Heartbeat /\ t \in Threads /\ t \notin Sessions BY Names
<1>2. p \in Points BY <1>1 DEF Points, Gone, Tearing
<1>3. pc' \in [Threads -> Points] BY <1>2 DEF Places
<1>4. ASSUME NEW r \in Sessions PROVE pc'[r] = pc[r]
  BY <1>1, Names DEF Places
<1>5. /\ t = Handler => pc'[Handler] = p /\ pc'[Heartbeat] = pc[Heartbeat]
      /\ t # Handler => pc'[Heartbeat] = p /\ pc'[Handler] = pc[Handler]
  BY <1>1, Names DEF Places
<1> QED BY <1>1, <1>3, <1>4, <1>5 DEF Places

\* A pump that is started is in its first place.
LEMMA PumpStarts ==
  ASSUME Places, NEW s \in Sessions, StartPump(s), UNCHANGED <<hand, frame>> PROVE Places'
<1>1. CASE UNCHANGED <<started, pc>> BY <1>1 DEF Places
<1>2. CASE s \notin started /\ started' = started \cup {s} /\ pc' = [pc EXCEPT ![s] = "attach"]
  <2>1. s # Handler /\ s # Heartbeat /\ s \in Threads BY Names
  <2>2. pc' \in [Threads -> Points] BY <1>2 DEF Places, Points
  <2>3. pc'[Handler] = pc[Handler] /\ pc'[Heartbeat] = pc[Heartbeat] BY <1>2, <2>1 DEF Places
  <2>4. PlaceOK(s, "attach", hand[s], TRUE)
    <3>1. hand[s] = None /\ hand[s] \in Hands(s) BY <1>2 DEF Places, PlaceOK
    <3>2. None # Cut(s) BY Kinds
    <3> QED BY <3>1, <3>2 DEF PlaceOK, PumpPoints
  <2>5. ASSUME NEW r \in Sessions PROVE PlaceOK(r, pc'[r], hand'[r], r \in started')
    <3>1. r \in Threads BY Names
    <3>2. CASE r = s
      <4>1. pc'[r] = "attach" /\ hand'[r] = hand[s] /\ (r \in started') = TRUE
        BY <1>2, <3>1, <3>2 DEF Places
      <4> QED BY <2>4, <3>2, <4>1
    <3>3. CASE r # s
      <4>1. pc'[r] = pc[r] /\ hand'[r] = hand[r] /\ (r \in started') = (r \in started)
        BY <1>2, <3>1, <3>3 DEF Places
      <4> QED BY <4>1 DEF Places
    <3> QED BY <3>2, <3>3
  <2> QED BY <2>2, <2>3, <2>5 DEF Places
<1> QED BY <1>1, <1>2 DEF StartPump

\* No thread leaves the places it can be in.
LEMMA PlacesStep == ASSUME Typed, [Next]_vars PROVE Places'
<1> USE DEF Typed
<1>1. ASSUME UNCHANGED <<pc, hand, frame, started>> PROVE Places'
  BY <1>1 DEF Places
<1>2. ASSUME NEW s \in Sessions, Attach(s) PROVE Places'
  <2> DEFINE h == IF out[s] > 0 THEN Output(s, 1, out[s]) ELSE None
  <2>1. out[s] \in 0..MaxOutput /\ MaxOutput \in Nat BY StreamAssumption DEF Scenes
  <2>2. h \in Outputs(s) \cup {None}
    BY <2>1 DEF Outputs, Output, Event
  <2>3. h # Cut(s) BY Kinds
  <2> HIDE DEF h
  <2>4. PlaceOK(s, pc[s], hand[s], s \in started) BY DEF Places
  <2>5. PlaceOK(s, "register", h, s \in started)
    BY <1>2, <2>2, <2>3, <2>4 DEF Attach, Go, PlaceOK, PumpPoints, Hands
  <2>6. hand' = [hand EXCEPT ![s] = h] BY <1>2 DEF Attach, h
  <2> QED BY <1>2, <2>5, <2>6, PumpMoves DEF Attach, Go, page
<1>3. ASSUME NEW s \in Sessions, NEW p, pc' = [pc EXCEPT ![s] = p],
             PlaceOK(s, p, hand[s], s \in started), UNCHANGED <<hand, frame, started>>
      PROVE Places'
  <2>1. hand' = [hand EXCEPT ![s] = hand[s]] BY <1>3 DEF Places
  <2> QED BY <1>3, <2>1, PumpMoves
<1>4. ASSUME NEW s \in Sessions,
             RegisterPump(s) \/ Emit(s) \/ Unregister(s) \/ DetachSelf(s) \/ CutTest(s) \/ CutSet(s)
      PROVE Places'
  <2>1. PlaceOK(s, pc[s], hand[s], s \in started) BY DEF Places
  <2> DEFINE p == pc'[s]
  <2>2. pc' = [pc EXCEPT ![s] = p] /\ UNCHANGED <<hand, frame, started>>
    BY <1>4, Names
    DEF RegisterPump, Emit, Unregister, DetachSelf, CutTest, CutSet, Go, Places, pump, page
  <2>3. PlaceOK(s, p, hand[s], s \in started)
    <3>1. /\ p = pc'[s] /\ s \in Threads /\ pc \in [Threads -> Points] BY Names DEF Places
    <3> HIDE DEF p
    <3>2. CASE RegisterPump(s)
      <4>1. pc[s] = "register" /\ p \in {"done", "emit"} BY <3>1, <3>2 DEF RegisterPump, Go
      <4>2. hand[s] \in Outputs(s) \cup {None} BY <2>1, <4>1 DEF PlaceOK
      <4>3. hand[s] # Cut(s) BY <4>2, Kinds DEF Outputs
      <4> QED BY <2>1, <4>1, <4>3 DEF PlaceOK, PumpPoints
    <3>3. CASE Emit(s) BY <2>1, <3>1, <3>3, Resumes, Kinds DEF Emit, Go, PlaceOK, PumpPoints
    <3>4. CASE Unregister(s) BY <2>1, <3>1, <3>4 DEF Unregister, Go, PlaceOK, PumpPoints
    <3>5. CASE DetachSelf(s)
      <4>1. /\ pc[s] = "detach self"
            /\ p = IF hand[s].kind = "cut" THEN "done" ELSE "last"
        BY <3>1, <3>5 DEF DetachSelf, Go
      <4>2. Cut(s).kind = "cut" BY Kinds
      <4> QED BY <2>1, <4>1, <4>2 DEF PlaceOK, PumpPoints
    <3>6. CASE CutTest(s) BY <2>1, <3>1, <3>6, Resumes DEF CutTest, Go, PlaceOK, PumpPoints
    <3>7. CASE CutSet(s) BY <2>1, <3>1, <3>7 DEF CutSet, Go, PlaceOK, PumpPoints, Tearing
    <3> QED BY <1>4, <3>2, <3>3, <3>4, <3>5, <3>6, <3>7
  <2> QED BY <1>3, <2>2, <2>3
<1>5. ASSUME NEW s \in Sessions, Put(s) PROVE Places'
  <2>1. PlaceOK(s, pc[s], hand[s], s \in started) BY DEF Places
  <2>2. CASE Len(queue) < Capacity
    <3>1. None # Cut(s) /\ None \in Hands(s) BY Kinds DEF Hands
    <3>2. PlaceOK(s, Resume(s), None, s \in started)
      BY <1>5, <2>1, <2>2, <3>1, Resumes DEF Put, Go, PlaceOK, PumpPoints
    <3> QED BY <1>5, <2>2, <3>2, PumpMoves DEF Put, Go, page
  <2>3. CASE ~(Len(queue) < Capacity)
    <3>1. PlaceOK(s, "cut", hand[s], s \in started)
      BY <1>5, <2>1, <2>3 DEF Put, Go, PlaceOK, PumpPoints
    <3> QED BY <1>5, <1>3, <2>3, <3>1 DEF Put, Go, page
  <2> QED BY <2>2, <2>3
<1>6. ASSUME NEW s \in Sessions, Drain(s) PROVE Places'
  <2>1. PlaceOK(s, pc[s], hand[s], s \in started) BY DEF Places
  <2>2. chan[s] \in Seq(Items) /\ chan[s] # <<>> BY <1>6 DEF Drain, Scenes
  <2>3. Head(chan[s]) \in Items BY <2>2
  <2> DEFINE item == Head(chan[s])
             p == CASE item.kind = "chunk" -> "emit"
                    [] item.kind = "DESYNC" -> "cut"
                    [] OTHER -> "release"
             h == CASE item.kind = "chunk" -> Output(s, item.n, item.n)
                    [] item.kind = "DESYNC" -> Cut(s)
                    [] OTHER -> None
  <2>4. item.kind = "chunk" => item.n \in 1..MaxOutput BY <2>3, Kinds DEF Items
  <2>5. pc[s] = "drain" /\ pc' = [pc EXCEPT ![s] = p] /\ hand' = [hand EXCEPT ![s] = h]
    BY <1>6 DEF Drain, Go
  <2> HIDE DEF item
  <2>6. CASE item.kind = "chunk"
    <3>1. p = "emit" /\ h = Output(s, item.n, item.n) BY <2>6
    <3>2. h \in Outputs(s) BY <2>4, <2>6, <3>1 DEF Outputs, Output, Event
    <3>3. h # Cut(s) BY <3>1, Kinds
    <3> QED BY <2>1, <2>5, <3>1, <3>2, <3>3, <1>6, PumpMoves
            DEF PlaceOK, PumpPoints, Hands, Drain, page
  <2>7. CASE item.kind = "DESYNC"
    <3>1. p = "cut" /\ h = Cut(s) BY <2>7
    <3>2. PlaceOK(s, p, h, s \in started)
      BY <2>1, <2>5, <3>1, Kinds DEF PlaceOK, PumpPoints, Hands
    <3> QED BY <1>6, <2>5, <3>2, PumpMoves DEF Drain, page
  <2>8. CASE item.kind \notin {"chunk", "DESYNC"}
    <3>1. p = "release" /\ h = None BY <2>8
    <3>2. PlaceOK(s, p, h, s \in started)
      BY <2>1, <2>5, <3>1, Kinds DEF PlaceOK, PumpPoints, Hands
    <3> QED BY <1>6, <2>5, <3>2, PumpMoves DEF Drain, page
  <2> QED BY <2>6, <2>7, <2>8
<1>7. ASSUME NEW s \in Sessions, Last(s) PROVE Places'
  <2>1. PlaceOK(s, pc[s], hand[s], s \in started) BY DEF Places
  <2>2. Exit(s) # Cut(s) /\ Exit(s) \in Hands(s) BY Kinds DEF Hands
  <2>3. CASE s \in ended
    <3>1. PlaceOK(s, "emit", Exit(s), s \in started)
      BY <1>7, <2>1, <2>2, <2>3 DEF Last, Go, PlaceOK, PumpPoints
    <3> QED BY <1>7, <2>3, <3>1, PumpMoves DEF Last, Go, page
  <2>4. CASE s \notin ended
    <3>1. PlaceOK(s, "done", hand[s], s \in started)
      BY <1>7, <2>1, <2>4 DEF Last, Go, PlaceOK, PumpPoints
    <3> QED BY <1>3, <1>7, <2>4, <3>1 DEF Last, Go, page
  <2> QED BY <2>3, <2>4
<1>8. ASSUME NEW s \in Sessions, Close(s) \/ Interrupt(s) PROVE Places'
  <2>1. PlaceOK(s, pc[s], hand[s], s \in started) BY DEF Places
  <2>2. s # Handler /\ s # Heartbeat BY Names
  <2>3. PICK p \in Tearing \cup {Resume(s)} :
          pc' = [pc EXCEPT ![s] = p] /\ pc[s] \in Tearing
    BY <1>8, <2>2 DEF Close, Interrupt, Shut, Collect, Detach, Wake, Evict, Go, AfterWake,
                      AfterClose, Tearing
  <2>4. UNCHANGED <<hand, frame, started>>
    BY <1>8 DEF Close, Interrupt, Shut, Collect, Detach, Wake, Evict, pump, page
  <2>5. PlaceOK(s, p, hand[s], s \in started)
    BY <2>1, <2>3, Resumes DEF PlaceOK, PumpPoints, Tearing
  <2> QED BY <1>3, <2>3, <2>4, <2>5
<1>9. CASE Close(Handler) \/ Interrupt(Handler)
  <2>1. Handler # Heartbeat BY Names
  <2>2. PICK p \in Tearing \cup {"done"} :
          pc' = [pc EXCEPT ![Handler] = p] /\ pc[Handler] \in Tearing
    BY <1>9, <2>1 DEF Close, Interrupt, Shut, Collect, Detach, Wake, Evict, Go, AfterWake,
                      AfterClose, Tearing
  <2>3. UNCHANGED <<hand, frame, started>>
    BY <1>9 DEF Close, Interrupt, Shut, Collect, Detach, Wake, Evict, pump, page
  <2>4. frame = None /\ p \in Gone BY <2>2 DEF Places, Gone, Tearing
  <2> QED BY <2>2, <2>3, <2>4, OthersMove
<1>10. CASE Interrupt(Heartbeat) \/ Beat
  <2>1. PICK p \in {"wake", "evict", "done"} : pc' = [pc EXCEPT ![Heartbeat] = p]
    BY <1>10 DEF Interrupt, Beat, KeepaliveFails, Wake, Evict, Go, AfterWake
  <2>2. UNCHANGED <<hand, frame, started>> BY <1>10 DEF Interrupt, Beat, Wake, Evict, pump, page
  <2>3. Heartbeat # Handler BY Names
  <2> QED BY <2>1, <2>2, <2>3, OthersMove
<1>11. CASE Listen \/ LiveSessions \/ Get \/ Stop
  <2>1. PICK p : pc' = [pc EXCEPT ![Handler] = p] /\ p = pc'[Handler]
    BY <1>11, Names DEF Listen, LiveSessions, Get, Stop, Go, Places
  <2>2. UNCHANGED <<hand, started>>
    BY <1>11 DEF Listen, LiveSessions, Get, Stop, page, pump
  <2>3. /\ p \in {"enter", "snapshot", "start", "get", "write", "parked"} \cup Gone
        /\ frame' # None => p \in {"write", "parked"}
    <3>1. CASE Listen \/ LiveSessions \/ Stop
      BY <2>1, <3>1, Names DEF Listen, LiveSessions, Stop, Go, Places, page, Gone, Tearing
    <3>2. CASE Get BY <2>1, <3>2, Names DEF Get, Go, Places, Gone
    <3> QED BY <1>11, <3>1, <3>2
  <2> QED BY <2>1, <2>2, <2>3, OthersMove
<1>12. CASE StartEach
  <2>1. PICK s \in todo[Handler] : StartPump(s) BY <1>12 DEF StartEach
  <2>2. s \in Sessions BY <2>1, Names DEF Stream
  <2> QED BY <1>12, <2>1, <2>2, PumpStarts DEF StartEach, page, pump
<1>13. CASE Ready
  <2>1. Handler # Heartbeat /\ Handler \in Threads /\ Heartbeat \in Threads BY Names
  <2>2. /\ pc' = [pc EXCEPT ![Handler] = "write", ![Heartbeat] = "beat"]
        /\ pc[Handler] = "start" /\ UNCHANGED <<hand, frame, started>>
    BY <1>13 DEF Ready, pump, page
  <2>3. pc'[Handler] = "write" /\ pc'[Heartbeat] = "beat" BY <2>1, <2>2 DEF Places
  <2>4. frame' = None BY <2>2 DEF Places
  <2>5. pc' \in [Threads -> Points] BY <2>2 DEF Places, Points
  <2>6. ASSUME NEW s \in Sessions PROVE pc'[s] = pc[s] /\ hand'[s] = hand[s]
    BY <2>2, Names DEF Places
  <2> QED BY <2>2, <2>3, <2>4, <2>5, <2>6 DEF Places, Gone
<1>14. ASSUME NEW s \in Sessions, Announce(s) PROVE Places'
  BY <1>1, <1>14, PumpStarts DEF Announce, pump, page
<1>15. ASSUME NEW s \in Sessions, Prints(s) \/ Finish(s) \/ Register(s) PROVE Places'
  BY <1>1, <1>15 DEF Prints, Finish, Register, pump, page
<1>19. CASE Sent \/ Raised \/ Waits
  <2>1. UNCHANGED <<hand, started>>
    BY <1>19 DEF Sent, Raised, Waits, Untouched, pump
  <2>2. Handler # Heartbeat BY Names
  <2>3. CASE \/ Sent \/ Raised
             \/ Waits /\ pc[Handler] = "write" /\ pc' = [pc EXCEPT ![Handler] = "parked"]
    <3>1. PICK p \in {"get", "stop", "parked"} :
            pc' = [pc EXCEPT ![Handler] = p] /\ (p = "parked" \/ frame' = None)
      BY <2>3 DEF Sent, Raised
    <3>2. p \in {"enter", "snapshot", "start", "get", "write", "parked"} \cup Gone
      BY <3>1 DEF Gone
    <3> QED BY <2>1, <3>1, <3>2, OthersMove
  <2>4. CASE /\ Waits
             /\ \E p \in {"beat", "parked"} : pc' = [pc EXCEPT ![Heartbeat] = p]
    <3>1. UNCHANGED frame BY <2>4 DEF Waits
    <3> QED BY <2>1, <2>2, <2>4, <3>1, OthersMove
  <2> QED BY <1>19, <2>3, <2>4 DEF Waits
<1>16. CASE Disconnect BY <1>1, <1>16 DEF Disconnect, pump
<1>17. ASSUME NEW s \in Sessions, Pump(s) PROVE Places'
  BY <1>2, <1>4, <1>5, <1>6, <1>7, <1>8, <1>17 DEF Pump
<1>18. CASE UNCHANGED vars BY <1>1, <1>18 DEF vars
<1> QED BY <1>9, <1>10, <1>11, <1>12, <1>13, <1>14, <1>15, <1>16, <1>17, <1>18, <1>19, Writes
        DEF Next, Environment, Handle, Keepalive

\* What the threads hold, what is queued and what the browser was sent have their types in
\* every reachable state.
THEOREM TypedInductive == Spec => []Typed
<1>1. Init => Typed
  <2> SUFFICES ASSUME Init PROVE Typed OBVIOUS
  <2>1. MaxOutput \in Nat /\ Limit \in Nat /\ Capacity \in Nat /\ Slack \in Nat
    BY StreamAssumption
  <2>2. Scenes BY <2>1 DEF Init, Scenes
  <2>3. None \in Events BY DEF Events
  <2>4. Stream
    <3>1. queue \in Seq(Events) /\ Len(queue) = 0 BY DEF Init
    <3>2. tries \in [Threads -> 0..Capacity + Slack] BY <2>1 DEF Init
    <3>3. shown \in [Sessions -> [last : 0..MaxOutput, gap : BOOLEAN, over : BOOLEAN]]
      BY <2>1 DEF Init
    <3>4. todo \in [Closers -> SUBSET Sessions] BY DEF Init
    <3>5. /\ closed \in BOOLEAN /\ desynced \in BOOLEAN /\ listening \in BOOLEAN
          /\ beating \in BOOLEAN /\ connected \in BOOLEAN /\ frame \in Events
      BY <2>3 DEF Init
    <3>6. started = {} /\ subs = {} /\ got = {} BY DEF Init
    <3> QED BY <2>1, <3>1, <3>2, <3>3, <3>4, <3>5, <3>6 DEF Stream
  <2>5. ASSUME NEW s \in Sessions PROVE PlaceOK(s, pc[s], hand[s], s \in started)
    <3>1. pc[s] = "none" /\ hand[s] = None /\ s \notin started BY Names DEF Init
    <3>2. None # Cut(s) BY Kinds
    <3> QED BY <3>1, <3>2 DEF PlaceOK, PumpPoints, Hands
  <2>6. hand \in [Sessions -> UNION {Hands(s) : s \in Sessions}] BY <2>5 DEF Init, PlaceOK
  <2>7. Places BY <2>5, <2>6, Names DEF Init, Places, Points
  <2> QED BY <2>2, <2>4, <2>7 DEF Typed
<1>2. Typed /\ [Next]_vars => Typed' BY ScenesStep, StreamStep, PlacesStep DEF Typed
<1> QED BY <1>1, <1>2, PTL DEF Spec

-----------------------------------------------------------------------------
(* The events of a session, put, taken and painted.                        *)

\* An output event stands for a range of chunks.
LEMMA Ranges ==
  ASSUME NEW e \in Events, NEW s, IsOut(e, s) PROVE e.from \in Nat /\ e.to \in Nat
<1>1. MaxOutput \in Nat /\ e.kind = "output" BY StreamAssumption DEF IsOut
<1>2. e \in [kind : {"output"}, of : Sessions, from : 1..MaxOutput, to : 1..MaxOutput]
  BY <1>1, Kinds DEF Events
<1> QED BY <1>1, <1>2

\* What is put behind a queue leaves its events where they were.
LEMMA Appended ==
  ASSUME NEW q \in Seq(Events), NEW e
  PROVE  /\ Len(Append(q, e)) = Len(q) + 1 /\ Len(q) \in Nat
         /\ Append(q, e)[Len(q) + 1] = e
         /\ \A i \in 1..Len(q) : Append(q, e)[i] = q[i]
         /\ \A i \in 1..Len(q) + 1 : i \in 1..Len(q) \/ i = Len(q) + 1
OBVIOUS

\* What is taken from its front leaves the others in their order.
LEMMA Taken ==
  ASSUME NEW q \in Seq(Events), q # <<>>
  PROVE  /\ Len(Tail(q)) = Len(q) - 1 /\ Len(q) \in Nat \ {0} /\ Head(q) = q[1]
         /\ Tail(q) \in Seq(Events) /\ Head(q) \in Events
         /\ \A i \in 1..Len(Tail(q)) : Tail(q)[i] = q[i + 1]
OBVIOUS

\* An event that is no output of the session changes nothing of what its others stand for.
LEMMA CoversOther ==
  ASSUME NEW q \in Seq(Events), NEW e, NEW s, ~IsOut(e, s), NEW b, NEW t, Covers(q, s, b, t)
  PROVE  Covers(Append(q, e), s, b, t)
<1> DEFINE r == Append(q, e)
<1>1. /\ Len(r) = Len(q) + 1 /\ Len(q) \in Nat
      /\ \A i \in 1..Len(q) : r[i] = q[i]
      /\ \A i \in 1..Len(r) : IsOut(r[i], s) => i \in 1..Len(q)
  BY Appended
<1> HIDE DEF r
<1>2. \A i \in 1..Len(q) : i \in 1..Len(r) BY <1>1
<1> QED BY <1>1, <1>2 DEF Covers

\* The next chunks, put behind, extend what the queue stands for.
LEMMA CoversOwn ==
  ASSUME NEW q \in Seq(Events), NEW e, NEW s, NEW b \in Nat, NEW t \in Nat, NEW m \in Nat,
         Covers(q, s, b, t), IsOut(e, s), e.from = t + 1, e.to = m, t < m
  PROVE  Covers(Append(q, e), s, b, m)
<1> DEFINE r == Append(q, e)
           z == Len(q) + 1
<1>1. /\ Len(r) = z /\ r[z] = e /\ Len(q) \in Nat
      /\ \A i \in 1..Len(q) : r[i] = q[i]
      /\ \A i \in 1..Len(r) : i \in 1..Len(q) \/ i = z
  BY Appended
<1> HIDE DEF r
<1>2. \A i \in 1..Len(q) : IsOut(q[i], s) => q[i].from \in Nat /\ q[i].to \in Nat
  <2> SUFFICES ASSUME NEW i \in 1..Len(q) PROVE q[i] \in Events BY Ranges
  <2> QED OBVIOUS
<1>3. \A i \in 1..Len(q) : IsOut(q[i], s) =>
        b < q[i].from /\ q[i].from <= q[i].to /\ q[i].to <= t
  BY DEF Covers
<1>4. b <= t BY DEF Covers
<1>5. ASSUME NEW i \in 1..Len(r), IsOut(r[i], s)
      PROVE  b < r[i].from /\ r[i].from <= r[i].to /\ r[i].to <= m
  <2>1. CASE i \in 1..Len(q) BY <1>1, <1>2, <1>3, <1>5, <2>1
  <2>2. CASE i = z BY <1>1, <1>4, <2>2
  <2> QED BY <1>1, <2>1, <2>2
<1>6. ASSUME NEW i \in 1..Len(r), NEW j \in 1..Len(r), i < j, IsOut(r[i], s), IsOut(r[j], s)
      PROVE  r[i].to < r[j].from
  <2>1. i \in 1..Len(q) BY <1>1, <1>6
  <2>2. CASE j \in 1..Len(q) BY <1>1, <1>6, <2>1, <2>2 DEF Covers
  <2>3. CASE j = z BY <1>1, <1>2, <1>3, <1>6, <2>1, <2>3
  <2> QED BY <1>1, <2>2, <2>3
<1>7. ASSUME NEW n \in b + 1..m
      PROVE  \E i \in 1..Len(r) : IsOut(r[i], s) /\ r[i].from <= n /\ n <= r[i].to
  <2>1. CASE n <= t
    <3>1. n \in b + 1..t BY <2>1
    <3>2. PICK i \in 1..Len(q) : IsOut(q[i], s) /\ q[i].from <= n /\ n <= q[i].to
      BY <3>1 DEF Covers
    <3>3. i \in 1..Len(r) /\ r[i] = q[i] BY <1>1
    <3> QED BY <3>2, <3>3
  <2>2. CASE ~(n <= t)
    <3>1. z \in 1..Len(r) /\ r[z].from <= n /\ n <= r[z].to BY <1>1, <2>2
    <3> QED BY <1>1, <3>1
  <2> QED BY <2>1, <2>2
<1>8. b <= m BY <1>4
<1> QED BY <1>5, <1>6, <1>7, <1>8 DEF Covers, r

\* What is taken from the front is the next of its session's chunks.
LEMMA CoversTail ==
  ASSUME NEW q \in Seq(Events), q # <<>>, NEW s, NEW b \in Nat, NEW t \in Nat, Covers(q, s, b, t)
  PROVE  /\ IsOut(Head(q), s) =>
              /\ Head(q).from = b + 1 /\ Head(q).from <= Head(q).to /\ Head(q).to \in Nat
              /\ Covers(Tail(q), s, Head(q).to, t)
         /\ ~IsOut(Head(q), s) => Covers(Tail(q), s, b, t)
<1> DEFINE r == Tail(q)
           e == Head(q)
<1>1. /\ Len(r) = Len(q) - 1 /\ Len(q) \in Nat \ {0} /\ e = q[1] /\ 1 \in 1..Len(q)
      /\ \A i \in 1..Len(r) : i + 1 \in 1..Len(q) /\ r[i] = q[i + 1]
  BY Taken
<1> HIDE DEF r, e
<1>2. \A i \in 1..Len(q) : IsOut(q[i], s) =>
        /\ q[i].from \in Nat /\ q[i].to \in Nat
        /\ b < q[i].from /\ q[i].from <= q[i].to /\ q[i].to <= t
  <2>1. \A i \in 1..Len(q) : q[i] \in Events OBVIOUS
  <2> QED BY <2>1, Ranges DEF Covers
<1>3. \A i, j \in 1..Len(q) : (i < j /\ IsOut(q[i], s) /\ IsOut(q[j], s)) => q[i].to < q[j].from
  BY DEF Covers
<1>4. \A i, j \in 1..Len(r) : (i < j /\ IsOut(r[i], s) /\ IsOut(r[j], s)) => r[i].to < r[j].from
  <2> SUFFICES ASSUME NEW i \in 1..Len(r), NEW j \in 1..Len(r), i < j,
                      IsOut(r[i], s), IsOut(r[j], s)
               PROVE  r[i].to < r[j].from
    OBVIOUS
  <2>1. i + 1 \in 1..Len(q) /\ j + 1 \in 1..Len(q) /\ i + 1 < j + 1 BY <1>1
  <2> QED BY <1>1, <1>3, <2>1
<1>5. \A n \in b + 1..t : \E i \in 1..Len(q) : IsOut(q[i], s) /\ q[i].from <= n /\ n <= q[i].to
  BY DEF Covers
<1>6. ASSUME NEW n, NEW i \in 1..Len(q), i # 1, IsOut(q[i], s), q[i].from <= n, n <= q[i].to
      PROVE  \E k \in 1..Len(r) : IsOut(r[k], s) /\ r[k].from <= n /\ n <= r[k].to
  <2>1. i - 1 \in 1..Len(r) /\ (i - 1) + 1 = i BY <1>1, <1>6
  <2>2. r[i - 1] = q[i] BY <1>1, <2>1
  <2> QED BY <1>6, <2>1, <2>2
<1>7. ASSUME IsOut(e, s)
      PROVE  /\ e.from = b + 1 /\ e.from <= e.to /\ e.to \in Nat /\ Covers(r, s, e.to, t)
  <2>1. e.from \in Nat /\ e.to \in Nat /\ b < e.from /\ e.from <= e.to /\ e.to <= t
    BY <1>1, <1>2, <1>7
  <2>2. \A i \in 1..Len(q) : (i # 1 /\ IsOut(q[i], s)) => e.to < q[i].from
    <3> SUFFICES ASSUME NEW i \in 1..Len(q), i # 1, IsOut(q[i], s) PROVE e.to < q[i].from
      OBVIOUS
    <3>1. 1 < i OBVIOUS
    <3> QED BY <1>1, <1>3, <1>7, <3>1
  <2>3. e.from = b + 1
    <3>1. b + 1 \in b + 1..t BY <2>1
    <3>2. PICK i \in 1..Len(q) : IsOut(q[i], s) /\ q[i].from <= b + 1 /\ b + 1 <= q[i].to
      BY <1>5, <3>1
    <3>3. i = 1
      <4> SUFFICES ASSUME i # 1 PROVE FALSE OBVIOUS
      <4>1. e.to < q[i].from /\ q[i].from \in Nat BY <1>2, <2>2, <3>2
      <4> QED BY <2>1, <3>2, <4>1
    <3> QED BY <1>1, <2>1, <3>2, <3>3
  <2>4. \A i \in 1..Len(r) : IsOut(r[i], s) =>
          e.to < r[i].from /\ r[i].from <= r[i].to /\ r[i].to <= t
    <3> SUFFICES ASSUME NEW i \in 1..Len(r), IsOut(r[i], s)
                 PROVE  e.to < r[i].from /\ r[i].from <= r[i].to /\ r[i].to <= t
      OBVIOUS
    <3>1. i + 1 \in 1..Len(q) /\ i + 1 # 1 /\ r[i] = q[i + 1] BY <1>1
    <3> QED BY <1>2, <2>2, <3>1
  <2>5. ASSUME NEW n \in e.to + 1..t
        PROVE  \E i \in 1..Len(r) : IsOut(r[i], s) /\ r[i].from <= n /\ n <= r[i].to
    <3>1. n \in b + 1..t /\ ~(n <= e.to) BY <2>1
    <3>2. PICK i \in 1..Len(q) : IsOut(q[i], s) /\ q[i].from <= n /\ n <= q[i].to
      BY <1>5, <3>1
    <3>3. i # 1 BY <1>1, <3>1, <3>2
    <3> QED BY <1>6, <3>2, <3>3
  <2>6. Covers(r, s, e.to, t) BY <1>4, <2>1, <2>4, <2>5 DEF Covers
  <2> QED BY <2>1, <2>3, <2>6
<1>8. ASSUME ~IsOut(e, s) PROVE Covers(r, s, b, t)
  <2>1. \A i \in 1..Len(r) : IsOut(r[i], s) =>
          b < r[i].from /\ r[i].from <= r[i].to /\ r[i].to <= t
    BY <1>1, <1>2
  <2>2. ASSUME NEW n \in b + 1..t
        PROVE  \E i \in 1..Len(r) : IsOut(r[i], s) /\ r[i].from <= n /\ n <= r[i].to
    <3>1. PICK i \in 1..Len(q) : IsOut(q[i], s) /\ q[i].from <= n /\ n <= q[i].to BY <1>5
    <3>2. i # 1 BY <1>1, <1>8, <3>1
    <3> QED BY <1>6, <3>1, <3>2
  <2>3. b <= t BY DEF Covers
  <2> QED BY <1>4, <2>1, <2>2, <2>3 DEF Covers
<1> QED BY <1>7, <1>8 DEF r, e

\* A queue without the session's output stands for none of its chunks.
LEMMA CoversNone ==
  ASSUME NEW q, NEW s, NEW b \in Nat, NEW t \in Nat, Covers(q, s, b, t),
         \A i \in 1..Len(q) : ~IsOut(q[i], s)
  PROVE  b = t
<1>1. b <= t BY DEF Covers
<1>2. b < t => b + 1 \in b + 1..t OBVIOUS
<1>3. ~(b < t) BY <1>2 DEF Covers
<1> QED BY <1>1, <1>3

-----------------------------------------------------------------------------
(* What a session's own steps do to what its pump brings.                   *)

\* A step leaves what the session and its pump have where it is.
Still(s) ==
  /\ pc'[s] = pc[s] /\ hand'[s] = hand[s] /\ chan'[s] = chan[s] /\ out'[s] = out[s]
  /\ (s \in got') = (s \in got) /\ (s \in viewed') = (s \in viewed)
  /\ (s \in ended') = (s \in ended)

\* A step leaves what is queued, taken and painted of the session.
Unsent(s) == queue' = queue /\ frame' = frame /\ shown'[s] = shown[s]

\* Who stands still brings what it brought.
LEMMA StillBrings ==
  ASSUME NEW s, Still(s)
  PROVE  /\ \A t : Brings(s, t)' <=> Brings(s, t)
         /\ Marked(s)' <=> Marked(s)
<1>1. ASSUME NEW t PROVE Brings(s, t)' <=> Brings(s, t) BY DEF Still, Brings
<1>2. Marked(s)' <=> Marked(s) BY DEF Still, Marked
<1> QED BY <1>1, <1>2

\* A step of the session that sends nothing, and that still brings what was to come, or
\* marks that it cannot, loses nothing untold.
LEMMA SoundMoves ==
  ASSUME NEW s \in Sessions, Sound(s), Unsent(s), pc[s] # "done",
         out[s] \in Nat, out'[s] \in Nat, out[s] <= out'[s],
         \A t \in 0..out[s] : Brings(s, t) => Brings(s, t)' \/ Marked(s)',
         Marked(s) => Marked(s)'
  PROVE  Sound(s)'
<1>1. Exiting(s)' <=> Exiting(s) BY DEF Exiting, Unsent
<1>2. Base(s)' = Base(s) BY DEF Base, Unsent
<1>3. CASE Whole(s)
  <2>1. ~Exiting(s) BY <1>3 DEF Whole
  <2>2. PICK t \in 0..out[s] : Covers(queue, s, Base(s), t) /\ Brings(s, t) BY <1>3 DEF Whole
  <2>3. CASE Brings(s, t)'
    <3>1. t \in 0..out'[s] OBVIOUS
    <3>2. Covers(queue', s, Base(s)', t) /\ Brings(s, t)'
      BY <1>2, <2>2, <2>3 DEF Unsent
    <3>3. /\ ~shown'[s].gap
          /\ IsOut(frame', s) => frame'.from = shown'[s].last + 1 /\ frame'.from <= frame'.to
          /\ ExitLast(queue', s)
          /\ (shown'[s].over \/ IsExit(frame', s)) =>
               \A i \in 1..Len(queue') : ~IsOut(queue'[i], s)
      BY <1>3 DEF Whole, Unsent
    <3>4. Whole(s)' BY <1>1, <2>1, <3>1, <3>2, <3>3 DEF Whole
    <3> QED BY <3>4 DEF Sound
  <2>4. CASE Marked(s)' BY <1>1, <2>1, <2>4 DEF Sound
  <2> QED BY <2>2, <2>3, <2>4
<1>4. CASE ~Exiting(s) /\ Marked(s) BY <1>1, <1>4 DEF Sound
<1> QED BY <1>3, <1>4 DEF Sound

\* Where nothing of a session moves, nothing is lost.
LEMMA SoundStill == ASSUME NEW s, Sound(s), Still(s), Unsent(s) PROVE Sound(s)'
<1>1. \A t : Brings(s, t)' <=> Brings(s, t) BY StillBrings
<1>2. Marked(s)' <=> Marked(s) BY StillBrings
<1>3. Exiting(s)' <=> Exiting(s) BY DEF Exiting, Unsent
<1>4. Base(s)' = Base(s) BY DEF Base, Unsent
<1>5. CASE Whole(s)
  <2>1. PICK t \in 0..out[s] : Covers(queue, s, Base(s), t) /\ Brings(s, t) BY <1>5 DEF Whole
  <2>2. t \in 0..out'[s] /\ Covers(queue', s, Base(s)', t) /\ Brings(s, t)'
    BY <1>1, <1>4, <2>1 DEF Unsent, Still
  <2>3. /\ ~shown'[s].gap
        /\ IsOut(frame', s) => frame'.from = shown'[s].last + 1 /\ frame'.from <= frame'.to
        /\ ExitLast(queue', s)
        /\ (shown'[s].over \/ IsExit(frame', s)) =>
             \A i \in 1..Len(queue') : ~IsOut(queue'[i], s)
    BY <1>5 DEF Whole, Unsent
  <2>4. Exiting(s)' => pc'[s] = "done" BY <1>3, <1>5 DEF Whole, Still
  <2>5. Whole(s)' BY <2>2, <2>3, <2>4 DEF Whole
  <2> QED BY <2>5 DEF Sound
<1>6. CASE ~Exiting(s) /\ Marked(s) BY <1>2, <1>3, <1>6 DEF Sound
<1> QED BY <1>5, <1>6 DEF Sound

\* A pump that is through brings nothing more; one that met a DESYNC is not through.
LEMMA DoneIsThrough ==
  ASSUME NEW s, Sound(s), pc[s] \in {"release", "detach self", "last", "done"}
  PROVE  /\ Whole(s) /\ s \in ended /\ s \notin viewed /\ hand[s].kind # "cut"
         /\ ~Marked(s)
         /\ \A t : Brings(s, t) => t = out[s]
<1>1. ~Marked(s) BY DEF Marked
<1>2. Whole(s) BY <1>1 DEF Sound
<1>3. PICK t : Brings(s, t) BY <1>2 DEF Whole
<1>4. s \in ended /\ s \notin viewed /\ hand[s].kind # "cut" BY <1>3 DEF Brings
<1>5. \A u : Brings(s, u) => u = out[s] BY DEF Brings
<1> QED BY <1>1, <1>2, <1>4, <1>5

\* What a channel is.
LEMMA ChannelOf ==
  ASSUME Scenes, NEW s \in Sessions
  PROVE  /\ chan[s] \in Seq(Items) /\ Len(chan[s]) \in Nat /\ Len(chan[s]) <= Limit
         /\ Limit \in Nat \ {0}
         /\ out[s] \in Nat
BY StreamAssumption DEF Scenes

\* A channel that overflows keeps its chunks but for the first, and ends with the DESYNC.
LEMMA Overflows ==
  ASSUME NEW ch \in Seq(Items), Full(ch), \A i \in 1..Len(ch) : ch[i].kind = "chunk"
  PROVE  /\ ForceIn(ch, DESYNC) # <<>> /\ ForceIn(ch, DESYNC)[Len(ForceIn(ch, DESYNC))] = DESYNC
         /\ \A i \in 1..Len(ForceIn(ch, DESYNC)) - 1 : ForceIn(ch, DESYNC)[i].kind = "chunk"
<1>1. Limit \in Nat \ {0} BY StreamAssumption
<1> DEFINE tl == Tail(ch)
<1>2. /\ tl \in Seq(Items) /\ Len(tl) = Len(ch) - 1 /\ Len(ch) \in Nat \ {0}
      /\ \A i \in 1..Len(tl) : tl[i] = ch[i + 1]
  BY <1>1 DEF Full
<1>3. ForceIn(ch, DESYNC) = Append(tl, DESYNC) BY DEF ForceIn
<1> HIDE DEF tl
<1>4. \A i \in 1..Len(tl) : tl[i].kind = "chunk" BY <1>2
<1>5. DESYNC \in Items BY ItemsAre
<1>6. /\ Len(Append(tl, DESYNC)) = Len(tl) + 1 /\ Append(tl, DESYNC)[Len(tl) + 1] = DESYNC
      /\ \A i \in 1..Len(tl) : Append(tl, DESYNC)[i] = tl[i]
  BY <1>2, <1>5
<1> QED BY <1>2, <1>3, <1>4, <1>6

\* A channel that a viewer has holds chunks only.
LEMMA FlowsChunks ==
  ASSUME NEW ch \in Seq(Items), NEW m, NEW o, NEW en, Flows(ch, m, o, TRUE, en)
  PROVE  \A i \in 1..Len(ch) : ch[i].kind = "chunk"
BY Kinds DEF Flows

\* A chunk more, where there is room, is the next one of the channel.
LEMMA FlowsOn ==
  ASSUME NEW ch \in Seq(Items), NEW o \in Nat, NEW m \in 0..o, Flows(ch, m, o, TRUE, FALSE)
  PROVE  Flows(Append(ch, Bytes(o + 1)), m, o + 1, TRUE, FALSE)
<1>1. Len(ch) = o - m /\ \A i \in 1..Len(ch) : ch[i] = Bytes(m + i) BY DEF Flows
<1> DEFINE r == Append(ch, Bytes(o + 1))
<1>2. /\ Len(r) = Len(ch) + 1 /\ r[Len(ch) + 1] = Bytes(o + 1) /\ Len(ch) \in Nat
      /\ \A i \in 1..Len(ch) : r[i] = ch[i]
  OBVIOUS
<1> HIDE DEF r
<1>3. ASSUME NEW i \in 1..Len(r) PROVE r[i] = Bytes(m + i)
  <2>1. CASE i \in 1..Len(ch) BY <1>1, <1>2, <2>1
  <2>2. CASE i = Len(ch) + 1
    <3>1. m + i = o + 1 BY <1>1, <2>2
    <3> QED BY <1>2, <2>2, <3>1
  <2> QED BY <1>2, <2>1, <2>2
<1>4. Len(r) = (o + 1) - m BY <1>1, <1>2
<1> QED BY <1>3, <1>4 DEF Flows, r

\* The end, where there is room, closes the channel.
LEMMA FlowsOut ==
  ASSUME NEW ch \in Seq(Items), NEW o \in Nat, NEW m \in 0..o, Flows(ch, m, o, TRUE, FALSE)
  PROVE  Flows(Append(ch, END), m, o, FALSE, TRUE)
<1>1. Len(ch) = o - m /\ \A i \in 1..Len(ch) : ch[i] = Bytes(m + i) BY DEF Flows
<1> DEFINE r == Append(ch, END)
<1>2. /\ Len(r) = Len(ch) + 1 /\ r[Len(ch) + 1] = END /\ Len(ch) \in Nat
      /\ \A i \in 1..Len(ch) : r[i] = ch[i]
  OBVIOUS
<1> HIDE DEF r
<1>3. Len(r) = o - m + 1 /\ r[Len(r)] = END BY <1>1, <1>2
<1>4. \A i \in 1..Len(r) - 1 : r[i] = Bytes(m + i) BY <1>1, <1>2
<1> QED BY <1>3, <1>4 DEF Flows, r

\* A chunk that is printed goes to the end of what is to come, or the DESYNC does.
LEMMA PrintsSound ==
  ASSUME Typed, NEW s \in Sessions, Prints(s), Sound(s) PROVE Sound(s)'
<1>1. /\ chan[s] \in Seq(Items) /\ Len(chan[s]) \in Nat /\ Limit \in Nat \ {0} /\ out[s] \in Nat
      /\ chan \in [Sessions -> Seq(Items)] /\ out \in [Sessions -> 0..MaxOutput]
  BY ChannelOf DEF Typed, Scenes
<1>2. /\ s \notin ended /\ (s \in ended') = FALSE /\ out'[s] = out[s] + 1
      /\ pc' = pc /\ hand' = hand /\ got' = got /\ Unsent(s)
  BY <1>1 DEF Prints, pump, page, Unsent
<1>3. pc[s] # "done" BY <1>2, DoneIsThrough
<1>b. out'[s] \in Nat /\ out[s] <= out'[s] BY <1>1, <1>2
<1>4. CASE s \notin viewed
  <2>1. viewed' = viewed /\ chan' = chan BY <1>4 DEF Prints
  <2>2. \A t \in 0..out[s] : Brings(s, t) => Brings(s, t)'
    BY <1>1, <1>2, <1>4, <2>1 DEF Brings, Flows
  <2>3. Marked(s) => Marked(s)' BY <1>2, <2>1 DEF Marked
  <2> QED BY <1>1, <1>2, <1>3, <1>b, <2>2, <2>3, SoundMoves
<1>5. CASE s \in viewed /\ ~Full(chan[s])
  <2>1. viewed' = viewed /\ chan'[s] = Append(chan[s], Bytes(out[s] + 1))
    BY <1>1, <1>5 DEF Prints
  <2>2. ASSUME NEW m \in 0..out[s], Flows(chan[s], m, out[s], s \in viewed, s \in ended)
        PROVE  Flows(chan'[s], m, out'[s], s \in viewed', s \in ended')
    <3>1. Flows(chan[s], m, out[s], TRUE, FALSE) BY <1>2, <1>5, <2>2 DEF Flows
    <3>2. Flows(Append(chan[s], Bytes(out[s] + 1)), m, out[s] + 1, TRUE, FALSE)
      BY <1>1, <3>1, FlowsOn
    <3> QED BY <1>2, <1>5, <2>1, <3>2 DEF Flows
  <2>3. ASSUME NEW t \in 0..out[s], Brings(s, t) PROVE Brings(s, t)'
    <3>1. CASE pc[s] \in {"register", "emit", "put"}
      <4>1. PICK m \in t..out[s] :
              /\ Carries(hand[s], s, t, m)
              /\ s \in got /\ Flows(chan[s], m, out[s], s \in viewed, s \in ended)
        BY <1>2, <1>5, <2>3, <3>1 DEF Brings
      <4>2. m \in 0..out[s] /\ m \in t..out'[s] BY <1>1, <1>2
      <4>3. Flows(chan'[s], m, out'[s], s \in viewed', s \in ended') BY <2>2, <4>1, <4>2
      <4> QED BY <1>2, <3>1, <4>1, <4>2, <4>3 DEF Brings, Tearing
    <3>2. CASE pc[s] = "drain" BY <1>2, <2>2, <2>3, <3>2 DEF Brings, Tearing
    <3>3. CASE pc[s] \notin {"register", "emit", "put", "drain"}
      BY <1>2, <1>5, <2>3, <3>3 DEF Brings
    <3> QED BY <3>1, <3>2, <3>3
  <2>4. ~Marked(s) BY <1>5 DEF Marked
  <2> QED BY <1>1, <1>2, <1>3, <1>b, <2>3, <2>4, SoundMoves
<1>6. CASE s \in viewed /\ Full(chan[s])
  <2>1. s \notin viewed' /\ chan'[s] = ForceIn(chan[s], DESYNC) BY <1>1, <1>6 DEF Prints
  <2>2. ASSUME NEW t \in 0..out[s], Brings(s, t) PROVE Brings(s, t)' \/ Marked(s)'
    <3>1. ASSUME NEW m, Flows(chan[s], m, out[s], s \in viewed, s \in ended),
                 pc[s] \in {"register", "emit", "put", "drain"}, s \in got, ~IsExit(hand[s], s)
          PROVE  Marked(s)'
      <4>1. Flows(chan[s], m, out[s], TRUE, FALSE) BY <1>2, <1>6, <3>1 DEF Flows
      <4>2. \A i \in 1..Len(chan[s]) : chan[s][i].kind = "chunk" BY <1>1, <4>1, FlowsChunks
      <4>3. /\ chan'[s] # <<>> /\ chan'[s][Len(chan'[s])] = DESYNC
            /\ \A i \in 1..Len(chan'[s]) - 1 : chan'[s][i].kind = "chunk"
        BY <1>1, <1>6, <2>1, <4>2, Overflows
      <4> QED BY <1>2, <2>1, <3>1, <4>3 DEF Marked
    <3>2. CASE pc[s] \in {"register", "emit", "put"}
      <4>1. PICK m \in t..out[s] :
              /\ Carries(hand[s], s, t, m)
              /\ s \in got /\ Flows(chan[s], m, out[s], s \in viewed, s \in ended)
        BY <1>2, <1>6, <2>2, <3>2 DEF Brings
      <4>2. ~IsExit(hand[s], s) BY <4>1, Kinds DEF Carries, IsOut, IsExit
      <4> QED BY <3>1, <3>2, <4>1, <4>2
    <3>3. CASE pc[s] = "drain"
      <4>1. s \in got /\ hand[s] = None /\ Flows(chan[s], t, out[s], s \in viewed, s \in ended)
        BY <2>2, <3>3 DEF Brings
      <4>2. ~IsExit(hand[s], s) BY <4>1, Kinds DEF IsExit
      <4> QED BY <3>1, <3>3, <4>1, <4>2
    <3>4. CASE pc[s] \notin {"register", "emit", "put", "drain"}
      BY <1>2, <1>6, <2>2, <3>4 DEF Brings
    <3> QED BY <3>2, <3>3, <3>4
  <2>3. ~Marked(s) BY <1>6 DEF Marked
  <2> QED BY <1>1, <1>2, <1>3, <1>b, <2>2, <2>3, SoundMoves
<1> QED BY <1>4, <1>5, <1>6

\* The end of a session goes behind its chunks, or the DESYNC does.
LEMMA FinishSound ==
  ASSUME Typed, NEW s \in Sessions, Finish(s), Sound(s) PROVE Sound(s)'
<1>1. /\ chan[s] \in Seq(Items) /\ Len(chan[s]) \in Nat /\ Limit \in Nat \ {0} /\ out[s] \in Nat
      /\ chan \in [Sessions -> Seq(Items)]
  BY ChannelOf DEF Typed, Scenes
<1>2. /\ s \notin ended /\ s \in ended' /\ s \notin viewed' /\ out' = out
      /\ pc' = pc /\ hand' = hand /\ got' = got /\ Unsent(s)
  BY DEF Finish, pump, page, Unsent
<1>3. pc[s] # "done" BY <1>2, DoneIsThrough
<1>b. out'[s] \in Nat /\ out[s] <= out'[s] BY <1>1, <1>2
<1>4. ASSUME NEW t \in 0..out[s], Brings(s, t), pc[s] \notin {"register", "emit", "put", "drain"},
             chan'[s] = chan[s] \/ s \in viewed
      PROVE  Brings(s, t)'
  BY <1>2, <1>4 DEF Brings
<1>5. CASE s \notin viewed
  <2>1. chan'[s] = chan[s] BY <1>1, <1>5 DEF Finish
  <2>2. \A t \in 0..out[s] : Brings(s, t) => Brings(s, t)'
    BY <1>1, <1>2, <1>4, <1>5, <2>1 DEF Brings, Flows
  <2>3. Marked(s) => Marked(s)' BY <1>2, <2>1 DEF Marked
  <2> QED BY <1>1, <1>2, <1>3, <1>b, <2>2, <2>3, SoundMoves
<1>6. CASE s \in viewed
  <2>1. chan'[s] = ForceIn(chan[s], IF Full(chan[s]) THEN DESYNC ELSE END)
    BY <1>1, <1>6 DEF Finish
  <2>2. ~Marked(s) BY <1>6 DEF Marked
  <2>3. ASSUME NEW m \in 0..out[s], Flows(chan[s], m, out[s], s \in viewed, s \in ended),
               pc[s] \in {"register", "emit", "put", "drain"}, s \in got, ~IsExit(hand[s], s)
        PROVE  Flows(chan'[s], m, out'[s], s \in viewed', s \in ended') \/ Marked(s)'
    <3>1. Flows(chan[s], m, out[s], TRUE, FALSE) BY <1>2, <1>6, <2>3 DEF Flows
    <3>2. CASE Full(chan[s])
      <4>1. \A i \in 1..Len(chan[s]) : chan[s][i].kind = "chunk" BY <1>1, <3>1, FlowsChunks
      <4>2. /\ chan'[s] # <<>> /\ chan'[s][Len(chan'[s])] = DESYNC
            /\ \A i \in 1..Len(chan'[s]) - 1 : chan'[s][i].kind = "chunk"
        BY <1>1, <2>1, <3>2, <4>1, Overflows
      <4> QED BY <1>2, <2>3, <4>2 DEF Marked
    <3>3. CASE ~Full(chan[s])
      <4>1. chan'[s] = Append(chan[s], END) BY <2>1, <3>3 DEF ForceIn
      <4>2. Flows(Append(chan[s], END), m, out[s], FALSE, TRUE) BY <1>1, <3>1, FlowsOut
      <4> QED BY <1>2, <4>1, <4>2 DEF Flows
    <3> QED BY <3>2, <3>3
  <2>4. ASSUME NEW t \in 0..out[s], Brings(s, t) PROVE Brings(s, t)' \/ Marked(s)'
    <3>1. CASE pc[s] \in {"register", "emit", "put"}
      <4>1. PICK m \in t..out[s] :
              /\ Carries(hand[s], s, t, m)
              /\ s \in got /\ Flows(chan[s], m, out[s], s \in viewed, s \in ended)
        BY <1>2, <1>6, <2>4, <3>1 DEF Brings
      <4>2. m \in 0..out[s] /\ ~IsExit(hand[s], s)
        BY <1>1, <4>1, Kinds DEF Carries, IsOut, IsExit
      <4>3. CASE Flows(chan'[s], m, out'[s], s \in viewed', s \in ended')
        BY <1>2, <3>1, <4>1, <4>3 DEF Brings, Tearing
      <4> QED BY <2>3, <3>1, <4>1, <4>2, <4>3
    <3>2. CASE pc[s] = "drain"
      <4>1. s \in got /\ hand[s] = None /\ Flows(chan[s], t, out[s], s \in viewed, s \in ended)
        BY <2>4, <3>2 DEF Brings
      <4>2. ~IsExit(hand[s], s) BY <4>1, Kinds DEF IsExit
      <4>3. CASE Flows(chan'[s], t, out'[s], s \in viewed', s \in ended')
        BY <1>2, <3>2, <4>1, <4>3 DEF Brings, Tearing
      <4> QED BY <2>3, <3>2, <4>1, <4>2, <4>3
    <3>3. CASE pc[s] \notin {"register", "emit", "put", "drain"}
      BY <1>4, <1>6, <2>4, <3>3
    <3> QED BY <3>1, <3>2, <3>3
  <2> QED BY <1>1, <1>2, <1>3, <1>b, <2>2, <2>4, SoundMoves
<1> QED BY <1>5, <1>6

\* A pump that is started has everything still to bring.
LEMMA StartSound ==
  ASSUME Typed, NEW s \in Sessions, StartPump(s), Sound(s),
         UNCHANGED <<hand, got, chan, out, viewed, ended, queue, frame, shown>>
  PROVE  Sound(s)'
<1>1. CASE pc' = pc BY <1>1, SoundStill DEF Still, Unsent
<1>2. CASE s \notin started /\ pc' = [pc EXCEPT ![s] = "attach"]
  <2>1. pc[s] = "none" /\ pc'[s] = "attach" /\ out[s] \in Nat
    BY <1>2, Names, ChannelOf DEF Typed, Places, PlaceOK
  <2>2. \A t \in 0..out[s] : Brings(s, t) => Brings(s, t)' BY <2>1 DEF Brings, Tearing
  <2>3. ~Marked(s) BY <2>1 DEF Marked
  <2> QED BY <2>1, <2>2, <2>3, SoundMoves DEF Unsent
<1> QED BY <1>1, <1>2 DEF StartPump

\* The backlog is what was printed; the channel begins behind it.
LEMMA AttachSound ==
  ASSUME Typed, NEW s \in Sessions, Attach(s), Sound(s) PROVE Sound(s)'
<1>1. /\ chan[s] \in Seq(Items) /\ out[s] \in Nat /\ s \in Threads
      /\ hand \in [Sessions -> UNION {Hands(r) : r \in Sessions}] /\ pc \in [Threads -> Points]
  BY ChannelOf, Names DEF Typed, Places
<1>2. /\ pc[s] = "attach" /\ pc'[s] = "register" /\ out' = out /\ chan' = chan /\ ended' = ended
      /\ hand'[s] = IF out[s] > 0 THEN Output(s, 1, out[s]) ELSE None
      /\ Unsent(s)
  BY <1>1 DEF Attach, Go, session, page, Unsent
<1>3. ~Marked(s) BY <1>2 DEF Marked
<1>4. ASSUME NEW t \in 0..out[s], Brings(s, t) PROVE Brings(s, t)'
  <2>1. t = 0 /\ s \notin got /\ s \notin viewed /\ chan[s] = <<>> BY <1>2, <1>4 DEF Brings
  <2>2. Carries(hand'[s], s, t, out[s]) BY <1>1, <1>2, <2>1, Kinds DEF Carries, IsOut
  <2>3. CASE s \in ended
    <3>1. s \notin got' /\ s \notin viewed' /\ s \in ended' BY <1>2, <2>1, <2>3 DEF Attach
    <3>2. out[s] \in t..out'[s] BY <1>1, <1>2, <2>1
    <3> QED BY <1>2, <2>2, <3>1, <3>2 DEF Brings, Tearing
  <2>4. CASE s \notin ended
    <3>1. s \in got' /\ s \in viewed' /\ s \notin ended' BY <1>2, <2>4 DEF Attach
    <3>2. out[s] \in t..out'[s] BY <1>1, <1>2, <2>1
    <3>3. Flows(chan'[s], out[s], out'[s], s \in viewed', s \in ended')
      BY <1>1, <1>2, <2>1, <3>1 DEF Flows
    <3> QED BY <1>2, <2>2, <3>1, <3>2, <3>3 DEF Brings, Tearing
  <2> QED BY <2>3, <2>4
<1> QED BY <1>1, <1>2, <1>3, <1>4, SoundMoves

\* While nothing is closed, a pump takes what it brings from one place to the next.
LEMMA WalksSound ==
  ASSUME Typed, NEW s \in Sessions, ~closed, ~desynced, Sound(s),
         RegisterPump(s) \/ Emit(s) \/ Unregister(s) \/ DetachSelf(s) \/ Last(s) \/ CutTest(s)
  PROVE  Sound(s)'
<1>1. /\ out[s] \in Nat /\ s \in Threads /\ pc \in [Threads -> Points]
      /\ hand \in [Sessions -> UNION {Hands(r) : r \in Sessions}]
      /\ PlaceOK(s, pc[s], hand[s], s \in started)
  BY ChannelOf, Names DEF Typed, Places
<1>2. UNCHANGED <<out, ended, got, queue, frame, shown>>
  BY DEF RegisterPump, Emit, Unregister, DetachSelf, Last, CutTest, session, pump, page
<1>3. Unsent(s) /\ out'[s] \in Nat /\ out[s] <= out'[s] BY <1>1, <1>2 DEF Unsent
<1>4. CASE RegisterPump(s)
  <2>1. pc[s] = "register" /\ pc'[s] = "emit" /\ UNCHANGED <<hand, chan, viewed>>
    BY <1>1, <1>4 DEF RegisterPump, Go, pump
  <2>2. \A t \in 0..out[s] : Brings(s, t) => Brings(s, t)' BY <1>2, <2>1 DEF Brings, Tearing
  <2>3. Marked(s) => Marked(s)' BY <1>2, <2>1 DEF Marked
  <2> QED BY <1>1, <1>3, <2>1, <2>2, <2>3, SoundMoves
<1>5. CASE Emit(s)
  <2>1. /\ pc[s] = "emit" /\ UNCHANGED <<hand, chan, viewed>>
        /\ pc'[s] = IF hand[s] = None THEN Resume(s) ELSE "put"
    BY <1>1, <1>5 DEF Emit, Go, pump
  <2>2. CASE hand[s] # None
    <3>1. pc'[s] = "put" BY <2>1, <2>2
    <3>2. \A t \in 0..out[s] : Brings(s, t) => Brings(s, t)'
      BY <1>2, <2>1, <3>1 DEF Brings, Tearing
    <3>3. Marked(s) => Marked(s)' BY <1>2, <2>1, <3>1 DEF Marked
    <3> QED BY <1>1, <1>3, <2>1, <3>2, <3>3, SoundMoves
  <2>3. CASE hand[s] = None
    <3>1. pc'[s] = IF s \in got THEN "drain" ELSE "last" BY <2>1, <2>3, Resumes, Kinds
    <3>2. ASSUME NEW t \in 0..out[s], Brings(s, t) PROVE Brings(s, t)'
      <4>1. ~IsExit(hand[s], s) /\ ~IsOut(hand[s], s) BY <2>3, Kinds DEF IsExit, IsOut
      <4>2. /\ Carries(hand[s], s, t, t)
            /\ IF s \in got THEN Flows(chan[s], t, out[s], s \in viewed, s \in ended)
               ELSE s \in ended /\ t = out[s] /\ s \notin viewed
        BY <2>1, <3>2, <4>1 DEF Brings, Carries
      <4>3. hand[s].kind # "cut" BY <2>3, Kinds
      <4>4. CASE s \in got BY <1>2, <2>1, <2>3, <3>1, <4>2, <4>4 DEF Brings, Tearing
      <4>5. CASE s \notin got BY <1>2, <2>1, <3>1, <4>2, <4>3, <4>5 DEF Brings, Tearing
      <4> QED BY <4>4, <4>5
    <3>3. Marked(s) => Marked(s)' BY <1>2, <2>1, <3>1 DEF Marked
    <3> QED BY <1>1, <1>3, <2>1, <3>2, <3>3, SoundMoves
  <2> QED BY <2>2, <2>3
<1>6. CASE Unregister(s) \/ DetachSelf(s)
  <2>1. pc[s] \in {"release", "detach self"} BY <1>6 DEF Unregister, DetachSelf, Go
  <2>2. /\ s \in ended /\ s \notin viewed /\ hand[s].kind # "cut" /\ ~Marked(s)
        /\ \A t : Brings(s, t) => t = out[s]
    BY <2>1, DoneIsThrough
  <2>3. pc'[s] \in {"detach self", "last"}
    BY <1>1, <1>6, <2>2 DEF Unregister, DetachSelf, Go
  <2>4. hand' = hand /\ s \notin viewed'
    BY <1>6, <2>2 DEF Unregister, DetachSelf, Detached, pump
  <2>5. \A t \in 0..out[s] : Brings(s, t) => Brings(s, t)'
    BY <1>2, <2>2, <2>3, <2>4 DEF Brings, Tearing
  <2> QED BY <1>1, <1>3, <2>1, <2>2, <2>5, SoundMoves
<1>7. CASE Last(s)
  <2>1. pc[s] = "last" BY <1>7 DEF Last, Go
  <2>2. /\ s \in ended /\ s \notin viewed /\ ~Marked(s)
        /\ \A t : Brings(s, t) => t = out[s]
    BY <2>1, DoneIsThrough
  <2>3. pc'[s] = "emit" /\ hand'[s] = Exit(s) /\ viewed' = viewed
    BY <1>1, <1>7, <2>2 DEF Last, Go
  <2>4. IsExit(hand'[s], s) BY <2>3, Kinds DEF IsExit
  <2>5. \A t \in 0..out[s] : Brings(s, t) => Brings(s, t)'
    BY <1>2, <2>2, <2>3, <2>4 DEF Brings, Tearing
  <2> QED BY <1>1, <1>3, <2>1, <2>2, <2>5, SoundMoves
<1>8. CASE CutTest(s)
  <2>1. pc[s] = "cut" /\ pc'[s] = "cut set" /\ UNCHANGED <<hand, chan, viewed>>
    BY <1>1, <1>8 DEF CutTest, Go, pump
  <2>2. \A t \in 0..out[s] : Brings(s, t) => Brings(s, t)' BY <2>1 DEF Brings, Tearing
  <2>3. Marked(s) => Marked(s)' BY <1>2, <2>1 DEF Marked
  <2> QED BY <1>1, <1>3, <2>1, <2>2, <2>3, SoundMoves
<1> QED BY <1>4, <1>5, <1>6, <1>7, <1>8

\* What the front of a channel is, and what is behind it.
LEMMA ChannelTaken ==
  ASSUME NEW ch \in Seq(Items), ch # <<>>
  PROVE  /\ Len(ch) \in Nat \ {0} /\ Len(Tail(ch)) = Len(ch) - 1 /\ Head(ch) = ch[1]
         /\ Head(ch) \in Items
         /\ \A i \in 1..Len(Tail(ch)) : Tail(ch)[i] = ch[i + 1]
OBVIOUS

\* The front of a channel that flows is the next chunk, or the end when there is none.
LEMMA FlowsTaken ==
  ASSUME NEW ch \in Seq(Items), ch # <<>>, NEW o \in Nat, NEW m \in 0..o, NEW vw, NEW en,
         Flows(ch, m, o, vw, en)
  PROVE  \/ /\ Head(ch) = Bytes(m + 1) /\ m + 1 \in 0..o
            /\ Flows(Tail(ch), m + 1, o, vw, en)
         \/ Head(ch) = END /\ ~vw /\ en /\ m = o
<1> DEFINE r == Tail(ch)
<1>1. /\ Len(ch) \in Nat \ {0} /\ Len(r) = Len(ch) - 1 /\ Head(ch) = ch[1]
      /\ \A i \in 1..Len(r) : r[i] = ch[i + 1]
  BY ChannelTaken
<1> HIDE DEF r
<1>2. CASE vw
  <2>1. ~en /\ Len(ch) = o - m /\ \A i \in 1..Len(ch) : ch[i] = Bytes(m + i)
    BY <1>2 DEF Flows
  <2>2. Head(ch) = Bytes(m + 1) /\ m + 1 \in 0..o BY <1>1, <2>1
  <2>3. \A i \in 1..Len(r) : r[i] = Bytes((m + 1) + i)
    <3> SUFFICES ASSUME NEW i \in 1..Len(r) PROVE r[i] = Bytes((m + 1) + i) OBVIOUS
    <3>1. i + 1 \in 1..Len(ch) /\ m + (i + 1) = (m + 1) + i BY <1>1
    <3> QED BY <1>1, <2>1, <3>1
  <2>4. Len(r) = o - (m + 1) BY <1>1, <2>1
  <2>5. Flows(r, m + 1, o, vw, en) BY <1>2, <2>1, <2>3, <2>4 DEF Flows
  <2> QED BY <2>2, <2>5 DEF r
<1>3. CASE ~vw
  <2>1. /\ en /\ Len(ch) = o - m + 1 /\ ch[Len(ch)] = END
        /\ \A i \in 1..Len(ch) - 1 : ch[i] = Bytes(m + i)
    BY <1>3 DEF Flows
  <2>2. CASE Len(ch) = 1
    <3>1. o - m + 1 = 1 /\ Head(ch) = END BY <1>1, <2>1, <2>2
    <3>2. m = o BY <3>1
    <3> QED BY <1>3, <2>1, <3>1, <3>2
  <2>3. CASE Len(ch) # 1
    <3>1. Head(ch) = Bytes(m + 1) /\ m + 1 \in 0..o BY <1>1, <2>1, <2>3
    <3>2. \A i \in 1..Len(r) - 1 : r[i] = Bytes((m + 1) + i)
      <4> SUFFICES ASSUME NEW i \in 1..Len(r) - 1 PROVE r[i] = Bytes((m + 1) + i) OBVIOUS
      <4>1. i \in 1..Len(r) /\ i + 1 \in 1..Len(ch) - 1 /\ m + (i + 1) = (m + 1) + i BY <1>1
      <4> QED BY <1>1, <2>1, <4>1
    <3>3. r[Len(r)] = END
      <4>1. Len(r) \in 1..Len(r) /\ Len(r) + 1 = Len(ch) BY <1>1, <2>3
      <4> QED BY <1>1, <2>1, <4>1
    <3>4. Len(r) = o - (m + 1) + 1 BY <1>1, <2>1
    <3>5. Flows(r, m + 1, o, vw, en) BY <1>3, <2>1, <3>2, <3>3, <3>4 DEF Flows
    <3> QED BY <3>1, <3>5 DEF r
  <2> QED BY <2>2, <2>3
<1> QED BY <1>2, <1>3

\* The next of the channel is the next to emit, the end, or the DESYNC.
LEMMA DrainSound ==
  ASSUME Typed, NEW s \in Sessions, Drain(s), Sound(s) PROVE Sound(s)'
<1>1. /\ out[s] \in Nat /\ chan[s] \in Seq(Items) /\ s \in Threads /\ pc \in [Threads -> Points]
      /\ hand \in [Sessions -> UNION {Hands(r) : r \in Sessions}]
      /\ chan \in [Sessions -> Seq(Items)]
  BY ChannelOf, Names DEF Typed, Places, Scenes
<1> DEFINE item == Head(chan[s])
<1>2. /\ chan[s] # <<>> /\ pc[s] = "drain" /\ chan'[s] = Tail(chan[s])
      /\ UNCHANGED <<out, ended, got, viewed, queue, frame, shown>>
      /\ item.kind = "chunk" => pc'[s] = "emit" /\ hand'[s] = Output(s, item.n, item.n)
      /\ item.kind = "DESYNC" => pc'[s] = "cut" /\ hand'[s] = Cut(s)
      /\ item.kind = "END" => pc'[s] = "release" /\ hand'[s] = None
  BY <1>1 DEF Drain, Go, session, page
<1> HIDE DEF item
<1>3. Unsent(s) /\ out'[s] \in Nat /\ out[s] <= out'[s] BY <1>1, <1>2 DEF Unsent
<1>4. ASSUME NEW t \in 0..out[s], Brings(s, t) PROVE Brings(s, t)'
  <2>1. s \in got /\ Flows(chan[s], t, out[s], s \in viewed, s \in ended)
    BY <1>2, <1>4 DEF Brings
  <2>2. \/ /\ item = Bytes(t + 1) /\ t + 1 \in 0..out[s]
           /\ Flows(Tail(chan[s]), t + 1, out[s], s \in viewed, s \in ended)
        \/ item = END /\ s \notin viewed /\ s \in ended /\ t = out[s]
    BY <1>1, <1>2, <2>1, FlowsTaken DEF item
  <2>3. CASE /\ item = Bytes(t + 1) /\ t + 1 \in 0..out[s]
             /\ Flows(Tail(chan[s]), t + 1, out[s], s \in viewed, s \in ended)
    <3>1. pc'[s] = "emit" /\ hand'[s] = Output(s, t + 1, t + 1) BY <1>2, <2>3, Kinds
    <3>2. Carries(hand'[s], s, t, t + 1) BY <3>1, Kinds DEF Carries, IsOut
    <3>3. t + 1 \in t..out'[s] BY <1>1, <1>2, <2>3
    <3> QED BY <1>2, <2>1, <2>3, <3>1, <3>2, <3>3 DEF Brings, Tearing
  <2>4. CASE item = END /\ s \notin viewed /\ s \in ended /\ t = out[s]
    <3>1. pc'[s] = "release" /\ hand'[s] = None BY <1>2, <2>4, Kinds
    <3> QED BY <1>2, <2>4, <3>1, Kinds DEF Brings, Tearing
  <2> QED BY <2>2, <2>3, <2>4
<1>5. ASSUME Marked(s) PROVE Marked(s)'
  <2> DEFINE ch == chan[s]
             r == Tail(chan[s])
  <2>1. /\ s \notin viewed /\ s \in got /\ ch[Len(ch)] = DESYNC
        /\ \A i \in 1..Len(ch) - 1 : ch[i].kind = "chunk"
    BY <1>2, <1>5 DEF Marked
  <2>2. /\ Len(ch) \in Nat \ {0} /\ Len(r) = Len(ch) - 1 /\ item = ch[1]
        /\ \A i \in 1..Len(r) : r[i] = ch[i + 1]
    BY <1>1, <1>2, ChannelTaken DEF item
  <2> HIDE DEF ch, r
  <2>3. chan'[s] = r BY <1>2 DEF r
  <2>4. CASE Len(ch) = 1
    <3>1. pc'[s] = "cut" /\ hand'[s] = Cut(s) BY <1>2, <2>1, <2>2, <2>4, Kinds
    <3> QED BY <1>2, <2>1, <3>1 DEF Marked
  <2>5. CASE Len(ch) # 1
    <3>1. pc'[s] = "emit" /\ hand'[s] = Output(s, item.n, item.n) BY <1>2, <2>1, <2>2, <2>5
    <3>2. ~IsExit(hand'[s], s) BY <3>1, Kinds DEF IsExit
    <3>3. Len(r) \in 1..Len(r) /\ Len(r) + 1 = Len(ch) BY <2>2, <2>5
    <3>4. r[Len(r)] = DESYNC BY <2>1, <2>2, <3>3
    <3>5. \A i \in 1..Len(r) - 1 : r[i].kind = "chunk"
      <4> SUFFICES ASSUME NEW i \in 1..Len(r) - 1 PROVE r[i].kind = "chunk" OBVIOUS
      <4>1. i \in 1..Len(r) /\ i + 1 \in 1..Len(ch) - 1 BY <2>2
      <4> QED BY <2>1, <2>2, <4>1
    <3>6. r # <<>> BY <3>3
    <3> QED BY <1>2, <2>1, <2>3, <3>1, <3>2, <3>4, <3>5, <3>6 DEF Marked
  <2> QED BY <2>4, <2>5
<1> QED BY <1>1, <1>2, <1>3, <1>4, <1>5, SoundMoves

\* What a pump puts goes behind everything, and is the next of its session or its exit.
LEMMA PutSound ==
  ASSUME Typed, NEW s \in Sessions, Put(s), Sound(s) PROVE Sound(s)'
<1>1. /\ out[s] \in Nat /\ s \in Threads /\ pc \in [Threads -> Points]
      /\ hand \in [Sessions -> UNION {Hands(r) : r \in Sessions}]
      /\ PlaceOK(s, pc[s], hand[s], s \in started) /\ queue \in Seq(Events)
  BY ChannelOf, Names DEF Typed, Places, Stream
<1>2. pc[s] = "put" /\ UNCHANGED <<out, ended, got, viewed, chan, frame, shown>>
  BY DEF Put, Go, session, page
<1>3. CASE ~(Len(queue) < Capacity)
  <2>1. pc'[s] = "cut" /\ hand' = hand /\ Unsent(s) BY <1>1, <1>2, <1>3 DEF Put, Go, Unsent
  <2>2. \A t \in 0..out[s] : Brings(s, t) => Brings(s, t)' BY <1>2, <2>1 DEF Brings, Tearing
  <2>3. Marked(s) => Marked(s)'
    <3>1. ASSUME Marked(s) PROVE \E i \in 1..Len(chan[s]) : chan[s][i] = DESYNC
      <4>1. chan[s] # <<>> /\ chan[s][Len(chan[s])] = DESYNC BY <1>2, <3>1 DEF Marked
      <4>2. Len(chan[s]) \in 1..Len(chan[s]) BY <4>1, ChannelOf, ChannelTaken DEF Typed
      <4> QED BY <4>1, <4>2
    <3> QED BY <1>2, <2>1, <3>1 DEF Marked
  <2>4. out'[s] \in Nat /\ out[s] <= out'[s] BY <1>1, <1>2
  <2> QED BY <1>1, <1>2, <2>1, <2>2, <2>3, <2>4, SoundMoves
<1>4. CASE Len(queue) < Capacity
  <2> DEFINE h == hand[s]
             q == queue
             z == Len(queue) + 1
  <2>1. pc'[s] = Resume(s) /\ hand'[s] = None /\ queue' = Append(q, h)
    BY <1>1, <1>4 DEF Put, Go
  <2>2. h # None /\ h # Cut(s) /\ h \in Hands(s) BY <1>1, <1>2 DEF PlaceOK
  <2>3. /\ Len(queue') = z /\ Len(q) \in Nat /\ queue'[z] = h
        /\ \A i \in 1..Len(q) : queue'[i] = q[i]
        /\ \A i \in 1..z : i \in 1..Len(q) \/ i = z
    BY <1>1, <2>1, Appended
  <2> HIDE DEF h, q
  <2>4. ~IsExit(None, s) /\ None.kind # "cut" BY Kinds DEF IsExit
  <2>5. ~Exiting(s)
    <3>1. Exiting(s) /\ Whole(s) => pc[s] = "done" BY DEF Whole
    <3> QED BY <1>2, <3>1 DEF Sound
  <2>6. ASSUME Marked(s) PROVE ~Exiting(s)' /\ Marked(s)'
    <3>1. s \notin viewed /\ s \in got /\ ~IsExit(h, s) BY <1>2, <2>6 DEF Marked, h
    <3>2. h \in Outputs(s) BY <2>2, <3>1, Kinds DEF Hands, IsExit
    <3>3. h.kind = "output" BY <3>2 DEF Outputs
    <3>4. pc'[s] = "drain" BY <2>1, <3>1, <3>3, Resumes DEF h
    <3>5. ~Exiting(s)' BY <1>2, <2>3, <2>5, <3>1 DEF Exiting, q
    <3>6. Marked(s)' BY <1>2, <2>1, <2>4, <2>6, <3>1, <3>4 DEF Marked
    <3> QED BY <3>5, <3>6
  <2>7. ASSUME Whole(s) PROVE Whole(s)'
    <3>1. PICK t \in 0..out[s] : Covers(q, s, Base(s), t) /\ Brings(s, t)
      BY <2>7 DEF Whole, q
    <3>2. Base(s)' = Base(s) BY <1>2 DEF Base
    <3>3. /\ ~shown'[s].gap
          /\ IsOut(frame', s) => frame'.from = shown'[s].last + 1 /\ frame'.from <= frame'.to
          /\ ~(shown'[s].over \/ IsExit(frame', s))
          /\ \A i \in 1..Len(q) : ~IsExit(q[i], s)
      BY <1>2, <2>5, <2>7 DEF Whole, Exiting, q
    <3>4. ExitLast(queue', s)
      <4>1. \A i, j \in 1..z : i < j => i \in 1..Len(q) BY <2>3
      <4> QED BY <2>3, <3>3, <4>1 DEF ExitLast
    <3>5. CASE IsExit(h, s)
      <4>1. ~IsOut(h, s) /\ h.kind = "exit" BY <3>5 DEF IsOut, IsExit
      <4>2. s \in ended /\ t = out[s] /\ s \notin viewed
        BY <1>2, <2>2, <3>1, <3>5, <4>1 DEF Brings, Carries, h
      <4>3. pc'[s] = "done" BY <2>1, <4>1, Resumes DEF h
      <4>4. Brings(s, t)' BY <1>2, <2>1, <2>4, <4>2, <4>3 DEF Brings, Tearing
      <4>5. Covers(queue', s, Base(s)', t) BY <1>1, <2>1, <3>1, <3>2, <4>1, CoversOther DEF q
      <4>6. t \in 0..out'[s] BY <1>2
      <4> QED BY <3>3, <3>4, <4>3, <4>4, <4>5, <4>6 DEF Whole
    <3>6. CASE ~IsExit(h, s)
      <4>1. PICK m \in t..out[s] :
              /\ Carries(h, s, t, m)
              /\ IF s \in got THEN Flows(chan[s], m, out[s], s \in viewed, s \in ended)
                 ELSE s \in ended /\ m = out[s] /\ s \notin viewed
        BY <1>2, <3>1, <3>6 DEF Brings, h
      <4>2. IsOut(h, s) /\ h.from = t + 1 /\ h.to = m /\ t < m BY <2>2, <4>1 DEF Carries
      <4>3. pc'[s] = IF s \in got THEN "drain" ELSE "last"
        BY <2>1, <4>2, Resumes DEF IsOut, h
      <4>4. Brings(s, m)'
        <5>1. CASE s \in got BY <1>2, <2>1, <4>1, <4>3, <5>1 DEF Brings, Tearing
        <5>2. CASE s \notin got BY <1>2, <2>1, <2>4, <4>1, <4>3, <5>2 DEF Brings, Tearing
        <5> QED BY <5>1, <5>2
      <4>5. Base(s) \in Nat
        <5>1. shown[s].last \in Nat BY StreamAssumption DEF Typed, Stream
        <5>2. IsOut(frame, s) => frame.to \in Nat
          <6>1. frame \in Events BY DEF Typed, Stream
          <6> QED BY <6>1, Ranges
        <5> QED BY <5>1, <5>2 DEF Base
      <4>6. t \in Nat /\ m \in Nat /\ m \in 0..out'[s] BY <1>1, <1>2
      <4>7. Covers(queue', s, Base(s)', m)
        BY <1>1, <2>1, <3>1, <3>2, <4>2, <4>5, <4>6, CoversOwn DEF q
      <4>8. ~Exiting(s)' BY <2>3, <3>3, <3>6 DEF Exiting
      <4> QED BY <3>3, <3>4, <4>4, <4>6, <4>7, <4>8 DEF Whole
    <3> QED BY <3>5, <3>6
  <2> QED BY <2>6, <2>7 DEF Sound
<1> QED BY <1>3, <1>4

\* What another pump puts is of its own session.
LEMMA OtherPutSound ==
  ASSUME Typed, NEW s \in Sessions, NEW r \in Sessions, r # s, Put(r), Sound(s) PROVE Sound(s)'
<1>1. /\ s \in Threads /\ r \in Threads /\ pc \in [Threads -> Points]
      /\ hand \in [Sessions -> UNION {Hands(u) : u \in Sessions}] /\ queue \in Seq(Events)
      /\ PlaceOK(r, pc[r], hand[r], r \in started)
  BY Names DEF Typed, Places, Stream
<1>2. Still(s) /\ frame' = frame /\ shown' = shown
  BY <1>1 DEF Put, Go, Still, session, page
<1>3. CASE queue' = queue BY <1>2, <1>3, SoundStill DEF Unsent
<1>4. CASE queue' = Append(queue, hand[r])
  <2> DEFINE h == hand[r]
             z == Len(queue) + 1
  <2>1. h \in Outputs(r) \cup {Exit(r)} BY <1>1 DEF Put, Go, PlaceOK, Hands
  <2>2. ~IsOut(h, s) /\ ~IsExit(h, s) BY <2>1, Kinds DEF Outputs, IsOut, IsExit
  <2> HIDE DEF h
  <2>3. /\ Len(queue') = z /\ Len(queue) \in Nat /\ queue'[z] = h
        /\ \A i \in 1..Len(queue) : queue'[i] = queue[i]
        /\ \A i \in 1..z : i \in 1..Len(queue) \/ i = z
    BY <1>1, <1>4, Appended DEF h
  <2>4. \A i \in 1..Len(queue) : i \in 1..z BY <2>3
  <2>5. Exiting(s)' <=> Exiting(s) BY <1>2, <2>2, <2>3, <2>4 DEF Exiting
  <2>6. /\ \A t : Brings(s, t)' <=> Brings(s, t)
        /\ Marked(s)' <=> Marked(s)
    BY <1>2, StillBrings
  <2>7. ASSUME Whole(s) PROVE Whole(s)'
    <3>1. PICK t \in 0..out[s] : Covers(queue, s, Base(s), t) /\ Brings(s, t) BY <2>7 DEF Whole
    <3>2. Base(s)' = Base(s) BY <1>2 DEF Base
    <3>3. Covers(queue', s, Base(s)', t) BY <1>1, <1>4, <2>2, <3>1, <3>2, CoversOther DEF h
    <3>4. /\ ~shown'[s].gap
          /\ IsOut(frame', s) => frame'.from = shown'[s].last + 1 /\ frame'.from <= frame'.to
      BY <1>2, <2>7 DEF Whole
    <3>5. ExitLast(queue', s)
      <4>1. \A i, j \in 1..Len(queue) : i < j /\ IsExit(queue[i], s) => ~IsOut(queue[j], s)
        BY <2>7 DEF Whole, ExitLast
      <4> QED BY <2>2, <2>3, <4>1 DEF ExitLast
    <3>6. (shown'[s].over \/ IsExit(frame', s)) => \A i \in 1..Len(queue') : ~IsOut(queue'[i], s)
      BY <1>2, <2>2, <2>3, <2>7 DEF Whole
    <3>7. Exiting(s)' => pc'[s] = "done" BY <1>2, <2>5, <2>7 DEF Whole, Still
    <3>8. t \in 0..out'[s] /\ Brings(s, t)' BY <1>2, <2>6, <3>1 DEF Still
    <3> QED BY <3>3, <3>4, <3>5, <3>6, <3>7, <3>8 DEF Whole
  <2> QED BY <2>5, <2>6, <2>7 DEF Sound
<1> QED BY <1>3, <1>4 DEF Put

\* The handler takes the next event of the queue.
LEMMA GetSound ==
  ASSUME Typed, NEW s \in Sessions, Get, Sound(s) PROVE Sound(s)'
<1>1. /\ s \in Threads /\ s # Handler /\ pc \in [Threads -> Points] /\ queue \in Seq(Events)
      /\ shown[s].last \in Nat
  <2>1. shown[s] \in [last : 0..MaxOutput, gap : BOOLEAN, over : BOOLEAN] /\ MaxOutput \in Nat
    BY StreamAssumption DEF Typed, Stream
  <2>2. shown[s].last \in Nat BY <2>1
  <2>3. queue \in Seq(Events) /\ pc \in [Threads -> Points] BY DEF Typed, Stream, Places
  <2> QED BY <2>2, <2>3, Names
<1>2. pc[Handler] = "get" /\ frame = None BY DEF Get, Go, Typed, Places
<1> DEFINE e == Head(queue)
<1>3. /\ queue # <<>> /\ frame' = e /\ queue' = Tail(queue) /\ shown' = shown /\ Still(s)
  BY <1>1 DEF Get, Go, Still, session, pump
<1>4. /\ Len(queue') = Len(queue) - 1 /\ Len(queue) \in Nat \ {0} /\ e = queue[1]
      /\ 1 \in 1..Len(queue) /\ e \in Events
      /\ \A i \in 1..Len(queue') : i + 1 \in 1..Len(queue) /\ queue'[i] = queue[i + 1]
      /\ \A i \in 1..Len(queue) : i # 1 => i - 1 \in 1..Len(queue') /\ (i - 1) + 1 = i
  BY <1>1, <1>3, Taken
<1> HIDE DEF e
<1>5. ~IsExit(frame, s) /\ ~IsOut(frame, s) BY <1>2, Kinds DEF IsExit, IsOut
<1>6. Exiting(s)' <=> Exiting(s)
  <2>1. ASSUME NEW i \in 1..Len(queue), IsExit(queue[i], s)
        PROVE  IsExit(e, s) \/ \E j \in 1..Len(queue') : IsExit(queue'[j], s)
    <3>1. CASE i = 1 BY <1>4, <2>1, <3>1
    <3>2. CASE i # 1
      <4>1. i - 1 \in 1..Len(queue') /\ queue'[i - 1] = queue[i] BY <1>4, <3>2
      <4> QED BY <2>1, <4>1
    <3> QED BY <3>1, <3>2
  <2> QED BY <1>3, <1>4, <1>5, <2>1 DEF Exiting
<1>7. /\ \A t : Brings(s, t)' <=> Brings(s, t)
      /\ Marked(s)' <=> Marked(s)
  BY <1>3, StillBrings
<1>8. ASSUME Whole(s) PROVE Whole(s)'
  <2>1. PICK t \in 0..out[s] : Covers(queue, s, Base(s), t) /\ Brings(s, t) BY <1>8 DEF Whole
  <2>2. Base(s) = shown[s].last BY <1>5 DEF Base
  <2>3. t \in Nat OBVIOUS
  <2>4. /\ IsOut(e, s) => /\ e.from = shown[s].last + 1 /\ e.from <= e.to
                          /\ Covers(queue', s, e.to, t)
        /\ ~IsOut(e, s) => Covers(queue', s, shown[s].last, t)
    BY <1>1, <1>3, <2>1, <2>2, <2>3, CoversTail DEF e
  <2>5. Covers(queue', s, Base(s)', t) BY <1>3, <2>4 DEF Base
  <2>6. IsOut(frame', s) => frame'.from = shown'[s].last + 1 /\ frame'.from <= frame'.to
    BY <1>3, <2>4
  <2>7. ExitLast(queue, s) BY <1>8 DEF Whole
  <2>8. ExitLast(queue', s)
    <3> SUFFICES ASSUME NEW i \in 1..Len(queue'), NEW j \in 1..Len(queue'), i < j,
                        IsExit(queue'[i], s)
                 PROVE  ~IsOut(queue'[j], s)
      BY DEF ExitLast
    <3>1. i + 1 \in 1..Len(queue) /\ j + 1 \in 1..Len(queue) /\ i + 1 < j + 1 BY <1>4
    <3> QED BY <1>4, <2>7, <3>1 DEF ExitLast
  <2>9. (shown'[s].over \/ IsExit(frame', s)) => \A i \in 1..Len(queue') : ~IsOut(queue'[i], s)
    <3>1. CASE shown[s].over
      <4>1. \A i \in 1..Len(queue) : ~IsOut(queue[i], s) BY <1>8, <3>1 DEF Whole
      <4> QED BY <1>4, <4>1
    <3>2. CASE IsExit(e, s)
      <4> SUFFICES ASSUME NEW i \in 1..Len(queue') PROVE ~IsOut(queue'[i], s) OBVIOUS
      <4>1. i + 1 \in 1..Len(queue) /\ 1 < i + 1 BY <1>4
      <4> QED BY <1>4, <2>7, <3>2, <4>1 DEF ExitLast
    <3> QED BY <1>3, <3>1, <3>2
  <2>10. Exiting(s)' => pc'[s] = "done" BY <1>3, <1>6, <1>8 DEF Whole, Still
  <2>11. t \in 0..out'[s] /\ Brings(s, t)' BY <1>3, <1>7, <2>1 DEF Still
  <2>12. ~shown'[s].gap BY <1>3, <1>8 DEF Whole
  <2> QED BY <2>5, <2>6, <2>8, <2>9, <2>10, <2>11, <2>12 DEF Whole
<1> QED BY <1>6, <1>7, <1>8 DEF Sound

\* What a painted frame does to the views.
LEMMA SentShows ==
  ASSUME Typed, Sent
  PROVE  /\ frame' = None /\ UNCHANGED <<queue, pc[Heartbeat], out, ended, desynced>>
         /\ \A s \in Sessions : Still(s)
         /\ \A s \in Sessions : ~IsOut(frame, s) /\ ~IsExit(frame, s) => shown'[s] = shown[s]
         /\ \A s \in Sessions : IsOut(frame, s) =>
              /\ shown'[s].last = frame.to /\ shown'[s].over = shown[s].over
              /\ shown'[s].gap = (shown[s].gap \/ frame.from # shown[s].last + 1)
         /\ \A s \in Sessions : IsExit(frame, s) =>
              /\ shown'[s].last = shown[s].last /\ shown'[s].over
              /\ shown'[s].gap = shown[s].gap
<1>1. /\ shown \in [Sessions -> [last : 0..MaxOutput, gap : BOOLEAN, over : BOOLEAN]]
      /\ pc \in [Threads -> Points]
  BY DEF Typed, Stream, Places
<1>2. frame' = None /\ UNCHANGED <<queue, pc[Heartbeat], out, ended, desynced>>
  BY <1>1, Names DEF Sent, Untouched, session, flags
<1>3. \A s \in Sessions : Still(s)
  BY <1>1, Names DEF Sent, Untouched, Still, session, pump
<1>4. CASE frame = None
  <2>1. shown' = shown BY <1>4 DEF Sent, Paints
  <2>2. \A s : ~IsOut(frame, s) /\ ~IsExit(frame, s) BY <1>4, Kinds DEF IsOut, IsExit
  <2> QED BY <1>2, <1>3, <2>1, <2>2
<1>5. CASE frame # None
  <2>1. /\ frame.of \in Sessions
        /\ IsOut(frame, frame.of) \/ IsExit(frame, frame.of)
        /\ frame.kind = "output" => frame.to \in 1..MaxOutput
    BY <1>5, WritesOfSession
  <2> DEFINE u == frame.of
             v == Paint(shown[u], frame)
  <2>2. shown' = [shown EXCEPT ![u] = v] BY <1>5 DEF Sent, Paints
  <2>3. /\ v.last = IF frame.kind = "output" THEN frame.to ELSE shown[u].last
        /\ v.gap = (shown[u].gap \/ (frame.kind = "output" /\ frame.from # shown[u].last + 1))
        /\ v.over = (shown[u].over \/ frame.kind = "exit")
    BY <1>1, <2>1, Painted
  <2> HIDE DEF v
  <2>4. shown'[u] = v /\ \A s \in Sessions : s # u => shown'[s] = shown[s] BY <1>1, <2>1, <2>2
  <2>5. \A s \in Sessions : (~IsOut(frame, s) /\ ~IsExit(frame, s)) => s # u BY <2>1
  <2>6. \A s \in Sessions : IsOut(frame, s) => s = u /\ frame.kind = "output" BY DEF IsOut
  <2>7. \A s \in Sessions : IsExit(frame, s) => s = u /\ frame.kind = "exit" BY DEF IsExit
  <2>8. ASSUME NEW s \in Sessions, ~IsOut(frame, s), ~IsExit(frame, s)
        PROVE  shown'[s] = shown[s]
    BY <2>4, <2>5, <2>8
  <2>9. shown[u].gap \in BOOLEAN /\ shown[u].over \in BOOLEAN BY <1>1, <2>1
  <2>10. ASSUME NEW s \in Sessions, IsOut(frame, s)
         PROVE  /\ shown'[s].last = frame.to /\ shown'[s].over = shown[s].over
                /\ shown'[s].gap = (shown[s].gap \/ frame.from # shown[s].last + 1)
    <3>1. s = u /\ frame.kind = "output" /\ shown'[s] = v BY <2>4, <2>6, <2>10
    <3> QED BY <2>3, <2>9, <3>1
  <2>11. ASSUME NEW s \in Sessions, IsExit(frame, s)
         PROVE  /\ shown'[s].last = shown[s].last /\ shown'[s].over
                /\ shown'[s].gap = shown[s].gap
    <3>1. s = u /\ frame.kind = "exit" /\ shown'[s] = v BY <2>4, <2>7, <2>11
    <3> QED BY <2>3, <2>9, <3>1
  <2> QED BY <1>2, <1>3, <2>8, <2>10, <2>11
<1> QED BY <1>4, <1>5

\* The browser is shown what the handler took.
LEMMA SentSound ==
  ASSUME Typed, NEW s \in Sessions, Sent, Sound(s) PROVE Sound(s)'
<1>1. frame' = None /\ queue' = queue /\ Still(s) BY SentShows
<1>2. ~IsExit(frame', s) /\ ~IsOut(frame', s) BY <1>1, Kinds DEF IsExit, IsOut
<1>3. ~(IsOut(frame, s) /\ IsExit(frame, s)) BY DEF IsOut, IsExit
<1>4. shown[s] \in [last : 0..MaxOutput, gap : BOOLEAN, over : BOOLEAN] BY DEF Typed, Stream
<1>5. (shown'[s].over <=> shown[s].over \/ IsExit(frame, s))
  BY <1>3, <1>4, SentShows
<1>6. Exiting(s)' <=> Exiting(s) BY <1>1, <1>2, <1>5 DEF Exiting
<1>7. /\ \A t : Brings(s, t)' <=> Brings(s, t)
      /\ Marked(s)' <=> Marked(s)
  BY <1>1, StillBrings
<1>8. Base(s)' = Base(s)
  <2>1. Base(s)' = shown'[s].last BY <1>2 DEF Base
  <2> QED BY <1>3, <2>1, SentShows DEF Base
<1>9. ASSUME Whole(s) PROVE Whole(s)'
  <2>1. PICK t \in 0..out[s] : Covers(queue, s, Base(s), t) /\ Brings(s, t) BY <1>9 DEF Whole
  <2>2. ~shown'[s].gap
    <3>1. ~shown[s].gap /\ (IsOut(frame, s) => frame.from = shown[s].last + 1)
      BY <1>9 DEF Whole
    <3> QED BY <3>1, SentShows
  <2>3. Covers(queue', s, Base(s)', t) BY <1>1, <1>8, <2>1
  <2>4. t \in 0..out'[s] /\ Brings(s, t)' BY <1>1, <1>7, <2>1 DEF Still
  <2>5. ExitLast(queue', s) BY <1>1, <1>9 DEF Whole
  <2>6. (shown'[s].over \/ IsExit(frame', s)) => \A i \in 1..Len(queue') : ~IsOut(queue'[i], s)
    BY <1>1, <1>2, <1>5, <1>9 DEF Whole
  <2>7. Exiting(s)' => pc'[s] = "done" BY <1>1, <1>6, <1>9 DEF Whole, Still
  <2> QED BY <1>2, <2>2, <2>3, <2>4, <2>5, <2>6, <2>7 DEF Whole
<1> QED BY <1>6, <1>7, <1>9 DEF Sound

-----------------------------------------------------------------------------
(* The whole step.                                                         *)

\* The steps that pumps take while nothing is cut.
Walks(s) == \/ RegisterPump(s) \/ Emit(s) \/ Unregister(s) \/ DetachSelf(s) \/ Last(s) \/ CutTest(s)

\* A thread tears down only after a cut, for a browser that left, or on its way out.
LEMMA UndisturbedStep == ASSUME Typed, Undisturbed, [Next]_vars PROVE Undisturbed'
<1>1. /\ pc \in [Threads -> Points] /\ Handler # Heartbeat
      /\ \A s \in Sessions : s # Handler /\ s # Heartbeat /\ s \in Threads
      /\ Handler \in Threads /\ Heartbeat \in Threads
      /\ desynced \in BOOLEAN /\ connected \in BOOLEAN
  BY Names DEF Typed, Places, Stream
<1>2. ASSUME \A s \in Sessions : pc'[s] \in Tearing => desynced \/ desynced',
             desynced => desynced',
             pc'[Heartbeat] \in {"wake", "evict"} =>
               pc[Heartbeat] \in {"wake", "evict"} \/ ~connected' \/ pc[Handler] \in Gone,
             ~connected => ~connected',
             closed' => closed \/ desynced' \/ pc'[Handler] \in Gone,
             pc[Handler] \in Gone => pc'[Handler] \in Gone
      PROVE  Undisturbed'
  BY <1>2 DEF Undisturbed
<1>3. ASSUME UNCHANGED <<closed, desynced, connected>>,
             \A s \in Sessions : pc'[s] \in Tearing => pc[s] \in Tearing,
             pc'[Heartbeat] = pc[Heartbeat],
             pc[Handler] \in Gone => pc'[Handler] \in Gone
      PROVE  Undisturbed'
  BY <1>3 DEF Undisturbed
<1>4. CASE UNCHANGED <<pc, closed, desynced, connected>> BY <1>3, <1>4
<1>5. ASSUME NEW s \in Sessions, NEW p, p \notin Tearing, pc' = [pc EXCEPT ![s] = p],
             UNCHANGED <<closed, desynced, connected>>
      PROVE  Undisturbed'
  <2>1. pc'[s] = p /\ \A t \in Threads : t # s => pc'[t] = pc[t] BY <1>1, <1>5
  <2> QED BY <1>1, <1>3, <1>5, <2>1
<1>6. ASSUME NEW s \in Sessions, Attach(s) \/ Walks(s) \/ Put(s) \/ Drain(s) PROVE Undisturbed'
  <2>1. UNCHANGED <<closed, desynced, connected>>
    BY <1>6 DEF Attach, Walks, RegisterPump, Emit, Unregister, DetachSelf, Last, CutTest, Put,
                Drain, flags, page
  <2>2. PICK p : p \notin Tearing /\ pc' = [pc EXCEPT ![s] = p]
    BY <1>6, Resumes DEF Attach, Walks, RegisterPump, Emit, Unregister, DetachSelf, Last, CutTest,
                         Put, Drain, Go, Tearing
  <2> QED BY <1>5, <2>1, <2>2
<1>7. ASSUME NEW s \in Sessions, CutSet(s) PROVE Undisturbed'
  <2>1. pc' = [pc EXCEPT ![s] = "shut"] /\ desynced' = TRUE /\ UNCHANGED <<closed, connected>>
    BY <1>7 DEF CutSet, Go, page
  <2>2. pc'[Handler] = pc[Handler] /\ pc'[Heartbeat] = pc[Heartbeat] BY <1>1, <2>1
  <2> QED BY <1>2, <2>1, <2>2 DEF Undisturbed
<1>8. ASSUME NEW s \in Sessions, Close(s) \/ Interrupt(s) PROVE Undisturbed'
  <2>1. pc[s] \in Tearing
    BY <1>8 DEF Close, Interrupt, Shut, Collect, Detach, Wake, Evict, Go, Tearing
  <2>2. PICK p : pc' = [pc EXCEPT ![s] = p]
    BY <1>8 DEF Close, Interrupt, Shut, Collect, Detach, Wake, Evict, Go
  <2>3. UNCHANGED <<desynced, connected>>
    BY <1>8 DEF Close, Interrupt, Shut, Collect, Detach, Wake, Evict, flags, page
  <2>4. desynced BY <2>1 DEF Undisturbed
  <2>5. pc'[Handler] = pc[Handler] /\ pc'[Heartbeat] = pc[Heartbeat] BY <1>1, <2>2
  <2> QED BY <1>2, <2>3, <2>4, <2>5
<1>9. CASE Close(Handler) \/ Interrupt(Handler)
  <2>1. PICK p \in Tearing \cup {"done"} : pc' = [pc EXCEPT ![Handler] = p]
    BY <1>1, <1>9 DEF Close, Interrupt, Shut, Collect, Detach, Wake, Evict, Go, AfterWake,
                      AfterClose, Tearing
  <2>2. UNCHANGED <<desynced, connected>>
    BY <1>9 DEF Close, Interrupt, Shut, Collect, Detach, Wake, Evict, flags, page
  <2>3. pc'[Handler] \in Gone BY <1>1, <2>1 DEF Gone
  <2>4. \A t \in Threads : t # Handler => pc'[t] = pc[t] BY <1>1, <2>1
  <2> QED BY <1>1, <1>2, <2>2, <2>3, <2>4 DEF Undisturbed
<1>10. CASE Interrupt(Heartbeat) \/ Beat
  <2>1. PICK p : pc' = [pc EXCEPT ![Heartbeat] = p]
    BY <1>10 DEF Interrupt, Beat, KeepaliveFails, Wake, Evict, Go
  <2>2. UNCHANGED <<closed, desynced, connected>>
    BY <1>10 DEF Interrupt, Beat, Wake, Evict, flags, page
  <2>3. pc'[Heartbeat] \in {"wake", "evict"} =>
          pc[Heartbeat] \in {"wake", "evict"} \/ ~connected \/ pc[Handler] \in Gone
    <3>1. CASE Interrupt(Heartbeat) BY <1>1, <3>1 DEF Interrupt, Wake, Evict, Go
    <3>2. CASE Beat BY <1>1, <3>2 DEF Beat, Broken, KeepaliveFails, Go, Gone
    <3> QED BY <1>10, <3>1, <3>2
  <2>4. \A t \in Threads : t # Heartbeat => pc'[t] = pc[t] BY <1>1, <2>1
  <2> QED BY <1>1, <1>2, <2>2, <2>3, <2>4 DEF Undisturbed
<1>20. CASE Waits
  <2>1. UNCHANGED <<closed, desynced, connected>> BY <1>20 DEF Waits, Untouched, flags
  <2>2. /\ \A s \in Sessions : pc'[s] = pc[s]
        /\ pc'[Heartbeat] \in {"beat", "parked"} \/ pc'[Heartbeat] = pc[Heartbeat]
        /\ pc'[Handler] = pc[Handler] \/ pc[Handler] = "write"
    BY <1>1, <1>20 DEF Waits
  <2>3. pc[Handler] \in Gone => pc'[Handler] \in Gone BY <2>2 DEF Gone, Tearing
  <2> QED BY <1>2, <2>1, <2>2, <2>3 DEF Undisturbed
<1>11. CASE Listen \/ LiveSessions \/ Get \/ Sent \/ Raised \/ Stop
  <2>1. PICK p : pc' = [pc EXCEPT ![Handler] = p]
    BY <1>11 DEF Listen, LiveSessions, Get, Sent, Raised, Stop, Go
  <2>2. UNCHANGED <<closed, desynced, connected>>
    BY <1>11 DEF Listen, LiveSessions, Get, Sent, Raised, Untouched, Stop, flags, page
  <2>3. pc[Handler] \in Gone => pc'[Handler] \in Gone
    BY <1>1, <1>11 DEF Listen, LiveSessions, Get, Sent, Raised, Writing, Stop, Go, Gone, Tearing
  <2>4. \A t \in Threads : t # Handler => pc'[t] = pc[t] BY <1>1, <2>1
  <2> QED BY <1>1, <1>3, <2>2, <2>3, <2>4
<1>12. ASSUME NEW s \in Sessions, StartPump(s), UNCHANGED <<closed, desynced, connected>>
       PROVE  Undisturbed'
  <2>1. CASE pc' = pc BY <1>4, <1>12, <2>1
  <2>2. CASE pc' = [pc EXCEPT ![s] = "attach"] BY <1>5, <1>12, <2>2 DEF Tearing
  <2> QED BY <1>12, <2>1, <2>2 DEF StartPump
<1>13. CASE StartEach
  <2>1. PICK s \in todo[Handler] : StartPump(s) BY <1>13 DEF StartEach
  <2>2. s \in Sessions BY <2>1, Names DEF Typed, Stream
  <2> QED BY <1>12, <1>13, <2>1, <2>2 DEF StartEach, flags, page
<1>14. CASE Ready
  <2>1. /\ pc' = [pc EXCEPT ![Handler] = "write", ![Heartbeat] = "beat"]
        /\ pc[Handler] = "start" /\ UNCHANGED <<closed, desynced, connected>>
    BY <1>14 DEF Ready, flags, page
  <2>2. pc'[Heartbeat] = "beat" /\ pc[Handler] \notin Gone BY <1>1, <2>1 DEF Gone, Tearing
  <2>3. \A s \in Sessions : pc'[s] = pc[s] BY <1>1, <2>1
  <2> QED BY <1>2, <2>1, <2>2, <2>3 DEF Undisturbed
<1>15. ASSUME NEW s \in Sessions, Announce(s) PROVE Undisturbed'
  BY <1>4, <1>12, <1>15 DEF Announce, flags, page
<1>16. ASSUME NEW s \in Sessions, Prints(s) \/ Finish(s) \/ Register(s) PROVE Undisturbed'
  BY <1>4, <1>16 DEF Prints, Finish, Register, flags, page
<1>17. CASE Disconnect
  <2>1. connected' = FALSE /\ UNCHANGED <<pc, closed, desynced>> BY <1>17 DEF Disconnect, flags
  <2> QED BY <1>2, <2>1 DEF Undisturbed
<1>18. ASSUME NEW s \in Sessions, Pump(s) PROVE Undisturbed'
  BY <1>6, <1>7, <1>8, <1>18 DEF Pump, Walks
<1>19. CASE UNCHANGED vars BY <1>4, <1>19 DEF vars
<1> QED BY <1>9, <1>10, <1>11, <1>13, <1>14, <1>15, <1>16, <1>17, <1>18, <1>19, <1>20, Writes
        DEF Next, Environment, Handle, Keepalive

\* A cut is never taken back, a browser does not return, nor does a handler that is done.
LEMMA NeverBack ==
  ASSUME Typed, [Next]_vars
  PROVE  /\ desynced => desynced'
         /\ ~connected => ~connected'
         /\ pc[Handler] \in Gone => pc'[Handler] \in Gone
<1>1. /\ pc \in [Threads -> Points] /\ Handler # Heartbeat
      /\ \A s \in Sessions : s # Handler /\ s # Heartbeat /\ s \in Threads
      /\ Handler \in Threads /\ Heartbeat \in Threads
  BY Names DEF Typed, Places
<1>2. CASE UNCHANGED <<desynced, connected>> /\ pc'[Handler] = pc[Handler] BY <1>2
<1>3. ASSUME NEW s \in Sessions, Pump(s)
      PROVE  /\ desynced => desynced'
             /\ UNCHANGED connected /\ pc'[Handler] = pc[Handler]
  <2>1. PICK p : pc' = [pc EXCEPT ![s] = p]
    BY <1>3 DEF Pump, Attach, RegisterPump, Emit, Put, Drain, Unregister, DetachSelf, Last, CutTest,
                CutSet, Close, Interrupt, Shut, Collect, Detach, Wake, Evict, Go
  <2>2. UNCHANGED connected /\ (desynced => desynced')
    <3>1. CASE CutSet(s) BY <3>1 DEF CutSet, page
    <3>2. CASE Close(s) \/ Interrupt(s)
      BY <3>2 DEF Close, Interrupt, Shut, Collect, Detach, Wake, Evict, flags, page
    <3>3. CASE Attach(s) \/ Put(s) \/ Drain(s) BY <3>3 DEF Attach, Put, Drain, flags, page
    <3>4. CASE Walks(s)
      <4>1. UNCHANGED flags /\ UNCHANGED page
        BY <3>4 DEF Walks, RegisterPump, Emit, Unregister, DetachSelf, Last, CutTest
      <4> QED BY <4>1 DEF flags, page
    <3> QED BY <1>3, <3>1, <3>2, <3>3, <3>4 DEF Pump, Walks
  <2> QED BY <1>1, <2>1, <2>2
<1>4. CASE Close(Handler) \/ Interrupt(Handler)
  <2>1. PICK p \in Tearing \cup {"done"} : pc' = [pc EXCEPT ![Handler] = p]
    BY <1>1, <1>4 DEF Close, Interrupt, Shut, Collect, Detach, Wake, Evict, Go, AfterWake,
                      AfterClose, Tearing
  <2>2. UNCHANGED <<desynced, connected>>
    BY <1>4 DEF Close, Interrupt, Shut, Collect, Detach, Wake, Evict, flags, page
  <2> QED BY <1>1, <2>1, <2>2 DEF Gone
<1>5. CASE Keepalive
  <2>1. PICK p : pc' = [pc EXCEPT ![Heartbeat] = p]
    BY <1>5 DEF Keepalive, Interrupt, Beat, KeepaliveFails, Wake, Evict, Go
  <2>2. UNCHANGED <<desynced, connected>>
    BY <1>5 DEF Keepalive, Interrupt, Beat, Wake, Evict, flags, page
  <2> QED BY <1>1, <1>2, <2>1, <2>2
<1>12. CASE Waits
  <2>1. UNCHANGED <<desynced, connected>> BY <1>12 DEF Waits, Untouched, flags
  <2>2. pc[Handler] \notin Gone \/ pc'[Handler] = pc[Handler]
    BY <1>1, <1>12 DEF Waits, Gone, Tearing
  <2> QED BY <2>1, <2>2
<1>6. CASE Listen \/ LiveSessions \/ Ready \/ Get \/ Sent \/ Raised \/ Stop
  <2>1. UNCHANGED <<desynced, connected>>
    BY <1>6 DEF Listen, LiveSessions, Ready, Get, Sent, Raised, Untouched, Stop, flags, page
  <2>2. pc[Handler] \notin Gone \/ pc'[Handler] \in Gone
    BY <1>1, <1>6
    DEF Listen, LiveSessions, Ready, Get, Sent, Raised, Writing, Stop, Go, Gone, Tearing
  <2> QED BY <2>1, <2>2
<1>7. ASSUME NEW s \in Sessions, StartPump(s), UNCHANGED <<desynced, connected>>
      PROVE  UNCHANGED <<desynced, connected>> /\ pc'[Handler] = pc[Handler]
  BY <1>1, <1>7 DEF StartPump
<1>8. CASE StartEach
  <2>1. PICK s \in todo[Handler] : StartPump(s) BY <1>8 DEF StartEach
  <2>2. s \in Sessions BY <2>1, Names DEF Typed, Stream
  <2> QED BY <1>2, <1>7, <1>8, <2>1, <2>2 DEF StartEach, flags, page
<1>9. ASSUME NEW s \in Sessions, Announce(s)
      PROVE  UNCHANGED <<desynced, connected>> /\ pc'[Handler] = pc[Handler]
  BY <1>7, <1>9 DEF Announce, flags, page
<1>10. CASE Disconnect \/ \E s \in Sessions : Prints(s) \/ Finish(s) \/ Register(s)
  BY <1>10 DEF Environment, Disconnect, Prints, Finish, Register, flags, page
<1>11. CASE UNCHANGED vars BY <1>11 DEF vars
<1> QED BY <1>2, <1>3, <1>4, <1>5, <1>6, <1>8, <1>9, <1>10, <1>11, <1>12, Writes
        DEF Next, Handle, Environment

\* While the browser is served, no step loses anything of a session untold.
LEMMA SoundStep ==
  ASSUME Typed, Undisturbed, Served, Served', [Next]_vars, NEW s \in Sessions, Sound(s)
  PROVE  Sound(s)'
<1>1. /\ pc \in [Threads -> Points] /\ Handler # Heartbeat
      /\ \A r \in Sessions : r # Handler /\ r # Heartbeat /\ r \in Threads
      /\ Handler \in Threads /\ Heartbeat \in Threads
      /\ hand \in [Sessions -> UNION {Hands(u) : u \in Sessions}]
      /\ chan \in [Sessions -> Seq(Items)] /\ out \in [Sessions -> 0..MaxOutput]
  BY Names DEF Typed, Places, Scenes
<1>2. /\ connected /\ ~desynced /\ ~desynced' /\ ~closed /\ pc[Handler] \notin Gone
      /\ connected'
      /\ \A r \in Sessions : pc[r] \notin Tearing
      /\ pc[Heartbeat] \notin {"wake", "evict"}
  BY DEF Served, Undisturbed
<1>3. ASSUME NEW r \in Sessions, r # s, Attach(r) \/ Walks(r) \/ Drain(r)
      PROVE  Still(s) /\ Unsent(s)
  <2>1. /\ UNCHANGED <<queue, frame, shown, out, ended>>
        /\ (s \in got') = (s \in got) /\ (s \in viewed') = (s \in viewed)
    <3>1. CASE Attach(r) BY <1>3, <3>1 DEF Attach, session, page
    <3>2. CASE Walks(r) \/ Drain(r)
      <4>1. UNCHANGED <<queue, frame, shown, out, ended, got>>
        BY <3>2 DEF Walks, RegisterPump, Emit, Drain, Unregister, DetachSelf, Last, CutTest,
                    session, page, pump
      <4>2. viewed' = viewed \/ viewed' = viewed \ {r}
        BY <3>2 DEF Walks, RegisterPump, Emit, Drain, Unregister, DetachSelf, Last, CutTest,
                    Detached
      <4> QED BY <1>3, <4>1, <4>2
    <3> QED BY <1>3, <3>1, <3>2
  <2>2. chan'[s] = chan[s]
    BY <1>1, <1>3 DEF Attach, Walks, RegisterPump, Emit, Drain, Unregister, DetachSelf, Last,
                      CutTest, Detached
  <2>3. pc'[s] = pc[s]
    <3>1. PICK p : pc' = [pc EXCEPT ![r] = p]
      BY <1>3 DEF Attach, Walks, RegisterPump, Emit, Drain, Unregister, DetachSelf, Last, CutTest,
                  Go
    <3> QED BY <1>1, <1>3, <3>1
  <2>4. hand'[s] = hand[s]
    BY <1>1, <1>3 DEF Attach, Walks, RegisterPump, Emit, Drain, Unregister, DetachSelf, Last,
                      CutTest, pump
  <2> QED BY <2>1, <2>2, <2>3, <2>4 DEF Still, Unsent
<1>4. ASSUME NEW r \in Sessions, Pump(r) PROVE Sound(s)'
  <2>1. ~CutSet(r) BY <1>2 DEF CutSet
  <2>2. ~Close(r) /\ ~Interrupt(r)
    BY <1>2 DEF Close, Interrupt, Shut, Collect, Detach, Wake, Evict, Go, Tearing
  <2>3. Attach(r) \/ Walks(r) \/ Put(r) \/ Drain(r) BY <1>4, <2>1, <2>2 DEF Pump, Walks
  <2>4. CASE r = s
    BY <1>2, <2>3, <2>4, AttachSound, WalksSound, PutSound, DrainSound DEF Walks
  <2>5. CASE r # s BY <1>3, <2>3, <2>5, OtherPutSound, SoundStill
  <2> QED BY <2>4, <2>5
<1>5. ASSUME NEW r \in Sessions, StartPump(r) \/ UNCHANGED <<started, pc>>,
             UNCHANGED <<hand, got, chan, out, viewed, ended, queue, frame, shown>>
      PROVE  Sound(s)'
  <2>1. CASE UNCHANGED <<started, pc>>
    BY <1>5, <2>1, SoundStill DEF Still, Unsent
  <2>2. CASE StartPump(r) /\ r = s BY <1>5, <2>2, StartSound
  <2>3. CASE StartPump(r) /\ r # s
    <3>1. pc'[s] = pc[s] BY <1>1, <2>3 DEF StartPump
    <3> QED BY <1>5, <3>1, SoundStill DEF Still, Unsent
  <2> QED BY <1>5, <2>1, <2>2, <2>3
<1>6. ASSUME NEW r \in Sessions, Announce(r) PROVE Sound(s)'
  <2>1. /\ StartPump(r) \/ UNCHANGED <<started, pc>>
        /\ UNCHANGED <<hand, got, chan, out, viewed, ended, queue, frame, shown>>
    BY <1>6 DEF Announce, session, page, pump
  <2> QED BY <1>5, <2>1
<1>7. CASE StartEach
  <2>1. PICK r \in todo[Handler] : StartPump(r) BY <1>7 DEF StartEach
  <2>2. r \in Sessions BY <2>1, Names DEF Typed, Stream
  <2>3. UNCHANGED <<hand, got, chan, out, viewed, ended, queue, frame, shown>>
    BY <1>7 DEF StartEach, session, page, pump
  <2> QED BY <1>5, <2>1, <2>2, <2>3
<1>8. ASSUME NEW r \in Sessions, Prints(r) \/ Finish(r) PROVE Sound(s)'
  <2>1. CASE r = s BY <1>8, <2>1, PrintsSound, FinishSound
  <2>2. CASE r # s
    <3>1. UNCHANGED <<pc, hand, got, queue, frame, shown>>
      BY <1>8 DEF Prints, Finish, page, pump
    <3>2. chan'[s] = chan[s] /\ out'[s] = out[s]
      BY <1>1, <1>8, <2>2 DEF Prints, Finish
    <3>3. (s \in viewed') = (s \in viewed) /\ (s \in ended') = (s \in ended)
      BY <1>8, <2>2 DEF Prints, Finish
    <3>4. Still(s) /\ Unsent(s) BY <3>1, <3>2, <3>3 DEF Still, Unsent
    <3> QED BY <3>4, SoundStill
  <2> QED BY <2>1, <2>2
<1>9. CASE Get \/ Sent BY <1>9, GetSound, SentSound
<1>10. CASE \/ Listen \/ LiveSessions \/ Ready \/ Stop \/ Waits \/ Beat \/ Disconnect
            \/ \E r \in Sessions : Register(r)
  <2>1. UNCHANGED <<hand, got, chan, out, viewed, ended, queue, shown, frame>>
    BY <1>10 DEF Listen, LiveSessions, Ready, Stop, Waits, Untouched, Beat, Disconnect, Register,
                 session, page, pump
  <2>2. pc'[s] = pc[s]
    BY <1>1, <1>10 DEF Listen, LiveSessions, Ready, Stop, Waits, Beat, KeepaliveFails, Disconnect,
                       Register, Go
  <2> QED BY <2>1, <2>2, SoundStill DEF Still, Unsent
<1>11. ~Close(Handler) /\ ~Interrupt(Handler)
  BY <1>2 DEF Close, Interrupt, Shut, Collect, Detach, Wake, Evict, Go, Tearing, Gone
<1>12. ~Interrupt(Heartbeat) BY <1>2 DEF Interrupt, Wake, Evict, Go
<1>14. ~Raised BY <1>2 DEF Raised
<1>13. CASE UNCHANGED vars
  BY <1>13, SoundStill DEF vars, Still, Unsent
<1> QED BY <1>4, <1>6, <1>7, <1>8, <1>9, <1>10, <1>11, <1>12, <1>13, <1>14, Writes
        DEF Next, Environment, Handle, Keepalive

\* An exit that is painted comes after everything its session printed.
LEMMA HonestStep ==
  ASSUME Typed, Following, [Next]_vars PROVE Honest'
<1>1. desynced => desynced' BY NeverBack
<1>2. CASE UNCHANGED <<shown, out>> /\ ended \subseteq ended' BY <1>1, <1>2 DEF Following, Honest
<1>11. CASE Raised \/ Waits
  BY <1>2, <1>11 DEF Raised, Waits, Untouched, session
<1>3. CASE Sent
  <2>1. ended' = ended /\ out' = out BY <1>3 DEF Sent, Untouched, session
  <2>3. connected BY <1>3 DEF Sent
  <2>2. Honest'
    <3> SUFFICES ASSUME NEW s \in Sessions, shown'[s].over, ~desynced'
                 PROVE  s \in ended' /\ ~shown'[s].gap /\ shown'[s].last = out'[s]
      BY DEF Honest
    <3>1. Served /\ ~desynced
      BY <1>1, <1>3, <2>3 DEF Served, Sent, Writing, Gone, Tearing
    <3>2. Sound(s) BY <3>1 DEF Following
    <3>3. shown[s].over => s \in ended /\ ~shown[s].gap /\ shown[s].last = out[s]
      BY <3>1 DEF Following, Honest
    <3>4. out[s] \in Nat /\ shown[s].last \in Nat
      <4>1. shown[s] \in [last : 0..MaxOutput, gap : BOOLEAN, over : BOOLEAN] /\ MaxOutput \in Nat
        BY StreamAssumption DEF Typed, Stream
      <4>2. shown[s].last \in Nat BY <4>1
      <4> QED BY <4>2, ChannelOf DEF Typed
    <3>5. CASE IsExit(frame, s)
      <4>1. Exiting(s) /\ ~IsOut(frame, s) BY <3>5 DEF Exiting, IsExit, IsOut
      <4>2. Whole(s) /\ pc[s] = "done" BY <3>2, <4>1 DEF Sound, Whole
      <4>3. \A i \in 1..Len(queue) : ~IsOut(queue[i], s) BY <3>5, <4>2 DEF Whole
      <4>4. PICK t \in 0..out[s] : Covers(queue, s, Base(s), t) /\ Brings(s, t)
        BY <4>2 DEF Whole
      <4>5. s \in ended /\ t = out[s] BY <4>2, <4>4 DEF Brings
      <4>6. Base(s) = shown[s].last BY <4>1 DEF Base
      <4>7. shown[s].last = out[s] BY <3>4, <4>3, <4>4, <4>5, <4>6, CoversNone
      <4>8. ~shown[s].gap BY <4>2 DEF Whole
      <4> QED BY <1>3, <2>1, <2>3, <3>5, <4>5, <4>7, <4>8, SentShows
    <3>6. CASE IsOut(frame, s)
      <4>1. shown[s].over BY <1>3, <2>3, <3>6, SentShows
      <4>2. Exiting(s) BY <4>1 DEF Exiting
      <4>3. Whole(s) /\ pc[s] = "done" BY <3>2, <4>2 DEF Sound, Whole
      <4>4. PICK t \in 0..out[s] : Covers(queue, s, Base(s), t) /\ Brings(s, t)
        BY <4>3 DEF Whole
      <4>5. t = out[s] BY <4>3, <4>4 DEF Brings
      <4>6. Base(s) = frame.to /\ frame.from = shown[s].last + 1 /\ frame.from <= frame.to
        BY <3>6, <4>3 DEF Base, Whole
      <4>7. frame.to \in Nat /\ frame.from \in Nat BY <3>6, Ranges DEF Typed, Stream
      <4>8. frame.to <= out[s] BY <4>4, <4>5, <4>6 DEF Covers
      <4>9. shown[s].last = out[s] BY <3>3, <4>1
      <4>10. FALSE BY <3>4, <4>6, <4>7, <4>8, <4>9
      <4> QED BY <4>10
    <3>7. CASE ~IsExit(frame, s) /\ ~IsOut(frame, s)
      <4>1. shown'[s] = shown[s] BY <1>3, <2>3, <3>7, SentShows
      <4> QED BY <2>1, <3>3, <4>1
    <3> QED BY <3>5, <3>6, <3>7
  <2> QED BY <2>2
<1>4. ASSUME NEW r \in Sessions, Prints(r) PROVE Honest'
  <2>1. r \notin ended /\ ended' = ended /\ shown' = shown BY <1>4 DEF Prints, page
  <2>2. \A s \in Sessions : s # r => out'[s] = out[s] BY <1>4 DEF Prints, Typed, Scenes
  <2> SUFFICES ASSUME NEW s \in Sessions, shown'[s].over, ~desynced'
               PROVE  s \in ended' /\ ~shown'[s].gap /\ shown'[s].last = out'[s]
    BY DEF Honest
  <2>3. s \in ended /\ ~shown[s].gap /\ shown[s].last = out[s]
    BY <1>1, <2>1 DEF Following, Honest
  <2> QED BY <2>1, <2>2, <2>3
<1>5. ASSUME NEW r \in Sessions, Finish(r) PROVE Honest'
  BY <1>2, <1>5 DEF Finish, page
<1>6. ASSUME NEW r \in Sessions, Register(r) \/ Announce(r) PROVE Honest'
  BY <1>2, <1>6 DEF Register, Announce, session, page
<1>7. ASSUME NEW t, Close(t) \/ Interrupt(t) PROVE Honest'
  BY <1>2, <1>7 DEF Close, Interrupt, Shut, Collect, Detach, Wake, Evict, session, page
<1>8. ASSUME NEW r \in Sessions, Pump(r) PROVE Honest'
  <2>1. CASE Attach(r) \/ Put(r) \/ Drain(r) \/ CutSet(r)
    BY <1>2, <2>1 DEF Attach, Put, Drain, CutSet, session, page
  <2>2. CASE Walks(r)
    BY <1>2, <2>2 DEF Walks, RegisterPump, Emit, Unregister, DetachSelf, Last, CutTest,
                      session, page
  <2> QED BY <1>7, <1>8, <2>1, <2>2 DEF Pump, Walks
<1>9. CASE Listen \/ LiveSessions \/ StartEach \/ Ready \/ Get \/ Stop \/ Beat \/ Disconnect
  BY <1>2, <1>9 DEF Listen, LiveSessions, StartEach, Ready, Get, Stop, Beat, Disconnect,
                    session, page
<1>10. CASE UNCHANGED vars BY <1>2, <1>10 DEF vars
<1> QED BY <1>3, <1>4, <1>5, <1>6, <1>7, <1>8, <1>9, <1>10, <1>11, Writes
        DEF Next, Environment, Handle, Keepalive

\* In every reachable state: nobody tears down a stream that is served; an exit that was
\* painted without a cut came after everything; and of each session of a served stream the
\* events queued, in hand and in its channel continue what was painted, or end in a DESYNC.
THEOREM FollowingInductive == Spec => [](Typed /\ Following)
<1>1. Init => Following
  <2> SUFFICES ASSUME Init PROVE Following OBVIOUS
  <2>1. /\ \A s \in Sessions : pc[s] = "none" /\ out[s] = 0 /\ chan[s] = <<>>
        /\ \A s \in Sessions : shown[s].last = 0 /\ ~shown[s].gap /\ ~shown[s].over
        /\ queue = <<>> /\ frame = None /\ got = {} /\ viewed = {} /\ ~closed
        /\ pc[Heartbeat] = "none"
    BY Names DEF Init
  <2>2. Undisturbed BY <2>1 DEF Undisturbed, Tearing
  <2>3. Honest BY <2>1 DEF Honest
  <2>4. ASSUME NEW s \in Sessions PROVE Sound(s)
    <3>1. Base(s) = 0 BY <2>1, Kinds DEF Base, IsOut
    <3>2. Len(queue) = 0 BY <2>1
    <3>3. Covers(queue, s, 0, 0) /\ ExitLast(queue, s) BY <3>2 DEF Covers, ExitLast
    <3>4. Brings(s, 0) BY <2>1 DEF Brings, Tearing
    <3>5. ~Exiting(s) /\ ~IsOut(frame, s) /\ ~IsExit(frame, s)
      BY <2>1, <3>2, Kinds DEF Exiting, IsExit, IsOut
    <3>6. 0 \in 0..out[s] BY <2>1
    <3>7. Whole(s) BY <2>1, <3>1, <3>3, <3>4, <3>5, <3>6 DEF Whole
    <3> QED BY <3>7 DEF Sound
  <2> QED BY <2>2, <2>3, <2>4 DEF Following
<1>2. Typed /\ Following /\ [Next]_vars => Following'
  <2> SUFFICES ASSUME Typed, Following, [Next]_vars PROVE Following' OBVIOUS
  <2>1. Undisturbed' BY UndisturbedStep DEF Following
  <2>2. Honest' BY HonestStep
  <2>3. ASSUME Served', NEW s \in Sessions PROVE Sound(s)'
    <3>1. Served BY <2>3, NeverBack DEF Served
    <3>2. Sound(s) /\ Undisturbed BY <3>1 DEF Following
    <3> QED BY <2>3, <3>1, <3>2, SoundStep
  <2> QED BY <2>1, <2>2, <2>3 DEF Following
<1>3. Spec => []Typed BY TypedInductive
<1> QED BY <1>1, <1>2, <1>3, PTL DEF Spec

\* For any sessions, queues and channels: what the browser is sent of a session is its output
\* in order, once; after a gap the stream is cut, or a pump is about to cut it; and an exit
\* never comes over a gap, or before the last of the output, without the cut.
THEOREM NothingMissed == Spec => []NothingMissing
<1>1. Typed /\ Following => NothingMissing
  <2> SUFFICES ASSUME Typed, Following, NEW s \in Sessions
               PROVE  /\ (shown[s].over /\ (shown[s].gap \/ shown[s].last # out[s])) => desynced
                      /\ (shown[s].gap /\ connected /\ pc[Handler] \in {"get", "write", "parked"})
                           => desynced \/ CutComing(s)
    BY DEF NothingMissing
  <2>1. (shown[s].over /\ (shown[s].gap \/ shown[s].last # out[s])) => desynced
    BY DEF Following, Honest
  <2>2. ASSUME shown[s].gap, connected, pc[Handler] \in {"get", "write", "parked"}, ~desynced
        PROVE  CutComing(s)
    <3>1. Sound(s) BY <2>2 DEF Following, Served, Gone, Tearing
    <3>2. Marked(s) BY <2>2, <3>1 DEF Sound, Whole
    <3>3. CASE chan[s] # <<>> /\ chan[s][Len(chan[s])] = DESYNC
      <4>1. Len(chan[s]) \in DOMAIN chan[s] BY <3>3, ChannelOf, ChannelTaken DEF Typed
      <4> QED BY <3>3, <4>1 DEF CutComing
    <3>4. CASE pc[s] \in {"cut", "cut set"} /\ hand[s] = Cut(s) BY <3>4 DEF CutComing
    <3>5. CASE \E i \in 1..Len(chan[s]) : chan[s][i] = DESYNC
      <4>1. DOMAIN chan[s] = 1..Len(chan[s]) BY ChannelOf DEF Typed
      <4> QED BY <3>5, <4>1 DEF CutComing
    <3> QED BY <3>2, <3>3, <3>4, <3>5 DEF Marked
  <2> QED BY <2>1, <2>2
<1> QED BY <1>1, FollowingInductive, PTL
-----------------------------------------------------------------------------
(* What the teardown reaches.                                              *)

\* The channel of a session ends with a marker.
Woken(s) == chan[s] # <<>> /\ chan[s][Len(chan[s])].kind # "chunk"

\* A pump that has not met a marker yet, nor gone on to the exit.
Looping(s) ==
  /\ s \in got /\ hand[s].kind \notin {"exit", "cut"}
  /\ pc[s] \in {"register", "emit", "put", "drain", "cut", "cut set"} \cup Tearing

\* A pump before it has a channel, or after it let go of it.
Loose(s) == pc[s] \in {"none", "attach", "last", "done"} \/ hand[s].kind = "exit"

\* Somebody who closes the stream finds the channel.
Listed(s) == s \in subs \/ \E t \in Closers : pc[t] = "detach" /\ s \in todo[t]

Tracked(s) ==
  /\ (s \in viewed \/ s \in subs) => s \in got
  /\ pc[s] \in {"none", "attach"} => s \notin got
  /\ Loose(s) => s \notin viewed /\ s \notin subs
  /\ pc[s] \in {"register", "detach self"} => s \notin subs
  /\ s \in viewed => pc[s] \in {"register", "detach self"} \/ Listed(s)
  /\ pc[s] = "drain" => s \in got /\ hand[s].kind \notin {"exit", "cut"}
  /\ Looping(s) => s \in viewed \/ Woken(s)

\* Nothing is registered any more once the stream is closed, but for who is about to collect it.
Sealed == closed /\ subs # {} => \E t \in Closers : pc[t] = "collect"

Reaching == Sealed /\ \A s \in Sessions : Tracked(s)

\* A session whose pump and channel nobody else touched, but perhaps to end the channel.
LEMMA TrackedStill ==
  ASSUME NEW s, Tracked(s), pc'[s] = pc[s], hand'[s] = hand[s],
         s \in got' <=> s \in got, s \in subs' => s \in subs, s \in viewed' => s \in viewed,
         s \in viewed' /\ Listed(s) => Listed(s)',
         s \in viewed' \/ Woken(s)' \/ (s \notin viewed /\ chan'[s] = chan[s])
  PROVE  Tracked(s)'
<1>1. Looping(s)' => Looping(s) BY DEF Looping
<1>2. Loose(s)' => Loose(s) BY DEF Loose
<1>3. Woken(s) /\ chan'[s] = chan[s] => Woken(s)' BY DEF Woken
<1> QED BY <1>1, <1>2, <1>3 DEF Tracked

\* Who is about to detach a channel stays so when others move.
LEMMA ListedStill ==
  ASSUME NEW s, s \in subs => s \in subs',
         \A t \in Closers : pc[t] = "detach" => pc'[t] = "detach" /\ todo'[t] = todo[t]
  PROVE  Listed(s) => Listed(s)'
BY DEF Listed

\* A step that registers nobody and takes nobody away from "collect" keeps the stream sealed.
LEMMA SealedStill ==
  ASSUME Sealed, subs' \subseteq subs, closed' = closed,
         \A t \in Closers : pc[t] = "collect" => pc'[t] = "collect"
  PROVE  Sealed'
BY DEF Sealed

\* A marker forced into a channel wakes its pump.
LEMMA DetachedWakes ==
  ASSUME Typed, NEW s \in Sessions, Detached(s)
  PROVE  /\ s \notin viewed' /\ Woken(s)'
         /\ \A r \in Sessions \ {s} : chan'[r] = chan[r] /\ (r \in viewed' <=> r \in viewed)
<1>1. chan \in [Sessions -> Seq(Items)] /\ Len(chan[s]) <= Limit BY DEF Typed, Scenes
<1>2. chan[s] \in Seq(Items) BY <1>1
<1>3. /\ ForceIn(chan[s], DETACH) \in Seq(Items) /\ Len(ForceIn(chan[s], DETACH)) >= 1
      /\ ForceIn(chan[s], DETACH)[Len(ForceIn(chan[s], DETACH))] = DETACH
  BY <1>1, <1>2, Forced, ItemsAre
<1>4. chan'[s] = ForceIn(chan[s], DETACH) /\ s \notin viewed' BY <1>1 DEF Detached
<1>5. DETACH.kind # "chunk" BY Kinds
<1>6. Woken(s)' BY <1>3, <1>4, <1>5 DEF Woken
<1> QED BY <1>1, <1>4, <1>6 DEF Detached

\* A step that leaves pumps, channels and lists alone leaves the teardown where it was.
LEMMA ReachingAlone ==
  ASSUME Reaching, UNCHANGED <<hand, got, subs, viewed, chan, closed>>,
         \A s \in Sessions : pc'[s] = pc[s],
         \A t \in Closers : pc[t] = "detach" => pc'[t] = "detach" /\ todo'[t] = todo[t],
         \A t \in Closers : pc[t] = "collect" => pc'[t] = "collect"
  PROVE  Reaching'
<1>1. Sealed' BY SealedStill DEF Reaching
<1>2. ASSUME NEW s \in Sessions PROVE Tracked(s)'
  BY TrackedStill, ListedStill DEF Reaching
<1> QED BY <1>1, <1>2 DEF Reaching

\* What a session prints, and its end, wakes a pump that is not to see more.
LEMMA ReachingPrints ==
  ASSUME Typed, Reaching, NEW s \in Sessions, Prints(s) \/ Finish(s) PROVE Reaching'
<1>1. UNCHANGED <<hand, got, subs, closed, pc, todo>>
  BY DEF Prints, Finish, flags, closing, pump
<1>2. Sealed' BY <1>1, SealedStill DEF Reaching
<1>3. chan \in [Sessions -> Seq(Items)] /\ chan[s] \in Seq(Items) /\ Len(chan[s]) <= Limit
  BY DEF Typed, Scenes
<1>4. ASSUME NEW m \in {DESYNC, END}, chan'[s] = ForceIn(chan[s], m) PROVE Woken(s)'
  <2>1. m \in Items /\ m.kind # "chunk" BY ItemsAre, Kinds
  <2>2. /\ ForceIn(chan[s], m) \in Seq(Items) /\ Len(ForceIn(chan[s], m)) >= 1
        /\ ForceIn(chan[s], m)[Len(ForceIn(chan[s], m))] = m
    BY <1>3, <2>1, Forced
  <2> QED BY <1>4, <2>1, <2>2 DEF Woken
<1>5. /\ s \in viewed' \/ Woken(s)' \/ (s \notin viewed /\ chan'[s] = chan[s])
      /\ s \in viewed' => s \in viewed
  <2>1. CASE Prints(s) BY <1>3, <1>4, <2>1 DEF Prints
  <2>2. CASE Finish(s)
    <3>1. s \notin viewed => chan'[s] = chan[s] BY <1>3, <2>2 DEF Finish
    <3>2. s \in viewed =>
            chan'[s] = ForceIn(chan[s], IF Full(chan[s]) THEN DESYNC ELSE END)
      BY <1>3, <2>2 DEF Finish
    <3> QED BY <1>4, <2>2, <3>1, <3>2 DEF Finish
  <2> QED BY <2>1, <2>2
<1>6. ASSUME NEW r \in Sessions \ {s} PROVE chan'[r] = chan[r] /\ (r \in viewed' <=> r \in viewed)
  BY <1>3 DEF Prints, Finish
<1>7. ASSUME NEW r \in Sessions PROVE Tracked(r)'
  <2>1. Listed(r) => Listed(r)' BY <1>1, ListedStill
  <2>2. CASE r = s BY <1>1, <1>5, <2>1, <2>2, TrackedStill DEF Reaching
  <2>3. CASE r # s BY <1>1, <1>6, <2>1, <2>3, TrackedStill DEF Reaching
  <2> QED BY <2>2, <2>3
<1> QED BY <1>2, <1>7 DEF Reaching

\* A pump that moves, and only moves, leaves the others where they are.
LEMMA ReachingPump ==
  ASSUME Typed, Reaching, NEW s \in Sessions, pc[s] \notin {"collect", "detach"},
         pc' = [pc EXCEPT ![s] = pc'[s]], UNCHANGED <<todo, closed>>, subs' \subseteq subs,
         \A r \in Sessions \ {s} :
           /\ hand'[r] = hand[r] /\ chan'[r] = chan[r]
           /\ r \in got' <=> r \in got
           /\ r \in viewed' <=> r \in viewed
           /\ r \in subs' <=> r \in subs,
         Tracked(s)'
  PROVE  Reaching'
<1>1. \A t \in Closers : t # s => pc'[t] = pc[t]
  BY Names DEF Typed, Places
<1>2. Sealed' BY <1>1, SealedStill DEF Reaching
<1>3. ASSUME NEW r \in Sessions PROVE Tracked(r)'
  <2>1. CASE r = s BY <2>1
  <2>2. CASE r # s
    <3>1. pc'[r] = pc[r] BY <1>1, <2>2, Names
    <3>2. Listed(r) => Listed(r)' BY <1>1, <2>2, ListedStill
    <3>3. Tracked(r) BY DEF Reaching
    <3> QED BY <2>2, <3>1, <3>2, <3>3, TrackedStill
  <2> QED BY <2>1, <2>2
<1> QED BY <1>2, <1>3 DEF Reaching

\* The hand of a pump, by its kind.
LEMMA HandIs ==
  ASSUME Typed, NEW s \in Sessions
  PROVE  /\ hand[s].kind = "cut" => hand[s] = Cut(s)
         /\ PlaceOK(s, pc[s], hand[s], s \in started) /\ hand[s] \in Hands(s)
<1>1. PlaceOK(s, pc[s], hand[s], s \in started) /\ hand[s] \in Hands(s)
  BY DEF Typed, Places, PlaceOK
<1> QED BY <1>1, Kinds DEF Hands, Outputs

\* A session whose pump alone moved, with its channel and registration as they were.
LEMMA WalksTracked ==
  ASSUME Typed, Reaching, NEW s \in Sessions, NEW p,
         pc[s] \in {"emit", "put", "cut", "cut set"} \cup (Tearing \ {"detach"}),
         pc'[s] = p, UNCHANGED <<got, viewed, chan, todo>>,
         s \in subs' <=> s \in subs, \A t \in Closers \ {s} : pc'[t] = pc[t],
         hand'[s] = hand[s] \/ hand'[s] = None,
         hand'[s] # hand[s] => p = Resume(s),
         p \in {Resume(s), "put", "cut", "cut set"} \cup Tearing
  PROVE  Tracked(s)'
<1>1. Tracked(s) BY DEF Reaching
<1>2. Listed(s) => Listed(s)' BY DEF Listed, Tearing
<1>3. Woken(s) => Woken(s)' BY DEF Woken
<1>4. pc[s] \notin {"none", "attach", "last", "done", "register", "detach self", "drain"}
  BY DEF Tearing
<1>5. hand'[s].kind \in {hand[s].kind, "none"} BY Kinds
<1>6. CASE p # Resume(s)
  <2>1. hand'[s] = hand[s] BY <1>6
  <2>2. p \in {"put", "cut", "cut set"} \cup Tearing BY <1>6
  <2>3. Looping(s)' => Looping(s) BY <2>1 DEF Looping
  <2>4. Loose(s)' => Loose(s) BY <2>1, <2>2 DEF Loose, Tearing
  <2>5. p \notin {"none", "attach", "register", "drain", "detach self"} BY <2>2 DEF Tearing
  <2> QED BY <1>1, <1>2, <1>3, <1>4, <2>1, <2>3, <2>4, <2>5 DEF Tracked
<1>7. CASE p = Resume(s)
  <2>1. CASE hand[s].kind = "exit"
    <3>1. p = "done" /\ Loose(s) BY <1>7, <2>1 DEF Resume, Loose
    <3> QED BY <1>1, <3>1 DEF Tracked, Looping, Tearing
  <2>2. CASE hand[s].kind = "cut"
    <3>1. p = "release" BY <1>7, <2>2 DEF Resume
    <3>2. ~Loose(s)' BY <1>5, <2>2, <3>1 DEF Loose
    <3> QED BY <1>1, <1>2, <1>4, <3>1, <3>2 DEF Tracked, Looping, Tearing
  <2>3. CASE hand[s].kind \notin {"exit", "cut"}
    <3>1. hand'[s].kind \notin {"exit", "cut"} BY <1>5, <2>3
    <3>2. CASE s \in got
      <4>1. p = "drain" BY <1>7, <2>3, <3>2 DEF Resume
      <4>2. Looping(s) BY <2>3, <3>2 DEF Looping
      <4>3. ~Loose(s)' BY <3>1, <4>1 DEF Loose
      <4> QED BY <1>1, <1>2, <1>3, <1>4, <3>1, <3>2, <4>1, <4>2, <4>3 DEF Tracked
    <3>3. CASE s \notin got
      <4>1. p = "last" BY <1>7, <2>3, <3>3 DEF Resume
      <4> QED BY <1>1, <3>3, <4>1 DEF Tracked, Looping
    <3> QED BY <3>2, <3>3
  <2> QED BY <2>1, <2>2, <2>3
<1> QED BY <1>6, <1>7

\* A pump that attaches, registers, reads its channel or lets go of it.
LEMMA PumpReaches ==
  ASSUME Typed, Reaching, NEW s \in Sessions,
         Attach(s) \/ RegisterPump(s) \/ Drain(s) \/ Unregister(s) \/ DetachSelf(s) \/ Last(s)
  PROVE  Reaching'
<1> DEFINE Others == \A r \in Sessions \ {s} :
             /\ hand'[r] = hand[r] /\ chan'[r] = chan[r]
             /\ r \in got' <=> r \in got
             /\ r \in viewed' <=> r \in viewed
             /\ r \in subs' <=> r \in subs
<1>1. /\ Tracked(s) /\ s \in Threads /\ s \in Closers /\ pc \in [Threads -> Points]
      /\ hand \in [Sessions -> UNION {Hands(r) : r \in Sessions}]
      /\ chan \in [Sessions -> Seq(Items)] /\ chan[s] \in Seq(Items)
      /\ PlaceOK(s, pc[s], hand[s], s \in started) /\ hand[s] \in Hands(s)
  BY Names, HandIs DEF Reaching, Typed, Places, Scenes
<1>2. ASSUME NEW at, NEW p, Go(s, at, p), at \notin {"collect", "detach"},
             UNCHANGED <<todo, closed>>, subs' \subseteq subs, Others, Tracked(s)'
      PROVE  Reaching'
  <2>1. pc[s] = at /\ pc' = [pc EXCEPT ![s] = pc'[s]] BY <1>1, <1>2 DEF Go
  <2> QED BY <1>2, <2>1, ReachingPump
<1>3. ASSUME Detached(s) PROVE s \notin viewed' /\ Woken(s)'
  BY <1>3, DetachedWakes
<1>4. CASE Attach(s)
  <2>1. /\ pc[s] = "attach" /\ pc'[s] = "register" /\ Go(s, "attach", "register")
        /\ s \notin got /\ s \notin viewed /\ s \notin subs
    BY <1>1, <1>4 DEF Attach, Go, Tracked, Loose
  <2>2. UNCHANGED <<todo, closed, subs, chan>> BY <1>4 DEF Attach, closing, flags
  <2>3. hand'[s].kind \in {"output", "none"} BY <1>1, <1>4, Kinds DEF Attach
  <2>4. s \in viewed' <=> s \in got' BY <1>4, <2>1 DEF Attach
  <2>5. Tracked(s)' BY <2>1, <2>2, <2>3, <2>4 DEF Tracked, Looping, Loose
  <2>6. Others BY <1>1, <1>4, <2>2 DEF Attach
  <2> QED BY <1>2, <2>1, <2>2, <2>5, <2>6
<1>5. CASE RegisterPump(s)
  <2>1. /\ pc[s] = "register" /\ UNCHANGED <<todo, closed, hand, got>> /\ s \notin subs
        /\ hand[s].kind \notin {"exit", "cut"}
    BY <1>1, <1>5, Kinds
    DEF RegisterPump, Go, closing, flags, pump, Tracked, PlaceOK, Outputs
  <2>2. CASE s \in got /\ closed
    <3>1. Go(s, "register", "done") /\ Detached(s) /\ UNCHANGED subs
      BY <1>5, <2>2 DEF RegisterPump
    <3>2. pc'[s] = "done" BY <1>1, <3>1 DEF Go
    <3>3. Tracked(s)'
      BY <1>1, <1>3, <2>1, <3>1, <3>2 DEF Tracked, Looping, Loose, Tearing
    <3>4. Others BY <2>1, <3>1, DetachedWakes
    <3> QED BY <1>2, <2>1, <3>1, <3>3, <3>4
  <2>3. CASE ~(s \in got /\ closed)
    <3>1. /\ Go(s, "register", "emit") /\ UNCHANGED <<viewed, chan>>
          /\ subs' = IF s \in got THEN subs \cup {s} ELSE subs
      BY <1>5, <2>3 DEF RegisterPump
    <3>2. pc'[s] = "emit" BY <1>1, <3>1 DEF Go
    <3>3. ~Loose(s)' BY <2>1, <3>2 DEF Loose
    <3>4. Looping(s)' => Woken(s)' \/ s \in viewed'
      BY <1>1, <2>1, <3>1 DEF Tracked, Looping, Woken
    <3>5. s \in viewed' => Listed(s)' BY <1>1, <3>1 DEF Tracked, Listed
    <3>6. Tracked(s)' BY <1>1, <2>1, <3>1, <3>2, <3>3, <3>4, <3>5 DEF Tracked
    <3>7. CASE s \notin got
      <4>1. Others BY <2>1, <3>1
      <4> QED BY <1>2, <2>1, <3>1, <3>6, <3>7, <4>1
    <3>8. CASE s \in got
      <4>1. ~closed' BY <2>1, <2>3, <3>8
      <4>2. Sealed' BY <4>1 DEF Sealed
      <4>3. ASSUME NEW r \in Sessions PROVE Tracked(r)'
        <5>1. CASE r = s BY <3>6, <5>1
        <5>2. CASE r # s
          <6>1. pc'[r] = pc[r] /\ r \in Threads BY <1>1, <3>1, <5>2, Names DEF Go
          <6>2. Listed(r) => Listed(r)'
            <7>1. \A t \in Closers : pc[t] = "detach" => pc'[t] = "detach" /\ todo'[t] = todo[t]
              BY <1>1, <2>1, <3>1, Names DEF Go
            <7> QED BY <3>1, <7>1, ListedStill
          <6>3. Tracked(r) BY DEF Reaching
          <6> QED BY <2>1, <3>1, <5>2, <6>1, <6>2, <6>3, TrackedStill
        <5> QED BY <5>1, <5>2
      <4> QED BY <4>2, <4>3 DEF Reaching
    <3> QED BY <3>7, <3>8
  <2> QED BY <2>2, <2>3
<1>6. CASE Drain(s)
  <2>1. /\ pc[s] = "drain" /\ UNCHANGED <<todo, closed, subs, viewed, got>>
        /\ chan[s] # <<>> /\ chan' = [chan EXCEPT ![s] = Tail(chan[s])]
    BY <1>6 DEF Drain, Go, closing, flags
  <2> DEFINE item == Head(chan[s])
  <2>2. item = chan[s][1] /\ item \in Items BY <1>1, <2>1
  <2>3. Looping(s) /\ s \in got BY <1>1, <2>1 DEF Tracked, Looping
  <2>4. /\ item.kind = "chunk" => pc'[s] = "emit" /\ hand'[s].kind = "output"
        /\ item.kind # "chunk" =>
             \/ pc'[s] = "cut" /\ hand'[s].kind = "cut"
             \/ pc'[s] = "release" /\ hand'[s].kind = "none"
    BY <1>1, <1>6, Kinds DEF Drain, Go
  <2>5. Listed(s) => Listed(s)'
    <3>1. \A t \in Closers : pc[t] = "detach" => pc'[t] = "detach"
      BY <1>1, <1>6, Names DEF Drain, Go
    <3> QED BY <2>1, <3>1, ListedStill
  <2>6. item.kind = "chunk" /\ Woken(s) => Woken(s)'
    <3> SUFFICES ASSUME item.kind = "chunk", Woken(s) PROVE Woken(s)' OBVIOUS
    <3>1. Len(chan[s]) > 1 BY <1>1, <2>1, <2>2 DEF Woken
    <3>2. /\ Len(Tail(chan[s])) = Len(chan[s]) - 1
          /\ Tail(chan[s])[Len(chan[s]) - 1] = chan[s][Len(chan[s])]
      BY <1>1, <2>1, <3>1
    <3>3. chan'[s] = Tail(chan[s]) BY <1>1, <2>1
    <3>4. Tail(chan[s]) \in Seq(Items) /\ Len(Tail(chan[s])) # 0 BY <1>1, <3>1, <3>2
    <3>5. Tail(chan[s]) # <<>>
      <4>1. Len(<<>>) = 0 OBVIOUS
      <4>2. ASSUME Tail(chan[s]) = <<>> PROVE Len(Tail(chan[s])) = Len(<<>>) BY <4>2
      <4> QED BY <3>4, <4>1, <4>2
    <3>6. chan'[s] # <<>> BY <3>3, <3>5
    <3>7. chan'[s][Len(chan'[s])] = chan[s][Len(chan[s])] BY <3>2, <3>3
    <3> QED BY <3>6, <3>7 DEF Woken
  <2> HIDE DEF item
  <2>7. Tracked(s)'
    <3>1. pc'[s] \in {"emit", "cut", "release"} /\ hand'[s].kind # "exit" BY <2>4
    <3>2. ~Loose(s)' BY <3>1 DEF Loose
    <3>3. Looping(s)' => item.kind = "chunk" BY <2>4 DEF Looping, Tearing
    <3> QED BY <1>1, <2>1, <2>3, <2>5, <2>6, <3>1, <3>2, <3>3 DEF Tracked
  <2>8. Others BY <1>1, <1>6, <2>1 DEF Drain
  <2>9. \E p : Go(s, "drain", p) BY <1>6 DEF Drain
  <2> QED BY <1>2, <2>1, <2>7, <2>8, <2>9
<1>7. CASE Unregister(s)
  <2>1. /\ Go(s, "release", "detach self") /\ subs' = subs \ {s}
        /\ UNCHANGED <<todo, closed, viewed, chan, got, hand>>
    BY <1>7 DEF Unregister, closing, flags, pump
  <2>2. pc[s] = "release" /\ pc'[s] = "detach self" BY <1>1, <2>1 DEF Go
  <2>3. Tracked(s)' BY <1>1, <2>1, <2>2 DEF Tracked, Looping, Loose, Tearing
  <2> QED BY <1>2, <2>1, <2>3
<1>8. CASE DetachSelf(s)
  <2>1. /\ pc[s] = "detach self" /\ Detached(s) /\ UNCHANGED <<todo, closed, subs, got, hand>>
        /\ Go(s, "detach self", IF hand[s].kind = "cut" THEN "done" ELSE "last")
    BY <1>8 DEF DetachSelf, Go, closing, flags, pump
  <2>2. pc'[s] \in {"done", "last"} BY <1>1, <2>1 DEF Go
  <2>3. Tracked(s)'
    BY <1>1, <1>3, <2>1, <2>2 DEF Tracked, Looping, Loose, Tearing
  <2>4. Others BY <2>1, DetachedWakes
  <2> QED BY <1>2, <2>1, <2>3, <2>4
<1>9. CASE Last(s)
  <2>1. /\ pc[s] = "last" /\ UNCHANGED <<todo, closed, subs, got, viewed, chan>>
        /\ s \notin viewed /\ s \notin subs /\ \E p : Go(s, "last", p)
    BY <1>1, <1>9 DEF Last, Go, closing, flags, Tracked, Loose
  <2>2. \/ pc'[s] = "emit" /\ hand'[s].kind = "exit"
        \/ pc'[s] = "done" /\ hand'[s] = hand[s]
    BY <1>1, <1>9, Kinds DEF Last, Go
  <2>3. Tracked(s)'
    BY <1>1, <2>1, <2>2 DEF Tracked, Looping, Tearing
  <2>4. Others BY <1>1, <1>9, <2>1 DEF Last
  <2> QED BY <1>2, <2>1, <2>3, <2>4
<1> QED BY <1>4, <1>5, <1>6, <1>7, <1>8, <1>9

\* A thread that closes the stream reaches every channel that is registered.
LEMMA ClosesReaching ==
  ASSUME Typed, Reaching, NEW t \in Closers, Close(t) PROVE Reaching'
<1>1. pc \in [Threads -> Points] /\ t \in Threads BY Names DEF Typed, Places
<1>2. ASSUME NEW r \in Sessions PROVE Tracked(r) /\ r \in Threads /\ r \in Closers
  BY Names DEF Reaching
<1>3. UNCHANGED <<hand, got>> BY DEF Close, Shut, Collect, Detach, pump
<1>4. PICK p \in Tearing : pc[t] \in Tearing /\ Go(t, pc[t], p)
  BY DEF Close, Shut, Collect, Detach, Go, Tearing
<1>5. \A u \in Threads : pc'[u] = IF u = t THEN p ELSE pc[u] BY <1>1, <1>4 DEF Go
<1>6. ASSUME NEW r \in Sessions, subs' \subseteq subs, r \in viewed' => r \in viewed,
             r \in viewed' /\ Listed(r) => Listed(r)',
             r \in viewed' \/ Woken(r)' \/ (r \notin viewed /\ chan'[r] = chan[r])
      PROVE Tracked(r)'
  <2>1. CASE r # t
    <3>1. pc'[r] = pc[r] BY <1>2, <1>5, <2>1
    <3> QED BY <1>2, <1>3, <1>6, <3>1, TrackedStill
  <2>2. CASE r = t
    <3>1. pc[r] \in Tearing /\ pc'[r] \in Tearing BY <1>2, <1>4, <1>5, <2>2
    <3>2. pc[r] \notin {"register", "drain", "detach self", "none", "attach", "last", "done"}
      BY <3>1 DEF Tearing
    <3>3. pc'[r] \notin {"register", "drain", "detach self", "none", "attach", "last", "done"}
      BY <3>1 DEF Tearing
    <3>4. Looping(r)' => Looping(r) BY <1>3, <3>1 DEF Looping
    <3>5. Loose(r)' => Loose(r) BY <1>3, <3>3 DEF Loose
    <3>6. Woken(r) /\ chan'[r] = chan[r] => Woken(r)' BY DEF Woken
    <3> QED BY <1>2, <1>3, <1>6, <3>2, <3>3, <3>4, <3>5, <3>6 DEF Tracked
  <2> QED BY <2>1, <2>2
<1>7. CASE Shut(t)
  <2>1. /\ UNCHANGED <<viewed, chan, subs, todo>> /\ pc[t] = "shut" /\ pc'[t] = "collect"
    BY <1>1, <1>7 DEF Shut, Go, closing
  <2>2. Sealed' BY <2>1 DEF Sealed
  <2>3. ASSUME NEW r \in Sessions PROVE Tracked(r)'
    <3>1. Listed(r) => Listed(r)' BY <1>5, <2>1, ListedStill, Names
    <3>2. r \in viewed' \/ Woken(r)' \/ (r \notin viewed /\ chan'[r] = chan[r]) BY <2>1
    <3> QED BY <1>6, <2>1, <3>1, <3>2
  <2> QED BY <2>2, <2>3 DEF Reaching
<1>8. CASE Collect(t)
  <2>1. /\ UNCHANGED <<viewed, chan>> /\ pc[t] = "collect" /\ pc'[t] = "detach"
        /\ todo' = [todo EXCEPT ![t] = subs] /\ subs' = {}
        /\ todo \in [Closers -> SUBSET Sessions]
    BY <1>1, <1>8 DEF Collect, Go, Typed, Stream
  <2>2. Sealed' BY <2>1 DEF Sealed
  <2>3. ASSUME NEW r \in Sessions PROVE Tracked(r)'
    <3>1. Listed(r) => Listed(r)'
      <4>1. CASE r \in subs BY <2>1, <4>1 DEF Listed
      <4>2. ASSUME NEW u \in Closers, pc[u] = "detach", r \in todo[u] PROVE Listed(r)'
        <5>1. u # t /\ u \in Threads BY <2>1, <4>2, Names
        <5>2. pc'[u] = "detach" /\ r \in todo'[u] BY <1>5, <2>1, <4>2, <5>1
        <5> QED BY <5>2 DEF Listed
      <4> QED BY <4>1, <4>2 DEF Listed
    <3>2. r \in viewed' \/ Woken(r)' \/ (r \notin viewed /\ chan'[r] = chan[r]) BY <2>1
    <3> QED BY <1>6, <2>1, <3>1, <3>2
  <2> QED BY <2>2, <2>3 DEF Reaching
<1>9. CASE Detach(t)
  <2>1. /\ UNCHANGED <<subs, closed>> /\ pc[t] = "detach"
        /\ todo \in [Closers -> SUBSET Sessions]
    BY <1>9 DEF Detach, Go, flags, Typed, Stream
  <2>2. Sealed'
    <3>1. \A u \in Closers : pc[u] = "collect" => pc'[u] = "collect" BY <1>5, <2>1, Names
    <3> QED BY <2>1, <3>1, SealedStill DEF Reaching
  <2>3. CASE todo[t] = {}
    <3>1. UNCHANGED <<todo, viewed, chan>> BY <1>9, <2>3 DEF Detach
    <3>2. ASSUME NEW r \in Sessions PROVE Tracked(r)'
      <4>1. Listed(r) => Listed(r)'
        <5>1. ASSUME NEW u \in Closers, pc[u] = "detach", r \in todo[u] PROVE Listed(r)'
          <6>1. u # t /\ u \in Threads BY <2>3, <5>1, Names
          <6>2. pc'[u] = "detach" /\ r \in todo'[u] BY <1>5, <3>1, <5>1, <6>1
          <6> QED BY <6>2 DEF Listed
        <5>2. r \in subs => Listed(r)' BY <2>1 DEF Listed
        <5> QED BY <5>1, <5>2 DEF Listed
      <4> QED BY <1>6, <2>1, <3>1, <4>1
    <3> QED BY <2>2, <3>2 DEF Reaching
  <2>4. CASE todo[t] # {}
    <3>1. PICK s \in todo[t] : Detached(s) /\ todo' = [todo EXCEPT ![t] = todo[t] \ {s}]
      BY <1>9, <2>4 DEF Detach
    <3>2. s \in Sessions BY <2>1
    <3>3. pc'[t] = "detach" BY <1>1, <1>9, <2>4 DEF Detach, Go
    <3>4. /\ s \notin viewed' /\ Woken(s)'
          /\ \A r \in Sessions \ {s} : chan'[r] = chan[r] /\ (r \in viewed' <=> r \in viewed)
      BY <3>1, <3>2, DetachedWakes
    <3>5. ASSUME NEW r \in Sessions PROVE Tracked(r)'
      <4>1. CASE r = s BY <1>6, <2>1, <3>4, <4>1
      <4>2. CASE r # s
        <5>1. Listed(r) => Listed(r)'
          <6>1. ASSUME NEW u \in Closers, pc[u] = "detach", r \in todo[u] PROVE Listed(r)'
            <7>1. u \in Threads BY Names
            <7>2. pc'[u] = "detach" /\ r \in todo'[u]
              BY <1>5, <2>1, <3>1, <3>3, <4>2, <6>1, <7>1
            <7> QED BY <7>2 DEF Listed
          <6>2. r \in subs => Listed(r)' BY <2>1 DEF Listed
          <6> QED BY <6>1, <6>2 DEF Listed
        <5> QED BY <1>6, <2>1, <3>4, <4>2, <5>1
      <4> QED BY <4>1, <4>2
    <3> QED BY <2>2, <3>5 DEF Reaching
  <2> QED BY <2>3, <2>4
<1> QED BY <1>7, <1>8, <1>9 DEF Close

\* Every step keeps the teardown within reach of every pump.
LEMMA ReachingStep == ASSUME Typed, Reaching, [Next]_vars PROVE Reaching'
<1>1. pc \in [Threads -> Points] /\ todo \in [Closers -> SUBSET Sessions]
  BY DEF Typed, Places, Stream
<1>2. ASSUME NEW s \in Sessions, Emit(s) \/ Put(s) \/ CutTest(s) \/ CutSet(s) \/ Interrupt(s)
      PROVE Reaching'
  <2>1. s \in Threads /\ s # Handler /\ s # Heartbeat BY Names
  <2>2. UNCHANGED <<got, viewed, chan, todo, subs, closed>>
    BY <1>2 DEF Emit, Put, CutTest, CutSet, Interrupt, Wake, Evict, pump, closing, flags
  <2>3. PICK p \in {Resume(s), "put", "cut", "cut set"} \cup Tearing :
          /\ pc' = [pc EXCEPT ![s] = p]
          /\ pc[s] \in {"emit", "put", "cut", "cut set", "wake", "evict"}
          /\ \/ hand' = hand
             \/ hand' = [hand EXCEPT ![s] = None] /\ p = Resume(s)
    BY <1>2, <2>1
    DEF Emit, Put, CutTest, CutSet, Interrupt, Wake, Evict, Go, pump, AfterWake, AfterClose,
        Tearing
  <2>4. pc'[s] = p BY <1>1, <2>1, <2>3
  <2>5. hand \in [Sessions -> UNION {Hands(r) : r \in Sessions}] BY DEF Typed, Places
  <2>6. /\ hand'[s] = hand[s] \/ hand'[s] = None
        /\ hand'[s] # hand[s] => p = Resume(s)
        /\ \A r \in Sessions \ {s} : hand'[r] = hand[r]
    BY <2>3, <2>5
  <2>7. pc[s] \in {"emit", "put", "cut", "cut set"} \cup (Tearing \ {"detach"})
    BY <2>3 DEF Tearing
  <2>8. \A t \in Closers \ {s} : pc'[t] = pc[t] BY <1>1, <2>3, Names
  <2>9. Tracked(s)' BY <2>2, <2>3, <2>4, <2>6, <2>7, <2>8, WalksTracked
  <2> QED BY <2>2, <2>3, <2>4, <2>6, <2>9, ReachingPump
<1>3. ASSUME NEW s \in Sessions, StartPump(s),
             UNCHANGED <<hand, got, subs, viewed, chan, closed>>,
             \A t \in Closers : pc[t] = "detach" => todo'[t] = todo[t]
      PROVE Reaching'
  <2>1. CASE UNCHANGED pc BY <1>3, <2>1, ReachingAlone
  <2>2. CASE s \notin started /\ pc' = [pc EXCEPT ![s] = "attach"]
    <3>1. s \in Threads /\ pc[s] = "none" /\ pc'[s] = "attach"
      BY <1>1, <2>2, Names DEF Typed, Places, PlaceOK
    <3>2. \A t \in Threads \ {s} : pc'[t] = pc[t] BY <1>1, <2>2
    <3>3. Sealed' BY <1>3, <3>1, <3>2, SealedStill, Names DEF Reaching
    <3>4. ASSUME NEW r \in Sessions PROVE Tracked(r)'
      <4>1. Tracked(r) /\ r \in Threads BY Names DEF Reaching
      <4>2. CASE r = s BY <1>3, <3>1, <4>1, <4>2 DEF Tracked, Looping, Loose, Tearing
      <4>3. CASE r # s
        <5>1. Listed(r) => Listed(r)' BY <1>3, <3>1, <3>2, ListedStill, Names
        <5> QED BY <1>3, <3>2, <4>1, <4>3, <5>1, TrackedStill
      <4> QED BY <4>2, <4>3
    <3> QED BY <3>3, <3>4 DEF Reaching
  <2> QED BY <1>3, <2>1, <2>2 DEF StartPump
<1>4. ASSUME NEW s \in Sessions, Pump(s) PROVE Reaching'
  <2>1. CASE Close(s) BY <2>1, ClosesReaching, Names
  <2>2. CASE Emit(s) \/ Put(s) \/ CutTest(s) \/ CutSet(s) \/ Interrupt(s) BY <1>2, <2>2
  <2>3. CASE Attach(s) \/ RegisterPump(s) \/ Drain(s) \/ Unregister(s) \/ DetachSelf(s) \/ Last(s)
    BY <2>3, PumpReaches
  <2> QED BY <1>4, <2>1, <2>2, <2>3 DEF Pump
<1>5. ASSUME NEW s \in Sessions, Announce(s) PROVE Reaching'
  <2>1. UNCHANGED <<hand, got, subs, viewed, chan, closed, todo>>
    BY <1>5 DEF Announce, flags, closing, pump
  <2>2. StartPump(s) \/ UNCHANGED <<started, pc>> BY <1>5 DEF Announce
  <2>3. CASE UNCHANGED <<started, pc>> BY <2>1, <2>3, ReachingAlone
  <2> QED BY <1>3, <2>1, <2>2, <2>3
<1>6. ASSUME NEW t \in {Handler, Heartbeat}, NEW p, NEW at, pc[t] = at,
             at \notin {"detach", "collect"}, pc' = [pc EXCEPT ![t] = p],
             UNCHANGED <<hand, got, subs, viewed, chan, closed>>,
             \A u \in Closers : pc[u] = "detach" => todo'[u] = todo[u]
      PROVE Reaching'
  <2>1. \A u \in Threads \ {t} : pc'[u] = pc[u] BY <1>1, <1>6
  <2>2. t \notin Sessions BY <1>6, Names
  <2>3. \A s \in Sessions : pc'[s] = pc[s] BY <2>1, <2>2, Names
  <2>4. \A u \in Closers : pc[u] = "detach" => pc'[u] = "detach" /\ todo'[u] = todo[u]
    BY <1>6, <2>1, Names
  <2>5. \A u \in Closers : pc[u] = "collect" => pc'[u] = "collect" BY <1>6, <2>1, Names
  <2> QED BY <1>6, <2>3, <2>4, <2>5, ReachingAlone
<1>11. CASE Waits
  <2>1. UNCHANGED <<hand, got, subs, viewed, chan, closed, todo>>
    BY <1>11 DEF Waits, Untouched, pump, flags, closing
  <2>2. PICK t \in {Handler, Heartbeat} :
          \E p : pc' = [pc EXCEPT ![t] = p] /\ pc[t] \notin {"detach", "collect"}
    BY <1>11 DEF Waits
  <2> QED BY <1>6, <2>1, <2>2
<1>12. CASE Sent \/ Raised
  <2>1. UNCHANGED <<hand, got, subs, viewed, chan, closed, todo>>
    BY <1>12 DEF Sent, Raised, Untouched, pump, flags, closing
  <2>2. PICK p : pc' = [pc EXCEPT ![Handler] = p] /\ pc[Handler] \notin {"detach", "collect"}
    BY <1>12 DEF Sent, Raised, Writing
  <2> QED BY <1>6, <2>1, <2>2
<1>7. CASE Handle
  <2>1. CASE Close(Handler) BY <2>1, ClosesReaching, Names
  <2>2. CASE Interrupt(Handler) \/ Listen \/ LiveSessions \/ Get \/ Stop
    <3>1. UNCHANGED <<hand, got, subs, viewed, chan, closed>>
      BY <2>2 DEF Interrupt, Wake, Evict, Listen, LiveSessions, Get, Stop, pump, flags
    <3>2. PICK p : /\ pc' = [pc EXCEPT ![Handler] = p]
                   /\ pc[Handler] \notin {"detach", "collect"}
      BY <2>2 DEF Interrupt, Wake, Evict, Listen, LiveSessions, Get, Stop, Go
    <3>3. \A u \in Closers : pc[u] = "detach" => todo'[u] = todo[u]
      <4>1. CASE LiveSessions
        <5>1. /\ pc[Handler] = "snapshot"
              /\ todo' = [todo EXCEPT ![Handler] = {s \in Sessions : born[s] # "absent"}]
          BY <4>1 DEF LiveSessions, Go
        <5> QED BY <1>1, <5>1
      <4> QED BY <2>2, <4>1 DEF Interrupt, Wake, Evict, Listen, Get, Stop, closing
    <3> QED BY <1>6, <3>1, <3>2, <3>3
  <2>3. CASE StartEach
    <3>1. PICK s \in todo[Handler] :
            StartPump(s) /\ todo' = [todo EXCEPT ![Handler] = todo[Handler] \ {s}]
      BY <2>3 DEF StartEach
    <3>2. /\ UNCHANGED <<hand, got, subs, viewed, chan, closed>> /\ pc[Handler] = "start"
          /\ s \in Sessions
      BY <1>1, <2>3, <3>1, Names DEF StartEach, pump, flags
    <3>3. \A u \in Closers : pc[u] = "detach" => todo'[u] = todo[u] BY <1>1, <3>1, <3>2
    <3> QED BY <1>3, <3>1, <3>2, <3>3
  <2>4. CASE Ready
    <3>1. /\ UNCHANGED <<hand, got, subs, viewed, chan, closed, todo>> /\ pc[Handler] = "start"
          /\ pc' = [pc EXCEPT ![Handler] = "write", ![Heartbeat] = "beat"]
      BY <2>4 DEF Ready, pump, flags, closing
    <3>2. \A u \in Threads \ {Handler, Heartbeat} : pc'[u] = pc[u] BY <1>1, <3>1
    <3>3. \A s \in Sessions : pc'[s] = pc[s] BY <3>2, Names
    <3>4. \A u \in Closers : pc[u] \in {"detach", "collect"} => pc'[u] = pc[u]
      BY <3>1, <3>2, Names
    <3> QED BY <3>1, <3>3, <3>4, ReachingAlone
  <2> QED BY <1>7, <2>1, <2>2, <2>3, <2>4, <1>11, <1>12, Writes DEF Handle
<1>8. CASE Keepalive
  <2>1. UNCHANGED <<hand, got, subs, viewed, chan, closed, todo>>
    BY <1>8 DEF Keepalive, Beat, Interrupt, Wake, Evict, pump, flags, closing
  <2>2. PICK p : /\ pc' = [pc EXCEPT ![Heartbeat] = p]
                 /\ pc[Heartbeat] \notin {"detach", "collect"}
    BY <1>8 DEF Keepalive, Beat, KeepaliveFails, Interrupt, Wake, Evict, Go
  <2> QED BY <1>6, <2>1, <2>2
<1>9. CASE Environment
  <2>1. CASE Disconnect \/ \E s \in Sessions : Register(s)
    BY <2>1, ReachingAlone DEF Disconnect, Register, pump, flags, closing
  <2>2. CASE \E s \in Sessions : Prints(s) \/ Finish(s) BY <2>2, ReachingPrints
  <2> QED BY <1>9, <2>1, <2>2, <1>11, <1>12, Writes DEF Environment
<1>10. CASE UNCHANGED vars BY <1>10, ReachingAlone DEF vars
<1> QED BY <1>4, <1>5, <1>7, <1>8, <1>9, <1>10 DEF Next

\* Every pump can be reached by whoever closes the stream, and none that ended left
\* anything registered.
LEMMA ReachingInductive == Spec => [](Typed /\ Reaching)
<1>1. Init => Reaching
  <2> SUFFICES ASSUME Init PROVE Reaching OBVIOUS
  <2>1. Sealed BY DEF Init, Sealed
  <2>2. ASSUME NEW s \in Sessions PROVE Tracked(s)
    <3>1. pc[s] = "none" /\ s \notin got /\ s \notin viewed /\ s \notin subs BY Names DEF Init
    <3> QED BY <3>1 DEF Tracked, Looping, Loose, Tearing
  <2> QED BY <2>1, <2>2 DEF Reaching
<1>2. Typed /\ Typed' /\ Reaching /\ [Next]_vars => Reaching' BY ReachingStep
<1> QED BY <1>1, <1>2, TypedInductive, PTL DEF Spec

\* PumpsWoken and NothingLeftBehind: close() reaches every pump, those that were registering
\* meanwhile included, and a pump that ends leaves no channel and no subscription.
THEOREM PumpsReached == Spec => [](PumpsWoken /\ NothingLeftBehind)
<1>1. Typed /\ Reaching => PumpsWoken /\ NothingLeftBehind
  <2> SUFFICES ASSUME Typed, Reaching PROVE PumpsWoken /\ NothingLeftBehind OBVIOUS
  <2>1. ASSUME closed, \A t \in Closers : pc[t] \notin {"collect", "detach"},
               NEW s \in Sessions, pc[s] = "drain"
        PROVE  \E i \in DOMAIN chan[s] : chan[s][i].kind # "chunk"
    <3>1. Tracked(s) /\ chan[s] \in Seq(Items) BY DEF Reaching, Typed, Scenes
    <3>2. Looping(s) BY <2>1, <3>1 DEF Tracked, Looping
    <3>3. s \notin subs BY <2>1 DEF Reaching, Sealed
    <3>4. ~Listed(s) BY <2>1, <3>3 DEF Listed
    <3>5. Woken(s) BY <2>1, <3>1, <3>2, <3>4 DEF Tracked
    <3>6. Len(chan[s]) \in DOMAIN chan[s] BY <3>1, <3>5 DEF Woken
    <3> QED BY <3>5, <3>6 DEF Woken
  <2>2. NothingLeftBehind BY DEF NothingLeftBehind, Reaching, Tracked, Loose
  <2> QED BY <2>1, <2>2 DEF PumpsWoken
<1> QED BY <1>1, ReachingInductive, PTL
-----------------------------------------------------------------------------
(* The sentinel of interrupt().                                            *)

\* The handler still reads the queue.
Serving == pc[Handler] \notin Gone

\* The threads that may still put something into the queue of a stream that is cut.
May ==
  {s \in Sessions : pc[s] \in {"put", "cut set"} \cup Tearing}
    \cup {t \in {Heartbeat} : pc[t] # "done"}

FullQueue == IF Len(queue) = Capacity THEN 1 ELSE 0

\* A pump in interrupt() has more tries than others have things to put.
Enough(t) ==
  /\ pc[t] = "wake" => Cardinality(May \ {t}) + FullQueue < tries[t]
  /\ pc[t] = "evict" => Cardinality(May \ {t}) < tries[t]

Sentinel == \E i \in 1..Len(queue) : queue[i] = None
Past == Tearing \ {"shut"}

\* Somebody will put a sentinel.
Rescuer ==
  \/ \E t \in Sessions : pc[t] \in Past
  \/ pc[Heartbeat] \in {"wake", "evict"}

ClosedFirst == \A t \in Sessions : pc[t] \in Past => closed

Rescue ==
  /\ ClosedFirst
  /\ Serving => /\ \A t \in Sessions : Enough(t)
                /\ closed => Sentinel \/ Rescuer

\* The heartbeat's own interrupt() does not run out of tries, as it may while pumps, not cut
\* yet, refill the queue each time.
HeartbeatGetsThrough == ~(pc[Heartbeat] = "wake" /\ tries[Heartbeat] = 0)

\* The threads that may still put are a finite set, of which one more is not counted.
LEMMA MayIsFinite ==
  ASSUME IsFiniteSet(Sessions), NEW t \in Sessions
  PROVE  /\ IsFiniteSet(May \ {t}) /\ Cardinality(May \ {t}) \in Nat
         /\ Cardinality(May \ {t}) <= Cardinality(Sessions) /\ Cardinality(Sessions) \in Nat
<1> DEFINE All == (Sessions \ {t}) \cup {Heartbeat}
<1>1. Heartbeat \notin Sessions BY Names
<1>2. IsFiniteSet(Sessions \ {t}) /\ Cardinality(Sessions \ {t}) = Cardinality(Sessions) - 1
  BY FS_RemoveElement
<1>3. IsFiniteSet(All) /\ Cardinality(All) = Cardinality(Sessions \ {t}) + 1
  BY <1>1, <1>2, FS_AddElement
<1>4. Cardinality(Sessions) \in Nat BY FS_CardinalityType
<1>5. May \ {t} \in SUBSET All BY DEF May
<1>6. IsFiniteSet(May \ {t}) /\ Cardinality(May \ {t}) <= Cardinality(All)
  BY <1>3, <1>5, FS_Subset
<1> HIDE DEF All
<1> QED BY <1>2, <1>3, <1>4, <1>6, FS_CardinalityType

\* A pump keeps enough tries when others only take from the queue, or put and are through.
LEMMA EnoughStill ==
  ASSUME IsFiniteSet(Sessions), NEW t \in Sessions, Enough(t),
         pc'[t] = pc[t], tries'[t] = tries[t], tries[t] \in Nat, May' \subseteq May,
         FullQueue' <= FullQueue \/ \E u \in May \ {t} : u \notin May'
  PROVE  Enough(t)'
<1>1. /\ IsFiniteSet(May \ {t}) /\ Cardinality(May \ {t}) \in Nat
  BY MayIsFinite
<1>2. FullQueue \in {0, 1} /\ FullQueue' \in {0, 1} BY DEF FullQueue
<1>3. CASE FullQueue' <= FullQueue
  <2>1. May' \ {t} \in SUBSET (May \ {t}) OBVIOUS
  <2>2. IsFiniteSet(May' \ {t}) /\ Cardinality(May' \ {t}) <= Cardinality(May \ {t})
    BY <1>1, <2>1, FS_Subset
  <2>3. Cardinality(May' \ {t}) \in Nat BY <2>2, FS_CardinalityType
  <2> QED BY <1>1, <1>2, <1>3, <2>2, <2>3 DEF Enough
<1>4. CASE \E u \in May \ {t} : u \notin May'
  <2>1. PICK u \in May \ {t} : u \notin May' BY <1>4
  <2>2. /\ IsFiniteSet((May \ {t}) \ {u})
        /\ Cardinality((May \ {t}) \ {u}) = Cardinality(May \ {t}) - 1
    BY <1>1, <2>1, FS_RemoveElement
  <2>3. May' \ {t} \in SUBSET ((May \ {t}) \ {u}) BY <2>1
  <2>4. /\ IsFiniteSet(May' \ {t})
        /\ Cardinality(May' \ {t}) <= Cardinality((May \ {t}) \ {u})
    BY <2>2, <2>3, FS_Subset
  <2>5. Cardinality(May' \ {t}) \in Nat BY <2>4, FS_CardinalityType
  <2>6. Cardinality(May' \ {t}) <= Cardinality(May \ {t}) - 1 BY <2>2, <2>4
  <2> QED BY <1>1, <1>2, <2>5, <2>6 DEF Enough
<1> QED BY <1>3, <1>4

\* A cut, and a step of one thread, add nobody to those who may put.
LEMMA MayShrinks ==
  ASSUME Typed, Undisturbed, Serving, closed, NEW s \in Sessions, Pump(s)
  PROVE  May' \subseteq May
<1>1. desynced BY DEF Undisturbed, Serving
<1>2. PICK p : pc' = [pc EXCEPT ![s] = p] /\ p = pc'[s]
  BY Names DEF Pump, Attach, RegisterPump, Emit, Put, Drain, Unregister, DetachSelf, Last, CutTest,
         CutSet, Close, Interrupt, Shut, Collect, Detach, Wake, Evict, Go, Typed, Places
<1>3. p \in {"put", "cut set"} \cup Tearing => pc[s] \in {"put", "cut set"} \cup Tearing
  <2>1. s \in Threads /\ pc \in [Threads -> Points] BY Names DEF Typed, Places
  <2>2. CASE Put(s) \/ CutSet(s) BY <2>2 DEF Put, CutSet, Go
  <2>3. CASE Close(s) \/ Interrupt(s)
    BY <2>3 DEF Close, Interrupt, Shut, Collect, Detach, Wake, Evict, Go, Tearing
  <2>4. CASE Emit(s) \/ CutTest(s)
    <3>1. p = Resume(s) \/ (Emit(s) /\ ~closed) \/ (CutTest(s) /\ ~desynced)
      BY <1>2, <2>1, <2>4 DEF Emit, CutTest, Go
    <3> QED BY <1>1, <3>1, Resumes DEF Tearing
  <2>5. CASE Attach(s) \/ RegisterPump(s) \/ Drain(s) \/ Unregister(s) \/ DetachSelf(s) \/ Last(s)
    <3>1. p \in {"register", "done", "emit", "cut", "release", "detach self", "last"}
      BY <1>2, <2>1, <2>5 DEF Attach, RegisterPump, Drain, Unregister, DetachSelf, Last, Go
    <3> QED BY <3>1 DEF Tearing
  <2> QED BY <2>2, <2>3, <2>4, <2>5 DEF Pump
<1>4. \A t \in Threads : t # s => pc'[t] = pc[t] BY <1>2 DEF Typed, Places
<1>5. pc'[Heartbeat] = pc[Heartbeat] BY <1>4, Names
<1> QED BY <1>2, <1>3, <1>4, <1>5, Names DEF May

\* Steps that put nothing, and leave those who put alone.
LEMMA RescueStill ==
  ASSUME IsFiniteSet(Sessions), Typed, Rescue, Serving,
         FullQueue' <= FullQueue, Sentinel => Sentinel', closed' = closed, UNCHANGED tries,
         closed => May' \subseteq May,
         \A t \in Sessions : (pc[t] \in Past \/ pc'[t] \in Past) => pc'[t] = pc[t],
         pc[Heartbeat] \in {"wake", "evict"} => pc'[Heartbeat] = pc[Heartbeat]
  PROVE  Rescue'
<1>1. ClosedFirst' BY DEF Rescue, ClosedFirst
<1>2. ASSUME NEW t \in Sessions PROVE Enough(t)'
  <2>1. CASE pc'[t] \in {"wake", "evict"}
    <3>1. pc'[t] = pc[t] /\ pc[t] \in Past /\ closed BY <2>1 DEF Past, Tearing, Rescue, ClosedFirst
    <3>2. tries[t] \in Nat BY Names, StreamAssumption DEF Typed, Stream
    <3> QED BY <3>1, <3>2, EnoughStill DEF Rescue
  <2>2. CASE pc'[t] \notin {"wake", "evict"} BY <2>2 DEF Enough
  <2> QED BY <2>1, <2>2
<1>3. closed' => Sentinel' \/ Rescuer' BY DEF Rescue, Rescuer
<1> QED BY <1>1, <1>2, <1>3 DEF Rescue

\* Whoever is past "shut" has closed the stream.
LEMMA ClosedFirstStep == ASSUME Typed, ClosedFirst, [Next]_vars PROVE ClosedFirst'
<1>1. /\ pc \in [Threads -> Points] /\ Handler # Heartbeat
      /\ \A s \in Sessions : s # Handler /\ s # Heartbeat /\ s \in Threads
  BY Names DEF Typed, Places
<1>2. ASSUME closed => closed', \A t \in Sessions : pc'[t] \in Past => pc[t] \in Past \/ closed'
      PROVE ClosedFirst'
  BY <1>2 DEF ClosedFirst
<1>3. ASSUME NEW s \in Sessions, Pump(s) PROVE ClosedFirst'
  <2>1. PICK p : pc' = [pc EXCEPT ![s] = p] /\ p = pc'[s]
    BY <1>1, <1>3 DEF Pump, Attach, RegisterPump, Emit, Put, Drain, Unregister, DetachSelf, Last,
                CutTest, CutSet, Close, Interrupt, Shut, Collect, Detach, Wake, Evict, Go
  <2>2. \A t \in Sessions : t # s => pc'[t] = pc[t] BY <1>1, <2>1
  <2>3. (closed => closed') /\ (p \in Past => pc[s] \in Past \/ closed')
    <3>1. CASE Shut(s) BY <3>1 DEF Shut
    <3>2. CASE Collect(s) \/ Detach(s) \/ Interrupt(s)
      BY <3>2 DEF Collect, Detach, Interrupt, Wake, Evict, Go, Past, Tearing, flags
    <3>3. CASE Attach(s) \/ Put(s) \/ Drain(s) \/ CutSet(s)
      <4>1. p \notin Past /\ UNCHANGED closed
        BY <1>1, <2>1, <3>3, Resumes DEF Attach, Put, Drain, CutSet, Go, Past, Tearing, flags
      <4> QED BY <4>1
    <3>4. CASE Walks(s)
      <4>1. p \notin Past
        BY <1>1, <2>1, <3>4, Resumes
        DEF Walks, RegisterPump, Emit, Unregister, DetachSelf, Last, CutTest, Go, Past, Tearing
      <4>2. UNCHANGED closed
        BY <3>4 DEF Walks, RegisterPump, Emit, Unregister, DetachSelf, Last, CutTest, flags
      <4> QED BY <4>1, <4>2
    <3> QED BY <1>3, <3>1, <3>2, <3>3, <3>4 DEF Pump, Close, Walks
  <2> QED BY <1>2, <2>1, <2>2, <2>3
<1>4. ASSUME NEW s \in Sessions, StartPump(s), UNCHANGED closed PROVE ClosedFirst'
  <2>1. \A t \in Sessions : pc'[t] = pc[t] \/ pc'[t] = "attach"
    BY <1>1, <1>4 DEF StartPump
  <2> QED BY <1>2, <1>4, <2>1 DEF Past, Tearing
<1>9. CASE Sent \/ Raised \/ Waits
  <2>1. UNCHANGED closed BY <1>9 DEF Sent, Raised, Waits, Untouched, flags
  <2>2. \A t \in Sessions : pc'[t] = pc[t] BY <1>1, <1>9 DEF Sent, Raised, Waits
  <2> QED BY <1>2, <2>1, <2>2
<1>5. CASE Handle
  <2>1. CASE StartEach
    <3>1. PICK s \in todo[Handler] : StartPump(s) BY <2>1 DEF StartEach
    <3>2. s \in Sessions BY <3>1, Names DEF Typed, Stream
    <3> QED BY <1>4, <2>1, <3>1, <3>2 DEF StartEach, flags
  <2>2. CASE Ready BY <1>1, <1>2, <2>2 DEF Ready, flags
  <2>3. CASE Close(Handler) \/ Interrupt(Handler)
    <3>1. PICK p : pc' = [pc EXCEPT ![Handler] = p]
      BY <2>3 DEF Close, Interrupt, Shut, Collect, Detach, Wake, Evict, Go
    <3>2. closed => closed'
      BY <2>3 DEF Close, Interrupt, Shut, Collect, Detach, Wake, Evict, flags
    <3> QED BY <1>1, <1>2, <3>1, <3>2
  <2>4. CASE Listen \/ LiveSessions \/ Get \/ Stop
    <3>1. PICK p : pc' = [pc EXCEPT ![Handler] = p]
      BY <2>4 DEF Listen, LiveSessions, Get, Stop, Go
    <3>2. UNCHANGED closed BY <2>4 DEF Listen, LiveSessions, Get, Stop, flags
    <3> QED BY <1>1, <1>2, <3>1, <3>2
  <2> QED BY <1>5, <2>1, <2>2, <2>3, <2>4, <1>9, Writes DEF Handle
<1>6. CASE Keepalive
  <2>1. PICK p : pc' = [pc EXCEPT ![Heartbeat] = p]
    BY <1>6 DEF Keepalive, Interrupt, Beat, KeepaliveFails, Wake, Evict, Go
  <2>2. UNCHANGED closed BY <1>6 DEF Keepalive, Interrupt, Beat, Wake, Evict, flags
  <2> QED BY <1>1, <1>2, <2>1, <2>2
<1>7. CASE Environment \/ UNCHANGED vars
  BY <1>2, <1>7, <1>9, Writes DEF Environment, Disconnect, Prints, Finish, Register, flags, vars
<1>8. ASSUME NEW s \in Sessions, Announce(s) PROVE ClosedFirst'
  BY <1>2, <1>4, <1>8 DEF Announce, flags
<1> QED BY <1>3, <1>5, <1>6, <1>7, <1>8 DEF Next

\* A pump that takes a step leaves the others tries enough: it puts nothing, or is through.
LEMMA OthersEnough ==
  ASSUME IsFiniteSet(Sessions), Typed, Undisturbed, Rescue, Serving, closed,
         NEW s \in Sessions, Pump(s), NEW p, pc' = [pc EXCEPT ![s] = p],
         \A u \in Sessions \ {s} : tries'[u] = tries[u],
         FullQueue' <= FullQueue \/ (s \in May /\ s \notin May'),
         NEW u \in Sessions \ {s}
  PROVE  Enough(u)'
<1>1. May' \subseteq May BY MayShrinks
<1>2. pc \in [Threads -> Points] /\ u \in Threads /\ tries[u] \in Nat
  BY Names, StreamAssumption DEF Typed, Places, Stream
<1>3. pc'[u] = pc[u] BY <1>2
<1>4. FullQueue' <= FullQueue \/ \E r \in May \ {u} : r \notin May' OBVIOUS
<1>5. Enough(u) BY DEF Rescue
<1> QED BY <1>1, <1>2, <1>3, <1>4, <1>5, EnoughStill

\* Every step of a pump keeps a sentinel in the queue of a closed stream, or on its way.
LEMMA RescuePump ==
  ASSUME IsFiniteSet(Sessions), Cardinality(Sessions) + 1 < Capacity + Slack,
         Typed, Undisturbed, Rescue, Serving, NEW s \in Sessions, Pump(s)
  PROVE  Rescue'
<1>1. /\ pc \in [Threads -> Points] /\ tries \in [Threads -> 0..Capacity + Slack]
      /\ \A t \in Sessions : t # Handler /\ t # Heartbeat /\ t \in Threads
      /\ queue \in Seq(Events) /\ Len(queue) <= Capacity /\ Capacity \in Nat \ {0}
      /\ Slack \in Nat /\ closed \in BOOLEAN
  BY Names, StreamAssumption DEF Typed, Places, Stream
<1>2. PICK p : pc' = [pc EXCEPT ![s] = p] /\ p = pc'[s]
  BY <1>1 DEF Pump, Attach, RegisterPump, Emit, Put, Drain, Unregister, DetachSelf, Last,
              CutTest, CutSet, Close, Interrupt, Shut, Collect, Detach, Wake, Evict, Go
<1>3. \A t \in Threads \ {s} : pc'[t] = pc[t] BY <1>1, <1>2
<1>4. ClosedFirst /\ ClosedFirst'
  BY ClosedFirstStep DEF Rescue, Next
<1>5. CASE ~closed'
  <2>1. \A t \in Sessions : pc'[t] \notin {"wake", "evict"}
    BY <1>4, <1>5 DEF ClosedFirst, Past, Tearing
  <2> QED BY <1>4, <1>5, <2>1 DEF Rescue, Enough
<1>6. CASE Shut(s)
  <2>1. p = "collect" /\ UNCHANGED <<queue, tries>> BY <1>1, <1>2, <1>6 DEF Shut, Go, closing
  <2>2. Rescuer' BY <1>2, <2>1 DEF Rescuer, Past, Tearing
  <2>3. FullQueue' <= FullQueue /\ \A t \in Sessions \ {s} : tries'[t] = tries[t]
    BY <2>1 DEF FullQueue
  <2>4. ASSUME NEW t \in Sessions \ {s} PROVE Enough(t)'
    <3>1. CASE closed BY <1>2, <2>3, <3>1, OthersEnough
    <3>2. CASE ~closed BY <1>3, <1>4, <3>2, <1>1 DEF ClosedFirst, Past, Tearing, Enough
    <3> QED BY <3>1, <3>2
  <2>5. Enough(s)' BY <1>2, <2>1 DEF Enough
  <2> QED BY <1>4, <2>2, <2>4, <2>5 DEF Rescue
<1>7. CASE closed /\ (Collect(s) \/ Detach(s))
  <2>1. UNCHANGED queue /\ \A t \in Sessions \ {s} : tries'[t] = tries[t]
    BY <1>1, <1>7 DEF Collect, Detach
  <2>2. \A t \in Sessions \ {s} : Enough(t)'
    <3>1. FullQueue' <= FullQueue BY <2>1 DEF FullQueue
    <3> QED BY <1>2, <1>7, <2>1, <3>1, OthersEnough
  <2>3. p \in {"detach", "wake"} /\ (p = "wake" => tries'[s] = Capacity + Slack)
    BY <1>1, <1>2, <1>7 DEF Collect, Detach, Go
  <2>4. Rescuer' BY <1>2, <2>3 DEF Rescuer, Past, Tearing
  <2>5. Enough(s)'
    <3>1. /\ IsFiniteSet(May \ {s}) /\ Cardinality(May \ {s}) \in Nat
          /\ Cardinality(May \ {s}) <= Cardinality(Sessions) /\ Cardinality(Sessions) \in Nat
      BY MayIsFinite
    <3>2. May' \ {s} \in SUBSET (May \ {s}) BY <1>7, MayShrinks
    <3>3. IsFiniteSet(May' \ {s}) /\ Cardinality(May' \ {s}) <= Cardinality(May \ {s})
      BY <3>1, <3>2, FS_Subset
    <3>4. Cardinality(May' \ {s}) \in Nat BY <3>3, FS_CardinalityType
    <3>5. FullQueue' \in {0, 1} BY DEF FullQueue
    <3>6. Cardinality(May' \ {s}) + FullQueue' < Capacity + Slack
      BY <1>1, <3>1, <3>3, <3>4, <3>5
    <3> QED BY <1>2, <2>3, <3>6 DEF Enough
  <2> QED BY <1>4, <2>2, <2>4, <2>5 DEF Rescue
<1>8. CASE closed /\ Put(s)
  <2>1. s \in May /\ s \notin May'
    <3>1. pc[s] = "put" /\ p \in {Resume(s), "cut"} BY <1>1, <1>2, <1>8 DEF Put, Go
    <3> QED BY <1>1, <1>2, <3>1, Resumes DEF May, Tearing
  <2>2. pc[s] = "put" /\ p \notin {"wake", "evict"} /\ UNCHANGED <<tries, closed>>
    BY <1>1, <1>2, <1>8, Resumes DEF Put, Go, closing, flags
  <2>3. \A t \in Sessions \ {s} : Enough(t)' BY <1>2, <1>8, <2>1, <2>2, OthersEnough
  <2>4. Enough(s)' BY <1>2, <2>2 DEF Enough
  <2>5. Sentinel => Sentinel'
    <3>1. hand[s] \in Events \/ UNCHANGED queue
      BY <1>8, <2>2 DEF Put, Typed, Places, PlaceOK, Hands, Events, Outputs
    <3>2. CASE queue' = Append(queue, hand[s]) /\ hand[s] \in Events
      <4>1. Len(queue') = Len(queue) + 1 /\ \A i \in 1..Len(queue) : queue'[i] = queue[i]
        BY <1>1, <3>2
      <4> QED BY <1>1, <4>1 DEF Sentinel
    <3>3. CASE UNCHANGED queue BY <3>3 DEF Sentinel
    <3> QED BY <1>8, <3>1, <3>2, <3>3 DEF Put
  <2>6. Rescuer => Rescuer' BY <1>1, <1>3, <2>2, Names DEF Rescuer, Past, Tearing
  <2> QED BY <1>4, <1>8, <2>2, <2>3, <2>4, <2>5, <2>6 DEF Rescue
<1>9. CASE closed /\ Wake(s)
  <2>1. Enough(s) /\ pc[s] = "wake" BY <1>9 DEF Rescue, Wake, Go
  <2>2. Cardinality(May \ {s}) \in Nat BY MayIsFinite
  <2>3. tries[s] \in Nat /\ tries[s] # 0
    <3>1. FullQueue \in {0, 1} BY DEF FullQueue
    <3>2. tries[s] \in Nat BY <1>1
    <3> QED BY <2>1, <2>2, <3>1, <3>2 DEF Enough
  <2>4. \A t \in Sessions \ {s} : tries'[t] = tries[t] BY <1>1, <1>9, <2>3 DEF Wake
  <2>5. CASE Len(queue) < Capacity
    <3>1. p = Resume(s) /\ queue' = Append(queue, None)
      BY <1>1, <1>2, <1>9, <2>3, <2>5 DEF Wake, Go, AfterWake, AfterClose
    <3>2. Sentinel'
      <4>1. None \in Events BY DEF Events
      <4>2. Len(queue') = Len(queue) + 1 /\ queue'[Len(queue) + 1] = None BY <1>1, <3>1, <4>1
      <4> QED BY <1>1, <4>2 DEF Sentinel
    <3>3. s \in May /\ s \notin May' BY <1>1, <1>2, <2>1, <3>1, Resumes DEF May, Tearing
    <3>4. \A t \in Sessions \ {s} : Enough(t)'
      BY <1>2, <1>9, <2>4, <3>3, OthersEnough
    <3>5. Enough(s)' BY <1>2, <3>1, Resumes DEF Enough
    <3> QED BY <1>4, <3>2, <3>4, <3>5 DEF Rescue
  <2>6. CASE ~(Len(queue) < Capacity)
    <3>1. p = "evict" /\ UNCHANGED queue /\ tries'[s] = tries[s] - 1
      BY <1>1, <1>2, <1>9, <2>3, <2>6 DEF Wake, Go
    <3>2. FullQueue = 1 BY <1>1, <2>6 DEF FullQueue
    <3>3. May' = May BY <1>1, <1>2, <1>3, <2>1, <3>1, Names DEF May, Tearing
    <3>4. Enough(s)'
      <4>1. Cardinality(May \ {s}) + 1 < tries[s] BY <2>1, <3>2 DEF Enough
      <4>2. Cardinality(May' \ {s}) < tries'[s] BY <2>2, <2>3, <3>1, <3>3, <4>1
      <4> QED BY <1>2, <3>1, <4>2 DEF Enough
    <3>5. \A t \in Sessions \ {s} : Enough(t)'
      <4>1. FullQueue' <= FullQueue BY <3>1 DEF FullQueue
      <4> QED BY <1>2, <1>9, <2>4, <4>1, OthersEnough
    <3>6. Rescuer' BY <1>2, <3>1 DEF Rescuer, Past, Tearing
    <3> QED BY <1>4, <3>4, <3>5, <3>6 DEF Rescue
  <2> QED BY <2>5, <2>6
<1>10. CASE closed /\ Evict(s)
  <2>1. Enough(s) /\ pc[s] = "evict" /\ p = "wake" /\ UNCHANGED tries
    BY <1>1, <1>2, <1>10 DEF Rescue, Evict, Go, closing
  <2>2. FullQueue' = 0
    <3>1. Len(queue') # Capacity
      <4>1. CASE queue = <<>> BY <1>1, <1>10, <4>1 DEF Evict
      <4>2. CASE queue # <<>>
        <5>1. queue' = Tail(queue) BY <1>10, <4>2 DEF Evict
        <5> QED BY <1>1, <4>2, <5>1
      <4> QED BY <4>1, <4>2
    <3> QED BY <3>1 DEF FullQueue
  <2>3. FullQueue' <= FullQueue BY <2>2 DEF FullQueue
  <2>4. May' = May BY <1>1, <1>2, <1>3, <2>1, Names DEF May, Tearing
  <2>5. Enough(s)'
    <3>1. Cardinality(May \ {s}) \in Nat BY MayIsFinite
    <3>2. Cardinality(May' \ {s}) + FullQueue' < tries'[s] BY <2>1, <2>2, <2>4, <3>1 DEF Enough
    <3> QED BY <1>2, <2>1, <3>2 DEF Enough
  <2>6. \A t \in Sessions \ {s} : Enough(t)' BY <1>2, <1>10, <2>1, <2>3, OthersEnough
  <2>7. Rescuer' BY <1>2, <2>1 DEF Rescuer, Past, Tearing
  <2> QED BY <1>4, <2>5, <2>6, <2>7 DEF Rescue
<1>11. CASE Attach(s) \/ Drain(s) \/ CutSet(s) \/ Walks(s)
  <2>1. UNCHANGED <<queue, closed, tries>>
    BY <1>11 DEF Attach, Drain, CutSet, Walks, RegisterPump, Emit, Unregister, DetachSelf, Last,
                 CutTest, closing, flags
  <2>2. pc[s] \notin Past /\ p \notin Past
    <3>1. CASE Attach(s) \/ Drain(s) \/ CutSet(s)
      BY <1>1, <1>2, <3>1 DEF Attach, Drain, CutSet, Go, Past, Tearing
    <3>2. CASE Walks(s)
      BY <1>1, <1>2, <3>2, Resumes
      DEF Walks, RegisterPump, Emit, Unregister, DetachSelf, Last, CutTest, Go, Past, Tearing
    <3> QED BY <1>11, <3>1, <3>2
  <2>3. \A t \in Sessions : pc[t] \in Past \/ pc'[t] \in Past => pc'[t] = pc[t]
    BY <1>1, <1>2, <1>3, <2>2
  <2>4. pc'[Heartbeat] = pc[Heartbeat] BY <1>3, Names
  <2>5. FullQueue' <= FullQueue /\ (Sentinel => Sentinel') BY <2>1 DEF FullQueue, Sentinel
  <2>6. closed => May' \subseteq May BY MayShrinks
  <2> QED BY <2>1, <2>3, <2>4, <2>5, <2>6, RescueStill
<1>12. Shut(s) \/ UNCHANGED closed
  BY DEF Pump, Attach, RegisterPump, Emit, Put, Drain, Unregister, DetachSelf, Last,
         CutTest, CutSet, Close, Interrupt, Collect, Detach, Wake, Evict, flags
<1> QED
  BY <1>5, <1>6, <1>7, <1>8, <1>9, <1>10, <1>11, <1>12 DEF Pump, Close, Interrupt, Walks

\* The heartbeat begins after every session was started.
NotBeatingYet == pc[Handler] \in {"enter", "snapshot", "start"} => pc[Heartbeat] = "none"

\* The heartbeat is started once.
LEMMA NotBeatingYetStep == ASSUME Typed, NotBeatingYet, [Next]_vars PROVE NotBeatingYet'
<1>1. /\ pc \in [Threads -> Points] /\ Handler # Heartbeat
      /\ Handler \in Threads /\ Heartbeat \in Threads
      /\ \A s \in Sessions : s # Handler /\ s # Heartbeat
  BY Names DEF Typed, Places
<1>2. CASE pc'[Handler] = pc[Handler] /\ pc'[Heartbeat] = pc[Heartbeat] BY <1>2 DEF NotBeatingYet
<1>3. ASSUME NEW s \in Sessions, Pump(s) PROVE NotBeatingYet'
  <2>1. PICK p : pc' = [pc EXCEPT ![s] = p]
    BY <1>3 DEF Pump, Attach, RegisterPump, Emit, Put, Drain, Unregister, DetachSelf, Last,
                CutTest, CutSet, Close, Interrupt, Shut, Collect, Detach, Wake, Evict, Go
  <2> QED BY <1>1, <1>2, <2>1
<1>4. ASSUME NEW s \in Sessions, StartPump(s) PROVE NotBeatingYet'
  BY <1>1, <1>2, <1>4 DEF StartPump
<1>9. CASE Sent \/ Raised \/ Waits
  <2>1. CASE Sent \/ Raised \/ pc'[Handler] = "parked"
    <3>1. pc'[Handler] \in {"get", "stop", "parked"} BY <1>1, <2>1 DEF Sent, Raised
    <3> QED BY <3>1 DEF NotBeatingYet
  <2>2. CASE Waits /\ pc'[Handler] # "parked"
    <3>1. pc[Heartbeat] # "none" /\ pc'[Handler] = pc[Handler] BY <1>1, <2>2 DEF Waits
    <3> QED BY <3>1 DEF NotBeatingYet
  <2> QED BY <1>9, <2>1, <2>2
<1>5. CASE Handle
  <2>1. CASE StartEach
    <3>1. PICK s \in todo[Handler] : StartPump(s) BY <2>1 DEF StartEach
    <3>2. s \in Sessions BY <3>1, Names DEF Typed, Stream
    <3> QED BY <1>4, <3>1, <3>2
  <2>2. CASE Ready
    <3>1. pc'[Handler] = "write" BY <1>1, <2>2 DEF Ready
    <3> QED BY <3>1 DEF NotBeatingYet
  <2>3. CASE Listen \/ LiveSessions
    <3>1. pc[Handler] \in {"enter", "snapshot"} /\ pc'[Heartbeat] = pc[Heartbeat]
      BY <1>1, <2>3 DEF Listen, LiveSessions, Go
    <3> QED BY <3>1 DEF NotBeatingYet
  <2>4. CASE Get \/ Stop \/ Close(Handler) \/ Interrupt(Handler)
    <3>1. pc'[Handler] \notin {"enter", "snapshot", "start"}
      BY <1>1, <2>4 DEF Get, Stop, Close, Interrupt, Shut, Collect, Detach, Wake, Evict, Go,
                        AfterWake, AfterClose
    <3> QED BY <3>1 DEF NotBeatingYet
  <2> QED BY <1>5, <2>1, <2>2, <2>3, <2>4, <1>9, Writes DEF Handle
<1>6. CASE Keepalive
  <2>1. pc[Heartbeat] # "none" /\ pc'[Handler] = pc[Handler]
    BY <1>1, <1>6 DEF Keepalive, Beat, KeepaliveFails, Interrupt, Wake, Evict, Go
  <2> QED BY <2>1 DEF NotBeatingYet
<1>7. CASE Environment \/ UNCHANGED vars
  BY <1>2, <1>7, <1>9, Writes DEF Environment, Disconnect, Prints, Finish, Register, vars
<1>8. ASSUME NEW s \in Sessions, Announce(s) PROVE NotBeatingYet'
  BY <1>2, <1>4, <1>8 DEF Announce
<1> QED BY <1>3, <1>5, <1>6, <1>7, <1>8 DEF Next

\* So does every step of the heartbeat that does not run out of tries.
LEMMA RescueBeat ==
  ASSUME IsFiniteSet(Sessions), Typed, Rescue, ClosedFirst', Serving, HeartbeatGetsThrough,
         Keepalive
  PROVE  Rescue'
<1>1. /\ pc \in [Threads -> Points] /\ tries \in [Threads -> 0..Capacity + Slack]
      /\ Handler # Heartbeat /\ Heartbeat \in Threads
      /\ \A t \in Sessions : t # Handler /\ t # Heartbeat /\ t \in Threads
      /\ queue \in Seq(Events) /\ Len(queue) <= Capacity /\ Capacity \in Nat \ {0}
      /\ Slack \in Nat /\ closed \in BOOLEAN
  BY Names, StreamAssumption DEF Typed, Places, Stream
<1>2. PICK p : pc' = [pc EXCEPT ![Heartbeat] = p] /\ p = pc'[Heartbeat]
  BY <1>1 DEF Keepalive, Interrupt, Beat, KeepaliveFails, Wake, Evict, Go
<1>3. \A t \in Sessions : pc'[t] = pc[t] /\ tries'[t] = tries[t] /\ tries[t] \in Nat
  BY <1>1, <1>2 DEF Keepalive, Interrupt, Beat, Wake, Evict, closing
<1>4. UNCHANGED closed BY DEF Keepalive, Interrupt, Beat, Wake, Evict, flags
<1>5. pc[Heartbeat] # "done" BY <1>1 DEF Keepalive, Interrupt, Beat, KeepaliveFails, Wake, Evict, Go
<1>6. May' \subseteq May BY <1>2, <1>3, <1>5, Names DEF May
<1>7. ASSUME FullQueue' <= FullQueue \/ p = "done" PROVE \A t \in Sessions : Enough(t)'
  <2>1. ASSUME NEW t \in Sessions PROVE Enough(t)'
    <3>1. p = "done" => Heartbeat \in May \ {t} /\ Heartbeat \notin May'
      BY <1>1, <1>2, <1>5 DEF May
    <3>2. FullQueue' <= FullQueue \/ \E u \in May \ {t} : u \notin May' BY <1>7, <3>1
    <3>3. Enough(t) BY DEF Rescue
    <3> QED BY <1>3, <1>6, <3>2, <3>3, EnoughStill
  <2> QED BY <2>1
<1>8. CASE Beat
  <2>1. UNCHANGED queue /\ p \in {"done", "wake"} /\ pc[Heartbeat] \in {"beat", "parked"}
    BY <1>1, <1>2, <1>8 DEF Beat, KeepaliveFails, Go
  <2>2. FullQueue' <= FullQueue /\ (Sentinel => Sentinel') BY <2>1 DEF FullQueue, Sentinel
  <2>3. Rescuer => Rescuer' BY <1>3, <2>1 DEF Rescuer
  <2> QED BY <1>4, <1>7, <2>2, <2>3 DEF Rescue
<1>9. CASE Wake(Heartbeat)
  <2>1. tries[Heartbeat] # 0 BY <1>9 DEF HeartbeatGetsThrough, Wake, Go
  <2>2. CASE Len(queue) < Capacity
    <3>1. p = "done" /\ queue' = Append(queue, None)
      BY <1>1, <1>2, <1>9, <2>1, <2>2 DEF Wake, Go, AfterWake
    <3>2. Sentinel'
      <4>1. None \in Events BY DEF Events
      <4>2. Len(queue') = Len(queue) + 1 /\ queue'[Len(queue) + 1] = None BY <1>1, <3>1, <4>1
      <4> QED BY <1>1, <4>2 DEF Sentinel
    <3> QED BY <1>7, <3>1, <3>2 DEF Rescue
  <2>3. CASE ~(Len(queue) < Capacity)
    <3>1. p = "evict" /\ UNCHANGED queue BY <1>1, <1>2, <1>9, <2>1, <2>3 DEF Wake, Go
    <3>2. FullQueue' <= FullQueue BY <3>1 DEF FullQueue
    <3>3. Rescuer' BY <1>2, <3>1 DEF Rescuer
    <3> QED BY <1>7, <3>2, <3>3 DEF Rescue
  <2> QED BY <2>2, <2>3
<1>10. CASE Evict(Heartbeat)
  <2>1. p = "wake" /\ queue' = (IF queue = <<>> THEN queue ELSE Tail(queue))
    BY <1>1, <1>2, <1>10 DEF Evict, Go
  <2>2. Len(queue') <= Len(queue)
    <3>1. CASE queue = <<>> BY <1>1, <2>1, <3>1
    <3>2. CASE queue # <<>> BY <1>1, <2>1, <3>2
    <3> QED BY <3>1, <3>2
  <2>3. Len(queue') # Capacity \/ Len(queue) = Capacity
    <3>1. Len(queue') \in Nat
      <4>1. CASE queue = <<>> BY <1>1, <2>1, <4>1
      <4>2. CASE queue # <<>> BY <1>1, <2>1, <4>2
      <4> QED BY <4>1, <4>2
    <3> QED BY <1>1, <2>2, <3>1
  <2>4. FullQueue' <= FullQueue BY <2>3 DEF FullQueue
  <2>5. Rescuer' BY <1>2, <2>1 DEF Rescuer
  <2> QED BY <1>7, <2>4, <2>5 DEF Rescue
<1> QED BY <1>8, <1>9, <1>10 DEF Keepalive, Interrupt

\* While the heartbeat gets through, every step keeps a sentinel in the queue, or on its way.
LEMMA RescueStep ==
  ASSUME IsFiniteSet(Sessions), Cardinality(Sessions) + 1 < Capacity + Slack,
         Typed, Undisturbed, NotBeatingYet, HeartbeatGetsThrough, Rescue, [Next]_vars
  PROVE  Rescue'
<1>1. /\ pc \in [Threads -> Points] /\ Handler # Heartbeat
      /\ Handler \in Threads /\ Heartbeat \in Threads
      /\ \A t \in Sessions : t # Handler /\ t # Heartbeat /\ t \in Threads
  BY Names DEF Typed, Places
<1>2. ClosedFirst' BY ClosedFirstStep DEF Rescue
<1>3. CASE ~Serving' BY <1>2, <1>3 DEF Rescue
<1>4. ASSUME Serving' PROVE Serving BY <1>4, NeverBack DEF Serving
<1>5. ASSUME Serving, UNCHANGED <<queue, closed, tries, pc>> PROVE Rescue'
  <2>1. FullQueue' <= FullQueue /\ (Sentinel => Sentinel') /\ May' \subseteq May
    BY <1>5 DEF FullQueue, Sentinel, May
  <2> QED BY <1>5, <2>1, RescueStill
<1>6. ASSUME Serving, NEW s \in Sessions, StartPump(s), UNCHANGED <<queue, closed, tries>>
      PROVE Rescue'
  <2>1. CASE UNCHANGED pc BY <1>5, <1>6, <2>1
  <2>2. CASE s \notin started /\ ~closed /\ pc' = [pc EXCEPT ![s] = "attach"]
    <3>1. pc[s] = "none" /\ pc'[s] = "attach" /\ \A t \in Threads \ {s} : pc'[t] = pc[t]
      BY <1>1, <2>2 DEF Typed, Places, PlaceOK
    <3>2. \A t \in Sessions : pc[t] \in Past \/ pc'[t] \in Past => pc'[t] = pc[t]
      BY <1>1, <3>1 DEF Past, Tearing
    <3>3. FullQueue' <= FullQueue /\ (Sentinel => Sentinel') BY <1>6 DEF FullQueue, Sentinel
    <3>4. pc'[Heartbeat] = pc[Heartbeat] BY <1>1, <3>1
    <3> QED BY <1>6, <2>2, <3>2, <3>3, <3>4, RescueStill
  <2> QED BY <1>6, <2>1, <2>2 DEF StartPump
<1>12. CASE Serving /\ (Sent \/ Raised \/ Waits)
  <2>1. UNCHANGED <<queue, closed, tries>>
    BY <1>12 DEF Sent, Raised, Waits, Untouched, flags, closing
  <2>2. /\ \A t \in Sessions : pc'[t] = pc[t]
        /\ pc[Heartbeat] # "done" \/ pc'[Heartbeat] = pc[Heartbeat]
        /\ pc[Heartbeat] \in {"wake", "evict"} => pc'[Heartbeat] = pc[Heartbeat]
    BY <1>1, <1>12 DEF Sent, Raised, Waits
  <2>3. May' \subseteq May BY <2>2 DEF May
  <2>4. FullQueue' <= FullQueue /\ (Sentinel => Sentinel') BY <2>1 DEF FullQueue, Sentinel
  <2> QED BY <1>12, <2>1, <2>2, <2>3, <2>4, RescueStill
<1>7. CASE Serving /\ Serving' /\ Handle
  <2>1. CASE StartEach
    <3>1. PICK s \in todo[Handler] : StartPump(s) BY <2>1 DEF StartEach
    <3>2. s \in Sessions BY <3>1, Names DEF Typed, Stream
    <3>3. UNCHANGED <<queue, closed, tries>> BY <2>1 DEF StartEach, flags
    <3> QED BY <1>6, <1>7, <3>1, <3>2, <3>3
  <2>2. CASE Ready
    <3>1. /\ \A t \in Sessions : pc'[t] = pc[t]
          /\ pc[Heartbeat] = "none" /\ UNCHANGED <<queue, closed, tries>>
      BY <1>1, <2>2 DEF Ready, NotBeatingYet, flags, closing
    <3>2. May' \subseteq May BY <3>1 DEF May
    <3>3. FullQueue' <= FullQueue /\ (Sentinel => Sentinel') BY <3>1 DEF FullQueue, Sentinel
    <3> QED BY <1>7, <3>1, <3>2, <3>3, RescueStill
  <2>3. CASE Listen \/ LiveSessions \/ Get \/ Stop \/ Close(Handler) \/ Interrupt(Handler)
    <3>1. PICK p : pc' = [pc EXCEPT ![Handler] = p]
      BY <2>3 DEF Listen, LiveSessions, Get, Stop, Close, Interrupt, Shut, Collect, Detach,
                  Wake, Evict, Go
    <3>2. \A t \in Threads \ {Handler} : pc'[t] = pc[t] BY <1>1, <3>1
    <3>3. May' \subseteq May BY <1>1, <3>2 DEF May
    <3>4. CASE Listen \/ LiveSessions
      <4>1. UNCHANGED <<queue, closed, tries>>
        BY <3>4 DEF Listen, LiveSessions, flags, closing
      <4>2. FullQueue' <= FullQueue /\ (Sentinel => Sentinel') BY <4>1 DEF FullQueue, Sentinel
      <4> QED BY <1>1, <1>7, <3>2, <3>3, <4>1, <4>2, RescueStill
    <3>5. CASE Get
      <4>1. UNCHANGED <<closed, tries>> /\ queue # <<>> /\ queue' = Tail(queue)
        BY <3>5 DEF Get, flags, closing
      <4>2. Head(queue) # None BY <1>1, <1>7, <3>5 DEF Get, Go, Serving, Gone
      <4>3. /\ queue \in Seq(Events) /\ Len(queue) <= Capacity /\ Capacity \in Nat
        BY StreamAssumption DEF Typed, Stream
      <4>4. /\ Len(queue') = Len(queue) - 1 /\ Head(queue) = queue[1]
            /\ \A i \in 1..Len(queue') : queue'[i] = queue[i + 1]
        BY <4>1, <4>3
      <4>5. FullQueue' <= FullQueue
        <5>1. Len(queue') # Capacity BY <4>3, <4>4
        <5> QED BY <5>1 DEF FullQueue
      <4>6. Sentinel => Sentinel'
        <5> SUFFICES ASSUME NEW i \in 1..Len(queue), queue[i] = None PROVE Sentinel'
          BY DEF Sentinel
        <5>1. i # 1 BY <4>2, <4>4
        <5>2. i - 1 \in 1..Len(queue') /\ queue'[i - 1] = queue[i] BY <4>3, <4>4, <5>1
        <5> QED BY <5>2 DEF Sentinel
      <4> QED BY <1>1, <1>7, <3>2, <3>3, <4>1, <4>5, <4>6, RescueStill
    <3>6. CASE Stop \/ Close(Handler) \/ Interrupt(Handler)
      <4>1. pc[Handler] \in Gone
        BY <3>6 DEF Stop, Close, Interrupt, Shut, Collect, Detach, Wake, Evict, Go, Gone, Tearing
      <4> QED BY <1>7, <4>1 DEF Serving
    <3> QED BY <2>3, <3>4, <3>5, <3>6
  <2> QED BY <1>7, <2>1, <2>2, <2>3, <1>12, Writes DEF Handle
<1>8. CASE Serving /\ (Environment \/ UNCHANGED vars)
  BY <1>5, <1>8, <1>12, Writes
  DEF Environment, Disconnect, Prints, Finish, Register, vars, flags, closing
<1>9. ASSUME Serving, NEW s \in Sessions, Announce(s) PROVE Rescue'
  <2>1. UNCHANGED <<queue, closed, tries>> BY <1>9 DEF Announce, flags, closing
  <2>2. StartPump(s) \/ UNCHANGED pc BY <1>9 DEF Announce
  <2> QED BY <1>5, <1>6, <1>9, <2>1, <2>2
<1>10. CASE Serving /\ Keepalive BY <1>2, <1>10, RescueBeat
<1>11. ASSUME Serving, NEW s \in Sessions, Pump(s) PROVE Rescue' BY <1>11, RescuePump
<1> QED BY <1>3, <1>4, <1>7, <1>8, <1>9, <1>10, <1>11 DEF Next

\* TeardownReachesAll: with more tries than sessions, the threads that close a stream, each
\* evicting what the others put, leave a sentinel for a handler parked in get(), provided the
\* heartbeat, which may interrupt a stream that is not cut yet, is not outrun by the pumps.
THEOREM TeardownReached ==
  ASSUME IsFiniteSet(Sessions), Cardinality(Sessions) + 1 < Capacity + Slack
  PROVE  Spec /\ []HeartbeatGetsThrough => []TeardownReachesAll
<1> DEFINE Kept == NotBeatingYet /\ Rescue
<1>1. Init => Kept
  <2> SUFFICES ASSUME Init PROVE Kept OBVIOUS
  <2>1. \A t \in Sessions : pc[t] = "none" BY Names DEF Init
  <2>2. pc[Heartbeat] = "none" BY Names DEF Init
  <2>3. ~closed BY DEF Init
  <2> QED BY <2>1, <2>2, <2>3 DEF NotBeatingYet, Rescue, ClosedFirst, Past, Tearing, Enough
<1>2. Typed /\ Following /\ HeartbeatGetsThrough /\ Kept /\ [Next]_vars => Kept'
  BY NotBeatingYetStep, RescueStep DEF Following
<1>3. Kept => SentinelSurvives
  <2> SUFFICES ASSUME Rescue, closed, pc[Handler] = "get", \A t \in Threads : pc[t] \notin Tearing
               PROVE  \E i \in DOMAIN queue : queue[i] = None
    BY DEF SentinelSurvives
  <2>1. Serving BY DEF Serving, Gone, Tearing
  <2>2. ~Rescuer BY Names DEF Rescuer, Past, Tearing
  <2>3. Sentinel BY <2>1, <2>2 DEF Rescue
  <2>4. PICK i \in 1..Len(queue) : queue[i] = None BY <2>3 DEF Sentinel
  <2> QED BY <2>4
<1>4. SentinelSurvives /\ PumpsWoken /\ NothingLeftBehind => TeardownReachesAll
  BY DEF TeardownReachesAll
<1> QED BY <1>1, <1>2, <1>3, <1>4, FollowingInductive, PumpsReached, PTL DEF Spec
=============================================================================
