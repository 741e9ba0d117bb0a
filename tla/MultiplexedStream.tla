------------------------- MODULE MultiplexedStream -------------------------
(***************************************************************************)
(* The one event stream of the browser UI (web/sessions.py                 *)
(* MultiplexedStream, web/server.py _stream and _Heartbeat) over the       *)
(* sessions it follows: a pump thread per session that moves its private   *)
(* channel into one bounded queue, the handler thread that writes the      *)
(* queue to the browser, the heartbeat that notices a browser gone quiet,  *)
(* and the creations that go on meanwhile.                                 *)
(*                                                                         *)
(* Any pump or the handler may close the stream, several at once, and the  *)
(* heartbeat interrupts it.  A queue operation, a critical section and the *)
(* test or the setting of an Event are one step each; a write to the       *)
(* browser is one too, unless it has to wait for a browser that does not   *)
(* read.  A session is what its viewers see of PtySession: it prints,      *)
(* ends, and keeps a channel.                                              *)
(***************************************************************************)
EXTENDS Naturals, Sequences

CONSTANTS
    Sessions,
    Late,       \* those created while the stream is open, or just before
    Handler,    \* the thread that serves /api/stream
    Heartbeat,  \* its keepalive thread
    Capacity,   \* of the shared queue
    Limit,      \* SUBSCRIBER_QUEUE_LIMIT
    Slack,      \* the tries interrupt() makes beyond the capacity
    MaxOutput,  \* bound: chunks a session prints
    Quiet       \* bound: the sessions that print nothing

ASSUME StreamAssumption ==
    /\ {Capacity, Limit, Slack} \subseteq Nat \ {0} /\ MaxOutput \in Nat
    /\ Late \subseteq Sessions /\ Quiet \subseteq Sessions
    /\ Handler \notin Sessions /\ Heartbeat \notin Sessions \cup {Handler}

Closers == Sessions \cup {Handler}
Threads == Closers \cup {Heartbeat}

VARIABLES
    born,       \* session |-> "absent", "announced" (registered), "created"
    heard,      \* sessions whose creation copied the stream's listener
    out, ended, \* session |-> chunks printed; sessions whose exit is published
    viewed,     \* sessions that have the stream's channel in _subscribers
    chan,       \* session |-> that channel
    listening,  \* the manager knows _on_session_created
    queue, closed, desynced, started, subs,   \* the fields of the stream
    pc,         \* thread |-> where it is
    todo,       \* closer |-> sessions it still has to start or detach
    tries,      \* thread |-> puts interrupt() may still make
    got,        \* pumps whose attach() returned a subscription
    hand,       \* pump |-> what it is about to emit
    frame,      \* the event the handler took from the queue
    beating,    \* the heartbeat was not told to stop
    connected,  \* the browser is there
    shown       \* session |-> what the browser was sent

session == <<out, ended>>
page    == <<beating, connected, shown, frame>>
pump    == <<got, hand>>
closing == <<todo, tries>>
flags   == <<closed, desynced, listening>>
births  == <<born, heard>>
vars == <<born, heard, out, ended, viewed, chan, listening, queue, closed, desynced,
          started, subs, pc, todo, tries, got, hand, frame, beating, connected, shown>>

Event(k, s, a, b) == [kind |-> k, of |-> s, from |-> a, to |-> b]
Output(s, a, b) == Event("output", s, a, b)
Exit(s) == Event("exit", s, 0, 0)
None == Event("none", Handler, 0, 0)
Cut(s) == Event("cut", s, 0, 0)     \* SubscriberDesyncError, in flight

Bytes(n) == [kind |-> "chunk", n |-> n]
Marker(k) == [kind |-> k, n |-> 0]
END == Marker("END")
DESYNC == Marker("DESYNC")
DETACH == Marker("DETACH")

Init ==
    /\ born = [s \in Sessions |-> IF s \in Late THEN "absent" ELSE "created"] /\ heard = {}
    /\ out = [s \in Sessions |-> 0] /\ ended = {}
    /\ viewed = {} /\ chan = [s \in Sessions |-> <<>>]
    /\ listening = FALSE /\ queue = <<>> /\ closed = FALSE /\ desynced = FALSE
    /\ started = {} /\ subs = {}
    /\ pc = [t \in Threads |-> IF t = Handler THEN "enter" ELSE "none"]
    /\ todo = [t \in Closers |-> {}] /\ tries = [t \in Threads |-> 0]
    /\ got = {} /\ hand = [s \in Sessions |-> None]
    /\ frame = None /\ beating = TRUE /\ connected = TRUE
    /\ shown = [s \in Sessions |-> [last |-> 0, gap |-> FALSE, over |-> FALSE]]

Go(t, at, next) == pc[t] = at /\ pc' = [pc EXCEPT ![t] = next]

-----------------------------------------------------------------------------
(* The sessions: what _broadcast, _finish and detach do to this channel.    *)

Full(q) == Len(q) >= Limit

ForceIn(q, m) == Append(IF Full(q) THEN Tail(q) ELSE q, m)

Prints(s) ==
    /\ born[s] # "absent" /\ s \notin ended \cup Quiet /\ out[s] < MaxOutput
    /\ out' = [out EXCEPT ![s] = @ + 1]
    /\ IF s \notin viewed THEN UNCHANGED <<viewed, chan>>
       ELSE IF Full(chan[s])
       THEN viewed' = viewed \ {s} /\ chan' = [chan EXCEPT ![s] = ForceIn(@, DESYNC)]
       ELSE UNCHANGED viewed /\ chan' = [chan EXCEPT ![s] = Append(@, Bytes(out[s] + 1))]
    /\ UNCHANGED <<births, ended, flags, queue, started, subs, pc, closing, pump, page>>

Finish(s) ==
    /\ born[s] # "absent" /\ s \notin ended
    /\ ended' = ended \cup {s} /\ viewed' = viewed \ {s}
    /\ chan' = [chan EXCEPT ![s] = IF s \notin viewed THEN @
                                   ELSE ForceIn(@, IF Full(@) THEN DESYNC ELSE END)]
    /\ UNCHANGED <<births, out, flags, queue, started, subs, pc, closing, pump, page>>

Detached(s) == viewed' = viewed \ {s} /\ chan' = [chan EXCEPT ![s] = ForceIn(@, DETACH)]

-----------------------------------------------------------------------------
(* SessionManager.create: registration and the copy of the listeners are    *)
(* one critical section, the call of the listener comes after it.           *)

Register(s) ==
    /\ born[s] = "absent"
    /\ born' = [born EXCEPT ![s] = "announced"]
    /\ heard' = IF listening THEN heard \cup {s} ELSE heard
    /\ UNCHANGED <<session, viewed, chan, flags, queue, started, subs, pc, closing, pump, page>>

(* _start_pump: claim the session under the lock, then start its thread.    *)
StartPump(s) ==
    IF s \in started \/ closed THEN UNCHANGED <<started, pc>>
    ELSE started' = started \cup {s} /\ pc' = [pc EXCEPT ![s] = "attach"]

(* The listener, or nothing when the creation copied none.                  *)
Announce(s) ==
    /\ born[s] = "announced"
    /\ born' = [born EXCEPT ![s] = "created"]
    /\ IF s \in heard THEN StartPump(s) ELSE UNCHANGED <<started, pc>>
    /\ UNCHANGED <<heard, session, viewed, chan, flags, queue, subs, closing, pump, page>>

-----------------------------------------------------------------------------
(* A pump.                                                                  *)

(* attach(): the scrollback and the channel, under the session's lock.      *)
Attach(s) ==
    /\ Go(s, "attach", "register")
    /\ hand' = [hand EXCEPT ![s] = IF out[s] > 0 THEN Output(s, 1, out[s]) ELSE None]
    /\ IF s \in ended THEN UNCHANGED <<got, viewed>>
       ELSE got' = got \cup {s} /\ viewed' = viewed \cup {s}
    /\ UNCHANGED <<births, session, chan, flags, queue, started, subs, closing, page>>

(* Mutant: it returns without detaching. *)
RegisterPumpForgets(s) ==
    /\ Go(s, "register", IF s \in got /\ closed THEN "done" ELSE "emit")
    /\ subs' = IF s \in got /\ ~closed THEN subs \cup {s} ELSE subs
    /\ UNCHANGED <<viewed, chan>>
    /\ UNCHANGED <<births, session, flags, queue, started, closing, pump, page>>

(* Under the stream's lock: register, or let go of a channel close() missed. *)
RegisterPump(s) ==
    /\ IF s \in got /\ closed
       THEN Go(s, "register", "done") /\ Detached(s) /\ UNCHANGED subs
       ELSE /\ Go(s, "register", "emit")
            /\ subs' = IF s \in got THEN subs \cup {s} ELSE subs
            /\ UNCHANGED <<viewed, chan>>
    /\ UNCHANGED <<births, session, flags, queue, started, closing, pump, page>>

(* Where _emit, or _cut, returns to. *)
Resume(s) ==
    IF hand[s].kind = "exit" THEN "done"
    ELSE IF hand[s].kind = "cut" THEN "release"
    ELSE IF s \in got THEN "drain" ELSE "last"

(* _emit: nothing to do for an empty backlog or a closed stream. *)
Emit(s) ==
    /\ Go(s, "emit", IF hand[s] = None \/ closed THEN Resume(s) ELSE "put")
    /\ UNCHANGED <<births, session, viewed, chan, flags, queue, started, subs, closing, pump, page>>

(* Mutant: an event the queue has no room for is dropped. *)
PutDrops(s) ==
    /\ Go(s, "put", Resume(s)) /\ hand' = [hand EXCEPT ![s] = None]
    /\ queue' = IF Len(queue) < Capacity THEN Append(queue, hand[s]) ELSE queue
    /\ UNCHANGED <<births, session, viewed, chan, flags, started, subs, closing, got, page>>

(* put_nowait: on a full queue the stream is cut. *)
Put(s) ==
    /\ IF Len(queue) < Capacity
       THEN /\ Go(s, "put", Resume(s)) /\ queue' = Append(queue, hand[s])
            /\ hand' = [hand EXCEPT ![s] = None]
       ELSE Go(s, "put", "cut") /\ UNCHANGED <<queue, hand>>
    /\ UNCHANGED <<births, session, viewed, chan, flags, started, subs, closing, got, page>>

(* One turn of drain(): parked on an empty channel.                         *)
Drain(s) ==
    /\ chan[s] # <<>>
    /\ LET item == Head(chan[s]) IN
       /\ Go(s, "drain", CASE item.kind = "chunk" -> "emit"
                           [] item.kind = "DESYNC" -> "cut"
                           [] OTHER -> "release")
       /\ hand' = [hand EXCEPT ![s] = CASE item.kind = "chunk" -> Output(s, item.n, item.n)
                                        [] item.kind = "DESYNC" -> Cut(s)
                                        [] OTHER -> None]
    /\ chan' = [chan EXCEPT ![s] = Tail(@)]
    /\ UNCHANGED <<births, session, viewed, flags, queue, started, subs, closing, got, page>>

(* The finally: unregister, then detach; a cut pump returns after it. *)
Unregister(s) ==
    /\ Go(s, "release", "detach self") /\ subs' = subs \ {s}
    /\ UNCHANGED <<births, session, viewed, chan, flags, queue, started, closing, pump, page>>

DetachSelf(s) ==
    /\ Go(s, "detach self", IF hand[s].kind = "cut" THEN "done" ELSE "last")
    /\ Detached(s)
    /\ UNCHANGED <<births, session, flags, queue, started, subs, closing, pump, page>>

(* An exit is reported only when the child finished. *)
Last(s) ==
    /\ IF s \in ended
       THEN Go(s, "last", "emit") /\ hand' = [hand EXCEPT ![s] = Exit(s)]
       ELSE Go(s, "last", "done") /\ UNCHANGED hand
    /\ UNCHANGED <<births, session, viewed, chan, flags, queue, started, subs, closing, got, page>>

-----------------------------------------------------------------------------
(* _cut, close and interrupt, on whatever thread calls them.                *)

AfterClose(t) == IF t = Handler THEN "done" ELSE Resume(t)

(* desynced is tested and set without a lock: two pumps may both go on.     *)
CutTest(s) ==
    /\ Go(s, "cut", IF desynced THEN Resume(s) ELSE "cut set")
    /\ UNCHANGED <<births, session, viewed, chan, flags, queue, started, subs, closing, pump, page>>

(* Mutant: the stream is closed without the mark that says why. *)
CutSilently(s) ==
    /\ Go(s, "cut set", "shut")
    /\ UNCHANGED <<births, session, viewed, chan, flags, queue, started, subs, closing, pump, page>>

CutSet(s) ==
    /\ Go(s, "cut set", "shut") /\ desynced' = TRUE
    /\ UNCHANGED <<births, session, viewed, chan, closed, listening, queue, started, subs,
                   closing, pump, page>>

(* remove_listener(), then _closed.set(): a creation in between copies no   *)
(* listener, as one after both does.                                        *)
Shut(t) ==
    /\ Go(t, "shut", "collect") /\ listening' = FALSE /\ closed' = TRUE
    /\ UNCHANGED <<births, session, viewed, chan, desynced, queue, started, subs,
                   closing, pump, page>>

Collect(t) ==
    /\ Go(t, "collect", "detach")
    /\ todo' = [todo EXCEPT ![t] = subs] /\ subs' = {}
    /\ UNCHANGED <<births, session, viewed, chan, flags, queue, started, tries, pump, page>>

Detach(t) ==
    /\ IF todo[t] = {}
       THEN /\ Go(t, "detach", "wake") /\ tries' = [tries EXCEPT ![t] = Capacity + Slack]
            /\ UNCHANGED <<todo, viewed, chan>>
       ELSE \E s \in todo[t] :
              /\ Go(t, "detach", "detach") /\ Detached(s)
              /\ todo' = [todo EXCEPT ![t] = @ \ {s}] /\ UNCHANGED tries
    /\ UNCHANGED <<births, session, flags, queue, started, subs, pump, page>>

(* Where interrupt() returns to. *)
AfterWake(t) == IF t = Heartbeat THEN "done" ELSE AfterClose(t)

(* interrupt(): put the sentinel, or evict one entry and try again. *)
Wake(t) ==
    /\ IF tries[t] = 0 THEN Go(t, "wake", AfterWake(t)) /\ UNCHANGED <<queue, tries>>
       ELSE IF Len(queue) < Capacity
       THEN /\ Go(t, "wake", AfterWake(t)) /\ queue' = Append(queue, None)
            /\ tries' = [tries EXCEPT ![t] = 0]
       ELSE /\ Go(t, "wake", "evict") /\ UNCHANGED queue
            /\ tries' = [tries EXCEPT ![t] = @ - 1]
    /\ UNCHANGED <<births, session, viewed, chan, flags, started, subs, todo, pump, page>>

Evict(t) ==
    /\ Go(t, "evict", "wake")
    /\ queue' = IF queue = <<>> THEN queue ELSE Tail(queue)
    /\ UNCHANGED <<births, session, viewed, chan, flags, started, subs, closing, pump, page>>

-----------------------------------------------------------------------------
(* The handler and its heartbeat.                                           *)

(* __enter__: the listener first, then the sessions that are there. *)
Listen ==
    /\ Go(Handler, "enter", "snapshot") /\ listening' = TRUE
    /\ UNCHANGED <<births, session, viewed, chan, closed, desynced, queue, started, subs,
                   closing, pump, page>>

LiveSessions ==
    /\ Go(Handler, "snapshot", "start")
    /\ todo' = [todo EXCEPT ![Handler] = {s \in Sessions : born[s] # "absent"}]
    /\ UNCHANGED <<births, session, viewed, chan, flags, queue, started, subs, tries, pump, page>>

StartEach ==
    /\ pc[Handler] = "start" /\ todo[Handler] # {}
    /\ \E s \in todo[Handler] :
         StartPump(s) /\ todo' = [todo EXCEPT ![Handler] = @ \ {s}]
    /\ UNCHANGED <<births, session, viewed, chan, flags, queue, subs, tries, pump, page>>

(* The heartbeat is started, and the ready frame is what is written first. *)
Ready ==
    /\ pc[Handler] = "start" /\ todo[Handler] = {}
    /\ pc' = [pc EXCEPT ![Handler] = "write", ![Heartbeat] = "beat"]
    /\ UNCHANGED <<births, session, viewed, chan, flags, queue, started, subs, closing, pump, page>>

Get ==
    /\ queue # <<>>
    /\ Go(Handler, "get", IF Head(queue) = None THEN "stop" ELSE "write")
    /\ frame' = Head(queue) /\ queue' = Tail(queue)
    /\ UNCHANGED <<births, session, viewed, chan, flags, started, subs, closing, pump,
                   beating, connected, shown>>

Paint(view, e) ==
    [last |-> IF e.kind = "output" THEN e.to ELSE view.last,
     gap |-> view.gap \/ (e.kind = "output" /\ e.from # view.last + 1),
     over |-> view.over \/ e.kind = "exit"]

Paints == shown' = IF frame = None THEN shown ELSE [shown EXCEPT ![frame.of] = Paint(@, frame)]

(* heartbeat.write, the lock free: the frame is sent, or the write raises,  *)
(* one that waited for the browser included.                                *)
Write ==
    /\ pc[Heartbeat] # "parked"
    /\ \/ connected /\ Go(Handler, "write", "get") /\ Paints
       \/ ~connected /\ (Go(Handler, "write", "stop") \/ Go(Handler, "parked", "stop"))
          /\ UNCHANGED shown
    /\ frame' = None
    /\ UNCHANGED <<births, session, viewed, chan, flags, queue, started, subs, closing, pump,
                   beating, connected>>

(* heartbeat.stop(), then close() from __exit__. *)
Stop ==
    /\ Go(Handler, "stop", "shut") /\ beating' = FALSE
    /\ UNCHANGED <<births, session, viewed, chan, flags, queue, started, subs, closing, pump,
                   connected, shown, frame>>

(* Nothing can be written: the browser is gone, or the handler has returned *)
(* and the server shut the socket.                                          *)
Broken == ~connected \/ pc[Handler] = "done"

KeepaliveFails(next) == Go(Heartbeat, "beat", next) \/ Go(Heartbeat, "parked", next)

(* Mutant: the heartbeat only ends itself. *)
BeatJustEnds ==
    /\ \/ ~beating /\ Go(Heartbeat, "beat", "done")
       \/ Broken /\ pc[Handler] # "parked" /\ KeepaliveFails("done")
    /\ UNCHANGED <<births, session, viewed, chan, flags, queue, started, subs, closing, pump, page>>

(* It was stopped, or its write failed: the disconnect is passed on.  A     *)
(* keepalive that is sent at once changes nothing.                          *)
Beat ==
    /\ \/ ~beating /\ Go(Heartbeat, "beat", "done") /\ UNCHANGED tries
       \/ Broken /\ pc[Handler] # "parked" /\ KeepaliveFails("wake")
          /\ tries' = [tries EXCEPT ![Heartbeat] = Capacity + Slack]
    /\ UNCHANGED <<births, session, viewed, chan, flags, queue, started, subs, todo, pump, page>>

(* A thread is in a write that waits for the browser, with _Heartbeat._lock *)
(* in its hand and no timeout: whoever wants to write next waits as well.   *)
Stalled == \E t \in {Handler, Heartbeat} : pc[t] = "parked"

(* A frame, or a keepalive, meets a browser that is there but does not read. *)
Stalls ==
    /\ connected /\ ~Stalled
    /\ Go(Handler, "write", "parked") \/ (beating /\ Go(Heartbeat, "beat", "parked"))
    /\ UNCHANGED <<births, session, viewed, chan, flags, queue, started, subs, closing, pump, page>>

(* The browser reads, and the write that waited for it returns. *)
Reads ==
    /\ connected
    /\ \/ Go(Handler, "parked", "get") /\ Paints /\ frame' = None
       \/ Go(Heartbeat, "parked", "beat") /\ UNCHANGED <<shown, frame>>
    /\ UNCHANGED <<births, session, viewed, chan, flags, queue, started, subs, closing, pump,
                   beating, connected>>

(* The browser goes away: what is written from now on raises. *)
Disconnect ==
    /\ connected /\ connected' = FALSE
    /\ UNCHANGED <<births, session, viewed, chan, flags, queue, started, subs, pc, closing,
                   pump, beating, shown, frame>>

-----------------------------------------------------------------------------
Close(t) == Shut(t) \/ Collect(t) \/ Detach(t)

Interrupt(t) == Wake(t) \/ Evict(t)

Pump(s) ==
    \/ Attach(s) \/ RegisterPump(s) \/ Emit(s) \/ Put(s) \/ Drain(s)
    \/ Unregister(s) \/ DetachSelf(s) \/ Last(s)
    \/ CutTest(s) \/ CutSet(s) \/ Close(s) \/ Interrupt(s)

Handle ==
    \/ Listen \/ LiveSessions \/ StartEach \/ Ready \/ Get \/ Write \/ Stop
    \/ Close(Handler) \/ Interrupt(Handler)

Keepalive == Beat \/ Interrupt(Heartbeat)

Environment ==
    \/ Disconnect \/ Stalls \/ Reads
    \/ \E s \in Sessions : Prints(s) \/ Finish(s) \/ Register(s)

Next ==
    \/ Environment \/ Handle \/ Keepalive
    \/ \E s \in Sessions : Pump(s) \/ Announce(s)

(* Every thread of the server is scheduled, and the handler gets a lock the *)
(* heartbeat, which sleeps between its writes, leaves free again and again. *)
(* Nothing is assumed of the sessions, of creations that were not begun, or *)
(* of the browser: it may stop reading for good, and a write that waits for *)
(* it returns only when it reads or goes away.                              *)
Fairness ==
    /\ WF_vars(Handle) /\ SF_vars(Write) /\ WF_vars(Keepalive)
    /\ \A s \in Sessions : WF_vars(Pump(s)) /\ WF_vars(Announce(s))

Spec == Init /\ [][Next]_vars /\ Fairness

-----------------------------------------------------------------------------
Events == {None} \cup [kind : {"output"}, of : Sessions, from : 1..MaxOutput, to : 1..MaxOutput]
                 \cup {Exit(s) : s \in Sessions}
Tearing == {"shut", "collect", "detach", "wake", "evict"}
Points == {"none", "enter", "snapshot", "start", "get", "write", "parked", "stop", "beat", "attach",
           "register", "emit", "put", "drain", "release", "detach self", "last", "cut",
           "cut set", "done"} \cup Tearing

(* The type of every variable; the shared queue never outgrows its bound.   *)
TypeOK ==
    /\ born \in [Sessions -> {"absent", "announced", "created"}] /\ heard \subseteq Sessions
    /\ out \in [Sessions -> 0..MaxOutput] /\ ended \subseteq Sessions
    /\ viewed \subseteq Sessions
    /\ \A s \in Sessions :
         /\ Len(chan[s]) <= Limit
         /\ \A i \in DOMAIN chan[s] : chan[s][i] \in {Bytes(n) : n \in 1..MaxOutput}
                                                     \cup {END, DESYNC, DETACH}
    /\ Len(queue) <= Capacity /\ \A i \in DOMAIN queue : queue[i] \in Events
    /\ {closed, desynced, listening, beating, connected} \subseteq BOOLEAN
    /\ started \subseteq Sessions /\ subs \subseteq Sessions /\ got \subseteq Sessions
    /\ pc \in [Threads -> Points]
    /\ todo \in [Closers -> SUBSET Sessions] /\ tries \in [Threads -> 0..Capacity + Slack]
    /\ hand \in [Sessions -> Events \cup {Cut(s) : s \in Sessions}] /\ frame \in Events
    /\ shown \in [Sessions -> [last : 0..MaxOutput, gap : BOOLEAN, over : BOOLEAN]]

(* However many threads close or interrupt at once, each evicting what the  *)
(* others put: once they are through, a handler parked in get() on a closed *)
(* stream has a sentinel in its queue.                                      *)
SentinelSurvives ==
    (closed /\ pc[Handler] = "get" /\ \A t \in Threads : pc[t] \notin Tearing)
        => \E i \in DOMAIN queue : queue[i] = None

(* After close() went through the subscriptions, a pump still in drain()    *)
(* has a marker in its channel, even one that was registering meanwhile.    *)
PumpsWoken ==
    (closed /\ \A t \in Closers : pc[t] \notin {"collect", "detach"})
        => \A s \in Sessions : pc[s] = "drain" =>
             \E i \in DOMAIN chan[s] : chan[s][i].kind # "chunk"

(* A pump that is over left no channel behind in its session and no         *)
(* subscription in the stream.                                              *)
NothingLeftBehind ==
    \A s \in Sessions : pc[s] \in {"none", "done"} =>
        /\ s \notin viewed
        /\ s \in subs => \E t \in Closers : pc[t] \in Tearing

(* The teardown, on however many threads, reaches the handler and every     *)
(* pump, and leaves nothing registered.                                     *)
TeardownReachesAll == SentinelSurvives /\ PumpsWoken /\ NothingLeftBehind

(* The pump of a session still has the DESYNC before it, or has just met it. *)
CutComing(s) ==
    \/ \E i \in DOMAIN chan[s] : chan[s][i] = DESYNC
    \/ hand[s] = Cut(s) /\ pc[s] \in {"cut", "cut set"}

(* What the browser was sent of a session is its output from the first      *)
(* chunk on, in order, once.  After a gap the stream is marked desynced, so *)
(* that the connection is dropped and the screen repainted, or, while the   *)
(* handler goes on, a pump is about to mark it; an exit never comes over a  *)
(* gap, or before the last of the output, without that mark.                *)
NothingMissing ==
    \A s \in Sessions :
        /\ (shown[s].over /\ (shown[s].gap \/ shown[s].last # out[s])) => desynced
        /\ (shown[s].gap /\ connected /\ pc[Handler] \in {"get", "write", "parked"})
             => desynced \/ CutComing(s)

(* The comment on _emit: never drop terminal bytes; an exit painted over a  *)
(* gap is what _finish goes out of its way to avoid.                        *)
NoExitOverGap ==
    \A s \in Sessions : shown[s].over => shown[s].last = out[s] /\ ~shown[s].gap

(* When the browser has left, on idle sessions too, the handler thread      *)
(* returns with its listener removed; when the stream is cut it does so if  *)
(* the browser goes on reading, for no write of the server has a timeout.   *)
(* Every pump of a closed stream ends, those of sessions that never print   *)
(* again included, whether or not the browser reads.                        *)
StreamEnds ==
    /\ ~connected ~> (pc[Handler] = "done" /\ ~listening)
    /\ []<>~Stalled => (closed ~> (pc[Handler] = "done" /\ ~listening))
    /\ closed ~> [](\A s \in Sessions : pc[s] \in {"none", "done"})

(* The end of a session is sent to a browser that goes on reading, unless   *)
(* the stream is cut or the browser gone.                                   *)
ExitReported ==
    []<>~Stalled => \A s \in Sessions : s \in ended ~> (shown[s].over \/ closed \/ ~connected)
=============================================================================
