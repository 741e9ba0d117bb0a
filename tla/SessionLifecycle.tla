-------------------------- MODULE SessionLifecycle --------------------------
(***************************************************************************)
(* What a terminal session promises the rest of the server: it runs until  *)
(* it exits, its status is published once, it counts as stopped exactly    *)
(* when the first close() found it running, and when a close() returns the *)
(* session is over.  SessionManager relies on this; PtySession implements  *)
(* it.                                                                     *)
(***************************************************************************)
CONSTANTS
    Closers,  \* threads that call close()
    Statuses  \* exit statuses, None among them

VARIABLES
    running,  \* the exit is not published
    code,     \* exit_code
    stopped,  \* somebody asked for the end
    call      \* closer |-> "out", "works", "waits", "closed", "gaveUp"

life == <<running, code, stopped, call>>

Init ==
    /\ running = TRUE /\ stopped = FALSE /\ code \in Statuses
    /\ call = [c \in Closers |-> "out"]

Exit ==
    /\ running /\ running' = FALSE /\ code' \in Statuses
    /\ UNCHANGED <<stopped, call>>

First == \A c \in Closers : call[c] = "out"

Enter(c) ==
    /\ call[c] = "out"
    /\ call' = [call EXCEPT ![c] = IF First THEN "works" ELSE "waits"]
    /\ stopped' = (stopped \/ (First /\ running))
    /\ UNCHANGED <<running, code>>

Finish(c) ==
    /\ call[c] = "works" /\ ~running
    /\ call' = [call EXCEPT ![c] = "closed"]
    /\ UNCHANGED <<running, code, stopped>>

(* A second close returns after the first, or when its patience runs out. *)
Return(c) ==
    /\ call[c] = "waits"
    /\ \/ call' = [call EXCEPT ![c] = "gaveUp"]
       \/ /\ \E d \in Closers : call[d] = "closed"
          /\ call' = [call EXCEPT ![c] = "closed"]
    /\ UNCHANGED <<running, code, stopped>>

Next == Exit \/ \E c \in Closers : Enter(c) \/ Finish(c) \/ Return(c)

Spec == Init /\ [][Next]_life
=============================================================================
