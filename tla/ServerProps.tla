----------------------------- MODULE ServerProps -----------------------------
(***************************************************************************)
(* What the threads of src/database/server.c guarantee one another, and    *)
(* what its comments promise.                                              *)
(***************************************************************************)
EXTENDS Server

\* The client's node is its own to keep in the list: joined, not yet removed.
Joined(c) == cpc[c] \in {"serve", "reading", "gate_lock", "gate", "waiting",
                         "woken", "passed", "db", "cleanup"}
\* run_client has counted the client and client_destructor has not yet.
Counted(c) == Joined(c) \/ cpc[c] \in {"counted", "unlinked"}

\* The pointers threads follow lead to clients that are not freed and agree in
\* both directions, even when clients that delete_all threw off the list
\* unlink themselves among clients that joined later.
ListSafe ==
    /\ thread_list_head # NULL =>
         Joined(thread_list_head) /\ prev[thread_list_head] = NULL
    /\ \A c \in Clients : Joined(c) =>
         /\ next[c] # NULL => Joined(next[c]) /\ prev[next[c]] = c
         /\ prev[c] # NULL => Joined(prev[c]) /\ next[prev[c]] = c

\* A client not yet on the list has no neighbours. (run_client sets prev only
\* when the list is not empty, and relies on this.)
FreshUnlinked ==
    \A c \in Clients : cpc[c] \in {"created", "counted"} =>
        prev[c] = NULL /\ next[c] = NULL

\* No cancelled client dies with go_mutex: who holds it is between its lock and
\* its unlock.
GateOwner == \A c \in Clients : go_mutex = c <=> cpc[c] = "gate"

\* The broadcast of client_control_release misses nobody: clients wait only
\* while the server is stopped.
NoLostWakeup == \A c \in Clients : cpc[c] = "waiting" => stopped = 1

\* The clients that client_control_wait has let through to the database.
Inside == {c \in Clients : cpc[c] \in {"passed", "db"}}

\* From client_control_stop to client_control_release the database only empties:
\* a client that had passed the gate finishes that one command, which it may even
\* begin after the stop, and no other gets in, woken from cond_wait or not.
StopHolds == [][stopped = 1 /\ stopped' = 1 => Inside' \subseteq Inside]_vars

\* num_client_threads never exceeds the clients there are, and counts them
\* exactly as long as delete_all has not run.
CountExact ==
    LET counted == Cardinality({c \in Clients : Counted(c)}) IN
    /\ num_client_threads <= counted
    /\ signals = 0 /\ main \in {"read", "cancel_listener", "sig_destroy",
                                "delete_list", "delete_count"}
       => num_client_threads = counted

------------------------------------------------------------------------------
\* A client that delete_all cancelled ends, wherever the cancel finds it: at the
\* gate, reading, or inside the database.
CancelledEnd ==
    \A c \in Clients : cancelled[c] ~> cpc[c] = "gone" \/ main = "exited"

\* With the server going, no client stays at the gate.
AtGate(c) == cpc[c] \in {"gate_lock", "gate", "waiting", "woken"}
GateOpens ==
    \A c \in Clients :
        AtGate(c) /\ stopped = 0 ~> ~AtGate(c) \/ stopped = 1 \/ main = "exited"

------------------------------------------------------------------------------
(* Promises of the comments that the code does not keep *)

\* "all of the server's client threads should terminate on SIGINT": every
\* running client is on the list that the next delete_all will cancel.
SigintReachesAll ==
    \A c \in Clients : Joined(c) /\ ~cancelled[c] /\ cpc[c] # "cleanup" => c \in Listed

\* "No threads should be using the database when [db_cleanup] is called".
CleanupAlone ==
    main = "db_cleanup" => \A c \in Clients : cpc[c] # "db"
==============================================================================
