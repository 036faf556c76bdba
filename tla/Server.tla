------------------------------- MODULE Server --------------------------------
(***************************************************************************)
(* The threads of the database server (src/database/server.c and comm.c):  *)
(* the main thread reading the terminal, the listener, the thread that     *)
(* waits for SIGINT, and one thread per client.                            *)
(*                                                                         *)
(* The sections under thread_list_mutex and server_mutex neither block nor *)
(* meet a cancellation point, so each is one step; go_mutex is modelled,   *)
(* because a client waits, and may be cancelled, inside its section.       *)
(* pthread_cancel only marks a thread: it acts when the thread next meets  *)
(* a cancellation point (the reads and writes of comm_serve, cond_wait,    *)
(* the testcancel of the 'f' command; accept, printf and sigwait).         *)
(***************************************************************************)
EXTENDS Integers, FiniteSets

CONSTANTS Clients,       \* client_t structures, each with its thread
          NULL,          \* null pointer, free mutex
          MaxRequests,   \* bound on the commands a client sends
          MaxSignals,    \* bound on the SIGINTs
          MaxToggles,    \* bound on the 's' and 'g' commands that change the gate
          TerminalEnds   \* whether the terminal's input may end

ASSUME ConstAssumption ==
    /\ NULL \notin Clients
    /\ IsFiniteSet(Clients)
    /\ MaxRequests \in Nat /\ MaxSignals \in Nat /\ MaxToggles \in Nat
    /\ TerminalEnds \in BOOLEAN

VARIABLES
    cpc,                  \* where each client thread is
    prev, next,           \* fields of client_t
    cancelled,            \* pthread_cancel was called for the client's thread
    requests,             \* commands the client has sent
    thread_list_head, num_client_threads,
    stopped, go_mutex,    \* client_control_t: stopped, and who holds the mutex
    listener, new,        \* where the listener is, and the client it is making
    monitor,              \* where the SIGINT thread is
    listener_cancelled, monitor_cancelled,
    main,                 \* where the main thread is
    signals, toggles      \* SIGINTs, and changes of stopped, so far

list    == <<prev, next, thread_list_head>>
gate    == <<stopped, go_mutex>>
helpers == <<listener, new, monitor, listener_cancelled, monitor_cancelled>>
inputs  == <<requests, signals, toggles>>
vars    == <<cpc, list, cancelled, num_client_threads, gate, helpers, main, inputs>>

ClientPCs == {"none", "accepted", "created", "counted", "serve", "reading",
              "gate_lock", "gate", "waiting", "woken", "passed", "db",
              "cleanup", "unlinked", "uncounted", "gone"}
Ptr == Clients \cup {NULL}

TypeOK ==
    /\ cpc \in [Clients -> ClientPCs]
    /\ prev \in [Clients -> Ptr] /\ next \in [Clients -> Ptr]
    /\ cancelled \in [Clients -> BOOLEAN]
    /\ requests \in [Clients -> 0..MaxRequests]
    /\ thread_list_head \in Ptr
    /\ num_client_threads \in Int
    /\ stopped \in {0, 1} /\ go_mutex \in Ptr
    /\ listener \in {"accept", "construct", "detach", "dead"} /\ new \in Ptr
    /\ monitor \in {"sigwait", "print", "delete_count", "dead"}
    /\ listener_cancelled \in BOOLEAN /\ monitor_cancelled \in BOOLEAN
    /\ main \in {"read", "cancel_listener", "sig_destroy", "delete_list",
                 "delete_count", "wait_test", "waiting", "db_cleanup", "exited"}
    /\ signals \in 0..MaxSignals /\ toggles \in 0..MaxToggles

Init ==
    /\ cpc = [c \in Clients |-> "none"]
    /\ prev = [c \in Clients |-> NULL] /\ next = [c \in Clients |-> NULL]
    /\ cancelled = [c \in Clients |-> FALSE]
    /\ requests = [c \in Clients |-> 0]
    /\ thread_list_head = NULL /\ num_client_threads = 0
    /\ stopped = 0 /\ go_mutex = NULL
    /\ listener = "accept" /\ new = NULL /\ monitor = "sigwait"
    /\ listener_cancelled = FALSE /\ monitor_cancelled = FALSE
    /\ main = "read" /\ signals = 0 /\ toggles = 0

\* Threads run until main returns, which ends the process.
Running == main # "exited"
Goto(c, l) == cpc' = [cpc EXCEPT ![c] = l]

------------------------------------------------------------------------------
(* The listener (comm.c) and client_constructor *)

accept(c) ==
    /\ Running /\ listener = "accept" /\ cpc[c] = "none"
    /\ listener' = "construct" /\ new' = c
    /\ Goto(c, "accepted")
    /\ UNCHANGED <<list, cancelled, num_client_threads, gate, monitor,
                   listener_cancelled, monitor_cancelled, main, inputs>>

\* A new client_t and its thread.
client_constructor ==
    /\ Running /\ listener = "construct"
    /\ prev' = [prev EXCEPT ![new] = NULL]
    /\ next' = [next EXCEPT ![new] = NULL]
    /\ Goto(new, "created")
    /\ listener' = "detach"
    /\ UNCHANGED <<thread_list_head, cancelled, num_client_threads, gate, new,
                   monitor, listener_cancelled, monitor_cancelled, main, inputs>>

client_detach ==
    /\ Running /\ listener = "detach"
    /\ listener' = "accept"
    /\ UNCHANGED <<cpc, list, cancelled, num_client_threads, gate, new, monitor,
                   listener_cancelled, monitor_cancelled, main, inputs>>

\* The listener is cancelled in accept, or in the printf after it.
listener_cancel ==
    /\ Running /\ listener_cancelled /\ listener \in {"accept", "construct"}
    /\ listener' = "dead"
    /\ UNCHANGED <<cpc, list, cancelled, num_client_threads, gate, new, monitor,
                   listener_cancelled, monitor_cancelled, main, inputs>>

------------------------------------------------------------------------------
(* run_client *)

run_client_count(c) ==
    /\ Running /\ cpc[c] = "created"
    /\ num_client_threads' = num_client_threads + 1
    /\ Goto(c, "counted")
    /\ UNCHANGED <<list, cancelled, gate, helpers, main, inputs>>

\* The client goes to the front of the list.
run_client_join(c) ==
    /\ Running /\ cpc[c] = "counted"
    /\ \/ /\ thread_list_head = NULL
          /\ next' = [next EXCEPT ![c] = NULL]
          /\ prev' = prev
       \/ /\ thread_list_head # NULL
          /\ next' = [next EXCEPT ![c] = thread_list_head]
          /\ prev' = [prev EXCEPT ![c] = NULL, ![thread_list_head] = c]
    /\ thread_list_head' = c
    /\ Goto(c, "serve")
    /\ UNCHANGED <<cancelled, num_client_threads, gate, helpers, main, inputs>>

\* comm_serve sends the last response: a thread cancelled before it ends here.
comm_serve(c) ==
    /\ Running /\ cpc[c] = "serve"
    /\ Goto(c, IF cancelled[c] THEN "cleanup" ELSE "reading")
    /\ UNCHANGED <<list, cancelled, num_client_threads, gate, helpers, main, inputs>>

\* fgets returns a command.
comm_serve_command(c) ==
    /\ Running /\ cpc[c] = "reading" /\ requests[c] < MaxRequests
    /\ requests' = [requests EXCEPT ![c] = @ + 1]
    /\ Goto(c, "gate_lock")
    /\ UNCHANGED <<list, cancelled, num_client_threads, gate, helpers, main,
                   signals, toggles>>

\* The connection is closed, or the command is the EOF character.
comm_serve_end(c) ==
    /\ Running /\ cpc[c] = "reading"
    /\ Goto(c, "cleanup")
    /\ UNCHANGED <<list, cancelled, num_client_threads, gate, helpers, main, inputs>>

\* Cancelled while blocked in fgets.
comm_serve_cancel(c) ==
    /\ Running /\ cpc[c] = "reading" /\ cancelled[c]
    /\ Goto(c, "cleanup")
    /\ UNCHANGED <<list, cancelled, num_client_threads, gate, helpers, main, inputs>>

\* Mutation: if (stopped) instead of while (stopped).
client_control_lock_if(c) ==
    /\ Running /\ go_mutex = NULL
    /\ \/ cpc[c] = "gate_lock" /\ Goto(c, "gate") /\ go_mutex' = c
       \/ cpc[c] = "woken" /\ Goto(c, "passed") /\ go_mutex' = NULL
    /\ UNCHANGED <<list, cancelled, num_client_threads, stopped, helpers, main, inputs>>

\* client_control_wait: lock go_mutex, at first or when cond_wait returns.
client_control_lock(c) ==
    /\ Running /\ cpc[c] \in {"gate_lock", "woken"} /\ go_mutex = NULL
    /\ go_mutex' = c
    /\ Goto(c, "gate")
    /\ UNCHANGED <<list, cancelled, num_client_threads, stopped, helpers, main, inputs>>

\* while (stopped == 1) cond_wait. The mutex is released whether the client
\* goes on, waits, or finds in cond_wait that it was cancelled. Once released,
\* it keeps nobody from stopping the server before the client is any further.
client_control_wait(c) ==
    /\ Running /\ cpc[c] = "gate"
    /\ Goto(c, IF stopped = 0 THEN "passed"
               ELSE IF cancelled[c] THEN "cleanup" ELSE "waiting")
    /\ go_mutex' = NULL
    /\ UNCHANGED <<list, cancelled, num_client_threads, stopped, helpers, main, inputs>>

\* cond_wait may return without a broadcast.
cond_wait_spurious(c) ==
    /\ Running /\ cpc[c] = "waiting"
    /\ Goto(c, "woken")
    /\ UNCHANGED <<list, cancelled, num_client_threads, gate, helpers, main, inputs>>

\* Mutation: no cleanup handler unlocks the mutex.
cond_wait_cancel_locked(c) ==
    /\ Running /\ cpc[c] = "waiting" /\ cancelled[c] /\ go_mutex = NULL
    /\ Goto(c, "cleanup")
    /\ go_mutex' = c
    /\ UNCHANGED <<list, cancelled, num_client_threads, stopped, helpers, main, inputs>>

\* Cancelled in cond_wait: the mutex is taken again and the cleanup handler
\* pushed by client_control_wait releases it.
cond_wait_cancel(c) ==
    /\ Running /\ cpc[c] = "waiting" /\ cancelled[c] /\ go_mutex = NULL
    /\ Goto(c, "cleanup")
    /\ go_mutex' = NULL
    /\ UNCHANGED <<list, cancelled, num_client_threads, stopped, helpers, main, inputs>>

\* run_client calls interpret_command.
run_client_enter(c) ==
    /\ Running /\ cpc[c] = "passed"
    /\ Goto(c, "db")
    /\ UNCHANGED <<list, cancelled, num_client_threads, gate, helpers, main, inputs>>

interpret_command(c) ==
    /\ Running /\ cpc[c] = "db"
    /\ Goto(c, "serve")
    /\ UNCHANGED <<list, cancelled, num_client_threads, gate, helpers, main, inputs>>

\* pthread_testcancel between the lines of an 'f' file.
interpret_command_cancel(c) ==
    /\ Running /\ cpc[c] = "db" /\ cancelled[c]
    /\ Goto(c, "cleanup")
    /\ UNCHANGED <<list, cancelled, num_client_threads, gate, helpers, main, inputs>>

\* Mutation: the head's successor keeps its prev.
thread_cleanup_head(c) ==
    LET p == prev[c]
        n == next[c]
    IN
    /\ Running /\ cpc[c] = "cleanup"
    /\ next' = IF p # NULL THEN [next EXCEPT ![p] = n] ELSE next
    /\ prev' = IF p # NULL /\ n # NULL THEN [prev EXCEPT ![n] = p] ELSE prev
    /\ thread_list_head' = IF p = NULL THEN n ELSE thread_list_head
    /\ Goto(c, "unlinked")
    /\ UNCHANGED <<cancelled, num_client_threads, gate, helpers, main, inputs>>

\* thread_cleanup takes the client out of the list by its own pointers.
thread_cleanup(c) ==
    LET p == prev[c]
        n == next[c]
    IN
    /\ Running /\ cpc[c] = "cleanup"
    /\ next' = IF p # NULL THEN [next EXCEPT ![p] = n] ELSE next
    /\ prev' = IF n # NULL THEN [prev EXCEPT ![n] = p] ELSE prev
    /\ thread_list_head' = IF p = NULL THEN n ELSE thread_list_head
    /\ Goto(c, "unlinked")
    /\ UNCHANGED <<cancelled, num_client_threads, gate, helpers, main, inputs>>

\* Mutation: the broadcast without the decrement.
client_destructor_broadcast(c) ==
    /\ Running /\ cpc[c] = "unlinked"
    /\ main' = IF main = "waiting" THEN "wait_test" ELSE main
    /\ Goto(c, "uncounted")
    /\ UNCHANGED <<list, cancelled, num_client_threads, gate, helpers, inputs>>

\* client_destructor: the decrement, with a broadcast to main.
client_destructor(c) ==
    /\ Running /\ cpc[c] = "unlinked"
    /\ num_client_threads' = num_client_threads - 1
    /\ main' = IF main = "waiting" THEN "wait_test" ELSE main
    /\ Goto(c, "uncounted")
    /\ UNCHANGED <<list, cancelled, gate, helpers, inputs>>

client_free(c) ==
    /\ Running /\ cpc[c] = "uncounted"
    /\ Goto(c, "gone")
    /\ UNCHANGED <<list, cancelled, num_client_threads, gate, helpers, main, inputs>>

------------------------------------------------------------------------------
(* delete_all, run by the SIGINT thread and by main: two sections *)

\* The clients on the list, as the loop finds them.
Listed ==
    LET reach[i \in 0..Cardinality(Clients)] ==
          IF i = 0 THEN {thread_list_head} \ {NULL}
          ELSE reach[i - 1] \cup ({next[c] : c \in reach[i - 1]} \ {NULL})
    IN reach[Cardinality(Clients)]

delete_list ==
    /\ cancelled' = [c \in Clients |-> cancelled[c] \/ c \in Listed]
    /\ thread_list_head' = NULL

delete_count == num_client_threads' = 0

\* monitor_signal: sigwait returns.
monitor_signal ==
    /\ Running /\ monitor = "sigwait" /\ ~monitor_cancelled
    /\ signals < MaxSignals
    /\ signals' = signals + 1
    /\ monitor' = "print"
    /\ UNCHANGED <<cpc, list, cancelled, num_client_threads, gate, listener, new,
                   listener_cancelled, monitor_cancelled, main, requests, toggles>>

monitor_delete_list ==
    /\ Running /\ monitor = "print"
    /\ delete_list
    /\ monitor' = "delete_count"
    /\ UNCHANGED <<cpc, prev, next, num_client_threads, gate, listener, new,
                   listener_cancelled, monitor_cancelled, main, inputs>>

monitor_delete_count ==
    /\ Running /\ monitor = "delete_count"
    /\ delete_count
    /\ monitor' = "sigwait"
    /\ UNCHANGED <<cpc, list, cancelled, gate, listener, new,
                   listener_cancelled, monitor_cancelled, main, inputs>>

\* Cancelled in sigwait or in the printf after it.
monitor_cancel ==
    /\ Running /\ monitor_cancelled /\ monitor \in {"sigwait", "print"}
    /\ monitor' = "dead"
    /\ UNCHANGED <<cpc, list, cancelled, num_client_threads, gate, listener, new,
                   listener_cancelled, monitor_cancelled, main, inputs>>

------------------------------------------------------------------------------
(* main: the terminal loop and the shutdown *)

client_control_stop ==
    /\ main = "read" /\ toggles < MaxToggles /\ go_mutex = NULL
    /\ stopped' = 1
    /\ toggles' = toggles + 1 - stopped
    /\ UNCHANGED <<cpc, list, cancelled, num_client_threads, go_mutex, helpers,
                   main, requests, signals>>

\* Mutations: no broadcast; cond_signal, which wakes one client.
release_waking(woken) ==
    /\ main = "read" /\ toggles < MaxToggles /\ go_mutex = NULL
    /\ stopped' = 0
    /\ cpc' = [c \in Clients |-> IF c \in woken THEN "woken" ELSE cpc[c]]
    /\ toggles' = toggles + stopped
    /\ UNCHANGED <<list, cancelled, num_client_threads, go_mutex, helpers, main,
                   requests, signals>>
client_control_release_silent == release_waking({})
client_control_release_signal ==
    LET waiting == {c \in Clients : cpc[c] = "waiting"} IN
    IF waiting = {} THEN release_waking({})
    ELSE \E c \in waiting : release_waking({c})

\* stopped = 0 and a broadcast to every waiting client
client_control_release ==
    /\ main = "read" /\ toggles < MaxToggles /\ go_mutex = NULL
    /\ stopped' = 0
    /\ cpc' = [c \in Clients |-> IF cpc[c] = "waiting" THEN "woken" ELSE cpc[c]]
    /\ toggles' = toggles + stopped
    /\ UNCHANGED <<list, cancelled, num_client_threads, go_mutex, helpers, main,
                   requests, signals>>

\* read returns 0
main_eof ==
    /\ main = "read" /\ TerminalEnds
    /\ main' = "cancel_listener"
    /\ UNCHANGED <<cpc, list, cancelled, num_client_threads, gate, helpers, inputs>>

main_cancel_listener ==
    /\ main = "cancel_listener"
    /\ listener_cancelled' = TRUE
    /\ main' = "sig_destroy"
    /\ UNCHANGED <<cpc, list, cancelled, num_client_threads, gate, listener, new,
                   monitor, monitor_cancelled, inputs>>

sig_handler_destructor ==
    /\ main = "sig_destroy"
    /\ monitor_cancelled' = TRUE
    /\ main' = "delete_list"
    /\ UNCHANGED <<cpc, list, cancelled, num_client_threads, gate, listener, new,
                   monitor, listener_cancelled, inputs>>

main_delete_list ==
    /\ main = "delete_list"
    /\ delete_list
    /\ main' = "delete_count"
    /\ UNCHANGED <<cpc, prev, next, num_client_threads, gate, helpers, inputs>>

main_delete_count ==
    /\ main = "delete_count"
    /\ delete_count
    /\ main' = "wait_test"
    /\ UNCHANGED <<cpc, list, cancelled, gate, helpers, inputs>>

\* while (num_client_threads != 0) cond_wait
main_wait ==
    /\ main = "wait_test"
    /\ main' = IF num_client_threads # 0 THEN "waiting" ELSE "db_cleanup"
    /\ UNCHANGED <<cpc, list, cancelled, num_client_threads, gate, helpers, inputs>>

main_spurious ==
    /\ main = "waiting"
    /\ main' = "wait_test"
    /\ UNCHANGED <<cpc, list, cancelled, num_client_threads, gate, helpers, inputs>>

\* db_cleanup, "Goodbye!" and the return from main
main_return ==
    /\ main = "db_cleanup"
    /\ main' = "exited"
    /\ UNCHANGED <<cpc, list, cancelled, num_client_threads, gate, helpers, inputs>>

------------------------------------------------------------------------------
\* What a client thread does by itself, whatever its peer sends.
ClientStep(c) ==
    \/ run_client_count(c) \/ run_client_join(c) \/ comm_serve(c)
    \/ comm_serve_cancel(c) \/ client_control_lock(c) \/ client_control_wait(c)
    \/ cond_wait_cancel(c) \/ run_client_enter(c) \/ interpret_command(c)
    \/ thread_cleanup(c)
    \/ client_destructor(c) \/ client_free(c)

\* What depends on the peer, the command or chance.
ClientInput(c) ==
    \/ accept(c) \/ comm_serve_command(c) \/ comm_serve_end(c)
    \/ cond_wait_spurious(c) \/ interpret_command_cancel(c)

Listener == client_constructor \/ client_detach \/ listener_cancel
Monitor == monitor_delete_list \/ monitor_delete_count \/ monitor_cancel
Shutdown ==
    \/ main_cancel_listener \/ sig_handler_destructor \/ main_delete_list
    \/ main_delete_count \/ main_wait \/ main_return
Terminal == client_control_stop \/ client_control_release \/ main_eof

Next ==
    \/ \E c \in Clients : ClientStep(c) \/ ClientInput(c)
    \/ Listener \/ Monitor \/ Shutdown \/ Terminal \/ monitor_signal \/ main_spurious

Spec == Init /\ [][Next]_vars

\* The scheduler runs every thread that can go on; input may stop at any time.
\* go_mutex is held for a few instructions only, so a client that wants it gets
\* it even while others keep taking it after spurious wakeups.
Fairness ==
    /\ \A c \in Clients : WF_vars(ClientStep(c))
    /\ \A c \in Clients : SF_vars(client_control_lock(c) \/ cond_wait_cancel(c))
    /\ WF_vars(Listener) /\ WF_vars(Monitor) /\ WF_vars(Shutdown)

FairSpec == Spec /\ Fairness
==============================================================================
