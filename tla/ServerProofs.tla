---------------------------- MODULE ServerProofs -----------------------------
(***************************************************************************)
(* Proofs, for any number of clients, commands, signals and terminal       *)
(* inputs, that the client list stays well linked and go_mutex well kept,  *)
(* and about the connection of one client with its thread: for scripts of  *)
(* any length, lines of any length and buffers of any two sizes of which   *)
(* the client's is not the smaller.                                        *)
(***************************************************************************)
EXTENDS ServerProps, Wire, FiniteSetTheorems, SequenceTheorems, WellFoundedInduction, TLAPS

\* The client the listener is about to construct has no thread yet.
NewAccepted == listener = "construct" => new \in Clients /\ cpc[new] = "accepted"

Inv == TypeOK /\ NewAccepted /\ FreshUnlinked /\ ListSafe /\ GateOwner /\ NoLostWakeup

\* The invariant holds in the initial state, with no client and an empty list.
LEMMA InitInv == Init => Inv
  <1> SUFFICES ASSUME Init PROVE Inv
    OBVIOUS
  <1>1. TypeOK
    <2>1. cancelled \in [Clients -> BOOLEAN] /\ cpc \in [Clients -> ClientPCs]
      BY DEF Init, ClientPCs
    <2>2. prev \in [Clients -> Ptr] /\ next \in [Clients -> Ptr]
      BY DEF Init, Ptr
    <2>3. requests \in [Clients -> 0..MaxRequests]
      BY ConstAssumption DEF Init
    <2>4. thread_list_head \in Ptr /\ go_mutex \in Ptr /\ new \in Ptr
      BY DEF Init, Ptr
    <2>5. listener_cancelled \in BOOLEAN /\ monitor_cancelled \in BOOLEAN
      BY DEF Init
    <2>6. /\ num_client_threads \in Int /\ stopped \in {0, 1}
          /\ signals \in 0..MaxSignals /\ toggles \in 0..MaxToggles
      BY ConstAssumption DEF Init
    <2>7. /\ listener = "accept" /\ monitor = "sigwait" /\ main = "read"
      BY DEF Init
    <2> QED
      BY <2>1, <2>2, <2>3, <2>4, <2>5, <2>6, <2>7 DEF TypeOK
  <1>2. NewAccepted /\ FreshUnlinked
    BY DEF Init, NewAccepted, FreshUnlinked
  <1>3. ListSafe
    BY DEF Init, ListSafe, Joined
  <1>4. GateOwner /\ NoLostWakeup
    BY ConstAssumption DEF Init, GateOwner, NoLostWakeup
  <1> QED
    BY <1>1, <1>2, <1>3, <1>4 DEF Inv

\* Every action keeps the types of the variables.
LEMMA TypeStep == TypeOK /\ NewAccepted /\ [Next]_vars => TypeOK'
  <1> SUFFICES ASSUME TypeOK, NewAccepted, [Next]_vars PROVE TypeOK'
    OBVIOUS
  <1> USE ConstAssumption DEF TypeOK, Ptr, Goto, list, gate, helpers, inputs
  <1>1. ASSUME NEW c \in Clients, accept(c) PROVE TypeOK'
    BY <1>1 DEF accept, ClientPCs
  <1>2. ASSUME NEW c \in Clients, run_client_count(c) PROVE TypeOK'
    BY <1>2 DEF run_client_count, ClientPCs
  <1>3. ASSUME NEW c \in Clients, run_client_join(c) PROVE TypeOK'
    BY <1>3 DEF run_client_join, ClientPCs
  <1>4. ASSUME NEW c \in Clients, comm_serve(c) PROVE TypeOK'
    BY <1>4 DEF comm_serve, ClientPCs
  <1>5. ASSUME NEW c \in Clients, comm_serve_command(c) PROVE TypeOK'
    BY <1>5 DEF comm_serve_command, ClientPCs
  <1>6. ASSUME NEW c \in Clients, comm_serve_end(c) PROVE TypeOK'
    BY <1>6 DEF comm_serve_end, ClientPCs
  <1>7. ASSUME NEW c \in Clients, comm_serve_cancel(c) PROVE TypeOK'
    BY <1>7 DEF comm_serve_cancel, ClientPCs
  <1>8. ASSUME NEW c \in Clients, client_control_lock(c) PROVE TypeOK'
    BY <1>8 DEF client_control_lock, ClientPCs
  <1>9. ASSUME NEW c \in Clients, client_control_wait(c) PROVE TypeOK'
    BY <1>9 DEF client_control_wait, ClientPCs
  <1>10. ASSUME NEW c \in Clients, cond_wait_spurious(c) PROVE TypeOK'
    BY <1>10 DEF cond_wait_spurious, ClientPCs
  <1>11. ASSUME NEW c \in Clients, cond_wait_cancel(c) PROVE TypeOK'
    BY <1>11 DEF cond_wait_cancel, ClientPCs
  <1>12. ASSUME NEW c \in Clients, interpret_command(c) \/ run_client_enter(c)
         PROVE  TypeOK'
    BY <1>12 DEF interpret_command, run_client_enter, ClientPCs
  <1>13. ASSUME NEW c \in Clients, interpret_command_cancel(c) PROVE TypeOK'
    BY <1>13 DEF interpret_command_cancel, ClientPCs
  <1>14. ASSUME NEW c \in Clients, thread_cleanup(c) PROVE TypeOK'
    BY <1>14 DEF thread_cleanup, ClientPCs
  <1>15. ASSUME NEW c \in Clients, client_destructor(c) PROVE TypeOK'
    BY <1>15 DEF client_destructor, ClientPCs
  <1>16. ASSUME NEW c \in Clients, client_free(c) PROVE TypeOK'
    BY <1>16 DEF client_free, ClientPCs
  <1>17. CASE client_constructor
    BY <1>17 DEF client_constructor, ClientPCs, NewAccepted
  <1>18. CASE client_detach
    BY <1>18 DEF client_detach
  <1>19. CASE listener_cancel
    BY <1>19 DEF listener_cancel
  <1>20. CASE monitor_delete_list
    BY <1>20 DEF monitor_delete_list, delete_list
  <1>21. CASE monitor_delete_count
    BY <1>21 DEF monitor_delete_count, delete_count
  <1>22. CASE monitor_cancel
    BY <1>22 DEF monitor_cancel
  <1>23. CASE main_cancel_listener
    BY <1>23 DEF main_cancel_listener
  <1>24. CASE sig_handler_destructor
    BY <1>24 DEF sig_handler_destructor
  <1>25. CASE main_delete_list
    BY <1>25 DEF main_delete_list, delete_list
  <1>26. CASE main_delete_count
    BY <1>26 DEF main_delete_count, delete_count
  <1>27. CASE main_wait
    BY <1>27 DEF main_wait
  <1>28. CASE main_return
    BY <1>28 DEF main_return
  <1>29. CASE client_control_stop
    BY <1>29 DEF client_control_stop
  <1>30. CASE client_control_release
    BY <1>30 DEF client_control_release, ClientPCs
  <1>31. CASE main_eof
    BY <1>31 DEF main_eof
  <1>32. CASE monitor_signal
    BY <1>32 DEF monitor_signal
  <1>33. CASE main_spurious
    BY <1>33 DEF main_spurious
  <1>34. CASE UNCHANGED vars
    BY <1>34 DEF vars
  <1> QED
    BY <1>1, <1>2, <1>3, <1>4, <1>5, <1>6, <1>7, <1>8, <1>9, <1>10, <1>11, <1>12, <1>13, <1>14, <1>15, <1>16, <1>17, <1>18, <1>19, <1>20, <1>21, <1>22, <1>23, <1>24, <1>25, <1>26, <1>27, <1>28, <1>29, <1>30, <1>31, <1>32, <1>33, <1>34 DEF Next, ClientStep,
       ClientInput, Listener, Monitor, Shutdown, Terminal

\* A step that keeps the list, and who is on it, keeps the list properties.
LEMMA ListFrame ==
    ASSUME TypeOK, FreshUnlinked, ListSafe, list' = list,
           \A c \in Clients : Joined(c)' = Joined(c),
           \A c \in Clients : cpc'[c] \in {"created", "counted"}
                                => cpc[c] \in {"created", "counted"}
    PROVE  FreshUnlinked' /\ ListSafe'
  <1>1. prev' = prev /\ next' = next /\ thread_list_head' = thread_list_head
    BY DEF list
  <1>2. FreshUnlinked'
    BY <1>1 DEF FreshUnlinked
  <1>3. ListSafe'
    BY <1>1 DEF ListSafe, TypeOK, Ptr
  <1> QED
    BY <1>2, <1>3

\* The list properties are kept: only five actions write the list.
LEMMA ListStep ==
    TypeOK /\ NewAccepted /\ FreshUnlinked /\ ListSafe /\ [Next]_vars
      => NewAccepted' /\ FreshUnlinked' /\ ListSafe'
  <1> SUFFICES ASSUME TypeOK, NewAccepted, FreshUnlinked, ListSafe, [Next]_vars
               PROVE  NewAccepted' /\ FreshUnlinked' /\ ListSafe'
    OBVIOUS
  <1> DEFINE Goal == NewAccepted' /\ FreshUnlinked' /\ ListSafe'
             Client(c) ==
               \/ accept(c) \/ run_client_count(c) \/ comm_serve(c)
               \/ comm_serve_command(c) \/ comm_serve_end(c)
               \/ comm_serve_cancel(c) \/ client_control_lock(c)
               \/ client_control_wait(c) \/ cond_wait_spurious(c)
               \/ cond_wait_cancel(c) \/ run_client_enter(c) \/ interpret_command(c)
               \/ interpret_command_cancel(c) \/ client_destructor(c)
               \/ client_free(c)
             Other ==
               \/ client_detach \/ listener_cancel \/ monitor_delete_count
               \/ monitor_cancel \/ main_cancel_listener
               \/ sig_handler_destructor \/ main_delete_count \/ main_wait
               \/ main_return \/ client_control_stop \/ client_control_release
               \/ main_eof \/ monitor_signal \/ main_spurious
  <1> USE ConstAssumption
  <1>1. ASSUME NEW c \in Clients, Client(c) PROVE Goal
    <2>1. NewAccepted'
      BY <1>1 DEF NewAccepted, TypeOK, Goto, helpers,
         accept, run_client_count, comm_serve, comm_serve_command,
         comm_serve_end, comm_serve_cancel, client_control_lock,
         client_control_wait, cond_wait_spurious, cond_wait_cancel,
         run_client_enter, interpret_command, interpret_command_cancel, client_destructor,
         client_free
    <2>2. list' = list /\ \A d \in Clients :
             /\ Joined(d)' = Joined(d)
             /\ cpc'[d] \in {"created", "counted"} => cpc[d] \in {"created", "counted"}
      BY <1>1 DEF Joined, TypeOK, Goto, list,
         accept, run_client_count, comm_serve, comm_serve_command,
         comm_serve_end, comm_serve_cancel, client_control_lock,
         client_control_wait, cond_wait_spurious, cond_wait_cancel,
         run_client_enter, interpret_command, interpret_command_cancel, client_destructor,
         client_free
    <2> QED
      BY <2>1, <2>2, ListFrame
  <1>2. CASE Other \/ UNCHANGED vars
    <2>1. NewAccepted'
      BY <1>2 DEF NewAccepted, TypeOK, helpers, vars, delete_count,
         client_detach, listener_cancel, monitor_delete_count, monitor_cancel,
         main_cancel_listener, sig_handler_destructor, main_delete_count,
         main_wait, main_return, client_control_stop, client_control_release,
         main_eof, monitor_signal, main_spurious
    <2>2. list' = list /\ \A d \in Clients :
             /\ Joined(d)' = Joined(d)
             /\ cpc'[d] \in {"created", "counted"} => cpc[d] \in {"created", "counted"}
      BY <1>2 DEF Joined, TypeOK, list, vars, delete_count,
         client_detach, listener_cancel, monitor_delete_count, monitor_cancel,
         main_cancel_listener, sig_handler_destructor, main_delete_count,
         main_wait, main_return, client_control_stop, client_control_release,
         main_eof, monitor_signal, main_spurious
    <2> QED
      BY <2>1, <2>2, ListFrame
  <1>3. CASE client_constructor
    <2>1. new \in Clients /\ cpc[new] = "accepted"
      BY <1>3 DEF client_constructor, NewAccepted
    <2>2. NewAccepted' /\ FreshUnlinked'
      BY <1>3, <2>1 DEF client_constructor, NewAccepted, FreshUnlinked, TypeOK, Goto
    <2>3. ~Joined(new) /\ \A d \in Clients : Joined(d)' <=> Joined(d)
      BY <1>3, <2>1 DEF client_constructor, Joined, TypeOK, Goto
    <2>4. ListSafe'
      BY <1>3, <2>1, <2>3 DEF client_constructor, ListSafe, TypeOK, Ptr
    <2> QED
      BY <2>2, <2>4
  <1>4. ASSUME NEW c \in Clients, run_client_join(c) PROVE Goal
    <2>1. NewAccepted' /\ FreshUnlinked'
      BY <1>4 DEF run_client_join, NewAccepted, FreshUnlinked, ListSafe, Joined,
         TypeOK, Ptr, Goto, helpers
    <2>2. \A d \in Clients : Joined(d)' <=> Joined(d) \/ d = c
      BY <1>4 DEF run_client_join, Joined, TypeOK, Goto
    <2>3. ~Joined(c) /\ prev[c] = NULL
      BY <1>4 DEF run_client_join, Joined, FreshUnlinked
    <2>4. ListSafe'
      BY <1>4, <2>2, <2>3 DEF run_client_join, ListSafe, TypeOK, Ptr
    <2> QED
      BY <2>1, <2>4
  <1>5. ASSUME NEW c \in Clients, thread_cleanup(c) PROVE Goal
    <2>1. NewAccepted' /\ FreshUnlinked'
      BY <1>5 DEF thread_cleanup, NewAccepted, FreshUnlinked, ListSafe, Joined,
         TypeOK, Ptr, Goto, helpers
    <2>2. \A d \in Clients : Joined(d)' <=> Joined(d) /\ d # c
      BY <1>5 DEF thread_cleanup, Joined, TypeOK, Goto
    <2>3. Joined(c)
      BY <1>5 DEF thread_cleanup, Joined
    <2>4. ListSafe'
      BY <1>5, <2>2, <2>3 DEF thread_cleanup, ListSafe, TypeOK, Ptr
    <2> QED
      BY <2>1, <2>4
  <1>6. CASE monitor_delete_list
    BY <1>6 DEF monitor_delete_list, delete_list, NewAccepted, FreshUnlinked, ListSafe,
       Joined, TypeOK, helpers
  <1>7. CASE main_delete_list
    BY <1>7 DEF main_delete_list, delete_list, NewAccepted, FreshUnlinked, ListSafe,
       Joined, TypeOK, helpers
  <1> QED
    BY <1>1, <1>2, <1>3, <1>4, <1>5, <1>6, <1>7 DEF Next, ClientStep,
       ClientInput, Listener, Monitor, Shutdown, Terminal

\* go_mutex and the condition variable: who holds the one, who waits on the other.
LEMMA GateStep ==
    TypeOK /\ NewAccepted /\ GateOwner /\ NoLostWakeup /\ [Next]_vars
      => GateOwner' /\ NoLostWakeup'
  <1> SUFFICES ASSUME TypeOK, NewAccepted, GateOwner, NoLostWakeup, [Next]_vars
               PROVE  GateOwner' /\ NoLostWakeup'
    OBVIOUS
  <1> DEFINE Goal == GateOwner' /\ NoLostWakeup'
             Client(c) ==
               \/ accept(c) \/ run_client_count(c) \/ run_client_join(c)
               \/ comm_serve(c) \/ comm_serve_command(c) \/ comm_serve_end(c)
               \/ comm_serve_cancel(c) \/ cond_wait_spurious(c)
               \/ run_client_enter(c) \/ interpret_command(c) \/ interpret_command_cancel(c)
               \/ thread_cleanup(c) \/ client_destructor(c) \/ client_free(c)
             Other ==
               \/ client_detach \/ listener_cancel \/ monitor_delete_list
               \/ monitor_delete_count \/ monitor_cancel
               \/ main_cancel_listener \/ sig_handler_destructor
               \/ main_delete_list \/ main_delete_count \/ main_wait
               \/ main_return \/ main_eof \/ monitor_signal \/ main_spurious
  <1> USE ConstAssumption DEF TypeOK, GateOwner, NoLostWakeup, gate, Ptr
  <1>1. ASSUME NEW c \in Clients, Client(c) PROVE Goal
    BY <1>1 DEF Goto,
       accept, run_client_count, run_client_join, comm_serve,
       comm_serve_command, comm_serve_end, comm_serve_cancel,
       cond_wait_spurious, run_client_enter, interpret_command, interpret_command_cancel,
       thread_cleanup, client_destructor, client_free
  <1>2. CASE Other \/ UNCHANGED vars
    BY <1>2 DEF vars,
       client_detach, listener_cancel, monitor_delete_list,
       monitor_delete_count, monitor_cancel, main_cancel_listener,
       sig_handler_destructor, main_delete_list, main_delete_count, main_wait,
       main_return, main_eof, monitor_signal, main_spurious
  <1>3. CASE client_constructor
    BY <1>3 DEF client_constructor, NewAccepted, Goto
  <1>4. CASE client_control_stop \/ client_control_release
    BY <1>4 DEF client_control_stop, client_control_release
  <1>5. ASSUME NEW c \in Clients,
               client_control_lock(c) \/ client_control_wait(c) \/ cond_wait_cancel(c)
        PROVE  Goal
    BY <1>5 DEF client_control_lock, client_control_wait, cond_wait_cancel, Goto
  <1> QED
    BY <1>1, <1>2, <1>3, <1>4, <1>5 DEF Next, ClientStep, ClientInput, Listener,
       Monitor, Shutdown, Terminal

\* The invariant of the server's threads (server.c): types, list and gate.
THEOREM Invariance == Spec => []Inv
  <1>1. Inv /\ [Next]_vars => Inv'
    BY TypeStep, ListStep, GateStep DEF Inv
  <1> QED
    BY InitInv, <1>1, PTL DEF Spec

\* Whatever clients come, go and are cancelled, the pointers of the client list
\* lead to clients that are not freed and agree in both directions.
THEOREM ListIsSafe == Spec => []ListSafe
  <1>1. Inv => ListSafe
    BY DEF Inv
  <1> QED
    BY Invariance, <1>1, PTL

\* No cancelled client dies with go_mutex.
THEOREM GateIsOwned == Spec => []GateOwner
  <1>1. Inv => GateOwner
    BY DEF Inv
  <1> QED
    BY Invariance, <1>1, PTL

\* No client sleeps through client_control_release.
THEOREM NoWakeupIsLost == Spec => []NoLostWakeup
  <1>1. Inv => NoLostWakeup
    BY DEF Inv
  <1> QED
    BY Invariance, <1>1, PTL

\* Every variable of the server's threads keeps its type.
THEOREM TypeCorrect == Spec => []TypeOK
  <1>1. Inv => TypeOK
    BY DEF Inv
  <1> QED
    BY Invariance, <1>1, PTL

\* Between client_control_stop and client_control_release nobody joins the clients
\* that had passed the gate: those only finish, and become fewer.
THEOREM StopIsHeld == Spec => StopHolds
  <1> DEFINE Held == stopped = 1 /\ stopped' = 1 => Inside' \subseteq Inside
             Client(c) ==
               \/ accept(c) \/ run_client_count(c) \/ run_client_join(c)
               \/ comm_serve(c) \/ comm_serve_command(c) \/ comm_serve_end(c)
               \/ comm_serve_cancel(c) \/ client_control_lock(c)
               \/ cond_wait_spurious(c) \/ cond_wait_cancel(c)
               \/ run_client_enter(c) \/ interpret_command(c) \/ interpret_command_cancel(c)
               \/ thread_cleanup(c) \/ client_destructor(c) \/ client_free(c)
             Other ==
               \/ client_detach \/ listener_cancel \/ monitor_delete_list
               \/ monitor_delete_count \/ monitor_cancel
               \/ main_cancel_listener \/ sig_handler_destructor
               \/ main_delete_list \/ main_delete_count \/ main_wait
               \/ main_return \/ client_control_stop \/ main_eof
               \/ monitor_signal \/ main_spurious
  <1>1. ASSUME Inv, [Next]_vars PROVE [Held]_vars
    <2> USE <1>1 DEF Inv, TypeOK, Inside
    <2>1. ASSUME NEW c \in Clients, Client(c) PROVE Held
      BY <2>1 DEF Goto,
         accept, run_client_count, run_client_join, comm_serve,
         comm_serve_command, comm_serve_end, comm_serve_cancel,
         client_control_lock, cond_wait_spurious, cond_wait_cancel,
         run_client_enter, interpret_command, interpret_command_cancel, thread_cleanup,
         client_destructor, client_free
    <2>2. ASSUME NEW c \in Clients, client_control_wait(c) PROVE Held
      BY <2>2 DEF client_control_wait, Goto
    <2>3. CASE Other
      <3>1. cpc' = cpc
        BY <2>3 DEF
           client_detach, listener_cancel, monitor_delete_list,
           monitor_delete_count, monitor_cancel, main_cancel_listener,
           sig_handler_destructor, main_delete_list, main_delete_count,
           main_wait, main_return, client_control_stop, main_eof,
           monitor_signal, main_spurious
      <3> QED
        BY <3>1
    <2>4. CASE client_constructor \/ client_control_release
      BY <2>4 DEF client_constructor, client_control_release, NewAccepted, Goto
    <2> QED
      BY <2>1, <2>2, <2>3, <2>4 DEF Next, ClientStep, ClientInput, Listener, Monitor,
         Shutdown, Terminal
  <1> QED
    BY Invariance, <1>1, PTL DEF StopHolds, Spec

------------------------------------------------------------------------------
(* The count of the client threads *)

CountedSet == {c \in Clients : Counted(c)}

\* While nobody sent SIGINT the monitor has not run delete_all.
MonitorIdle == signals = 0 => monitor \in {"sigwait", "dead"}

\* Sets of clients are finite, and one client more or less counts for one.
LEMMA CountFacts ==
    /\ Cardinality(CountedSet) \in Nat /\ Cardinality(CountedSet') \in Nat
    /\ \A c \in Clients : ~Counted(c) /\ CountedSet' = CountedSet \cup {c}
         => Cardinality(CountedSet') = Cardinality(CountedSet) + 1
    /\ \A c \in Clients : Counted(c) /\ CountedSet' = CountedSet \ {c}
         => Cardinality(CountedSet') = Cardinality(CountedSet) - 1
  <1>1. IsFiniteSet(CountedSet) /\ IsFiniteSet(CountedSet')
    BY FS_Subset, ConstAssumption DEF CountedSet
  <1>2. Cardinality(CountedSet) \in Nat /\ Cardinality(CountedSet') \in Nat
    BY <1>1, FS_CardinalityType
  <1>3. ASSUME NEW c \in Clients, ~Counted(c), CountedSet' = CountedSet \cup {c}
        PROVE  Cardinality(CountedSet') = Cardinality(CountedSet) + 1
    <2>1. c \notin CountedSet
      BY <1>3 DEF CountedSet
    <2> QED
      BY <1>1, <1>3, <2>1, FS_AddElement
  <1>4. ASSUME NEW c \in Clients, Counted(c), CountedSet' = CountedSet \ {c}
        PROVE  Cardinality(CountedSet') = Cardinality(CountedSet) - 1
    <2>1. c \in CountedSet
      BY <1>4 DEF CountedSet
    <2> QED
      BY <1>1, <1>4, <2>1, FS_RemoveElement
  <1> QED
    BY <1>2, <1>3, <1>4

\* num_client_threads is never more than the clients there are, and exactly
\* their number until delete_all resets it under their feet.
THEOREM CountIsExact == Spec => []CountExact
  <1> DEFINE J == MonitorIdle /\ CountExact
             Client(c) ==
               \/ accept(c) \/ run_client_join(c) \/ comm_serve(c)
               \/ comm_serve_command(c) \/ comm_serve_end(c)
               \/ comm_serve_cancel(c) \/ client_control_lock(c)
               \/ client_control_wait(c) \/ cond_wait_spurious(c)
               \/ cond_wait_cancel(c) \/ run_client_enter(c) \/ interpret_command(c)
               \/ interpret_command_cancel(c) \/ thread_cleanup(c)
               \/ client_free(c)
             Other ==
               \/ client_detach \/ listener_cancel \/ monitor_delete_list
               \/ monitor_cancel \/ main_cancel_listener
               \/ sig_handler_destructor \/ main_delete_list \/ main_wait
               \/ main_return \/ client_control_stop \/ client_control_release
               \/ main_eof \/ monitor_signal \/ main_spurious
  <1>1. Init => J
    <2> SUFFICES ASSUME Init PROVE J
      OBVIOUS
    <2>1. CountedSet = {}
      BY DEF Init, CountedSet, Counted, Joined
    <2>2. Cardinality(CountedSet) = 0
      BY <2>1, FS_EmptySet
    <2> QED
      BY <2>2 DEF Init, CountExact, MonitorIdle, CountedSet
  <1>2. ASSUME Inv, J, [Next]_vars PROVE J'
    <2> USE CountFacts DEF Inv, TypeOK, MonitorIdle
    <2>1. /\ num_client_threads <= Cardinality(CountedSet)
          /\ signals = 0 /\ main \in {"read", "cancel_listener", "sig_destroy",
                                        "delete_list", "delete_count"}
             => num_client_threads = Cardinality(CountedSet)
      BY <1>2 DEF CountExact, CountedSet
    <2>2. ASSUME NEW c \in Clients, Client(c) PROVE J'
      <3>1. CountedSet' = CountedSet /\ num_client_threads' = num_client_threads
        BY <2>2, <1>2 DEF CountedSet, Counted, Joined, Goto, 
           accept, run_client_join, comm_serve, comm_serve_command,
           comm_serve_end, comm_serve_cancel, client_control_lock,
           client_control_wait, cond_wait_spurious, cond_wait_cancel,
           run_client_enter, interpret_command, interpret_command_cancel, thread_cleanup,
           client_free
      <3>2. signals' = signals /\ main' = main /\ monitor' = monitor
        BY <2>2, <1>2 DEF helpers, inputs,
           accept, run_client_join, comm_serve, comm_serve_command,
           comm_serve_end, comm_serve_cancel, client_control_lock,
           client_control_wait, cond_wait_spurious, cond_wait_cancel,
           run_client_enter, interpret_command, interpret_command_cancel, thread_cleanup,
           client_free
      <3> QED
        BY <1>2, <2>1, <3>1, <3>2 DEF CountExact, CountedSet
    <2>3. CASE Other \/ UNCHANGED vars
      <3>1. CountedSet' = CountedSet /\ num_client_threads' = num_client_threads
        BY <2>3, <1>2 DEF CountedSet, Counted, Joined, vars,
           client_detach, listener_cancel, monitor_delete_list,
           monitor_cancel, main_cancel_listener, sig_handler_destructor,
           main_delete_list, main_wait, main_return, client_control_stop,
           client_control_release, main_eof, monitor_signal, main_spurious
      <3>2. /\ MonitorIdle'
            /\ signals' = 0 => signals = 0
            /\ main' \in {"read", "cancel_listener", "sig_destroy", "delete_list",
                           "delete_count"}
                 => main \in {"read", "cancel_listener", "sig_destroy", "delete_list",
                              "delete_count"}
        BY <2>3, <1>2 DEF helpers, inputs, vars,
           client_detach, listener_cancel, monitor_delete_list,
           monitor_cancel, main_cancel_listener, sig_handler_destructor,
           main_delete_list, main_wait, main_return, client_control_stop,
           client_control_release, main_eof, monitor_signal, main_spurious
      <3> QED
        BY <1>2, <2>1, <3>1, <3>2 DEF CountExact, CountedSet
    <2>4. CASE client_constructor
      <3>1. CountedSet' = CountedSet /\ num_client_threads' = num_client_threads
        BY <2>4, <1>2 DEF client_constructor, NewAccepted, CountedSet, Counted, Joined, Goto
      <3> QED
        BY <1>2, <2>4, <2>1, <3>1 DEF CountExact, CountedSet, client_constructor, inputs
    <2>5. ASSUME NEW c \in Clients, run_client_count(c) PROVE J'
      <3>1. ~Counted(c) /\ CountedSet' = CountedSet \cup {c}
        BY <2>5, <1>2 DEF run_client_count, CountedSet, Counted, Joined, Goto
      <3> QED
        BY <1>2, <2>5, <2>1, <3>1 DEF CountExact, CountedSet, run_client_count, inputs,
           helpers
    <2>6. ASSUME NEW c \in Clients, client_destructor(c) PROVE J'
      <3>1. Counted(c) /\ CountedSet' = CountedSet \ {c}
        BY <2>6, <1>2 DEF client_destructor, CountedSet, Counted, Joined, Goto
      <3> QED
        BY <1>2, <2>6, <2>1, <3>1 DEF CountExact, CountedSet, client_destructor, inputs,
           helpers
    <2>7. CASE monitor_delete_count \/ main_delete_count
      BY <1>2, <2>7 DEF CountExact, CountedSet, monitor_delete_count, main_delete_count,
         delete_count, inputs, helpers
    <2> QED
      BY <1>2, <2>2, <2>3, <2>4, <2>5, <2>6, <2>7 DEF Next, ClientStep, ClientInput,
         Listener, Monitor, Shutdown, Terminal
  <1>3. J => CountExact
    OBVIOUS
  <1> QED
    BY Invariance, <1>1, <1>2, <1>3, PTL DEF Spec

------------------------------------------------------------------------------
(* The connection: fgets *)

\* A set of natural numbers has a least element.
LEMMA LeastOf ==
    ASSUME NEW places \in SUBSET Nat, places # {}
    PROVE  \E i \in places : \A j \in places : i <= j
<1> DEFINE R == OpToRel(<, Nat)
<1>1. IsWellFoundedOn(R, Nat)
  BY NatLessThanWellFounded
<1>2. \A i, j \in Nat : <<j, i>> \in R <=> j < i
  BY DEF OpToRel
<1> HIDE DEF R
<1>3. PICK i \in places : \A j \in places : ~(<<j, i>> \in R)
  BY <1>1, WFMin
<1>4. ASSUME NEW j \in places
      PROVE  i <= j
  <2>1. ~(<<j, i>> \in R) /\ i \in Nat /\ j \in Nat
    BY <1>3
  <2>2. ~(j < i)
    BY <2>1, <1>2, Zenon
  <2> QED
    BY <2>1, <2>2
<1> QED
  BY <1>4

\* fgets stops at the first newline, or where its buffer is full, or at the end
\* of a closed stream, and waits only where there is none of these.
LEMMA TakenFacts ==
    ASSUME NEW S, NEW s \in Seq(S), NEW capacity \in Nat \ {0}, NEW closed \in BOOLEAN
    PROVE  /\ Taken(s, capacity, closed) \in 0..Len(s)
           /\ Taken(s, capacity, closed) = 0 =>
                /\ \A k \in 1..Len(s) : s[k].char # "newline"
                /\ Len(s) < capacity
                /\ closed => s = <<>>
           /\ Taken(s, capacity, closed) # 0 =>
                /\ \/ s[Taken(s, capacity, closed)].char = "newline"
                   \/ Taken(s, capacity, closed) = capacity
                   \/ closed /\ Taken(s, capacity, closed) = Len(s)
                /\ \A k \in 1..(Taken(s, capacity, closed) - 1) :
                     s[k].char # "newline" /\ k # capacity
<1> DEFINE ends == {k \in DOMAIN s : s[k].char = "newline" \/ k = capacity
                                       \/ (closed /\ k = Len(s))}
           n == Taken(s, capacity, closed)
<1>1. Len(s) \in Nat /\ DOMAIN s = 1..Len(s) /\ (Len(s) = 0 => s = <<>>)
  BY EmptySeq, LenProperties
<1>2. n = IF ends = {} THEN 0 ELSE CHOOSE k \in ends : \A j \in ends : k <= j
  BY DEF Taken
<1>3. ends \in SUBSET Nat /\ ends \subseteq 1..Len(s)
  BY <1>1
<1>4. CASE ends = {}
  <2>1. \A k \in 1..Len(s) : s[k].char # "newline" /\ k # capacity /\ ~(closed /\ k = Len(s))
    BY <1>1, <1>4
  <2>2. Len(s) < capacity
    BY <1>1, <2>1
  <2>3. closed => s = <<>>
    <3>1. closed => Len(s) \notin 1..Len(s)
      BY <2>1
    <3>2. closed => Len(s) = 0
      BY <1>1, <3>1
    <3> QED
      BY <1>1, <3>2, Zenon
  <2>4. n = 0
    <3> HIDE DEF ends, n
    <3> QED
      BY <1>2, <1>4
  <2> HIDE DEF n
  <2>5. n \in 0..Len(s)
    BY <1>1, <2>4
  <2>6. \A k \in 1..Len(s) : s[k].char # "newline"
    BY <2>1
  <2> QED
    BY <2>2, <2>3, <2>4, <2>5, <2>6, Zenon DEF n
<1>5. CASE ends # {}
  <2> HIDE DEF ends
  <2>1. n \in ends /\ \A j \in ends : n <= j
    BY <1>2, <1>3, <1>5, LeastOf
  <2>2. n \in 1..Len(s)
    BY <1>3, <2>1
  <2>3. s[n].char = "newline" \/ n = capacity \/ (closed /\ n = Len(s))
    BY <2>1 DEF ends
  <2>4. \A k \in 1..(n - 1) : k \notin ends
    BY <1>3, <2>1, <2>2
  <2>5. ASSUME NEW k \in 1..(n - 1)
        PROVE  s[k].char # "newline" /\ k # capacity
    <3>1. k \in DOMAIN s /\ k \notin ends
      <4> HIDE DEF n
      <4> QED
        BY <1>1, <2>2, <2>4
    <3> QED
      BY <3>1 DEF ends
  <2> QED
    BY <1>1, <2>2, <2>3, <2>5
<1> QED
  BY <1>4, <1>5

\* What fgets takes and what it leaves.
LEMMA PieceFacts ==
    ASSUME NEW S, NEW s \in Seq(S), NEW n \in 0..Len(s)
    PROVE  /\ SubSeq(s, 1, n) \in Seq(S) /\ Len(SubSeq(s, 1, n)) = n
           /\ \A k \in 1..n : SubSeq(s, 1, n)[k] = s[k]
           /\ Drop(s, n) \in Seq(S) /\ Len(Drop(s, n)) = Len(s) - n
<1>1. Len(s) \in Nat /\ \A k \in 1..Len(s) : s[k] \in S
  BY LenProperties, ElementOfSeq
<1>2. /\ SubSeq(s, 1, n) \in Seq(S) /\ Len(SubSeq(s, 1, n)) = n
      /\ \A k \in 1..n : SubSeq(s, 1, n)[k] = s[k]
  <2>1. \A k \in 1..n : s[k] \in S
    BY <1>1
  <2> QED
    BY <2>1, SubSeqProperties
<1>3. Drop(s, n) \in Seq(S) /\ Len(Drop(s, n)) = Len(s) - n
  <2>1. \A k \in (n + 1)..Len(s) : s[k] \in S
    BY <1>1
  <2>2. /\ SubSeq(s, n + 1, Len(s)) \in Seq(S)
        /\ Len(SubSeq(s, n + 1, Len(s))) = IF n + 1 <= Len(s) THEN Len(s) - (n + 1) + 1 ELSE 0
    BY <1>1, <2>1, SubSeqProperties
  <2> QED
    BY <1>1, <2>2 DEF Drop
<1> QED
  BY <1>2, <1>3

------------------------------------------------------------------------------
(* Scripts *)

LEMMA LineIsText ==
    ASSUME NEW k \in Nat \ {0}, NEW n \in Nat
    PROVE  LineText(k, n) \in Seq(ScriptUnit)
<1>1. LineText(k, n) \in [1..(n + 1) -> ScriptUnit]
  BY DEF LineText, Unit, ScriptUnit
<1>2. n + 1 \in Nat
  OBVIOUS
<1> QED
  BY <1>1, <1>2, SeqDef

\* Induction on the numbers up to n.
LEMMA UpTo ==
    ASSUME NEW n \in Nat, NEW S, 0 \in S, \A m \in 1..n : m - 1 \in S => m \in S
    PROVE  n \in S
<1> DEFINE bad == (0..n) \ S
<1> SUFFICES ASSUME bad # {} PROVE FALSE
  OBVIOUS
<1>1. PICK m \in bad : \A j \in bad : m <= j
  <2>1. bad \in SUBSET Nat
    OBVIOUS
  <2> QED
    BY <2>1, LeastOf
<1>2. m \in 1..n /\ m - 1 \in 0..n /\ m - 1 \notin bad
  BY <1>1
<1> QED
  BY <1>1, <1>2

\* Scripts of any number of lines are sequences of the units of lines: the
\* recursion of Script is well defined on every prefix of its lines.
LEMMA ScriptIsText ==
    ASSUME NEW n \in Nat, NEW lengths \in [1..n -> Nat]
    PROVE  Script(lengths) \in Seq(ScriptUnit)
<1> DEFINE T == Seq(ScriptUnit)
           Line(k) == LineText(k, lengths[k])
           Grows(g, m) == g[0] = <<>> /\ \A k \in 1..m : g[k] = g[k - 1] \o Line(k)
           defined == {m \in 0..n : \E g \in [0..m -> T] : Grows(g, m)}
           Rec(f) == [k \in 0..n |-> IF k = 0 THEN <<>> ELSE f[k - 1] \o Line(k)]
           text == CHOOSE f : f = Rec(f)
<1>1. lengths \in Seq(Nat) /\ Len(lengths) = n
  BY SeqDef
<1>2. <<>> \in T /\ \A k \in 1..n : \A s \in T : s \o Line(k) \in T
  <2>1. <<>> \in T
    BY EmptySeq
  <2>2. ASSUME NEW k \in 1..n, NEW s \in T
        PROVE  s \o Line(k) \in T
    <3>1. k \in Nat \ {0} /\ lengths[k] \in Nat
      OBVIOUS
    <3>2. Line(k) \in T
      BY <3>1, LineIsText
    <3> QED
      BY <3>2, ConcatProperties
  <2> QED
    BY <2>1, <2>2
<1> HIDE DEF T, Line
<1>3. 0 \in defined
  <2>1. [k \in 0..0 |-> <<>>] \in [0..0 -> T] /\ Grows([k \in 0..0 |-> <<>>], 0)
    BY <1>2
  <2>2. 0 \in 0..n
    OBVIOUS
  <2> HIDE DEF Grows
  <2> QED
    BY <2>1, <2>2
<1>4. ASSUME NEW m \in 1..n, m - 1 \in defined
      PROVE  m \in defined
  <2>1. PICK g \in [0..(m - 1) -> T] : Grows(g, m - 1)
    <3> HIDE DEF Grows
    <3> QED
      BY <1>4
  <2> DEFINE h == [k \in 0..m |-> IF k = m THEN g[m - 1] \o Line(m) ELSE g[k]]
  <2>2. g[m - 1] \o Line(m) \in T
    BY <1>2
  <2>3. \A k \in 0..(m - 1) : h[k] = g[k] /\ g[k] \in T
    OBVIOUS
  <2>4. h[m] = g[m - 1] \o Line(m)
    OBVIOUS
  <2>5. h \in [0..m -> T]
    BY <2>2, <2>3, <2>4
  <2> HIDE DEF h
  <2>6. Grows(h, m)
    <3>1. h[0] = <<>>
      BY <2>1, <2>3
    <3>2. ASSUME NEW k \in 1..m
          PROVE  h[k] = h[k - 1] \o Line(k)
      <4>1. CASE k = m
        <5>1. h[m - 1] = g[m - 1]
          BY <2>3
        <5> QED
          BY <2>4, <4>1, <5>1
      <4>2. CASE k # m
        <5>1. k \in 1..(m - 1) /\ k \in 0..(m - 1) /\ k - 1 \in 0..(m - 1)
          BY <4>2
        <5> QED
          BY <2>1, <2>3, <5>1
      <4> QED
        BY <4>1, <4>2
    <3> QED
      BY <3>1, <3>2
  <2> HIDE DEF Grows
  <2> QED
    BY <2>5, <2>6
<1>5. n \in defined
  <2> HIDE DEF defined
  <2> QED
    BY <1>3, <1>4, UpTo
<1>6. PICK g \in [0..n -> T] : Grows(g, n)
  <2> HIDE DEF Grows
  <2> QED
    BY <1>5
<1>7. g = Rec(g)
  <2>1. ASSUME NEW k \in 0..n
        PROVE  g[k] = IF k = 0 THEN <<>> ELSE g[k - 1] \o Line(k)
    <3>1. k = 0 \/ k \in 1..n
      OBVIOUS
    <3> QED
      BY <1>6, <3>1
  <2> QED
    BY <1>6, <2>1
<1>8. text = Rec(text)
  <2> HIDE DEF Rec
  <2> QED
    BY <1>7
<1> HIDE DEF text
<1>11. ASSUME NEW k \in 0..n
       PROVE  text[k] = IF k = 0 THEN <<>> ELSE text[k - 1] \o Line(k)
  <2>1. Rec(text)[k] = IF k = 0 THEN <<>> ELSE text[k - 1] \o Line(k)
    OBVIOUS
  <2> HIDE DEF Rec
  <2> QED
    BY <1>8, <2>1
<1>9. text[n] \in T
  <2> DEFINE S == {k \in 0..n : text[k] \in T}
  <2>1. 0 \in S
    BY <1>2, <1>11
  <2>2. ASSUME NEW m \in 1..n, m - 1 \in S
        PROVE  m \in S
    <3>1. m \in 0..n /\ m # 0
      OBVIOUS
    <3>2. text[m] = text[m - 1] \o Line(m)
      BY <1>11, <3>1, Zenon
    <3>3. text[m - 1] \in T
      BY <2>2, Zenon
    <3>4. text[m - 1] \o Line(m) \in T
      BY <1>2, <3>3, Zenon
    <3> QED
      BY <3>1, <3>2, <3>4, Zenon
  <2>3. n \in S
    <3> HIDE DEF S
    <3> QED
      BY <2>1, <2>2, UpTo
  <2> QED
    BY <2>3
<1>10. Script(lengths) = text[n]
  BY <1>1 DEF Script, text, Rec, Line
<1> QED
  BY <1>9, <1>10 DEF T

------------------------------------------------------------------------------
(* The steps *)

\* The last unit of a text, and what a text begins and ends with after another.
LEMMA LastOf ==
    ASSUME NEW S, NEW s \in Seq(S), NEW t \in Seq(S), t # <<>>
    PROVE  /\ Len(s \o t) >= Len(t) /\ Last(s \o t) = Last(t)
           /\ Last(t) \in S /\ Len(t) \in Nat \ {0}
           /\ s = <<>> => s \o t = t
<1>1. Len(s) \in Nat /\ Len(t) \in Nat \ {0} /\ t[Len(t)] \in S
  BY EmptySeq, LenProperties, ElementOfSeq
<1>2. /\ Len(s \o t) = Len(s) + Len(t)
      /\ \A i \in 1..(Len(s) + Len(t)) : (s \o t)[i] = IF i <= Len(s) THEN s[i] ELSE t[i - Len(s)]
  BY ConcatProperties
<1>3. (s \o t)[Len(s) + Len(t)] = t[Len(t)]
  BY <1>1, <1>2
<1>4. s = <<>> => s \o t = t
  BY ConcatEmptySeq
<1> QED
  BY <1>1, <1>2, <1>3, <1>4 DEF Last

\* A text that is a subset of another in its units.
LEMMA ScriptIsUpstream ==
    ASSUME NEW s \in Seq(ScriptUnit)
    PROVE  s \in Seq(ScriptUnit \cup {Unit(0, "EOF")})
BY SeqMonotonic

LEMMA UnitFacts ==
    /\ \A u \in ScriptUnit : u.line \in Nat \ {0} /\ u.char \in {"text", "newline"}
    /\ Unit(0, "EOF").line = 0 /\ Unit(0, "EOF").char = "EOF"
BY DEF ScriptUnit, Unit

LEMMA InitWire == WireInit => WireInv
<1> SUFFICES ASSUME WireInit PROVE WireInv
  OBVIOUS
<1>1. WireTypeOK
  BY EmptySeq DEF WireInit, WireTypeOK
<1>2. LastPiece /\ UnreadPiece /\ OneUnderWay
  BY EmptySeq DEF WireInit, LastPiece, UnreadPiece, OneUnderWay
<1> QED
  BY <1>1, <1>2 DEF WireInv

LEMMA CreateKeeps ==
    ASSUME WireInv, create_occurence
    PROVE  WireInv'
<1>1. infile' \in Seq(ScriptUnit)
  <2>1. PICK lengths \in UNION {[1..n -> LineLengths] : n \in 0..MaxLines} :
            infile' \in {Script(lengths), SubSeq(Script(lengths), 1, Len(Script(lengths)) - 1)}
    <3> HIDE DEF Script
    <3> QED
      BY Zenon DEF create_occurence
  <2>2. PICK n \in 0..MaxLines : lengths \in [1..n -> LineLengths]
    BY <2>1
  <2>3. n \in Nat /\ lengths \in [1..n -> Nat]
    <3>1. n \in Nat /\ LineLengths \subseteq Nat
      BY WireBounds
    <3>2. \A i \in 1..n : lengths[i] \in Nat
      BY <2>2, <3>1
    <3> QED
      BY <2>2, <3>1, <3>2
  <2>4. Script(lengths) \in Seq(ScriptUnit)
    BY <2>3, ScriptIsText
  <2>5. SubSeq(Script(lengths), 1, Len(Script(lengths)) - 1) \in Seq(ScriptUnit)
    <3>1. Len(Script(lengths)) \in Nat
      BY <2>4, LenProperties
    <3>2. \A i \in 1..(Len(Script(lengths)) - 1) : Script(lengths)[i] \in ScriptUnit
      BY <2>4, <3>1, ElementOfSeq
    <3> QED
      BY <3>1, <3>2, SubSeqProperties
  <2> QED
    BY <2>1, <2>4, <2>5
<1>2. /\ wpc = "none" /\ wpc' = "script"
      /\ UNCHANGED <<qbuf, upstream, spc, response, downstream, sent, printed>>
  BY DEF create_occurence
<1>3. WireTypeOK'
  BY <1>1, <1>2 DEF WireInv, WireTypeOK
<1>4. sent = <<>>
  BY <1>2 DEF WireInv, UnreadPiece
<1>5. LastPiece' /\ UnreadPiece' /\ OneUnderWay'
  BY <1>2, <1>4 DEF WireInv, LastPiece, UnreadPiece, OneUnderWay
<1> QED
  BY <1>3, <1>5 DEF WireInv

LEMMA SendKeeps ==
    ASSUME WireInv, send_command
    PROVE  WireInv'
<1> DEFINE n == Taken(infile, QBUF, TRUE)
<1>1. /\ wpc = "script" /\ wpc' = "response" /\ infile # <<>>
      /\ qbuf' = SubSeq(infile, 1, n) /\ infile' = Drop(infile, n)
      /\ upstream' = upstream \o qbuf' /\ sent' = Append(sent, qbuf')
      /\ UNCHANGED <<spc, response, downstream, printed>>
  BY DEF send_command
<1>2. /\ infile \in Seq(ScriptUnit) /\ upstream \in Seq(ScriptUnit)
      /\ sent \in Seq(Seq(ScriptUnit))
  BY <1>1 DEF WireInv, WireTypeOK, UnreadPiece
<1>3. /\ n \in 0..Len(infile) /\ n # 0
      /\ infile[n].char = "newline" \/ n = QBUF \/ n = Len(infile)
      /\ \A k \in 1..(n - 1) : infile[k].char # "newline"
  <2>1. QBUF \in Nat \ {0} /\ TRUE \in BOOLEAN
    BY WireBounds
  <2>2. n # 0
    BY <1>1, <1>2, <2>1, TakenFacts
  <2>3. n \in 0..Len(infile)
    BY <1>2, <2>1, TakenFacts, ZenonT(40)
  <2>4. /\ infile[n].char = "newline" \/ n = QBUF \/ n = Len(infile)
        /\ \A k \in 1..(n - 1) : infile[k].char # "newline"
    BY <1>2, <2>1, <2>2, TakenFacts, ZenonT(40)
  <2> QED
    BY <2>2, <2>3, <2>4, Zenon
<1> HIDE DEF n
<1>4. /\ qbuf' \in Seq(ScriptUnit) /\ Len(qbuf') = n
      /\ \A k \in 1..n : qbuf'[k] = infile[k]
      /\ infile' \in Seq(ScriptUnit) /\ Len(infile') = Len(infile) - n
  BY <1>1, <1>2, <1>3, PieceFacts
<1>5. qbuf' # <<>>
  BY <1>3, <1>4, EmptySeq
<1>6. /\ upstream' \in Seq(ScriptUnit) /\ Len(upstream') >= Len(qbuf')
      /\ Last(upstream') = Last(qbuf')
      /\ upstream = <<>> => upstream' = qbuf'
  BY <1>1, <1>2, <1>4, <1>5, LastOf, ConcatProperties
<1>7. /\ sent' \in Seq(Seq(ScriptUnit)) /\ sent' # <<>> /\ Last(sent') = qbuf'
      /\ \A i \in DOMAIN sent : i \in DOMAIN sent' /\ sent'[i] = sent[i]
  <2>1. /\ sent' \in Seq(Seq(ScriptUnit)) /\ sent' # <<>> /\ Len(sent') = Len(sent) + 1
        /\ \A i \in 1..Len(sent) : sent'[i] = sent[i]
        /\ sent'[Len(sent) + 1] = qbuf'
    <3> DEFINE T == Seq(ScriptUnit)
    <3>1. sent \in Seq(T) /\ qbuf' \in T /\ sent' = Append(sent, qbuf')
      BY <1>1, <1>2, <1>4
    <3> HIDE DEF T
    <3>2. /\ sent' \in Seq(T) /\ sent' # <<>> /\ Len(sent') = Len(sent) + 1
          /\ \A i \in 1..Len(sent) : sent'[i] = sent[i]
          /\ sent'[Len(sent) + 1] = qbuf'
      BY <3>1, AppendProperties
    <3> QED
      BY <3>2 DEF T
  <2>2. DOMAIN sent = 1..Len(sent) /\ DOMAIN sent' = 1..Len(sent') /\ Len(sent) \in Nat
    BY <1>2, <2>1, LenProperties
  <2> QED
    BY <2>1, <2>2 DEF Last
<1>8. WireTypeOK'
  BY <1>1, <1>4, <1>6, <1>7, ScriptIsUpstream DEF WireInv, WireTypeOK
<1>9. LastPiece'
  <2>1. \A i \in 1..(Len(qbuf') - 1) : qbuf'[i].char # "newline"
    BY <1>3, <1>4
  <2>2. infile' = <<>> \/ Last(qbuf').char = "newline" \/ Len(qbuf') = QBUF
    <3>1. Last(qbuf') = infile[n]
      BY <1>3, <1>4 DEF Last
    <3>2. n = Len(infile) => infile' = <<>>
      BY <1>4, EmptySeq
    <3> QED
      BY <1>3, <1>4, <3>1, <3>2
  <2> QED
    BY <1>5, <1>7, <2>1, <2>2 DEF LastPiece
<1>10. UnreadPiece'
  BY <1>1, <1>6, <1>7 DEF WireInv, UnreadPiece
<1>11. OneUnderWay'
  <2> SUFFICES ASSUME \A i \in DOMAIN sent' : Short(sent'[i])
               PROVE  /\ upstream' = qbuf' /\ downstream' = <<>>
                      /\ spc' \in {"read", "ended"} \/ (spc' = "serve" /\ response' = 0)
    BY <1>1, <1>7 DEF OneUnderWay
  <2>1. \A i \in DOMAIN sent : Short(sent[i])
    BY <1>7
  <2>2. CASE sent # <<>>
    BY <1>1, <1>6, <2>1, <2>2 DEF WireInv, OneUnderWay
  <2>3. CASE sent = <<>>
    <3>1. upstream = <<>>
      <4>1. upstream \in {<<>>, <<Unit(0, "EOF")>>}
        BY <2>3 DEF WireInv, OneUnderWay
      <4>2. upstream # <<Unit(0, "EOF")>>
        <5>1. ASSUME upstream = <<Unit(0, "EOF")>>
              PROVE  FALSE
          <6>1. 1 \in 1..Len(upstream) /\ upstream[1] = Unit(0, "EOF")
            BY <5>1
          <6>2. upstream[1] \in ScriptUnit
            BY <1>2, <6>1, ElementOfSeq
          <6> QED
            BY <6>1, <6>2, UnitFacts
        <5> QED
          BY <5>1
      <4> QED
        BY <4>1, <4>2
    <3>2. downstream = <<>> /\ response = 0
      BY <2>3 DEF WireInv, OneUnderWay
    <3>3. spc # "interpret" /\ spc \in {"serve", "read", "interpret", "ended"}
      BY <3>2 DEF WireInv, UnreadPiece, WireTypeOK
    <3> QED
      BY <1>1, <1>6, <3>1, <3>2, <3>3
  <2> QED
    BY <2>2, <2>3
<1> QED
  BY <1>8, <1>9, <1>10, <1>11 DEF WireInv

LEMMA EofKeeps ==
    ASSUME WireInv, send_eof
    PROVE  WireInv'
<1> DEFINE E == Unit(0, "EOF")
           U == ScriptUnit \cup {E}
<1>1. /\ wpc = "script" /\ wpc' = "terminated" /\ infile = <<>>
      /\ upstream' = upstream \o (IF qbuf = <<>> THEN <<E>> ELSE <<E>> \o Tail(qbuf))
      /\ UNCHANGED <<infile, qbuf, spc, response, downstream, sent, printed>>
  BY DEF send_eof
<1>2. upstream \in Seq(U) /\ qbuf \in Seq(U) /\ <<E>> \in Seq(U)
  BY ScriptIsUpstream DEF WireInv, WireTypeOK
<1>3. upstream' \in Seq(U)
  <2>1. CASE qbuf = <<>>
    BY <1>1, <1>2, <2>1, ConcatProperties
  <2>2. CASE qbuf # <<>>
    <3>1. Tail(qbuf) \in Seq(U)
      BY <1>2, <2>2, HeadTailProperties
    <3>2. <<E>> \o Tail(qbuf) \in Seq(U)
      BY <1>2, <3>1, ConcatProperties
    <3> QED
      BY <1>1, <1>2, <2>2, <3>2, ConcatProperties
  <2> QED
    BY <2>1, <2>2
<1>4. WireTypeOK'
  BY <1>1, <1>3 DEF WireInv, WireTypeOK
<1>5. LastPiece' /\ UnreadPiece'
  BY <1>1 DEF WireInv, LastPiece, UnreadPiece
<1>6. OneUnderWay'
  <2>1. ASSUME sent = <<>>
        PROVE  upstream' \in {<<>>, <<E>>}
    <3>1. qbuf = <<>> /\ upstream \in {<<>>, <<E>>}
      BY <2>1 DEF WireInv, LastPiece, OneUnderWay
    <3>2. upstream \in Seq(ScriptUnit)
      BY <1>1 DEF WireInv, UnreadPiece
    <3>3. upstream # <<E>>
      <4>1. upstream = <<E>> => Len(upstream) = 1 /\ upstream[1] = E
        OBVIOUS
      <4>2. E \notin ScriptUnit
        BY UnitFacts
      <4> QED
        BY <3>2, <4>1, <4>2, ElementOfSeq
    <3>4. upstream' = <<>> \o <<E>>
      BY <1>1, <3>1, <3>3
    <3> QED
      BY <1>2, <3>4, ConcatEmptySeq
  <2> QED
    BY <1>1, <2>1 DEF WireInv, OneUnderWay
<1> QED
  BY <1>4, <1>5, <1>6 DEF WireInv

LEMMA ReceiveKeeps ==
    ASSUME WireInv, receive_response
    PROVE  WireInv'
<1>1. /\ wpc = "response" /\ wpc' = "script" /\ downstream # <<>>
      /\ printed' = Head(downstream) /\ downstream' = Tail(downstream)
      /\ UNCHANGED <<infile, qbuf, upstream, spc, response, sent>>
  BY DEF receive_response
<1>2. Head(downstream) \in Nat /\ Tail(downstream) \in Seq(Nat)
  BY <1>1, HeadTailProperties DEF WireInv, WireTypeOK
<1>3. WireTypeOK'
  BY <1>1, <1>2 DEF WireInv, WireTypeOK
<1>4. LastPiece' /\ UnreadPiece' /\ sent # <<>>
  BY <1>1 DEF WireInv, LastPiece, UnreadPiece
<1>5. OneUnderWay'
  <2> SUFFICES ASSUME \A i \in DOMAIN sent : Short(sent[i])
               PROVE  /\ printed' = Asked' /\ upstream' = <<>> /\ downstream' = <<>>
                      /\ spc' \in {"read", "ended"}
    BY <1>1, <1>4 DEF OneUnderWay
  <2>1. downstream = <<Asked>> /\ upstream = <<>> /\ spc \in {"read", "ended"}
    BY <1>1, <1>4 DEF WireInv, OneUnderWay
  <2>2. Head(downstream) = Asked /\ Tail(downstream) = <<>>
    BY <2>1
  <2> QED
    BY <1>1, <2>1, <2>2 DEF Asked
<1> QED
  BY <1>3, <1>4, <1>5 DEF WireInv

LEMMA ReplyKeeps ==
    ASSUME WireInv, comm_serve_reply
    PROVE  WireInv'
<1>1. /\ wpc # "none" /\ spc = "serve" /\ spc' \in {"read", "ended"}
      /\ downstream' = IF response = 0 \/ Closed THEN downstream
                       ELSE Append(downstream, response)
      /\ UNCHANGED <<wpc, infile, qbuf, upstream, response, sent, printed>>
  BY DEF comm_serve_reply
<1>2. downstream \in Seq(Nat) /\ response \in Nat
  BY DEF WireInv, WireTypeOK
<1>3. /\ Append(downstream, response) \in Seq(Nat)
      /\ Append(downstream, response) # <<>>
      /\ downstream = <<>> => Append(downstream, response) = <<response>>
  <2>1. /\ Append(downstream, response) \in Seq(Nat)
        /\ Append(downstream, response) # <<>>
    BY <1>2, AppendProperties
  <2>2. Append(downstream, response) = downstream \o <<response>> /\ <<response>> \in Seq(Nat)
    BY <1>2, AppendIsConcat
  <2>3. <<>> \o <<response>> = <<response>>
    BY <2>2, ConcatEmptySeq
  <2> QED
    BY <2>1, <2>2, <2>3
<1>4. WireTypeOK' /\ LastPiece'
  BY <1>1, <1>3 DEF WireInv, WireTypeOK, LastPiece
<1>5. UnreadPiece'
  <2>1. wpc = "response" /\ downstream' = <<>> => response = 0 /\ downstream = <<>>
    BY <1>1, <1>3 DEF Closed
  <2> QED
    BY <1>1, <2>1 DEF WireInv, UnreadPiece, Owes
<1>6. OneUnderWay'
  <2>1. sent = <<>> => downstream' = <<>>
    BY <1>1 DEF WireInv, OneUnderWay
  <2>2. ASSUME sent # <<>>, \A i \in DOMAIN sent : Short(sent[i])
        PROVE  /\ wpc # "script"
               /\ wpc = "response" =>
                    \/ upstream = qbuf /\ downstream' = <<>>
                    \/ upstream = <<>> /\ downstream' = <<Asked>>
    <3>1. wpc # "script"
      BY <1>1, <2>2 DEF WireInv, OneUnderWay
    <3>2. ASSUME wpc = "response"
          PROVE  \/ upstream = qbuf /\ downstream' = <<>>
                 \/ upstream = <<>> /\ downstream' = <<Asked>>
      <4>1. \/ upstream = qbuf /\ downstream = <<>> /\ response = 0
            \/ upstream = <<>> /\ downstream = <<>> /\ response = Asked
        BY <1>1, <2>2, <3>2 DEF WireInv, OneUnderWay
      <4>2. CASE upstream = qbuf /\ downstream = <<>> /\ response = 0
        BY <1>1, <4>2
      <4>3. CASE upstream = <<>> /\ downstream = <<>> /\ response = Asked
        <5>1. qbuf \in Seq(ScriptUnit) /\ qbuf # <<>>
          BY <2>2 DEF WireInv, WireTypeOK, LastPiece
        <5>2. 1 \in 1..Len(qbuf)
          BY <5>1, EmptySeq
        <5>3. qbuf[1] \in ScriptUnit
          BY <5>1, <5>2, ElementOfSeq
        <5>4. response # 0
          BY <4>3, <5>3, UnitFacts DEF Asked
        <5> QED
          BY <1>1, <1>3, <3>2, <4>3, <5>4 DEF Closed
      <4> QED
        BY <4>1, <4>2, <4>3
    <3> QED
      BY <3>1, <3>2
  <2>3. Asked' = Asked
    BY <1>1 DEF Asked
  <2>4. sent = <<>> => upstream \in {<<>>, <<Unit(0, "EOF")>>} /\ response = 0
    BY DEF WireInv, OneUnderWay
  <2> QED
    BY <1>1, <2>1, <2>2, <2>3, <2>4 DEF OneUnderWay
<1> QED
  BY <1>4, <1>5, <1>6 DEF WireInv

LEMMA ReadKeeps ==
    ASSUME WireInv, comm_serve_read
    PROVE  WireInv'
<1> DEFINE n == Taken(upstream, CBUF, Closed)
           U == ScriptUnit \cup {Unit(0, "EOF")}
<1>1. /\ spc = "read" /\ n > 0 /\ upstream' = Drop(upstream, n)
      /\ \/ Head(upstream).char = "EOF" /\ spc' = "ended" /\ response' = response
         \/ /\ Head(upstream).char # "EOF" /\ spc' = "interpret"
            /\ response' = Head(upstream).line
      /\ UNCHANGED <<wpc, infile, qbuf, downstream, sent, printed>>
  BY DEF comm_serve_read
<1>2. upstream \in Seq(U)
  BY DEF WireInv, WireTypeOK
<1>3. /\ n \in 0..Len(upstream)
      /\ \/ upstream[n].char = "newline" \/ n = CBUF \/ (Closed /\ n = Len(upstream))
      /\ \A k \in 1..(n - 1) : upstream[k].char # "newline" /\ k # CBUF
  <2>1. CBUF \in Nat \ {0} /\ Closed \in BOOLEAN
    BY WireBounds DEF Closed
  <2>2. n # 0
    BY <1>1
  <2>3. PICK c \in BOOLEAN : c = Closed
    BY <2>1
  <2>4. n = Taken(upstream, CBUF, c)
    BY <2>3
  <2> HIDE DEF n, U
  <2>5. /\ n \in 0..Len(upstream)
        /\ \/ upstream[n].char = "newline" \/ n = CBUF \/ (c /\ n = Len(upstream))
        /\ \A k \in 1..(n - 1) : upstream[k].char # "newline" /\ k # CBUF
    BY <1>2, <2>1, <2>2, <2>4, TakenFacts, ZenonT(40)
  <2> QED
    BY <2>3, <2>5, Zenon
<1> HIDE DEF n
<1>4. upstream' \in Seq(U) /\ (n = Len(upstream) => upstream' = <<>>)
  <2>1. upstream' \in Seq(U) /\ Len(upstream') = Len(upstream) - n
    BY <1>1, <1>2, <1>3, PieceFacts
  <2> QED
    BY <1>2, <1>3, <2>1, EmptySeq
<1>5. Head(upstream) \in U /\ Head(upstream) = upstream[1] /\ upstream # <<>>
  <2>1. upstream # <<>>
    BY <1>1, <1>3, EmptySeq
  <2> QED
    BY <1>2, <2>1, HeadTailProperties
<1>6. Head(upstream).char # "EOF" =>
        Head(upstream) \in ScriptUnit /\ Head(upstream).line \in Nat \ {0}
  BY <1>5, UnitFacts
<1>7. WireTypeOK' /\ LastPiece'
  BY <1>1, <1>4, <1>6 DEF WireInv, WireTypeOK, LastPiece
<1>8. wpc # "terminated" => upstream' \in Seq(ScriptUnit)
  <2>1. wpc # "terminated" => upstream \in Seq(ScriptUnit)
    BY DEF WireInv, UnreadPiece
  <2> QED
    BY <1>1, <1>3, <2>1, PieceFacts
<1>9. wpc # "terminated" => spc' = "interpret"
  <2>1. wpc # "terminated" => upstream \in Seq(ScriptUnit)
    BY DEF WireInv, UnreadPiece
  <2>2. wpc # "terminated" => Head(upstream) \in ScriptUnit
    BY <1>5, <2>1, HeadTailProperties
  <2> QED
    BY <1>1, <2>2, UnitFacts
<1>10. UnreadPiece'
  BY <1>1, <1>6, <1>8, <1>9 DEF WireInv, UnreadPiece, Owes
<1>11. OneUnderWay'
  <2>1. ASSUME sent = <<>>
        PROVE  /\ upstream' \in {<<>>, <<Unit(0, "EOF")>>} /\ downstream' = <<>>
               /\ response' = 0
    <3>1. upstream = <<Unit(0, "EOF")>> /\ downstream = <<>> /\ response = 0
      BY <1>5, <2>1 DEF WireInv, OneUnderWay
    <3>2. Len(upstream) = 1 /\ upstream[1].char = "EOF"
      BY <3>1, UnitFacts
    <3>3. n = Len(upstream) /\ Head(upstream).char = "EOF"
      BY <1>1, <1>3, <1>5, <3>2
    <3> QED
      BY <1>1, <1>4, <3>1, <3>3
  <2>2. ASSUME sent # <<>>, \A i \in DOMAIN sent : Short(sent[i]), wpc = "response"
        PROVE  upstream' = <<>> /\ downstream' = <<>> /\ response' = Asked
    <3>1. upstream = qbuf /\ downstream = <<>>
      BY <1>1, <1>5, <2>2 DEF WireInv, OneUnderWay
    <3>2. /\ qbuf = Last(sent) /\ qbuf \in Seq(ScriptUnit) /\ qbuf # <<>>
          /\ \A i \in 1..(Len(qbuf) - 1) : qbuf[i].char # "newline"
      BY <2>2 DEF WireInv, LastPiece, WireTypeOK
    <3>3. Short(qbuf)
      <4>1. sent \in Seq(Seq(ScriptUnit))
        BY DEF WireInv, WireTypeOK
      <4>2. Len(sent) \in DOMAIN sent
        BY <2>2, <4>1, EmptySeq, LenProperties
      <4> QED
        BY <2>2, <3>2, <4>2 DEF Last
    <3>4. Len(qbuf) <= CBUF /\ qbuf[Len(qbuf)].char = "newline" /\ Len(qbuf) \in Nat \ {0}
      BY <3>2, <3>3, EmptySeq DEF Short, Last
    <3>5. n = Len(qbuf)
      <4>1. n \in 1..Len(qbuf)
        BY <1>1, <1>3, <3>1, <3>4
      <4>2. ~Closed
        BY <2>2 DEF Closed
      <4>3. qbuf[n].char = "newline" \/ n = CBUF
        BY <1>3, <3>1, <4>2
      <4>4. CBUF \in Nat
        BY WireBounds
      <4> QED
        BY <3>2, <3>4, <4>1, <4>3, <4>4
    <3> QED
      BY <1>1, <1>4, <1>5, <1>9, <2>2, <3>1, <3>5 DEF Asked
  <2>3. ASSUME sent # <<>>, \A i \in DOMAIN sent : Short(sent[i]), wpc = "script"
        PROVE  FALSE
    BY <1>5, <2>3 DEF WireInv, OneUnderWay
  <2>4. Asked' = Asked
    BY <1>1 DEF Asked
  <2> QED
    BY <1>1, <1>9, <2>1, <2>2, <2>3, <2>4 DEF OneUnderWay
<1> QED
  BY <1>7, <1>10, <1>11 DEF WireInv

\* The steps that only end one side, or go from one to the next.
LEMMA EndsKeep ==
    ASSUME WireInv,
           \/ send_fails \/ connection_terminated \/ comm_serve_disconnected
           \/ interpreted \/ server_cancelled
    PROVE  WireInv'
<1>1. UNCHANGED <<infile, qbuf, upstream, response, downstream, sent, printed>>
  BY DEF send_fails, connection_terminated, comm_serve_disconnected, interpreted,
         server_cancelled
<1>2. \/ wpc \in {"script", "response"} /\ wpc' = "disconnected" /\ spc' = spc
      \/ wpc' = wpc /\ spc' = "ended" /\ (Closed \/ spc \in {"serve", "read"})
      \/ wpc' = wpc /\ spc = "interpret" /\ spc' = "serve"
  BY DEF send_fails, connection_terminated, comm_serve_disconnected, interpreted,
         server_cancelled, ServerWaits
<1>3. WireTypeOK' /\ LastPiece'
  BY <1>1, <1>2 DEF WireInv, WireTypeOK, LastPiece
<1>4. UnreadPiece'
  BY <1>1, <1>2 DEF WireInv, UnreadPiece, Owes
<1>5. OneUnderWay'
  BY <1>1, <1>2 DEF WireInv, OneUnderWay, Asked, Closed
<1> QED
  BY <1>3, <1>4, <1>5 DEF WireInv

LEMMA WireStep ==
    ASSUME WireInv, [WireNext]_wire
    PROVE  WireInv'
<1>1. CASE UNCHANGED wire
  BY <1>1 DEF wire, WireInv, WireTypeOK, LastPiece, UnreadPiece, Owes, OneUnderWay,
              Asked, Closed
<1>2. CASE WireNext
  BY <1>2, CreateKeeps, SendKeeps, EofKeeps, ReceiveKeeps, ReplyKeeps, ReadKeeps, EndsKeep
     DEF WireNext
<1> QED
  BY <1>1, <1>2

------------------------------------------------------------------------------
\* The invariant of the connection holds for any script and any buffers.
THEOREM WireInvariance == WireSpec => []WireInv
BY InitWire, WireStep, PTL DEF WireSpec

\* Client and server stay in step, and hang only over a last line that has no
\* newline, for any script and any buffers.
THEOREM StaysInStep == WireSpec => []WireInStep
<1>1. ASSUME WireInv
      PROVE  WireInStep
  <2>1. ASSUME wpc = "script", sent # <<>>, \A i \in DOMAIN sent : Short(sent[i])
        PROVE  printed = Last(sent)[1].line /\ upstream = <<>> /\ downstream = <<>>
    BY <1>1, <2>1 DEF WireInv, OneUnderWay, LastPiece, Asked
  <2>2. ASSUME Hung
        PROVE  infile = <<>> /\ Last(Last(sent)).char # "newline"
    <3>1. /\ wpc = "response" /\ downstream = <<>> /\ spc = "read"
          /\ Taken(upstream, CBUF, FALSE) = 0
      BY <2>2 DEF Hung, ServerWaits
    <3>2. /\ sent # <<>> /\ Len(upstream) >= Len(qbuf) /\ Last(upstream) = Last(qbuf)
          /\ upstream \in Seq(ScriptUnit) /\ qbuf \in Seq(ScriptUnit)
      BY <1>1, <3>1 DEF WireInv, UnreadPiece, Owes, WireTypeOK
    <3>3. /\ qbuf = Last(sent) /\ qbuf # <<>>
          /\ infile = <<>> \/ Last(qbuf).char = "newline" \/ Len(qbuf) = QBUF
      BY <1>1, <3>2 DEF WireInv, LastPiece
    <3>4. /\ \A k \in 1..Len(upstream) : upstream[k].char # "newline"
          /\ Len(upstream) < CBUF
      BY <3>1, <3>2, TakenFacts, WireBounds
    <3>5. Len(upstream) \in Nat /\ Len(qbuf) \in Nat \ {0}
      BY <3>2, <3>3, EmptySeq, LenProperties
    <3>6. Len(qbuf) # QBUF
      BY <3>2, <3>4, <3>5, WireBounds
    <3>7. Last(upstream).char # "newline"
      BY <3>2, <3>4, <3>5 DEF Last
    <3> QED
      BY <3>2, <3>3, <3>6, <3>7
  <2> QED
    BY <2>1, <2>2 DEF WireInStep
<1> QED
  BY <1>1, WireInvariance, PTL
==============================================================================
