------------------------------- MODULE KVStore -------------------------------
(***************************************************************************)
(* What the database promises its clients: every query, add and delete     *)
(* takes effect at one instant between its call and its return, on one     *)
(* map from names to values.  The responses are the strings that           *)
(* interpret_command (src/database/db.c) writes for each outcome.          *)
(***************************************************************************)
CONSTANTS Threads,   \* client threads
          Names,     \* names a command may carry
          Values,    \* values an add may carry
          NULL       \* no value, no response

VARIABLES db,        \* the map
          st,        \* st[t]: "idle", "pending" (called) or "done" (applied)
          cmd,       \* cmd[t]: the command letter 'q', 'a' or 'd'
          key, val,  \* its arguments
          resp       \* resp[t]: the response once applied

vars == <<db, st, cmd, key, val, resp>>

Init ==
    /\ db \in [Names -> Values \cup {NULL}]
    /\ st = [t \in Threads |-> "idle"]
    /\ cmd \in [Threads -> {"q", "a", "d"}]
    /\ key \in [Threads -> Names]
    /\ val \in [Threads -> Values]
    /\ resp = [t \in Threads |-> NULL]

\* interpret_command has parsed a well-formed command.
Call(t) ==
    /\ st[t] = "idle"
    /\ st' = [st EXCEPT ![t] = "pending"]
    /\ \E c \in {"q", "a", "d"} : cmd' = [cmd EXCEPT ![t] = c]
    /\ \E k \in Names : key' = [key EXCEPT ![t] = k]
    /\ \E v \in Values : val' = [val EXCEPT ![t] = v]
    /\ resp' = [resp EXCEPT ![t] = NULL]
    /\ UNCHANGED db

Effect(t) ==
    CASE cmd[t] = "q" -> db
      [] cmd[t] = "a" -> IF db[key[t]] = NULL
                         THEN [db EXCEPT ![key[t]] = val[t]] ELSE db
      [] cmd[t] = "d" -> [db EXCEPT ![key[t]] = NULL]

Answer(t) ==
    LET old == db[key[t]] IN
    CASE cmd[t] = "q" -> IF old = NULL THEN "not found" ELSE old
      [] cmd[t] = "a" -> IF old = NULL THEN "added" ELSE "already in database"
      [] cmd[t] = "d" -> IF old = NULL THEN "not in database" ELSE "removed"

\* The single instant at which the command takes effect.
Apply(t) ==
    /\ st[t] = "pending"
    /\ st' = [st EXCEPT ![t] = "done"]
    /\ db' = Effect(t)
    /\ resp' = [resp EXCEPT ![t] = Answer(t)]
    /\ UNCHANGED <<cmd, key, val>>

Return(t) ==
    /\ st[t] = "done"
    /\ st' = [st EXCEPT ![t] = "idle"]
    /\ UNCHANGED <<db, cmd, key, val, resp>>

Next == \E t \in Threads : Call(t) \/ Apply(t) \/ Return(t)

Spec == Init /\ [][Next]_vars
==============================================================================
