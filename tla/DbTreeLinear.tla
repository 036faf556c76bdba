---------------------------- MODULE DbTreeLinear -----------------------------
(***************************************************************************)
(* The locked tree implements the atomic map of KVStore.  The abstract map *)
(* is what the nodes of the tree hold now; a command takes effect at the   *)
(* step that fixes its response.                                           *)
(***************************************************************************)
EXTENDS DbTreeSafety

\* The successor that db_remove has copied into dnode and not yet unlinked.
Stale(n) == \E t \in Threads : pc[t] = "unlink" /\ next[t] = n

\* The nodes of name k, and the value they give it.
Found(k) == {n \in Cells : Linked(n) /\ ~Stale(n) /\ name[n] = k}
Lookup(k) == IF Found(k) = {} THEN NULL ELSE value[CHOOSE n \in Found(k) : TRUE]

Map == [k \in Names |-> Lookup(k)]

Status == [t \in Threads |-> IF pc[t] = "idle" THEN "idle"
                            ELSE IF resp[t] = NULL THEN "pending" ELSE "done"]

KV == INSTANCE KVStore WITH db <- Map, st <- Status

\* Every command of db.c appears to happen at one instant between its call and
\* its return: a query never misses a name that a concurrent db_remove is
\* moving up the tree, no add or remove is lost, and each response is the one
\* of a sequential run.
Linearizable == KV!Spec

\* A command's answer reaches its client: every thread that enters db_query,
\* db_add or db_remove returns, so no lock order of the tree can block it for
\* ever.
EveryCommandReturns ==
    \A t \in Threads : pc[t] # "idle" ~> pc[t] = "idle"

------------------------------------------------------------------------------
(* The inductive invariant behind Linearizable, beyond IInv. *)

\* The nodes an undisturbed search for k visits: head, and from every node but
\* one of that name the child on the side of k.
Onward(n, k) == IF name[n] = k THEN NULL ELSE child(n, k)
Closed(k) ==
    {S \in SUBSET (alive \cup {head}) :
        head \in S /\ \A m \in S : Onward(m, k) \in S \cup {NULL}}
Path(k) == LET closed == Closed(k) IN {n \in alive \cup {head} : \A S \in closed : n \in S}

\* A search for the name of a node finds it, and searches under way are where
\* an undisturbed search would be.
Ordered == \A n \in Cells : Linked(n) /\ ~Stale(n) => n \in Path(name[n])
Searching(t) == pc[t] \in {"search", "lock_next", "compare", "hit", "miss"}
OnPath(t) == Searching(t) => parent[t] \in Path(key[t]) /\ name[parent[t]] # key[t]

\* The walk follows left children to smaller and smaller names until there is
\* none.
WalkDown(t) ==
    /\ Walking(t) => \A m \in walked[t] \ {next[t]} :
                       lchild[m] \in walked[t] /\ name[next[t]] < name[m]
    /\ pc[t] \in {"copy", "unlink"} => lchild[next[t]] = NULL

\* The node found is the one asked for until it gets the successor's name; the
\* response is there once the command has taken effect.
Answered(t) ==
    /\ pc[t] = "query_read" \/ (Walking(t) /\ pc[t] # "unlink") =>
         name[target[t]] = key[t]
    /\ pc[t] = "unlink" => name[target[t]] = name[next[t]]
    /\ pc[t] # "idle" =>
         (resp[t] = NULL <=>
            \/ Searching(t) \/ pc[t] \in {"lock_head", "query_read"}
            \/ Walking(t) /\ pc[t] # "unlink")

OrderInv ==
    /\ Ordered
    /\ \A n \in alive : name[n] \in Names /\ value[n] \in Values
    /\ name[head] = 0
    /\ \A t \in Threads : OnPath(t) /\ WalkDown(t) /\ Answered(t)
==============================================================================
