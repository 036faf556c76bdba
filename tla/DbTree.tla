------------------------------- MODULE DbTree --------------------------------
(***************************************************************************)
(* The database of src/database/db.c: a binary search tree edited by       *)
(* client threads that lock it hand over hand with one rwlock per node.    *)
(*                                                                         *)
(* A step is the code between two lock operations.  Every lock, every      *)
(* unlock, every write to a shared node and every free is a step of its    *)
(* own, so the model also has the interleavings the locks are there to     *)
(* exclude; the pieces db.c touches without a lock (the walk of db_remove  *)
(* down the left spine) are interleaved like the others.                   *)
(*                                                                         *)
(* Names are positive integers ordered as strcmp orders the strings; 0 is  *)
(* the "" of the head node.                                                *)
(***************************************************************************)
EXTENDS Naturals, FiniteSets

CONSTANTS Threads,    \* client threads, each running interpret_command
          Cells,      \* memory cells malloc may return for a node_t
          Names,      \* names a command may carry
          Values,     \* values an add may carry
          MaxCalls,   \* bound on the commands of one thread
          head,       \* the static root node
          NULL        \* null pointer, no thread, no response

Responses == Values \cup {"not found", "added", "already in database",
                          "removed", "not in database"}

ASSUME ConstAssumption ==
    /\ Names \subseteq Nat \ {0} /\ Names # {}
    /\ Values # {}
    /\ MaxCalls \in Nat
    /\ head \notin Cells
    /\ NULL \notin Cells \cup {head} \cup Threads
    /\ NULL \notin Responses

Node == Cells \cup {head}
Ptr  == Cells \cup {NULL}      \* a child pointer: no node points at head
Cmds == {"q", "a", "d"}

VARIABLES
    \* the heap: one field of node_t each, and the cells malloc has handed out
    name, value, lchild, rchild, alive,
    \* the rwlock of each node
    readers, writer,
    \* interpret_command of each thread: parsed command, response, commands so far
    cmd, key, val, resp, calls,
    \* program counter and the C locals (target is search's next / db_remove's
    \* dnode; pnext is the node whose child slot pnext points into)
    pc, parent, target, next, nextl, pnext,
    \* history variable: the nodes of the spine that the walk of db_remove has
    \* passed, from dnode->rchild down to next, until it unlinks next
    walked

heap   == <<name, value, lchild, rchild, alive>>
locks  == <<readers, writer>>
client == <<cmd, key, val, resp, calls>>
locals == <<parent, target, next, nextl, pnext, walked>>
vars   == <<heap, locks, client, pc, locals>>

PCs == {"idle", "lock_head", "search", "lock_next", "compare", "hit", "miss",
        "query_read", "unlock_target", "splice_unlock", "splice_free",
        "walk", "walk_lock", "walk_unlock", "copy", "unlink",
        "free_next", "unlock_dnode", "unlock_parent"}

HeapOK ==
    /\ name \in [Node -> Names \cup {0}]
    /\ value \in [Node -> Values \cup {NULL}]
    /\ lchild \in [Node -> Ptr]
    /\ rchild \in [Node -> Ptr]
    /\ alive \in SUBSET Cells

LocksOK ==
    /\ readers \in [Node -> SUBSET Threads]
    /\ writer \in [Node -> Threads \cup {NULL}]

ClientOK ==
    /\ cmd \in [Threads -> Cmds]
    /\ key \in [Threads -> Names]
    /\ val \in [Threads -> Values]
    /\ resp \in [Threads -> Responses \cup {NULL}]
    /\ calls \in [Threads -> 0..MaxCalls]

LocalsOK ==
    /\ pc \in [Threads -> PCs]
    /\ parent \in [Threads -> Node]
    /\ target \in [Threads -> Ptr]
    /\ next \in [Threads -> Ptr]
    /\ nextl \in [Threads -> Ptr]
    /\ pnext \in [Threads -> Ptr]
    /\ walked \in [Threads -> SUBSET Cells]

\* The domain of every variable.
TypeOK == HeapOK /\ LocksOK /\ ClientOK /\ LocalsOK

\* Every thread before its first command.
InitClient ==
    /\ readers = [n \in Node |-> {}]
    /\ writer = [n \in Node |-> NULL]
    /\ cmd = [t \in Threads |-> "q"]
    /\ key = [t \in Threads |-> CHOOSE k \in Names : TRUE]
    /\ val = [t \in Threads |-> CHOOSE v \in Values : TRUE]
    /\ resp = [t \in Threads |-> NULL]
    /\ calls = [t \in Threads |-> 0]
    /\ pc = [t \in Threads |-> "idle"]
    /\ parent = [t \in Threads |-> head]
    /\ target = [t \in Threads |-> NULL]
    /\ next = [t \in Threads |-> NULL]
    /\ nextl = [t \in Threads |-> NULL]
    /\ pnext = [t \in Threads |-> NULL]
    /\ walked = [t \in Threads |-> {}]

\* head = {"", "", 0, 0}: no node but the root.
Init ==
    /\ name = [n \in Node |-> 0]
    /\ value = [n \in Node |-> NULL]
    /\ lchild = [n \in Node |-> NULL]
    /\ rchild = [n \in Node |-> NULL]
    /\ alive = {}
    /\ InitClient

------------------------------------------------------------------------------
(* The macros lock(lt, lk) and unlock(lk).  glibc's default rwlock admits a
   reader whenever no writer holds it. *)

Mode(t) == IF cmd[t] = "q" THEN "l_read" ELSE "l_write"

lock(t, n) ==
    /\ writer[n] = NULL
    /\ \/ /\ Mode(t) = "l_read"
          /\ readers' = [readers EXCEPT ![n] = @ \cup {t}]
          /\ writer' = writer
       \/ /\ Mode(t) = "l_write"
          /\ readers[n] = {}
          /\ writer' = [writer EXCEPT ![n] = t]
          /\ readers' = readers

unlock(t, n) ==
    /\ readers' = [readers EXCEPT ![n] = @ \ {t}]
    /\ writer' = [writer EXCEPT ![n] = IF @ = t THEN NULL ELSE @]

Goto(t, l) == pc' = [pc EXCEPT ![t] = l]
Respond(t, r) == resp' = [resp EXCEPT ![t] = r]

------------------------------------------------------------------------------
(* interpret_command: a well-formed command arrives and the function for its
   letter is entered. *)
interpret_command(t) ==
    /\ pc[t] = "idle"
    /\ calls[t] < MaxCalls
    /\ calls' = [calls EXCEPT ![t] = @ + 1]
    /\ \E c \in Cmds, k \in Names :
         /\ cmd' = [cmd EXCEPT ![t] = c]
         /\ key' = [key EXCEPT ![t] = k]
         /\ \/ c = "a" /\ \E v \in Values : val' = [val EXCEPT ![t] = v]
            \/ c # "a" /\ val' = val
    /\ Respond(t, NULL)
    /\ Goto(t, "lock_head")
    /\ UNCHANGED <<heap, locks, locals>>

lock_head(t) ==
    /\ pc[t] = "lock_head"
    /\ lock(t, head)
    /\ parent' = [parent EXCEPT ![t] = head]
    /\ Goto(t, "search")
    /\ UNCHANGED <<heap, client, target, next, nextl, pnext, walked>>

\* search: choose the child on the side of the name.
child(n, k) == IF k < name[n] THEN lchild[n] ELSE rchild[n]

\* Mutation: unlock the parent before the child is locked.
search_early_unlock(t) ==
    LET c == child(parent[t], key[t]) IN
    /\ pc[t] = "search"
    /\ target' = [target EXCEPT ![t] = c]
    /\ IF c = NULL THEN UNCHANGED locks ELSE unlock(t, parent[t])
    /\ Goto(t, IF c = NULL THEN "miss" ELSE "lock_next")
    /\ UNCHANGED <<heap, client, parent, next, nextl, pnext, walked>>

search(t) ==
    /\ pc[t] = "search"
    /\ LET c == child(parent[t], key[t]) IN
         /\ target' = [target EXCEPT ![t] = c]
         /\ Goto(t, IF c = NULL THEN "miss" ELSE "lock_next")
    /\ UNCHANGED <<heap, locks, client, parent, next, nextl, pnext, walked>>

search_lock(t) ==
    /\ pc[t] = "lock_next"
    /\ lock(t, target[t])
    /\ Goto(t, "compare")
    /\ UNCHANGED <<heap, client, locals>>

\* Mutation: the search goes on from the parent again.
search_compare_stay(t) ==
    /\ pc[t] = "compare"
    /\ \/ /\ name[target[t]] = key[t]
          /\ Goto(t, "hit")
          /\ UNCHANGED <<locks, parent>>
       \/ /\ name[target[t]] # key[t]
          /\ unlock(t, target[t])
          /\ Goto(t, "search")
          /\ UNCHANGED parent
    /\ UNCHANGED <<heap, client, target, next, nextl, pnext, walked>>

\* search: found, or unlock the parent and search from the child.
search_compare(t) ==
    /\ pc[t] = "compare"
    /\ \/ /\ name[target[t]] = key[t]
          /\ Goto(t, "hit")
          /\ UNCHANGED <<locks, parent>>
       \/ /\ name[target[t]] # key[t]
          /\ unlock(t, parent[t])
          /\ parent' = [parent EXCEPT ![t] = target[t]]
          /\ Goto(t, "search")
    /\ UNCHANGED <<heap, client, target, next, nextl, pnext, walked>>

------------------------------------------------------------------------------
\* Mutation: both locks are released before the value is read.
db_query_hit_unlocked(t) ==
    /\ pc[t] = "hit" /\ cmd[t] = "q"
    /\ readers' = [n \in Node |-> readers[n] \ {t}]
    /\ writer' = writer
    /\ Goto(t, "query_read")
    /\ UNCHANGED <<heap, client, locals>>

(* db_query: search was given no parentpp, so it unlocks the parent itself. *)
db_query_hit(t) ==
    /\ pc[t] = "hit" /\ cmd[t] = "q"
    /\ unlock(t, parent[t])
    /\ Goto(t, "query_read")
    /\ UNCHANGED <<heap, client, locals>>

db_query_read(t) ==
    /\ pc[t] = "query_read"
    /\ Respond(t, value[target[t]])
    /\ Goto(t, "unlock_target")
    /\ UNCHANGED <<heap, locks, cmd, key, val, calls, locals>>

db_query_return(t) ==
    /\ pc[t] = "unlock_target" /\ cmd[t] = "q"
    /\ unlock(t, target[t])
    /\ Goto(t, "idle")
    /\ UNCHANGED <<heap, client, locals>>

db_query_miss(t) ==
    /\ pc[t] = "miss" /\ cmd[t] = "q"
    /\ Respond(t, "not found")
    /\ Goto(t, "unlock_parent")
    /\ UNCHANGED <<heap, locks, cmd, key, val, calls, locals>>

------------------------------------------------------------------------------
(* db_add *)
db_add_hit(t) ==
    /\ pc[t] = "hit" /\ cmd[t] = "a"
    /\ unlock(t, target[t])
    /\ Respond(t, "already in database")
    /\ Goto(t, "unlock_parent")
    /\ UNCHANGED <<heap, cmd, key, val, calls, locals>>

\* set the child pointer of p on the side of name k
link(p, k, c) ==
    \/ k < name[p]  /\ lchild' = [lchild EXCEPT ![p] = c] /\ rchild' = rchild
    \/ k >= name[p] /\ rchild' = [rchild EXCEPT ![p] = c] /\ lchild' = lchild

\* node_constructor and pthread_rwlock_init make a private node in cell n; the
\* last write links it below the parent.
node_constructor(t, n) ==
    /\ alive' = alive \cup {n}
    /\ name' = [name EXCEPT ![n] = key[t]]
    /\ value' = [value EXCEPT ![n] = val[t]]
    /\ readers' = [readers EXCEPT ![n] = {}]
    /\ writer' = [writer EXCEPT ![n] = NULL]
    /\ \/ /\ key[t] < name[parent[t]]
          /\ lchild' = [lchild EXCEPT ![n] = NULL, ![parent[t]] = n]
          /\ rchild' = [rchild EXCEPT ![n] = NULL]
       \/ /\ key[t] >= name[parent[t]]
          /\ lchild' = [lchild EXCEPT ![n] = NULL]
          /\ rchild' = [rchild EXCEPT ![n] = NULL, ![parent[t]] = n]

db_add_miss(t) ==
    /\ pc[t] = "miss" /\ cmd[t] = "a"
    /\ \E n \in Cells \ alive : node_constructor(t, n)
    /\ Respond(t, "added")
    /\ Goto(t, "unlock_parent")
    /\ UNCHANGED <<cmd, key, val, calls, locals>>

------------------------------------------------------------------------------
(* db_remove *)
db_remove_miss(t) ==
    /\ pc[t] = "miss" /\ cmd[t] = "d"
    /\ Respond(t, "not in database")
    /\ Goto(t, "unlock_parent")
    /\ UNCHANGED <<heap, locks, cmd, key, val, calls, locals>>

\* Mutation: with no right child, give the parent that null pointer.
db_remove_splice_right(t) ==
    LET d == target[t] IN
    /\ pc[t] = "hit" /\ cmd[t] = "d"
    /\ rchild[d] = NULL \/ lchild[d] = NULL
    /\ link(parent[t], name[d], rchild[d])
    /\ Respond(t, "removed")
    /\ Goto(t, "splice_unlock")
    /\ UNCHANGED <<name, value, alive, locks, cmd, key, val, calls, locals>>

\* At most one child: the parent takes over that child.
db_remove_splice(t) ==
    LET d == target[t] IN
    /\ pc[t] = "hit" /\ cmd[t] = "d"
    /\ \/ rchild[d] = NULL /\ link(parent[t], name[d], lchild[d])
       \/ rchild[d] # NULL /\ lchild[d] = NULL
          /\ link(parent[t], name[d], rchild[d])
    /\ Respond(t, "removed")
    /\ Goto(t, "splice_unlock")
    /\ UNCHANGED <<name, value, alive, locks, cmd, key, val, calls, locals>>

db_remove_splice_unlock(t) ==
    /\ pc[t] = "splice_unlock"
    /\ unlock(t, target[t])
    /\ Goto(t, "splice_free")
    /\ UNCHANGED <<heap, client, locals>>

db_remove_splice_free(t) ==
    /\ pc[t] = "splice_free"
    /\ alive' = alive \ {target[t]}
    /\ Goto(t, "unlock_parent")
    /\ UNCHANGED <<name, value, lchild, rchild, locks, client, locals>>

\* Two children: lock the right child and walk down its left spine.
db_remove_two(t) ==
    LET d == target[t] IN
    /\ pc[t] = "hit" /\ cmd[t] = "d"
    /\ rchild[d] # NULL /\ lchild[d] # NULL
    /\ lock(t, rchild[d])
    /\ next' = [next EXCEPT ![t] = rchild[d]]
    /\ pnext' = [pnext EXCEPT ![t] = d]
    /\ walked' = [walked EXCEPT ![t] = {rchild[d]}]
    /\ Goto(t, "walk")
    /\ UNCHANGED <<heap, client, parent, target, nextl>>

\* while (next->lchild != 0); when it ends, unlock(&dnode->rchild->lock)
db_remove_walk(t) ==
    /\ pc[t] = "walk"
    /\ \/ /\ lchild[next[t]] # NULL
          /\ nextl' = [nextl EXCEPT ![t] = lchild[next[t]]]
          /\ Goto(t, "walk_lock")
          /\ UNCHANGED locks
       \/ /\ lchild[next[t]] = NULL
          /\ unlock(t, rchild[target[t]])
          /\ Goto(t, "copy")
          /\ UNCHANGED nextl
    /\ UNCHANGED <<heap, client, parent, target, next, pnext, walked>>

db_remove_walk_lock(t) ==
    /\ pc[t] = "walk_lock"
    /\ lock(t, nextl[t])
    /\ Goto(t, "walk_unlock")
    /\ UNCHANGED <<heap, client, locals>>

\* nextl = next->lchild; pnext = &next->lchild; unlock(&next->lchild->lock)
db_remove_walk_unlock(t) ==
    LET l == lchild[next[t]] IN
    /\ pc[t] = "walk_unlock"
    /\ nextl' = [nextl EXCEPT ![t] = l]
    /\ pnext' = [pnext EXCEPT ![t] = next[t]]
    /\ unlock(t, l)
    /\ next' = [next EXCEPT ![t] = l]
    /\ walked' = [walked EXCEPT ![t] = @ \cup {l}]
    /\ Goto(t, "walk")
    /\ UNCHANGED <<heap, client, parent, target>>

\* Mutation: the value is not copied.
db_remove_copy_name(t) ==
    /\ pc[t] = "copy"
    /\ name' = [name EXCEPT ![target[t]] = name[next[t]]]
    /\ Respond(t, "removed")
    /\ Goto(t, "unlink")
    /\ UNCHANGED <<value, lchild, rchild, alive, locks, cmd, key, val, calls, locals>>

\* The two snprintf calls that overwrite dnode with the least node.
db_remove_copy(t) ==
    /\ pc[t] = "copy"
    /\ name' = [name EXCEPT ![target[t]] = name[next[t]]]
    /\ value' = [value EXCEPT ![target[t]] = value[next[t]]]
    /\ Respond(t, "removed")
    /\ Goto(t, "unlink")
    /\ UNCHANGED <<lchild, rchild, alive, locks, cmd, key, val, calls, locals>>

\* Mutation: pnext was not moved down the spine.
db_remove_unlink_top(t) ==
    /\ pc[t] = "unlink"
    /\ rchild' = [rchild EXCEPT ![target[t]] = rchild[next[t]]]
    /\ walked' = [walked EXCEPT ![t] = {}]
    /\ Goto(t, "free_next")
    /\ UNCHANGED <<name, value, lchild, alive, locks, client,
                   parent, target, next, nextl, pnext>>

\* *pnext = next->rchild
db_remove_unlink(t) ==
    LET c == rchild[next[t]] IN
    /\ pc[t] = "unlink"
    /\ \/ /\ pnext[t] = target[t]
          /\ rchild' = [rchild EXCEPT ![pnext[t]] = c]
          /\ lchild' = lchild
       \/ /\ pnext[t] # target[t]
          /\ lchild' = [lchild EXCEPT ![pnext[t]] = c]
          /\ rchild' = rchild
    /\ walked' = [walked EXCEPT ![t] = {}]
    /\ Goto(t, "free_next")
    /\ UNCHANGED <<name, value, alive, locks, client,
                   parent, target, next, nextl, pnext>>

\* Mutation: free dnode, which stays in the tree.
db_remove_free_dnode(t) ==
    /\ pc[t] = "free_next"
    /\ alive' = alive \ {target[t]}
    /\ Goto(t, "unlock_dnode")
    /\ UNCHANGED <<name, value, lchild, rchild, locks, client, locals>>

db_remove_free(t) ==
    /\ pc[t] = "free_next"
    /\ alive' = alive \ {next[t]}
    /\ Goto(t, "unlock_dnode")
    /\ UNCHANGED <<name, value, lchild, rchild, locks, client, locals>>

db_remove_unlock_dnode(t) ==
    /\ pc[t] = "unlock_dnode"
    /\ unlock(t, target[t])
    /\ Goto(t, "unlock_parent")
    /\ UNCHANGED <<heap, client, locals>>

\* The last unlock(&parent->lock) of search (for a query that misses), db_add
\* and db_remove; the function returns and interpret_command has its response.
unlock_parent(t) ==
    /\ pc[t] = "unlock_parent"
    /\ unlock(t, parent[t])
    /\ Goto(t, "idle")
    /\ UNCHANGED <<heap, client, locals>>

------------------------------------------------------------------------------
Step(t) ==
    \/ lock_head(t) \/ search(t) \/ search_lock(t) \/ search_compare(t)
    \/ db_query_hit(t) \/ db_query_read(t) \/ db_query_return(t)
    \/ db_query_miss(t)
    \/ db_add_hit(t) \/ db_add_miss(t)
    \/ db_remove_miss(t) \/ db_remove_splice(t)
    \/ db_remove_splice_unlock(t) \/ db_remove_splice_free(t)
    \/ db_remove_two(t) \/ db_remove_walk(t) \/ db_remove_walk_lock(t)
    \/ db_remove_walk_unlock(t) \/ db_remove_copy(t) \/ db_remove_unlink(t)
    \/ db_remove_free(t) \/ db_remove_unlock_dnode(t) \/ unlock_parent(t)

\* Every thread has run its commands: the only way the model may stop.
Finished ==
    /\ \A t \in Threads : pc[t] = "idle" /\ calls[t] = MaxCalls
    /\ UNCHANGED vars

Next == (\E t \in Threads : interpret_command(t) \/ Step(t)) \/ Finished

Spec == Init /\ [][Next]_vars
==============================================================================
