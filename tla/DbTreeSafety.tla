---------------------------- MODULE DbTreeSafety -----------------------------
(***************************************************************************)
(* What makes the fine-grained locking of src/database/db.c correct.       *)
(***************************************************************************)
EXTENDS DbTree

\* The nodes whose lock thread t owns, as the code at pc[t] believes.
HoldsParent(t) == pc[t] \in {"search", "lock_next", "compare", "hit", "miss",
                             "splice_unlock", "splice_free", "walk", "walk_lock",
                             "walk_unlock", "copy", "unlink", "free_next",
                             "unlock_dnode", "unlock_parent"}
HoldsTarget(t) == pc[t] \in {"compare", "hit", "query_read", "unlock_target",
                             "splice_unlock", "walk", "walk_lock", "walk_unlock",
                             "copy", "unlink", "free_next", "unlock_dnode"}
HoldsRchild(t) == pc[t] \in {"walk", "walk_lock", "walk_unlock"}

Holds(t) ==
    {n \in Node : \/ HoldsParent(t) /\ n = parent[t]
                  \/ HoldsTarget(t) /\ n = target[t]
                  \/ HoldsRchild(t) /\ n = rchild[target[t]]
                  \/ pc[t] = "walk_unlock" /\ n = nextl[t]}

\* The nodes whose fields the next step of t reads.
Reads(t) ==
    CASE pc[t] \in {"search", "miss"} -> {parent[t]}
      [] pc[t] \in {"compare", "query_read"} -> {target[t]}
      [] pc[t] = "hit" /\ cmd[t] = "d" -> {parent[t], target[t]}
      [] pc[t] = "walk" -> {next[t], target[t]}
      [] pc[t] \in {"walk_unlock", "copy", "unlink"} -> {next[t]}
      [] OTHER -> {}

\* The nodes whose fields the next step of t writes or frees.
Writes(t) ==
    CASE pc[t] = "miss" /\ cmd[t] = "a" -> {parent[t]}
      [] pc[t] = "hit" /\ cmd[t] = "d" -> {parent[t]}
      [] pc[t] = "splice_free" -> {target[t]}
      [] pc[t] = "copy" -> {target[t]}
      [] pc[t] = "unlink" -> {pnext[t]}
      [] pc[t] = "free_next" -> {next[t]}
      [] OTHER -> {}

\* The node whose lock the next step of t takes or releases.
Locks(t) ==
    CASE pc[t] = "lock_head" -> {head}
      [] pc[t] \in {"lock_next", "unlock_target", "splice_unlock",
                    "unlock_dnode"} -> {target[t]}
      [] pc[t] = "walk_lock" -> {nextl[t]}
      [] pc[t] = "walk_unlock" -> {lchild[next[t]]}
      [] pc[t] = "unlock_parent" -> {parent[t]}
      [] OTHER -> {}

\* Locks match the program: a thread owns exactly the locks its position in
\* the code says, in the mode of its command, so every unlock in db.c releases
\* a lock its caller holds and no lock outlives its function; and a writer
\* excludes everyone else.
LockDiscipline ==
    \A n \in Node, t \in Threads :
        /\ writer[n] = t <=> n \in Holds(t) /\ Mode(t) = "l_write"
        /\ t \in readers[n] <=> n \in Holds(t) /\ Mode(t) = "l_read"
        /\ writer[n] = t => readers[n] = {}

\* No thread is about to touch a node that node_destructor has freed, although
\* db_remove frees a node whose lock it no longer holds.
NoUseAfterFree ==
    \A t \in Threads : Reads(t) \cup Writes(t) \cup Locks(t) \subseteq alive \cup {head}

\* No thread is about to write or free a node another one is about to read,
\* write or free, although the walk and the unlinking of db_remove touch nodes
\* whose locks were released.
RaceFree ==
    \A t, u \in Threads :
        t # u => Writes(t) \cap (Reads(u) \cup Writes(u)) = {}

\* A node about to be freed is wanted by nobody else: no thread is blocked on,
\* holds, or will next take the lock inside it.
FreedUnlocked ==
    \A t, u \in Threads :
        /\ t # u
        /\ \/ pc[t] = "splice_free" /\ target[t] \in Holds(u) \cup Locks(u)
           \/ pc[t] = "free_next" /\ next[t] \in Holds(u) \cup Locks(u)
        => FALSE

\* The nodes reachable from head through child pointers: every set that holds head
\* and is closed under children holds them.
Children(S) == ({lchild[n] : n \in S} \cup {rchild[n] : n \in S}) \ {NULL}
Below ==
    {n \in Cells : \A S \in SUBSET Node : head \in S /\ Children(S) \subseteq S => n \in S}

\* When no command is running every live node is in the tree and no lock is
\* held: adds and removes leak no node and lose no subtree.
QuiescentClean ==
    (\A t \in Threads : pc[t] = "idle") =>
        /\ Below = alive
        /\ \A n \in Node : writer[n] = NULL /\ readers[n] = {}

------------------------------------------------------------------------------
(* The inductive invariant behind the invariants above. *)

\* A node db_remove has taken out of the tree and not yet freed.
DetachedBy(t, n) == \/ pc[t] \in {"splice_unlock", "splice_free"} /\ n = target[t]
                    \/ pc[t] = "free_next" /\ n = next[t]
Linked(n) == n \in alive \cup {head} /\ \A t \in Threads : ~DetachedBy(t, n)

\* Child pointers of tree nodes lead to tree nodes, and no node has two parents.
TreeShape ==
    /\ \A p \in Node : Linked(p) =>
          /\ lchild[p] # NULL => Linked(lchild[p])
          /\ rchild[p] # NULL => Linked(rchild[p])
    /\ \A p, q \in Node : Linked(p) /\ Linked(q) =>
          /\ lchild[p] # NULL /\ lchild[p] = lchild[q] => p = q
          /\ rchild[p] # NULL /\ rchild[p] = rchild[q] => p = q
          /\ lchild[p] # NULL => lchild[p] # rchild[q]

\* The commands that can be at each place of the code.
PcCmd(t) ==
    /\ pc[t] \in {"query_read", "unlock_target"} => cmd[t] = "q"
    /\ pc[t] \in {"splice_unlock", "splice_free", "walk", "walk_lock",
                  "walk_unlock", "copy", "unlink", "free_next",
                  "unlock_dnode"} => cmd[t] = "d"

\* Where the pointers of a searching thread lead.
SearchPos(t) ==
    /\ HoldsParent(t) => Linked(parent[t])
    /\ pc[t] \in {"lock_next", "compare", "hit"} =>
          target[t] # NULL /\ target[t] = child(parent[t], key[t])
    /\ pc[t] = "hit" => name[target[t]] = key[t]
    /\ pc[t] = "miss" => child(parent[t], key[t]) = NULL
    /\ HoldsTarget(t) \/ pc[t] = "splice_free" => target[t] # NULL
    /\ HoldsTarget(t) /\ pc[t] # "splice_unlock" => Linked(target[t])
    /\ HoldsParent(t) /\ HoldsTarget(t) => parent[t] # target[t]

\* Where the pointers of a walking db_remove lead.
Walking(t) == pc[t] \in {"walk", "walk_lock", "walk_unlock", "copy", "unlink"}
WalkPos(t) ==
    /\ ~Walking(t) => walked[t] = {}
    /\ Walking(t) =>
          /\ rchild[target[t]] \in walked[t] /\ next[t] \in walked[t]
          /\ \A n \in walked[t] : Linked(n) /\ n \notin {parent[t], target[t]}
          /\ \A n \in walked[t] : \/ n = rchild[target[t]]
                                  \/ \E m \in walked[t] : lchild[m] = n
          /\ \/ pnext[t] = target[t] /\ next[t] = rchild[target[t]]
             \/ pnext[t] \in walked[t] /\ lchild[pnext[t]] = next[t]
    /\ pc[t] \in {"walk_lock", "walk_unlock"} =>
          nextl[t] # NULL /\ nextl[t] = lchild[next[t]]
    /\ pc[t] = "walk_unlock" =>
          nextl[t] \notin {parent[t], target[t], rchild[target[t]]}
    /\ pc[t] = "free_next" => next[t] # NULL
    /\ \A n \in Node : DetachedBy(t, n) => n \in alive

\* The spine behind a walking db_remove is its own, locked or not; and nobody
\* owns a node another thread has detached.
Private(t, u) ==
    /\ walked[t] \cap Holds(u) = {}
    /\ walked[t] \cap walked[u] = {}
    /\ \A n \in Node : DetachedBy(t, n) => n \notin Holds(u) /\ ~DetachedBy(u, n)

IInv == /\ TypeOK /\ TreeShape /\ LockDiscipline
        /\ \A t \in Threads : PcCmd(t) /\ SearchPos(t) /\ WalkPos(t)
        /\ \A t, u \in Threads : t # u => Private(t, u)
==============================================================================
