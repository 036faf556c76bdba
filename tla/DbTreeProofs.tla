---------------------------- MODULE DbTreeProofs -----------------------------
(***************************************************************************)
(* IInv (DbTreeSafety) is an invariant of the locked tree for every number *)
(* of threads, nodes and names, and with it the lock discipline, memory    *)
(* safety and freedom from data races.  With it every step keeps OrderInv  *)
(* (DbTreeLinear), by which no node is lost, and is a step of KVStore or   *)
(* changes nothing there: the tree is linearizable.                        *)
(***************************************************************************)
EXTENDS DbTreeLinear, TLAPS

\* No node is below itself: some numbering grows from parent to child.  Only
\* used in proofs; TLC cannot enumerate the numberings.
Descends(r) ==
    \A p \in Node : Linked(p) =>
        /\ lchild[p] # NULL => r[p] < r[lchild[p]]
        /\ rchild[p] # NULL => r[p] < r[rchild[p]]
Acyclic == \E r \in [Node -> Nat] : Descends(r)

Inv == IInv /\ Acyclic

\* The steps of a thread.
Run(t) == interpret_command(t) \/ Step(t)

------------------------------------------------------------------------------
(* Type correctness *)

\* Names are compared as numbers.
LEMMA NamesNat == \A k \in Names \cup {0} : k \in Nat
BY ConstAssumption

\* The node pointers a step follows are not null where db.c follows them.
LEMMA Pointers ==
    ASSUME IInv, NEW t \in Threads
    PROVE  /\ HoldsParent(t) => parent[t] \in Node
           /\ HoldsTarget(t) \/ pc[t] \in {"lock_next", "splice_free"} =>
                 target[t] \in Cells
           /\ pc[t] = "free_next" => next[t] \in Cells
           /\ Walking(t) => /\ rchild[target[t]] \in Cells
                            /\ next[t] \in Cells
                            /\ pnext[t] \in Cells
           /\ pc[t] \in {"walk_lock", "walk_unlock"} => nextl[t] \in Cells
<1> USE ConstAssumption DEF IInv, TypeOK, HeapOK, LocalsOK, ClientOK, Node, Ptr
<1>1. parent[t] \in Node /\ target[t] \in Ptr /\ nextl[t] \in Ptr
  OBVIOUS
<1>2. HoldsTarget(t) \/ pc[t] \in {"lock_next", "splice_free"} => target[t] # NULL
  BY DEF HoldsTarget, SearchPos
<1>3. ASSUME Walking(t)
      PROVE  rchild[target[t]] \in Cells /\ next[t] \in Cells /\ pnext[t] \in Cells
  BY <1>3, <1>2 DEF Walking, WalkPos, HoldsTarget
<1>4. QED
  BY <1>1, <1>2, <1>3 DEF WalkPos

\* The lock macros keep the lock words in their domain.
LEMMA LockTyped ==
    ASSUME LocksOK, NEW t \in Threads, NEW n, lock(t, n) \/ unlock(t, n)
    PROVE  LocksOK'
BY DEF LocksOK, lock, unlock, Node

\* Every step of db.c leaves every variable in its domain.
LEMMA TypeStep ==
    ASSUME IInv, NEW t \in Threads, Run(t)
    PROVE  TypeOK'
<1> USE DEF IInv
<1>0. TypeOK /\ HeapOK /\ LocksOK /\ ClientOK /\ LocalsOK
  BY DEF TypeOK
<1>1. CASE interpret_command(t)
  <2> USE <1>1, <1>0 DEF interpret_command
  <2>1. HeapOK'
    BY DEF HeapOK, heap
  <2>2. LocksOK'
    BY DEF LocksOK, locks
  <2>6. calls'[t] \in 0..MaxCalls
    BY ConstAssumption DEF ClientOK
  <2>7. PICK c \in Cmds, k \in Names :
          /\ cmd' = [cmd EXCEPT ![t] = c]
          /\ key' = [key EXCEPT ![t] = k]
          /\ val' = val \/ \E v \in Values : val' = [val EXCEPT ![t] = v]
    OBVIOUS
  <2>8. val' \in [Threads -> Values]
    BY <2>7 DEF ClientOK
  <2>3. ClientOK'
    BY <2>6, <2>7, <2>8 DEF ClientOK, Respond
  <2>4. LocalsOK'
    BY DEF LocalsOK, locals, Goto, PCs, Ptr, Node
  <2>5. QED
    BY <2>1, <2>2, <2>3, <2>4 DEF TypeOK
<1>2. CASE lock_head(t)
  <2> USE <1>2, <1>0 DEF lock_head
  <2>1. HeapOK'
    BY DEF HeapOK, heap
  <2>2. LocksOK'
    BY LockTyped DEF LocksOK, locks
  <2>3. ClientOK'
    BY DEF ClientOK, client, Respond, Responses, Cmds
  <2>4. LocalsOK'
    BY DEF LocalsOK, locals, Goto, PCs, Ptr, Node
  <2>5. QED
    BY <2>1, <2>2, <2>3, <2>4 DEF TypeOK
<1>3. CASE search(t)
  <2> USE <1>3, <1>0 DEF search
  <2>1. HeapOK'
    BY DEF HeapOK, heap
  <2>2. LocksOK'
    BY DEF LocksOK, locks
  <2>3. ClientOK'
    BY DEF ClientOK, client, Respond, Responses, Cmds
  <2>6. child(parent[t], key[t]) \in Ptr
    BY DEF HeapOK, LocalsOK, child, Node
  <2>4. LocalsOK'
    BY <2>6 DEF LocalsOK, Goto, PCs
  <2>5. QED
    BY <2>1, <2>2, <2>3, <2>4 DEF TypeOK
<1>4. CASE search_lock(t)
  <2> USE <1>4, <1>0 DEF search_lock
  <2>1. HeapOK'
    BY DEF HeapOK, heap
  <2>2. LocksOK'
    BY LockTyped DEF LocksOK, locks
  <2>3. ClientOK'
    BY DEF ClientOK, client, Respond, Responses, Cmds
  <2>4. LocalsOK'
    BY DEF LocalsOK, locals, Goto, PCs, Ptr, Node
  <2>5. QED
    BY <2>1, <2>2, <2>3, <2>4 DEF TypeOK
<1>5. CASE search_compare(t)
  <2> USE <1>5, <1>0 DEF search_compare
  <2>1. HeapOK'
    BY DEF HeapOK, heap
  <2>2. LocksOK'
    BY LockTyped DEF LocksOK, locks
  <2>3. ClientOK'
    BY DEF ClientOK, client, Respond, Responses, Cmds
  <2>6. target[t] \in Node
    BY Pointers DEF HoldsTarget, Node
  <2>4. LocalsOK'
    BY <2>6 DEF LocalsOK, Goto, PCs
  <2>5. QED
    BY <2>1, <2>2, <2>3, <2>4 DEF TypeOK
<1>6. CASE db_query_hit(t)
  <2> USE <1>6, <1>0 DEF db_query_hit
  <2>1. HeapOK'
    BY DEF HeapOK, heap
  <2>2. LocksOK'
    BY LockTyped DEF LocksOK, locks
  <2>3. ClientOK'
    BY DEF ClientOK, client, Respond, Responses, Cmds
  <2>4. LocalsOK'
    BY DEF LocalsOK, locals, Goto, PCs, Ptr, Node
  <2>5. QED
    BY <2>1, <2>2, <2>3, <2>4 DEF TypeOK
<1>7. CASE db_query_read(t)
  <2> USE <1>7, <1>0 DEF db_query_read
  <2>1. HeapOK'
    BY DEF HeapOK, heap
  <2>2. LocksOK'
    BY DEF LocksOK, locks
  <2>6. value[target[t]] \in Values \cup {NULL}
    BY Pointers DEF HoldsTarget, HeapOK, Node
  <2>3. ClientOK'
    BY <2>6 DEF ClientOK, Respond, Responses
  <2>4. LocalsOK'
    BY DEF LocalsOK, locals, Goto, PCs, Ptr, Node
  <2>5. QED
    BY <2>1, <2>2, <2>3, <2>4 DEF TypeOK
<1>8. CASE db_query_return(t)
  <2> USE <1>8, <1>0 DEF db_query_return
  <2>1. HeapOK'
    BY DEF HeapOK, heap
  <2>2. LocksOK'
    BY LockTyped DEF LocksOK, locks
  <2>3. ClientOK'
    BY DEF ClientOK, client, Respond, Responses, Cmds
  <2>4. LocalsOK'
    BY DEF LocalsOK, locals, Goto, PCs, Ptr, Node
  <2>5. QED
    BY <2>1, <2>2, <2>3, <2>4 DEF TypeOK
<1>9. CASE db_query_miss(t)
  <2> USE <1>9, <1>0 DEF db_query_miss
  <2>1. HeapOK'
    BY DEF HeapOK, heap
  <2>2. LocksOK'
    BY DEF LocksOK, locks
  <2>3. ClientOK'
    BY DEF ClientOK, client, Respond, Responses, Cmds
  <2>4. LocalsOK'
    BY DEF LocalsOK, locals, Goto, PCs, Ptr, Node
  <2>5. QED
    BY <2>1, <2>2, <2>3, <2>4 DEF TypeOK
<1>10. CASE db_add_hit(t)
  <2> USE <1>10, <1>0 DEF db_add_hit
  <2>1. HeapOK'
    BY DEF HeapOK, heap
  <2>2. LocksOK'
    BY LockTyped DEF LocksOK, locks
  <2>3. ClientOK'
    BY DEF ClientOK, client, Respond, Responses, Cmds
  <2>4. LocalsOK'
    BY DEF LocalsOK, locals, Goto, PCs, Ptr, Node
  <2>5. QED
    BY <2>1, <2>2, <2>3, <2>4 DEF TypeOK
<1>11. CASE db_add_miss(t)
  <2> USE <1>11, <1>0 DEF db_add_miss
  <2>6. PICK n \in Cells : n \notin alive /\ node_constructor(t, n)
    OBVIOUS
  <2>7. key[t] \in Names /\ val[t] \in Values /\ n \in Ptr /\ NULL \in Ptr
    BY DEF ClientOK, Ptr
  <2>8. name' \in [Node -> Names \cup {0}] /\ value' \in [Node -> Values \cup {NULL}]
    BY <2>6, <2>7 DEF HeapOK, node_constructor
  <2>9. lchild' \in [Node -> Ptr] /\ rchild' \in [Node -> Ptr]
    BY <2>6, <2>7 DEF HeapOK, node_constructor
  <2>1. HeapOK'
    BY <2>6, <2>8, <2>9 DEF HeapOK, node_constructor
  <2>2. LocksOK'
    BY <2>6 DEF LocksOK, node_constructor
  <2>3. ClientOK'
    BY DEF ClientOK, client, Respond, Responses, Cmds
  <2>4. LocalsOK'
    BY DEF LocalsOK, locals, Goto, PCs, Ptr, Node
  <2>5. QED
    BY <2>1, <2>2, <2>3, <2>4 DEF TypeOK
<1>12. CASE db_remove_miss(t)
  <2> USE <1>12, <1>0 DEF db_remove_miss
  <2>1. HeapOK'
    BY DEF HeapOK, heap
  <2>2. LocksOK'
    BY DEF LocksOK, locks
  <2>3. ClientOK'
    BY DEF ClientOK, client, Respond, Responses, Cmds
  <2>4. LocalsOK'
    BY DEF LocalsOK, locals, Goto, PCs, Ptr, Node
  <2>5. QED
    BY <2>1, <2>2, <2>3, <2>4 DEF TypeOK
<1>13. CASE db_remove_splice(t)
  <2> USE <1>13, <1>0 DEF db_remove_splice
  <2>6. lchild[target[t]] \in Ptr /\ rchild[target[t]] \in Ptr
    BY Pointers DEF HoldsTarget, HeapOK, Node
  <2>1. HeapOK'
    BY <2>6 DEF HeapOK, link
  <2>2. LocksOK'
    BY DEF LocksOK, locks
  <2>3. ClientOK'
    BY DEF ClientOK, client, Respond, Responses, Cmds
  <2>4. LocalsOK'
    BY DEF LocalsOK, locals, Goto, PCs, Ptr, Node
  <2>5. QED
    BY <2>1, <2>2, <2>3, <2>4 DEF TypeOK
<1>14. CASE db_remove_splice_unlock(t)
  <2> USE <1>14, <1>0 DEF db_remove_splice_unlock
  <2>1. HeapOK'
    BY DEF HeapOK, heap
  <2>2. LocksOK'
    BY LockTyped DEF LocksOK, locks
  <2>3. ClientOK'
    BY DEF ClientOK, client, Respond, Responses, Cmds
  <2>4. LocalsOK'
    BY DEF LocalsOK, locals, Goto, PCs, Ptr, Node
  <2>5. QED
    BY <2>1, <2>2, <2>3, <2>4 DEF TypeOK
<1>15. CASE db_remove_splice_free(t)
  <2> USE <1>15, <1>0 DEF db_remove_splice_free
  <2>1. HeapOK'
    BY DEF HeapOK, heap
  <2>2. LocksOK'
    BY DEF LocksOK, locks
  <2>3. ClientOK'
    BY DEF ClientOK, client, Respond, Responses, Cmds
  <2>4. LocalsOK'
    BY DEF LocalsOK, locals, Goto, PCs, Ptr, Node
  <2>5. QED
    BY <2>1, <2>2, <2>3, <2>4 DEF TypeOK
<1>16. CASE db_remove_two(t)
  <2> USE <1>16, <1>0 DEF db_remove_two
  <2>1. HeapOK'
    BY DEF HeapOK, heap
  <2>2. LocksOK'
    BY LockTyped DEF LocksOK, locks
  <2>3. ClientOK'
    BY DEF ClientOK, client, Respond, Responses, Cmds
  <2>6. rchild[target[t]] \in Cells /\ rchild[target[t]] \in Ptr /\ target[t] \in Ptr
    BY Pointers DEF HoldsTarget, HeapOK, Node, Ptr
  <2>4. LocalsOK'
    BY <2>6 DEF LocalsOK, Goto, PCs
  <2>5. QED
    BY <2>1, <2>2, <2>3, <2>4 DEF TypeOK
<1>17. CASE db_remove_walk(t)
  <2> USE <1>17, <1>0 DEF db_remove_walk
  <2>1. HeapOK'
    BY DEF HeapOK, heap
  <2>2. LocksOK'
    BY LockTyped DEF LocksOK, locks
  <2>3. ClientOK'
    BY DEF ClientOK, client, Respond, Responses, Cmds
  <2>6. lchild[next[t]] \in Ptr
    BY Pointers DEF Walking, HeapOK, Node
  <2>4. LocalsOK'
    BY <2>6 DEF LocalsOK, Goto, PCs
  <2>5. QED
    BY <2>1, <2>2, <2>3, <2>4 DEF TypeOK
<1>18. CASE db_remove_walk_lock(t)
  <2> USE <1>18, <1>0 DEF db_remove_walk_lock
  <2>1. HeapOK'
    BY DEF HeapOK, heap
  <2>2. LocksOK'
    BY LockTyped DEF LocksOK, locks
  <2>3. ClientOK'
    BY DEF ClientOK, client, Respond, Responses, Cmds
  <2>4. LocalsOK'
    BY DEF LocalsOK, locals, Goto, PCs, Ptr, Node
  <2>5. QED
    BY <2>1, <2>2, <2>3, <2>4 DEF TypeOK
<1>19. CASE db_remove_walk_unlock(t)
  <2> USE <1>19, <1>0 DEF db_remove_walk_unlock
  <2>1. HeapOK'
    BY DEF HeapOK, heap
  <2>2. LocksOK'
    BY LockTyped DEF LocksOK, locks
  <2>3. ClientOK'
    BY DEF ClientOK, client, Respond, Responses, Cmds
  <2>6. /\ lchild[next[t]] \in Cells /\ lchild[next[t]] \in Ptr
        /\ next[t] \in Ptr
    BY Pointers DEF WalkPos, Ptr, Walking
  <2>4. LocalsOK'
    BY <2>6 DEF LocalsOK, Goto, PCs
  <2>5. QED
    BY <2>1, <2>2, <2>3, <2>4 DEF TypeOK
<1>20. CASE db_remove_copy(t)
  <2> USE <1>20, <1>0 DEF db_remove_copy
  <2>6. next[t] \in Node
    BY Pointers DEF Walking, Node
  <2>1. HeapOK'
    BY <2>6 DEF HeapOK
  <2>2. LocksOK'
    BY DEF LocksOK, locks
  <2>3. ClientOK'
    BY DEF ClientOK, client, Respond, Responses, Cmds
  <2>4. LocalsOK'
    BY DEF LocalsOK, locals, Goto, PCs, Ptr, Node
  <2>5. QED
    BY <2>1, <2>2, <2>3, <2>4 DEF TypeOK
<1>21. CASE db_remove_unlink(t)
  <2> USE <1>21, <1>0 DEF db_remove_unlink
  <2>6. rchild[next[t]] \in Ptr
    BY Pointers DEF Walking, HeapOK, Node
  <2>1. HeapOK'
    BY <2>6 DEF HeapOK
  <2>2. LocksOK'
    BY DEF LocksOK, locks
  <2>3. ClientOK'
    BY DEF ClientOK, client, Respond, Responses, Cmds
  <2>4. LocalsOK'
    BY DEF LocalsOK, locals, Goto, PCs, Ptr, Node
  <2>5. QED
    BY <2>1, <2>2, <2>3, <2>4 DEF TypeOK
<1>22. CASE db_remove_free(t)
  <2> USE <1>22, <1>0 DEF db_remove_free
  <2>1. HeapOK'
    BY DEF HeapOK, heap
  <2>2. LocksOK'
    BY DEF LocksOK, locks
  <2>3. ClientOK'
    BY DEF ClientOK, client, Respond, Responses, Cmds
  <2>4. LocalsOK'
    BY DEF LocalsOK, locals, Goto, PCs, Ptr, Node
  <2>5. QED
    BY <2>1, <2>2, <2>3, <2>4 DEF TypeOK
<1>23. CASE db_remove_unlock_dnode(t)
  <2> USE <1>23, <1>0 DEF db_remove_unlock_dnode
  <2>1. HeapOK'
    BY DEF HeapOK, heap
  <2>2. LocksOK'
    BY LockTyped DEF LocksOK, locks
  <2>3. ClientOK'
    BY DEF ClientOK, client, Respond, Responses, Cmds
  <2>4. LocalsOK'
    BY DEF LocalsOK, locals, Goto, PCs, Ptr, Node
  <2>5. QED
    BY <2>1, <2>2, <2>3, <2>4 DEF TypeOK
<1>24. CASE unlock_parent(t)
  <2> USE <1>24, <1>0 DEF unlock_parent
  <2>1. HeapOK'
    BY DEF HeapOK, heap
  <2>2. LocksOK'
    BY LockTyped DEF LocksOK, locks
  <2>3. ClientOK'
    BY DEF ClientOK, client, Respond, Responses, Cmds
  <2>4. LocalsOK'
    BY DEF LocalsOK, locals, Goto, PCs, Ptr, Node
  <2>5. QED
    BY <2>1, <2>2, <2>3, <2>4 DEF TypeOK
<1>25. QED
  BY <1>1, <1>2, <1>3, <1>4, <1>5, <1>6, <1>7, <1>8, <1>9, <1>10, <1>11, <1>12, <1>13, <1>14, <1>15, <1>16, <1>17, <1>18, <1>19, <1>20, <1>21, <1>22, <1>23, <1>24 DEF Run, Step

------------------------------------------------------------------------------
(* What a step leaves alone *)

\* The commands and locals of every thread but t.
OthersSame(t) ==
    \A u \in Threads \ {t} :
        /\ pc'[u] = pc[u] /\ cmd'[u] = cmd[u] /\ key'[u] = key[u]
        /\ parent'[u] = parent[u] /\ target'[u] = target[u]
        /\ next'[u] = next[u] /\ nextl'[u] = nextl[u] /\ pnext'[u] = pnext[u]
        /\ walked'[u] = walked[u]

\* The locks other threads hold, and in which mode.
OthersHold(t) ==
    \A u \in Threads \ {t} : Holds(u)' = Holds(u) /\ Mode(u)' = Mode(u)

\* A thread writes only its own locals.
LEMMA OnlyOwnLocals ==
    ASSUME TypeOK, NEW t \in Threads, Run(t)
    PROVE  OthersSame(t)
<1> USE DEF OthersSame, TypeOK, ClientOK, LocalsOK, Goto
<1>1. CASE interpret_command(t)
  BY <1>1 DEF interpret_command, client, locals
<1>2. CASE lock_head(t)
  BY <1>2 DEF lock_head, client, locals
<1>3. CASE search(t)
  BY <1>3 DEF search, client, locals
<1>4. CASE search_lock(t)
  BY <1>4 DEF search_lock, client, locals
<1>5. CASE search_compare(t)
  BY <1>5 DEF search_compare, client, locals
<1>6. CASE db_query_hit(t)
  BY <1>6 DEF db_query_hit, client, locals
<1>7. CASE db_query_read(t)
  BY <1>7 DEF db_query_read, client, locals
<1>8. CASE db_query_return(t)
  BY <1>8 DEF db_query_return, client, locals
<1>9. CASE db_query_miss(t)
  BY <1>9 DEF db_query_miss, client, locals
<1>10. CASE db_add_hit(t)
  BY <1>10 DEF db_add_hit, client, locals
<1>11. CASE db_add_miss(t)
  BY <1>11 DEF db_add_miss, client, locals
<1>12. CASE db_remove_miss(t)
  BY <1>12 DEF db_remove_miss, client, locals
<1>13. CASE db_remove_splice(t)
  BY <1>13 DEF db_remove_splice, client, locals
<1>14. CASE db_remove_splice_unlock(t)
  BY <1>14 DEF db_remove_splice_unlock, client, locals
<1>15. CASE db_remove_splice_free(t)
  BY <1>15 DEF db_remove_splice_free, client, locals
<1>16. CASE db_remove_two(t)
  BY <1>16 DEF db_remove_two, client, locals
<1>17. CASE db_remove_walk(t)
  BY <1>17 DEF db_remove_walk, client, locals
<1>18. CASE db_remove_walk_lock(t)
  BY <1>18 DEF db_remove_walk_lock, client, locals
<1>19. CASE db_remove_walk_unlock(t)
  BY <1>19 DEF db_remove_walk_unlock, client, locals
<1>20. CASE db_remove_copy(t)
  BY <1>20 DEF db_remove_copy, client, locals
<1>21. CASE db_remove_unlink(t)
  BY <1>21 DEF db_remove_unlink, client, locals
<1>22. CASE db_remove_free(t)
  BY <1>22 DEF db_remove_free, client, locals
<1>23. CASE db_remove_unlock_dnode(t)
  BY <1>23 DEF db_remove_unlock_dnode, client, locals
<1>24. CASE unlock_parent(t)
  BY <1>24 DEF unlock_parent, client, locals
<1>25. QED
  BY <1>1, <1>2, <1>3, <1>4, <1>5, <1>6, <1>7, <1>8, <1>9, <1>10, <1>11, <1>12, <1>13, <1>14, <1>15, <1>16, <1>17, <1>18, <1>19, <1>20, <1>21, <1>22, <1>23, <1>24 DEF Run, Step

\* While no thread detaches or frees a node the tree keeps its nodes.
LEMMA SameLinked ==
    ASSUME NEW t \in Threads, OthersSame(t), alive' = alive,
           \A n \in Node : DetachedBy(t, n)' <=> DetachedBy(t, n)
    PROVE  \A n \in Node : Linked(n)' <=> Linked(n)
<1>1. \A u \in Threads, n \in Node : DetachedBy(u, n)' <=> DetachedBy(u, n)
  BY DEF OthersSame, DetachedBy
<1>2. QED
  BY <1>1 DEF Linked

\* Where the tree does not change, neither do the facts about other threads.
LEMMA QuietTree ==
    ASSUME IInv, NEW t \in Threads, OthersSame(t), TypeOK',
           name' = name, lchild' = lchild, rchild' = rchild,
           \A n \in Node : Linked(n)' <=> Linked(n),
           \A u \in Threads \ {t}, n \in Node : DetachedBy(u, n) => n \in alive'
    PROVE  /\ TreeShape'
           /\ Acyclic => Acyclic'
           /\ OthersHold(t)
           /\ \A u \in Threads \ {t} : PcCmd(u)' /\ SearchPos(u)' /\ WalkPos(u)'
<1> USE DEF IInv
<1>1. \A p \in Node : /\ lchild[p] # NULL => lchild[p] \in Node
                      /\ rchild[p] # NULL => rchild[p] \in Node
  BY DEF TypeOK, HeapOK, Node, Ptr
<1>2. TreeShape'
  BY <1>1 DEF TreeShape
<1>3. Acyclic => Acyclic'
  BY DEF Acyclic, Descends
<1>4. OthersHold(t)
  BY DEF OthersHold, OthersSame, Holds, HoldsParent, HoldsTarget, HoldsRchild, Mode
<1>5. ASSUME NEW u \in Threads \ {t}
      PROVE  PcCmd(u)' /\ SearchPos(u)' /\ WalkPos(u)'
  <2>1. PcCmd(u)'
    BY <1>5 DEF OthersSame, PcCmd
  <2>2. SearchPos(u)'
    <3>1. HoldsTarget(u) => target[u] \in Node
      BY Pointers DEF Node
    <3>2. parent[u] \in Node
      BY DEF TypeOK, LocalsOK
    <3>3. SearchPos(u)
      OBVIOUS
    <3>4. QED
      BY <3>1, <3>2, <3>3 DEF OthersSame, SearchPos, HoldsParent, HoldsTarget, child
  <2>3. WalkPos(u)'
    <3>1. \A n \in walked[u] : n \in Node
      BY DEF TypeOK, LocalsOK, Node
    <3>2. \A n \in Node : DetachedBy(u, n)' <=> DetachedBy(u, n)
      BY DEF OthersSame, DetachedBy
    <3>3. WalkPos(u)
      OBVIOUS
    <3>4. QED
      BY <3>1, <3>2, <3>3 DEF OthersSame, WalkPos, Walking
  <2>4. QED
    BY <2>1, <2>2, <2>3
<1>6. QED
  BY <1>2, <1>3, <1>4, <1>5

------------------------------------------------------------------------------
(* How a step changes the locks *)

\* Only readers share a node.
LEMMA Exclusive ==
    ASSUME IInv, NEW t \in Threads, NEW u \in Threads, t # u,
           NEW n \in Node, n \in Holds(t), n \in Holds(u)
    PROVE  Mode(t) = "l_read" /\ Mode(u) = "l_read"
BY DEF IInv, LockDiscipline, Mode

LEMMA KeepLocks ==
    ASSUME IInv, NEW t \in Threads, OthersHold(t), UNCHANGED locks,
           Holds(t)' = Holds(t), Mode(t)' = Mode(t) \/ Holds(t) = {}
    PROVE  LockDiscipline'
BY DEF IInv, LockDiscipline, OthersHold, locks

LEMMA TakeLock ==
    ASSUME IInv, NEW t \in Threads, OthersHold(t), NEW n \in Node, lock(t, n),
           Holds(t)' = Holds(t) \cup {n}, Mode(t)' = Mode(t)
    PROVE  LockDiscipline'
<1> SUFFICES ASSUME NEW m \in Node, NEW u \in Threads
             PROVE  /\ writer'[m] = u <=> m \in Holds(u)' /\ Mode(u)' = "l_write"
                    /\ u \in readers'[m] <=> m \in Holds(u)' /\ Mode(u)' = "l_read"
                    /\ writer'[m] = u => readers'[m] = {}
  BY DEF LockDiscipline
<1>1. /\ writer[m] = u <=> m \in Holds(u) /\ Mode(u) = "l_write"
      /\ u \in readers[m] <=> m \in Holds(u) /\ Mode(u) = "l_read"
      /\ writer[m] = u => readers[m] = {}
  BY DEF IInv, LockDiscipline
<1>2. LocksOK /\ u # NULL /\ t # NULL
  BY ConstAssumption DEF IInv, TypeOK
<1>3. CASE Mode(t) = "l_read"
  BY <1>1, <1>2, <1>3 DEF lock, OthersHold, LocksOK
<1>4. CASE Mode(t) = "l_write"
  BY <1>1, <1>2, <1>4 DEF lock, OthersHold, LocksOK
<1>5. QED
  BY <1>3, <1>4 DEF Mode

LEMMA DropLock ==
    ASSUME IInv, NEW t \in Threads, OthersHold(t), NEW n \in Node, unlock(t, n),
           Holds(t)' = Holds(t) \ {n}, Mode(t)' = Mode(t)
    PROVE  LockDiscipline'
<1> SUFFICES ASSUME NEW m \in Node, NEW u \in Threads
             PROVE  /\ writer'[m] = u <=> m \in Holds(u)' /\ Mode(u)' = "l_write"
                    /\ u \in readers'[m] <=> m \in Holds(u)' /\ Mode(u)' = "l_read"
                    /\ writer'[m] = u => readers'[m] = {}
  BY DEF LockDiscipline
<1>1. /\ writer[m] = u <=> m \in Holds(u) /\ Mode(u) = "l_write"
      /\ u \in readers[m] <=> m \in Holds(u) /\ Mode(u) = "l_read"
      /\ writer[m] = u => readers[m] = {}
  BY DEF IInv, LockDiscipline
<1>2. LocksOK /\ u # NULL /\ t # NULL
  BY ConstAssumption DEF IInv, TypeOK
<1>3. QED
  BY <1>1, <1>2 DEF unlock, OthersHold, LocksOK

\* Only the pairs of threads with t need a look.
LEMMA OthersPrivate ==
    ASSUME IInv, NEW t \in Threads, OthersSame(t), OthersHold(t),
           \A u \in Threads \ {t} : Private(t, u)' /\ Private(u, t)'
    PROVE  \A a, b \in Threads : a # b => Private(a, b)'
<1>1. \A u \in Threads \ {t}, n \in Node : DetachedBy(u, n)' <=> DetachedBy(u, n)
  BY DEF OthersSame, DetachedBy
<1>2. ASSUME NEW a \in Threads \ {t}, NEW b \in Threads \ {t}, a # b
      PROVE  Private(a, b)'
  <2>1. Private(a, b)
    BY <1>2 DEF IInv
  <2>2. /\ walked'[a] = walked[a] /\ walked'[b] = walked[b]
        /\ Holds(b)' = Holds(b)
    BY DEF OthersHold, OthersSame
  <2>3. QED
    BY <1>1, <2>1, <2>2 DEF Private
<1>3. QED
  BY <1>2

\* Nothing new is owned: the private nodes stay private.
LEMMA OwnLess ==
    ASSUME IInv, NEW t \in Threads, OthersSame(t), OthersHold(t),
           Holds(t)' \subseteq Holds(t), walked'[t] \subseteq walked[t],
           \A n \in Node : DetachedBy(t, n)' => DetachedBy(t, n)
    PROVE  \A a, b \in Threads : a # b => Private(a, b)'
<1>1. \A u \in Threads \ {t}, n \in Node : DetachedBy(u, n)' <=> DetachedBy(u, n)
  BY DEF OthersSame, DetachedBy
<1>2. QED
  BY <1>1 DEF IInv, Private, OthersHold, OthersSame

\* A node that is locked newly is private to nobody else.
LEMMA OwnMore ==
    ASSUME IInv, NEW t \in Threads, OthersSame(t), OthersHold(t),
           NEW n \in Node, Holds(t)' = Holds(t) \cup {n},
           \A u \in Threads \ {t} : n \notin walked[u] /\ ~DetachedBy(u, n),
           walked'[t] = walked[t],
           \A m \in Node : DetachedBy(t, m)' => DetachedBy(t, m)
    PROVE  \A a, b \in Threads : a # b => Private(a, b)'
<1>1. \A u \in Threads \ {t}, m \in Node : DetachedBy(u, m)' <=> DetachedBy(u, m)
  BY DEF OthersSame, DetachedBy
<1>2. QED
  BY <1>1 DEF IInv, Private, OthersHold, OthersSame

------------------------------------------------------------------------------
(* Steps that leave the tree alone *)

\* What is left to show of a step that neither writes nor frees a node.
LEMMA QuietStep ==
    ASSUME Inv, NEW t \in Threads, Run(t), heap' = heap,
           \A n \in Node : DetachedBy(t, n)' <=> DetachedBy(t, n)
    PROVE  /\ OthersSame(t) /\ OthersHold(t)
           /\ \A n \in Node : Linked(n)' <=> Linked(n)
           /\ /\ PcCmd(t)' /\ SearchPos(t)' /\ WalkPos(t)'
              /\ LockDiscipline'
              /\ \A a, b \in Threads : a # b => Private(a, b)'
              => Inv'
<1> USE DEF Inv, heap
<1>1. TypeOK'
  BY TypeStep
<1>2. OthersSame(t)
  BY OnlyOwnLocals DEF IInv
<1>3. \A n \in Node : Linked(n)' <=> Linked(n)
  BY <1>2, SameLinked
<1>4. \A u \in Threads \ {t}, n \in Node : DetachedBy(u, n) => n \in alive'
  BY DEF IInv, WalkPos
<1>5. /\ TreeShape' /\ (Acyclic => Acyclic') /\ OthersHold(t)
      /\ \A u \in Threads \ {t} : PcCmd(u)' /\ SearchPos(u)' /\ WalkPos(u)'
  BY <1>1, <1>2, <1>3, <1>4, QuietTree
<1>6. QED
  BY <1>1, <1>2, <1>3, <1>5 DEF IInv

\* Steps that take and release no lock.
LEMMA PlainStep ==
    ASSUME Inv, NEW t \in Threads, heap' = heap, UNCHANGED locks,
           \/ interpret_command(t) \/ search(t) \/ db_query_read(t)
           \/ db_query_miss(t) \/ db_remove_miss(t)
    PROVE  Inv'
<1>1. Run(t) /\ TypeOK /\ PcCmd(t) /\ SearchPos(t) /\ WalkPos(t) /\ TreeShape
  BY DEF Run, Step, Inv, IInv
<1>2. /\ parent'[t] = parent[t] /\ next'[t] = next[t] /\ nextl'[t] = nextl[t]
      /\ pnext'[t] = pnext[t] /\ walked'[t] = walked[t]
      /\ pc[t] # "search" => target'[t] = target[t]
  BY DEF interpret_command, search, db_query_read, db_query_miss,
         db_remove_miss, locals
<1>3. \/ pc[t] = "idle" /\ pc'[t] = "lock_head"
      \/ /\ pc[t] # "idle" /\ cmd'[t] = cmd[t] /\ key'[t] = key[t]
         /\ \/ /\ pc[t] = "search" /\ target'[t] = child(parent[t], key[t])
               /\ \/ target'[t] = NULL /\ pc'[t] = "miss"
                  \/ target'[t] # NULL /\ pc'[t] = "lock_next"
            \/ pc[t] = "query_read" /\ pc'[t] = "unlock_target"
            \/ pc[t] = "miss" /\ pc'[t] = "unlock_parent"
  <2> USE <1>1 DEF TypeOK, LocalsOK, Goto
  <2>1. CASE interpret_command(t)
    BY <2>1 DEF interpret_command
  <2>2. CASE search(t)
    BY <2>2 DEF search, client
  <2>3. CASE db_query_read(t)
    BY <2>3 DEF db_query_read
  <2>4. CASE db_query_miss(t)
    BY <2>4 DEF db_query_miss
  <2>5. CASE db_remove_miss(t)
    BY <2>5 DEF db_remove_miss
  <2>6. QED
    BY <2>1, <2>2, <2>3, <2>4, <2>5
<1>4. \A n \in Node : DetachedBy(t, n)' <=> DetachedBy(t, n)
  BY <1>3 DEF DetachedBy
<1>5. Holds(t)' = Holds(t) /\ (Mode(t)' = Mode(t) \/ Holds(t) = {})
  BY <1>2, <1>3 DEF Holds, HoldsParent, HoldsTarget, HoldsRchild, Mode, heap
<1>6. OthersSame(t) /\ OthersHold(t) /\ \A n \in Node : Linked(n)' <=> Linked(n)
  BY <1>1, <1>4, QuietStep
<1>7. PcCmd(t)' /\ WalkPos(t)'
  BY <1>1, <1>2, <1>3 DEF PcCmd, WalkPos, Walking, DetachedBy
<1>8. SearchPos(t)'
  <2>1. parent[t] \in Node /\ (HoldsTarget(t) => target[t] \in Node)
    BY <1>1, Pointers DEF TypeOK, LocalsOK, Node, Inv
  <2>2. QED
    BY <1>1, <1>2, <1>3, <1>6, <2>1
       DEF SearchPos, HoldsParent, HoldsTarget, child, heap
<1>9. LockDiscipline'
  BY <1>5, <1>6, KeepLocks DEF Inv
<1>10. \A a, b \in Threads : a # b => Private(a, b)'
  BY <1>2, <1>4, <1>5, <1>6, OwnLess DEF Inv
<1>11. QED
  BY <1>1, <1>4, <1>7, <1>8, <1>9, <1>10, QuietStep

\* What is left to show of a step that only releases a lock.
LEMMA UnlockStep ==
    ASSUME Inv, NEW t \in Threads, Run(t), heap' = heap,
           NEW n \in Node, unlock(t, n), Holds(t)' = Holds(t) \ {n},
           cmd'[t] = cmd[t], walked'[t] = walked[t],
           \A m \in Node : DetachedBy(t, m)' <=> DetachedBy(t, m),
           PcCmd(t)' /\ SearchPos(t)' /\ WalkPos(t)'
    PROVE  Inv'
<1>1. OthersSame(t) /\ OthersHold(t)
  BY QuietStep
<1>2. LockDiscipline'
  BY <1>1, DropLock DEF Inv, Mode
<1>3. \A a, b \in Threads : a # b => Private(a, b)'
  BY <1>1, OwnLess DEF Inv
<1>4. QED
  BY <1>2, <1>3, QuietStep

\* Steps that release the lock of parent or target and touch nothing else.
LEMMA PlainUnlock ==
    ASSUME Inv, NEW t \in Threads, heap' = heap,
           \/ db_query_hit(t) \/ db_query_return(t) \/ db_add_hit(t)
           \/ db_remove_splice_unlock(t) \/ db_remove_unlock_dnode(t)
           \/ unlock_parent(t)
    PROVE  Inv'
<1>1. Run(t) /\ TypeOK /\ PcCmd(t) /\ SearchPos(t) /\ WalkPos(t)
  BY DEF Run, Step, Inv, IInv
<1>2. /\ UNCHANGED locals
      /\ cmd'[t] = cmd[t] /\ key'[t] = key[t]
      /\ \/ pc[t] = "hit" /\ pc'[t] = "query_read" /\ cmd[t] = "q"
            /\ unlock(t, parent[t])
         \/ pc[t] = "unlock_target" /\ pc'[t] = "idle" /\ unlock(t, target[t])
         \/ pc[t] = "hit" /\ pc'[t] = "unlock_parent" /\ unlock(t, target[t])
         \/ pc[t] = "splice_unlock" /\ pc'[t] = "splice_free" /\ unlock(t, target[t])
         \/ pc[t] = "unlock_dnode" /\ pc'[t] = "unlock_parent" /\ unlock(t, target[t])
         \/ pc[t] = "unlock_parent" /\ pc'[t] = "idle" /\ unlock(t, parent[t])
  <2> USE <1>1 DEF TypeOK, LocalsOK, Goto, client
  <2>1. CASE db_query_hit(t)
    BY <2>1 DEF db_query_hit
  <2>2. CASE db_query_return(t)
    BY <2>2 DEF db_query_return
  <2>3. CASE db_add_hit(t)
    BY <2>3 DEF db_add_hit
  <2>4. CASE db_remove_splice_unlock(t)
    BY <2>4 DEF db_remove_splice_unlock
  <2>5. CASE db_remove_unlock_dnode(t)
    BY <2>5 DEF db_remove_unlock_dnode
  <2>6. CASE unlock_parent(t)
    BY <2>6 DEF unlock_parent
  <2>7. QED
    BY <2>1, <2>2, <2>3, <2>4, <2>5, <2>6
<1>3. \A n \in Node : DetachedBy(t, n)' <=> DetachedBy(t, n)
  BY <1>2 DEF DetachedBy, locals
<1>4. /\ parent[t] \in Node
      /\ HoldsTarget(t) => target[t] \in Node
      /\ \A n \in Node : Linked(n)' <=> Linked(n)
  BY <1>1, <1>3, Pointers, QuietStep DEF TypeOK, LocalsOK, Node, Inv
<1>5. PcCmd(t)' /\ WalkPos(t)'
  BY <1>1, <1>2 DEF PcCmd, WalkPos, Walking, DetachedBy, locals, heap
<1>6. SearchPos(t)'
  BY <1>1, <1>2, <1>4 DEF SearchPos, HoldsParent, HoldsTarget, locals, heap
<1>7. ASSUME NEW n \in Node, unlock(t, n), Holds(t)' = Holds(t) \ {n}
      PROVE  Inv'
  BY <1>1, <1>2, <1>3, <1>5, <1>6, <1>7, UnlockStep DEF locals
<1>8. CASE unlock(t, parent[t]) /\ Holds(t)' = Holds(t) \ {parent[t]}
  BY <1>4, <1>7, <1>8
<1>9. CASE HoldsTarget(t) /\ unlock(t, target[t]) /\ Holds(t)' = Holds(t) \ {target[t]}
  BY <1>4, <1>7, <1>9
<1>10. \/ unlock(t, parent[t]) /\ Holds(t)' = Holds(t) \ {parent[t]}
       \/ HoldsTarget(t) /\ unlock(t, target[t])
          /\ Holds(t)' = Holds(t) \ {target[t]}
  BY <1>1, <1>2 DEF SearchPos, Holds, HoldsParent, HoldsTarget, HoldsRchild,
                    locals, heap
<1>11. QED
  BY <1>8, <1>9, <1>10

\* search goes on at the child, or stops because the name matches.
LEMMA CompareStep ==
    ASSUME Inv, NEW t \in Threads, search_compare(t)
    PROVE  Inv'
<1>1. Run(t) /\ TypeOK /\ PcCmd(t) /\ SearchPos(t) /\ WalkPos(t)
  BY DEF Run, Step, Inv, IInv
<1>2. /\ heap' = heap /\ pc[t] = "compare" /\ cmd'[t] = cmd[t] /\ key'[t] = key[t]
      /\ target'[t] = target[t] /\ walked'[t] = walked[t]
      /\ pc'[t] \in {"hit", "search"}
  BY <1>1 DEF search_compare, client, Goto, TypeOK, LocalsOK
<1>3. \A n \in Node : DetachedBy(t, n)' <=> DetachedBy(t, n)
  BY <1>2 DEF DetachedBy
<1>4. /\ parent[t] \in Node /\ target[t] \in Node /\ parent[t] # target[t]
      /\ Linked(target[t])
  BY <1>1, <1>2, Pointers
     DEF TypeOK, LocalsOK, Node, Inv, SearchPos, HoldsParent, HoldsTarget
<1>5. OthersSame(t) /\ OthersHold(t) /\ \A n \in Node : Linked(n)' <=> Linked(n)
  BY <1>1, <1>2, <1>3, QuietStep
<1>6. PcCmd(t)' /\ WalkPos(t)'
  BY <1>1, <1>2 DEF PcCmd, WalkPos, Walking, DetachedBy
<1>7. CASE name[target[t]] = key[t]
  <2>1. parent'[t] = parent[t] /\ pc'[t] = "hit" /\ UNCHANGED locks
    BY <1>1, <1>7 DEF search_compare, Goto, TypeOK, LocalsOK
  <2>2. SearchPos(t)'
    BY <1>1, <1>2, <1>4, <1>5, <1>7, <2>1
       DEF SearchPos, HoldsParent, HoldsTarget, child, heap
  <2>3. Holds(t)' = Holds(t) /\ Mode(t)' = Mode(t)
    BY <1>2, <2>1 DEF Holds, HoldsParent, HoldsTarget, HoldsRchild, Mode
  <2>4. LockDiscipline'
    BY <1>5, <2>1, <2>3, KeepLocks DEF Inv
  <2>5. \A a, b \in Threads : a # b => Private(a, b)'
    BY <1>2, <1>3, <1>5, <2>3, OwnLess DEF Inv
  <2>6. QED
    BY <1>1, <1>2, <1>3, <1>6, <2>2, <2>4, <2>5, QuietStep
<1>8. CASE name[target[t]] # key[t]
  <2>1. parent'[t] = target[t] /\ pc'[t] = "search" /\ unlock(t, parent[t])
    BY <1>1, <1>8 DEF search_compare, Goto, TypeOK, LocalsOK
  <2>2. SearchPos(t)'
    BY <1>4, <1>5, <2>1 DEF SearchPos, HoldsParent, HoldsTarget
  <2>3. Holds(t)' = Holds(t) \ {parent[t]}
    BY <1>2, <1>4, <2>1 DEF Holds, HoldsParent, HoldsTarget, HoldsRchild
  <2>4. QED
    BY <1>1, <1>2, <1>3, <1>4, <1>6, <2>1, <2>2, <2>3, UnlockStep
<1>9. QED
  BY <1>7, <1>8

\* A child of a node that t owns or has walked over is in nobody else's spine:
\* it has no second parent there.
LEMMA NotTheirs ==
    ASSUME Inv, NEW t \in Threads, NEW u \in Threads, t # u,
           NEW q \in Node, q \in Holds(t) \cup walked[t], Linked(q),
           NEW n \in Cells, n = lchild[q] \/ n = rchild[q]
    PROVE  Linked(n) /\ n \notin walked[u] /\ ~DetachedBy(u, n)
<1> USE DEF Inv, IInv
<1>1. n # NULL /\ n \in Node
  BY ConstAssumption DEF Node
<1>2. Linked(n)
  BY <1>1 DEF TreeShape
<1>3. q \notin walked[u]
  BY DEF Private
<1>4. ASSUME Walking(u)
      PROVE  target[u] \in Node /\ Linked(target[u]) /\ q # target[u]
  <2>1. target[u] \in Node /\ target[u] \in Holds(u) /\ Linked(target[u])
    BY <1>4, Pointers DEF Walking, HoldsTarget, Holds, SearchPos, Node
  <2>2. Mode(u) = "l_write"
    BY <1>4 DEF Walking, PcCmd, Mode
  <2>3. CASE q \in Holds(t)
    BY <2>1, <2>2, <2>3, Exclusive
  <2>4. CASE q \in walked[t]
    BY <2>1, <2>4 DEF Private
  <2>5. QED
    BY <2>1, <2>3, <2>4
<1>5. ASSUME n \in walked[u]
      PROVE  FALSE
  <2>1. Walking(u) /\ WalkPos(u) /\ \A m \in walked[u] : m \in Node
    BY <1>5 DEF WalkPos, TypeOK, LocalsOK, Node
  <2>2. CASE n = rchild[target[u]]
    BY <1>1, <1>4, <2>1, <2>2 DEF TreeShape
  <2>3. CASE \E m \in walked[u] : lchild[m] = n
    <3>1. PICK m \in walked[u] : lchild[m] = n
      BY <2>3
    <3>2. m \in Node /\ Linked(m) /\ m # q
      BY <1>3, <2>1, <3>1 DEF WalkPos
    <3>3. QED
      BY <1>1, <3>1, <3>2 DEF TreeShape
  <2>4. QED
    BY <1>5, <2>1, <2>2, <2>3 DEF WalkPos
<1>6. QED
  BY <1>1, <1>2, <1>5 DEF Linked

\* lock_head and the lock of search.
LEMMA SearchLockStep ==
    ASSUME Inv, NEW t \in Threads, lock_head(t) \/ search_lock(t)
    PROVE  Inv'
<1>1. Run(t) /\ TypeOK /\ PcCmd(t) /\ SearchPos(t) /\ WalkPos(t) /\ TreeShape
  BY DEF Run, Step, Inv, IInv
<1>2. /\ heap' = heap /\ cmd'[t] = cmd[t] /\ key'[t] = key[t]
      /\ target'[t] = target[t] /\ walked'[t] = walked[t]
      /\ \/ pc[t] = "lock_head" /\ pc'[t] = "search" /\ parent'[t] = head
            /\ lock(t, head)
         \/ pc[t] = "lock_next" /\ pc'[t] = "compare" /\ parent'[t] = parent[t]
            /\ lock(t, target[t])
  <2> USE <1>1 DEF TypeOK, LocalsOK, Goto, client, locals
  <2>1. CASE lock_head(t)
    BY <2>1 DEF lock_head
  <2>2. CASE search_lock(t)
    BY <2>2 DEF search_lock
  <2>3. QED
    BY <2>1, <2>2
<1>3. \A n \in Node : DetachedBy(t, n)' <=> DetachedBy(t, n)
  BY <1>2 DEF DetachedBy
<1>4. OthersSame(t) /\ OthersHold(t) /\ \A n \in Node : Linked(n)' <=> Linked(n)
  BY <1>1, <1>2, <1>3, QuietStep
<1>5. PcCmd(t)' /\ WalkPos(t)' /\ Mode(t)' = Mode(t)
  BY <1>1, <1>2 DEF PcCmd, WalkPos, Walking, DetachedBy, Mode
<1>6. ASSUME NEW n \in Node, lock(t, n), Holds(t)' = Holds(t) \cup {n},
             SearchPos(t)',
             \A u \in Threads \ {t} : n \notin walked[u] /\ ~DetachedBy(u, n)
      PROVE  Inv'
  <2>1. LockDiscipline'
    BY <1>4, <1>5, <1>6, TakeLock DEF Inv
  <2>2. \A a, b \in Threads : a # b => Private(a, b)'
    BY <1>2, <1>3, <1>4, <1>6, OwnMore DEF Inv
  <2>3. QED
    BY <1>1, <1>2, <1>3, <1>5, <1>6, <2>1, <2>2, QuietStep
<1>7. CASE pc[t] = "lock_head"
  <2>1. head \in Node /\ \A u \in Threads : head \notin walked[u] /\ ~DetachedBy(u, head)
    BY <1>1, ConstAssumption DEF TypeOK, LocalsOK, Node, Ptr, DetachedBy
  <2>2. Linked(head)
    BY <2>1 DEF Linked
  <2>3. SearchPos(t)'
    BY <1>2, <1>4, <1>7, <2>1, <2>2 DEF SearchPos, HoldsParent, HoldsTarget
  <2>4. Holds(t)' = Holds(t) \cup {head}
    BY <1>2, <1>7, <2>1 DEF Holds, HoldsParent, HoldsTarget, HoldsRchild
  <2>5. QED
    BY <1>2, <1>6, <1>7, <2>1, <2>3, <2>4
<1>8. CASE pc[t] = "lock_next"
  <2>1. /\ parent[t] \in Node /\ target[t] \in Cells /\ target[t] \in Node
        /\ parent[t] \in Holds(t) /\ Linked(parent[t])
        /\ target[t] = lchild[parent[t]] \/ target[t] = rchild[parent[t]]
    BY <1>1, <1>8, Pointers
       DEF TypeOK, LocalsOK, Node, Inv, SearchPos, HoldsParent, Holds, child
  <2>2. \A u \in Threads \ {t} : target[t] \notin walked[u] /\ ~DetachedBy(u, target[t])
    BY <2>1, NotTheirs
  <2>3. Linked(target[t]) /\ target[t] # NULL
    BY <1>1, <2>1, ConstAssumption DEF TreeShape
  <2>4. target[t] # parent[t]
    <3>1. PICK r \in [Node -> Nat] : Descends(r)
      BY DEF Inv, Acyclic
    <3>2. r[parent[t]] < r[target[t]]
      BY <2>1, <2>3, <3>1 DEF Descends
    <3>3. QED
      BY <2>1, <3>2
  <2>5. SearchPos(t)'
    BY <1>1, <1>2, <1>4, <1>8, <2>1, <2>3, <2>4
       DEF SearchPos, HoldsParent, HoldsTarget, child, heap
  <2>6. Holds(t)' = Holds(t) \cup {target[t]}
    BY <1>2, <1>8, <2>1 DEF Holds, HoldsParent, HoldsTarget, HoldsRchild
  <2>7. QED
    BY <1>2, <1>6, <1>8, <2>1, <2>2, <2>5, <2>6
<1>9. QED
  BY <1>2, <1>7, <1>8

------------------------------------------------------------------------------
(* The walk of db_remove down the left spine *)

\* What a walking thread owns.
LEMMA Walker ==
    ASSUME Inv, NEW t \in Threads, Walking(t)
    PROVE  /\ parent[t] \in Node /\ parent[t] \in Holds(t) /\ Linked(parent[t])
           /\ target[t] \in Cells /\ target[t] \in Node /\ target[t] \in Holds(t)
           /\ Linked(target[t]) /\ parent[t] # target[t]
           /\ rchild[target[t]] \in Cells /\ next[t] \in Cells /\ pnext[t] \in Cells
           /\ walked[t] \subseteq Node /\ next[t] \in Node /\ Linked(next[t])
           /\ cmd[t] = "d" /\ Mode(t) = "l_write"
<1>1. TypeOK /\ PcCmd(t) /\ SearchPos(t) /\ WalkPos(t)
  BY DEF Inv, IInv
<1>2. HoldsParent(t) /\ HoldsTarget(t)
  BY DEF Walking, HoldsParent, HoldsTarget
<1>3. parent[t] \in Node /\ target[t] \in Cells /\ target[t] \in Node
  BY <1>1, <1>2, Pointers DEF TypeOK, LocalsOK, Node, Inv
<1>4. /\ parent[t] \in Holds(t) /\ target[t] \in Holds(t)
      /\ Linked(parent[t]) /\ Linked(target[t]) /\ parent[t] # target[t]
  BY <1>1, <1>2, <1>3 DEF Holds, SearchPos, Walking
<1>5. rchild[target[t]] \in Cells /\ next[t] \in Cells /\ pnext[t] \in Cells
  BY Pointers DEF Inv
<1>6. walked[t] \subseteq Node /\ next[t] \in Node /\ Linked(next[t])
  BY <1>1, <1>5 DEF TypeOK, LocalsOK, Node, WalkPos
<1>7. cmd[t] = "d" /\ Mode(t) = "l_write"
  BY <1>1 DEF PcCmd, Walking, Mode
<1>8. QED
  BY <1>3, <1>4, <1>5, <1>6, <1>7

\* Entering the two-children case.
LEMMA TwoStep ==
    ASSUME Inv, NEW t \in Threads, db_remove_two(t)
    PROVE  Inv'
<1> DEFINE d == target[t]
           c == rchild[d]
<1>1. Run(t) /\ TypeOK /\ PcCmd(t) /\ SearchPos(t) /\ WalkPos(t) /\ TreeShape
  BY DEF Run, Step, Inv, IInv
<1>2. /\ heap' = heap /\ cmd'[t] = cmd[t] /\ key'[t] = key[t] /\ cmd[t] = "d"
      /\ target'[t] = d /\ parent'[t] = parent[t]
      /\ pc[t] = "hit" /\ pc'[t] = "walk" /\ lock(t, c) /\ c # NULL
      /\ next'[t] = c /\ pnext'[t] = d /\ walked'[t] = {c}
  BY <1>1 DEF db_remove_two, client, Goto, TypeOK, LocalsOK
<1>3. /\ parent[t] \in Node /\ d \in Cells /\ d \in Node /\ parent[t] # d
      /\ parent[t] \in Holds(t) /\ d \in Holds(t)
      /\ Linked(parent[t]) /\ Linked(d)
  BY <1>1, <1>2, Pointers
     DEF TypeOK, LocalsOK, Node, Inv, SearchPos, HoldsParent, HoldsTarget, Holds
<1>4. c \in Cells /\ c \in Node /\ Linked(c)
  BY <1>1, <1>2, <1>3 DEF TypeOK, HeapOK, Node, Ptr, TreeShape
<1>5. Mode(t) = "l_write" /\ Mode(t)' = "l_write"
  BY <1>2 DEF Mode
\* the lock was free, so c is none of the nodes a thread holds
<1>6. \A u \in Threads : c \notin Holds(u)
  <2>1. writer[c] = NULL /\ readers[c] = {}
    BY <1>2, <1>5 DEF lock
  <2>2. QED
    BY <1>4, <2>1, ConstAssumption DEF Inv, IInv, LockDiscipline, Mode
<1>7. c # parent[t] /\ c # d
  BY <1>3, <1>6
<1>8. \A n \in Node : DetachedBy(t, n)' <=> DetachedBy(t, n)
  BY <1>2 DEF DetachedBy
<1>9. OthersSame(t) /\ OthersHold(t) /\ \A n \in Node : Linked(n)' <=> Linked(n)
  BY <1>1, <1>2, <1>8, QuietStep
<1>10. PcCmd(t)'
  BY <1>2 DEF PcCmd
<1>11. SearchPos(t)'
  BY <1>2, <1>3, <1>9, ConstAssumption DEF SearchPos, HoldsParent, HoldsTarget
<1>12. WalkPos(t)'
  BY <1>2, <1>4, <1>7, <1>9 DEF WalkPos, Walking, DetachedBy, heap
<1>13. Holds(t)' = Holds(t) \cup {c}
  BY <1>2, <1>3, <1>4 DEF Holds, HoldsParent, HoldsTarget, HoldsRchild, heap
<1>14. LockDiscipline'
  BY <1>2, <1>4, <1>5, <1>9, <1>13, TakeLock DEF Inv
<1>15. \A u \in Threads \ {t} : c \notin walked[u] /\ ~DetachedBy(u, c)
  BY <1>3, <1>4, NotTheirs
<1>16. \A a, b \in Threads : a # b => Private(a, b)'
  <2>1. \A u \in Threads \ {t}, n \in Node : DetachedBy(u, n)' <=> DetachedBy(u, n)
    BY <1>9 DEF OthersSame, DetachedBy
  <2>2. \A a, b \in Threads : a # b => Private(a, b)
    BY DEF Inv, IInv
  <2>3. ASSUME NEW u \in Threads \ {t}
        PROVE  Private(t, u)' /\ Private(u, t)'
    <3>1. /\ walked'[u] = walked[u] /\ Holds(u)' = Holds(u)
          /\ Private(t, u) /\ Private(u, t)
      BY <1>9, <2>2 DEF OthersHold, OthersSame
    <3>2. Private(t, u)'
      BY <1>2, <1>6, <1>8, <1>15, <2>1, <3>1 DEF Private
    <3>3. Private(u, t)'
      BY <1>2, <1>8, <1>13, <1>15, <2>1, <3>1 DEF Private
    <3>4. QED
      BY <3>2, <3>3
  <2>4. QED
    BY <1>9, <2>3, OthersPrivate DEF Inv
<1>17. QED
  BY <1>1, <1>2, <1>8, <1>10, <1>11, <1>12, <1>14, <1>16, QuietStep

\* The test of the while loop: down one more node, or done.
LEMMA WalkStep ==
    ASSUME Inv, NEW t \in Threads, db_remove_walk(t)
    PROVE  Inv'
<1> DEFINE c == rchild[target[t]]
<1>1. Run(t) /\ TypeOK /\ PcCmd(t) /\ SearchPos(t) /\ WalkPos(t) /\ Walking(t)
  BY DEF Run, Step, Inv, IInv, db_remove_walk, Walking
<1>2. /\ heap' = heap /\ cmd'[t] = cmd[t] /\ key'[t] = key[t]
      /\ target'[t] = target[t] /\ parent'[t] = parent[t] /\ pc[t] = "walk"
      /\ next'[t] = next[t] /\ pnext'[t] = pnext[t] /\ walked'[t] = walked[t]
      /\ \/ /\ lchild[next[t]] # NULL /\ nextl'[t] = lchild[next[t]]
            /\ pc'[t] = "walk_lock" /\ UNCHANGED locks
         \/ pc'[t] = "copy" /\ unlock(t, c)
  BY <1>1 DEF db_remove_walk, client, Goto, TypeOK, LocalsOK
<1>3. \A n \in Node : DetachedBy(t, n)' <=> DetachedBy(t, n)
  BY <1>2 DEF DetachedBy
<1>4. OthersSame(t) /\ OthersHold(t) /\ \A n \in Node : Linked(n)' <=> Linked(n)
  BY <1>1, <1>2, <1>3, QuietStep
<1>5. PcCmd(t)'
  BY <1>1, <1>2 DEF PcCmd
<1>6. SearchPos(t)'
  BY <1>1, <1>2, <1>4, Walker, ConstAssumption DEF SearchPos, HoldsParent, HoldsTarget
<1>7. WalkPos(t)'
  BY <1>1, <1>2, <1>4, Walker DEF WalkPos, Walking, DetachedBy, heap
<1>8. CASE pc'[t] = "walk_lock"
  <2>1. Holds(t)' = Holds(t) /\ Mode(t)' = Mode(t)
    BY <1>2, <1>8 DEF Holds, HoldsParent, HoldsTarget, HoldsRchild, Mode, heap
  <2>2. LockDiscipline'
    BY <1>2, <1>4, <1>8, <2>1, KeepLocks DEF Inv
  <2>3. \A a, b \in Threads : a # b => Private(a, b)'
    BY <1>2, <1>3, <1>4, <2>1, OwnLess DEF Inv
  <2>4. QED
    BY <1>1, <1>2, <1>3, <1>5, <1>6, <1>7, <2>2, <2>3, QuietStep
<1>9. CASE pc'[t] = "copy"
  <2>1. c \in Node /\ c # parent[t] /\ c # target[t]
    BY <1>1, Walker DEF WalkPos, Node
  <2>2. Holds(t)' = Holds(t) \ {c}
    BY <1>2, <1>9, <2>1 DEF Holds, HoldsParent, HoldsTarget, HoldsRchild, heap
  <2>3. QED
    BY <1>1, <1>2, <1>3, <1>5, <1>6, <1>7, <1>9, <2>1, <2>2, UnlockStep
<1>10. QED
  BY <1>2, <1>8, <1>9

\* lock(l_write, &next->lchild->lock)
LEMMA WalkLockStep ==
    ASSUME Inv, NEW t \in Threads, db_remove_walk_lock(t)
    PROVE  Inv'
<1> DEFINE l == nextl[t]
<1>1. /\ Run(t) /\ TypeOK /\ PcCmd(t) /\ SearchPos(t) /\ WalkPos(t) /\ Walking(t)
      /\ TreeShape
  BY DEF Run, Step, Inv, IInv, db_remove_walk_lock, Walking
<1>2. /\ heap' = heap /\ cmd'[t] = cmd[t] /\ key'[t] = key[t] /\ UNCHANGED locals
      /\ pc[t] = "walk_lock" /\ pc'[t] = "walk_unlock" /\ lock(t, l)
  BY <1>1 DEF db_remove_walk_lock, client, Goto, TypeOK, LocalsOK
<1>3. l \in Cells /\ l \in Node /\ l = lchild[next[t]]
  BY <1>1, <1>2, Pointers DEF WalkPos, Node, Inv
<1>4. l \notin Holds(t)
  <2>1. writer[l] = NULL
    BY <1>2 DEF lock
  <2>2. QED
    BY <1>1, <1>3, <2>1, Walker, ConstAssumption DEF Inv, IInv, LockDiscipline
<1>5. rchild[target[t]] \in Holds(t)
  BY <1>1, <1>2, Walker DEF Holds, HoldsRchild, Node
<1>6. \A n \in Node : DetachedBy(t, n)' <=> DetachedBy(t, n)
  BY <1>2 DEF DetachedBy, locals
<1>7. OthersSame(t) /\ OthersHold(t) /\ \A n \in Node : Linked(n)' <=> Linked(n)
  BY <1>1, <1>2, <1>6, QuietStep
<1>8. PcCmd(t)'
  BY <1>1, <1>2 DEF PcCmd
<1>9. SearchPos(t)'
  BY <1>1, <1>2, <1>7, Walker, ConstAssumption
     DEF SearchPos, HoldsParent, HoldsTarget, locals
<1>10. WalkPos(t)'
  BY <1>1, <1>2, <1>4, <1>5, <1>7, Walker DEF WalkPos, Walking, DetachedBy, heap, locals
<1>11. Holds(t)' = Holds(t) \cup {l}
  BY <1>2, <1>3 DEF Holds, HoldsParent, HoldsTarget, HoldsRchild, heap, locals
<1>12. LockDiscipline'
  BY <1>2, <1>3, <1>7, <1>11, TakeLock DEF Inv, Mode
<1>13. \A u \in Threads \ {t} : l \notin walked[u] /\ ~DetachedBy(u, l)
  BY <1>1, <1>3, Walker, NotTheirs DEF WalkPos
<1>14. \A a, b \in Threads : a # b => Private(a, b)'
  BY <1>2, <1>3, <1>6, <1>7, <1>11, <1>13, OwnMore DEF Inv, locals
<1>15. QED
  BY <1>1, <1>2, <1>6, <1>8, <1>9, <1>10, <1>12, <1>14, QuietStep

\* The rest of the loop body: next moves down and its lock is released.
LEMMA WalkUnlockStep ==
    ASSUME Inv, NEW t \in Threads, db_remove_walk_unlock(t)
    PROVE  Inv'
<1> DEFINE l == nextl[t]
<1>1. /\ Run(t) /\ TypeOK /\ PcCmd(t) /\ SearchPos(t) /\ WalkPos(t) /\ Walking(t)
      /\ TreeShape
  BY DEF Run, Step, Inv, IInv, db_remove_walk_unlock, Walking
<1>2. /\ heap' = heap /\ cmd'[t] = cmd[t] /\ key'[t] = key[t]
      /\ target'[t] = target[t] /\ parent'[t] = parent[t]
      /\ pc[t] = "walk_unlock" /\ pc'[t] = "walk"
      /\ l = lchild[next[t]] /\ next'[t] = l /\ pnext'[t] = next[t]
      /\ walked'[t] = walked[t] \cup {l} /\ unlock(t, l)
  BY <1>1 DEF db_remove_walk_unlock, client, Goto, TypeOK, LocalsOK, WalkPos
<1>3. /\ l \in Cells /\ l \in Node /\ l # NULL
      /\ l \notin {parent[t], target[t], rchild[target[t]]}
  BY <1>1, <1>2, Pointers DEF WalkPos, Node, Inv
<1>4. Linked(l)
  BY <1>1, <1>2, <1>3, Walker DEF TreeShape
<1>5. l \in Holds(t)
  BY <1>2, <1>3 DEF Holds
<1>6. \A n \in Node : DetachedBy(t, n)' <=> DetachedBy(t, n)
  BY <1>2 DEF DetachedBy
<1>7. OthersSame(t) /\ OthersHold(t) /\ \A n \in Node : Linked(n)' <=> Linked(n)
  BY <1>1, <1>2, <1>6, QuietStep
<1>8. PcCmd(t)'
  BY <1>1, <1>2 DEF PcCmd
<1>9. SearchPos(t)'
  BY <1>1, <1>2, <1>7, Walker, ConstAssumption DEF SearchPos, HoldsParent, HoldsTarget
<1>10. WalkPos(t)'
  BY <1>1, <1>2, <1>3, <1>4, <1>7, Walker DEF WalkPos, Walking, DetachedBy, heap
<1>11. Holds(t)' = Holds(t) \ {l}
  BY <1>2, <1>3 DEF Holds, HoldsParent, HoldsTarget, HoldsRchild, heap
<1>12. LockDiscipline'
  BY <1>2, <1>3, <1>7, <1>11, DropLock DEF Inv, Mode
\* t still held the lock of l, so l is nobody else's
<1>13. ASSUME NEW u \in Threads \ {t}
       PROVE  l \notin Holds(u) /\ l \notin walked[u]
  <2>1. l \notin Holds(u)
    BY <1>1, <1>3, <1>5, Walker, Exclusive DEF Inv
  <2>2. l \notin walked[u]
    BY <1>5 DEF Inv, IInv, Private
  <2>3. QED
    BY <2>1, <2>2
<1>14. \A a, b \in Threads : a # b => Private(a, b)'
  <2>1. \A u \in Threads \ {t}, n \in Node : DetachedBy(u, n)' <=> DetachedBy(u, n)
    BY <1>7 DEF OthersSame, DetachedBy
  <2>2. \A a, b \in Threads : a # b => Private(a, b)
    BY DEF Inv, IInv
  <2>3. ASSUME NEW u \in Threads \ {t}
        PROVE  Private(t, u)' /\ Private(u, t)'
    <3>1. /\ walked'[u] = walked[u] /\ Holds(u)' = Holds(u)
          /\ Private(t, u) /\ Private(u, t)
      BY <1>7, <2>2 DEF OthersHold, OthersSame
    <3>2. Private(t, u)'
      BY <1>2, <1>6, <1>13, <2>1, <3>1 DEF Private
    <3>3. Private(u, t)'
      BY <1>2, <1>6, <1>11, <1>13, <2>1, <3>1 DEF Private
    <3>4. QED
      BY <3>2, <3>3
  <2>4. QED
    BY <1>7, <2>3, OthersPrivate DEF Inv
<1>15. QED
  BY <1>1, <1>2, <1>6, <1>8, <1>9, <1>10, <1>12, <1>14, QuietStep

------------------------------------------------------------------------------
(* Steps that write or free a node *)

\* What is left to show once the facts about the other threads are in place.
LEMMA Assemble ==
    ASSUME NEW t \in Threads, TypeOK', TreeShape', Acyclic', LockDiscipline',
           \A u \in Threads \ {t} : PcCmd(u)' /\ SearchPos(u)' /\ WalkPos(u)',
           PcCmd(t)' /\ SearchPos(t)' /\ WalkPos(t)',
           \A a, b \in Threads : a # b => Private(a, b)'
    PROVE  Inv'
BY DEF Inv, IInv

\* node_destructor frees a node that only this thread still knows.
LEMMA FreeStep ==
    ASSUME Inv, NEW t \in Threads, db_remove_splice_free(t) \/ db_remove_free(t)
    PROVE  Inv'
<1>1. /\ Run(t) /\ TypeOK /\ PcCmd(t) /\ SearchPos(t) /\ WalkPos(t) /\ IInv
      /\ \A u \in Threads \ {t} : WalkPos(u) /\ Private(t, u)
  BY DEF Run, Step, Inv, IInv
<1>2. PICK f : /\ DetachedBy(t, f) /\ alive' = alive \ {f}
               /\ f = IF pc[t] = "splice_free" THEN target[t] ELSE next[t]
  BY DEF db_remove_splice_free, db_remove_free, DetachedBy
<1>3. /\ name' = name /\ lchild' = lchild /\ rchild' = rchild /\ UNCHANGED locks
      /\ UNCHANGED locals /\ cmd'[t] = cmd[t] /\ key'[t] = key[t]
      /\ \/ pc[t] = "splice_free" /\ pc'[t] = "unlock_parent"
         \/ pc[t] = "free_next" /\ pc'[t] = "unlock_dnode"
  BY <1>1 DEF db_remove_splice_free, db_remove_free, client, Goto, TypeOK, LocalsOK
<1>4. f # head
  BY <1>1, <1>2, ConstAssumption DEF TypeOK, LocalsOK, Ptr
<1>5. TypeOK' /\ OthersSame(t)
  BY <1>1, TypeStep, OnlyOwnLocals
<1>6. \A n \in Node : Linked(n)' <=> Linked(n)
  <2>1. \A u \in Threads \ {t}, n \in Node : DetachedBy(u, n)' <=> DetachedBy(u, n)
    BY <1>5 DEF OthersSame, DetachedBy
  <2>2. \A n \in Node : ~DetachedBy(t, n)' /\ (DetachedBy(t, n) <=> n = f)
    BY <1>2, <1>3 DEF DetachedBy
  <2>3. QED
    BY <1>2, <1>4, <2>1, <2>2 DEF Linked
<1>7. \A u \in Threads \ {t}, n \in Node : DetachedBy(u, n) => n \in alive'
  BY <1>1, <1>2 DEF WalkPos, Private
<1>8. /\ TreeShape' /\ (Acyclic => Acyclic') /\ OthersHold(t)
      /\ \A u \in Threads \ {t} : PcCmd(u)' /\ SearchPos(u)' /\ WalkPos(u)'
  BY <1>1, <1>3, <1>5, <1>6, <1>7, QuietTree
<1>9. PcCmd(t)' /\ WalkPos(t)'
  BY <1>1, <1>3 DEF PcCmd, WalkPos, Walking, DetachedBy, locals
<1>10. SearchPos(t)'
  <2>1. parent[t] \in Node /\ (HoldsTarget(t) => target[t] \in Node)
    BY <1>1, Pointers DEF TypeOK, LocalsOK, Node
  <2>2. QED
    BY <1>1, <1>3, <1>6, <2>1 DEF SearchPos, HoldsParent, HoldsTarget, locals
<1>11. Holds(t)' = Holds(t) /\ Mode(t)' = Mode(t)
  BY <1>3 DEF Holds, HoldsParent, HoldsTarget, HoldsRchild, Mode, locals
<1>12. LockDiscipline'
  BY <1>1, <1>3, <1>8, <1>11, KeepLocks
<1>13. \A a, b \in Threads : a # b => Private(a, b)'
  <2>1. \A n \in Node : DetachedBy(t, n)' => DetachedBy(t, n)
    BY <1>3 DEF DetachedBy
  <2>2. QED
    BY <1>1, <1>3, <1>5, <1>8, <1>11, <2>1, OwnLess DEF locals
<1>14. QED
  BY <1>5, <1>8, <1>9, <1>10, <1>12, <1>13, Assemble DEF Inv

\* A node that t owns for writing, or has walked over, is not owned by u.
LEMMA WriteApart ==
    ASSUME Inv, NEW t \in Threads, NEW u \in Threads, t # u, NEW w \in Node,
           w \in walked[t] \/ (w \in Holds(t) /\ Mode(t) = "l_write")
    PROVE  /\ w \notin Holds(u) /\ w \notin walked[u]
           /\ HoldsParent(u) => w # parent[u]
           /\ HoldsTarget(u) => w # target[u]
<1>1. Private(t, u) /\ Private(u, t)
  BY DEF Inv, IInv
<1>2. w \notin Holds(u)
  BY <1>1, Exclusive DEF Private, Inv
<1>3. w \notin walked[u]
  BY <1>1 DEF Private
<1>4. QED
  BY <1>2, <1>3 DEF Holds

\* The successor's name and value overwrite those of dnode.
LEMMA CopyStep ==
    ASSUME Inv, NEW t \in Threads, db_remove_copy(t)
    PROVE  Inv'
<1> DEFINE d == target[t]
<1>1. /\ Run(t) /\ TypeOK /\ PcCmd(t) /\ SearchPos(t) /\ WalkPos(t) /\ IInv
      /\ Walking(t) /\ \A u \in Threads : PcCmd(u) /\ SearchPos(u) /\ WalkPos(u)
  BY DEF Run, Step, Inv, IInv, db_remove_copy, Walking
<1>2. /\ name' = [name EXCEPT ![d] = name[next[t]]]
      /\ lchild' = lchild /\ rchild' = rchild /\ alive' = alive /\ UNCHANGED locks
      /\ UNCHANGED locals /\ cmd'[t] = cmd[t] /\ key'[t] = key[t]
      /\ pc[t] = "copy" /\ pc'[t] = "unlink"
  BY <1>1 DEF db_remove_copy, Goto, TypeOK, LocalsOK
<1>3. TypeOK' /\ OthersSame(t)
  BY <1>1, TypeStep, OnlyOwnLocals
<1>4. \A u \in Threads, n \in Node : DetachedBy(u, n)' <=> DetachedBy(u, n)
  BY <1>2, <1>3 DEF OthersSame, DetachedBy, locals
<1>5. \A n \in Node : Linked(n)' <=> Linked(n)
  BY <1>2, <1>4 DEF Linked
<1>6. TreeShape'
  <2>1. \A p \in Node : /\ lchild[p] # NULL => lchild[p] \in Node
                        /\ rchild[p] # NULL => rchild[p] \in Node
    BY <1>1 DEF TypeOK, HeapOK, Node, Ptr
  <2>2. QED
    BY <1>1, <1>2, <1>5, <2>1 DEF TreeShape, IInv
<1>7. Acyclic'
  BY <1>2, <1>5 DEF Acyclic, Descends, Inv
<1>8. OthersHold(t)
  BY <1>2, <1>3 DEF OthersHold, OthersSame, Holds, HoldsParent, HoldsTarget,
                    HoldsRchild, Mode
<1>9. ASSUME NEW u \in Threads \ {t}
      PROVE  PcCmd(u)' /\ SearchPos(u)' /\ WalkPos(u)'
  <2>1. /\ HoldsParent(u) => parent[u] # d
        /\ HoldsTarget(u) => target[u] # d
    BY <1>1, Walker, WriteApart
  <2>2. parent[u] \in Node /\ (HoldsTarget(u) => target[u] \in Node)
    BY <1>1, Pointers DEF TypeOK, LocalsOK, Node
  <2>3. /\ HoldsParent(u) => name'[parent[u]] = name[parent[u]]
        /\ HoldsTarget(u) => name'[target[u]] = name[target[u]]
    BY <1>1, <1>2, <2>1, <2>2 DEF TypeOK, HeapOK
  <2>4. SearchPos(u)'
    BY <1>1, <1>2, <1>3, <1>5, <2>2, <2>3
       DEF SearchPos, OthersSame, HoldsParent, HoldsTarget, child
  <2>5. PcCmd(u)'
    BY <1>1, <1>3 DEF OthersSame, PcCmd
  <2>6. WalkPos(u)'
    <3>1. \A n \in walked[u] : n \in Node
      BY <1>1 DEF TypeOK, LocalsOK, Node
    <3>2. QED
      BY <1>1, <1>2, <1>3, <1>4, <1>5, <3>1 DEF OthersSame, WalkPos, Walking
  <2>7. QED
    BY <2>4, <2>5, <2>6
<1>10. PcCmd(t)'
  BY <1>1, <1>2 DEF PcCmd
<1>11. SearchPos(t)'
  BY <1>1, <1>2, <1>5, Walker, ConstAssumption
     DEF SearchPos, HoldsParent, HoldsTarget, locals
<1>12. WalkPos(t)'
  BY <1>1, <1>2, <1>5, Walker DEF WalkPos, Walking, DetachedBy, locals
<1>13. Holds(t)' = Holds(t) /\ Mode(t)' = Mode(t)
  BY <1>2 DEF Holds, HoldsParent, HoldsTarget, HoldsRchild, Mode, locals
<1>14. LockDiscipline'
  BY <1>1, <1>2, <1>8, <1>13, KeepLocks
<1>15. \A a, b \in Threads : a # b => Private(a, b)'
  BY <1>1, <1>2, <1>3, <1>4, <1>8, <1>13, OwnLess DEF locals
<1>16. QED
  BY <1>3, <1>6, <1>7, <1>9, <1>10, <1>11, <1>12, <1>14, <1>15, Assemble

\* A thread does not notice changes to nodes it neither holds nor has walked over.
LEMMA Unnoticed ==
    ASSUME Inv, NEW t \in Threads, OthersSame(t), TypeOK',
           NEW u \in Threads, u # t, NEW W,
           \A n \in Node \ W : /\ lchild'[n] = lchild[n] /\ rchild'[n] = rchild[n]
                               /\ name'[n] = name[n],
           W \cap (Holds(u) \cup walked[u]) = {},
           \A n \in Holds(u) \cup walked[u] : Linked(n) => Linked(n)',
           \A n \in Node : DetachedBy(u, n) => n \in alive'
    PROVE  /\ Holds(u)' = Holds(u) /\ Mode(u)' = Mode(u)
           /\ PcCmd(u)' /\ SearchPos(u)' /\ WalkPos(u)'
<1>1. TypeOK /\ PcCmd(u) /\ SearchPos(u) /\ WalkPos(u)
  BY DEF Inv, IInv
<1>2. /\ pc'[u] = pc[u] /\ cmd'[u] = cmd[u] /\ key'[u] = key[u]
      /\ parent'[u] = parent[u] /\ target'[u] = target[u]
      /\ next'[u] = next[u] /\ nextl'[u] = nextl[u] /\ pnext'[u] = pnext[u]
      /\ walked'[u] = walked[u]
  BY DEF OthersSame
<1>3. /\ parent[u] \in Node /\ (HoldsTarget(u) => target[u] \in Node)
      /\ \A n \in walked[u] : n \in Node
  BY <1>1, Pointers DEF TypeOK, LocalsOK, Node, Inv
<1>4. /\ HoldsParent(u) => /\ name'[parent[u]] = name[parent[u]]
                           /\ lchild'[parent[u]] = lchild[parent[u]]
                           /\ rchild'[parent[u]] = rchild[parent[u]]
                           /\ Linked(parent[u])'
      /\ HoldsTarget(u) => /\ name'[target[u]] = name[target[u]]
                           /\ rchild'[target[u]] = rchild[target[u]]
                           /\ pc[u] # "splice_unlock" => Linked(target[u])'
  <2>1. /\ HoldsParent(u) => parent[u] \in Holds(u) /\ parent[u] \in Node \ W
        /\ HoldsTarget(u) => target[u] \in Holds(u) /\ target[u] \in Node \ W
    BY <1>3 DEF Holds
  <2>2. \A n \in Holds(u) : Linked(n) =>
          n \in (alive \cup {head})' /\ \A v \in Threads : ~DetachedBy(v, n)'
    BY DEF Linked
  <2>3. QED
    BY <1>1, <1>2, <2>1, <2>2 DEF SearchPos, Linked, DetachedBy
<1>5. \A n \in walked[u] : lchild'[n] = lchild[n] /\ (Linked(n) => Linked(n)')
  BY <1>3
<1>6. Holds(u)' = Holds(u) /\ Mode(u)' = Mode(u)
  BY <1>2, <1>4 DEF Holds, HoldsParent, HoldsTarget, HoldsRchild, Mode
<1>7. PcCmd(u)'
  BY <1>1, <1>2 DEF PcCmd
<1>8. SearchPos(u)'
  BY <1>1, <1>2, <1>4 DEF SearchPos, HoldsParent, HoldsTarget, child
<1>9. WalkPos(u)'
  <2>1. Walking(u) => HoldsTarget(u)
    BY DEF Walking, HoldsTarget
  <2>2. \A n \in Node : DetachedBy(u, n)' <=> DetachedBy(u, n)
    BY <1>2 DEF DetachedBy
  <2>3. QED
    BY <1>1, <1>2, <1>4, <1>5, <2>1, <2>2 DEF WalkPos, Walking, HoldsTarget
<1>10. QED
  BY <1>6, <1>7, <1>8, <1>9

\* A node x is taken out of the tree: its parent w takes over one of its
\* children, c.  This is what both cases of db_remove do.
LEMMA Bypass ==
    ASSUME Inv, TypeOK', NEW w \in Node, NEW x \in Cells, NEW c \in Ptr,
           Linked(w), Linked(x), c = lchild[x] \/ c = rchild[x],
           \/ /\ lchild[w] = x /\ lchild' = [lchild EXCEPT ![w] = c]
              /\ rchild' = rchild
           \/ /\ rchild[w] = x /\ rchild' = [rchild EXCEPT ![w] = c]
              /\ lchild' = lchild,
           \A n \in Node : Linked(n)' <=> Linked(n) /\ n # x
    PROVE  TreeShape' /\ Acyclic'
<1>1. TypeOK /\ TreeShape
  BY DEF Inv, IInv
<1>2. PICK r \in [Node -> Nat] : Descends(r)
  BY DEF Inv, Acyclic
<1>3. /\ x # NULL /\ x \in Node /\ NULL \notin Node
      /\ \A p \in Node : lchild[p] \in Node \cup {NULL} /\ rchild[p] \in Node \cup {NULL}
  BY <1>1, ConstAssumption DEF TypeOK, HeapOK, Node, Ptr
<1>4. r[w] < r[x] /\ (c # NULL => r[x] < r[c] /\ c \in Node /\ Linked(c))
  BY <1>1, <1>2, <1>3 DEF Descends, TreeShape
<1>5. w # x /\ c # x
  BY <1>3, <1>4
\* every pointer of the new tree
<1>6. /\ lchild'[w] \in {c, lchild[w]} /\ rchild'[w] \in {c, rchild[w]}
      /\ \A p \in Node : p # w => lchild'[p] = lchild[p] /\ rchild'[p] = rchild[p]
  BY <1>1 DEF TypeOK, HeapOK
<1>7. \A p \in Node : Linked(p) /\ p # x =>
         /\ lchild'[p] # x /\ rchild'[p] # x
         /\ lchild'[p] # NULL => Linked(lchild'[p]) /\ lchild'[p] \in Node
         /\ rchild'[p] # NULL => Linked(rchild'[p]) /\ rchild'[p] \in Node
  BY <1>1, <1>3, <1>4, <1>5, <1>6 DEF TreeShape, TypeOK, HeapOK
<1>8. TreeShape'
  <2>1. \A p \in Node : Linked(p)' =>
          /\ lchild'[p] # NULL => Linked(lchild[p])'
          /\ rchild'[p] # NULL => Linked(rchild[p])'
    <3> SUFFICES ASSUME NEW p \in Node, Linked(p)'
                 PROVE  /\ lchild'[p] # NULL => Linked(lchild[p])'
                        /\ rchild'[p] # NULL => Linked(rchild[p])'
      OBVIOUS
    <3>1. \A m \in Node : Linked(m) /\ m # x => Linked(m)'
      OBVIOUS
    <3>2. QED
      BY <1>7, <3>1 DEF Linked
  <2>2. \A p, q \in Node : Linked(p)' /\ Linked(q)' =>
          /\ lchild'[p] # NULL /\ lchild'[p] = lchild'[q] => p = q
          /\ rchild'[p] # NULL /\ rchild'[p] = rchild'[q] => p = q
          /\ lchild'[p] # NULL => lchild'[p] # rchild'[q]
    BY <1>1, <1>3, <1>5 DEF TreeShape, TypeOK, HeapOK
  <2>3. QED
    BY <2>1, <2>2 DEF TreeShape
<1>9. Acyclic'
  <2>1. Descends(r)'
    BY <1>1, <1>2, <1>3, <1>4, <1>6, <1>7 DEF Descends, TypeOK, HeapOK
  <2>2. QED
    BY <1>2, <2>1 DEF Acyclic
<1>10. QED
  BY <1>8, <1>9

\* Taking a node out of the tree changes nothing else about the tree's nodes.
LEMMA DetachLinked ==
    ASSUME NEW t \in Threads, OthersSame(t), alive' = alive, NEW x \in Node,
           \A n \in Node : ~DetachedBy(t, n) /\ (DetachedBy(t, n)' <=> n = x)
    PROVE  \A n \in Node : Linked(n)' <=> Linked(n) /\ n # x
<1>1. \A u \in Threads \ {t}, n \in Node : DetachedBy(u, n)' <=> DetachedBy(u, n)
  BY DEF OthersSame, DetachedBy
<1>2. QED
  BY <1>1 DEF Linked

\* The step that takes a node x out of the tree; what is left to show is local.
LEMMA DetachStep ==
    ASSUME Inv, NEW t \in Threads, Run(t), name' = name, alive' = alive,
           UNCHANGED locks, cmd'[t] = cmd[t], Mode(t) = "l_write",
           NEW w \in Node, NEW x \in Cells, NEW c \in Ptr,
           w \in walked[t] \cup Holds(t), x \in walked[t] \cup Holds(t),
           Linked(w), Linked(x), c = lchild[x] \/ c = rchild[x],
           \/ /\ lchild[w] = x /\ lchild' = [lchild EXCEPT ![w] = c]
              /\ rchild' = rchild
           \/ /\ rchild[w] = x /\ rchild' = [rchild EXCEPT ![w] = c]
              /\ lchild' = lchild,
           Holds(t)' = Holds(t), walked'[t] = {},
           \A n \in Node : ~DetachedBy(t, n) /\ (DetachedBy(t, n)' <=> n = x),
           PcCmd(t)' /\ SearchPos(t)' /\ WalkPos(t)'
    PROVE  Inv'
<1>1. TypeOK /\ TypeOK' /\ OthersSame(t) /\ IInv
  BY TypeStep, OnlyOwnLocals DEF Inv, IInv
<1>2. x \in Node /\ Mode(t)' = Mode(t)
  BY DEF Node, Mode
<1>3. \A n \in Node : Linked(n)' <=> Linked(n) /\ n # x
  BY <1>1, <1>2, DetachLinked
<1>4. TreeShape' /\ Acyclic'
  BY <1>1, <1>3, Bypass
<1>5. ASSUME NEW u \in Threads \ {t}
      PROVE  /\ Holds(u)' = Holds(u) /\ Mode(u)' = Mode(u)
             /\ PcCmd(u)' /\ SearchPos(u)' /\ WalkPos(u)'
             /\ x \notin Holds(u) /\ x \notin walked[u] /\ ~DetachedBy(u, x)
  <2>1. /\ w \notin Holds(u) /\ w \notin walked[u]
        /\ x \notin Holds(u) /\ x \notin walked[u]
    BY <1>2, WriteApart
  <2>2. ~DetachedBy(u, x)
    BY DEF Linked
  <2>3. \A n \in Node \ {w} : /\ lchild'[n] = lchild[n] /\ rchild'[n] = rchild[n]
                              /\ name'[n] = name[n]
    BY <1>1 DEF TypeOK, HeapOK
  <2>4. Holds(u) \cup walked[u] \subseteq Node
    BY <1>1 DEF Holds, TypeOK, LocalsOK, Node
  <2>5. \A n \in Holds(u) \cup walked[u] : Linked(n) => Linked(n)'
    BY <1>3, <2>1, <2>4
  <2>6. \A n \in Node : DetachedBy(u, n) => n \in alive'
    BY <1>1 DEF IInv, WalkPos
  <2>7. {w} \cap (Holds(u) \cup walked[u]) = {}
    BY <2>1
  <2>8. /\ Holds(u)' = Holds(u) /\ Mode(u)' = Mode(u)
        /\ PcCmd(u)' /\ SearchPos(u)' /\ WalkPos(u)'
    BY <1>1, <2>3, <2>5, <2>6, <2>7, Unnoticed
  <2>9. QED
    BY <2>1, <2>2, <2>8
<1>6. OthersHold(t)
  BY <1>5 DEF OthersHold
<1>7. LockDiscipline'
  BY <1>1, <1>2, <1>6, KeepLocks
<1>8. \A u \in Threads \ {t} : Private(t, u)' /\ Private(u, t)'
  <2> SUFFICES ASSUME NEW u \in Threads \ {t}
               PROVE  Private(t, u)' /\ Private(u, t)'
    OBVIOUS
  <2>1. walked'[u] = walked[u] /\ Private(t, u) /\ Private(u, t)
    BY <1>1 DEF OthersSame, IInv
  <2>2. \A n \in Node : DetachedBy(u, n)' <=> DetachedBy(u, n)
    BY <1>1 DEF OthersSame, DetachedBy
  <2>3. QED
    BY <1>2, <1>5, <2>1, <2>2 DEF Private
<1>9. \A a, b \in Threads : a # b => Private(a, b)'
  BY <1>1, <1>6, <1>8, OthersPrivate
<1>10. QED
  BY <1>1, <1>4, <1>5, <1>7, <1>9, Assemble

\* db_remove of a node with at most one child.
LEMMA SpliceStep ==
    ASSUME Inv, NEW t \in Threads, db_remove_splice(t)
    PROVE  Inv'
<1> DEFINE d == target[t]
           p == parent[t]
<1>1. Run(t) /\ TypeOK /\ PcCmd(t) /\ SearchPos(t) /\ WalkPos(t)
  BY DEF Run, Step, Inv, IInv
<1>2. /\ name' = name /\ alive' = alive /\ UNCHANGED locks /\ UNCHANGED locals
      /\ cmd'[t] = cmd[t] /\ cmd[t] = "d" /\ key'[t] = key[t]
      /\ pc[t] = "hit" /\ pc'[t] = "splice_unlock" /\ Mode(t) = "l_write"
  BY <1>1 DEF db_remove_splice, Goto, TypeOK, LocalsOK, Mode
<1>3. /\ p \in Node /\ d \in Cells /\ d \in Node /\ p # d /\ d # NULL
      /\ p \in Holds(t) /\ d \in Holds(t) /\ Linked(p) /\ Linked(d)
      /\ d = child(p, key[t]) /\ name[d] = key[t] /\ walked[t] = {}
  BY <1>1, <1>2, Pointers
     DEF TypeOK, LocalsOK, Node, Inv, SearchPos, WalkPos, Walking, HoldsParent,
         HoldsTarget, Holds
<1>4. PICK c \in Ptr : /\ c = lchild[d] \/ c = rchild[d]
                       /\ link(p, name[d], c)
  BY <1>1, <1>3 DEF db_remove_splice, TypeOK, HeapOK
<1>5. \/ /\ lchild[p] = d /\ lchild' = [lchild EXCEPT ![p] = c] /\ rchild' = rchild
      \/ /\ rchild[p] = d /\ rchild' = [rchild EXCEPT ![p] = c] /\ lchild' = lchild
  <2>1. name[d] \in Nat /\ name[p] \in Nat
    <3>1. name[d] \in Names \cup {0} /\ name[p] \in Names \cup {0}
      BY <1>1, <1>3 DEF TypeOK, HeapOK
    <3>2. QED
      BY <3>1, NamesNat
  <2>2. QED
    BY <1>3, <1>4, <2>1 DEF link, child
<1>6. \A n \in Node : ~DetachedBy(t, n) /\ (DetachedBy(t, n)' <=> n = d)
  BY <1>2 DEF DetachedBy, locals
<1>7. \A n \in Node : Linked(n)' <=> Linked(n) /\ n # d
  BY <1>1, <1>2, <1>3, <1>6, OnlyOwnLocals, DetachLinked
<1>8. PcCmd(t)'
  BY <1>2 DEF PcCmd
<1>9. SearchPos(t)'
  BY <1>2, <1>3, <1>7 DEF SearchPos, HoldsParent, HoldsTarget, locals
<1>10. WalkPos(t)'
  <2>1. d \in alive
    BY <1>3, ConstAssumption DEF Linked
  <2>2. QED
    BY <1>2, <1>3, <1>6, <2>1 DEF WalkPos, Walking, locals
<1>11. Holds(t)' = Holds(t)
  BY <1>2 DEF Holds, HoldsParent, HoldsTarget, HoldsRchild, locals
<1>12. QED
  BY <1>1, <1>2, <1>3, <1>4, <1>5, <1>6, <1>8, <1>9, <1>10, <1>11, DetachStep
     DEF locals

\* *pnext = next->rchild
LEMMA UnlinkStep ==
    ASSUME Inv, NEW t \in Threads, db_remove_unlink(t)
    PROVE  Inv'
<1> DEFINE x == next[t]
           w == pnext[t]
           c == rchild[x]
<1>1. Run(t) /\ TypeOK /\ PcCmd(t) /\ SearchPos(t) /\ WalkPos(t) /\ Walking(t)
  BY DEF Run, Step, Inv, IInv, db_remove_unlink, Walking
<1>2. /\ name' = name /\ alive' = alive /\ UNCHANGED locks
      /\ parent'[t] = parent[t] /\ target'[t] = target[t] /\ next'[t] = next[t]
      /\ cmd'[t] = cmd[t] /\ key'[t] = key[t] /\ walked'[t] = {}
      /\ pc[t] = "unlink" /\ pc'[t] = "free_next"
  BY <1>1 DEF db_remove_unlink, client, Goto, TypeOK, LocalsOK
<1>3. /\ parent[t] \in Node /\ target[t] \in Node /\ target[t] \in Cells
      /\ parent[t] # target[t] /\ Linked(parent[t]) /\ Linked(target[t])
      /\ x \in Cells /\ x \in Node /\ w \in Cells /\ w \in Node
      /\ x \in walked[t] /\ Linked(x) /\ parent[t] # x /\ target[t] # x
      /\ w \in walked[t] \cup Holds(t) /\ Linked(w) /\ Mode(t) = "l_write"
  BY <1>1, Walker DEF WalkPos, Node
<1>4. c \in Ptr
  BY <1>1, <1>3 DEF TypeOK, HeapOK
<1>5. \/ /\ lchild[w] = x /\ lchild' = [lchild EXCEPT ![w] = c] /\ rchild' = rchild
      \/ /\ rchild[w] = x /\ rchild' = [rchild EXCEPT ![w] = c] /\ lchild' = lchild
  BY <1>1 DEF db_remove_unlink, WalkPos
<1>6. \A n \in Node : ~DetachedBy(t, n) /\ (DetachedBy(t, n)' <=> n = x)
  BY <1>2 DEF DetachedBy
<1>7. \A n \in Node : Linked(n)' <=> Linked(n) /\ n # x
  BY <1>1, <1>2, <1>3, <1>6, OnlyOwnLocals, DetachLinked
<1>8. PcCmd(t)'
  BY <1>1, <1>2 DEF PcCmd
<1>9. SearchPos(t)'
  BY <1>2, <1>3, <1>7, ConstAssumption DEF SearchPos, HoldsParent, HoldsTarget
<1>10. WalkPos(t)'
  <2>1. x \in alive
    BY <1>3, ConstAssumption DEF Linked
  <2>2. QED
    BY <1>2, <1>3, <1>6, <2>1, ConstAssumption DEF WalkPos, Walking
<1>11. Holds(t)' = Holds(t)
  BY <1>2 DEF Holds, HoldsParent, HoldsTarget, HoldsRchild
<1>12. QED
  BY <1>1, <1>2, <1>3, <1>4, <1>5, <1>6, <1>8, <1>9, <1>10, <1>11, DetachStep

\* What threads hold, walk over or have detached is allocated.
LEMMA HeldAlive ==
    ASSUME Inv, NEW u \in Threads
    PROVE  /\ Holds(u) \cup walked[u] \subseteq alive \cup {head}
           /\ \A n \in Node : DetachedBy(u, n) => n \in alive
<1>1. TypeOK /\ TreeShape /\ SearchPos(u) /\ WalkPos(u)
  BY DEF Inv, IInv
<1>2. HoldsParent(u) => parent[u] \in alive \cup {head}
  BY <1>1 DEF SearchPos, Linked
<1>3. HoldsTarget(u) => target[u] \in alive \cup {head}
  <2>1. HoldsTarget(u) => target[u] \in Node
    BY Pointers DEF Node, Inv
  <2>2. QED
    BY <1>1, <2>1 DEF SearchPos, WalkPos, Linked, DetachedBy
<1>4. walked[u] \subseteq alive \cup {head}
  BY <1>1 DEF WalkPos, Linked
<1>5. HoldsRchild(u) => rchild[target[u]] \in alive \cup {head}
  BY <1>1, <1>4 DEF WalkPos, HoldsRchild, Walking
<1>6. pc[u] = "walk_unlock" => nextl[u] \in alive \cup {head}
  <2>1. ASSUME pc[u] = "walk_unlock"
        PROVE  next[u] \in Node /\ Linked(next[u])
    BY <2>1, Walker DEF Walking
  <2>2. QED
    BY <1>1, <2>1 DEF WalkPos, TreeShape, Linked
<1>7. QED
  BY <1>1, <1>2, <1>3, <1>4, <1>5, <1>6 DEF Holds, WalkPos

\* db_add links a new node below the parent, where there was none.
LEMMA Added ==
    ASSUME Inv, NEW t \in Threads, db_add_miss(t)
    PROVE  \E n \in Cells :
             /\ n \notin alive /\ node_constructor(t, n)
             /\ n \in Node /\ n # head /\ n # NULL /\ n # parent[t] /\ ~Linked(n)
             /\ \A u \in Threads : /\ n \notin Holds(u) /\ n \notin walked[u]
                                   /\ ~DetachedBy(u, n)
             /\ \A m \in Node : Linked(m)' <=> Linked(m) \/ m = n
             /\ lchild'[n] = NULL /\ rchild'[n] = NULL
             /\ \/ /\ lchild[parent[t]] = NULL /\ lchild'[parent[t]] = n
                   /\ rchild'[parent[t]] = rchild[parent[t]]
                \/ /\ rchild[parent[t]] = NULL /\ rchild'[parent[t]] = n
                   /\ lchild'[parent[t]] = lchild[parent[t]]
             /\ \A m \in Node \ {parent[t], n} : /\ lchild'[m] = lchild[m]
                                                  /\ rchild'[m] = rchild[m]
                                                  /\ name'[m] = name[m]
<1> DEFINE p == parent[t]
<1>1. Run(t) /\ TypeOK /\ PcCmd(t) /\ SearchPos(t) /\ WalkPos(t) /\ TreeShape /\ IInv
  BY DEF Run, Step, Inv, IInv
<1>2. /\ UNCHANGED locals /\ cmd'[t] = cmd[t] /\ key'[t] = key[t]
      /\ pc[t] = "miss" /\ pc'[t] = "unlock_parent" /\ cmd[t] = "a"
  BY <1>1 DEF db_add_miss, Goto, TypeOK, LocalsOK
<1>3. PICK n \in Cells : n \notin alive /\ node_constructor(t, n)
  BY DEF db_add_miss
<1>4. TypeOK' /\ OthersSame(t)
  BY <1>1, TypeStep, OnlyOwnLocals
<1>5. /\ p \in Node /\ p \in Holds(t) /\ Linked(p) /\ Mode(t) = "l_write"
      /\ walked[t] = {} /\ child(p, key[t]) = NULL
  BY <1>1, <1>2 DEF TypeOK, LocalsOK, Holds, HoldsParent, SearchPos, WalkPos,
                    Walking, Mode
<1>6. /\ n \in Node /\ n # head /\ n # NULL /\ n # p /\ ~Linked(n)
      /\ \A u \in Threads : /\ n \notin Holds(u) /\ n \notin walked[u]
                            /\ ~DetachedBy(u, n)
  <2>1. n \in Node /\ n # head /\ n # NULL
    BY ConstAssumption DEF Node
  <2>2. \A u \in Threads : n \notin Holds(u) /\ n \notin walked[u] /\ ~DetachedBy(u, n)
    BY <1>3, <2>1, HeldAlive
  <2>3. QED
    BY <1>3, <1>5, <2>1, <2>2 DEF Linked
<1>7. \A u \in Threads, m \in Node : DetachedBy(u, m)' <=> DetachedBy(u, m)
  BY <1>2, <1>4 DEF OthersSame, DetachedBy, locals
<1>8. \A m \in Node : Linked(m)' <=> Linked(m) \/ m = n
  BY <1>3, <1>6, <1>7 DEF Linked, node_constructor
\* the only pointer of the tree that changes was null
<1>9. /\ lchild'[n] = NULL /\ rchild'[n] = NULL
      /\ \/ /\ lchild[p] = NULL /\ lchild'[p] = n /\ rchild'[p] = rchild[p]
         \/ /\ rchild[p] = NULL /\ rchild'[p] = n /\ lchild'[p] = lchild[p]
      /\ \A m \in Node \ {p, n} : /\ lchild'[m] = lchild[m] /\ rchild'[m] = rchild[m]
                                  /\ name'[m] = name[m]
  <2>1. key[t] \in Nat /\ name[p] \in Nat
    <3>1. key[t] \in Names /\ name[p] \in Names \cup {0}
      BY <1>1, <1>5 DEF TypeOK, HeapOK, ClientOK
    <3>2. QED
      BY <3>1, NamesNat
  <2>2. /\ lchild \in [Node -> Ptr] /\ rchild \in [Node -> Ptr]
        /\ name \in [Node -> Names \cup {0}]
    BY <1>1 DEF TypeOK, HeapOK
  <2>3. CASE key[t] < name[p]
    BY <1>3, <1>5, <1>6, <2>1, <2>2, <2>3 DEF node_constructor, child
  <2>4. CASE key[t] >= name[p]
    BY <1>3, <1>5, <1>6, <2>1, <2>2, <2>4 DEF node_constructor, child
  <2>5. QED
    BY <2>1, <2>3, <2>4
<1> QED
  BY <1>3, <1>6, <1>8, <1>9

LEMMA AddStep ==
    ASSUME Inv, NEW t \in Threads, db_add_miss(t)
    PROVE  Inv'
<1> DEFINE p == parent[t]
<1>1. Run(t) /\ TypeOK /\ PcCmd(t) /\ SearchPos(t) /\ WalkPos(t) /\ TreeShape /\ IInv
  BY DEF Run, Step, Inv, IInv
<1>2. /\ UNCHANGED locals /\ cmd'[t] = cmd[t] /\ key'[t] = key[t]
      /\ pc[t] = "miss" /\ pc'[t] = "unlock_parent" /\ cmd[t] = "a"
  BY <1>1 DEF db_add_miss, Goto, TypeOK, LocalsOK
<1>3. PICK n \in Cells :
        /\ n \notin alive /\ node_constructor(t, n)
        /\ n \in Node /\ n # head /\ n # NULL /\ n # p /\ ~Linked(n)
        /\ \A u \in Threads : /\ n \notin Holds(u) /\ n \notin walked[u]
                              /\ ~DetachedBy(u, n)
        /\ \A m \in Node : Linked(m)' <=> Linked(m) \/ m = n
        /\ lchild'[n] = NULL /\ rchild'[n] = NULL
        /\ \/ /\ lchild[p] = NULL /\ lchild'[p] = n /\ rchild'[p] = rchild[p]
           \/ /\ rchild[p] = NULL /\ rchild'[p] = n /\ lchild'[p] = lchild[p]
        /\ \A m \in Node \ {p, n} : /\ lchild'[m] = lchild[m] /\ rchild'[m] = rchild[m]
                                    /\ name'[m] = name[m]
  BY Added
<1>4. TypeOK' /\ OthersSame(t)
  BY <1>1, TypeStep, OnlyOwnLocals
<1>5. /\ p \in Node /\ p \in Holds(t) /\ Linked(p) /\ Mode(t) = "l_write"
      /\ walked[t] = {} /\ child(p, key[t]) = NULL
  BY <1>1, <1>2 DEF TypeOK, LocalsOK, Holds, HoldsParent, SearchPos, WalkPos,
                    Walking, Mode
<1>6. /\ n \in Node /\ n # head /\ n # NULL /\ n # p /\ ~Linked(n)
      /\ \A u \in Threads : /\ n \notin Holds(u) /\ n \notin walked[u]
                            /\ ~DetachedBy(u, n)
  BY <1>3
<1>7. \A u \in Threads, m \in Node : DetachedBy(u, m)' <=> DetachedBy(u, m)
  BY <1>2, <1>4 DEF OthersSame, DetachedBy, locals
<1>8. \A m \in Node : Linked(m)' <=> Linked(m) \/ m = n
  BY <1>3
\* the only pointer of the tree that changes was null
<1>9. /\ lchild'[n] = NULL /\ rchild'[n] = NULL
      /\ \/ /\ lchild[p] = NULL /\ lchild'[p] = n /\ rchild'[p] = rchild[p]
         \/ /\ rchild[p] = NULL /\ rchild'[p] = n /\ lchild'[p] = lchild[p]
      /\ \A m \in Node \ {p, n} : /\ lchild'[m] = lchild[m] /\ rchild'[m] = rchild[m]
                                  /\ name'[m] = name[m]
  BY <1>3
<1>10. \A q \in Node : Linked(q) =>
         /\ lchild[q] # n /\ rchild[q] # n
         /\ lchild[q] # NULL => Linked(lchild[q]) /\ lchild[q] \in Node
         /\ rchild[q] # NULL => Linked(rchild[q]) /\ rchild[q] \in Node
  BY <1>1, <1>6 DEF TreeShape, TypeOK, HeapOK, Node, Ptr
<1>11. TreeShape'
  <2>1. \A q \in Node : Linked(q)' =>
          /\ lchild'[q] # NULL => lchild'[q] \in Node /\ (Linked(lchild'[q]) \/ lchild'[q] = n)
          /\ rchild'[q] # NULL => rchild'[q] \in Node /\ (Linked(rchild'[q]) \/ rchild'[q] = n)
    BY <1>5, <1>6, <1>8, <1>9, <1>10
  <2>2. \A q \in Node : Linked(q)' =>
          /\ lchild'[q] # NULL => Linked(lchild[q])'
          /\ rchild'[q] # NULL => Linked(rchild[q])'
    <3>1. \A m \in Node : Linked(m) \/ m = n => Linked(m)'
      BY <1>8
    <3>2. QED
      BY <2>1, <3>1 DEF Linked
  <2>3. \A a, b \in Node : Linked(a)' /\ Linked(b)' =>
          /\ lchild'[a] # NULL /\ lchild'[a] = lchild'[b] => a = b
          /\ rchild'[a] # NULL /\ rchild'[a] = rchild'[b] => a = b
          /\ lchild'[a] # NULL => lchild'[a] # rchild'[b]
    BY <1>1, <1>6, <1>8, <1>9, <1>10 DEF TreeShape
  <2>4. QED
    BY <2>2, <2>3 DEF TreeShape
<1>12. Acyclic'
  <2>1. PICK r \in [Node -> Nat] : Descends(r)
    BY DEF Inv, Acyclic
  <2>2. PICK s \in [Node -> Nat] : s[n] = r[p] + 1 /\ \A m \in Node \ {n} : s[m] = r[m]
    <3>1. [r EXCEPT ![n] = r[p] + 1] \in [Node -> Nat]
      BY <1>5, <1>6
    <3>2. QED
      BY <1>6, <3>1
  <2>3. \A q \in Node : Linked(q) =>
          /\ lchild[q] # NULL => r[q] < r[lchild[q]]
          /\ rchild[q] # NULL => r[q] < r[rchild[q]]
    BY <2>1 DEF Descends
  <2>4. ASSUME NEW q \in Node, Linked(q)'
        PROVE  /\ lchild'[q] # NULL => s[q] < s[lchild'[q]]
               /\ rchild'[q] # NULL => s[q] < s[rchild'[q]]
    <3>1. CASE q = n
      BY <1>9, <3>1
    <3>2. CASE q = p
      BY <1>5, <1>6, <1>9, <1>10, <2>2, <2>3, <3>2
    <3>3. CASE q # n /\ q # p
      BY <1>8, <1>9, <1>10, <2>2, <2>3, <2>4, <3>3
    <3>4. QED
      BY <3>1, <3>2, <3>3
  <2>5. Descends(s)'
    BY <2>4 DEF Descends
  <2>6. QED
    BY <2>2, <2>5 DEF Acyclic
<1>13. ASSUME NEW u \in Threads \ {t}
       PROVE  /\ Holds(u)' = Holds(u) /\ Mode(u)' = Mode(u)
              /\ PcCmd(u)' /\ SearchPos(u)' /\ WalkPos(u)'
  <2>1. p \notin Holds(u) /\ p \notin walked[u]
    BY <1>5, WriteApart
  <2>2. {p, n} \cap (Holds(u) \cup walked[u]) = {}
    BY <1>6, <2>1
  <2>3. \A m \in Holds(u) \cup walked[u] : Linked(m) => Linked(m)'
    <3>1. Holds(u) \cup walked[u] \subseteq Node
      BY <1>1 DEF Holds, TypeOK, LocalsOK, Node
    <3>2. QED
      BY <1>8, <3>1
  <2>4. \A m \in Node : DetachedBy(u, m) => m \in alive'
    BY <1>3, HeldAlive DEF node_constructor
  <2>5. QED
    BY <1>4, <1>9, <2>2, <2>3, <2>4, Unnoticed
<1>14. OthersHold(t)
  BY <1>13 DEF OthersHold
<1>15. Holds(t)' = Holds(t) /\ Mode(t)' = Mode(t)
  BY <1>2 DEF Holds, HoldsParent, HoldsTarget, HoldsRchild, Mode, locals
<1>16. LockDiscipline'
  <2>1. \A u \in Threads : Holds(u)' = Holds(u) /\ Mode(u)' = Mode(u)
    BY <1>14, <1>15 DEF OthersHold
  <2>2. /\ writer'[n] = NULL /\ readers'[n] = {}
        /\ \A m \in Node \ {n} : writer'[m] = writer[m] /\ readers'[m] = readers[m]
    BY <1>1, <1>3, <1>6 DEF node_constructor, TypeOK, LocksOK
  <2>3. QED
    BY <1>1, <1>6, <2>1, <2>2, ConstAssumption DEF IInv, LockDiscipline
<1>17. PcCmd(t)' /\ WalkPos(t)'
  BY <1>2, <1>5 DEF PcCmd, WalkPos, Walking, DetachedBy, locals
<1>18. SearchPos(t)'
  BY <1>2, <1>5, <1>8 DEF SearchPos, HoldsParent, HoldsTarget, locals
<1>19. \A a, b \in Threads : a # b => Private(a, b)'
  BY <1>1, <1>2, <1>4, <1>7, <1>14, <1>15, OwnLess DEF locals
<1>20. QED
  BY <1>4, <1>11, <1>12, <1>13, <1>16, <1>17, <1>18, <1>19, Assemble

------------------------------------------------------------------------------
(* The theorems *)

\* The empty database satisfies the invariant.
LEMMA InitInv == Init => Inv
<1> SUFFICES ASSUME Init PROVE Inv
  OBVIOUS
<1> USE DEF Init, InitClient
<1>1. TypeOK
  <2>1. (CHOOSE k \in Names : TRUE) \in Names /\ (CHOOSE v \in Values : TRUE) \in Values
    BY ConstAssumption
  <2>2. HeapOK /\ LocksOK /\ LocalsOK
    BY DEF HeapOK, LocksOK, LocalsOK, Node, Ptr, PCs
  <2>3. ClientOK
    <3>1. MaxCalls \in Nat
      BY ConstAssumption
    <3> QED
      BY <2>1, <3>1 DEF ClientOK, Cmds
  <2>4. QED
    BY <2>2, <2>3 DEF TypeOK
<1>2. \A t \in Threads : /\ Holds(t) = {} /\ walked[t] = {}
                         /\ \A n \in Node : ~DetachedBy(t, n)
  BY DEF Holds, HoldsParent, HoldsTarget, HoldsRchild, DetachedBy
<1>3. \A p \in Node : lchild[p] = NULL /\ rchild[p] = NULL
  OBVIOUS
<1>4. TreeShape
  BY <1>3 DEF TreeShape
<1>5. Acyclic
  <2>1. [n \in Node |-> 0] \in [Node -> Nat] /\ Descends([n \in Node |-> 0])
    BY <1>3 DEF Descends
  <2>2. QED
    BY <2>1 DEF Acyclic
<1>6. LockDiscipline
  BY <1>2, ConstAssumption DEF LockDiscipline
<1>7. \A t \in Threads : PcCmd(t) /\ SearchPos(t) /\ WalkPos(t)
  BY <1>2 DEF PcCmd, SearchPos, WalkPos, Walking, HoldsParent, HoldsTarget
<1>8. \A t, u \in Threads : t # u => Private(t, u)
  BY <1>2 DEF Private
<1>9. QED
  BY <1>1, <1>4, <1>5, <1>6, <1>7, <1>8 DEF Inv, IInv

\* Every step of every thread keeps the invariant.
LEMMA NextInv ==
    ASSUME Inv, [Next]_vars
    PROVE  Inv'
<1>1. ASSUME NEW t \in Threads, Run(t)
      PROVE  Inv'
  <2>1. CASE \/ interpret_command(t) \/ search(t) \/ db_query_read(t)
             \/ db_query_miss(t) \/ db_remove_miss(t)
    <3>1. heap' = heap /\ UNCHANGED locks
      BY <2>1 DEF interpret_command, search, db_query_read, db_query_miss, db_remove_miss
    <3>2. QED
      BY <2>1, <3>1, PlainStep
  <2>2. CASE \/ db_query_hit(t) \/ db_query_return(t) \/ db_add_hit(t)
             \/ db_remove_splice_unlock(t) \/ db_remove_unlock_dnode(t)
             \/ unlock_parent(t)
    <3>1. heap' = heap
      BY <2>2 DEF db_query_hit, db_query_return, db_add_hit, db_remove_splice_unlock,
                  db_remove_unlock_dnode, unlock_parent
    <3>2. QED
      BY <2>2, <3>1, PlainUnlock
  <2>3. CASE lock_head(t) \/ search_lock(t)
    BY <2>3, SearchLockStep
  <2>4. CASE search_compare(t)
    BY <2>4, CompareStep
  <2>5. CASE db_add_miss(t)
    BY <2>5, AddStep
  <2>6. CASE db_remove_splice(t)
    BY <2>6, SpliceStep
  <2>7. CASE db_remove_splice_free(t) \/ db_remove_free(t)
    BY <2>7, FreeStep
  <2>8. CASE db_remove_two(t)
    BY <2>8, TwoStep
  <2>9. CASE db_remove_walk(t)
    BY <2>9, WalkStep
  <2>10. CASE db_remove_walk_lock(t)
    BY <2>10, WalkLockStep
  <2>11. CASE db_remove_walk_unlock(t)
    BY <2>11, WalkUnlockStep
  <2>12. CASE db_remove_copy(t)
    BY <2>12, CopyStep
  <2>13. CASE db_remove_unlink(t)
    BY <2>13, UnlinkStep
  <2>14. QED
    BY <1>1, <2>1, <2>2, <2>3, <2>4, <2>5, <2>6, <2>7, <2>8, <2>9, <2>10,
       <2>11, <2>12, <2>13 DEF Run, Step
<1>2. CASE UNCHANGED vars
  <2> USE <1>2 DEF vars, heap, locks, client, locals
  <2>1. TypeOK' <=> TypeOK
    BY DEF TypeOK, HeapOK, LocksOK, ClientOK, LocalsOK
  <2>2. TreeShape' <=> TreeShape
    BY DEF TreeShape, Linked, DetachedBy
  <2>3. Acyclic' <=> Acyclic
    BY DEF Acyclic, Descends, Linked, DetachedBy
  <2>4. LockDiscipline' <=> LockDiscipline
    BY DEF LockDiscipline, Holds, HoldsParent, HoldsTarget, HoldsRchild, Mode
  <2>5. \A t \in Threads : PcCmd(t)' <=> PcCmd(t)
    BY DEF PcCmd
  <2>6. \A t \in Threads : SearchPos(t)' <=> SearchPos(t)
    BY DEF SearchPos, HoldsParent, HoldsTarget, child, Linked, DetachedBy
  <2>7. \A t \in Threads : WalkPos(t)' <=> WalkPos(t)
    BY DEF WalkPos, Walking, Linked, DetachedBy
  <2>8. \A t, u \in Threads : Private(t, u)' <=> Private(t, u)
    BY DEF Private, Holds, HoldsParent, HoldsTarget, HoldsRchild, DetachedBy
  <2>9. QED
    BY <2>1, <2>2, <2>3, <2>4, <2>5, <2>6, <2>7, <2>8 DEF Inv, IInv
<1>3. QED
  BY <1>1, <1>2 DEF Next, Run, Finished

\* The inductive invariant holds in every state, for any number of threads,
\* cells, names and commands.
THEOREM Invariance == Spec => []Inv
<1>1. Init => Inv
  BY InitInv
<1>2. Inv /\ [Next]_vars => Inv'
  BY NextInv
<1>3. QED
  BY <1>1, <1>2, PTL DEF Spec

\* Type correctness of the locked tree.
THEOREM TypeCorrect == Spec => []TypeOK
<1>1. Inv => TypeOK
  BY DEF Inv, IInv
<1>2. QED
  BY <1>1, Invariance, PTL

\* Every lock and unlock of db.c is matched, in the mode of the command, and a
\* writer is alone.
THEOREM Locking == Spec => []LockDiscipline
<1>1. Inv => LockDiscipline
  BY DEF Inv, IInv
<1>2. QED
  BY <1>1, Invariance, PTL

\* The nodes that the next step of a thread touches: it holds them, has walked
\* over them, or detached them itself.
LEMMA Touches ==
    ASSUME Inv, NEW t \in Threads
    PROVE  /\ Reads(t) \subseteq Holds(t) \cup walked[t]
           /\ Writes(t) \subseteq Holds(t) \cup walked[t] \cup {n \in Node : DetachedBy(t, n)}
           /\ Writes(t) # {} => Mode(t) = "l_write"
<1>1. TypeOK /\ PcCmd(t) /\ SearchPos(t) /\ WalkPos(t)
  BY DEF Inv, IInv
<1>2. /\ parent[t] \in Node /\ (HoldsTarget(t) => target[t] \in Node)
      /\ HoldsParent(t) => parent[t] \in Holds(t)
      /\ HoldsTarget(t) => target[t] \in Holds(t)
  BY <1>1, Pointers DEF TypeOK, LocalsOK, Node, Inv, Holds
<1>3. Reads(t) \subseteq Holds(t) \cup walked[t]
  BY <1>1, <1>2 DEF Reads, HoldsParent, HoldsTarget, WalkPos, Walking
<1>4. Writes(t) \subseteq Holds(t) \cup walked[t] \cup {n \in Node : DetachedBy(t, n)}
  <2>1. /\ pc[t] = "splice_free" => target[t] \in Node
        /\ pc[t] = "free_next" => next[t] \in Node
    BY Pointers DEF Node, Inv
  <2>2. QED
    BY <1>1, <1>2, <2>1
       DEF Writes, HoldsParent, HoldsTarget, WalkPos, Walking, DetachedBy
<1>5. Writes(t) # {} => Mode(t) = "l_write"
  BY <1>1 DEF Writes, Mode, PcCmd
<1>6. QED
  BY <1>3, <1>4, <1>5

\* A lock operation is on a node the thread holds or on one of the tree.
LEMMA TouchesLock ==
    ASSUME Inv, NEW t \in Threads, NEW n, n \in Locks(t)
    PROVE  n \in Node /\ (n \in Holds(t) \/ Linked(n))
<1>1. TypeOK /\ TreeShape /\ SearchPos(t) /\ WalkPos(t)
  BY DEF Inv, IInv
<1>2. /\ parent[t] \in Node /\ (HoldsTarget(t) => target[t] \in Node)
      /\ HoldsParent(t) => parent[t] \in Holds(t)
      /\ HoldsTarget(t) => target[t] \in Holds(t)
  BY <1>1, Pointers DEF TypeOK, LocalsOK, Node, Inv, Holds
<1>3. head \in Node /\ Linked(head)
  BY <1>1, ConstAssumption DEF TypeOK, LocalsOK, Node, Ptr, Linked, DetachedBy
<1>4. pc[t] = "lock_next" => target[t] \in Node /\ Linked(target[t])
  BY <1>1, <1>2, Pointers DEF SearchPos, HoldsParent, child, TreeShape, Inv, Node
<1>5. pc[t] \in {"walk_lock", "walk_unlock"} =>
        nextl[t] \in Node /\ Linked(nextl[t]) /\ lchild[next[t]] = nextl[t]
  <2>1. ASSUME pc[t] \in {"walk_lock", "walk_unlock"}
        PROVE  next[t] \in Node /\ Linked(next[t])
    BY <2>1, Walker DEF Walking
  <2>2. QED
    BY <1>1, <2>1, Pointers DEF WalkPos, TreeShape, Inv, Node
<1>6. QED
  BY <1>2, <1>3, <1>4, <1>5 DEF Locks, HoldsParent, HoldsTarget

\* No step of db.c touches a freed node, for any number of threads and nodes.
THEOREM MemorySafe == Spec => []NoUseAfterFree
<1>1. Inv => NoUseAfterFree
  <2> SUFFICES ASSUME Inv, NEW t \in Threads
               PROVE  Reads(t) \cup Writes(t) \cup Locks(t) \subseteq alive \cup {head}
    BY DEF NoUseAfterFree
  <2>1. Reads(t) \cup Writes(t) \subseteq alive \cup {head}
    BY Touches, HeldAlive
  <2>2. Locks(t) \subseteq alive \cup {head}
    BY TouchesLock, HeldAlive DEF Linked
  <2>3. QED
    BY <2>1, <2>2
<1>2. QED
  BY <1>1, Invariance, PTL

\* No two threads are about to access one node with one of them writing.
THEOREM NoRaces == Spec => []RaceFree
<1>1. Inv => RaceFree
  <2> SUFFICES ASSUME Inv, NEW t \in Threads, NEW u \in Threads, t # u,
                      NEW n, n \in Writes(t), n \in Reads(u) \cup Writes(u)
               PROVE  FALSE
    BY DEF RaceFree
  <2>1. Private(t, u) /\ Private(u, t) /\ WalkPos(u) /\ WalkPos(t)
    BY DEF Inv, IInv
  <2>2. n \in Node
    BY Touches, HeldAlive DEF Holds, Inv, IInv, TypeOK, LocalsOK, Node
  <2>3. n \in Holds(t) \cup walked[t] \/ DetachedBy(t, n)
    BY Touches
  <2>4. n \in Holds(u) \cup walked[u] \/ DetachedBy(u, n)
    BY Touches
  <2>5. Mode(t) = "l_write"
    BY Touches
  <2>6. CASE n \in Holds(t) \cup walked[t]
    <3>1. n \notin Holds(u) /\ n \notin walked[u]
      BY <2>2, <2>5, <2>6, WriteApart
    <3>2. DetachedBy(u, n) => n \notin Holds(t)
      BY <2>1, <2>2 DEF Private
    <3>3. DetachedBy(u, n) => n \notin walked[t]
      BY <2>1, <2>2 DEF WalkPos, Linked
    <3>4. QED
      BY <2>4, <2>6, <3>1, <3>2, <3>3
  <2>7. CASE DetachedBy(t, n)
    BY <2>1, <2>2, <2>4, <2>7 DEF Private, WalkPos, Linked
  <2>8. QED
    BY <2>3, <2>6, <2>7
<1>2. QED
  BY <1>1, Invariance, PTL

\* When node_destructor runs nobody holds, awaits or will next take the lock in
\* the node.
THEOREM FreedIsUnwanted == Spec => []FreedUnlocked
<1>1. Inv => FreedUnlocked
  <2> SUFFICES ASSUME Inv, NEW t \in Threads, NEW u \in Threads, t # u, NEW n,
                      DetachedBy(t, n), n \in Holds(u) \cup Locks(u)
               PROVE  FALSE
    BY DEF FreedUnlocked, DetachedBy
  <2>1. Private(t, u)
    BY DEF Inv, IInv
  <2>2. n \in Node /\ (n \in Holds(u) \/ Linked(n))
    BY TouchesLock DEF Holds
  <2>3. QED
    BY <2>1, <2>2 DEF Private, Linked
<1>2. QED
  BY <1>1, Invariance, PTL

------------------------------------------------------------------------------
(* Order and linearizability *)

Tree == {n \in Node : Linked(n)}

------------------------------------------------------------------------------
(* Search paths *)

\* The heap as the search sees it.
LEMMA TreeFacts ==
    ASSUME Inv
    PROVE  /\ head \in Tree /\ Tree \subseteq alive \cup {head} /\ Tree \subseteq Node
           /\ NULL \notin Tree /\ NULL \notin Node
           /\ \A n \in Node : name[n] \in Nat
           /\ \A n \in Tree : /\ lchild[n] \in Tree \cup {NULL} /\ lchild[n] # head
                              /\ rchild[n] \in Tree \cup {NULL} /\ rchild[n] # head
           /\ \A n \in Tree : \A k : Onward(n, k) \in Tree \cup {NULL} /\ Onward(n, k) # head
<1>1. TypeOK /\ TreeShape
  BY DEF Inv, IInv
<1>2. head \in Node /\ Linked(head)
  BY <1>1, ConstAssumption DEF TypeOK, LocalsOK, Node, Ptr, Linked, DetachedBy
<1>3. \A n \in Node : name[n] \in Nat
  BY <1>1, NamesNat DEF TypeOK, HeapOK
<1>4. NULL \notin Node
  BY ConstAssumption DEF Node
<1>5. \A n \in Node : /\ lchild[n] \in Node \cup {NULL} /\ lchild[n] # head
                      /\ rchild[n] \in Node \cup {NULL} /\ rchild[n] # head
  BY <1>1, ConstAssumption DEF TypeOK, HeapOK, Node, Ptr
<1>6. \A n \in Tree : /\ lchild[n] \in Tree \cup {NULL} /\ lchild[n] # head
                      /\ rchild[n] \in Tree \cup {NULL} /\ rchild[n] # head
  BY <1>1, <1>5 DEF TreeShape, Tree
<1>7. \A n \in Tree : \A k : Onward(n, k) \in Tree \cup {NULL} /\ Onward(n, k) # head
  BY <1>2, <1>4, <1>6 DEF Onward, child, Tree
<1>8. Tree \subseteq alive \cup {head} /\ Tree \subseteq Node
  BY DEF Tree, Linked
<1> QED
  BY <1>2, <1>3, <1>4, <1>6, <1>7, <1>8 DEF Tree

\* A search visits nodes of the tree only, head first.
LEMMA PathRules ==
    ASSUME Inv, NEW k
    PROVE  /\ head \in Path(k) /\ Path(k) \subseteq Tree
           /\ \A n \in Path(k) : Onward(n, k) \in Path(k) \cup {NULL}
<1>1. Tree \in Closed(k)
  BY TreeFacts DEF Closed
<1>2. Path(k) \subseteq Tree /\ head \in Path(k)
  BY <1>1 DEF Path, Closed
<1>3. ASSUME NEW n \in Path(k), Onward(n, k) # NULL
      PROVE  Onward(n, k) \in Path(k)
  <2>1. Onward(n, k) \in alive \cup {head}
    BY <1>2, <1>3, TreeFacts
  <2>2. \A S \in Closed(k) : Onward(n, k) \in S
    BY <1>3 DEF Path, Closed
  <2> QED
    BY <2>1, <2>2 DEF Path
<1> QED
  BY <1>2, <1>3

\* A set closed under the search holds all it visits.
LEMMA PathIn ==
    ASSUME NEW k, NEW S \in Closed(k)
    PROVE  Path(k) \subseteq S
BY DEF Path

\* Every node visited but head was reached from another.
LEMMA PathPred ==
    ASSUME Inv, NEW k, NEW n \in Path(k), n # head
    PROVE  \E q \in Path(k) : Onward(q, k) = n
<1> SUFFICES ASSUME \A q \in Path(k) : Onward(q, k) # n
             PROVE  FALSE
  OBVIOUS
<1>1. Path(k) \ {n} \in Closed(k)
  BY PathRules, TreeFacts DEF Closed
<1> QED
  BY <1>1, PathIn

\* A search ends at one node.
LEMMA PathEnds ==
    ASSUME Inv, NEW k, NEW p \in Path(k), NEW n \in Path(k),
           Onward(p, k) = NULL, Onward(n, k) = NULL
    PROVE  p = n
<1> DEFINE Shut(S) == \A m \in S : Onward(m, k) \in S \cup {NULL}
           Leads == {x \in Path(k) : \A S \in SUBSET Path(k) : x \in S /\ Shut(S) => p \in S}
<1>1. head \in Leads
  <2> SUFFICES ASSUME NEW S \in SUBSET Path(k), head \in S, Shut(S)
               PROVE  p \in S
    BY PathRules
  <2>1. S \in Closed(k)
    BY PathRules, TreeFacts DEF Closed
  <2> QED
    BY <2>1, PathIn
<1>2. ASSUME NEW x \in Leads, Onward(x, k) # NULL
      PROVE  Onward(x, k) \in Leads
  <2>1. Onward(x, k) \in Path(k)
    BY <1>2, PathRules
  <2> SUFFICES ASSUME NEW S \in SUBSET Path(k), Onward(x, k) \in S, Shut(S)
               PROVE  p \in S
    BY <2>1
  <2>2. S \cup {x} \in SUBSET Path(k) /\ Shut(S \cup {x})
    OBVIOUS
  <2>3. p \in S \cup {x}
    BY <2>2
  <2> QED
    BY <1>2, <2>3
<1>3. Leads \in Closed(k)
  <2>1. Leads \subseteq alive \cup {head}
    BY PathRules, TreeFacts
  <2> QED
    BY <1>1, <1>2, <2>1 DEF Closed
<1>4. n \in Leads
  BY <1>3, PathIn
<1>5. {n} \in SUBSET Path(k) /\ Shut({n})
  OBVIOUS
<1> QED
  BY <1>4, <1>5

\* The path of a search after the step.
NewOnward(n, k) ==
    IF name'[n] = k THEN NULL ELSE IF k < name'[n] THEN lchild'[n] ELSE rchild'[n]
NewClosed(k) ==
    {S \in SUBSET (alive' \cup {head}) :
        head \in S /\ \A m \in S : NewOnward(m, k) \in S \cup {NULL}}
NewPath(k) == {n \in alive' \cup {head} : \A S \in NewClosed(k) : n \in S}

LEMMA Primed ==
    /\ (\A n \in Cells : Linked(n)' /\ ~Stale(n)' => n \in NewPath(name'[n])) => Ordered'
    /\ \A t \in Threads :
         (Searching(t)' => /\ parent'[t] \in NewPath(key'[t])
                           /\ name'[parent'[t]] # key'[t]) => OnPath(t)'
BY DEF Ordered, OnPath, Path, Closed, Onward, child, NewPath, NewClosed, NewOnward

\* What has been visited stays visited, if every set that the new search does not
\* leave, with some more nodes, is one the old search did not leave.
LEMMA PathGrows ==
    ASSUME NEW k, NEW X, NEW n \in Path(k), n \notin X, n \in alive' \cup {head},
           \A T \in NewClosed(k) : \E S \in Closed(k) : S \subseteq T \cup X
    PROVE  n \in NewPath(k)
BY DEF Path, NewPath

\* While the tree is left alone, so are the paths.
LEMMA PathStays ==
    ASSUME UNCHANGED <<name, lchild, rchild, alive>>
    PROVE  \A k : NewPath(k) = Path(k)
BY DEF Path, Closed, Onward, child, NewPath, NewClosed, NewOnward

------------------------------------------------------------------------------
(* What the order of the tree says about its nodes *)

Full == Inv /\ OrderInv

\* A node that a thread owns, or has walked over and not yet copied, is not one
\* about to be unlinked.
LEMMA NotStale ==
    ASSUME Inv, NEW t \in Threads, NEW n,
           n \in Holds(t) \/ (n \in walked[t] /\ pc[t] # "unlink")
    PROVE  ~Stale(n)
<1> SUFFICES ASSUME NEW u \in Threads, pc[u] = "unlink", next[u] = n
             PROVE  FALSE
  BY DEF Stale
<1>1. WalkPos(u) /\ SearchPos(u) /\ Walking(u)
  BY DEF Inv, IInv, Walking
<1>2. n \in walked[u] /\ n \notin {parent[u], target[u]}
  BY <1>1 DEF WalkPos
<1>3. CASE u = t
  BY <1>2, <1>3 DEF Holds, HoldsRchild
<1>4. CASE u # t
  BY <1>2, <1>4 DEF Inv, IInv, Private
<1> QED
  BY <1>3, <1>4

\* Left children have smaller names, right ones greater.
LEMMA SideOrder ==
    ASSUME Inv, Ordered, NEW p \in Tree, NEW c \in Cells, Linked(c), ~Stale(c)
    PROVE  /\ lchild[p] = c => name[c] < name[p]
           /\ rchild[p] = c => name[p] < name[c]
<1> DEFINE k == name[c]
<1>1. c \in Path(k) /\ c # head /\ c # NULL
  BY ConstAssumption DEF Ordered
<1>2. PICK q \in Path(k) : Onward(q, k) = c
  BY <1>1, PathPred
<1>3. q \in Tree /\ q \in Node /\ p \in Node /\ Linked(q) /\ Linked(p)
  BY PathRules DEF Tree
<1>4. name[p] \in Nat /\ name[q] \in Nat /\ k \in Nat
  BY <1>3, TreeFacts DEF Node
<1>5. k # name[q] /\ child(q, k) = c
  BY <1>1, <1>2 DEF Onward
<1>6. TreeShape
  BY DEF Inv, IInv
<1>7. CASE lchild[p] = c
  BY <1>1, <1>3, <1>4, <1>5, <1>6, <1>7 DEF TreeShape, child
<1>8. CASE rchild[p] = c
  BY <1>1, <1>3, <1>4, <1>5, <1>6, <1>8 DEF TreeShape, child
<1> QED
  BY <1>7, <1>8

\* No name is in the tree twice, so the map is well defined.
LEMMA FoundOnce ==
    ASSUME Full, NEW k, NEW n \in Found(k)
    PROVE  Found(k) = {n} /\ Lookup(k) = value[n]
<1>1. \A m \in Found(k) : m \in Path(k) /\ Onward(m, k) = NULL
  BY DEF Full, OrderInv, Ordered, Found, Onward
<1>2. \A m \in Found(k) : m = n
  BY <1>1, PathEnds DEF Full
<1> QED
  BY <1>2 DEF Lookup

LEMMA FoundNone ==
    ASSUME NEW k, Found(k) = {}
    PROVE  Lookup(k) = NULL
BY DEF Lookup

\* A search that ends without its name shows that the name is not there.
LEMMA MissIsRight ==
    ASSUME Full, NEW t \in Threads, pc[t] = "miss"
    PROVE  Found(key[t]) = {} /\ Lookup(key[t]) = NULL
<1> DEFINE k == key[t]
<1>1. parent[t] \in Path(k) /\ name[parent[t]] # k
  BY DEF Full, OrderInv, OnPath, Searching
<1>2. child(parent[t], k) = NULL
  BY DEF Full, Inv, IInv, SearchPos
<1>3. Onward(parent[t], k) = NULL
  BY <1>1, <1>2 DEF Onward
<1>4. ASSUME NEW n \in Found(k)
      PROVE  FALSE
  <2>1. n \in Path(k) /\ Onward(n, k) = NULL /\ name[n] = k
    BY DEF Full, OrderInv, Ordered, Found, Onward
  <2> QED
    BY <1>1, <1>3, <2>1, PathEnds DEF Full
<1> QED
  BY <1>4, FoundNone

\* The node a search found is the node of that name.
LEMMA HitIsRight ==
    ASSUME Full, NEW t \in Threads, HoldsTarget(t), pc[t] # "splice_unlock",
           name[target[t]] = key[t]
    PROVE  /\ target[t] \in Found(key[t]) /\ target[t] \in alive
           /\ Lookup(key[t]) = value[target[t]] /\ value[target[t]] \in Values
<1>1. target[t] \in Cells /\ target[t] \in Node /\ target[t] # head
  BY Pointers, ConstAssumption DEF Full, Inv, Node
<1>2. Linked(target[t]) /\ target[t] \in Holds(t)
  BY <1>1 DEF Full, Inv, IInv, SearchPos, Holds
<1>3. target[t] \in Found(key[t]) /\ target[t] \in alive
  BY <1>1, <1>2, NotStale DEF Full, Found, Linked
<1> QED
  BY <1>3, FoundOnce DEF Full, OrderInv

\* The least node of a walk has a greater name than dnode, and a search for it
\* passes dnode.
LEMMA WalkBelow ==
    ASSUME Full, NEW t \in Threads, Walking(t), pc[t] # "unlink"
    PROVE  /\ next[t] \in Path(name[next[t]])
           /\ target[t] \in Path(name[next[t]])
           /\ name[target[t]] < name[next[t]]
<1> DEFINE d == target[t]
           r == rchild[target[t]]
           k == name[next[t]]
<1>1. TypeOK /\ TreeShape /\ WalkPos(t) /\ Inv
  BY DEF Full, Inv, IInv
<1>2. next[t] \in walked[t] /\ r \in walked[t] /\ walked[t] \subseteq Cells
  BY <1>1 DEF WalkPos, TypeOK, LocalsOK
<1>3. \A n \in walked[t] : /\ Linked(n) /\ n # d /\ n \in Node /\ n # head /\ n # NULL
                           /\ n = r \/ \E m \in walked[t] : lchild[m] = n
  BY <1>1, <1>2, ConstAssumption DEF WalkPos, Node
<1>4. d \in Tree /\ d \in Node /\ Linked(d)
  BY <1>1, Walker DEF Tree
<1>5. next[t] \in Path(k)
  BY <1>1, <1>2, <1>3, NotStale DEF Full, OrderInv, Ordered
<1>6. \A q \in Path(k) : q \in Tree /\ q \in Node /\ Linked(q)
  BY <1>1, PathRules DEF Tree
<1>7. r \in Path(k)
  <2> SUFFICES ASSUME r \notin Path(k)
               PROVE  FALSE
    OBVIOUS
  <2>1. ASSUME NEW z \in Path(k) \ walked[t]
        PROVE  Onward(z, k) \in (Path(k) \ walked[t]) \cup {NULL}
    <3>1. Onward(z, k) \in Path(k) \cup {NULL}
      BY <1>1, PathRules
    <3>2. ASSUME Onward(z, k) \in walked[t], Onward(z, k) # NULL
          PROVE  FALSE
      <4>1. PICK m \in walked[t] : lchild[m] = Onward(z, k)
        BY <1>3, <3>1, <3>2
      <4>2. Onward(z, k) \in {lchild[z], rchild[z]}
        BY <3>2 DEF Onward, child
      <4>3. z = m
        BY <1>1, <1>3, <1>6, <3>2, <4>1, <4>2 DEF TreeShape
      <4> QED
        BY <4>3
    <3> QED
      BY <3>1, <3>2
  <2>2. Path(k) \ walked[t] \in Closed(k)
    BY <1>1, <1>3, <2>1, PathRules, TreeFacts DEF Closed
  <2> QED
    BY <1>2, <1>5, <2>2, PathIn
<1>8. PICK q \in Path(k) : Onward(q, k) = r
  BY <1>1, <1>2, <1>3, <1>7, PathPred
<1>9. r # NULL /\ k # name[q] /\ child(q, k) = r
  BY <1>2, <1>3, <1>8 DEF Onward
<1>10. q = d
  BY <1>1, <1>4, <1>6, <1>8, <1>9 DEF TreeShape, child
<1>11. name[d] \in Nat /\ k \in Nat
  BY <1>1, <1>2, <1>3, <1>4, TreeFacts
<1>12. ~(k < name[d])
  BY <1>1, <1>4, <1>9, <1>10 DEF TreeShape, child
<1> QED
  BY <1>5, <1>8, <1>9, <1>10, <1>11, <1>12

------------------------------------------------------------------------------
(* What a step leaves alone *)

\* A thread writes only its own response.
LEMMA OnlyOwnResponse ==
    ASSUME TypeOK, NEW t \in Threads, Run(t), NEW u \in Threads \ {t}
    PROVE  resp'[u] = resp[u]
<1>1. resp \in [Threads -> Responses \cup {NULL}]
  BY DEF TypeOK, ClientOK
<1>2. resp' = resp \/ \E r : resp' = [resp EXCEPT ![t] = r]
  <2>1. CASE interpret_command(t)
    BY <2>1 DEF interpret_command, Respond
  <2>2. CASE Step(t)
    BY <2>2
       DEF Step, Respond, client, lock_head, search, search_lock, search_compare,
           db_query_hit, db_query_read, db_query_return, db_query_miss, db_add_hit,
           db_add_miss, db_remove_miss, db_remove_splice, db_remove_splice_unlock,
           db_remove_splice_free, db_remove_two, db_remove_walk, db_remove_walk_lock,
           db_remove_walk_unlock, db_remove_copy, db_remove_unlink, db_remove_free,
           db_remove_unlock_dnode, unlock_parent
  <2> QED
    BY <2>1, <2>2 DEF Run
<1> QED
  BY <1>1, <1>2

\* A step that writes only nodes others neither own nor have walked over leaves
\* what OrderInv says of them, up to their paths.
LEMMA OthersOrdered ==
    ASSUME Full, NEW t \in Threads, Run(t), NEW u \in Threads \ {t}, NEW W,
           \A n \in Node \ W : lchild'[n] = lchild[n] /\ name'[n] = name[n],
           W \cap (Holds(u) \cup walked[u]) = {}
    PROVE  /\ WalkDown(u)' /\ Answered(u)'
           /\ Searching(u)' => /\ Searching(u) /\ parent[u] \in Holds(u)
                               /\ parent'[u] = parent[u] /\ key'[u] = key[u]
                               /\ name'[parent[u]] # key[u]
<1>1. TypeOK /\ OthersSame(t) /\ resp'[u] = resp[u] /\ WalkPos(u)
  BY OnlyOwnLocals, OnlyOwnResponse DEF Full, Inv, IInv
<1>2. /\ pc'[u] = pc[u] /\ key'[u] = key[u] /\ parent'[u] = parent[u]
      /\ target'[u] = target[u] /\ next'[u] = next[u] /\ walked'[u] = walked[u]
  BY <1>1 DEF OthersSame
<1>3. WalkDown(u) /\ Answered(u) /\ OnPath(u)
  BY DEF Full, OrderInv
<1>4. walked[u] \subseteq Node \ W
  BY <1>1 DEF TypeOK, LocalsOK, Node
<1>5. Walking(u) => next[u] \in walked[u]
  BY <1>1 DEF WalkPos
<1>6. HoldsTarget(u) => target[u] \in Node \ W
  <2>1. HoldsTarget(u) => target[u] \in Node
    BY Pointers DEF Full, Inv, Node
  <2> QED
    BY <2>1 DEF Holds
<1>7. HoldsParent(u) => parent[u] \in Node \ W /\ parent[u] \in Holds(u)
  BY <1>1 DEF Holds, TypeOK, LocalsOK
<1>8. WalkDown(u)'
  BY <1>2, <1>3, <1>4, <1>5 DEF WalkDown, Walking
<1>9. Answered(u)'
  BY <1>1, <1>2, <1>3, <1>4, <1>5, <1>6 DEF Answered, Walking, Searching, HoldsTarget
<1> QED
  BY <1>2, <1>3, <1>7, <1>8, <1>9 DEF OnPath, Searching, HoldsParent

------------------------------------------------------------------------------
(* Steps that do not write the tree *)

Reading(t) ==
    \/ interpret_command(t) \/ lock_head(t) \/ search(t) \/ search_lock(t)
    \/ search_compare(t) \/ db_query_hit(t) \/ db_query_read(t) \/ db_query_return(t)
    \/ db_query_miss(t) \/ db_add_hit(t) \/ db_remove_miss(t)
    \/ db_remove_splice_unlock(t) \/ db_remove_two(t) \/ db_remove_walk(t)
    \/ db_remove_walk_lock(t) \/ db_remove_walk_unlock(t)
    \/ db_remove_unlock_dnode(t) \/ unlock_parent(t)

LEMMA ReadingFacts ==
    ASSUME TypeOK, NEW t \in Threads, Reading(t)
    PROVE  /\ Run(t) /\ UNCHANGED heap /\ pc[t] # "unlink" /\ pc'[t] # "unlink"
           /\ \A n \in Node : Linked(n)' <=> Linked(n)
           /\ \A n : Stale(n)' <=> Stale(n)
<1> USE DEF Goto, TypeOK, LocalsOK, DetachedBy, locals
<1>1. Run(t)
  BY DEF Run, Step, Reading
<1>2. OthersSame(t)
  BY <1>1, OnlyOwnLocals
<1>3. /\ UNCHANGED heap /\ pc[t] # "unlink" /\ pc'[t] # "unlink"
      /\ \A n \in Node : DetachedBy(t, n)' <=> DetachedBy(t, n)
  <2>1. CASE interpret_command(t) \/ lock_head(t) \/ search(t) \/ search_lock(t)
    BY <2>1 DEF interpret_command, lock_head, search, search_lock
  <2>2. CASE search_compare(t)
    BY <2>2 DEF search_compare
  <2>3. CASE \/ db_query_hit(t) \/ db_query_read(t) \/ db_query_return(t)
             \/ db_query_miss(t) \/ db_add_hit(t) \/ db_remove_miss(t)
    BY <2>3 DEF db_query_hit, db_query_read, db_query_return, db_query_miss, db_add_hit,
                db_remove_miss
  <2>4. CASE \/ db_remove_splice_unlock(t) \/ db_remove_two(t) \/ db_remove_walk(t)
             \/ db_remove_walk_lock(t) \/ db_remove_walk_unlock(t)
    BY <2>4 DEF db_remove_splice_unlock, db_remove_two, db_remove_walk,
                db_remove_walk_lock, db_remove_walk_unlock
  <2>5. CASE db_remove_unlock_dnode(t) \/ unlock_parent(t)
    BY <2>5 DEF db_remove_unlock_dnode, unlock_parent
  <2> QED
    BY <2>1, <2>2, <2>3, <2>4, <2>5 DEF Reading
<1>4. \A n \in Node : Linked(n)' <=> Linked(n)
  BY <1>2, <1>3, SameLinked DEF heap
<1>5. \A n : Stale(n)' <=> Stale(n)
  BY <1>2, <1>3 DEF Stale, OthersSame
<1> QED
  BY <1>1, <1>3, <1>4, <1>5

\* A search moves down its path.
LEMMA ReadingOnPath ==
    ASSUME Full, NEW t \in Threads, Reading(t)
    PROVE  OnPath(t)'
<1>1. TypeOK /\ Inv /\ OnPath(t) /\ SearchPos(t) /\ name[head] = 0
  BY DEF Full, Inv, IInv, OrderInv
<1>2. UNCHANGED <<name, lchild, rchild, alive>>
  BY <1>1, ReadingFacts DEF heap
<1> SUFFICES ASSUME Searching(t)'
             PROVE  parent'[t] \in Path(key'[t]) /\ name[parent'[t]] # key'[t]
  BY <1>2, PathStays, Primed
<1> USE DEF Goto, TypeOK, LocalsOK, ClientOK, locals, client, Searching
<1>3. CASE lock_head(t)
  <2>1. parent'[t] = head /\ key'[t] \in Names
    BY <1>1, <1>3 DEF lock_head
  <2> QED
    BY <1>1, <2>1, PathRules, ConstAssumption
<1>4. CASE search(t) \/ search_lock(t)
  <2>1. parent'[t] = parent[t] /\ key'[t] = key[t] /\ Searching(t)
    BY <1>1, <1>4 DEF search, search_lock
  <2> QED
    BY <1>1, <2>1 DEF OnPath
<1>5. CASE search_compare(t)
  <2>1. pc[t] = "compare" /\ key'[t] = key[t]
    BY <1>1, <1>5 DEF search_compare
  <2>2. parent[t] \in Path(key[t]) /\ name[parent[t]] # key[t]
    BY <1>1, <2>1 DEF OnPath
  <2>3. target[t] # NULL /\ target[t] = Onward(parent[t], key[t])
    BY <1>1, <2>1, <2>2 DEF SearchPos, Onward
  <2>4. target[t] \in Path(key[t])
    BY <1>1, <2>2, <2>3, PathRules
  <2>5. \/ parent'[t] = parent[t]
        \/ parent'[t] = target[t] /\ name[target[t]] # key[t]
    BY <1>1, <1>5 DEF search_compare
  <2> QED
    BY <2>1, <2>2, <2>4, <2>5
<1>6. CASE \/ interpret_command(t)
           \/ db_query_hit(t) \/ db_query_read(t) \/ db_query_return(t)
           \/ db_query_miss(t) \/ db_add_hit(t) \/ db_remove_miss(t)
           \/ db_remove_splice_unlock(t) \/ db_remove_two(t) \/ db_remove_walk(t)
           \/ db_remove_walk_lock(t) \/ db_remove_walk_unlock(t)
           \/ db_remove_unlock_dnode(t) \/ unlock_parent(t)
  BY <1>1, <1>6
     DEF interpret_command, db_query_hit, db_query_read, db_query_return, db_query_miss,
         db_add_hit, db_remove_miss, db_remove_splice_unlock, db_remove_two,
         db_remove_walk, db_remove_walk_lock, db_remove_walk_unlock,
         db_remove_unlock_dnode, unlock_parent
<1> QED
  BY <1>3, <1>4, <1>5, <1>6 DEF Reading

\* A walk goes down to smaller names.
LEMMA ReadingWalkDown ==
    ASSUME Full, NEW t \in Threads, Reading(t)
    PROVE  WalkDown(t)'
<1>1. TypeOK /\ Inv /\ WalkDown(t) /\ WalkPos(t) /\ Ordered
  BY DEF Full, Inv, IInv, OrderInv
<1>2. UNCHANGED <<name, lchild, rchild, alive>>
  BY <1>1, ReadingFacts DEF heap
<1> USE DEF Goto, TypeOK, LocalsOK, locals, Walking
<1>3. CASE db_remove_two(t)
  <2>1. walked'[t] = {next'[t]} /\ pc'[t] = "walk"
    BY <1>1, <1>3 DEF db_remove_two
  <2> QED
    BY <2>1 DEF WalkDown
<1>4. CASE db_remove_walk(t) \/ db_remove_walk_lock(t)
  <2>1. /\ walked'[t] = walked[t] /\ next'[t] = next[t] /\ Walking(t)
        /\ pc'[t] # "unlink" /\ (pc'[t] = "copy" => lchild[next[t]] = NULL)
    BY <1>1, <1>4 DEF db_remove_walk, db_remove_walk_lock
  <2> QED
    BY <1>1, <1>2, <2>1 DEF WalkDown
<1>5. CASE db_remove_walk_unlock(t)
  <2> DEFINE l == lchild[next[t]]
  <2>1. /\ walked'[t] = walked[t] \cup {l} /\ next'[t] = l /\ pc'[t] = "walk"
        /\ pc[t] = "walk_unlock"
    BY <1>1, <1>5 DEF db_remove_walk_unlock
  <2>2. l = nextl[t] /\ l # NULL /\ next[t] \in walked[t] /\ Linked(next[t])
    BY <1>1, <2>1 DEF WalkPos
  <2>3. next[t] \in Tree /\ walked[t] \subseteq Node
    BY <1>1, <2>1, <2>2, Walker DEF Tree
  <2>4. l \in Tree /\ l # head /\ l \in Cells
    BY <1>1, <2>2, <2>3, TreeFacts DEF Tree, Node
  <2>5. Linked(l) /\ ~Stale(l)
    <3>1. l \in Holds(t)
      BY <2>1, <2>2, <2>4 DEF Holds, Tree
    <3> QED
      BY <1>1, <2>4, <3>1, NotStale DEF Tree
  <2>6. name[l] < name[next[t]]
    BY <1>1, <2>3, <2>4, <2>5, SideOrder
  <2>7. \A m \in walked[t] \cup {l} : name[m] \in Nat
    BY <1>1, <2>3, <2>4, TreeFacts DEF Tree
  <2>8. \A m \in walked[t] \ {next[t]} : lchild[m] \in walked[t] /\ name[next[t]] < name[m]
    BY <1>1, <2>1 DEF WalkDown
  <2> HIDE DEF l
  <2>9. \A m \in walked[t] : lchild[m] \in walked[t] \cup {l} /\ name[l] < name[m]
    <3> SUFFICES ASSUME NEW m \in walked[t]
                 PROVE  lchild[m] \in walked[t] \cup {l} /\ name[l] < name[m]
      OBVIOUS
    <3>1. CASE m = next[t]
      BY <2>6, <3>1 DEF l
    <3>2. CASE m # next[t]
      <4>1. name[l] \in Nat /\ name[next[t]] \in Nat /\ name[m] \in Nat
        BY <2>2, <2>7
      <4> QED
        BY <2>6, <2>8, <3>2, <4>1
    <3> QED
      BY <3>1, <3>2
  <2> QED
    BY <1>2, <2>1, <2>9 DEF WalkDown
<1>6. CASE \/ interpret_command(t) \/ lock_head(t) \/ search(t) \/ search_lock(t)
           \/ db_query_hit(t) \/ db_query_read(t) \/ db_query_return(t)
           \/ db_query_miss(t) \/ db_add_hit(t) \/ db_remove_miss(t)
           \/ db_remove_splice_unlock(t) \/ db_remove_unlock_dnode(t) \/ unlock_parent(t)
  BY <1>1, <1>6
     DEF WalkDown, interpret_command, lock_head, search, search_lock, db_query_hit,
         db_query_read, db_query_return, db_query_miss, db_add_hit, db_remove_miss,
         db_remove_splice_unlock, db_remove_unlock_dnode, unlock_parent
<1>7. CASE search_compare(t)
  BY <1>1, <1>7 DEF WalkDown, search_compare
<1> QED
  BY <1>3, <1>4, <1>5, <1>6, <1>7 DEF Reading

\* Responses are written when a command takes effect.
LEMMA ReadingAnswered ==
    ASSUME Full, NEW t \in Threads, Reading(t)
    PROVE  Answered(t)'
<1>1. TypeOK /\ Inv /\ Answered(t) /\ SearchPos(t) /\ PcCmd(t)
  BY DEF Full, Inv, IInv, OrderInv
<1>2. UNCHANGED name
  BY <1>1, ReadingFacts DEF heap
<1>3. /\ pc \in [Threads -> PCs] /\ key \in [Threads -> Names]
      /\ target \in [Threads -> Ptr] /\ resp \in [Threads -> Responses \cup {NULL}]
  BY <1>1 DEF TypeOK, LocalsOK, ClientOK
<1> USE DEF Goto, Respond, locals, client, Walking, Searching, Answered
<1>4. CASE interpret_command(t)
  BY <1>3, <1>4 DEF interpret_command
<1>5. CASE lock_head(t) \/ search(t) \/ search_lock(t)
  BY <1>1, <1>3, <1>5 DEF lock_head, search, search_lock
<1>6. CASE search_compare(t)
  BY <1>1, <1>3, <1>6 DEF search_compare
<1>7. CASE db_query_hit(t)
  BY <1>1, <1>2, <1>3, <1>7 DEF db_query_hit, SearchPos
<1>8. CASE db_query_read(t)
  <2>1. HoldsTarget(t) /\ pc[t] = "query_read" /\ name[target[t]] = key[t]
    BY <1>1, <1>8 DEF db_query_read, HoldsTarget
  <2>2. value[target[t]] # NULL
    BY <2>1, HitIsRight, ConstAssumption DEF Responses
  <2> QED
    BY <1>3, <1>8, <2>2 DEF db_query_read
<1>9. CASE db_query_miss(t) \/ db_add_hit(t) \/ db_remove_miss(t)
  <2>1. NULL \notin {"not found", "already in database", "not in database"}
    BY ConstAssumption DEF Responses
  <2>2. /\ pc'[t] = "unlock_parent"
        /\ resp'[t] \in {"not found", "already in database", "not in database"}
    BY <1>3, <1>9 DEF db_query_miss, db_add_hit, db_remove_miss
  <2> QED
    BY <2>1, <2>2
<1>10. CASE \/ db_query_return(t) \/ db_remove_splice_unlock(t)
            \/ db_remove_unlock_dnode(t) \/ unlock_parent(t)
  BY <1>1, <1>3, <1>10 DEF db_query_return, db_remove_splice_unlock,
                           db_remove_unlock_dnode, unlock_parent
<1>11. CASE \/ db_remove_two(t) \/ db_remove_walk(t) \/ db_remove_walk_lock(t)
            \/ db_remove_walk_unlock(t)
  <2>1. /\ pc'[t] \in {"walk", "walk_lock", "walk_unlock", "copy"}
        /\ target'[t] = target[t] /\ key'[t] = key[t] /\ resp'[t] = resp[t]
        /\ pc[t] = "hit" \/ (Walking(t) /\ pc[t] # "unlink")
    BY <1>3, <1>11 DEF db_remove_two, db_remove_walk, db_remove_walk_lock,
                       db_remove_walk_unlock
  <2> QED
    BY <1>1, <1>2, <2>1 DEF SearchPos
<1> QED
  BY <1>4, <1>5, <1>6, <1>7, <1>8, <1>9, <1>10, <1>11 DEF Reading

LEMMA ReadingOrder ==
    ASSUME Full, NEW t \in Threads, Reading(t)
    PROVE  OrderInv'
<1>1. TypeOK /\ OrderInv /\ Inv
  BY DEF Full, Inv, IInv
<1>2. /\ Run(t) /\ UNCHANGED heap
      /\ \A n \in Node : Linked(n)' <=> Linked(n)
      /\ \A n : Stale(n)' <=> Stale(n)
  BY <1>1, ReadingFacts
<1>3. UNCHANGED <<name, value, lchild, rchild, alive>>
  BY <1>2 DEF heap
<1>4. Ordered'
  <2>1. Cells \subseteq Node
    BY DEF Node
  <2> QED
    BY <1>1, <1>2, <1>3, <2>1, PathStays, Primed DEF OrderInv, Ordered
<1>5. ASSUME NEW u \in Threads \ {t}
      PROVE  OnPath(u)' /\ WalkDown(u)' /\ Answered(u)'
  <2>1. \A n \in Node \ {} : lchild'[n] = lchild[n] /\ name'[n] = name[n]
    BY <1>3
  <2>2. {} \cap (Holds(u) \cup walked[u]) = {}
    OBVIOUS
  <2>3. /\ WalkDown(u)' /\ Answered(u)'
        /\ Searching(u)' => /\ Searching(u) /\ parent'[u] = parent[u] /\ key'[u] = key[u]
                            /\ name'[parent[u]] # key[u]
    BY <1>2, <2>1, <2>2, OthersOrdered
  <2>4. Searching(u) => parent[u] \in Path(key[u])
    BY <1>1 DEF OrderInv, OnPath
  <2>5. OnPath(u)'
    BY <1>3, <2>3, <2>4, PathStays, Primed
  <2> QED
    BY <2>3, <2>5
<1>6. OnPath(t)' /\ WalkDown(t)' /\ Answered(t)'
  BY ReadingOnPath, ReadingWalkDown, ReadingAnswered
<1> QED
  BY <1>1, <1>3, <1>4, <1>5, <1>6 DEF OrderInv

------------------------------------------------------------------------------
(* Steps that write the tree *)

\* What is left to show of a step that writes the nodes W.
LEMMA WritingOrder ==
    ASSUME Full, NEW t \in Threads, Run(t), NEW W,
           \A n \in Node \ W : lchild'[n] = lchild[n] /\ name'[n] = name[n],
           \A u \in Threads \ {t} : W \cap (Holds(u) \cup walked[u]) = {},
           \A n \in Cells : Linked(n)' /\ ~Stale(n)' => n \in NewPath(name'[n]),
           \A u \in Threads \ {t} :
             Searching(u) /\ parent[u] \in Holds(u) /\ parent[u] \in Path(key[u]) =>
               parent[u] \in NewPath(key[u]),
           \A n \in alive' : name'[n] \in Names /\ value'[n] \in Values,
           name'[head] = 0, ~Searching(t)', WalkDown(t)', Answered(t)'
    PROVE  OrderInv'
<1>1. Ordered'
  BY Primed
<1>2. ASSUME NEW u \in Threads \ {t}
      PROVE  OnPath(u)' /\ WalkDown(u)' /\ Answered(u)'
  <2>1. W \cap (Holds(u) \cup walked[u]) = {}
    OBVIOUS
  <2>2. /\ WalkDown(u)' /\ Answered(u)'
        /\ Searching(u)' => /\ Searching(u) /\ parent[u] \in Holds(u)
                            /\ parent'[u] = parent[u] /\ key'[u] = key[u]
                            /\ name'[parent[u]] # key[u]
    BY <2>1, OthersOrdered
  <2>3. Searching(u) => parent[u] \in Path(key[u])
    BY DEF Full, OrderInv, OnPath
  <2>4. OnPath(u)'
    BY <2>2, <2>3, Primed
  <2> QED
    BY <2>2, <2>4
<1>3. OnPath(t)'
  BY DEF OnPath
<1> QED
  BY <1>1, <1>2, <1>3 DEF OrderInv

\* node_destructor takes away a node no search visits.
LEMMA FreeOrder ==
    ASSUME Full, NEW t \in Threads, db_remove_splice_free(t) \/ db_remove_free(t)
    PROVE  OrderInv' /\ \A k : Found(k)' = Found(k)
<1>1. /\ TypeOK /\ Inv /\ OrderInv /\ Run(t) /\ OthersSame(t) /\ Answered(t)
  BY OnlyOwnLocals DEF Run, Step, Full, Inv, IInv, OrderInv
<1>2. PICK f : /\ DetachedBy(t, f) /\ alive' = alive \ {f}
               /\ f = IF pc[t] = "splice_free" THEN target[t] ELSE next[t]
  BY DEF db_remove_splice_free, db_remove_free, DetachedBy
<1>3. /\ name' = name /\ lchild' = lchild /\ rchild' = rchild /\ value' = value
      /\ resp'[t] = resp[t] /\ UNCHANGED locals
      /\ \/ pc[t] = "splice_free" /\ pc'[t] = "unlock_parent"
         \/ pc[t] = "free_next" /\ pc'[t] = "unlock_dnode"
  BY <1>1 DEF db_remove_splice_free, db_remove_free, client, Goto, TypeOK, LocalsOK
<1>4. f # head /\ Cells \subseteq Node
  BY <1>1, <1>2, ConstAssumption DEF TypeOK, LocalsOK, Ptr, Node
<1>5. \A n \in Node : Linked(n)' <=> Linked(n)
  <2>1. \A u \in Threads \ {t}, n \in Node : DetachedBy(u, n)' <=> DetachedBy(u, n)
    BY <1>1 DEF OthersSame, DetachedBy
  <2>2. \A n \in Node : ~DetachedBy(t, n)' /\ (DetachedBy(t, n) <=> n = f)
    BY <1>2, <1>3 DEF DetachedBy
  <2> QED
    BY <1>2, <1>4, <2>1, <2>2 DEF Linked
<1>6. \A n : Stale(n)' <=> Stale(n)
  BY <1>1, <1>3 DEF Stale, OthersSame
<1>7. ASSUME NEW k, NEW n \in Path(k)
      PROVE  n \in NewPath(k)
  <2>1. n \in alive' \cup {head}
    <3>1. n \in Node /\ Linked(n)
      BY <1>1, PathRules DEF Tree
    <3> QED
      BY <1>5, <3>1 DEF Linked
  <2>2. \A T \in NewClosed(k) : T \in Closed(k)
    BY <1>2, <1>3 DEF NewClosed, Closed, NewOnward, Onward, child
  <2>3. \A T \in NewClosed(k) : \E S \in Closed(k) : S \subseteq T \cup {}
    BY <2>2
  <2> QED
    BY <2>1, <2>3, PathGrows
<1>8. OrderInv'
  <2>1. \A n \in Node \ {} : lchild'[n] = lchild[n] /\ name'[n] = name[n]
    BY <1>3
  <2>2. \A u \in Threads \ {t} : {} \cap (Holds(u) \cup walked[u]) = {}
    OBVIOUS
  <2>3. \A n \in Cells : Linked(n)' /\ ~Stale(n)' => n \in NewPath(name'[n])
    BY <1>1, <1>3, <1>4, <1>5, <1>6, <1>7 DEF OrderInv, Ordered
  <2>4. /\ \A n \in alive' : name'[n] \in Names /\ value'[n] \in Values
        /\ name'[head] = 0
    BY <1>1, <1>2, <1>3 DEF OrderInv
  <2>5. ~Searching(t)' /\ WalkDown(t)' /\ Answered(t)'
    BY <1>1, <1>3 DEF Searching, WalkDown, Walking, Answered
  <2> QED
    BY <1>1, <1>7, <2>1, <2>2, <2>3, <2>4, <2>5, WritingOrder
<1> QED
  BY <1>3, <1>4, <1>5, <1>6, <1>8 DEF Found

\* db_add prolongs the path of the name it adds, and shortens none.
LEMMA AddOrder ==
    ASSUME Full, NEW t \in Threads, db_add_miss(t)
    PROVE  OrderInv'
<1> DEFINE p == parent[t]
<1>1. /\ TypeOK /\ Inv /\ OrderInv /\ Run(t) /\ OthersSame(t) /\ Answered(t) /\ OnPath(t)
      /\ SearchPos(t)
  BY OnlyOwnLocals DEF Run, Step, Full, Inv, IInv, OrderInv
<1>2. PICK n \in Cells :
        /\ n \notin alive /\ node_constructor(t, n)
        /\ n \in Node /\ n # head /\ n # NULL /\ n # p /\ ~Linked(n)
        /\ \A u \in Threads : /\ n \notin Holds(u) /\ n \notin walked[u]
                              /\ ~DetachedBy(u, n)
        /\ \A m \in Node : Linked(m)' <=> Linked(m) \/ m = n
        /\ lchild'[n] = NULL /\ rchild'[n] = NULL
        /\ \/ /\ lchild[p] = NULL /\ lchild'[p] = n /\ rchild'[p] = rchild[p]
           \/ /\ rchild[p] = NULL /\ rchild'[p] = n /\ lchild'[p] = lchild[p]
        /\ \A m \in Node \ {p, n} : /\ lchild'[m] = lchild[m] /\ rchild'[m] = rchild[m]
                                    /\ name'[m] = name[m]
  BY <1>1, Added
<1>3. /\ pc[t] = "miss" /\ pc'[t] = "unlock_parent" /\ key[t] \in Names /\ val[t] \in Values
      /\ resp'[t] = "added" /\ UNCHANGED locals
  BY <1>1 DEF db_add_miss, Goto, Respond, TypeOK, LocalsOK, ClientOK
<1>4. /\ alive' = alive \cup {n} /\ name'[n] = key[t] /\ value'[n] = val[t]
      /\ \A m \in Node \ {n} : name'[m] = name[m] /\ value'[m] = value[m]
  BY <1>1, <1>2 DEF node_constructor, TypeOK, HeapOK
<1>5. /\ p \in Node /\ p \in Holds(t) /\ Mode(t) = "l_write" /\ p \in Path(key[t])
      /\ name[p] # key[t] /\ child(p, key[t]) = NULL /\ p \in Tree
  <2>1. p \in Path(key[t]) /\ name[p] # key[t] /\ child(p, key[t]) = NULL
    BY <1>1, <1>3 DEF OnPath, Searching, SearchPos
  <2>2. Mode(t) = "l_write" /\ p \in Node /\ p \in Holds(t)
    BY <1>1, <1>3 DEF db_add_miss, Mode, TypeOK, LocalsOK, Holds, HoldsParent
  <2> QED
    BY <1>1, <2>1, <2>2, PathRules
\* every set closed for a new search is closed for the old one
<1>6. ASSUME NEW k, NEW T \in NewClosed(k)
      PROVE  T \cap Tree \in Closed(k)
  <2>1. head \in T \cap Tree /\ T \cap Tree \subseteq alive \cup {head}
    BY <1>1, TreeFacts DEF NewClosed
  <2>2. ASSUME NEW m \in T \cap Tree, Onward(m, k) # NULL
        PROVE  Onward(m, k) \in T \cap Tree
    <3>1. Onward(m, k) \in Tree /\ m # n /\ m \in Node
      BY <1>1, <1>2, <2>2, TreeFacts DEF Tree
    <3>2. NewOnward(m, k) \in T \cup {NULL}
      BY DEF NewClosed
    <3>3. NewOnward(m, k) = Onward(m, k)
      <4>1. name'[m] = name[m]
        BY <1>4, <3>1
      <4>2. CASE m # p
        BY <1>2, <3>1, <4>1, <4>2 DEF NewOnward, Onward, child
      <4>3. CASE m = p
        BY <1>2, <2>2, <4>1, <4>3 DEF NewOnward, Onward, child
      <4> QED
        BY <4>2, <4>3
    <3> QED
      BY <2>2, <3>1, <3>2, <3>3
  <2> QED
    BY <2>1, <2>2 DEF Closed
<1>7. ASSUME NEW k, NEW m \in Path(k)
      PROVE  m \in NewPath(k)
  <2>1. m \in alive' \cup {head}
    BY <1>4 DEF Path
  <2>2. \A T \in NewClosed(k) : \E S \in Closed(k) : S \subseteq T \cup {}
    BY <1>6
  <2> QED
    BY <2>1, <2>2, PathGrows
<1>8. n \in NewPath(key[t])
  <2>1. p \in NewPath(key[t])
    BY <1>5, <1>7
  <2>2. NewOnward(p, key[t]) = n
    <3>1. name'[p] = name[p] /\ name[p] \in Nat /\ key[t] \in Nat
      BY <1>1, <1>2, <1>3, <1>4, <1>5, TreeFacts, NamesNat
    <3>2. \/ key[t] < name[p] /\ lchild'[p] = n
          \/ key[t] >= name[p] /\ rchild'[p] = n
      BY <1>1, <1>2, <1>5 DEF node_constructor, TypeOK, HeapOK
    <3> QED
      BY <1>5, <3>1, <3>2 DEF NewOnward
  <2> QED
    BY <1>2, <1>4, <2>1, <2>2 DEF NewPath, NewClosed
<1>9. \A m \in Cells : Linked(m)' /\ ~Stale(m)' => m \in NewPath(name'[m])
  <2> SUFFICES ASSUME NEW m \in Cells, Linked(m)', ~Stale(m)'
               PROVE  m \in NewPath(name'[m])
    OBVIOUS
  <2>1. CASE m = n
    BY <1>4, <1>8, <2>1
  <2>2. CASE m # n
    <3>1. m \in Node /\ Linked(m) /\ name'[m] = name[m]
      BY <1>2, <1>4, <2>2 DEF Node
    <3>2. ~Stale(m)
      BY <1>1, <1>3 DEF Stale, OthersSame
    <3> QED
      BY <1>1, <1>7, <3>1, <3>2 DEF OrderInv, Ordered
  <2> QED
    BY <2>1, <2>2
<1>10. \A m \in Node \ {p, n} : lchild'[m] = lchild[m] /\ name'[m] = name[m]
  BY <1>2
<1>11. \A u \in Threads \ {t} : {p, n} \cap (Holds(u) \cup walked[u]) = {}
  BY <1>1, <1>2, <1>5, WriteApart
<1>12. \A m \in alive' : name'[m] \in Names /\ value'[m] \in Values
  <2>1. alive \subseteq Node \ {n}
    BY <1>1, <1>2 DEF TypeOK, HeapOK, Node
  <2> QED
    BY <1>1, <1>3, <1>4, <2>1 DEF OrderInv
<1>13. name'[head] = 0
  BY <1>1, <1>2, <1>4 DEF OrderInv, Node
<1>14. ~Searching(t)' /\ WalkDown(t)' /\ Answered(t)'
  <2>1. NULL # "added"
    BY ConstAssumption DEF Responses
  <2> QED
    BY <1>3, <2>1 DEF Searching, WalkDown, Walking, Answered
<1> QED
  BY <1>1, <1>7, <1>9, <1>10, <1>11, <1>12, <1>13, <1>14, WritingOrder

\* A node x with one child or none, taken out of the tree, leaves every other node
\* on the paths it was on.
LEMMA BypassPath ==
    ASSUME Inv, NEW w \in Tree, NEW x \in Tree, NEW c \in Ptr,
           name' = name, alive' = alive, x # head,
           lchild[x] \in {c, NULL}, rchild[x] \in {c, NULL},
           \/ /\ lchild[w] = x /\ lchild' = [lchild EXCEPT ![w] = c]
              /\ rchild' = rchild
           \/ /\ rchild[w] = x /\ rchild' = [rchild EXCEPT ![w] = c]
              /\ lchild' = lchild,
           NEW k, NEW n \in Path(k), n # x
    PROVE  n \in NewPath(k)
<1>1. TypeOK /\ TreeShape
  BY DEF Inv, IInv
<1>2. /\ w \in Node /\ x \in Node /\ Linked(w) /\ Linked(x) /\ x # NULL
      /\ lchild \in [Node -> Ptr] /\ rchild \in [Node -> Ptr]
  BY <1>1, TreeFacts DEF Tree, TypeOK, HeapOK
<1>3. ASSUME NEW m \in Tree
      PROVE  \/ NewOnward(m, k) = Onward(m, k)
             \/ m = w /\ Onward(m, k) = x /\ NewOnward(m, k) = c
  <2>1. m \in Node
    BY DEF Tree
  <2> QED
    BY <1>2, <2>1 DEF NewOnward, Onward, child
<1>4. Onward(x, k) \in {c, NULL}
  BY DEF Onward, child
<1>5. ASSUME NEW T \in NewClosed(k)
      PROVE  \E S \in Closed(k) : S \subseteq T \cup {x}
  <2>1. /\ head \in T /\ T \subseteq alive \cup {head}
        /\ \A m \in T : NewOnward(m, k) \in T \cup {NULL}
    BY DEF NewClosed
  <2>2. head \in Tree /\ Tree \subseteq alive \cup {head}
        /\ \A m \in Tree : Onward(m, k) \in Tree \cup {NULL}
    BY TreeFacts
  <2>3. CASE c \in T \cup {NULL}
    <3>1. (T \cap Tree) \cup {x} \in Closed(k)
      BY <1>3, <1>4, <2>1, <2>2, <2>3 DEF Closed
    <3> QED
      BY <3>1
  <2>4. CASE c \notin T \cup {NULL}
    <3>1. T \cap Tree \in Closed(k)
      BY <1>3, <1>4, <2>1, <2>2, <2>4 DEF Closed
    <3> QED
      BY <3>1
  <2> QED
    BY <2>3, <2>4
<1>6. n \notin {x} /\ n \in alive' \cup {head}
  BY DEF Path
<1> QED
  BY <1>5, <1>6, PathGrows

\* Both cases of db_remove take a node out of the tree that has one child at most.
LEMMA DetachOrder ==
    ASSUME Full, NEW t \in Threads, Run(t), name' = name, alive' = alive, value' = value,
           Mode(t) = "l_write", NEW w \in Tree, NEW x \in Tree, NEW c \in Ptr, x # head,
           w \in walked[t] \cup Holds(t), x \in walked[t] \cup Holds(t),
           lchild[x] \in {c, NULL}, rchild[x] \in {c, NULL},
           \/ /\ lchild[w] = x /\ lchild' = [lchild EXCEPT ![w] = c]
              /\ rchild' = rchild
           \/ /\ rchild[w] = x /\ rchild' = [rchild EXCEPT ![w] = c]
              /\ lchild' = lchild,
           \A n \in Node : Linked(n)' <=> Linked(n) /\ n # x,
           \A n \in Cells : Stale(n) /\ n # x => Stale(n)',
           ~Searching(t)', WalkDown(t)', Answered(t)'
    PROVE  OrderInv'
<1>1. TypeOK /\ Inv /\ OrderInv /\ Cells \subseteq Node /\ w \in Node /\ x \in Node
  BY DEF Full, Inv, IInv, Node, Tree
<1>2. \A k : \A n \in Path(k) : n # x => n \in NewPath(k)
  BY <1>1, BypassPath
<1>3. \A n \in Cells : Linked(n)' /\ ~Stale(n)' => n \in NewPath(name'[n])
  BY <1>1, <1>2 DEF OrderInv, Ordered
<1>4. \A n \in Node \ {w} : lchild'[n] = lchild[n] /\ name'[n] = name[n]
  BY <1>1 DEF TypeOK, HeapOK
<1>5. \A u \in Threads \ {t} : /\ {w} \cap (Holds(u) \cup walked[u]) = {}
                               /\ x \notin Holds(u)
  BY <1>1, WriteApart
<1>6. \A u \in Threads \ {t} :
        Searching(u) /\ parent[u] \in Holds(u) /\ parent[u] \in Path(key[u]) =>
          parent[u] \in NewPath(key[u])
  BY <1>2, <1>5
<1>7. /\ \A n \in alive' : name'[n] \in Names /\ value'[n] \in Values
      /\ name'[head] = 0
  BY <1>1 DEF OrderInv
<1> QED
  BY <1>3, <1>4, <1>5, <1>6, <1>7, WritingOrder

\* db_remove of a node d with one child at most.
LEMMA SpliceOrder ==
    ASSUME Full, NEW t \in Threads, db_remove_splice(t)
    PROVE  /\ OrderInv'
           /\ target[t] \in Found(key[t]) /\ Lookup(key[t]) = value[target[t]]
           /\ value[target[t]] \in Values
           /\ \A k : Found(k)' = Found(k) \ {target[t]}
<1> DEFINE d == target[t]
           p == parent[t]
<1>1. /\ Run(t) /\ TypeOK /\ SearchPos(t) /\ WalkPos(t) /\ OthersSame(t) /\ Inv
      /\ TreeShape
  BY OnlyOwnLocals DEF Run, Step, Full, Inv, IInv
<1>2. /\ name' = name /\ alive' = alive /\ value' = value /\ UNCHANGED locals
      /\ cmd[t] = "d" /\ pc[t] = "hit" /\ pc'[t] = "splice_unlock"
      /\ Mode(t) = "l_write" /\ resp'[t] = "removed"
  BY <1>1 DEF db_remove_splice, Goto, Respond, TypeOK, LocalsOK, ClientOK, Mode
<1>3. /\ p \in Node /\ d \in Cells /\ d \in Node /\ p # d /\ d # NULL /\ d # head
      /\ p \in Holds(t) /\ d \in Holds(t) /\ Linked(p) /\ Linked(d)
      /\ d = child(p, key[t]) /\ name[d] = key[t]
  BY <1>1, <1>2, Pointers, ConstAssumption
     DEF TypeOK, LocalsOK, Node, Inv, SearchPos, HoldsParent, HoldsTarget, Holds
<1>4. PICK c \in Ptr : /\ lchild[d] \in {c, NULL} /\ rchild[d] \in {c, NULL}
                       /\ link(p, name[d], c)
  BY <1>1, <1>3 DEF db_remove_splice, TypeOK, HeapOK
<1>5. \/ /\ lchild[p] = d /\ lchild' = [lchild EXCEPT ![p] = c] /\ rchild' = rchild
      \/ /\ rchild[p] = d /\ rchild' = [rchild EXCEPT ![p] = c] /\ lchild' = lchild
  <2>1. name[d] \in Nat /\ name[p] \in Nat
    BY <1>1, <1>3, TreeFacts
  <2> QED
    BY <1>3, <1>4, <2>1 DEF link, child
<1>6. \A n \in Node : ~DetachedBy(t, n) /\ (DetachedBy(t, n)' <=> n = d)
  BY <1>2 DEF DetachedBy, locals
<1>7. \A n \in Node : Linked(n)' <=> Linked(n) /\ n # d
  BY <1>1, <1>2, <1>3, <1>6, DetachLinked
<1>8. \A n : Stale(n)' <=> Stale(n)
  BY <1>1, <1>2 DEF Stale, OthersSame
<1>9. ~Searching(t)' /\ WalkDown(t)' /\ Answered(t)'
  <2>1. NULL # "removed"
    BY ConstAssumption DEF Responses
  <2> QED
    BY <1>2, <2>1 DEF Searching, WalkDown, Walking, Answered
<1>10. d \in Tree /\ p \in Tree
  BY <1>3 DEF Tree
<1>11. OrderInv'
  BY <1>1, <1>2, <1>3, <1>4, <1>5, <1>7, <1>8, <1>9, <1>10, DetachOrder
<1>12. /\ target[t] \in Found(key[t]) /\ Lookup(key[t]) = value[target[t]]
       /\ value[target[t]] \in Values
  BY <1>2, <1>3, HitIsRight DEF HoldsTarget
<1>13. \A k : Found(k)' = Found(k) \ {d}
  <2>1. Cells \subseteq Node
    BY DEF Node
  <2> QED
    BY <1>2, <1>7, <1>8, <2>1 DEF Found
<1> QED
  BY <1>11, <1>12, <1>13

\* *pnext = next->rchild, where next has no left child.
LEMMA UnlinkOrder ==
    ASSUME Full, NEW t \in Threads, db_remove_unlink(t)
    PROVE  OrderInv' /\ \A k : Found(k)' = Found(k)
<1> DEFINE x == next[t]
           w == pnext[t]
           c == rchild[x]
<1>1. /\ Run(t) /\ TypeOK /\ WalkPos(t) /\ Walking(t) /\ OthersSame(t) /\ Inv
      /\ WalkDown(t) /\ Answered(t)
  BY OnlyOwnLocals DEF Run, Step, Full, Inv, IInv, OrderInv, db_remove_unlink, Walking
<1>2. /\ name' = name /\ alive' = alive /\ value' = value
      /\ target'[t] = target[t] /\ next'[t] = next[t] /\ resp'[t] = resp[t]
      /\ pc[t] = "unlink" /\ pc'[t] = "free_next"
  BY <1>1 DEF db_remove_unlink, client, Goto, TypeOK, LocalsOK
<1>3. /\ x \in Cells /\ x \in Node /\ w \in Node /\ x # head
      /\ x \in walked[t] /\ Linked(x) /\ w \in walked[t] \cup Holds(t) /\ Linked(w)
      /\ Mode(t) = "l_write"
  BY <1>1, Walker, ConstAssumption DEF WalkPos, Node
<1>4. c \in Ptr /\ lchild[x] = NULL
  BY <1>1, <1>2, <1>3 DEF TypeOK, HeapOK, WalkDown
<1>5. \/ /\ lchild[w] = x /\ lchild' = [lchild EXCEPT ![w] = c] /\ rchild' = rchild
      \/ /\ rchild[w] = x /\ rchild' = [rchild EXCEPT ![w] = c] /\ lchild' = lchild
  BY <1>1 DEF db_remove_unlink, WalkPos
<1>6. \A n \in Node : ~DetachedBy(t, n) /\ (DetachedBy(t, n)' <=> n = x)
  BY <1>2 DEF DetachedBy
<1>7. \A n \in Node : Linked(n)' <=> Linked(n) /\ n # x
  BY <1>1, <1>2, <1>3, <1>6, DetachLinked
<1>8. Stale(x) /\ \A n : n # x => (Stale(n)' <=> Stale(n))
  BY <1>1, <1>2 DEF Stale, OthersSame
<1>9. ~Searching(t)' /\ WalkDown(t)' /\ Answered(t)'
  BY <1>1, <1>2 DEF Searching, WalkDown, Walking, Answered
<1>10. x \in Tree /\ w \in Tree
  BY <1>3 DEF Tree
<1>11. lchild[x] \in {c, NULL} /\ rchild[x] \in {c, NULL}
  BY <1>4
<1> HIDE DEF c
<1>12. OrderInv'
  BY <1>1, <1>2, <1>3, <1>4, <1>5, <1>7, <1>8, <1>9, <1>10, <1>11, DetachOrder
<1>13. \A k : Found(k)' = Found(k)
  <2>1. Cells \subseteq Node
    BY DEF Node
  <2> QED
    BY <1>2, <1>7, <1>8, <2>1 DEF Found
<1> QED
  BY <1>12, <1>13

\* dnode takes the name of the least node of its right subtree.  The searches for
\* the names from the old to the new one now turn left at dnode, and nothing but
\* the walked spine was on their paths below it.
LEMMA CopyPath ==
    ASSUME Full, NEW t \in Threads, pc[t] = "copy", UNCHANGED <<lchild, rchild, alive>>,
           name' = [name EXCEPT ![target[t]] = name[next[t]]],
           NEW k \in Nat, NEW n \in Path(k),
           name[target[t]] <= k /\ k <= name[next[t]] => n \notin walked[t]
    PROVE  n \in NewPath(k)
<1> DEFINE d == target[t]
           o == name[target[t]]
           m == name[next[t]]
<1>1. TypeOK /\ Inv /\ WalkPos(t) /\ WalkDown(t) /\ Walking(t)
  BY DEF Full, Inv, IInv, OrderInv, Walking
<1>2. /\ d \in Node /\ d \in Tree /\ next[t] \in walked[t] /\ rchild[d] \in walked[t]
      /\ walked[t] \subseteq Tree /\ walked[t] \subseteq Node
  BY <1>1, Walker DEF WalkPos, Tree
<1>3. o < m /\ o \in Nat /\ m \in Nat /\ \A z \in Node : name[z] \in Nat
  BY <1>1, <1>2, WalkBelow, TreeFacts
<1>4. name'[d] = m /\ \A z \in Node \ {d} : name'[z] = name[z]
  BY <1>1, <1>2 DEF TypeOK, HeapOK
<1>5. /\ lchild[next[t]] = NULL
      /\ \A z \in walked[t] \ {next[t]} : lchild[z] \in walked[t] /\ m < name[z]
  BY <1>1 DEF WalkDown
<1> HIDE DEF d, o, m
<1>6. \A z \in Node \ {d} : NewOnward(z, k) = Onward(z, k)
  BY <1>4 DEF NewOnward, Onward, child
<1>7. n \in alive' \cup {head}
  BY DEF Path
<1>8. \A z \in Tree : Onward(z, k) \in Tree \cup {NULL} /\ z \in Node
  BY <1>1, TreeFacts DEF Tree
<1>9. head \in Tree /\ Tree \subseteq alive \cup {head}
  BY <1>1, TreeFacts
<1>10. ASSUME NEW T \in NewClosed(k)
       PROVE  /\ head \in T \cap Tree /\ T \cap Tree \subseteq alive \cup {head}
              /\ \A z \in T \cap Tree :
                   z # d => Onward(z, k) \in (T \cap Tree) \cup {NULL}
  BY <1>6, <1>8, <1>9 DEF NewClosed
<1>11. CASE k < o \/ m < k
  <2>1. NewOnward(d, k) = Onward(d, k)
    BY <1>3, <1>4, <1>11 DEF NewOnward, Onward, child, d, o
  <2>2. ASSUME NEW T \in NewClosed(k)
        PROVE  T \cap Tree \in Closed(k)
    <3>1. d \in T => Onward(d, k) \in T \cup {NULL}
      BY <2>1 DEF NewClosed
    <3> QED
      BY <1>2, <1>8, <1>10, <3>1 DEF Closed
  <2>3. \A T \in NewClosed(k) : \E S \in Closed(k) : S \subseteq T \cup {}
    BY <2>2
  <2> QED
    BY <1>7, <2>3, PathGrows
<1>12. CASE o <= k /\ k <= m
  <2>1. Onward(d, k) \in walked[t] \cup {NULL}
    BY <1>2, <1>3, <1>12 DEF Onward, child, o, d
  <2>2. \A z \in walked[t] : Onward(z, k) \in walked[t] \cup {NULL}
    <3> SUFFICES ASSUME NEW z \in walked[t]
                 PROVE  Onward(z, k) \in walked[t] \cup {NULL}
      OBVIOUS
    <3>1. CASE z = next[t]
      BY <1>3, <1>5, <1>12, <3>1 DEF Onward, child, m
    <3>2. CASE z # next[t]
      <4>1. k < name[z]
        BY <1>2, <1>3, <1>5, <1>12, <3>2
      <4>2. name[z] # k
        BY <1>2, <1>3, <4>1
      <4> QED
        BY <1>5, <3>2, <4>1, <4>2 DEF Onward, child
    <3> QED
      BY <3>1, <3>2
  <2>3. ASSUME NEW T \in NewClosed(k)
        PROVE  \E S \in Closed(k) : S \subseteq T \cup walked[t]
    <3>1. CASE d \in T
      <4>1. (T \cap Tree) \cup walked[t] \in Closed(k)
        BY <1>2, <1>9, <1>10, <2>1, <2>2, <3>1 DEF Closed
      <4> QED
        BY <4>1
    <3>2. CASE d \notin T
      <4>1. T \cap Tree \in Closed(k)
        BY <1>10, <3>2 DEF Closed
      <4> QED
        BY <4>1
    <3> QED
      BY <3>1, <3>2
  <2>4. n \notin walked[t]
    BY <1>12 DEF o, m, d
  <2> QED
    BY <1>7, <2>3, <2>4, PathGrows
<1> QED
  BY <1>3, <1>11, <1>12

LEMMA CopyOrder ==
    ASSUME Full, NEW t \in Threads, db_remove_copy(t)
    PROVE  /\ OrderInv'
           /\ Lookup(key[t]) \in Values /\ Found(key[t])' = {}
           /\ \A k : k # key[t] =>
                \/ Found(k)' = Found(k) /\ target[t] \notin Found(k)
                \/ /\ Found(k) = {next[t]} /\ Found(k)' = {target[t]}
                   /\ value'[target[t]] = value[next[t]]
           /\ \A n \in Cells : n # target[t] => value'[n] = value[n]
<1> DEFINE d == target[t]
           x == next[t]
<1>1. /\ TypeOK /\ Inv /\ OrderInv /\ Run(t) /\ OthersSame(t) /\ Answered(t) /\ WalkDown(t)
      /\ WalkPos(t)
  BY OnlyOwnLocals DEF Run, Step, Full, Inv, IInv, OrderInv
<1>2. /\ name' = [name EXCEPT ![d] = name[x]] /\ value' = [value EXCEPT ![d] = value[x]]
      /\ lchild' = lchild /\ rchild' = rchild /\ alive' = alive
      /\ UNCHANGED locals /\ resp'[t] = "removed"
      /\ pc[t] = "copy" /\ pc'[t] = "unlink" /\ Walking(t)
  BY <1>1 DEF db_remove_copy, Goto, Respond, TypeOK, LocalsOK, ClientOK, Walking
<1>3. /\ d \in Cells /\ d \in Node /\ d \in Holds(t) /\ Linked(d) /\ Mode(t) = "l_write"
      /\ x \in Cells /\ x \in Node /\ Linked(x) /\ x \in walked[t] /\ x # d
      /\ x \in alive /\ d \in alive /\ d # head /\ walked[t] \subseteq Node
  BY <1>1, <1>2, Walker, ConstAssumption DEF WalkPos, Linked
<1>4. /\ name'[d] = name[x] /\ \A n \in Node \ {d} : name'[n] = name[n]
      /\ value'[d] = value[x] /\ \A n \in Node \ {d} : value'[n] = value[n]
  BY <1>1, <1>2, <1>3 DEF TypeOK, HeapOK
<1>5. \A n \in Node : Linked(n)' <=> Linked(n)
  <2>1. \A n \in Node : DetachedBy(t, n)' <=> DetachedBy(t, n)
    BY <1>2 DEF DetachedBy
  <2> QED
    BY <1>1, <1>2, <2>1, SameLinked
<1>6. \A n : Stale(n)' <=> Stale(n) \/ n = x
  BY <1>1, <1>2 DEF Stale, OthersSame, locals
<1>7. ~Stale(d) /\ ~Stale(x)
  BY <1>1, <1>2, <1>3, NotStale
<1>8. /\ d \in Path(name[x]) /\ name[d] < name[x]
      /\ \A n \in Node : name[n] \in Nat
  BY <1>1, <1>2, WalkBelow, TreeFacts
<1>9. Cells \subseteq Node
  BY DEF Node
\* nodes stay on the paths of their names
<1>10. ASSUME NEW n \in Cells, Linked(n)', ~Stale(n)'
       PROVE  n \in NewPath(name'[n])
  <2>1. n \in Node /\ Linked(n) /\ ~Stale(n) /\ n # x
    BY <1>5, <1>6, <1>9, <1>10
  <2>2. CASE n = d
    <3>1. d \notin walked[t]
      BY <1>1, <1>2 DEF WalkPos
    <3>2. name[x] \in Nat
      BY <1>3, <1>8
    <3>3. d \in NewPath(name[x])
      BY <1>2, <1>8, <3>1, <3>2, CopyPath
    <3> QED
      BY <1>4, <2>2, <3>3
  <2>3. CASE n # d
    <3>1. n \in Path(name[n]) /\ name[n] \in Nat
      BY <1>1, <1>8, <2>1 DEF OrderInv, Ordered
    <3>2. n \in walked[t] => name[x] < name[n]
      BY <1>1, <1>2, <2>1 DEF WalkDown
    <3>3. name[d] <= name[n] /\ name[n] <= name[x] => n \notin walked[t]
      BY <1>3, <1>8, <3>1, <3>2
    <3>4. n \in NewPath(name[n])
      BY <1>2, <3>1, <3>3, CopyPath
    <3> QED
      BY <1>4, <2>1, <2>3, <3>4
  <2> QED
    BY <2>2, <2>3
<1>11. ASSUME NEW u \in Threads \ {t}, parent[u] \in Holds(u), parent[u] \in Path(key[u])
       PROVE  parent[u] \in NewPath(key[u])
  <2>1. Private(t, u)
    BY <1>1 DEF Inv, IInv
  <2>2. parent[u] \notin walked[t]
    BY <1>11, <2>1 DEF Private
  <2>3. key[u] \in Nat
    <3>1. key[u] \in Names
      BY <1>1 DEF TypeOK, ClientOK
    <3> QED
      BY <3>1, NamesNat
  <2> QED
    BY <1>2, <1>11, <2>2, <2>3, CopyPath
<1>12. \A n \in Node \ {d} : lchild'[n] = lchild[n] /\ name'[n] = name[n]
  BY <1>2, <1>4
<1>13. \A u \in Threads \ {t} : {d} \cap (Holds(u) \cup walked[u]) = {}
  BY <1>1, <1>3, WriteApart
<1>14. \A n \in alive' : name'[n] \in Names /\ value'[n] \in Values
  <2>1. alive \subseteq Node
    BY <1>1 DEF TypeOK, HeapOK, Node
  <2> QED
    BY <1>1, <1>2, <1>3, <1>4, <2>1 DEF OrderInv
<1>15. name'[head] = 0
  BY <1>1, <1>3, <1>4 DEF OrderInv, Node
<1>16. ~Searching(t)'
  BY <1>2 DEF Searching
<1>17. WalkDown(t)'
  <2>1. d \notin walked[t]
    BY <1>1, <1>2 DEF WalkPos
  <2> QED
    BY <1>1, <1>2, <1>3, <1>4, <2>1 DEF WalkDown, Walking, locals
<1>18. Answered(t)'
  <2>1. NULL # "removed"
    BY ConstAssumption DEF Responses
  <2> QED
    BY <1>2, <1>3, <1>4, <2>1 DEF Answered, Walking, Searching, locals
<1>19. OrderInv'
  BY <1>1, <1>10, <1>11, <1>12, <1>13, <1>14, <1>15, <1>16, <1>17, <1>18, WritingOrder
<1>20. name[d] = key[t] /\ HoldsTarget(t)
  BY <1>1, <1>2 DEF Answered, HoldsTarget
<1>21. d \in Found(key[t]) /\ Lookup(key[t]) \in Values /\ Found(key[t]) = {d}
  BY <1>2, <1>20, HitIsRight, FoundOnce
<1>22. x \in Found(name[x]) /\ Found(name[x]) = {x} /\ name[x] # key[t]
  <2>1. x \in Found(name[x])
    BY <1>3, <1>7 DEF Found
  <2> QED
    BY <1>3, <1>8, <1>20, <2>1, FoundOnce
<1>23. \A k : Found(k)' = {n \in Cells : Linked(n) /\ ~Stale(n) /\ n # x /\ name'[n] = k}
  BY <1>5, <1>6, <1>9 DEF Found
<1>24. Found(key[t])' = {}
  <2>1. key'[t] = key[t]
    BY DEF db_remove_copy
  <2>2. {n \in Cells : Linked(n) /\ ~Stale(n) /\ n # x /\ name'[n] = key[t]} = {}
    BY <1>4, <1>9, <1>21, <1>22 DEF Found
  <2> QED
    BY <1>5, <1>6, <1>9, <2>1, <2>2 DEF Found
<1>25. ASSUME NEW k, k # key[t]
       PROVE  \/ Found(k)' = Found(k) /\ d \notin Found(k)
              \/ /\ Found(k) = {x} /\ Found(k)' = {d} /\ value'[d] = value[x]
  <2>1. CASE k = name[x]
    <3>1. Found(k)' = {d}
      BY <1>3, <1>4, <1>7, <1>9, <1>22, <1>23, <2>1 DEF Found
    <3> QED
      BY <1>4, <1>22, <2>1, <3>1
  <2>2. CASE k # name[x]
    <3>1. Found(k)' = Found(k)
      BY <1>3, <1>4, <1>9, <1>20, <1>23, <1>25, <2>2 DEF Found
    <3> QED
      BY <1>20, <1>25, <3>1 DEF Found
  <2> QED
    BY <2>1, <2>2
<1> QED
  BY <1>4, <1>9, <1>19, <1>21, <1>24, <1>25

------------------------------------------------------------------------------
(* The invariant *)

LEMMA InitFull == Init => Full
<1> SUFFICES ASSUME Init PROVE Full
  OBVIOUS
<1>1. Inv
  BY InitInv
<1>2. alive = {} /\ name[head] = 0 /\ \A t \in Threads : pc[t] = "idle"
  BY DEF Init, InitClient, Node
<1>3. \A n \in Cells : ~Linked(n)
  BY <1>2, ConstAssumption DEF Linked
<1> QED
  BY <1>1, <1>2, <1>3
     DEF Full, OrderInv, Ordered, OnPath, Searching, WalkDown, Walking, Answered

\* The steps of a thread, by what they do to the tree.
LEMMA RunCases ==
    ASSUME NEW t \in Threads, Run(t)
    PROVE  \/ Reading(t)
           \/ db_remove_splice_free(t) \/ db_remove_free(t)
           \/ db_add_miss(t) \/ db_remove_splice(t) \/ db_remove_copy(t)
           \/ db_remove_unlink(t)
BY DEF Run, Step, Reading

LEMMA NextFull ==
    ASSUME Full, [Next]_vars
    PROVE  Full'
<1>1. Inv'
  BY NextInv DEF Full
<1>2. ASSUME NEW t \in Threads, Run(t)
      PROVE  OrderInv'
  BY <1>2, RunCases, ReadingOrder, FreeOrder, AddOrder, SpliceOrder, CopyOrder,
     UnlinkOrder
<1>3. CASE UNCHANGED vars
  <2> USE <1>3 DEF vars, heap, locks, client, locals
  <2>1. Ordered' <=> Ordered
    BY DEF Ordered, Path, Closed, Onward, child, Linked, DetachedBy, Stale
  <2>2. \A t \in Threads : OnPath(t)' <=> OnPath(t)
    BY DEF OnPath, Path, Closed, Onward, child, Searching
  <2>3. \A t \in Threads : WalkDown(t)' <=> WalkDown(t)
    BY DEF WalkDown, Walking
  <2>4. \A t \in Threads : Answered(t)' <=> Answered(t)
    BY DEF Answered, Walking, Searching
  <2> QED
    BY <1>1, <2>1, <2>2, <2>3, <2>4 DEF Full, OrderInv
<1> QED
  BY <1>1, <1>2, <1>3 DEF Full, Next, Run, Finished

\* The tree stays a search tree whose running searches and walks are where the
\* code believes them to be, for any number of threads, cells and names.
THEOREM OrderInvariance == Spec => []OrderInv
<1>1. Init => Full
  BY InitFull
<1>2. Full /\ [Next]_vars => Full'
  BY NextFull
<1>3. Full => OrderInv
  BY DEF Full
<1> QED
  BY <1>1, <1>2, <1>3, PTL DEF Spec

\* The part of the invariant that DbTreeProofs shows.
THEOREM LockInvariance == Spec => []IInv
<1>1. Inv => IInv
  BY DEF Inv
<1> QED
  BY <1>1, Invariance, PTL

\* When no command runs, every allocated node can be reached from head and no lock
\* is held: db_add and db_remove lose and leak nothing.
THEOREM NothingIsLost == Spec => []QuiescentClean
<1>1. Init => Full
  BY InitFull
<1>2. Full /\ [Next]_vars => Full'
  BY NextFull
<1>3. Full => QuiescentClean
  <2> SUFFICES ASSUME Full, \A t \in Threads : pc[t] = "idle"
               PROVE  Below = alive /\ \A n \in Node : writer[n] = NULL /\ readers[n] = {}
    BY DEF QuiescentClean
  <2>1. Inv /\ TypeOK /\ LockDiscipline /\ Ordered
    BY DEF Full, Inv, IInv, OrderInv
  <2>2. \A n \in alive : n \in Cells /\ n \in Node /\ Linked(n) /\ ~Stale(n)
    BY <2>1 DEF TypeOK, HeapOK, Node, Linked, DetachedBy, Stale
  <2>3. ASSUME NEW n \in alive, NEW S \in SUBSET Node, head \in S,
               Children(S) \subseteq S
        PROVE  n \in S
    <3>1. n \in Path(name[n])
      BY <2>1, <2>2 DEF Ordered
    <3>2. S \cap Tree \in Closed(name[n])
      <4>1. \A m \in S \cap Tree : Onward(m, name[n]) \in Tree \cup {NULL}
        BY <2>1, TreeFacts
      <4>2. \A m \in S \cap Tree : Onward(m, name[n]) \in S \cup {NULL}
        BY <2>3 DEF Onward, child, Children
      <4> QED
        BY <2>1, <2>3, <4>1, <4>2, TreeFacts DEF Closed
    <3> QED
      BY <3>1, <3>2, PathIn
  <2>4. alive \subseteq Below
    BY <2>2, <2>3 DEF Below
  <2>5. Below \subseteq alive
    <3>1. Tree \in SUBSET Node /\ head \in Tree /\ Children(Tree) \subseteq Tree
      BY <2>1, TreeFacts DEF Children
    <3>2. Below \subseteq Tree /\ head \notin Below
      BY <3>1, ConstAssumption DEF Below
    <3> QED
      BY <2>1, <3>2, TreeFacts
  <2>6. \A t \in Threads : Holds(t) = {}
    BY DEF Holds, HoldsParent, HoldsTarget, HoldsRchild
  <2>7. ASSUME NEW n \in Node
        PROVE  writer[n] = NULL /\ readers[n] = {}
    <3>1. writer[n] \in Threads \cup {NULL} /\ readers[n] \subseteq Threads
      BY <2>1 DEF TypeOK, LocksOK
    <3>2. \A t \in Threads : writer[n] # t /\ t \notin readers[n]
      BY <2>1, <2>6 DEF LockDiscipline
    <3> QED
      BY <3>1, <3>2
  <2> QED
    BY <2>4, <2>5, <2>7
<1> QED
  BY <1>1, <1>2, <1>3, PTL DEF Spec

------------------------------------------------------------------------------
(* Refinement of KVStore *)

\* What the tree holds follows from its nodes.
LEMMA LookupSame ==
    ASSUME Full, Full', NEW k, Found(k)' = Found(k), \A n \in Found(k) : value'[n] = value[n]
    PROVE  Lookup(k)' = Lookup(k)
<1>1. CASE Found(k) = {}
  BY <1>1 DEF Lookup
<1>2. ASSUME NEW n \in Found(k)
      PROVE  Lookup(k)' = Lookup(k)
  <2>1. Found(k) = {n}
    BY FoundOnce
  <2> QED
    BY <2>1 DEF Lookup
<1> QED
  BY <1>1, <1>2

LEMMA MapSame ==
    ASSUME Full, Full', \A k : Found(k)' = Found(k), value' = value
    PROVE  Map' = Map
<1>1. \A k : Lookup(k)' = Lookup(k)
  BY LookupSame
<1> QED
  BY <1>1 DEF Map

\* A step that leaves the responses and the tree alone is not seen.
LEMMA Silent ==
    ASSUME Full, Full', NEW t \in Threads, Run(t), \A k : Found(k)' = Found(k),
           value' = value, UNCHANGED client, pc[t] # "idle", pc'[t] # "idle"
    PROVE  UNCHANGED KV!vars
<1>1. Map' = Map
  BY MapSame
<1>2. TypeOK /\ TypeOK' /\ OthersSame(t)
  BY OnlyOwnLocals DEF Full, Inv, IInv
<1>3. \A u \in Threads : (pc'[u] = "idle" <=> pc[u] = "idle") /\ resp'[u] = resp[u]
  BY <1>2 DEF OthersSame, client
<1>4. Status' = Status
  BY <1>3 DEF Status
<1> QED
  BY <1>1, <1>4 DEF KV!vars, client

\* The statuses after a step of t, given those of the other threads do not change.
LEMMA StatusMoves ==
    ASSUME TypeOK, NEW t \in Threads, Run(t)
    PROVE  /\ pc'[t] = "idle" => Status' = [Status EXCEPT ![t] = "idle"]
           /\ pc'[t] # "idle" /\ resp'[t] = NULL => Status' = [Status EXCEPT ![t] = "pending"]
           /\ pc'[t] # "idle" /\ resp'[t] # NULL => Status' = [Status EXCEPT ![t] = "done"]
<1>1. \A u \in Threads \ {t} : pc'[u] = pc[u] /\ resp'[u] = resp[u]
  BY OnlyOwnLocals, OnlyOwnResponse DEF OthersSame
<1>2. \A u \in Threads \ {t} : Status'[u] = Status[u]
  BY <1>1 DEF Status
<1>3. pc'[t] = "idle" => Status'[t] = "idle"
  BY DEF Status
<1>4. pc'[t] # "idle" /\ resp'[t] = NULL => Status'[t] = "pending"
  BY DEF Status
<1>5. pc'[t] # "idle" /\ resp'[t] # NULL => Status'[t] = "done"
  BY DEF Status
<1>6. Status = [u \in Threads |-> Status[u]] /\ Status' = [u \in Threads |-> Status'[u]]
  BY DEF Status
<1> QED
  BY <1>2, <1>3, <1>4, <1>5, <1>6

\* interpret_command calls, and the last unlock returns.
LEMMA CallReturn ==
    ASSUME Full, Full', NEW t \in Threads
    PROVE  /\ interpret_command(t) => KV!Call(t)
           /\ db_query_return(t) \/ unlock_parent(t) => KV!Return(t)
<1>1. TypeOK /\ Answered(t)
  BY DEF Full, Inv, IInv, OrderInv
<1>2. /\ pc \in [Threads -> PCs] /\ resp \in [Threads -> Responses \cup {NULL}]
      /\ val \in [Threads -> Values]
  BY <1>1 DEF TypeOK, LocalsOK, ClientOK
<1>3. ASSUME interpret_command(t) \/ db_query_return(t) \/ unlock_parent(t)
      PROVE  Map' = Map /\ Run(t)
  <2>1. Reading(t)
    BY <1>3 DEF Reading
  <2>2. /\ Run(t) /\ UNCHANGED heap /\ \A n \in Node : Linked(n)' <=> Linked(n)
        /\ \A n : Stale(n)' <=> Stale(n)
    BY <1>1, <2>1, ReadingFacts
  <2>3. \A k : Found(k)' = Found(k)
    BY <2>2 DEF Found, Node, heap
  <2> QED
    BY <2>2, <2>3, MapSame DEF heap
<1>4. ASSUME interpret_command(t)
      PROVE  KV!Call(t)
  <2>1. pc[t] = "idle" /\ pc'[t] = "lock_head" /\ resp'[t] = NULL
    BY <1>2, <1>4 DEF interpret_command, Goto, Respond
  <2>2. Status[t] = "idle"
    BY <2>1 DEF Status
  <2>5. Status' = [Status EXCEPT ![t] = "pending"]
    BY <1>1, <1>3, <1>4, <2>1, StatusMoves
  <2>3. /\ \E c \in {"q", "a", "d"} : cmd' = [cmd EXCEPT ![t] = c]
        /\ \E k \in Names : key' = [key EXCEPT ![t] = k]
        /\ resp' = [resp EXCEPT ![t] = NULL]
    BY <1>4 DEF interpret_command, Respond, Cmds
  <2>4. \E v \in Values : val' = [val EXCEPT ![t] = v]
    <3>1. val' = val \/ \E v \in Values : val' = [val EXCEPT ![t] = v]
      BY <1>4 DEF interpret_command
    <3>2. val[t] \in Values /\ val = [val EXCEPT ![t] = val[t]]
      BY <1>2
    <3> QED
      BY <3>1, <3>2
  <2> QED
    BY <1>3, <1>4, <2>2, <2>3, <2>4, <2>5 DEF KV!Call
<1>5. ASSUME db_query_return(t) \/ unlock_parent(t)
      PROVE  KV!Return(t)
  <2>1. /\ pc[t] \in {"unlock_target", "unlock_parent"} /\ pc'[t] = "idle"
        /\ UNCHANGED <<cmd, key, val, resp>>
    BY <1>2, <1>5 DEF db_query_return, unlock_parent, Goto, client
  <2>2. resp[t] # NULL
    BY <1>1, <2>1 DEF Answered, Searching, Walking
  <2>3. Status[t] = "done"
    BY <2>1, <2>2 DEF Status
  <2>4. Status' = [Status EXCEPT ![t] = "idle"]
    BY <1>1, <1>3, <1>5, <2>1, <2>2, StatusMoves
  <2> QED
    BY <1>3, <1>5, <2>1, <2>3, <2>4 DEF KV!Return
<1> QED
  BY <1>4, <1>5

\* A step that answers t is the one at which its command takes effect.
LEMMA Takes ==
    ASSUME Full, Full', NEW t \in Threads, Run(t), NEW r \in Responses,
           pc[t] # "idle", resp[t] = NULL, pc'[t] # "idle",
           resp' = [resp EXCEPT ![t] = r], UNCHANGED <<cmd, key, val>>,
           Map' = KV!Effect(t), r = KV!Answer(t)
    PROVE  KV!Apply(t)
<1>1. TypeOK /\ resp'[t] = r /\ r # NULL
  BY ConstAssumption DEF Full, Inv, IInv, TypeOK, ClientOK
<1>2. Status[t] = "pending"
  BY DEF Status
<1>3. Status' = [Status EXCEPT ![t] = "done"]
  BY <1>1, StatusMoves
<1> QED
  BY <1>1, <1>2, <1>3 DEF KV!Apply

\* What a command does to the map and answers, as one fact per outcome.
LEMMA Outcomes ==
    ASSUME NEW t \in Threads, key[t] \in Names, NULL \notin Values
    PROVE  /\ cmd[t] = "q" /\ Lookup(key[t]) = NULL =>
                KV!Effect(t) = Map /\ KV!Answer(t) = "not found"
           /\ cmd[t] = "q" /\ Lookup(key[t]) \in Values =>
                KV!Effect(t) = Map /\ KV!Answer(t) = Lookup(key[t])
           /\ cmd[t] = "a" /\ Lookup(key[t]) = NULL =>
                /\ KV!Effect(t) = [Map EXCEPT ![key[t]] = val[t]]
                /\ KV!Answer(t) = "added"
           /\ cmd[t] = "a" /\ Lookup(key[t]) \in Values =>
                KV!Effect(t) = Map /\ KV!Answer(t) = "already in database"
           /\ cmd[t] = "d" => KV!Effect(t) = [Map EXCEPT ![key[t]] = NULL]
           /\ cmd[t] = "d" /\ Lookup(key[t]) = NULL => KV!Answer(t) = "not in database"
           /\ cmd[t] = "d" /\ Lookup(key[t]) \in Values => KV!Answer(t) = "removed"
<1>1. Map[key[t]] = Lookup(key[t])
  BY DEF Map
<1>2. CASE cmd[t] = "q"
  BY <1>1, <1>2 DEF KV!Effect, KV!Answer
<1>3. CASE cmd[t] = "a"
  BY <1>1, <1>3 DEF KV!Effect, KV!Answer
<1>4. CASE cmd[t] = "d"
  BY <1>1, <1>4 DEF KV!Effect, KV!Answer
<1> QED
  BY <1>2, <1>3, <1>4

\* The commands that only read the tree take effect when they know what they
\* have found.
LEMMA ReadApplies ==
    ASSUME Full, Full', NEW t \in Threads,
           \/ db_query_read(t) \/ db_query_miss(t) \/ db_add_hit(t)
           \/ db_remove_miss(t)
    PROVE  KV!Apply(t)
<1>1. TypeOK /\ Answered(t) /\ PcCmd(t) /\ SearchPos(t)
  BY DEF Full, Inv, IInv, OrderInv
<1>2. /\ pc \in [Threads -> PCs] /\ resp \in [Threads -> Responses \cup {NULL}]
      /\ key[t] \in Names /\ NULL \notin Values
  BY <1>1, ConstAssumption DEF TypeOK, LocalsOK, ClientOK, Responses
<1>3. Reading(t) /\ Run(t)
  BY <1>1, ReadingFacts DEF Reading
<1>4. Map' = Map
  <2>1. /\ UNCHANGED heap /\ \A n \in Node : Linked(n)' <=> Linked(n)
        /\ \A n : Stale(n)' <=> Stale(n)
    BY <1>1, <1>3, ReadingFacts
  <2>2. \A k : Found(k)' = Found(k)
    BY <2>1 DEF Found, Node, heap
  <2> QED
    BY <2>1, <2>2, MapSame DEF heap
<1>5. CASE db_query_read(t)
  <2>1. /\ pc[t] = "query_read" /\ pc'[t] = "unlock_target"
        /\ resp' = [resp EXCEPT ![t] = value[target[t]]] /\ UNCHANGED <<cmd, key, val>>
    BY <1>2, <1>5 DEF db_query_read, Goto, Respond
  <2>2. resp[t] = NULL /\ name[target[t]] = key[t] /\ HoldsTarget(t) /\ cmd[t] = "q"
    BY <1>1, <2>1 DEF Answered, HoldsTarget, PcCmd
  <2>3. Lookup(key[t]) = value[target[t]] /\ value[target[t]] \in Values
    BY <2>1, <2>2, HitIsRight
  <2>4. KV!Effect(t) = Map /\ KV!Answer(t) = value[target[t]]
    BY <1>2, <2>2, <2>3, Outcomes
  <2> QED
    BY <1>3, <1>4, <2>1, <2>2, <2>3, <2>4, Takes DEF Responses
<1>6. CASE db_query_miss(t)
  <2>1. /\ pc[t] = "miss" /\ pc'[t] = "unlock_parent" /\ cmd[t] = "q"
        /\ resp' = [resp EXCEPT ![t] = "not found"] /\ UNCHANGED <<cmd, key, val>>
    BY <1>2, <1>6 DEF db_query_miss, Goto, Respond
  <2>2. resp[t] = NULL /\ Lookup(key[t]) = NULL
    BY <1>1, <2>1, MissIsRight DEF Answered, Searching
  <2>3. KV!Effect(t) = Map /\ KV!Answer(t) = "not found"
    BY <1>2, <2>1, <2>2, Outcomes
  <2> QED
    BY <1>3, <1>4, <2>1, <2>2, <2>3, Takes DEF Responses
<1>7. CASE db_add_hit(t)
  <2>1. /\ pc[t] = "hit" /\ pc'[t] = "unlock_parent" /\ cmd[t] = "a"
        /\ resp' = [resp EXCEPT ![t] = "already in database"] /\ UNCHANGED <<cmd, key, val>>
    BY <1>2, <1>7 DEF db_add_hit, Goto, Respond
  <2>2. resp[t] = NULL /\ name[target[t]] = key[t] /\ HoldsTarget(t)
    BY <1>1, <2>1 DEF Answered, Searching, HoldsTarget, SearchPos
  <2>3. Lookup(key[t]) \in Values
    BY <2>1, <2>2, HitIsRight
  <2>4. KV!Effect(t) = Map /\ KV!Answer(t) = "already in database"
    BY <1>2, <2>1, <2>3, Outcomes
  <2> QED
    BY <1>3, <1>4, <2>1, <2>2, <2>4, Takes DEF Responses
<1>8. CASE db_remove_miss(t)
  <2>1. /\ pc[t] = "miss" /\ pc'[t] = "unlock_parent" /\ cmd[t] = "d"
        /\ resp' = [resp EXCEPT ![t] = "not in database"] /\ UNCHANGED <<cmd, key, val>>
    BY <1>2, <1>8 DEF db_remove_miss, Goto, Respond
  <2>2. resp[t] = NULL /\ Lookup(key[t]) = NULL
    BY <1>1, <2>1, MissIsRight DEF Answered, Searching
  <2>3. KV!Effect(t) = [Map EXCEPT ![key[t]] = NULL] /\ KV!Answer(t) = "not in database"
    BY <1>2, <2>1, <2>2, Outcomes
  <2>4. [Map EXCEPT ![key[t]] = NULL] = Map
    BY <1>2, <2>2 DEF Map
  <2> QED
    BY <1>3, <1>4, <2>1, <2>2, <2>3, <2>4, Takes DEF Responses
<1> QED
  BY <1>5, <1>6, <1>7, <1>8

\* The map after a step that changes what one name has.
LEMMA MapMoves ==
    ASSUME NEW k \in Names, NEW v, \A j \in Names \ {k} : Lookup(j)' = Lookup(j),
           Lookup(k)' = v
    PROVE  Map' = [Map EXCEPT ![k] = v]
BY DEF Map

LEMMA OneFound ==
    ASSUME NEW k, NEW n, Found(k)' = {n}
    PROVE  Lookup(k)' = value'[n]
BY DEF Lookup

LEMMA NoneFound ==
    ASSUME NEW k, Found(k)' = {}
    PROVE  Lookup(k)' = NULL
BY DEF Lookup

\* db_add takes effect when it links its node below the parent.
LEMMA AddApplies ==
    ASSUME Full, Full', NEW t \in Threads, db_add_miss(t)
    PROVE  KV!Apply(t)
<1>1. /\ TypeOK /\ Inv /\ OrderInv /\ Run(t) /\ OthersSame(t) /\ Answered(t)
  BY OnlyOwnLocals DEF Run, Step, Full, Inv, IInv, OrderInv
<1>2. PICK n \in Cells :
        /\ n \notin alive /\ node_constructor(t, n) /\ n \in Node /\ ~Linked(n)
        /\ \A u \in Threads : n \notin walked[u]
        /\ \A m \in Node : Linked(m)' <=> Linked(m) \/ m = n
  BY <1>1, Added
<1>3. /\ pc[t] = "miss" /\ pc'[t] = "unlock_parent" /\ key[t] \in Names /\ cmd[t] = "a"
      /\ resp' = [resp EXCEPT ![t] = "added"] /\ UNCHANGED <<cmd, key, val, locals>>
  BY <1>1 DEF db_add_miss, Goto, Respond, TypeOK, LocalsOK, ClientOK
<1>4. /\ name'[n] = key[t] /\ value'[n] = val[t]
      /\ \A m \in Node \ {n} : name'[m] = name[m] /\ value'[m] = value[m]
  BY <1>1, <1>2 DEF node_constructor, TypeOK, HeapOK
<1>5. /\ Found(key[t]) = {} /\ Lookup(key[t]) = NULL /\ resp[t] = NULL
      /\ NULL \notin Values
  BY <1>1, <1>3, MissIsRight, ConstAssumption DEF Answered, Searching, Responses
<1>6. \A m : Stale(m)' <=> Stale(m)
  BY <1>1, <1>3 DEF Stale, OthersSame, locals
<1>7. ~Stale(n)
  <2> SUFFICES ASSUME NEW u \in Threads, pc[u] = "unlink", next[u] = n
               PROVE  FALSE
    BY DEF Stale
  <2>1. next[u] \in walked[u]
    BY <1>1 DEF Inv, IInv, WalkPos, Walking
  <2> QED
    BY <1>2, <2>1
<1>8. ASSUME NEW j \in Names \ {key[t]}
      PROVE  Lookup(j)' = Lookup(j)
  <2>1. Found(j)' = Found(j)
    BY <1>2, <1>4, <1>6 DEF Found, Node
  <2>2. \A m \in Found(j) : value'[m] = value[m]
    BY <1>2, <1>4 DEF Found, Node
  <2> QED
    BY <2>1, <2>2, LookupSame
<1>9. PICK k \in Names : k = key[t]
  BY <1>3
<1>10. Found(k)' = {n}
  <2>1. \A m \in Cells : Linked(m) /\ ~Stale(m) => name[m] # k
    BY <1>5, <1>9 DEF Found
  <2>2. \A m \in Cells : m # n /\ Linked(m)' /\ ~Stale(m)' => name'[m] # k
    BY <1>2, <1>4, <1>6, <2>1 DEF Node
  <2>3. n \in Cells /\ Linked(n)' /\ ~Stale(n)' /\ name'[n] = k
    BY <1>2, <1>4, <1>6, <1>7, <1>9
  <2> QED
    BY <2>2, <2>3 DEF Found
<1>11. Map' = [Map EXCEPT ![key[t]] = val[t]]
  <2>1. Lookup(k)' = val[t]
    BY <1>4, <1>10, OneFound
  <2> QED
    BY <1>8, <1>9, <2>1, MapMoves
<1>12. KV!Effect(t) = [Map EXCEPT ![key[t]] = val[t]] /\ KV!Answer(t) = "added"
  BY <1>3, <1>5, Outcomes
<1> QED
  BY <1>1, <1>3, <1>5, <1>11, <1>12, Takes DEF Responses

\* db_remove takes effect when the parent takes over the only child of dnode, or
\* when dnode gets the name and the value of its successor.
LEMMA RemoveApplies ==
    ASSUME Full, Full', NEW t \in Threads, db_remove_splice(t) \/ db_remove_copy(t)
    PROVE  KV!Apply(t)
<1> DEFINE d == target[t]
<1>1. TypeOK /\ Run(t) /\ Answered(t) /\ PcCmd(t)
  BY DEF Run, Step, Full, Inv, IInv, OrderInv
<1>2. /\ pc[t] \in {"hit", "copy"} /\ pc'[t] \in {"splice_unlock", "unlink"}
      /\ key[t] \in Names /\ resp' = [resp EXCEPT ![t] = "removed"]
      /\ UNCHANGED <<cmd, key, val>> /\ cmd[t] = "d"
  <2>1. CASE db_remove_splice(t)
    BY <1>1, <2>1 DEF db_remove_splice, Goto, Respond, TypeOK, LocalsOK, ClientOK
  <2>2. CASE db_remove_copy(t)
    BY <1>1, <2>2 DEF db_remove_copy, Goto, Respond, TypeOK, LocalsOK, ClientOK, PcCmd
  <2> QED
    BY <2>1, <2>2
<1>3. resp[t] = NULL /\ NULL \notin Values
  BY <1>1, <1>2, ConstAssumption DEF Answered, Searching, Walking, Responses
<1>4. PICK k \in Names : k = key[t]
  BY <1>2
<1>5. Lookup(k) \in Values /\ Found(k)' = {}
  <2>1. CASE db_remove_splice(t)
    <3>1. /\ d \in Found(k) /\ Lookup(k) \in Values
          /\ Found(k)' = Found(k) \ {d}
      BY <1>4, <2>1, SpliceOrder
    <3>2. Found(k) = {d}
      BY <3>1, FoundOnce
    <3> QED
      BY <3>1, <3>2
  <2>2. CASE db_remove_copy(t)
    <3>1. Lookup(k) \in Values /\ Found(key[t])' = {}
      BY <1>4, <2>2, CopyOrder
    <3> QED
      BY <1>2, <1>4, <3>1 DEF Found
  <2> QED
    BY <2>1, <2>2
<1>6. ASSUME NEW j \in Names \ {k}
      PROVE  Lookup(j)' = Lookup(j)
  <2>1. CASE db_remove_splice(t)
    <3>1. d \in Found(k) /\ Found(j)' = Found(j) \ {d} /\ value' = value
      BY <1>4, <2>1, SpliceOrder DEF db_remove_splice
    <3>2. d \notin Found(j)
      BY <3>1 DEF Found
    <3> QED
      BY <3>1, <3>2, LookupSame
  <2>2. CASE db_remove_copy(t)
    <3>1. /\ \/ Found(j)' = Found(j) /\ d \notin Found(j)
             \/ /\ Found(j) = {next[t]} /\ Found(j)' = {d}
                /\ value'[d] = value[next[t]]
          /\ \A n \in Cells : n # d => value'[n] = value[n]
      BY <1>4, <2>2, CopyOrder
    <3>2. CASE Found(j)' = Found(j) /\ d \notin Found(j)
      <4>1. \A n \in Found(j) : value'[n] = value[n]
        BY <3>1, <3>2 DEF Found
      <4> QED
        BY <3>2, <4>1, LookupSame
    <3>3. CASE Found(j) = {next[t]} /\ Found(j)' = {d} /\ value'[d] = value[next[t]]
      <4>1. Lookup(j) = value[next[t]]
        BY <3>3, FoundOnce
      <4>2. Lookup(j)' = value'[d]
        BY <3>3, OneFound
      <4> QED
        BY <3>3, <4>1, <4>2
    <3> QED
      BY <3>1, <3>2, <3>3
  <2> QED
    BY <2>1, <2>2
<1>7. Map' = [Map EXCEPT ![key[t]] = NULL]
  <2>1. Lookup(k)' = NULL
    BY <1>5, NoneFound
  <2> QED
    BY <1>4, <1>6, <2>1, MapMoves
<1>8. KV!Effect(t) = [Map EXCEPT ![key[t]] = NULL] /\ KV!Answer(t) = "removed"
  BY <1>2, <1>3, <1>4, <1>5, Outcomes
<1> QED
  BY <1>1, <1>2, <1>3, <1>7, <1>8, Takes DEF Responses

\* Every other step of a thread leaves the map and the answers alone.
LEMMA StepMaps ==
    ASSUME Full, Full', NEW t \in Threads, Run(t)
    PROVE  \/ KV!Call(t) \/ KV!Apply(t) \/ KV!Return(t)
           \/ UNCHANGED KV!vars
<1>1. TypeOK /\ pc \in [Threads -> PCs]
  BY DEF Full, Inv, IInv, TypeOK, LocalsOK
<1>2. CASE interpret_command(t) \/ db_query_return(t) \/ unlock_parent(t)
  BY <1>2, CallReturn
<1>3. CASE \/ db_query_read(t) \/ db_query_miss(t) \/ db_add_hit(t) \/ db_remove_miss(t)
  BY <1>3, ReadApplies
<1>4. CASE db_add_miss(t)
  BY <1>4, AddApplies
<1>5. CASE db_remove_splice(t) \/ db_remove_copy(t)
  BY <1>5, RemoveApplies
<1>6. CASE \/ lock_head(t) \/ search(t) \/ search_lock(t) \/ search_compare(t)
           \/ db_query_hit(t) \/ db_remove_splice_unlock(t) \/ db_remove_two(t)
           \/ db_remove_walk(t) \/ db_remove_walk_lock(t) \/ db_remove_walk_unlock(t)
           \/ db_remove_unlock_dnode(t)
  <2>1. Reading(t)
    BY <1>6 DEF Reading
  <2>2. /\ UNCHANGED heap /\ \A n \in Node : Linked(n)' <=> Linked(n)
        /\ \A n : Stale(n)' <=> Stale(n)
    BY <1>1, <2>1, ReadingFacts
  <2>3. \A k : Found(k)' = Found(k)
    BY <2>2 DEF Found, Node, heap
  <2>4. UNCHANGED client /\ pc[t] # "idle" /\ pc'[t] # "idle"
    BY <1>1, <1>6 DEF lock_head, search, search_lock, search_compare, db_query_hit,
       db_remove_splice_unlock, db_remove_two, db_remove_walk, db_remove_walk_lock,
       db_remove_walk_unlock, db_remove_unlock_dnode, Goto
  <2> QED
    BY <2>2, <2>3, <2>4, Silent DEF heap
<1>7. CASE db_remove_splice_free(t) \/ db_remove_free(t)
  <2>1. \A k : Found(k)' = Found(k)
    BY <1>7, FreeOrder
  <2>2. UNCHANGED client /\ value' = value /\ pc[t] # "idle" /\ pc'[t] # "idle"
    BY <1>1, <1>7 DEF db_remove_splice_free, db_remove_free, Goto
  <2> QED
    BY <2>1, <2>2, Silent
<1>8. CASE db_remove_unlink(t)
  <2>1. \A k : Found(k)' = Found(k)
    BY <1>8, UnlinkOrder
  <2>2. UNCHANGED client /\ value' = value /\ pc[t] # "idle" /\ pc'[t] # "idle"
    BY <1>1, <1>8 DEF db_remove_unlink, Goto
  <2> QED
    BY <2>1, <2>2, Silent
<1> QED
  BY <1>2, <1>3, <1>4, <1>5, <1>6, <1>7, <1>8 DEF Run, Step

LEMMA InitMap == Init => KV!Init
<1> SUFFICES ASSUME Init PROVE KV!Init
  OBVIOUS
<1> USE DEF Init, InitClient
<1>1. \A k : Found(k) = {}
  BY ConstAssumption DEF Found, Linked
<1>2. \A k \in Names : Lookup(k) = NULL
  BY <1>1 DEF Lookup
<1>3. Map \in [Names -> Values \cup {NULL}]
  BY <1>2 DEF Map
<1>4. Status = [t \in Threads |-> "idle"]
  BY DEF Status
<1>5. /\ cmd \in [Threads -> {"q", "a", "d"}] /\ key \in [Threads -> Names]
      /\ val \in [Threads -> Values]
  BY ConstAssumption
<1> QED
  BY <1>3, <1>4, <1>5 DEF KV!Init

\* Every step of the tree is a call, the one instant, a return or nothing.
LEMMA NextMap ==
    ASSUME Full, Full', [Next]_vars
    PROVE  [KV!Next]_(KV!vars)
<1>1. CASE UNCHANGED vars
  <2>1. UNCHANGED <<Map, Status>>
    <3> USE DEF vars, heap, locks, client, locals
    <3>1. \A n : (Linked(n)' <=> Linked(n)) /\ (Stale(n)' <=> Stale(n))
      BY <1>1 DEF Linked, DetachedBy, Stale
    <3>2. \A k : Found(k)' = Found(k)
      BY <1>1, <3>1 DEF Found
    <3>3. Map' = Map
      BY <1>1, <3>2, MapSame
    <3>4. Status' = Status
      BY <1>1 DEF Status
    <3> QED
      BY <3>3, <3>4
  <2> QED
    BY <1>1, <2>1 DEF KV!vars, vars, client
<1>2. CASE \E t \in Threads : Run(t)
  BY <1>2, StepMaps DEF KV!Next
<1> QED
  BY <1>1, <1>2 DEF Next, Run, Finished

\* db.c is linearizable for every number of threads, commands, names and values:
\* each command behaves as if it had run alone at one instant between its call
\* and its return.
THEOREM Linearizes == Spec => Linearizable
<1>1. Init => KV!Init
  BY InitMap
<1>2. Full /\ Full' /\ [Next]_vars => [KV!Next]_(KV!vars)
  BY NextMap
<1>3. Init => Full
  BY InitFull
<1>4. Full /\ [Next]_vars => Full'
  BY NextFull
<1> QED
  BY <1>1, <1>2, <1>3, <1>4, PTL DEF Spec, Linearizable, KV!Spec
==============================================================================
