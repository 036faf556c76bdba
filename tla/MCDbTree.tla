------------------------------ MODULE MCDbTree -------------------------------
(***************************************************************************)
(* Small instances of the database tree.  The initial tree is one that a   *)
(* single client builds by adding the names of a sequence one by one; the  *)
(* cells are 1, 2, ... in the order malloc hands them out.                 *)
(***************************************************************************)
EXTENDS DbTreeSafety, DbTreeLinear, Sequences, TLC

CONSTANTS OldValue,   \* the value of every name added before the run
          Orders      \* insertion orders of the initial tree

Empty == [name |-> [n \in Node |-> 0], lchild |-> [n \in Node |-> NULL],
          rchild |-> [n \in Node |-> NULL]]

\* The tree after adding the first i names of the order.
Insert(T, n, k) ==
    LET slot[p \in Node] ==
          LET c == IF k < T.name[p] THEN T.lchild[p] ELSE T.rchild[p]
          IN IF c = NULL THEN p ELSE slot[c]
        p == slot[head]
    IN IF k < T.name[p]
       THEN [T EXCEPT !.name[n] = k, !.lchild[p] = n]
       ELSE [T EXCEPT !.name[n] = k, !.rchild[p] = n]

Built(order) ==
    LET b[i \in 0..Len(order)] ==
          IF i = 0 THEN Empty ELSE Insert(b[i - 1], i, order[i])
    IN b[Len(order)]

MCInit ==
    /\ \E order \in Orders :
         LET T == Built(order)
             used == 1..Len(order)
         IN /\ name = T.name
            /\ lchild = T.lchild
            /\ rchild = T.rchild
            /\ alive = used
            /\ value = [n \in Node |-> IF n \in used THEN OldValue ELSE NULL]
    /\ InitClient

MCSpec == MCInit /\ [][Next]_vars

\* Threads keep running: each one's next step, once it stays possible, happens.
MCFairSpec == MCSpec /\ \A t \in Threads : WF_vars(Step(t))

\* Name 2 has two children; the spine below its right child has three nodes, or
\* two with a right child at its end, or two with nothing below.
SpineOrders == {<<2, 1, 5, 4, 3>>, <<2, 1, 5, 3, 4>>, <<2, 1, 4, 3, 5>>}
WalkOrder == {<<2, 1, 4, 3>>}

Symmetry == Permutations(Threads)
==============================================================================
