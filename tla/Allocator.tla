------------------------------ MODULE Allocator ------------------------------
(***************************************************************************)
(* What a client may rely on when it calls malloc, free and realloc: every *)
(* pointer it holds stands for a region of the arena, no two regions       *)
(* overlap, and nobody but the client changes what is stored in a region.  *)
(* `store' maps each held pointer to the contents of its region, a         *)
(* function from the region's addresses to words.                          *)
(***************************************************************************)
EXTENDS Integers

CONSTANT Arena

VARIABLE store

(***************************************************************************)
(* In the next state p holds a region of its own.                          *)
(***************************************************************************)
Owns(p) ==
  /\ p \in DOMAIN store'
  /\ DOMAIN store'[p] \subseteq Arena
  /\ \A q \in DOMAIN store' \ {p} :
       DOMAIN store'[p] \cap DOMAIN store'[q] = {}

(***************************************************************************)
(* The pointers in S keep their regions and contents.                      *)
(***************************************************************************)
Keeps(S) == \A q \in S : q \in DOMAIN store' /\ store'[q] = store[q]

Init == DOMAIN store = {}

Malloc ==
  \E p \in Arena \ DOMAIN store :
     /\ DOMAIN store' = DOMAIN store \cup {p}
     /\ Owns(p)
     /\ Keeps(DOMAIN store)

Free ==
  \E p \in DOMAIN store :
     /\ DOMAIN store' = DOMAIN store \ {p}
     /\ Keeps(DOMAIN store \ {p})

(***************************************************************************)
(* Realloc moves a region from p to q, which may be p itself, and changes  *)
(* its length; the words both lengths have in common are kept.             *)
(***************************************************************************)
Realloc ==
  \E p \in DOMAIN store, q \in Arena :
     /\ DOMAIN store' = (DOMAIN store \ {p}) \cup {q}
     /\ q \notin DOMAIN store \ {p}
     /\ Owns(q)
     /\ \A a \in DOMAIN store'[q] :
          LET b == p + (a - q)
          IN  b \in DOMAIN store[p] => store'[q][a] = store[p][b]
     /\ Keeps(DOMAIN store \ {p})

(***************************************************************************)
(* The client starts over and drops every pointer.                         *)
(***************************************************************************)
Reset == DOMAIN store' = {}

Next == Malloc \/ Free \/ Realloc \/ Reset

Spec == Init /\ [][Next]_store
==============================================================================
