---------------------------- MODULE DbPrintProofs ----------------------------
(***************************************************************************)
(* A print among clients writes no name that was not in the database while *)
(* it ran and misses only names that were moved; a print that no client    *)
(* disturbs writes the database, each name once: for every number of       *)
(* threads, commands, nodes and names.                                     *)
(***************************************************************************)
EXTENDS DbPrint, DbTreeProofs, SequenceTheorems, FiniteSetTheorems

\* The nodes of B were taken out of the tree before the print began: no node
\* outside leads there, so the walk is not among them, and all other nodes bear
\* names that were in the database since.
Apart(B) ==
    /\ B \subseteq alive
    /\ \A n \in B : ~Linked(n)
    /\ \A n \in alive \ B : name[n] \in ever
    /\ \A n \in (alive \ B) \cup {head} : lchild[n] \notin B /\ rchild[n] \notin B
    /\ ~cut => \A i \in DOMAIN frames : frames[i].node \notin B

Frames == Seq([node : Node \cup {NULL}, step : {"print", "left", "right"}])

\* While fprintf is at a node it has read the name the node has now, all it has
\* read was in the database meanwhile, and what is not the name of the beginning
\* was written by a removal.
ReadInv ==
    /\ reading \subseteq Names \cup {0}
    /\ reading # {} =>
         /\ print = "on" /\ frames # <<>>
         /\ Head(frames).step = "print" /\ Head(frames).node \in Cells
    /\ reading # {} /\ ~cut =>
         LET now == name[Head(frames).node] IN
         /\ now \in reading /\ reading \subseteq ever
         /\ reading # {now} => now \in moved

PrintInv ==
    /\ print \in {"off", "on", "done", "undefined"}
    /\ frames \in Frames /\ out \in Seq(Nat \cup {Torn})
    /\ ReadInv
    /\ print = "off" => out = <<>>
    /\ print # "on" => frames = <<>>
    /\ print = "on" => Present \subseteq ever /\ \E B : Apart(B)
    /\ cut \in BOOLEAN
    /\ ~cut => ~Dangling
    /\ PrintInventsNothing

\* A sequence that is not empty.
LEMMA Elements ==
    ASSUME NEW S, NEW s \in Seq(S)
    PROVE  /\ DOMAIN s = 1..Len(s) /\ \A i \in DOMAIN s : s[i] \in S
           /\ s # <<>> => Head(s) \in S /\ 1 \in DOMAIN s /\ Head(s) = s[1]
BY HeadTailProperties, EmptySeq

------------------------------------------------------------------------------
(* What the clients do to the tree under the walk *)

\* Every node of the tree bears a name of the database, the successor that
\* db_remove has copied and not yet unlinked too.
LEMMA LinkedPresent ==
    ASSUME Full, NEW n \in alive, Linked(n)
    PROVE  name[n] \in Present
<1>1. Inv /\ OrderInv /\ TypeOK /\ name[n] \in Names /\ n \in Cells
  BY DEF Full, Inv, IInv, OrderInv, TypeOK, HeapOK
<1>2. ASSUME NEW m \in Found(name[n])
      PROVE  name[n] \in Present
  <2>1. Lookup(name[n]) = value[m] /\ m \in alive
    <3>1. m \in Cells /\ Linked(m) /\ Lookup(name[n]) = value[m]
      BY <1>2, FoundOnce DEF Found
    <3> QED
      BY <3>1, ConstAssumption DEF Linked
  <2>2. value[m] # NULL
    <3>1. NULL \notin Values
      BY ConstAssumption, Zenon DEF Responses
    <3> QED
      BY <1>1, <2>1, <3>1 DEF OrderInv
  <2> QED
    BY <1>1, <2>1, <2>2 DEF Present, Map
<1>3. CASE ~Stale(n)
  BY <1>1, <1>2, <1>3 DEF Found
<1>4. CASE Stale(n)
  <2>1. PICK t \in Threads : pc[t] = "unlink" /\ next[t] = n
    BY <1>4 DEF Stale
  <2>2. name[target[t]] = name[n]
    BY <1>1, <2>1 DEF OrderInv, Answered
  <2>3. target[t] \in Holds(t) /\ Linked(target[t]) /\ target[t] \in Cells
    BY <1>1, <2>1, Pointers, ConstAssumption
       DEF Inv, IInv, SearchPos, HoldsTarget, Holds, Node, TypeOK, LocalsOK
  <2>4. ~Stale(target[t])
    BY <1>1, <2>3, NotStale
  <2> QED
    BY <1>2, <2>2, <2>3, <2>4 DEF Found
<1> QED
  BY <1>3, <1>4

AllPresent == \A n \in alive : Linked(n) => name[n] \in Present

LEMMA NamesPresent == Full => AllPresent
BY LinkedPresent DEF AllPresent

\* A command brings no node back into the tree that it or another has taken out,
\* and leaves such nodes as they are.
LEMMA OutStaysOut ==
    ASSUME Full, NEW t \in Threads, Run(t), NEW n \in alive'
    PROVE  /\ n \in alive /\ Linked(n)' => Linked(n)
           /\ ~Linked(n)' => /\ n \in alive /\ name'[n] = name[n]
                             /\ lchild'[n] = lchild[n] /\ rchild'[n] = rchild[n]
<1>1. /\ Inv /\ TypeOK /\ Inv' /\ TypeOK' /\ OthersSame(t)
      /\ SearchPos(t)' /\ SearchPos(t) /\ WalkPos(t)
  <2>1. [Next]_vars
    BY DEF Next, Run
  <2>2. Inv /\ Inv'
    BY <2>1, NextInv DEF Full
  <2> QED
    BY <2>2, OnlyOwnLocals DEF Inv, IInv
<1>2. alive' \subseteq Cells /\ alive \subseteq Cells /\ n \in Node /\ Cells \subseteq Node
  BY <1>1 DEF TypeOK, HeapOK, Node
<1>3. CASE Reading(t)
  BY <1>1, <1>2, <1>3, ReadingFacts DEF heap
<1>4. CASE db_remove_splice_free(t) \/ db_remove_free(t)
  <2>1. PICK f : /\ DetachedBy(t, f) /\ alive' = alive \ {f}
                 /\ f = IF pc[t] = "splice_free" THEN target[t] ELSE next[t]
    BY <1>4 DEF db_remove_splice_free, db_remove_free, DetachedBy
  <2>2. /\ name' = name /\ lchild' = lchild /\ rchild' = rchild
        /\ pc[t] = "splice_free" \/ pc[t] = "free_next"
    BY <1>4 DEF db_remove_splice_free, db_remove_free
  <2>3. \A u \in Threads : DetachedBy(u, n) => DetachedBy(u, n)'
    <3>1. ~DetachedBy(t, n)
      BY <2>1, <2>2 DEF DetachedBy
    <3> QED
      BY <1>1, <3>1 DEF OthersSame, DetachedBy
  <2> QED
    BY <2>1, <2>2, <2>3 DEF Linked
<1>5. CASE db_add_miss(t)
  <2>1. PICK m \in Cells :
          /\ m \notin alive /\ node_constructor(t, m)
          /\ \A q \in Node : Linked(q)' <=> Linked(q) \/ q = m
          /\ \A q \in Node \ {parent[t], m} :
                /\ lchild'[q] = lchild[q] /\ rchild'[q] = rchild[q] /\ name'[q] = name[q]
    BY <1>1, <1>5, Added DEF Full
  <2>2. alive' = alive \cup {m} /\ Linked(parent[t])
    BY <1>1, <1>5, <2>1 DEF node_constructor, db_add_miss, SearchPos, HoldsParent
  <2>3. n = m \/ n \in alive
    BY <2>2
  <2>4. ~Linked(n)' => n \notin {parent[t], m}
    BY <1>2, <2>1, <2>2
  <2> QED
    BY <1>2, <2>1, <2>3, <2>4
<1>6. CASE db_remove_splice(t)
  <2>1. /\ name' = name /\ alive' = alive /\ UNCHANGED locals
        /\ pc[t] = "hit" /\ pc'[t] = "splice_unlock"
    BY <1>1, <1>6 DEF db_remove_splice, Goto, TypeOK, LocalsOK
  <2>2. \A u \in Threads : DetachedBy(u, n) => DetachedBy(u, n)'
    BY <1>1, <2>1 DEF OthersSame, DetachedBy
  <2>3. Linked(parent[t])'
    BY <1>1, <2>1 DEF SearchPos, HoldsParent, locals
  <2>4. n # parent[t] => lchild'[n] = lchild[n] /\ rchild'[n] = rchild[n]
    BY <1>1, <1>2, <1>6 DEF db_remove_splice, link, TypeOK, HeapOK
  <2>5. ~Linked(n)' => n # parent[t]
    BY <2>1, <2>3 DEF locals, Linked, DetachedBy
  <2> QED
    BY <2>1, <2>2, <2>4, <2>5 DEF Linked
<1>7. CASE db_remove_copy(t)
  <2>1. /\ lchild' = lchild /\ rchild' = rchild /\ alive' = alive /\ UNCHANGED target
        /\ name' = [name EXCEPT ![target[t]] = name[next[t]]]
        /\ pc[t] = "copy" /\ pc'[t] = "unlink"
    BY <1>1, <1>7 DEF db_remove_copy, Goto, TypeOK, LocalsOK, locals
  <2>2. \A u \in Threads : DetachedBy(u, n) => DetachedBy(u, n)'
    BY <1>1, <2>1 DEF OthersSame, DetachedBy
  <2>3. Linked(target[t])'
    BY <1>1, <2>1 DEF SearchPos, HoldsTarget
  <2>4. ~Linked(n)' => n # target[t]
    BY <2>1, <2>3 DEF Linked, DetachedBy
  <2>5. n # target[t] => name'[n] = name[n]
    BY <1>1, <1>2, <2>1 DEF TypeOK, HeapOK
  <2> QED
    BY <2>1, <2>2, <2>4, <2>5 DEF Linked
<1>8. CASE db_remove_unlink(t)
  <2>1. /\ name' = name /\ alive' = alive /\ next' = next
        /\ pc[t] = "unlink" /\ pc'[t] = "free_next"
    BY <1>1, <1>8 DEF db_remove_unlink, Goto, TypeOK, LocalsOK
  <2>2. /\ next[t] \in Node /\ Linked(next[t]) /\ pnext[t] \in Node /\ Linked(pnext[t])
        /\ pnext[t] # next[t]
    <3>1. Walking(t)
      BY <2>1 DEF Walking
    <3>2. /\ next[t] \in Node /\ Linked(next[t]) /\ pnext[t] \in Node /\ Linked(pnext[t])
      BY <1>1, <3>1, Walker, ConstAssumption DEF WalkPos, Node
    <3>3. lchild[next[t]] = NULL /\ next[t] # NULL /\ pnext[t] # NULL
      BY <2>1, <3>2, ConstAssumption DEF Full, OrderInv, WalkDown, Node
    <3>4. pnext[t] = target[t] => pnext[t] # next[t]
      BY <1>1, <3>1 DEF WalkPos
    <3>5. pnext[t] # target[t] => lchild[pnext[t]] = next[t]
      BY <1>1, <3>1 DEF WalkPos
    <3> QED
      BY <3>2, <3>3, <3>4, <3>5
  <2>3. \A q \in Node : ~DetachedBy(t, q) /\ (DetachedBy(t, q)' <=> q = next[t])
    BY <2>1 DEF DetachedBy
  <2>4. \A q \in Node : Linked(q)' <=> Linked(q) /\ q # next[t]
    BY <1>1, <2>1, <2>2, <2>3, DetachLinked
  <2>5. n # pnext[t] => lchild'[n] = lchild[n] /\ rchild'[n] = rchild[n]
    BY <1>1, <1>2, <1>8 DEF db_remove_unlink, TypeOK, HeapOK
  <2>6. ~Linked(n)' => n # pnext[t]
    BY <1>2, <2>2, <2>4
  <2> QED
    BY <1>2, <2>1, <2>4, <2>5, <2>6
<1> QED
  BY <1>3, <1>4, <1>5, <1>6, <1>7, <1>8, RunCases


\* The nodes apart stay apart under a step of a client: pointers are written only
\* in the tree, to nodes of the tree, and a cell that was freed is not apart.
LEMMA ApartStays ==
    ASSUME Full, Full', NEW t \in Threads, Run(t), NEW B, Apart(B),
           UNCHANGED frames, ever \cup Present' \subseteq ever', ~cut' => ~cut
    PROVE  \E C : Apart(C)'
<1>1. PICK C : C = B \cap alive'
  OBVIOUS
<1>2. /\ C \subseteq alive' /\ C \subseteq alive /\ C \subseteq B
      /\ \A n \in alive' \ C : n \notin B
  BY <1>1 DEF Apart
<1>3. \A n \in C : ~Linked(n)'
  BY <1>2, OutStaysOut DEF Apart
<1>4. ASSUME NEW n \in alive' \ C
      PROVE  name'[n] \in ever'
  <2>1. CASE Linked(n)'
    <3>1. AllPresent'
      BY NamesPresent, PTL
    <3> QED
      BY <2>1, <3>1 DEF AllPresent
  <2>2. CASE ~Linked(n)'
    BY <1>2, <2>2, OutStaysOut DEF Apart
  <2> QED
    BY <2>1, <2>2
<1>5. ASSUME NEW n \in (alive' \ C) \cup {head}
      PROVE  lchild'[n] \notin C /\ rchild'[n] \notin C
  <2>1. CASE Linked(n)' /\ n \in Node
    <3>1. TreeShape' /\ TypeOK'
      BY DEF Full, Inv, IInv
    <3>2. /\ lchild'[n] # NULL => Linked(lchild[n])'
          /\ rchild'[n] # NULL => Linked(rchild[n])'
      BY <2>1, <3>1 DEF TreeShape
    <3>3. NULL \notin C
      BY <1>2, <3>1, ConstAssumption DEF TypeOK, HeapOK
    <3> QED
      BY <1>3, <3>2, <3>3 DEF Linked, DetachedBy
  <2>2. CASE ~Linked(n)' /\ n # head
    BY <1>2, <2>2, OutStaysOut DEF Apart
  <2>3. Linked(head)' /\ head \in Node
    <3>1. TypeOK'
      BY DEF Full, Inv, IInv
    <3> QED
      BY <3>1, ConstAssumption DEF TypeOK, LocalsOK, Node, Ptr, Linked, DetachedBy
  <2>4. n \in Node
    BY <2>3 DEF Full, Inv, IInv, TypeOK, HeapOK, Node
  <2> QED
    BY <2>1, <2>2, <2>3, <2>4
<1>6. ~cut' => \A i \in DOMAIN frames' : frames'[i].node \notin C
  BY <1>2 DEF Apart
<1>7. Apart(C)'
  BY <1>2, <1>3, <1>4, <1>5, <1>6 DEF Apart
<1> QED
  BY <1>7

\* What fprintf has read stays in the history when a client rewrites the node.
LEMMA ClientReads ==
    ASSUME Full, Full', PrintInv, Client, ~cut' => ~cut /\ ~Dangling',
           NEW B, Apart(B)', reading # {}
    PROVE  ReadInv'
<1> DEFINE n == Head(frames).node
<1>1. /\ UNCHANGED <<print, frames>> /\ print = "on" /\ frames # <<>>
      /\ Head(frames).step = "print" /\ n \in Cells
      /\ reading \subseteq Names \cup {0}
      /\ reading' = reading \cup {name'[n]}
      /\ ever' = ever \cup Present'
      /\ moved' = moved \cup {name'[q] : q \in {m \in alive : name'[m] # name[m]}}
  BY DEF Client, PrintInv, ReadInv
<1>2. name'[n] \in Names \cup {0}
  BY <1>1 DEF Full, Inv, IInv, TypeOK, HeapOK, Node
<1>3. 1 \in DOMAIN frames /\ Head(frames) = frames[1]
  <2> DEFINE V == [node : Node \cup {NULL}, step : {"print", "left", "right"}]
  <2>1. frames \in Seq(V)
    BY DEF PrintInv, Frames
  <2> HIDE DEF V
  <2> QED
    BY <1>1, <2>1, Elements
<1>4. ASSUME ~cut'
      PROVE  /\ name'[n] \in reading' /\ reading' \subseteq ever'
             /\ reading' # {name'[n]} => name'[n] \in moved'
  <2>1. /\ ~cut /\ name[n] \in reading /\ reading \subseteq ever
        /\ reading # {name[n]} => name[n] \in moved
    BY <1>4 DEF PrintInv, ReadInv
  <2>2. n \in alive /\ n \in alive'
    BY <1>1, <1>3, <1>4 DEF Dangling, PrintInv
  <2>3. name'[n] \in ever'
    BY <1>1, <1>3, <1>4, <2>2 DEF Apart
  <2>4. CASE name'[n] = name[n]
    BY <1>1, <2>1, <2>3, <2>4
  <2>5. CASE name'[n] # name[n]
    BY <1>1, <2>1, <2>2, <2>3, <2>5
  <2> QED
    BY <2>4, <2>5
<1> QED
  BY <1>1, <1>2, <1>4 DEF ReadInv

LEMMA ClientKeeps ==
    ASSUME Full, Full', PrintInv, Client
    PROVE  PrintInv'
<1>1. PICK t \in Threads : Run(t)
  BY DEF Client, Run
<1>2. /\ UNCHANGED <<print, frames, out>> /\ cut' = (cut \/ Dangling')
      /\ ever' = IF print = "on" THEN ever \cup Present' ELSE ever
  BY DEF Client
<1>3. cut' \in BOOLEAN /\ (~cut' => ~Dangling' /\ ~cut)
  BY <1>2 DEF PrintInv
<1>4. PrintInventsNothing'
  <2>1. ever \subseteq ever' /\ moved \subseteq moved' /\ Printed' = Printed
    BY <1>2 DEF Client, Printed
  <2> QED
    BY <1>3, <2>1 DEF PrintInv, PrintInventsNothing
<1>5. print = "on" => Present' \subseteq ever' /\ \E B : Apart(B)'
  <2> HAVE print = "on"
  <2>1. ever \cup Present' \subseteq ever'
    BY <1>2
  <2>2. PICK B : Apart(B)
    BY DEF PrintInv
  <2> QED
    BY <1>1, <1>2, <1>3, <2>1, <2>2, ApartStays
<1>6. ReadInv'
  <2>1. CASE reading = {}
    <3>1. reading' = {}
      BY <2>1 DEF Client
    <3> QED
      BY <3>1 DEF ReadInv
  <2>2. CASE reading # {}
    <3>1. PICK B : Apart(B)'
      BY <1>5, <2>2 DEF PrintInv, ReadInv
    <3> QED
      BY <1>3, <2>2, <3>1, ClientReads
  <2> QED
    BY <2>1, <2>2
<1> QED
  BY <1>2, <1>3, <1>4, <1>5, <1>6 DEF PrintInv

------------------------------------------------------------------------------
(* The walk *)

\* A step of the walk leaves the tree and the database alone.
LEMMA TreeSame ==
    ASSUME Full, UNCHANGED vars
    PROVE  /\ name' = name /\ lchild' = lchild /\ rchild' = rchild /\ alive' = alive
           /\ \A n : Linked(n)' <=> Linked(n)
           /\ Present' = Present /\ \A k : Found(k)' = Found(k)
<1>1. /\ name' = name /\ lchild' = lchild /\ rchild' = rchild /\ alive' = alive
      /\ value' = value /\ pc' = pc /\ target' = target /\ next' = next
  BY DEF vars, heap, locals
<1>2. \A n : Linked(n)' <=> Linked(n)
  BY <1>1 DEF Linked, DetachedBy
<1>3. \A k : Found(k)' = Found(k)
  BY <1>1, <1>2 DEF Found, Stale
<1>4. Full'
  BY NextFull
<1>5. Present' = Present
  BY <1>1, <1>3, <1>4, MapSame DEF Present
<1> QED
  BY <1>1, <1>2, <1>3, <1>5

LEMMA StartKeeps ==
    ASSUME Full, PrintInv, db_print
    PROVE  PrintInv'
<1>1. /\ print = "off" /\ print' = "on" /\ frames' = <<Frame(head, "print")>>
      /\ ever' = Present /\ out' = out /\ cut' = cut /\ out = <<>>
  BY DEF db_print, PrintInv
<1>2. /\ name' = name /\ lchild' = lchild /\ rchild' = rchild /\ alive' = alive
      /\ \A n : Linked(n)' <=> Linked(n)
      /\ Present' = Present
  BY TreeSame DEF db_print
<1>3. PICK B : B = {n \in alive : ~Linked(n)}
  OBVIOUS
<1>4. /\ head \notin Cells /\ alive \subseteq Cells /\ NULL \notin Cells /\ head \in Node
      /\ NULL # head
  BY ConstAssumption DEF Full, Inv, IInv, TypeOK, HeapOK, Node
<1>5. frames' \in Frames /\ DOMAIN frames' = {1} /\ frames'[1].node = head
  BY <1>1, <1>4 DEF Frames, Frame
<1>6. Apart(B)'
  <2>1. B \subseteq alive' /\ \A n \in B : ~Linked(n)'
    BY <1>2, <1>3
  <2>2. \A n \in alive' \ B : name'[n] \in ever'
    BY <1>1, <1>2, <1>3, LinkedPresent
  <2>3. \A n \in (alive' \ B) \cup {head} : lchild'[n] \notin B /\ rchild'[n] \notin B
    <3>1. \A n \in (alive \ B) \cup {head} : n \in Tree
      BY <1>3, <1>4, TreeFacts DEF Tree, Full, Node
    <3>2. Inv
      BY DEF Full
    <3>3. \A n \in Tree \cup {NULL} : n \notin B
      BY <1>3, <1>4 DEF Tree
    <3> QED
      BY <1>2, <3>1, <3>2, <3>3, TreeFacts
  <2>4. \A i \in DOMAIN frames' : frames'[i].node \notin B
    BY <1>3, <1>4, <1>5
  <2> QED
    BY <2>1, <2>2, <2>3, <2>4 DEF Apart
<1>7. ~Dangling'
  BY <1>4, <1>5 DEF Dangling
<1>8. PrintInventsNothing'
  BY <1>1 DEF PrintInventsNothing, Printed
<1>9. print' = "on" => Present' \subseteq ever' /\ \E C : Apart(C)'
  BY <1>1, <1>2, <1>6
<1>10. ReadInv'
  <2>1. reading' = {}
    BY <1>1 DEF db_print, PrintInv, ReadInv
  <2> QED
    BY <2>1 DEF ReadInv
<1> QED
  BY <1>1, <1>5, <1>7, <1>8, <1>9, <1>10 DEF PrintInv


\* An activation replaced by those it calls.
LEMMA Pushed ==
    ASSUME NEW S, NEW s \in Seq(S), s # <<>>, NEW a \in S, NEW b \in S
    PROVE  /\ Tail(s) \in Seq(S) /\ Head(s) \in S
           /\ <<a>> \o Tail(s) \in Seq(S) /\ <<a, b>> \o Tail(s) \in Seq(S)
<1>1. Tail(s) \in Seq(S) /\ Head(s) \in S
  BY HeadTailProperties
<1>2. <<a>> \in Seq(S) /\ <<a, b>> \in Seq(S)
  OBVIOUS
<1> QED
  BY <1>1, <1>2, ConcatProperties

\* A node is written with what fprintf has read of its name, and nothing else is.
Wrote(x) ==
    /\ x \in reading \/ (x = Torn /\ \E y, z \in reading : y # z)
    /\ out' \in Seq(Nat \cup {Torn})
    /\ Len(out) \in Nat /\ Len(out') = Len(out) + 1 /\ Printed' = Printed \cup {x}

LEMMA LineWritten ==
    ASSUME Full, PrintInv, db_print_recurs
    PROVE  \/ out' = out /\ ~(Head(frames).node \in alive /\ Head(frames).step = "print")
           \/ /\ Head(frames).node \in alive /\ Head(frames).step = "print" /\ reading # {}
              /\ \E x : Wrote(x)
<1> DEFINE n == Head(frames).node
           step == Head(frames).step
           S == Nat \cup {Torn}
<1>1. out \in Seq(S) /\ reading \subseteq S
  BY NamesNat DEF PrintInv, ReadInv
<1>2. head \notin Cells /\ alive \subseteq Cells /\ NULL \notin Cells /\ head # NULL
  BY ConstAssumption DEF Full, Inv, IInv, TypeOK, HeapOK
<1>3. CASE n \in alive /\ step = "print"
  <2>1. PICK line \in written(n) : out' = out \o line
    BY <1>2, <1>3 DEF db_print_recurs
  <2>2. PICK x : /\ line = <<x>>
                 /\ x \in reading \/ (x = Torn /\ \E y, z \in reading : y # z)
    BY <1>2, <1>3, <2>1 DEF written
  <2>3. x \in S /\ reading # {}
    BY <1>1, <2>2
  <2> HIDE DEF S
  <2>4. <<x>> \in Seq(S) /\ Len(<<x>>) = 1 /\ <<x>>[1] = x
    BY <2>3
  <2>5. PICK c : c = <<x>>
    OBVIOUS
  <2>6. /\ out' \in Seq(S) /\ Len(out') = Len(out) + Len(c)
        /\ \A i \in 1..Len(out) + Len(c) :
             out'[i] = IF i <= Len(out) THEN out[i] ELSE c[i - Len(out)]
    BY <1>1, <2>1, <2>2, <2>4, <2>5, ConcatProperties
  <2>7. Len(out) \in Nat /\ DOMAIN out = 1..Len(out) /\ DOMAIN out' = 1..Len(out')
    BY <1>1, <2>6
  <2>8. /\ Len(out') = Len(out) + 1
        /\ \A i \in 1..Len(out) : out'[i] = out[i]
        /\ out'[Len(out) + 1] = x
    BY <2>4, <2>5, <2>6, <2>7
  <2>9. DOMAIN out' = DOMAIN out \cup {Len(out) + 1}
    BY <2>7, <2>8
  <2>10. Printed' = Printed \cup {x}
    BY <2>7, <2>8, <2>9 DEF Printed
  <2> QED
    BY <1>3, <2>2, <2>3, <2>6, <2>7, <2>8, <2>10 DEF Wrote, S
<1>4. CASE ~(n \in alive /\ step = "print")
  <2>1. out' = out \/ (n = head /\ \E line \in written(n) : out' = out \o line)
    BY <1>4 DEF db_print_recurs
  <2>2. n = head => written(n) = {<<>>}
    BY DEF written
  <2>3. out \o <<>> = out
    BY <1>1
  <2> QED
    BY <1>4, <2>1, <2>2, <2>3
<1> QED
  BY <1>3, <1>4

LEMMA WalkKeeps ==
    ASSUME Full, PrintInv, db_print_recurs
    PROVE  PrintInv'
<1> DEFINE n == Head(frames).node
           step == Head(frames).step
           Steps == {"print", "left", "right"}
           Visits(N) == [node : N, step : Steps]
<1>1. /\ print = "on" /\ frames # <<>> /\ ever' = ever /\ cut' = (cut \/ Dangling')
      /\ cut \in BOOLEAN /\ frames \in Seq(Visits(Node \cup {NULL}))
      /\ out \in Seq(Nat \cup {Torn}) /\ reading' = {} /\ moved' = moved
  BY DEF db_print_recurs, PrintInv, Frames
<1>2. /\ name' = name /\ lchild' = lchild /\ rchild' = rchild /\ alive' = alive
      /\ \A m : Linked(m)' <=> Linked(m)
      /\ Present' = Present
  BY TreeSame DEF db_print_recurs
<1>3. PICK B : Apart(B)
  BY <1>1 DEF PrintInv
<1>4. /\ alive \subseteq Cells /\ Cells \subseteq Node /\ head \in Node /\ NULL \notin Cells
      /\ head \notin Cells /\ NULL # head /\ NULL \notin Node
      /\ \A m \in Node : lchild[m] \in Node \cup {NULL} /\ rchild[m] \in Node \cup {NULL}
      /\ \A m \in Node : name[m] \in Nat
  BY ConstAssumption, NamesNat DEF Full, Inv, IInv, TypeOK, HeapOK, Node, Ptr
<1>5. /\ cut' \in BOOLEAN /\ (~cut' => ~Dangling') /\ (~cut' => ~cut)
  BY <1>1
<1>6. Head(frames) \in Visits(Node \cup {NULL}) /\ DOMAIN frames = 1..Len(frames)
      /\ 1 \in DOMAIN frames /\ Head(frames) = frames[1]
  BY <1>1, Elements, Zenon
<1>7. step \in Steps /\ n \in Node \cup {NULL}
  BY <1>6
\* the activations that are left are of nodes that are not apart
<1>8. ASSUME NEW N, N \subseteq Node \cup {NULL}, frames \in Seq(Visits(N)),
             n \in alive \cup {head} => {n, lchild[n], rchild[n]} \subseteq N
      PROVE  frames' \in Seq(Visits(N))
  <2> DEFINE T == Visits(N)
  <2>1. CASE n = NULL
    <3>1. frames' = Tail(frames)
      BY <1>4, <2>1 DEF db_print_recurs
    <3> QED
      BY <1>1, <1>8, <3>1, HeadTailProperties
  <2>2. CASE n \in alive \cup {head}
    <3>1. frames' = calls_of(n, step) \o Tail(frames)
      BY <1>4, <2>2 DEF db_print_recurs
    <3>2. \A m \in N, p \in Steps : Frame(m, p) \in T
      BY DEF Frame
    <3>3. CASE step = "print"
      <4>1. calls_of(n, step) = <<Frame(n, "left")>>
        BY <3>3 DEF calls_of
      <4>2. Frame(n, "left") \in T
        BY <1>8, <2>2, <3>2
      <4> HIDE DEF T
      <4> QED
        BY <1>1, <1>8, <3>1, <4>1, <4>2, Pushed DEF T
    <3>4. CASE step = "left"
      <4>1. calls_of(n, step) = <<Frame(lchild[n], "print"), Frame(n, "right")>>
        BY <3>4 DEF calls_of
      <4>2. Frame(lchild[n], "print") \in T /\ Frame(n, "right") \in T
        BY <1>8, <2>2, <3>2
      <4> HIDE DEF T
      <4> QED
        BY <1>1, <1>8, <3>1, <4>1, <4>2, Pushed DEF T
    <3>5. CASE step = "right"
      <4>1. calls_of(n, step) = <<Frame(rchild[n], "print")>>
        BY <3>5 DEF calls_of
      <4>2. Frame(rchild[n], "print") \in T
        BY <1>8, <2>2, <3>2
      <4> HIDE DEF T
      <4> QED
        BY <1>1, <1>8, <3>1, <4>1, <4>2, Pushed DEF T
    <3> QED
      BY <1>7, <3>3, <3>4, <3>5
  <2>3. CASE n \in Cells \ alive
    <3>1. frames' = <<>>
      BY <1>4, <2>3 DEF db_print_recurs
    <3> QED
      BY <3>1
  <2> QED
    BY <1>4, <1>7, <2>1, <2>2, <2>3 DEF Node
<1>9. frames' \in Frames
  <2>1. n \in alive \cup {head} => {n, lchild[n], rchild[n]} \subseteq Node \cup {NULL}
    BY <1>4
  <2> QED
    BY <1>1, <1>8, <2>1 DEF Frames
<1>10. ~cut => /\ n \notin B
               /\ \A i \in DOMAIN frames' : frames'[i].node \notin B
  <2> SUFFICES ASSUME ~cut PROVE n \notin B /\ \A i \in DOMAIN frames' : frames'[i].node \notin B
    OBVIOUS
  <2> DEFINE N == (Node \cup {NULL}) \ B
  <2>1. \A i \in DOMAIN frames : frames[i].node \notin B
    BY <1>3 DEF Apart
  <2>2. n \notin B
    BY <1>6, <2>1
  <2>3. \A i \in 1..Len(frames) : frames[i] \in Visits(N)
    <3> TAKE i \in 1..Len(frames)
    <3>1. frames[i] \in Visits(Node \cup {NULL})
      BY <1>1, <1>6, Elements, Zenon
    <3> QED
      BY <1>6, <2>1, <3>1
  <2>4. frames \in Seq(Visits(N))
    <3> DEFINE T == Visits(N)
    <3> HIDE DEF T
    <3>1. \A i \in 1..Len(frames) : frames[i] \in T
      BY <2>3 DEF T
    <3>2. frames \in Seq(T)
      BY <1>1, <3>1
    <3> QED
      BY <3>2 DEF T
  <2>5. head \notin B
    BY <1>3, <1>4 DEF Apart
  <2>6. n \in alive \cup {head} => {n, lchild[n], rchild[n]} \subseteq N
    BY <1>3, <1>4, <2>2 DEF Apart
  <2>7. frames' \in Seq(Visits(N))
    BY <1>8, <2>4, <2>6
  <2>8. \A i \in DOMAIN frames' : frames'[i] \in Visits(N)
    BY <2>7, Elements, Zenon
  <2> QED
    BY <2>2, <2>8
<1>11. Apart(B)'
  BY <1>1, <1>2, <1>3, <1>5, <1>10 DEF Apart
<1>12. out' \in Seq(Nat \cup {Torn}) /\ PrintInventsNothing'
  <2>1. CASE out' = out
    BY <1>1, <1>5, <2>1 DEF PrintInv, PrintInventsNothing, Printed
  <2>2. CASE reading # {} /\ \E x : Wrote(x)
    <3>1. PICK x : Wrote(x)
      BY <2>2
    <3>2. ASSUME ~cut
          PROVE  (x \in reading /\ x \in ever) \/ (x = Torn /\ moved # {})
      <4>1. /\ reading \subseteq ever
            /\ reading # {name[n]} => moved # {}
        BY <2>2, <3>2 DEF PrintInv, ReadInv
      <4> QED
        BY <3>1, <4>1 DEF Wrote
    <3>3. \A y \in Names \cup {0} : y # Torn
      BY TornAssumption
    <3>4. reading \subseteq Names \cup {0}
      BY DEF PrintInv, ReadInv
    <3>5. ~cut => /\ Printed \ {Torn} \subseteq ever
                  /\ Torn \in Printed => moved # {}
      BY DEF PrintInv, PrintInventsNothing
    <3> QED
      BY <1>1, <1>5, <3>1, <3>2, <3>3, <3>4, <3>5 DEF PrintInventsNothing, Wrote
  <2> QED
    BY <2>1, <2>2, LineWritten
<1>13. /\ print' \in {"on", "undefined"} /\ (print' = "undefined" => frames' = <<>>)
  BY <1>1 DEF db_print_recurs
<1>14. Present' \subseteq ever' /\ \E C : Apart(C)'
  BY <1>1, <1>2, <1>11 DEF PrintInv
<1>15. ReadInv'
  BY <1>1 DEF ReadInv
<1> QED
  BY <1>5, <1>9, <1>12, <1>13, <1>14, <1>15 DEF PrintInv

\* What fprintf reads first is the name the node has now.
LEMMA BeginReads ==
    ASSUME Full, PrintInv, fprintf_begin
    PROVE  ReadInv'
<1> DEFINE n == Head(frames).node
           V == [node : Node \cup {NULL}, step : {"print", "left", "right"}]
<1>1. /\ print = "on" /\ frames # <<>> /\ Head(frames).step = "print" /\ n \in alive
      /\ reading' = {name[n]} /\ UNCHANGED <<vars, print, frames, ever, moved, cut>>
  BY DEF fprintf_begin
<1>2. name' = name
  BY <1>1 DEF vars, heap
<1>3. n \in Cells /\ name[n] \in Names \cup {0}
  BY <1>1 DEF Full, Inv, IInv, TypeOK, HeapOK, Node
<1>4. 1 \in DOMAIN frames /\ Head(frames) = frames[1]
  <2>1. frames \in Seq(V)
    BY DEF PrintInv, Frames
  <2> HIDE DEF V
  <2> QED
    BY <1>1, <2>1, Elements
<1>5. ~cut => name[n] \in ever
  <2>1. PICK B : Apart(B)
    BY <1>1 DEF PrintInv
  <2> QED
    BY <1>1, <1>4, <2>1 DEF Apart
<1> QED
  BY <1>1, <1>2, <1>3, <1>5 DEF ReadInv

LEMMA EndKeeps ==
    ASSUME Full, PrintInv,
           fprintf_begin \/ db_print_return \/ UNCHANGED <<vars, printer>>
    PROVE  PrintInv'
<1>1. /\ UNCHANGED vars /\ UNCHANGED <<frames, out, ever, moved, cut>>
      /\ print' = print \/ (print = "on" /\ frames = <<>> /\ print' = "done")
  BY DEF fprintf_begin, db_print_return, printer
<1>2. /\ name' = name /\ lchild' = lchild /\ rchild' = rchild /\ alive' = alive
      /\ \A n : Linked(n)' <=> Linked(n)
      /\ Present' = Present
  BY <1>1, TreeSame
<1>3. PrintInventsNothing' /\ (~cut' => ~Dangling')
  BY <1>1, <1>2 DEF PrintInv, PrintInventsNothing, Printed, Dangling
<1>4. print' = "on" => Present' \subseteq ever' /\ \E B : Apart(B)'
  <2> HAVE print' = "on"
  <2>1. PICK B : Apart(B)
    BY <1>1 DEF PrintInv
  <2>2. Apart(B)'
    BY <1>1, <1>2, <2>1 DEF Apart
  <2> QED
    BY <1>1, <1>2, <2>2 DEF PrintInv
<1>5. ReadInv'
  <2>1. CASE fprintf_begin
    BY <2>1, BeginReads
  <2>2. CASE ~fprintf_begin
    <3>1. reading' = reading
      BY <2>2 DEF db_print_return, printer
    <3>2. reading # {} => print' = print
      BY <1>1, <2>2 DEF PrintInv, ReadInv
    <3> QED
      BY <1>1, <1>2, <3>1, <3>2 DEF PrintInv, ReadInv
  <2> QED
    BY <2>1, <2>2
<1> QED
  BY <1>1, <1>3, <1>4, <1>5 DEF PrintInv

LEMMA PrintInvInit ==
    ASSUME Init, PrintInit
    PROVE  Full /\ PrintInv
<1>1. Full
  BY InitFull
<1>2. frames = <<>> /\ out = <<>> /\ print = "off" /\ cut = FALSE /\ reading = {}
  BY DEF PrintInit
<1>3. frames \in Frames /\ out \in Seq(Nat \cup {Torn}) /\ DOMAIN frames = {} /\ DOMAIN out = {}
  BY <1>2 DEF Frames
<1>4. PrintInv
  BY <1>2, <1>3 DEF PrintInv, ReadInv, Dangling, PrintInventsNothing, Printed
<1> QED
  BY <1>1, <1>4

LEMMA PrintInvStep ==
    ASSUME Full, PrintInv, [PrintNext]_<<vars, printer>>
    PROVE  Full' /\ PrintInv'
<1>1. [Next]_vars
  BY DEF PrintNext, Client, db_print, fprintf_begin, db_print_recurs, db_print_return, Next
<1>2. Full'
  BY <1>1, NextFull
<1>3. PrintInv'
  BY <1>2, ClientKeeps, StartKeeps, WalkKeeps, EndKeeps DEF PrintNext, Finished
<1> QED
  BY <1>2, <1>3

\* However clients interfere, db_print writes only names that were in the database
\* at some time since it began, as long as no node it has a pointer to is freed.
THEOREM NothingIsInvented == PrintSpec => []PrintInventsNothing
<1>1. Init /\ PrintInit => Full /\ PrintInv
  BY PrintInvInit
<1>2. Full /\ PrintInv /\ [PrintNext]_<<vars, printer>> => (Full /\ PrintInv)'
  BY PrintInvStep
<1>3. PrintInv => PrintInventsNothing
  BY DEF PrintInv
<1> QED
  BY <1>1, <1>2, <1>3, PTL DEF PrintSpec

------------------------------------------------------------------------------
(* The children of a node that db_remove has taken out of the tree *)

\* A command comes into possession only of head and of children of nodes that it
\* has already.
LEMMA Acquires ==
    ASSUME Inv, NEW t \in Threads, Run(t),
           NEW n, n \in Holds(t)' \cup walked'[t], n \notin Holds(t) \cup walked[t]
    PROVE  \/ n = head
           \/ \E q \in Holds(t) \cup walked[t] :
                 q \in Node /\ Linked(q) /\ n \in {lchild[q], rchild[q]}
<1>1. TypeOK /\ LocalsOK /\ SearchPos(t) /\ WalkPos(t) /\ IInv
  BY DEF Inv, IInv, TypeOK
<1>2. /\ HoldsParent(t) => parent[t] \in Node
      /\ HoldsTarget(t) => target[t] \in Node
      /\ Walking(t) => next[t] \in Node
  BY <1>1, Pointers DEF Node
<1> USE DEF Goto, LocalsOK
<1>3. CASE lock_head(t)
  BY <1>1, <1>3 DEF lock_head, Holds, HoldsParent, HoldsTarget, HoldsRchild
<1>4. CASE search_lock(t)
  <2>1. /\ pc[t] = "lock_next" /\ pc'[t] = "compare" /\ UNCHANGED locals
    BY <1>1, <1>4 DEF search_lock
  <2>2. n = target[t] /\ parent[t] \in Holds(t) /\ Linked(parent[t])
    BY <1>1, <1>2, <2>1 DEF Holds, HoldsParent, HoldsTarget, HoldsRchild, locals, SearchPos
  <2>3. n \in {lchild[parent[t]], rchild[parent[t]]}
    BY <1>1, <2>1, <2>2 DEF SearchPos, child
  <2> QED
    BY <1>2, <2>1, <2>2, <2>3 DEF HoldsParent
<1>5. CASE db_remove_two(t)
  <2>1. /\ pc[t] = "hit" /\ pc'[t] = "walk" /\ UNCHANGED <<parent, target, rchild>>
        /\ walked'[t] = {rchild[target[t]]}
    BY <1>1, <1>5 DEF db_remove_two, heap
  <2>2. n = rchild[target[t]] /\ target[t] \in Holds(t) /\ Linked(target[t])
    BY <1>1, <1>2, <2>1 DEF Holds, HoldsParent, HoldsTarget, HoldsRchild, SearchPos
  <2> QED
    BY <1>2, <2>1, <2>2 DEF HoldsTarget
<1>6. CASE db_remove_walk_lock(t) \/ db_remove_walk_unlock(t)
  <2>1. /\ pc[t] \in {"walk_lock", "walk_unlock"} /\ Walking(t)
        /\ UNCHANGED <<parent, target, rchild>>
        /\ \/ pc'[t] = "walk_unlock" /\ UNCHANGED <<nextl, walked>>
           \/ pc'[t] = "walk" /\ walked'[t] = walked[t] \cup {lchild[next[t]]}
    BY <1>1, <1>6 DEF db_remove_walk_lock, db_remove_walk_unlock, heap, locals, Walking
  <2>2. next[t] \in walked[t] /\ Linked(next[t]) /\ nextl[t] = lchild[next[t]]
    BY <1>1, <2>1 DEF WalkPos
  <2>3. n = lchild[next[t]]
    BY <1>1, <2>1, <2>2 DEF Holds, HoldsParent, HoldsTarget, HoldsRchild
  <2> QED
    BY <1>2, <2>1, <2>2, <2>3
<1>7. CASE search_compare(t)
  <2>1. /\ pc[t] = "compare" /\ walked' = walked /\ target' = target /\ rchild' = rchild
        /\ \/ pc'[t] = "hit" /\ parent' = parent
           \/ pc'[t] = "search" /\ parent'[t] = target[t]
    BY <1>1, <1>7 DEF search_compare, heap
  <2> QED
    BY <1>1, <1>2, <2>1 DEF Holds, HoldsParent, HoldsTarget, HoldsRchild
<1>8. CASE search(t)
  <2>1. /\ pc[t] = "search" /\ pc'[t] \in {"miss", "lock_next"}
        /\ parent' = parent /\ walked' = walked
    BY <1>1, <1>8 DEF search
  <2> QED
    BY <1>1, <2>1 DEF Holds, HoldsParent, HoldsTarget, HoldsRchild
<1>9. CASE db_remove_walk(t)
  <2>1. /\ pc[t] = "walk" /\ pc'[t] \in {"walk_lock", "copy"}
        /\ UNCHANGED <<parent, target, rchild, walked>>
    BY <1>1, <1>9 DEF db_remove_walk, heap
  <2> QED
    BY <1>1, <2>1 DEF Holds, HoldsParent, HoldsTarget, HoldsRchild
<1>10. CASE db_remove_unlink(t)
  <2>1. /\ pc[t] = "unlink" /\ pc'[t] = "free_next" /\ UNCHANGED <<parent, target>>
        /\ walked'[t] = {}
    BY <1>1, <1>10 DEF db_remove_unlink
  <2> QED
    BY <1>1, <2>1 DEF Holds, HoldsParent, HoldsTarget, HoldsRchild
<1>11. CASE \/ interpret_command(t) \/ db_query_hit(t) \/ db_query_read(t)
            \/ db_query_return(t) \/ db_query_miss(t) \/ db_add_hit(t)
            \/ db_remove_miss(t) \/ db_remove_splice_unlock(t)
            \/ db_remove_unlock_dnode(t) \/ unlock_parent(t)
            \/ db_remove_splice_free(t) \/ db_remove_free(t) \/ db_remove_copy(t)
            \/ db_add_miss(t) \/ db_remove_splice(t)
  <2>1. /\ UNCHANGED <<parent, target, walked>> /\ <<pc[t], pc'[t]>> \in
           {<<"idle", "lock_head">>, <<"hit", "query_read">>, <<"query_read", "unlock_target">>,
            <<"unlock_target", "idle">>, <<"miss", "unlock_parent">>,
            <<"hit", "unlock_parent">>, <<"splice_unlock", "splice_free">>,
            <<"unlock_dnode", "unlock_parent">>, <<"unlock_parent", "idle">>,
            <<"splice_free", "unlock_parent">>, <<"free_next", "unlock_dnode">>,
            <<"copy", "unlink">>, <<"hit", "splice_unlock">>}
    BY <1>1, <1>11 DEF interpret_command, db_query_hit, db_query_read, db_query_return,
       db_query_miss, db_add_hit, db_remove_miss, db_remove_splice_unlock,
       db_remove_unlock_dnode, unlock_parent, db_remove_splice_free, db_remove_free,
       db_remove_copy, db_add_miss, db_remove_splice, locals
  <2> QED
    BY <1>1, <2>1 DEF Holds, HoldsParent, HoldsTarget, HoldsRchild
<1> QED
  BY <1>3, <1>4, <1>5, <1>6, <1>7, <1>8, <1>9, <1>10, <1>11 DEF Run, Step

\* A command leaves the nodes of the tree alone that it has not in its possession.
LEMMA OthersKept ==
    ASSUME Full, NEW t \in Threads, Run(t), NEW q \in Node, Linked(q),
           q \notin Holds(t) \cup walked[t]
    PROVE  lchild'[q] = lchild[q] /\ rchild'[q] = rchild[q] /\ Linked(q)'
<1>1. /\ Inv /\ IInv /\ TypeOK /\ TypeOK' /\ OthersSame(t) /\ SearchPos(t) /\ WalkPos(t)
  <2>1. [Next]_vars
    BY DEF Next, Run
  <2> QED
    BY <2>1, NextInv, OnlyOwnLocals DEF Inv, IInv, Full
<1>2. CASE Reading(t)
  BY <1>1, <1>2, ReadingFacts DEF heap
<1>3. CASE db_remove_splice_free(t) \/ db_remove_free(t)
  <2>1. PICK f : /\ DetachedBy(t, f) /\ alive' = alive \ {f}
    BY <1>3 DEF db_remove_splice_free, db_remove_free, DetachedBy
  <2>2. /\ lchild' = lchild /\ rchild' = rchild /\ \A n : ~DetachedBy(t, n)'
    BY <1>1, <1>3 DEF db_remove_splice_free, db_remove_free, Goto, TypeOK, LocalsOK, DetachedBy
  <2>3. \A u \in Threads : ~DetachedBy(u, q)'
    BY <1>1, <2>2 DEF OthersSame, DetachedBy, Linked
  <2> QED
    BY <2>1, <2>2, <2>3 DEF Linked
<1>4. CASE db_add_miss(t)
  <2>1. PICK m \in Cells :
          /\ m \notin alive /\ node_constructor(t, m) /\ m # head
          /\ \A n \in Node : Linked(n)' <=> Linked(n) \/ n = m
          /\ \A n \in Node \ {parent[t], m} :
                /\ lchild'[n] = lchild[n] /\ rchild'[n] = rchild[n] /\ name'[n] = name[n]
    BY <1>1, <1>4, Added
  <2>2. parent[t] \in Holds(t)
    BY <1>1, <1>4, Pointers DEF db_add_miss, Holds, HoldsParent
  <2> QED
    BY <2>1, <2>2 DEF Linked
<1>5. CASE db_remove_splice(t)
  <2>1. /\ alive' = alive /\ pc[t] = "hit" /\ pc'[t] = "splice_unlock" /\ UNCHANGED locals
    BY <1>1, <1>5 DEF db_remove_splice, Goto, TypeOK, LocalsOK
  <2>2. parent[t] \in Holds(t) /\ target[t] \in Holds(t)
    BY <1>1, <2>1, Pointers DEF Holds, HoldsParent, HoldsTarget, Node
  <2>3. lchild'[q] = lchild[q] /\ rchild'[q] = rchild[q]
    BY <1>1, <1>5, <2>2 DEF db_remove_splice, link, TypeOK, HeapOK
  <2>4. \A u \in Threads : ~DetachedBy(u, q)'
    BY <1>1, <2>1, <2>2 DEF OthersSame, DetachedBy, Linked, locals
  <2> QED
    BY <2>1, <2>3, <2>4 DEF Linked
<1>6. CASE db_remove_copy(t)
  <2>1. /\ lchild' = lchild /\ rchild' = rchild /\ alive' = alive /\ pc'[t] = "unlink"
    BY <1>1, <1>6 DEF db_remove_copy, Goto, TypeOK, LocalsOK
  <2>2. \A u \in Threads : ~DetachedBy(u, q)'
    BY <1>1, <2>1 DEF OthersSame, DetachedBy, Linked
  <2> QED
    BY <2>1, <2>2 DEF Linked
<1>7. CASE db_remove_unlink(t)
  <2>1. /\ alive' = alive /\ pc[t] = "unlink" /\ pc'[t] = "free_next" /\ next' = next
        /\ Walking(t)
    BY <1>1, <1>7 DEF db_remove_unlink, Goto, TypeOK, LocalsOK, Walking
  <2>2. next[t] \in walked[t] /\ pnext[t] \in walked[t] \cup Holds(t)
    BY <1>1, <2>1, Walker DEF WalkPos
  <2>3. lchild'[q] = lchild[q] /\ rchild'[q] = rchild[q]
    BY <1>1, <1>7, <2>2 DEF db_remove_unlink, TypeOK, HeapOK
  <2>4. \A u \in Threads : ~DetachedBy(u, q)'
    BY <1>1, <2>1, <2>2 DEF OthersSame, DetachedBy, Linked
  <2> QED
    BY <2>1, <2>3, <2>4 DEF Linked
<1> QED
  BY <1>2, <1>3, <1>4, <1>5, <1>6, <1>7, RunCases

\* What another command owns does not depend on what t writes.
LEMMA OthersOwn ==
    ASSUME Full, NEW t \in Threads, Run(t)
    PROVE  OthersSame(t) /\ OthersHold(t)
<1>1. Inv /\ IInv /\ TypeOK /\ OthersSame(t)
  BY OnlyOwnLocals DEF Full, Inv, IInv
<1>2. ASSUME NEW u \in Threads \ {t}
      PROVE  Holds(u)' = Holds(u) /\ Mode(u)' = Mode(u)
  <2>1. HoldsRchild(u) => rchild'[target[u]] = rchild[target[u]]
    <3> SUFFICES ASSUME HoldsRchild(u) PROVE rchild'[target[u]] = rchild[target[u]]
      OBVIOUS
    <3>1. Walking(u)
      BY DEF HoldsRchild, Walking
    <3>2. target[u] \in Node /\ Linked(target[u]) /\ target[u] \in Holds(u) /\ Mode(u) = "l_write"
      BY <1>1, <3>1, Walker
    <3>3. target[u] \notin Holds(t) \cup walked[t]
      BY <1>1, <3>2, WriteApart
    <3> QED
      BY <3>2, <3>3, OthersKept
  <2> QED
    BY <1>1, <2>1 DEF OthersSame, Holds, HoldsParent, HoldsTarget, HoldsRchild, Mode
<1> QED
  BY <1>1, <1>2 DEF OthersHold

\* A node that has been taken out of the tree hangs on in it: its children are
\* children of a node that the removal has locked, or of nodes below that one which
\* nobody else can come to.
Anchor(t) == IF pc[t] = "free_next" THEN target[t] ELSE parent[t]
Shelters(t, n, W) ==
    /\ \A m \in W : Linked(m) /\ m \in Children(W \cup {Anchor(t)})
    /\ \A u \in Threads \ {t} : W \cap (Holds(u) \cup walked[u]) = {}
    /\ Children({n}) \subseteq Children(W \cup {Anchor(t)})
Heirs ==
    \A t \in Threads, n \in alive :
        DetachedBy(t, n) => \E W \in SUBSET Cells : Shelters(t, n, W)

\* The node in Anchor is in the tree, and nobody else has it.
LEMMA Anchored ==
    ASSUME Inv, NEW t \in Threads, NEW n, DetachedBy(t, n)
    PROVE  /\ Anchor(t) \in Node /\ Linked(Anchor(t))
           /\ \A u \in Threads \ {t} : Anchor(t) \notin Holds(u) \cup walked[u]
<1>1. pc[t] \in {"splice_unlock", "splice_free", "free_next"} /\ IInv /\ SearchPos(t) /\ PcCmd(t)
  BY DEF DetachedBy, Inv, IInv
<1>2. Anchor(t) \in Node /\ Linked(Anchor(t)) /\ Anchor(t) \in Holds(t) /\ Mode(t) = "l_write"
  BY <1>1, Pointers DEF Anchor, HoldsParent, HoldsTarget, Holds, SearchPos, PcCmd, Mode, Node
<1> QED
  BY <1>2, WriteApart

\* No node has two parents in the tree.
LEMMA OneParent ==
    ASSUME Inv, NEW p \in Node, NEW q \in Node, Linked(p), Linked(q),
           NEW c, c # NULL, c \in {lchild[p], rchild[p]}, c \in {lchild[q], rchild[q]}
    PROVE  p = q
BY DEF Inv, IInv, TreeShape

\* A shelter outlasts the steps of the other commands.
LEMMA ShelterKept ==
    ASSUME Full, NEW t \in Threads, Run(t), NEW u \in Threads \ {t}, NEW n \in alive',
           DetachedBy(u, n)', NEW W \in SUBSET Cells, Shelters(u, n, W)
    PROVE  Shelters(u, n, W)'
<1> DEFINE H == W \cup {Anchor(u)}
<1>1. Inv /\ TypeOK /\ OthersSame(t) /\ OthersHold(t)
  BY OthersOwn DEF Full, Inv, IInv
<1>2. DetachedBy(u, n) /\ Anchor(u)' = Anchor(u)
  BY <1>1 DEF OthersSame, DetachedBy, Anchor
<1>3. /\ Anchor(u) \in Node /\ Linked(Anchor(u)) /\ Anchor(u) \notin Holds(t) \cup walked[t]
  BY <1>1, <1>2, Anchored
<1>4. \A q \in H : q \in Node /\ Linked(q) /\ q \notin Holds(t) \cup walked[t]
  BY <1>3 DEF Shelters, Node
<1>5. \A q \in H : lchild'[q] = lchild[q] /\ rchild'[q] = rchild[q] /\ Linked(q)'
  BY <1>4, OthersKept
<1>6. Children(H)' = Children(H)
  BY <1>2, <1>5 DEF Children
<1>7. Children({n})' = Children({n})
  <2>1. ~Linked(n)'
    BY DEF Linked
  <2> QED
    BY <2>1, OutStaysOut DEF Children
<1>8. ASSUME NEW m \in W, m \in Holds(t)' \cup walked'[t]
      PROVE  FALSE
  <2>1. m \notin Holds(t) \cup walked[t] /\ m \in Cells /\ m # head /\ m # NULL
    BY <1>4, ConstAssumption
  <2>2. PICK q \in Holds(t) \cup walked[t] :
          q \in Node /\ Linked(q) /\ m \in {lchild[q], rchild[q]}
    BY <1>1, <1>8, <2>1, Acquires
  <2>3. PICK p \in H : m \in {lchild[p], rchild[p]}
    BY DEF Shelters, Children
  <2>4. p = q
    BY <1>1, <1>4, <2>1, <2>2, <2>3, OneParent
  <2> QED
    BY <1>4, <2>2, <2>4
<1>9. \A v \in Threads \ {u} : W \cap (Holds(v)' \cup walked'[v]) = {}
  BY <1>1, <1>8 DEF Shelters, OthersSame, OthersHold
<1> QED
  BY <1>2, <1>5, <1>6, <1>7, <1>9 DEF Shelters

\* The removal itself makes the shelter when it takes the node out.
LEMMA ShelterMade ==
    ASSUME Full, Heirs, NEW t \in Threads, Run(t), NEW n \in alive', DetachedBy(t, n)'
    PROVE  \E W \in SUBSET Cells : Shelters(t, n, W)'
<1>1. /\ Inv /\ TypeOK /\ OthersSame(t) /\ OthersHold(t) /\ LocalsOK /\ SearchPos(t) /\ WalkPos(t)
      /\ HeapOK /\ TreeShape /\ WalkDown(t)
  BY OthersOwn DEF Full, Inv, IInv, TypeOK, OrderInv
<1>2. n \in alive /\ lchild'[n] = lchild[n] /\ rchild'[n] = rchild[n] /\ n \in Node /\ n # NULL
  <2>1. ~Linked(n)'
    BY DEF Linked
  <2>2. n \in alive /\ lchild'[n] = lchild[n] /\ rchild'[n] = rchild[n]
    BY <2>1, OutStaysOut
  <2> QED
    BY <1>1, <2>2, ConstAssumption DEF HeapOK, Node
<1>3. pc'[t] \in {"splice_unlock", "splice_free", "free_next"}
  BY DEF DetachedBy
<1> USE DEF Goto, LocalsOK
<1>4. CASE Reading(t)
  <2>1. pc[t] = "splice_unlock" /\ pc'[t] = "splice_free" /\ UNCHANGED locals
    BY <1>1, <1>3, <1>4 DEF Reading, interpret_command, lock_head, search, search_lock,
       search_compare, db_query_hit, db_query_read, db_query_return, db_query_miss,
       db_add_hit, db_remove_miss, db_remove_splice_unlock, db_remove_two, db_remove_walk,
       db_remove_walk_lock, db_remove_walk_unlock, db_remove_unlock_dnode, unlock_parent
  <2>2. DetachedBy(t, n) /\ Anchor(t)' = Anchor(t)
    BY <2>1 DEF DetachedBy, Anchor, locals
  <2>3. PICK W \in SUBSET Cells : Shelters(t, n, W)
    BY <1>2, <2>2 DEF Heirs
  <2>4. lchild' = lchild /\ rchild' = rchild /\ \A m \in Node : Linked(m)' <=> Linked(m)
    BY <1>1, <1>4, ReadingFacts DEF heap
  <2>5. Children(W \cup {Anchor(t)})' = Children(W \cup {Anchor(t)}) /\ Children({n})' = Children({n})
    BY <2>2, <2>4 DEF Children
  <2>6. Shelters(t, n, W)'
    BY <1>1, <2>2, <2>3, <2>4, <2>5 DEF Shelters, OthersSame, OthersHold, Node
  <2> QED
    BY <2>6
<1>5. CASE db_remove_splice(t)
  <2>1. /\ pc[t] = "hit" /\ pc'[t] = "splice_unlock" /\ UNCHANGED locals
    BY <1>1, <1>5 DEF db_remove_splice
  <2>2. n = target[t] /\ Anchor(t)' = parent[t] /\ parent[t] \in Node
    BY <1>1, <2>1 DEF DetachedBy, Anchor, locals
  <2>3. \A c \in {lchild[n], rchild[n]} : c # NULL => c \in {lchild'[parent[t]], rchild'[parent[t]]}
    BY <1>1, <1>5, <2>2 DEF db_remove_splice, link, HeapOK
  <2>4. Children({n})' \subseteq Children({parent[t]})'
    BY <1>2, <2>1, <2>3 DEF Children, locals
  <2>5. Shelters(t, n, {})'
    BY <2>2, <2>1, <2>4 DEF Shelters, locals
  <2> QED
    BY <2>5
<1>6. CASE db_remove_unlink(t)
  <2> DEFINE x == next[t]
             w == pnext[t]
             d == target[t]
             W == walked[t] \ {x}
  <2>1. /\ pc[t] = "unlink" /\ pc'[t] = "free_next" /\ UNCHANGED <<next, target>> /\ Walking(t)
        /\ \/ w = d /\ rchild' = [rchild EXCEPT ![w] = rchild[x]] /\ lchild' = lchild
           \/ w # d /\ lchild' = [lchild EXCEPT ![w] = rchild[x]] /\ rchild' = rchild
    BY <1>1, <1>6 DEF db_remove_unlink, Walking
  <2>2. n = x /\ Anchor(t)' = d
    BY <2>1 DEF DetachedBy, Anchor
  <2>3. /\ w \in Node /\ d \in Node /\ walked[t] \subseteq Node /\ walked[t] \subseteq Cells
        /\ w \in walked[t] \cup {d} /\ x \in walked[t] /\ lchild[x] = NULL /\ d \notin walked[t]
        /\ NULL \notin Node
    BY <1>1, <2>1, Walker, ConstAssumption DEF WalkPos, WalkDown, Node
  <2>4. w # x /\ (w # d => lchild[w] = x) /\ (w = d => rchild[d] = x)
    BY <1>1, <2>1, <2>2, <2>3, <1>2 DEF WalkPos
  <2>5. x \in {rchild[d]} \/ w # d
    BY <2>4
  <2>6. \A m \in W : m \in {lchild'[q] : q \in W} \cup {rchild'[d]}
    <3> TAKE m \in W
    <3>1. m # NULL /\ m # x
      BY <2>3
    <3>2. CASE m = rchild[d]
      BY <1>1, <2>1, <2>3, <2>4, <3>1, <3>2 DEF HeapOK
    <3>3. CASE \E q \in walked[t] : lchild[q] = m
      <4>1. PICK q \in walked[t] : lchild[q] = m
        BY <3>3
      <4>2. q # x /\ (q # w \/ w = d)
        BY <2>3, <2>4, <3>1, <4>1
      <4>3. q # x
        BY <2>3, <3>1, <4>1
      <4>4. lchild'[q] = lchild[q]
        BY <1>1, <2>1, <2>3, <4>2 DEF HeapOK
      <4> QED
        BY <4>1, <4>3, <4>4
    <3> QED
      BY <1>1, <2>1, <3>2, <3>3 DEF WalkPos
  <2>7. PICK V \in SUBSET Cells, e \in Node : V = W /\ e = d
    BY <2>3
  <2>8. /\ \A m \in V : m \in Children(V \cup {e})'
        /\ Children({n})' \subseteq Children(V \cup {e})'
    <3>1. lchild'[x] = NULL /\ rchild'[x] = rchild[x]
      BY <1>2, <2>2, <2>3
    <3>2. rchild[x] \in {lchild'[w], rchild'[w]} /\ w \in W \cup {d}
      BY <1>1, <2>1, <2>3, <2>4 DEF HeapOK
    <3>3. \A m \in V : m \in {lchild'[q] : q \in V} \cup {rchild'[e]}
      BY <2>6, <2>7
    <3>4. \A m \in V : m # NULL
      BY <2>3, <2>7
    <3>5. \A m \in V : m \in Children(V \cup {e})'
      BY <3>3, <3>4 DEF Children
    <3>6. rchild'[n] \in {lchild'[w], rchild'[w]} /\ w \in V \cup {e} /\ lchild'[n] = NULL
      BY <2>2, <2>7, <3>1, <3>2
    <3>7. Children({n})' \subseteq Children(V \cup {e})'
      BY <3>6 DEF Children
    <3> QED
      BY <3>5, <3>7
  <2>9. \A m \in W : Linked(m)'
    <3> TAKE m \in W
    <3>1. Linked(m) /\ alive' = alive
      BY <1>1, <1>6, <2>1 DEF WalkPos, db_remove_unlink
    <3>2. \A u \in Threads : ~DetachedBy(u, m)'
      BY <1>1, <2>1, <3>1 DEF DetachedBy, Linked, OthersSame
    <3> QED
      BY <3>1, <3>2 DEF Linked
  <2>10. \A u \in Threads \ {t} : W \cap (Holds(u)' \cup walked'[u]) = {}
    BY <1>1 DEF OthersSame, OthersHold, Inv, IInv, Private
  <2>11. Shelters(t, n, V)'
    BY <2>2, <2>7, <2>8, <2>9, <2>10 DEF Shelters
  <2> QED
    BY <2>11
<1>7. CASE \/ db_remove_splice_free(t) \/ db_remove_free(t) \/ db_add_miss(t)
           \/ db_remove_copy(t)
  BY <1>1, <1>3, <1>7 DEF db_remove_splice_free, db_remove_free, db_add_miss, db_remove_copy
<1> QED
  BY <1>4, <1>5, <1>6, <1>7, RunCases

LEMMA HeirsStep ==
    ASSUME Full, Heirs, [Next]_vars
    PROVE  Heirs'
<1> SUFFICES ASSUME NEW u \in Threads, NEW n \in alive', DetachedBy(u, n)'
             PROVE  \E W \in SUBSET Cells : Shelters(u, n, W)'
  BY DEF Heirs
<1>1. ASSUME NEW t \in Threads, Run(t)
      PROVE  \E W \in SUBSET Cells : Shelters(u, n, W)'
  <2>1. CASE u = t
    BY <1>1, <2>1, ShelterMade
  <2>2. CASE u # t
    <3>1. DetachedBy(u, n) /\ n \in alive
      <4>1. ~Linked(n)'
        BY DEF Linked
      <4> QED
        BY <1>1, <2>2, <4>1, OthersOwn, OutStaysOut DEF OthersSame, DetachedBy
    <3>2. PICK W \in SUBSET Cells : Shelters(u, n, W)
      BY <3>1 DEF Heirs
    <3> QED
      BY <1>1, <2>2, <3>2, ShelterKept
  <2> QED
    BY <2>1, <2>2
<1>2. CASE UNCHANGED vars
  <2>1. /\ DetachedBy(u, n) /\ n \in alive
        /\ UNCHANGED <<pc, target, parent, lchild, rchild, alive, walked, next, nextl>>
    BY <1>2 DEF vars, heap, locals, DetachedBy
  <2>2. PICK W \in SUBSET Cells : Shelters(u, n, W)
    BY <2>1 DEF Heirs
  <2>3. Shelters(u, n, W)'
    BY <2>1, <2>2 DEF Shelters, Children, Linked, DetachedBy, Anchor, Holds, HoldsParent,
                      HoldsTarget, HoldsRchild
  <2> QED
    BY <2>3
<1> QED
  BY <1>1, <1>2 DEF Next, Run, Finished

------------------------------------------------------------------------------
(* What the walk has still to come to *)

\* Where an activation of db_print_recurs goes on.
Entry(f) ==
    {m \in Node : \/ f.step = "print" /\ m = f.node
                  \/ f.node # NULL /\ f.step = "left" /\ m \in {lchild[f.node], rchild[f.node]}
                  \/ f.node # NULL /\ f.step = "right" /\ m = rchild[f.node]}

\* The nodes below the places where the activations go on.
Covers(S) == Children(S) \subseteq S /\ \A i \in DOMAIN frames : Entry(frames[i]) \subseteq S
Ahead == {n \in Node : \A S \in SUBSET Node : Covers(S) => n \in S}

\* A name that has been in the database all the time, that no removal has moved and
\* that is not yet written, is in a node still ahead of the walk.
MissInv ==
    /\ print = "on" => kept \subseteq Present
    /\ print = "on" /\ ~cut =>
         \A k \in kept \ (moved \cup Printed) : Found(k) \subseteq Ahead
    /\ PrintMissesOnlyMoved

\* From a node that is not freed, also from one taken out of the tree, pointers lead
\* into the tree.
LEMMA BelowTree ==
    ASSUME Inv, Heirs, NEW m \in alive \cup {head}
    PROVE  lchild[m] \in Tree \cup {NULL} /\ rchild[m] \in Tree \cup {NULL}
<1>1. m \in Node
  BY DEF Inv, IInv, TypeOK, HeapOK, Node
<1>2. CASE Linked(m)
  BY <1>1, <1>2, TreeFacts DEF Tree
<1>3. CASE ~Linked(m)
  <2>1. PICK t \in Threads : DetachedBy(t, m)
    BY <1>3 DEF Linked
  <2>2. m # head
    BY <1>3, TreeFacts DEF Tree
  <2>3. PICK W \in SUBSET Cells : Shelters(t, m, W)
    BY <2>1, <2>2 DEF Heirs
  <2>4. Anchor(t) \in Node /\ Linked(Anchor(t))
    BY <2>1, Anchored
  <2>5. W \cup {Anchor(t)} \subseteq Tree
    BY <2>3, <2>4 DEF Shelters, Tree, Node
  <2>6. Children(W \cup {Anchor(t)}) \subseteq Tree
    BY <2>5, TreeFacts DEF Children
  <2>7. Children({m}) \subseteq Tree
    BY <2>3, <2>6 DEF Shelters
  <2> QED
    BY <2>7 DEF Children
<1> QED
  BY <1>2, <1>3

LEMMA FrameNodes ==
    ASSUME frames \in Frames
    PROVE  \A i \in DOMAIN frames : /\ frames[i].node \in Node \cup {NULL}
                                    /\ frames[i].step \in {"print", "left", "right"}
<1> DEFINE V == [node : Node \cup {NULL}, step : {"print", "left", "right"}]
<1> HIDE DEF V
<1>1. \A i \in DOMAIN frames : frames[i] \in V
  BY Elements, Zenon DEF Frames, V
<1> QED
  BY <1>1 DEF V

\* A removal that takes x out of the tree leaves the walk what was below x.
LEMMA BypassAhead ==
    ASSUME TypeOK, NEW w \in Node, NEW x \in Node, NEW c \in Ptr, UNCHANGED frames,
           frames \in Frames, lchild[x] \in {c, NULL}, rchild[x] \in {c, NULL},
           \/ /\ lchild[w] = x /\ lchild' = [lchild EXCEPT ![w] = c]
              /\ rchild' = rchild
           \/ /\ rchild[w] = x /\ rchild' = [rchild EXCEPT ![w] = c]
              /\ lchild' = lchild,
           NEW T \in SUBSET Node, Covers(T)'
    PROVE  \E S \in SUBSET Node : Covers(S) /\ S \subseteq T \cup {x}
<1>1. /\ lchild \in [Node -> Ptr] /\ rchild \in [Node -> Ptr] /\ NULL \notin Node
      /\ Ptr \subseteq Node \cup {NULL}
  BY ConstAssumption DEF TypeOK, HeapOK, Node, Ptr
<1>2. \A m \in T : lchild'[m] \in T \cup {NULL} /\ rchild'[m] \in T \cup {NULL}
  BY DEF Covers, Children
<1>3. \A m \in Node : /\ lchild[m] = lchild'[m] \/ (m = w /\ lchild[m] = x /\ lchild'[m] = c)
                      /\ rchild[m] = rchild'[m] \/ (m = w /\ rchild[m] = x /\ rchild'[m] = c)
  BY <1>1
<1>4. \A i \in DOMAIN frames : Entry(frames[i])' \subseteq T
  BY DEF Covers
<1>0. \A i \in DOMAIN frames : frames[i].node \in Node \cup {NULL}
  BY FrameNodes
<1>5. CASE c \in T \cup {NULL}
  <2>1. Children(T \cup {x}) \subseteq T \cup {x}
    BY <1>2, <1>3, <1>5 DEF Children
  <2>2. ASSUME NEW i \in DOMAIN frames, NEW m \in Entry(frames[i])
        PROVE  m \in T \cup {x}
    <3> DEFINE f == frames[i]
    <3>1. Entry(f)' \subseteq T /\ m \in Node
      BY <1>4 DEF Entry
    <3>2. f' = f
      OBVIOUS
    <3>3. CASE f.node \in Node
      BY <1>3, <2>2, <3>1, <3>2, <3>3 DEF Entry
    <3>4. CASE f.node \notin Node
      BY <1>0, <1>1, <2>2, <3>1, <3>2, <3>4 DEF Entry
    <3> QED
      BY <3>3, <3>4
  <2>3. Covers(T \cup {x})
    BY <2>1, <2>2 DEF Covers
  <2> QED
    BY <2>3
<1>6. CASE c \notin T \cup {NULL}
  <2>1. Children(T) \subseteq T
    BY <1>2, <1>3, <1>6 DEF Children
  <2>2. ASSUME NEW i \in DOMAIN frames, NEW m \in Entry(frames[i])
        PROVE  m \in T
    <3> DEFINE f == frames[i]
    <3>1. Entry(f)' \subseteq T /\ m \in Node
      BY <1>4 DEF Entry
    <3>2. f' = f
      OBVIOUS
    <3>3. c \in Node
      BY <1>1, <1>6
    <3>4. CASE f.node \in Node
      BY <1>3, <1>6, <2>2, <3>1, <3>2, <3>3, <3>4 DEF Entry
    <3>5. CASE f.node \notin Node
      BY <1>0, <1>1, <2>2, <3>1, <3>2, <3>5 DEF Entry
    <3> QED
      BY <3>4, <3>5
  <2>3. Covers(T)
    BY <2>1, <2>2 DEF Covers
  <2> QED
    BY <2>3
<1> QED
  BY <1>5, <1>6


\* A step of a client leaves everything that is ahead of the walk there, but what it
\* takes out of the tree itself.
LEMMA AheadStays ==
    ASSUME Full, Heirs, NEW t \in Threads, Run(t), UNCHANGED frames, frames \in Frames,
           ~Dangling, NEW n \in Ahead, Linked(n)'
    PROVE  n \in Ahead'
<1>1. /\ Inv /\ TypeOK /\ SearchPos(t) /\ WalkPos(t) /\ OthersSame(t)
      /\ WalkDown(t)
  BY OnlyOwnLocals DEF Full, Inv, IInv, OrderInv
<1> SUFFICES ASSUME NEW T \in SUBSET Node, Covers(T)'
             PROVE  n \in T
  BY DEF Ahead
<1>2. \A S \in SUBSET Node : Covers(S) => n \in S
  BY DEF Ahead
<1>3. CASE lchild' = lchild /\ rchild' = rchild
  BY <1>2, <1>3 DEF Covers, Children, Entry
<1>4. CASE db_add_miss(t)
  <2> DEFINE S == T \cap (alive \cup {head})
             p == parent[t]
  <2>1. PICK q \in Cells :
          /\ q \notin alive /\ q # head
          /\ \/ /\ lchild[p] = NULL /\ lchild'[p] = q /\ rchild'[p] = rchild[p]
             \/ /\ rchild[p] = NULL /\ rchild'[p] = q /\ lchild'[p] = lchild[p]
          /\ \A m \in Node \ {p, q} : lchild'[m] = lchild[m] /\ rchild'[m] = rchild[m]
    BY <1>1, <1>4, Added
  <2>2. /\ NULL \notin Node /\ alive \cup {head} \subseteq Node /\ Tree \subseteq alive \cup {head}
        /\ \A m \in alive \cup {head} : /\ lchild[m] \in Tree \cup {NULL}
                                        /\ rchild[m] \in Tree \cup {NULL}
    BY <1>1, BelowTree, TreeFacts DEF TypeOK, HeapOK, Node
  <2>3. \A m \in alive \cup {head} :
           /\ lchild[m] \in {lchild'[m], NULL} /\ rchild[m] \in {rchild'[m], NULL}
    BY <2>1, <2>2
  <2>4. Children(S) \subseteq S
    BY <2>2, <2>3 DEF Covers, Children
  <2>5. ASSUME NEW i \in DOMAIN frames, NEW m \in Entry(frames[i])
        PROVE  m \in S
    <3>1. Entry(frames[i])' \subseteq T
      BY DEF Covers
    <3>2. frames[i].node \in alive \cup {head, NULL} /\ frames'[i] = frames[i]
      BY FrameNodes DEF Dangling, Node
    <3>3. m \in Node /\ m \in alive \cup {head}
      BY <2>2, <2>5, <3>2 DEF Entry
    <3>4. CASE frames[i].node \in alive \cup {head}
      BY <2>2, <2>3, <2>5, <3>1, <3>2, <3>3, <3>4 DEF Entry
    <3>5. CASE frames[i].node = NULL
      BY <2>2, <2>5, <3>3, <3>5 DEF Entry
    <3> QED
      BY <3>2, <3>4, <3>5
  <2>6. Covers(S) /\ S \in SUBSET Node
    BY <2>4, <2>5 DEF Covers
  <2> QED
    BY <1>2, <2>6
<1>5. CASE db_remove_splice(t)
  <2> DEFINE d == target[t]
             p == parent[t]
  <2>1. /\ pc[t] = "hit" /\ pc'[t] = "splice_unlock" /\ UNCHANGED locals
    BY <1>1, <1>5 DEF db_remove_splice, Goto, TypeOK, LocalsOK
  <2>2. /\ p \in Node /\ d \in Node /\ d = child(p, key[t]) /\ name[d] = key[t]
    BY <1>1, <2>1, Pointers DEF TypeOK, LocalsOK, Node, Inv, SearchPos, HoldsParent, HoldsTarget
  <2>3. PICK c \in Ptr : /\ lchild[d] \in {c, NULL} /\ rchild[d] \in {c, NULL}
                         /\ link(p, name[d], c)
    BY <1>1, <1>5, <2>2 DEF db_remove_splice, TypeOK, HeapOK
  <2>4. \/ /\ lchild[p] = d /\ lchild' = [lchild EXCEPT ![p] = c] /\ rchild' = rchild
        \/ /\ rchild[p] = d /\ rchild' = [rchild EXCEPT ![p] = c] /\ lchild' = lchild
    <3>1. name[d] \in Nat /\ name[p] \in Nat
      BY <1>1, <2>2, TreeFacts
    <3> QED
      BY <2>2, <2>3, <3>1 DEF link, child
  <2>5. PICK S \in SUBSET Node : Covers(S) /\ S \subseteq T \cup {d}
    BY <1>1, <2>2, <2>3, <2>4, BypassAhead
  <2>6. n # d
    BY <2>1 DEF Linked, DetachedBy, locals
  <2> QED
    BY <1>2, <2>5, <2>6
<1>6. CASE db_remove_unlink(t)
  <2> DEFINE x == next[t]
             w == pnext[t]
             c == rchild[x]
  <2>1. /\ next'[t] = next[t] /\ pc[t] = "unlink" /\ pc'[t] = "free_next" /\ Walking(t)
    BY <1>1, <1>6 DEF db_remove_unlink, Goto, TypeOK, LocalsOK, Walking
  <2>2. x \in Node /\ w \in Node /\ c \in Ptr /\ lchild[x] = NULL
    BY <1>1, <2>1, Walker DEF WalkPos, Node, TypeOK, HeapOK, WalkDown
  <2>3. \/ /\ lchild[w] = x /\ lchild' = [lchild EXCEPT ![w] = c] /\ rchild' = rchild
        \/ /\ rchild[w] = x /\ rchild' = [rchild EXCEPT ![w] = c] /\ lchild' = lchild
    BY <1>1, <1>6, <2>1 DEF db_remove_unlink, WalkPos
  <2>4. lchild[x] \in {c, NULL} /\ rchild[x] \in {c, NULL}
    BY <2>2
  <2> HIDE DEF c
  <2>5. PICK S \in SUBSET Node : Covers(S) /\ S \subseteq T \cup {x}
    BY <1>1, <2>2, <2>3, <2>4, BypassAhead
  <2>6. n # x
    BY <2>1 DEF Linked, DetachedBy
  <2> QED
    BY <1>2, <2>5, <2>6
<1>7. CASE Reading(t) \/ db_remove_splice_free(t) \/ db_remove_free(t) \/ db_remove_copy(t)
  <2>1. lchild' = lchild /\ rchild' = rchild
    BY <1>1, <1>7, ReadingFacts DEF heap, db_remove_splice_free, db_remove_free, db_remove_copy
  <2> QED
    BY <1>3, <2>1
<1> QED
  BY <1>4, <1>5, <1>6, <1>7, RunCases

\* A name is in the database when a node of the tree bears it.
LEMMA PresentFound ==
    ASSUME NEW k \in Present
    PROVE  Found(k) # {}
BY FoundNone DEF Present, Map

\* A command that leaves a name in the database leaves it in its node, or a removal
\* writes it into another.
LEMMA FoundShrinks ==
    ASSUME Full, NEW t \in Threads, Run(t), NEW k \in Present, k \in Present'
    PROVE  \/ Found(k)' \subseteq Found(k)
           \/ \E n \in alive : name'[n] # name[n] /\ name'[n] = k
<1>1. /\ Inv /\ TypeOK /\ OthersSame(t) /\ Answered(t) /\ PcCmd(t)
  BY OnlyOwnLocals DEF Full, Inv, IInv, OrderInv
<1>2. Found(k) # {} /\ Found(k)' # {}
  <2>1. \A j : Found(j)' = {} => Lookup(j)' = NULL
    BY DEF Lookup
  <2> QED
    BY <2>1, PresentFound DEF Present, Map
<1>3. CASE Reading(t)
  <2>1. /\ UNCHANGED heap /\ \A n \in Node : Linked(n)' <=> Linked(n)
        /\ \A n : Stale(n)' <=> Stale(n)
    BY <1>1, <1>3, ReadingFacts
  <2> QED
    BY <2>1 DEF Found, heap, Node
<1>4. CASE db_remove_splice_free(t) \/ db_remove_free(t)
  BY <1>4, FreeOrder
<1>5. CASE db_remove_splice(t)
  BY <1>5, SpliceOrder
<1>6. CASE db_remove_unlink(t)
  BY <1>6, UnlinkOrder
<1>7. CASE db_add_miss(t)
  <2>1. PICK n \in Cells :
          /\ node_constructor(t, n) /\ n \in Node /\ ~Linked(n)
          /\ \A m \in Node : Linked(m)' <=> Linked(m) \/ m = n
    BY <1>1, <1>7, Added
  <2>2. k # key[t]
    BY <1>2, <1>7, MissIsRight DEF db_add_miss
  <2>3. /\ name'[n] = key[t] /\ \A m \in Node \ {n} : name'[m] = name[m]
    BY <1>1, <2>1 DEF node_constructor, TypeOK, HeapOK
  <2>4. \A m : Stale(m)' <=> Stale(m)
    <3>1. pc[t] = "miss" /\ pc'[t] = "unlock_parent" /\ next' = next
      BY <1>1, <1>7 DEF db_add_miss, Goto, locals, TypeOK, LocalsOK
    <3> QED
      BY <1>1, <3>1 DEF Stale, OthersSame
  <2> QED
    BY <2>1, <2>2, <2>3, <2>4 DEF Found, Node
<1>8. CASE db_remove_copy(t)
  <2>1. pc[t] = "copy" /\ Walking(t) /\ key' = key
    BY <1>8 DEF db_remove_copy, Walking
  <2>2. PICK j : j = key[t]
    OBVIOUS
  <2>3. Found(j)' = {}
    <3>1. Found(key[t])' = {}
      BY <1>8, CopyOrder
    <3> QED
      BY <2>1, <2>2, <3>1 DEF Found
  <2>4. k # key[t]
    BY <1>2, <2>2, <2>3
  <2>5. \/ Found(k)' = Found(k)
        \/ Found(k) = {next[t]} /\ Found(k)' = {target[t]}
    BY <1>8, <2>4, CopyOrder
  <2>6. name[target[t]] = key[t] /\ HoldsTarget(t)
    BY <1>1, <2>1 DEF Answered, HoldsTarget
  <2>7. target[t] \in alive /\ target[t] \in Node
    BY <1>1, <2>1, <2>6, HitIsRight DEF TypeOK, HeapOK, Node
  <2>8. name'[target[t]] = name[next[t]]
    BY <1>1, <1>8, <2>7 DEF db_remove_copy, TypeOK, HeapOK
  <2>9. Found(k) = {next[t]} => name[next[t]] = k
    BY DEF Found
  <2> QED
    BY <2>4, <2>5, <2>6, <2>7, <2>8, <2>9
<1> QED
  BY <1>3, <1>4, <1>5, <1>6, <1>7, <1>8, RunCases

LEMMA ClientMisses ==
    ASSUME Full, Full', Heirs, PrintInv, MissInv, Client
    PROVE  MissInv'
<1>1. PICK t \in Threads : Run(t)
  BY DEF Client, Run
<1>2. /\ UNCHANGED <<print, frames, out>> /\ cut' = (cut \/ Dangling')
      /\ kept' = IF print = "on" THEN kept \cap Present' ELSE kept
      /\ moved' = IF print = "on"
                  THEN moved \cup {name'[n] : n \in {m \in alive : name'[m] # name[m]}}
                  ELSE moved
      /\ Printed' = Printed
  BY DEF Client, Printed
<1>3. ~cut' => ~cut
  BY <1>2 DEF PrintInv
<1>4. PrintMissesOnlyMoved'
  BY <1>2, <1>3 DEF MissInv, PrintMissesOnlyMoved
<1>5. ASSUME print = "on", ~cut', NEW k \in kept' \ (moved' \cup Printed')
      PROVE  Found(k)' \subseteq Ahead'
  <2>1. k \in Present /\ k \in Present' /\ k \in kept \ (moved \cup Printed)
    BY <1>2, <1>5 DEF MissInv
  <2>2. Found(k) \subseteq Ahead /\ ~Dangling /\ frames \in Frames
    BY <1>3, <1>5, <2>1 DEF MissInv, PrintInv
  <2>3. Found(k)' \subseteq Found(k)
    BY <1>1, <1>2, <1>5, <2>1, FoundShrinks
  <2> SUFFICES ASSUME NEW n \in Found(k)'
               PROVE  n \in Ahead'
    OBVIOUS
  <2>4. n \in Ahead /\ Linked(n)'
    BY <2>2, <2>3 DEF Found
  <2> QED
    BY <1>1, <1>2, <2>2, <2>4, AheadStays
<1> QED
  BY <1>2, <1>4, <1>5 DEF MissInv


LEMMA StartMisses ==
    ASSUME Full, PrintInv, db_print
    PROVE  MissInv'
<1>1. /\ print' = "on" /\ frames' = <<Frame(head, "print")>> /\ kept' = Present
      /\ out' = <<>>
  BY DEF db_print, PrintInv
<1>2. /\ lchild' = lchild /\ rchild' = rchild
      /\ Present' = Present /\ \A k : Found(k)' = Found(k)
  BY TreeSame DEF db_print
<1>3. Inv /\ head \in Node /\ Cells \subseteq Node
  BY DEF Full, Node
<1>4. ASSUME NEW k, NEW n \in Found(k)
      PROVE  n \in Ahead'
  <2> SUFFICES ASSUME NEW T \in SUBSET Node, Covers(T)'
               PROVE  n \in T
    BY <1>3 DEF Ahead, Found
  <2>1. 1 \in DOMAIN frames' /\ frames'[1] = Frame(head, "print")
    BY <1>1
  <2>2. Entry(frames[1])' \subseteq T
    BY <2>1 DEF Covers
  <2>3. head \in T
    BY <1>3, <2>1, <2>2 DEF Entry, Frame
  <2>4. \A m \in T : lchild[m] \in T \cup {NULL} /\ rchild[m] \in T \cup {NULL}
    BY <1>2 DEF Covers, Children
  <2>5. T \cap Tree \in Closed(k)
    BY <1>3, <2>3, <2>4, TreeFacts DEF Closed, Onward, child
  <2>6. n \in Path(k)
    BY DEF Full, OrderInv, Ordered, Found
  <2> QED
    BY <2>5, <2>6, PathIn
<1> QED
  BY <1>1, <1>2, <1>4 DEF MissInv, PrintMissesOnlyMoved

\* The activations of a stack, and those that are left when the innermost gives way
\* to the ones it calls.
Among(f, s) == \E j \in DOMAIN s : s[j] = f

LEMMA AmongConcat ==
    ASSUME NEW S, NEW s \in Seq(S), NEW c \in Seq(S), NEW f \in S, Among(f, s) \/ Among(f, c)
    PROVE  Among(f, c \o s)
<1>1. PICK u : u = c \o s
  OBVIOUS
<1>2. u \in Seq(S) /\ Len(u) = Len(c) + Len(s) /\ Len(c) \in Nat /\ Len(s) \in Nat
  BY <1>1, ConcatProperties
<1>3. DOMAIN u = 1..Len(u) /\ DOMAIN s = 1..Len(s) /\ DOMAIN c = 1..Len(c)
  BY <1>2
<1>4. \A j \in 1..Len(u) : u[j] = IF j <= Len(c) THEN c[j] ELSE s[j - Len(c)]
  BY <1>1, <1>2, ConcatProperties
<1>5. CASE Among(f, c)
  <2>1. PICK j \in DOMAIN c : c[j] = f
    BY <1>5 DEF Among
  <2>2. j \in DOMAIN u /\ u[j] = f
    BY <1>2, <1>3, <1>4, <2>1
  <2> QED
    BY <1>1, <2>2 DEF Among
<1>6. CASE Among(f, s)
  <2>1. PICK j \in DOMAIN s : s[j] = f
    BY <1>6 DEF Among
  <2>2. j + Len(c) \in DOMAIN u /\ u[j + Len(c)] = f
    BY <1>2, <1>3, <1>4, <2>1
  <2> QED
    BY <1>1, <2>2 DEF Among
<1> QED
  BY <1>5, <1>6

LEMMA AmongTail ==
    ASSUME NEW S, NEW s \in Seq(S), s # <<>>, NEW f, Among(f, s), f # Head(s)
    PROVE  Among(f, Tail(s)) /\ f \in S
<1>1. PICK z \in Seq(S) : z = Tail(s)
  BY HeadTailProperties
<1>2. /\ Len(z) = Len(s) - 1 /\ DOMAIN s = 1..Len(s) /\ DOMAIN z = 1..Len(z)
      /\ \A i \in 1..Len(s) : i = 1 \/ (i - 1 \in 1..Len(z) /\ z[i - 1] = s[i])
  <2>1. DOMAIN s = 1..Len(s) /\ Len(s) \in Nat \ {0}
    BY EmptySeq
  <2> QED
    BY <1>1, <2>1, HeadTailProperties
<1>3. PICK i \in DOMAIN s : s[i] = f
  BY DEF Among
<1>4. i # 1 /\ f \in S
  BY <1>3
<1>5. i - 1 \in DOMAIN z /\ z[i - 1] = f
  BY <1>2, <1>3, <1>4
<1> QED
  BY <1>1, <1>4, <1>5 DEF Among

LEMMA AmongLiteral == \A a, b : Among(a, <<a>>) /\ Among(a, <<a, b>>) /\ Among(b, <<a, b>>)
BY DEF Among

LEMMA LiteralSeq ==
    ASSUME NEW S, NEW a \in S, NEW b \in S
    PROVE  <<a>> \in Seq(S) /\ <<a, b>> \in Seq(S)
OBVIOUS

LEMMA Replaced ==
    ASSUME NEW S, NEW s \in Seq(S), s # <<>>, NEW a \in S, NEW b \in S
    PROVE  /\ Among(a, <<a>> \o Tail(s))
           /\ Among(a, <<a, b>> \o Tail(s)) /\ Among(b, <<a, b>> \o Tail(s))
           /\ \A f : Among(f, s) /\ f # Head(s) =>
                /\ Among(f, Tail(s))
                /\ Among(f, <<a>> \o Tail(s)) /\ Among(f, <<a, b>> \o Tail(s))
<1>1. Tail(s) \in Seq(S)
  BY HeadTailProperties
<1>2. <<a>> \in Seq(S) /\ <<a, b>> \in Seq(S)
  BY LiteralSeq
<1>3. Among(a, <<a>>) /\ Among(a, <<a, b>>) /\ Among(b, <<a, b>>)
  BY AmongLiteral
<1> QED
  BY <1>1, <1>2, <1>3, AmongConcat, AmongTail, Zenon

\* A step of the walk leaves nothing behind but the node it writes.
LEMMA WalkCalls ==
    ASSUME Full, PrintInv, db_print_recurs, ~Dangling
    PROVE  LET n == Head(frames).node
               step == Head(frames).step
           IN
           /\ frames \in Frames
           /\ n \in alive \cup {head, NULL} /\ step \in {"print", "left", "right"}
           /\ \A f : Among(f, frames) /\ f # Head(frames) => Among(f, frames')
           /\ n # NULL /\ step = "print" => Among(Frame(n, "left"), frames')
           /\ n # NULL /\ step = "left" => /\ Among(Frame(lchild[n], "print"), frames')
                                           /\ Among(Frame(n, "right"), frames')
           /\ n # NULL /\ step = "right" => Among(Frame(rchild[n], "print"), frames')
<1> DEFINE n == Head(frames).node
           step == Head(frames).step
           V == [node : Node \cup {NULL}, step : {"print", "left", "right"}]
<1>1. frames \in Frames /\ frames # <<>> /\ frames \in Seq(V)
  BY DEF PrintInv, Frames, db_print_recurs
<1>2. frames[1] = Head(frames) /\ 1 \in DOMAIN frames
  BY <1>1, Elements, Zenon
<1>3. /\ n \in Node \cup {NULL} /\ step \in {"print", "left", "right"}
      /\ n \in alive \cup {head, NULL}
  BY <1>1, <1>2, FrameNodes DEF Dangling, Node
<1>4. \A m \in Node \cup {NULL}, p \in {"print", "left", "right"} : Frame(m, p) \in V
  BY DEF Frame
<1>5. /\ NULL \notin Cells \cup {head} /\ alive \subseteq Cells /\ head \notin Cells
      /\ n # NULL => lchild[n] \in Node \cup {NULL} /\ rchild[n] \in Node \cup {NULL}
  BY <1>3, ConstAssumption DEF Full, Inv, IInv, TypeOK, HeapOK, Node, Ptr
<1>6. CASE n = NULL
  <2>1. frames' = Tail(frames)
    BY <1>5, <1>6 DEF db_print_recurs
  <2>2. \A f : Among(f, frames) /\ f # Head(frames) => Among(f, frames')
    <3> HIDE DEF V
    <3> QED
      BY <1>1, <2>1, AmongTail, Zenon
  <2> QED
    BY <1>1, <1>3, <1>6, <2>2
<1>7. CASE n # NULL /\ step = "print"
  <2>1. PICK a \in V : a = Frame(n, "left")
    BY <1>3, <1>4
  <2>2. frames' = <<a>> \o Tail(frames)
    BY <1>3, <1>5, <1>7, <2>1 DEF db_print_recurs, calls_of
  <2>3. /\ \A f : Among(f, frames) /\ f # Head(frames) => Among(f, frames')
        /\ Among(a, frames')
    <3> HIDE DEF V
    <3> QED
      BY <1>1, <2>2, Replaced, Zenon
  <2> QED
    BY <1>1, <1>3, <1>7, <2>1, <2>3
<1>8. CASE n # NULL /\ step = "left"
  <2>1. PICK a \in V, b \in V : a = Frame(lchild[n], "print") /\ b = Frame(n, "right")
    BY <1>3, <1>4, <1>5, <1>8
  <2>2. frames' = <<a, b>> \o Tail(frames)
    BY <1>3, <1>5, <1>8, <2>1 DEF db_print_recurs, calls_of
  <2>3. /\ \A f : Among(f, frames) /\ f # Head(frames) => Among(f, frames')
        /\ Among(a, frames') /\ Among(b, frames')
    <3> HIDE DEF V
    <3> QED
      BY <1>1, <2>2, Replaced, Zenon
  <2> QED
    BY <1>1, <1>3, <1>8, <2>1, <2>3
<1>9. CASE n # NULL /\ step = "right"
  <2>1. PICK a \in V : a = Frame(rchild[n], "print")
    BY <1>3, <1>4, <1>5, <1>9
  <2>2. frames' = <<a>> \o Tail(frames)
    BY <1>3, <1>5, <1>9, <2>1 DEF db_print_recurs, calls_of
  <2>3. /\ \A f : Among(f, frames) /\ f # Head(frames) => Among(f, frames')
        /\ Among(a, frames')
    <3> HIDE DEF V
    <3> QED
      BY <1>1, <2>2, Replaced, Zenon
  <2> QED
    BY <1>1, <1>3, <1>9, <2>1, <2>3
<1> QED
  BY <1>3, <1>6, <1>7, <1>8, <1>9

\* A step of the walk leaves the names it has not written ahead of it.
LEMMA WalkMisses ==
    ASSUME Full, PrintInv, MissInv, db_print_recurs
    PROVE  MissInv'
<1> DEFINE n == Head(frames).node
           step == Head(frames).step
<1>1. /\ print = "on" /\ kept' = kept /\ moved' = moved
      /\ cut' = (cut \/ Dangling') /\ cut \in BOOLEAN /\ print' \in {"on", "undefined"}
  BY DEF db_print_recurs, PrintInv
<1>2. /\ lchild' = lchild /\ rchild' = rchild
      /\ Present' = Present /\ \A k : Found(k)' = Found(k)
  BY TreeSame DEF db_print_recurs
<1>3. /\ NULL \notin Node /\ Cells \subseteq Node /\ head \notin Cells
      /\ \A m \in Node : name[m] \in Nat
  BY ConstAssumption, NamesNat DEF Full, Inv, IInv, TypeOK, HeapOK, Node
\* what is written now
<1>4. /\ Printed \subseteq Printed'
      /\ ~cut /\ n \in alive /\ step = "print" => name[n] \in Printed' \cup moved'
  <2>1. CASE reading # {} /\ \E x : Wrote(x)
    <3>1. PICK x : Wrote(x)
      BY <2>1
    <3>2. ~cut /\ x # name[n] => name[n] \in moved
      BY <2>1, <3>1 DEF Wrote, PrintInv, ReadInv
    <3> QED
      BY <1>1, <3>1, <3>2 DEF Wrote
  <2>2. CASE out' = out /\ ~(n \in alive /\ step = "print")
    BY <2>2 DEF Printed
  <2> QED
    BY <2>1, <2>2, LineWritten
<1>5. ASSUME ~cut', NEW m \in Ahead, ~(m = n /\ step = "print")
      PROVE  m \in Ahead'
  <2>1. ~Dangling /\ \A S \in SUBSET Node : Covers(S) => m \in S
    BY <1>1, <1>5 DEF PrintInv, Ahead
  <2> SUFFICES ASSUME NEW T \in SUBSET Node, Covers(T)'
               PROVE  m \in T
    BY DEF Ahead
  <2>2. /\ frames \in Frames
        /\ n \in alive \cup {head, NULL} /\ step \in {"print", "left", "right"}
        /\ \A f : Among(f, frames) /\ f # Head(frames) => Among(f, frames')
        /\ n # NULL /\ step = "print" => Among(Frame(n, "left"), frames')
        /\ n # NULL /\ step = "left" => /\ Among(Frame(lchild[n], "print"), frames')
                                        /\ Among(Frame(n, "right"), frames')
        /\ n # NULL /\ step = "right" => Among(Frame(rchild[n], "print"), frames')
    BY <2>1, WalkCalls
  <2>3. \A f : Entry(f)' = Entry(f)
    BY <1>2 DEF Entry
  <2>4. \A f : Among(f, frames') => Entry(f) \subseteq T
    BY <2>3 DEF Among, Covers
  <2> DEFINE S == T \cup (IF step = "print" THEN {n} \ {NULL} ELSE {})
  <2>5. S \in SUBSET Node
    BY <2>2 DEF Full, Inv, IInv, TypeOK, HeapOK, Node
  <2>6. Children(T) \subseteq T
    BY <1>2 DEF Covers, Children
  <2>7. n # NULL /\ step = "print" =>
          lchild[n] \in T \cup {NULL} /\ rchild[n] \in T \cup {NULL}
    <3> SUFFICES ASSUME n # NULL, step = "print"
                 PROVE  lchild[n] \in T \cup {NULL} /\ rchild[n] \in T \cup {NULL}
      OBVIOUS
    <3>1. Entry(Frame(n, "left")) \subseteq T
      BY <2>2, <2>4
    <3>2. lchild[n] \in Node \cup {NULL} /\ rchild[n] \in Node \cup {NULL}
      BY <2>2 DEF Full, Inv, IInv, TypeOK, HeapOK, Node, Ptr
    <3> QED
      BY <3>1, <3>2 DEF Entry, Frame
  <2>8. Children(S) \subseteq S
    BY <2>6, <2>7 DEF Children
  <2>9. Entry(Head(frames)) \subseteq S
    <3>1. CASE n = NULL
      BY <1>3, <3>1 DEF Entry
    <3>2. CASE n # NULL /\ step = "print"
      BY <3>2 DEF Entry
    <3>3. CASE n # NULL /\ step = "left"
      <4>1. Entry(Frame(lchild[n], "print")) \subseteq T /\ Entry(Frame(n, "right")) \subseteq T
        BY <2>2, <2>4, <3>3
      <4> QED
        BY <3>3, <4>1 DEF Entry, Frame
    <3>4. CASE n # NULL /\ step = "right"
      <4>1. Entry(Frame(rchild[n], "print")) \subseteq T
        BY <2>2, <2>4, <3>4
      <4> QED
        BY <3>4, <4>1 DEF Entry, Frame
    <3> QED
      BY <2>2, <3>1, <3>2, <3>3, <3>4
  <2>10. \A i \in DOMAIN frames : Entry(frames[i]) \subseteq S
    <3> TAKE i \in DOMAIN frames
    <3>1. Among(frames[i], frames)
      BY DEF Among
    <3> QED
      BY <2>2, <2>4, <2>9, <3>1
  <2>11. m \in S
    BY <2>1, <2>5, <2>8, <2>10 DEF Covers
  <2> QED
    BY <1>5, <2>11
<1>6. ASSUME ~cut', NEW k \in kept' \ (moved' \cup Printed')
      PROVE  Found(k)' \subseteq Ahead'
  <2>1. Found(k) \subseteq Ahead
    BY <1>1, <1>4, <1>6 DEF MissInv
  <2>2. ASSUME NEW m \in Found(k), m = n, step = "print"
        PROVE  FALSE
    BY <1>1, <1>3, <1>4, <1>6, <2>2 DEF Found, Linked
  <2> QED
    BY <1>2, <1>5, <1>6, <2>1, <2>2
<1>7. PrintMissesOnlyMoved'
  BY <1>1 DEF PrintMissesOnlyMoved
<1>8. print' = "on" => kept' \subseteq Present'
  BY <1>1, <1>2 DEF MissInv
<1> QED
  BY <1>6, <1>7, <1>8 DEF MissInv


\* The walk is over when nothing is ahead of it.
LEMMA EndMisses ==
    ASSUME Full, PrintInv, MissInv,
           fprintf_begin \/ db_print_return \/ UNCHANGED <<vars, printer>>
    PROVE  MissInv'
<1>1. /\ UNCHANGED vars /\ UNCHANGED <<frames, out, kept, moved, cut>>
      /\ print' = print \/ (print = "on" /\ frames = <<>> /\ print' = "done")
  BY DEF fprintf_begin, db_print_return, printer
<1>2. /\ lchild' = lchild /\ rchild' = rchild
      /\ Present' = Present /\ \A k : Found(k)' = Found(k)
  BY <1>1, TreeSame
<1>3. Printed' = Printed /\ Ahead' = Ahead
  BY <1>1, <1>2 DEF Printed, Ahead, Covers, Children, Entry
<1>4. CASE print' = print
  BY <1>1, <1>2, <1>3, <1>4 DEF MissInv, PrintMissesOnlyMoved
<1>5. CASE print = "on" /\ frames = <<>> /\ print' = "done"
  <2>1. Covers({})
    BY <1>5 DEF Covers, Children
  <2>2. Ahead = {}
    BY <2>1 DEF Ahead
  <2>3. ~cut => kept \ Printed \subseteq moved
    <3> SUFFICES ASSUME ~cut, NEW k \in kept \ (moved \cup Printed)
                 PROVE  FALSE
      OBVIOUS
    <3>1. Found(k) = {} /\ k \in Present
      BY <1>5, <2>2 DEF MissInv
    <3> QED
      BY <3>1, PresentFound
  <2> QED
    BY <1>1, <1>3, <1>5, <2>3 DEF MissInv, PrintMissesOnlyMoved
<1> QED
  BY <1>1, <1>4, <1>5

------------------------------------------------------------------------------
(* A print that no command disturbs *)

\* The walk has passed the nodes of W, each after its parent, and written the name of
\* each but head once.  Every activation goes on at nodes not passed whose parent is,
\* and no two of them at the same node.
Passed(W) ==
    /\ W \subseteq Tree
    /\ \A p \in Tree, c \in W : c \in {lchild[p], rchild[p]} => p \in W
    /\ Printed = {name[n] : n \in W \ {head}}
    /\ IsFiniteSet(Printed) /\ Cardinality(Printed) = Len(out)
Pending(W) ==
    /\ \A i \in DOMAIN frames :
         /\ frames[i].node \in Tree \cup {NULL}
         /\ \A e \in Entry(frames[i]) :
              /\ e \in Tree \ W
              /\ e = head \/ \E p \in W : e \in {lchild[p], rchild[p]}
    /\ \A i, j \in DOMAIN frames : i # j => Entry(frames[i]) \cap Entry(frames[j]) = {}

ExactInv ==
    /\ print = "off" => ~cut /\ moved = {}
    /\ print = "on" /\ quiet =>
         /\ \A t \in Threads : pc[t] = "idle"
         /\ kept = Present /\ ever = Present /\ moved = {} /\ ~cut
         /\ \E W \in SUBSET Node : Passed(W) /\ Pending(W)
    /\ PrintExact

LEMMA ClientExact ==
    ASSUME PrintInv, ExactInv, Client
    PROVE  ExactInv'
<1>1. /\ UNCHANGED <<print, frames, out>> /\ cut' = (cut \/ Dangling')
      /\ print # "on" => kept' = kept /\ moved' = moved
      /\ quiet' = (quiet /\ print # "on") /\ Printed' = Printed
  BY DEF Client, Printed
<1>2. print = "off" => ~cut'
  <2> HAVE print = "off"
  <2>1. frames' = <<>>
    BY <1>1 DEF PrintInv
  <2>2. DOMAIN frames' = {}
    BY <2>1
  <2> QED
    BY <1>1, <2>2 DEF Dangling, ExactInv
<1>3. PrintExact'
  BY <1>1 DEF ExactInv, PrintExact
<1> QED
  BY <1>1, <1>2, <1>3 DEF ExactInv

LEMMA StartExact ==
    ASSUME Full, PrintInv, ExactInv, db_print
    PROVE  ExactInv'
<1>1. /\ print = "off" /\ print' = "on" /\ frames' = <<Frame(head, "print")>>
      /\ kept' = Present /\ ever' = Present /\ moved' = {} /\ ~cut' /\ out' = <<>>
      /\ quiet' = \A t \in Threads : pc[t] = "idle"
  BY DEF db_print, PrintInv, ExactInv
<1>2. /\ pc' = pc /\ Present' = Present /\ \A m : Linked(m)' <=> Linked(m)
  BY TreeSame DEF db_print, vars
<1>3. Inv /\ head \in Node /\ NULL # head /\ head \in Tree
  BY TreeFacts, ConstAssumption DEF Full, Node
<1>4. Printed' = {} /\ Len(out') = 0
  BY <1>1 DEF Printed
<1>5. DOMAIN frames' = {1} /\ frames'[1] = Frame(head, "print")
  BY <1>1
<1>6. Entry(frames[1])' = {head}
  BY <1>3, <1>5 DEF Entry, Frame
<1>7. Passed({})'
  BY <1>4, FS_EmptySet DEF Passed
<1>8. Pending({})'
  <2>1. head \in Tree'
    BY <1>2, <1>3 DEF Tree
  <2> QED
    BY <1>5, <1>6, <2>1 DEF Pending, Frame
<1>9. \E W \in SUBSET Node : (Passed(W) /\ Pending(W))'
  BY <1>7, <1>8
<1> QED
  BY <1>1, <1>2, <1>9 DEF ExactInv, PrintExact

LEMMA Indexed ==
    ASSUME NEW S, NEW s \in Seq(S), s # <<>>, NEW a \in S, NEW b \in S
    PROVE  /\ DOMAIN s = 1..Len(s) /\ Len(s) \in Nat \ {0} /\ Head(s) = s[1]
           /\ DOMAIN Tail(s) = 1..Len(s) - 1
           /\ \A i \in 1..Len(s) - 1 : Tail(s)[i] = s[i + 1]
           /\ DOMAIN (<<a>> \o Tail(s)) = 1..Len(s)
           /\ \A i \in 1..Len(s) : (<<a>> \o Tail(s))[i] = IF i = 1 THEN a ELSE s[i]
           /\ DOMAIN (<<a, b>> \o Tail(s)) = 1..Len(s) + 1
           /\ \A i \in 1..Len(s) + 1 :
                (<<a, b>> \o Tail(s))[i] = IF i = 1 THEN a ELSE IF i = 2 THEN b ELSE s[i - 1]
<1>1. DOMAIN s = 1..Len(s) /\ Len(s) \in Nat \ {0} /\ Head(s) = s[1]
  BY EmptySeq, Elements
<1>2. PICK z \in Seq(S) : z = Tail(s)
  BY HeadTailProperties
<1>3. /\ Len(z) = Len(s) - 1 /\ DOMAIN z = 1..Len(s) - 1
      /\ \A i \in 1..Len(s) - 1 : z[i] = s[i + 1]
  BY <1>2, HeadTailProperties
<1>4. PICK c : c = <<a>>
  OBVIOUS
<1>5. c \in Seq(S) /\ Len(c) = 1 /\ c[1] = a
  BY <1>4
<1>6. PICK u : u = c \o z
  OBVIOUS
<1>7. DOMAIN u = 1..Len(s) /\ \A i \in 1..Len(s) : u[i] = IF i = 1 THEN a ELSE s[i]
  <2>0. /\ u \in Seq(S) /\ Len(u) = Len(c) + Len(z)
        /\ \A i \in 1..Len(c) + Len(z) : u[i] = IF i <= Len(c) THEN c[i] ELSE z[i - Len(c)]
    BY <1>5, <1>6, ConcatProperties
  <2>1. u \in Seq(S) /\ Len(u) = Len(s) /\ Len(c) + Len(z) = Len(s)
    BY <1>1, <1>3, <1>5, <2>0
  <2>2. \A i \in 1..Len(s) : u[i] = IF i <= 1 THEN c[i] ELSE z[i - 1]
    BY <1>5, <2>0, <2>1
  <2>3. \A i \in 1..Len(s) : i <= 1 => i = 1
    OBVIOUS
  <2>4. \A i \in 1..Len(s) : i # 1 => z[i - 1] = s[i]
    BY <1>1, <1>3
  <2>5. DOMAIN u = 1..Len(s)
    BY <2>1
  <2> QED
    BY <1>5, <2>2, <2>3, <2>4, <2>5
<1>8. PICK d : d = <<a, b>>
  OBVIOUS
<1>9. d \in Seq(S) /\ Len(d) = 2 /\ d[1] = a /\ d[2] = b
  BY <1>8
<1>10. PICK v : v = d \o z
  OBVIOUS
<1>11. /\ DOMAIN v = 1..Len(s) + 1
       /\ \A i \in 1..Len(s) + 1 : v[i] = IF i = 1 THEN a ELSE IF i = 2 THEN b ELSE s[i - 1]
  <2>0. /\ v \in Seq(S) /\ Len(v) = Len(d) + Len(z)
        /\ \A i \in 1..Len(d) + Len(z) : v[i] = IF i <= Len(d) THEN d[i] ELSE z[i - Len(d)]
    BY <1>9, <1>10, ConcatProperties
  <2>1. v \in Seq(S) /\ Len(v) = Len(s) + 1 /\ Len(d) + Len(z) = Len(s) + 1
    BY <1>1, <1>3, <1>9, <2>0
  <2>2. \A i \in 1..Len(s) + 1 : v[i] = IF i <= 2 THEN d[i] ELSE z[i - 2]
    BY <1>9, <2>0, <2>1
  <2>3. \A i \in 1..Len(s) + 1 : i <= 2 => i = 1 \/ i = 2
    OBVIOUS
  <2>4. \A i \in 1..Len(s) + 1 : i # 1 /\ i # 2 => z[i - 2] = s[i - 1]
    <3> TAKE i \in 1..Len(s) + 1
    <3> HAVE i # 1 /\ i # 2
    <3>1. i - 2 \in 1..Len(s) - 1 /\ (i - 2) + 1 = i - 1
      BY <1>1
    <3> QED
      BY <1>3, <3>1
  <2>5. DOMAIN v = 1..Len(s) + 1
    BY <2>1
  <2> QED
    BY <1>9, <2>2, <2>3, <2>4, <2>5
<1> QED
  BY <1>1, <1>2, <1>3, <1>4, <1>6, <1>7, <1>8, <1>10, <1>11


\* Below a node of the tree are its children, and nobody else's.
Kids(n) == {lchild[n], rchild[n]} \ {NULL}

LEMMA KidsFacts ==
    ASSUME Inv, NEW n \in Tree
    PROVE  /\ Kids(n) \subseteq Tree \ {head}
           /\ \A p \in Tree : Kids(p) \cap Kids(n) # {} => p = n
           /\ lchild[n] # NULL => lchild[n] # rchild[n]
<1>1. Kids(n) \subseteq Tree \ {head}
  BY TreeFacts DEF Kids
<1>2. ASSUME NEW p \in Tree, NEW c \in Kids(p) \cap Kids(n)
      PROVE  p = n
  BY OneParent DEF Kids, Tree
<1>3. lchild[n] # NULL => lchild[n] # rchild[n]
  BY DEF Inv, IInv, TreeShape, Tree
<1> QED
  BY <1>1, <1>2, <1>3

\* Writing a node takes it to those passed, and its children take its place.
LEMMA PassOn ==
    ASSUME Inv, NEW W \in SUBSET Node, Passed(W), Pending(W), NEW h \in DOMAIN frames,
           frames[h].step = "print", frames[h].node # NULL
    PROVE  LET n == frames[h].node IN
           /\ n \in Tree \ W
           /\ \A p \in Tree, c \in W \cup {n} : c \in Kids(p) => p \in W \cup {n}
           /\ \A e \in Kids(n) : e \in Tree \ (W \cup {n})
           /\ \A i \in DOMAIN frames \ {h} :
                n \notin Entry(frames[i]) /\ Kids(n) \cap Entry(frames[i]) = {}
<1> DEFINE n == frames[h].node
<1>1. n \in Tree /\ n \in Entry(frames[h])
  <2>1. n \in Tree
    BY DEF Pending
  <2> QED
    BY <2>1, TreeFacts DEF Entry
<1>2. n \in Tree \ W /\ (n = head \/ \E p \in W : n \in Kids(p))
  BY <1>1, TreeFacts DEF Pending, Kids
<1>3. W \subseteq Tree /\ \A p \in Tree, c \in W : c \in Kids(p) => p \in W
  BY DEF Passed, Kids
<1>4. \A p \in Tree : n \in Kids(p) => p \in W
  BY <1>1, <1>2, <1>3, KidsFacts
<1>5. \A e \in Kids(n) : e \in Tree \ (W \cup {n}) /\ e # head
  BY <1>1, <1>2, <1>3, <1>4, KidsFacts
<1>6. ASSUME NEW i \in DOMAIN frames \ {h}
      PROVE  n \notin Entry(frames[i]) /\ Kids(n) \cap Entry(frames[i]) = {}
  <2>1. n \notin Entry(frames[i])
    BY <1>1 DEF Pending
  <2>2. ASSUME NEW e \in Kids(n) \cap Entry(frames[i])
        PROVE  FALSE
    <3>1. PICK p \in W : e \in Kids(p)
      BY <1>5, <2>2, TreeFacts DEF Pending, Kids
    <3>2. p = n
      BY <1>1, <1>3, <2>2, <3>1, KidsFacts
    <3> QED
      BY <1>2, <3>2
  <2> QED
    BY <2>1, <2>2
<1> QED
  BY <1>2, <1>3, <1>4, <1>5, <1>6


\* What the activations go on with after a step: with what they went on with before,
\* but that the children of a node written take its place.
LEMMA PendingStep ==
    ASSUME Full, PrintInv, db_print_recurs, NEW W \in SUBSET Node, Passed(W), Pending(W),
           NEW U, U = IF Head(frames).node # NULL /\ Head(frames).step = "print"
                      THEN W \cup {Head(frames).node}
                      ELSE W
    PROVE  /\ 1 \in DOMAIN frames /\ frames[1] = Head(frames)
           /\ Head(frames).node \in Tree \cup {NULL}
           /\ Pending(U)'
<1> DEFINE n == Head(frames).node
           step == Head(frames).step
           writes == n # NULL /\ step = "print"
           Next1 == IF writes THEN Kids(n) ELSE Entry(frames[1])
           V == [node : Node \cup {NULL}, step : {"print", "left", "right"}]
           L == Len(frames)
<1>1. frames \in Frames /\ frames # <<>> /\ frames \in Seq(V)
  BY DEF PrintInv, Frames, db_print_recurs
<1>2. frames[1] = Head(frames) /\ DOMAIN frames = 1..L /\ L \in Nat \ {0} /\ 1 \in DOMAIN frames
  <2> HIDE DEF V
  <2> QED
    BY <1>1, Elements, EmptySeq
<1>3. /\ n \in Tree \cup {NULL} /\ step \in {"print", "left", "right"} /\ Inv
      /\ Tree \subseteq alive \cup {head} /\ Tree \subseteq Node /\ NULL \notin Node
      /\ Cells \subseteq Node /\ alive \subseteq Cells /\ head \notin Cells
  BY <1>1, <1>2, FrameNodes, TreeFacts, ConstAssumption
     DEF Pending, Full, Inv, IInv, TypeOK, HeapOK, Node
<1>4. n # NULL => /\ Kids(n) \subseteq Tree
                  /\ lchild[n] \in Tree \cup {NULL} /\ rchild[n] \in Tree \cup {NULL}
                  /\ lchild[n] # NULL => lchild[n] # rchild[n]
  BY <1>3, KidsFacts, TreeFacts
<1>5. Tree' = Tree /\ \A f : Entry(f)' = Entry(f)
  <2>1. lchild' = lchild /\ rchild' = rchild /\ \A m : Linked(m)' <=> Linked(m)
    BY TreeSame DEF db_print_recurs
  <2> QED
    BY <2>1 DEF Tree, Entry
\* what is pending keeps clear of what is passed and apart
<1>6. writes => /\ \A e \in Kids(n) : e \in Tree \ (W \cup {n})
                /\ \A i \in DOMAIN frames \ {1} :
                     n \notin Entry(frames[i]) /\ Kids(n) \cap Entry(frames[i]) = {}
  BY <1>2, <1>3, PassOn
<1>7. \A e \in Next1 : /\ e \in Tree \ U
                       /\ e = head \/ \E p \in U : e \in {lchild'[p], rchild'[p]}
  <2>1. CASE writes
    BY <1>3, <1>6, <2>1, TreeSame DEF Kids, db_print_recurs
  <2>2. CASE ~writes
    BY <1>2, <2>2, TreeSame DEF Pending, db_print_recurs
  <2> QED
    BY <2>1, <2>2
<1>8. \A i \in DOMAIN frames \ {1} :
        /\ Next1 \cap Entry(frames[i]) = {}
        /\ frames[i].node \in Tree \cup {NULL}
        /\ \A e \in Entry(frames[i]) :
             /\ e \in Tree \ U
             /\ e = head \/ \E p \in U : e \in {lchild'[p], rchild'[p]}
  <2>1. CASE writes
    BY <1>2, <1>6, <2>1, TreeSame DEF Pending, db_print_recurs
  <2>2. CASE ~writes
    BY <1>2, <2>2, TreeSame DEF Pending, db_print_recurs
  <2> QED
    BY <2>1, <2>2
<1>9. \A i, j \in DOMAIN frames : i # j => Entry(frames[i]) \cap Entry(frames[j]) = {}
  BY DEF Pending
<1>10. \A m \in Node \cup {NULL}, p \in {"print", "left", "right"} : Frame(m, p) \in V
  BY DEF Frame
<1> HIDE DEF Next1
\* the activations by place
<1>11. SUFFICES
         /\ \A i \in DOMAIN frames' :
              \/ \E k \in DOMAIN frames \ {1} : frames'[i] = frames[k]
              \/ Entry(frames'[i]) \subseteq Next1 /\ frames'[i].node \in Tree \cup {NULL}
         /\ \A i, j \in DOMAIN frames' :
              i # j => Entry(frames'[i]) \cap Entry(frames'[j]) = {}
  <2>1. \A i \in DOMAIN frames' :
          /\ frames'[i].node \in Tree' \cup {NULL}
          /\ \A e \in Entry(frames'[i]) :
               /\ e \in Tree' \ U
               /\ e = head \/ \E p \in U : e \in {lchild'[p], rchild'[p]}
    BY <1>5, <1>7, <1>8, <1>11
  <2>2. Pending(U)'
    BY <1>5, <1>11, <2>1 DEF Pending
  <2> QED
    BY <1>2, <1>3, <2>2
<1>12. CASE n = NULL
  <2>1. frames' = Tail(frames)
    BY <1>3, <1>12, ConstAssumption DEF db_print_recurs
  <2>2. DOMAIN frames' = 1..L - 1 /\ \A i \in 1..L - 1 : frames'[i] = frames[i + 1]
    <3> HIDE DEF V
    <3> PICK a \in V : a = Head(frames)
      BY <1>1, Elements, Zenon
    <3> QED
      BY <1>1, <2>1, Indexed
  <2>3. \A i \in DOMAIN frames' : i + 1 \in DOMAIN frames \ {1} /\ frames'[i] = frames[i + 1]
    BY <1>2, <2>2
  <2>4. \A i, j \in DOMAIN frames' : i # j => i + 1 # j + 1
    BY <1>2, <2>2
  <2> QED
    BY <1>9, <2>3, <2>4
<1>13. ASSUME n # NULL, NEW f \in V, frames' = <<f>> \o Tail(frames),
              Entry(f) \subseteq Next1, f.node \in Tree \cup {NULL}
       PROVE  /\ \A i \in DOMAIN frames' :
                   \/ \E k \in DOMAIN frames \ {1} : frames'[i] = frames[k]
                   \/ Entry(frames'[i]) \subseteq Next1 /\ frames'[i].node \in Tree \cup {NULL}
              /\ \A i, j \in DOMAIN frames' :
                   i # j => Entry(frames'[i]) \cap Entry(frames'[j]) = {}
  <2>1. /\ DOMAIN frames' = 1..L
        /\ \A i \in 1..L : frames'[i] = IF i = 1 THEN f ELSE frames[i]
    <3> HIDE DEF V
    <3> QED
      BY <1>1, <1>13, Indexed
  <2>2. frames'[1] = f /\ \A i \in DOMAIN frames' \ {1} : frames'[i] = frames[i]
    BY <1>2, <2>1
  <2> QED
    BY <1>2, <1>8, <1>9, <1>13, <2>1, <2>2
<1>14. CASE n # NULL /\ step = "print"
  <2>1. PICK f \in V : f = Frame(n, "left")
    BY <1>3, <1>10
  <2>2. frames' = <<f>> \o Tail(frames)
    BY <1>3, <1>14, <2>1 DEF db_print_recurs, calls_of
  <2>3. Entry(f) \subseteq Next1 /\ f.node \in Tree \cup {NULL}
    BY <1>3, <1>14, <2>1 DEF Entry, Frame, Next1, Kids
  <2> QED
    BY <1>13, <1>14, <2>2, <2>3
<1>15. CASE n # NULL /\ step = "right"
  <2>1. PICK f \in V : f = Frame(rchild[n], "print")
    BY <1>3, <1>4, <1>10, <1>15
  <2>2. frames' = <<f>> \o Tail(frames)
    BY <1>3, <1>15, <2>1 DEF db_print_recurs, calls_of
  <2>3. Entry(f) \subseteq Next1 /\ f.node \in Tree \cup {NULL}
    BY <1>2, <1>3, <1>4, <1>15, <2>1 DEF Entry, Frame, Next1
  <2> QED
    BY <1>13, <1>15, <2>2, <2>3
<1>16. CASE n # NULL /\ step = "left"
  <2>1. PICK f \in V, g \in V : f = Frame(lchild[n], "print") /\ g = Frame(n, "right")
    BY <1>3, <1>4, <1>10, <1>16
  <2>2. frames' = <<f, g>> \o Tail(frames)
    BY <1>3, <1>16, <2>1 DEF db_print_recurs, calls_of
  <2>3. /\ Entry(f) \subseteq Next1 /\ f.node \in Tree \cup {NULL}
        /\ Entry(g) \subseteq Next1 /\ g.node \in Tree \cup {NULL}
        /\ Entry(f) \cap Entry(g) = {}
    BY <1>2, <1>3, <1>4, <1>16, <2>1 DEF Entry, Frame, Next1
  <2>4. /\ DOMAIN frames' = 1..L + 1
        /\ \A i \in 1..L + 1 :
             frames'[i] = IF i = 1 THEN f ELSE IF i = 2 THEN g ELSE frames[i - 1]
    <3> HIDE DEF V
    <3> QED
      BY <1>1, <2>2, Indexed
  <2>5. /\ frames'[1] = f /\ frames'[2] = g
        /\ \A i \in DOMAIN frames' \ {1, 2} :
             i - 1 \in DOMAIN frames \ {1} /\ frames'[i] = frames[i - 1]
        /\ \A i, j \in DOMAIN frames' : i # j => i - 1 # j - 1
    BY <1>2, <2>4
  <2>6. \A i \in DOMAIN frames' :
          \/ \E k \in DOMAIN frames \ {1} : frames'[i] = frames[k]
          \/ Entry(frames'[i]) \subseteq Next1 /\ frames'[i].node \in Tree \cup {NULL}
    BY <2>3, <2>5
  <2>7. \A i, j \in DOMAIN frames' : i # j => Entry(frames'[i]) \cap Entry(frames'[j]) = {}
    <3> SUFFICES ASSUME NEW i \in DOMAIN frames', NEW j \in DOMAIN frames', i # j
                 PROVE  Entry(frames'[i]) \cap Entry(frames'[j]) = {}
      OBVIOUS
    <3>1. CASE i \in {1, 2} /\ j \in {1, 2}
      BY <2>3, <2>5, <3>1
    <3>0. \A k \in DOMAIN frames \ {1} :
            /\ Entry(f) \cap Entry(frames[k]) = {}
            /\ Entry(g) \cap Entry(frames[k]) = {}
      BY <1>8, <2>3
    <3>2. CASE i \in {1, 2} /\ j \notin {1, 2}
      <4>1. j - 1 \in DOMAIN frames \ {1} /\ frames'[j] = frames[j - 1]
        BY <2>5, <3>2
      <4>2. frames'[i] = f \/ frames'[i] = g
        BY <2>5, <3>2
      <4> QED
        BY <3>0, <4>1, <4>2
    <3>3. CASE i \notin {1, 2} /\ j \in {1, 2}
      <4>1. i - 1 \in DOMAIN frames \ {1} /\ frames'[i] = frames[i - 1]
        BY <2>5, <3>3
      <4>2. frames'[j] = f \/ frames'[j] = g
        BY <2>5, <3>3
      <4> QED
        BY <3>0, <4>1, <4>2
    <3>4. CASE i \notin {1, 2} /\ j \notin {1, 2}
      BY <1>9, <2>5, <3>4
    <3> QED
      BY <3>1, <3>2, <3>3, <3>4
  <2> QED
    BY <2>6, <2>7
<1> QED
  BY <1>3, <1>12, <1>14, <1>15, <1>16


\* With no command under way, a name is written when its node is passed, and no other
\* node has it.
LEMMA WalkExact ==
    ASSUME Full, PrintInv, ExactInv, db_print_recurs
    PROVE  ExactInv'
<1> DEFINE n == Head(frames).node
           step == Head(frames).step
<1>1. /\ print = "on" /\ kept' = kept /\ ever' = ever /\ moved' = moved /\ quiet' = quiet
      /\ cut' = (cut \/ Dangling') /\ pc' = pc /\ print' \in {"on", "undefined"}
  BY DEF db_print_recurs, vars, PrintInv
<1>2. /\ lchild' = lchild /\ rchild' = rchild /\ name' = name /\ alive' = alive
      /\ Present' = Present /\ Tree' = Tree
  BY TreeSame DEF db_print_recurs, Tree
<1>3. SUFFICES ASSUME quiet
               PROVE  ~cut' /\ \E W \in SUBSET Node : (Passed(W) /\ Pending(W))'
  BY <1>1, <1>2, <1>3 DEF ExactInv, PrintExact
<1>4. PICK W \in SUBSET Node : Passed(W) /\ Pending(W)
  BY <1>1, <1>3 DEF ExactInv
<1>5. PICK U : U = IF n # NULL /\ step = "print" THEN W \cup {n} ELSE W
  OBVIOUS
<1>6. 1 \in DOMAIN frames /\ frames[1] = Head(frames) /\ n \in Tree \cup {NULL} /\ Pending(U)'
  BY <1>4, <1>5, PendingStep
<1>7. /\ Inv /\ Tree \subseteq Node /\ Tree \subseteq alive \cup {head} /\ head \notin Cells
      /\ NULL \notin Node /\ alive \subseteq Cells /\ NULL \notin Cells
      /\ \A m \in Node : name[m] \in Nat
  BY TreeFacts, ConstAssumption DEF Full, Inv, IInv, TypeOK, HeapOK
<1>8. ~cut'
  <2>1. ~Dangling'
    BY <1>2, <1>6, <1>7 DEF Pending, Dangling
  <2> QED
    BY <1>1, <1>3, <2>1 DEF ExactInv
<1>9. U \in SUBSET Node /\ U \subseteq Tree
  BY <1>4, <1>5, <1>6, <1>7 DEF Passed
<1>10. n # NULL /\ step = "print" =>
         /\ n \in Tree \ W
         /\ \A p \in Tree, c \in W \cup {n} : c \in Kids(p) => p \in W \cup {n}
  <2> SUFFICES ASSUME n # NULL, step = "print"
               PROVE  /\ n \in Tree \ W
                      /\ \A p \in Tree, c \in W \cup {n} : c \in Kids(p) => p \in W \cup {n}
    OBVIOUS
  <2> QED
    BY <1>4, <1>6, <1>7, PassOn
<1>11. \A p \in Tree, c \in U : c \in {lchild[p], rchild[p]} => p \in U
  <2>1. \A c \in U : c # NULL
    BY <1>7, <1>9
  <2> QED
    BY <1>4, <1>5, <1>10, <2>1 DEF Passed, Kids
<1>12. CASE out' = out /\ U \ {head} = W \ {head}
  <2>1. Passed(U)'
    BY <1>2, <1>4, <1>9, <1>11, <1>12 DEF Passed, Printed
  <2> QED
    BY <1>6, <1>8, <1>9, <2>1
<1>13. CASE /\ n \in Tree \ {head} /\ step = "print" /\ Wrote(name[n])
  <2>1. n \in Tree \ W /\ n \in Cells /\ name[n] \in Nat /\ n # NULL
    BY <1>7, <1>10, <1>13
  <2>2. name[n] \notin Printed
    <3> SUFFICES ASSUME NEW m \in W \ {head}, name[m] = name[n]
                 PROVE  FALSE
      BY <1>4 DEF Passed
    <3>1. m \in Cells /\ m \in Tree
      BY <1>4, <1>7 DEF Passed
    <3>2. \A q : ~Stale(q)
      BY <1>1, <1>3 DEF Stale, ExactInv
    <3>3. m \in Found(name[n]) /\ n \in Found(name[n])
      BY <2>1, <3>1, <3>2 DEF Found, Tree
    <3>4. m = n
      BY <3>3, FoundOnce
    <3> QED
      BY <2>1, <3>4
  <2>3. /\ Len(out') = Len(out) + 1 /\ Len(out) \in Nat
        /\ Printed' = Printed \cup {name[n]}
    BY <1>13 DEF Wrote
  <2>4. IsFiniteSet(Printed') /\ Cardinality(Printed') = Len(out')
    <3>1. IsFiniteSet(Printed) /\ Cardinality(Printed) = Len(out)
      BY <1>4 DEF Passed
    <3>2. /\ IsFiniteSet(Printed \cup {name[n]})
          /\ Cardinality(Printed \cup {name[n]}) = Cardinality(Printed) + 1
      BY <2>2, <3>1, FS_AddElement
    <3> QED
      BY <2>3, <3>1, <3>2
  <2>5. Printed' = {name'[m] : m \in U \ {head}}
    BY <1>2, <1>4, <1>5, <1>13, <2>1, <2>3 DEF Passed
  <2>6. Passed(U)'
    BY <1>2, <1>9, <1>11, <2>4, <2>5 DEF Passed
  <2> QED
    BY <1>6, <1>8, <1>9, <2>6
<1>14. \/ out' = out /\ (n = NULL \/ n = head \/ step # "print")
       \/ n \in Tree \ {head} /\ step = "print" /\ Wrote(name[n])
  <2>1. CASE out' = out /\ ~(n \in alive /\ step = "print")
    BY <1>6, <1>7, <2>1
  <2>2. CASE n \in alive /\ step = "print" /\ reading # {} /\ \E x : Wrote(x)
    <3>1. reading = {name[n]}
      BY <1>1, <1>3, <2>2 DEF PrintInv, ReadInv, ExactInv
    <3>2. PICK x : Wrote(x)
      BY <2>2
    <3>3. x = name[n]
      BY <3>1, <3>2 DEF Wrote
    <3> QED
      BY <1>6, <1>7, <2>2, <3>2, <3>3
  <2> QED
    BY <2>1, <2>2, LineWritten
<1>15. (n = NULL \/ n = head \/ step # "print") => U \ {head} = W \ {head}
  BY <1>5
<1> QED
  BY <1>12, <1>13, <1>14, <1>15

LEMMA EndExact ==
    ASSUME Full, PrintInv, MissInv', PrintInv', ExactInv,
           fprintf_begin \/ db_print_return \/ UNCHANGED <<vars, printer>>
    PROVE  ExactInv'
<1>1. /\ UNCHANGED vars /\ UNCHANGED <<frames, out, kept, ever, moved, cut, quiet>>
      /\ \/ print' = print
         \/ print = "on" /\ frames = <<>> /\ print' = "done"
  BY DEF fprintf_begin, db_print_return, printer
<1>2. /\ lchild' = lchild /\ rchild' = rchild /\ name' = name /\ pc' = pc
      /\ Present' = Present /\ Tree' = Tree
  BY <1>1, TreeSame DEF Tree, vars
<1>3. Printed' = Printed
  BY <1>1 DEF Printed
<1>4. CASE print' = print
  <2>1. \A W : (Passed(W) /\ Pending(W))' <=> Passed(W) /\ Pending(W)
    BY <1>1, <1>2, <1>3 DEF Passed, Pending, Entry
  <2> QED
    BY <1>1, <1>2, <1>3, <1>4, <2>1 DEF ExactInv, PrintExact
<1>5. CASE print = "on" /\ print' = "done"
  <2>1. quiet => /\ kept = ever /\ moved = {} /\ ~cut /\ Cardinality(Printed) = Len(out)
    BY <1>5 DEF ExactInv, Passed
  <2>2. ~cut => /\ Printed \ {Torn} \subseteq ever /\ kept \ Printed \subseteq moved
                /\ Torn \in Printed => moved # {}
    BY <1>1, <1>3, <1>5
       DEF PrintInv, PrintInventsNothing, MissInv, PrintMissesOnlyMoved
  <2>3. quiet => Printed = kept /\ Len(out) = Cardinality(kept)
    <3> SUFFICES ASSUME quiet PROVE Printed = kept /\ Len(out) = Cardinality(kept)
      OBVIOUS
    <3>1. Printed = kept
      BY <2>1, <2>2
    <3> QED
      BY <2>1, <3>1
  <2>4. PrintExact'
    BY <1>1, <1>3, <2>3 DEF PrintExact
  <2> QED
    BY <1>5, <2>4 DEF ExactInv
<1> QED
  BY <1>1, <1>4, <1>5

MissesInv == Full /\ PrintInv /\ Heirs /\ MissInv

LEMMA MissesInvInit ==
    ASSUME Init, PrintInit
    PROVE  MissesInv
<1>1. Full /\ PrintInv
  BY PrintInvInit
<1>2. \A t \in Threads : pc[t] = "idle"
  BY DEF Init, InitClient
<1>3. Heirs
  BY <1>2 DEF Heirs, DetachedBy
<1>4. MissInv
  BY DEF PrintInit, MissInv, PrintMissesOnlyMoved
<1> QED
  BY <1>1, <1>3, <1>4 DEF MissesInv

LEMMA MissesInvStep ==
    ASSUME MissesInv, [PrintNext]_<<vars, printer>>
    PROVE  MissesInv'
<1>1. [Next]_vars
  BY DEF PrintNext, Client, db_print, fprintf_begin, db_print_recurs, db_print_return, Next
<1>2. Full' /\ PrintInv' /\ Heirs'
  BY <1>1, PrintInvStep, HeirsStep DEF MissesInv
<1>3. MissInv'
  BY <1>2, ClientMisses, StartMisses, WalkMisses, EndMisses
     DEF PrintNext, Finished, MissesInv
<1> QED
  BY <1>2, <1>3 DEF MissesInv

\* A print among clients that holds no pointer to a freed node writes every name that
\* is in the database from its first line to its last, unless a removal has moved it
\* to another node: adds, and removals that only take a node out, hide nothing.
THEOREM NothingIsMissed == PrintSpec => []PrintMissesOnlyMoved
<1>1. MissesInv => PrintMissesOnlyMoved
  BY DEF MissesInv, MissInv
<1> QED
  BY <1>1, MissesInvInit, MissesInvStep, PTL DEF PrintSpec

\* A print that begins and ends while no command is under way writes every name of the
\* database, each once, and nothing else.
THEOREM QuietPrintIsExact == PrintSpec => []PrintExact
<1>1. Init /\ PrintInit => MissesInv /\ ExactInv
  BY MissesInvInit DEF PrintInit, ExactInv, PrintExact
<1>2. MissesInv /\ ExactInv /\ [PrintNext]_<<vars, printer>> => (MissesInv /\ ExactInv)'
  <2> SUFFICES ASSUME MissesInv, ExactInv, [PrintNext]_<<vars, printer>>
               PROVE  MissesInv' /\ ExactInv'
    OBVIOUS
  <2>1. MissesInv'
    BY MissesInvStep
  <2>2. Full /\ PrintInv /\ PrintInv' /\ MissInv'
    BY <2>1 DEF MissesInv
  <2>3. ExactInv'
    BY <2>2, ClientExact, StartExact, WalkExact, EndExact DEF PrintNext, Finished
  <2> QED
    BY <2>1, <2>3
<1>3. ExactInv => PrintExact
  BY DEF ExactInv
<1> QED
  BY <1>1, <1>2, <1>3, PTL DEF PrintSpec
==============================================================================
