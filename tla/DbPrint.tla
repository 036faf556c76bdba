------------------------------- MODULE DbPrint -------------------------------
(***************************************************************************)
(* The 'p' command of the server's terminal: main runs db_print of         *)
(* src/database/db.c, which walks the tree in pre-order and takes no lock, *)
(* while the client threads of DbTree go on.                               *)
(***************************************************************************)
EXTENDS DbTreeLinear, Sequences

CONSTANT Torn   \* what fprintf makes of a name that is rewritten while it reads it

ASSUME TornAssumption == Torn \notin Names \cup {0}

VARIABLES
    print,   \* "off", "on", "done", or "undefined" once it reads freed memory
    frames,  \* the activations of db_print_recurs, innermost first: node, step
    out,     \* names written, in order
    reading, \* while fprintf is at a node: the names the node has had meanwhile
    \* history: names in the database all through, or at some time of, the
    \* print; names that a removal wrote into another node meanwhile;
    \* whether the walk has held a pointer to a freed node; and whether no
    \* client has taken a step since it began
    kept, ever, moved, cut, quiet

printer == <<print, frames, out, reading, kept, ever, moved, cut, quiet>>

Present == {k \in Names : Map[k] # NULL}

PrintInit ==
    /\ print = "off" /\ frames = <<>> /\ out = <<>> /\ reading = {}
    /\ kept = {} /\ ever = {} /\ moved = {} /\ cut = FALSE /\ quiet = FALSE

Frame(n, step) == [node |-> n, step |-> step]

\* The walk will come back to a node that is freed.
Dangling == \E i \in DOMAIN frames : frames[i].node \in Cells \ alive

\* db_print: a file name only decides where the output goes.
db_print ==
    /\ print = "off"
    /\ print' = "on"
    /\ frames' = <<Frame(head, "print")>>
    /\ kept' = Present /\ ever' = Present
    /\ quiet' = \A t \in Threads : pc[t] = "idle"
    /\ UNCHANGED <<vars, out, reading, moved, cut>>

\* fprintf begins to read the name of a node, byte by byte and with no lock, while
\* db_remove may write it with snprintf; the root's is not read.
fprintf_begin ==
    /\ print = "on" /\ frames # <<>>
    /\ Head(frames).step = "print" /\ Head(frames).node \in alive /\ reading = {}
    /\ reading' = {name[Head(frames).node]}
    /\ UNCHANGED <<vars, print, frames, out, kept, ever, moved, cut, quiet>>

\* Mutation: the root is written like the others.
written_root(n) == {<<name[n]>>}

\* What fprintf writes: a name the node has had since it began, or bytes of several.
written(n) ==
    IF n = head THEN {<<>>}
    ELSE {<<x>> : x \in reading}
           \cup (IF \E x, y \in reading : x # y THEN {<<Torn>>} ELSE {})

\* Mutation: no call for the right child.
calls_of_left(n, step) ==
    CASE step = "print" -> <<Frame(n, "left")>>
      [] step = "left"  -> <<Frame(lchild[n], "print")>>

\* What a step of an activation leaves to do: write the node, then read its left
\* child and, when that subtree is done, its right child.
calls_of(n, step) ==
    CASE step = "print" -> <<Frame(n, "left")>>
      [] step = "left"  -> <<Frame(lchild[n], "print"), Frame(n, "right")>>
      [] step = "right" -> <<Frame(rchild[n], "print")>>

db_print_recurs ==
    LET n == Head(frames).node
        step == Head(frames).step
        callers == Tail(frames)
    IN
    /\ print = "on" /\ frames # <<>>
    /\ \/ /\ n = NULL
          /\ frames' = callers
          /\ UNCHANGED <<print, out>>
       \/ /\ n \in alive \cup {head}
          /\ IF step = "print" THEN \E line \in written(n) : out' = out \o line
             ELSE out' = out
          /\ frames' = calls_of(n, step) \o callers
          /\ UNCHANGED print
       \/ /\ n \in Cells \ alive
          /\ print' = "undefined"
          /\ frames' = <<>>
          /\ UNCHANGED out
    /\ reading' = {}
    /\ UNCHANGED <<vars, kept, ever, moved, quiet>>
    /\ cut' = (cut \/ Dangling')

db_print_return ==
    /\ print = "on" /\ frames = <<>>
    /\ print' = "done"
    /\ UNCHANGED <<vars, frames, out, reading, kept, ever, moved, cut, quiet>>

\* A client's step, seen by the history variables.
Client ==
    /\ \E t \in Threads : interpret_command(t) \/ Step(t)
    /\ UNCHANGED <<print, frames, out>>
    /\ reading' = IF reading = {} THEN {} ELSE reading \cup {name'[Head(frames).node]}
    /\ kept' = IF print = "on" THEN kept \cap Present' ELSE kept
    /\ ever' = IF print = "on" THEN ever \cup Present' ELSE ever
    /\ moved' = IF print = "on"
                THEN moved \cup {name'[n] : n \in {m \in alive : name'[m] # name[m]}}
                ELSE moved
    /\ cut' = (cut \/ Dangling')
    /\ quiet' = (quiet /\ print # "on")

PrintNext ==
    \/ Client \/ db_print \/ fprintf_begin \/ db_print_recurs \/ db_print_return
    \/ print \in {"done", "undefined"} /\ Finished /\ UNCHANGED printer

PrintSpec == Init /\ PrintInit /\ [][PrintNext]_<<vars, printer>>

------------------------------------------------------------------------------
Printed == {out[i] : i \in DOMAIN out}

\* With no command under way (the terminal's 's', and the clients drained) a
\* print writes every name of the database once.
PrintExact ==
    print = "done" /\ quiet => Printed = kept /\ Len(out) = Cardinality(kept)

\* However clients interfere, a walk that never holds a pointer to a freed node
\* writes only names that were in the database at some time of the print, also
\* when it passes nodes that db_remove has taken out of the tree; the one
\* exception is a torn name, and there is none unless a removal of two children
\* rewrote a node during the print.
PrintInventsNothing ==
    ~cut => /\ Printed \ {Torn} \subseteq ever
            /\ Torn \in Printed => moved # {}

\* A print among clients that frees no node under the walk writes every name
\* that is there from its first line to its last, except one that a removal moved
\* to another node meanwhile: adds, and removals that only take a node out, hide
\* nothing.
PrintMissesOnlyMoved == print = "done" /\ ~cut => kept \ Printed \subseteq moved
==============================================================================
