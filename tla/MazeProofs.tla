----------------------------- MODULE MazeProofs ------------------------------
(***************************************************************************)
(* The generator makes a perfect maze of any size, and the solver finds a  *)
(* way through any maze that has one: MazeInv is kept by every step.       *)
(***************************************************************************)
EXTENDS Maze, SequenceTheorems, FiniteSetTheorems, WellFoundedInduction, TLAPS

------------------------------------------------------------------------------
(* The invariant *)

\* The activations of drunken_walk and of dfs.
WalkFrame == [room : Rooms, dirs : SUBSET Direction]
SearchFrame == [room : Rooms, dirs : 0..4]

\* The rooms of the stack are visited, and no room is on it twice.
StackOnce ==
    /\ \A i \in DOMAIN stack : stack[i].room \in visited
    /\ \A i, j \in DOMAIN stack : stack[i].room = stack[j].room => i = j

\* Two rooms with a door on one side at least.
Passage == {e \in Rooms \X Rooms : Door(e[1], e[2]) \/ Door(e[2], e[1])}

\* An activation has still to try a direction of a room.
Pending(room, dir) ==
    \E i \in DOMAIN stack : stack[i].room = room /\ dir \in stack[i].dirs

\* The walk leaves undecided what its activations still have to try.
WalkDecides ==
    \A room \in Rooms, dir \in Direction :
      walls[room][dir] = -1 <=> room \notin visited \/ Pending(room, dir)

\* What is decided towards a room is decided after that room was entered, and its
\* two sides never contradict one another; outside are walls.
WalkAgrees ==
    \A room \in Rooms, dir \in Direction :
      LET neighbor == get_neighbor(room, dir) IN
      walls[room][dir] # -1 =>
        IF neighbor \in Rooms
        THEN /\ neighbor \in visited
             /\ walls[neighbor][get_opposite_dir(dir)] \in {-1, walls[room][dir]}
        ELSE walls[room][dir] = 1

\* No part of the rooms is cut off from the others.
OnePiece(rooms, passages) ==
    \A S \in SUBSET rooms :
      S # {} /\ (\A a \in S, b \in rooms : <<a, b>> \in passages => b \in S) => S = rooms

\* Rooms in one piece with one passage less than rooms, each seen from both sides.
SpanningTree(rooms, passages) ==
    /\ IsFiniteSet(rooms) /\ IsFiniteSet(passages)
    /\ Cardinality(passages) = 2 * (Cardinality(rooms) - 1)
    /\ OnePiece(rooms, passages)

WalkTree == SpanningTree(visited, Passage)

WalkInv ==
    /\ size \in Sizes
    /\ walls \in [Rooms -> [Direction -> {-1, 0, 1}]]
    /\ visited \subseteq Rooms /\ <<0, 0>> \in visited
    /\ stack \in Seq(WalkFrame)
    /\ StackOnce /\ WalkDecides /\ WalkAgrees /\ WalkTree

\* The promise of PerfectMaze, of the connections w.
DoorIn(w, a, b) ==
    \E dir \in Direction : get_neighbor(a, dir) = b /\ w[a][dir] = 0

TreeIn(w) ==
    /\ \A a, b \in Rooms : DoorIn(w, a, b) => DoorIn(w, b, a)
    /\ \A a \in Rooms, dir \in Direction : ~direction_index(a, dir) => w[a][dir] = 1
    /\ SpanningTree(Rooms, {d \in Rooms \X Rooms : DoorIn(w, d[1], d[2])})

Decoded == [room \in Rooms |-> create_room_connections(file[room])]

\* A room of the search has no door to a room not visited, or its activation has
\* still to try it.
Searched ==
    \A a \in visited, dir \in Direction :
      walls[a][dir] = 0 /\ get_neighbor(a, dir) \in Rooms \ visited =>
        \E i \in DOMAIN stack : stack[i].room = a /\ stack[i].dirs <= dir

\* The activations are a way from the start, and each but the innermost has left
\* it in its next.
Chained ==
    /\ stack # <<>> /\ stack[Len(stack)].room = start
    /\ \A i \in 1..(Len(stack) - 1) :
         /\ Door(stack[i + 1].room, stack[i].room)
         /\ next[stack[i + 1].room] = stack[i].room

\* What is written with FULL.
Trail ==
    /\ out \in Seq(Rooms) /\ out # <<>> /\ out[1] = start
    /\ \A i \in 1..(Len(out) - 1) : Door(out[i], out[i + 1]) \/ Door(out[i + 1], out[i])

SearchInv ==
    /\ stack \in Seq(SearchFrame)
    /\ visited \subseteq Reachable /\ start \in visited
    /\ StackOnce /\ Chained /\ Searched
    /\ goal \in visited => Head(stack).room = goal
    /\ full => Trail /\ out[Len(out)] = Head(stack).room
    /\ ~full => out = <<>>

\* A way along next that visits no room twice.
Way(way) ==
    /\ way # <<>> /\ way[1] = start /\ way[Len(way)] = goal
    /\ \A i \in 1..(Len(way) - 1) :
         Door(way[i], way[i + 1]) /\ next[way[i]] = way[i + 1]
    /\ \A i, j \in DOMAIN way : way[i] = way[j] => i = j

PruneInv ==
    /\ ~full /\ goal \in Reachable /\ out \in Seq(Rooms)
    /\ \E way \in Seq(Rooms) :
         /\ Way(way) /\ Len(out) < Len(way)
         /\ \A i \in 1..Len(out) : out[i] = way[i]

SolverInv ==
    /\ walls \in [Rooms -> [Direction -> {0, 1}]]
    /\ next \in [Rooms -> Rooms \cup {NoRoom}]
    /\ start \in Rooms /\ goal \in Rooms /\ full \in BOOLEAN
    /\ size \in Sizes \ FileSizes => TreeIn(walls)
    /\ phase = "dfs" => SearchInv
    /\ phase = "print" => PruneInv

MazeInv ==
    /\ phase \in {"none", "walk", "file", "dfs", "print", "found", "no solution"}
    /\ phase # "none" => size \in Sizes \cup FileSizes
    /\ phase = "walk" => WalkInv
    /\ phase = "file" /\ size \in Sizes \ FileSizes => TreeIn(Decoded)
    /\ phase \in {"dfs", "print", "found", "no solution"} => SolverInv
    /\ SolvesMaze
------------------------------------------------------------------------------
(* Rooms and their neighbours *)

\* direction_index tells whether there is a room in a direction.
LEMMA InRange ==
    ASSUME NEW a \in Rooms, NEW dir \in Direction
    PROVE  direction_index(a, dir) <=> get_neighbor(a, dir) \in Rooms
BY DEF direction_index, is_in_range, Rooms, get_neighbor, Direction, NORTH, SOUTH, WEST, EAST

LEMMA Opposite ==
    ASSUME NEW dir \in Direction
    PROVE  /\ get_opposite_dir(dir) \in Direction /\ get_opposite_dir(dir) # dir
           /\ get_opposite_dir(get_opposite_dir(dir)) = dir
BY DEF get_opposite_dir, Direction, NORTH, SOUTH, WEST, EAST

\* The way back leads back, and no two directions lead to the same room.
LEMMA BackAgain ==
    ASSUME NEW x \in Int, NEW y \in Int, NEW a, a = <<x, y>>,
           NEW dir \in Direction
    PROVE  /\ get_neighbor(get_neighbor(a, dir), get_opposite_dir(dir)) = a
           /\ get_neighbor(a, dir) # a
           /\ \A other \in Direction : get_neighbor(a, other) = get_neighbor(a, dir) => other = dir
BY DEF get_neighbor, get_opposite_dir, Direction, NORTH, SOUTH, WEST, EAST

\* The same, of rooms.
LEMMA RoomFacts ==
    ASSUME size \in Nat \X Nat
    PROVE  \A a \in Rooms, dir \in Direction :
             /\ get_neighbor(get_neighbor(a, dir), get_opposite_dir(dir)) = a
             /\ get_neighbor(a, dir) # a
             /\ \A other \in Direction :
                  get_neighbor(a, other) = get_neighbor(a, dir) => other = dir
<1> SUFFICES ASSUME NEW a \in Rooms, NEW dir \in Direction
             PROVE  /\ get_neighbor(get_neighbor(a, dir), get_opposite_dir(dir)) = a
                    /\ get_neighbor(a, dir) # a
                    /\ \A other \in Direction :
                         get_neighbor(a, other) = get_neighbor(a, dir) => other = dir
  OBVIOUS
<1>1. PICK x \in Int, y \in Int : a = <<x, y>>
  BY DEF Rooms
<1> QED
  BY <1>1, BackAgain

------------------------------------------------------------------------------
(* Stacks *)

LEMMA Indices ==
    ASSUME NEW S, NEW s \in Seq(S)
    PROVE  /\ Len(s) \in Nat /\ DOMAIN s = 1..Len(s)
           /\ \A i \in 1..Len(s) : s[i] \in S
           /\ s # <<>> => Len(s) > 0 /\ Head(s) = s[1]
           /\ Len(s) = 0 => s = <<>>
BY EmptySeq, LenProperties, ElementOfSeq

LEMMA Popped ==
    ASSUME NEW S, NEW s \in Seq(S), s # <<>>
    PROVE  /\ Tail(s) \in Seq(S) /\ Len(Tail(s)) = Len(s) - 1
           /\ DOMAIN Tail(s) = 1..(Len(s) - 1)
           /\ \A i \in 1..(Len(s) - 1) : Tail(s)[i] = s[i + 1]
<1>1. /\ Tail(s) \in Seq(S) /\ Len(Tail(s)) = Len(s) - 1
      /\ \A i \in 1..Len(Tail(s)) : Tail(s)[i] = s[i + 1]
  BY HeadTailProperties
<1>2. DOMAIN Tail(s) = 1..Len(Tail(s))
  BY <1>1, LenProperties
<1> QED
  BY <1>1, <1>2

LEMMA Pushed ==
    ASSUME NEW S, NEW s \in Seq(S), NEW e \in S, NEW u, u = <<e>> \o s
    PROVE  /\ u \in Seq(S) /\ Len(u) = Len(s) + 1 /\ DOMAIN u = 1..(Len(s) + 1)
           /\ \A i \in 1..(Len(s) + 1) : u[i] = IF i = 1 THEN e ELSE s[i - 1]
<1>1. PICK c : c = <<e>>
  OBVIOUS
<1>2. c \in Seq(S) /\ Len(c) = 1 /\ c[1] = e
  BY <1>1
<1>3. u = c \o s
  BY <1>1
<1>4. /\ u \in Seq(S) /\ Len(u) = Len(c) + Len(s)
      /\ \A i \in 1..Len(c) + Len(s) : u[i] = IF i <= Len(c) THEN c[i] ELSE s[i - Len(c)]
  BY <1>2, <1>3, ConcatProperties
<1>5. Len(s) \in Nat /\ DOMAIN u = 1..Len(u)
  BY <1>4, LenProperties
<1> QED
  BY <1>2, <1>4, <1>5

\* A loop goes on: the innermost activation is another.
LEMMA Turned ==
    ASSUME NEW S, NEW s \in Seq(S), s # <<>>, NEW e \in S, NEW u, u = <<e>> \o Tail(s)
    PROVE  /\ u \in Seq(S) /\ Len(u) = Len(s) /\ DOMAIN u = 1..Len(s)
           /\ \A i \in 1..Len(s) : u[i] = IF i = 1 THEN e ELSE s[i]
<1>1. PICK z \in Seq(S) : z = Tail(s)
  BY Popped
<1>2. /\ Len(z) = Len(s) - 1 /\ \A i \in 1..(Len(s) - 1) : z[i] = s[i + 1]
      /\ Len(s) \in Nat /\ Len(s) > 0
  BY <1>1, Popped, Indices
<1>3. /\ u \in Seq(S) /\ Len(u) = Len(z) + 1 /\ DOMAIN u = 1..(Len(z) + 1)
      /\ \A i \in 1..(Len(z) + 1) : u[i] = IF i = 1 THEN e ELSE z[i - 1]
  BY <1>1, Pushed
<1>4. ASSUME NEW i \in 1..Len(s), i # 1
      PROVE  u[i] = s[i]
  <2>1. u[i] = z[i - 1] /\ i - 1 \in 1..(Len(s) - 1)
    BY <1>2, <1>3, <1>4
  <2> QED
    BY <1>2, <2>1
<1> QED
  BY <1>2, <1>3, <1>4

\* A loop calls: above what is left of it there is a new activation.
LEMMA Called ==
    ASSUME NEW S, NEW s \in Seq(S), s # <<>>, NEW e \in S, NEW f \in S,
           NEW u, u = <<e>> \o (<<f>> \o Tail(s))
    PROVE  /\ u \in Seq(S) /\ Len(u) = Len(s) + 1 /\ DOMAIN u = 1..(Len(s) + 1)
           /\ u[1] = e /\ u[2] = f /\ \A i \in 3..(Len(s) + 1) : u[i] = s[i - 1]
<1>1. PICK t : t = <<f>> \o Tail(s)
  OBVIOUS
<1>2. /\ t \in Seq(S) /\ Len(t) = Len(s) /\ Len(s) \in Nat
      /\ \A i \in 1..Len(s) : t[i] = IF i = 1 THEN f ELSE s[i]
  BY <1>1, Turned, LenProperties
<1>3. /\ u \in Seq(S) /\ Len(u) = Len(t) + 1 /\ DOMAIN u = 1..(Len(t) + 1)
      /\ \A i \in 1..(Len(t) + 1) : u[i] = IF i = 1 THEN e ELSE t[i - 1]
  <2>1. u = <<e>> \o t
    BY <1>1
  <2> QED
    BY <1>2, <2>1, Pushed
<1>4. ASSUME NEW i \in 3..(Len(s) + 1)
      PROVE  u[i] = s[i - 1]
  <2>1. i - 1 \in 1..Len(s) /\ u[i] = t[i - 1] /\ i - 1 # 1
    BY <1>2, <1>3
  <2> QED
    BY <1>2, <2>1
<1>5. Len(s) > 0
  BY Indices
<1>6. u[1] = e /\ u[2] = t[1] /\ t[1] = f
  BY <1>2, <1>3, <1>5
<1> QED
  BY <1>2, <1>3, <1>4, <1>6

LEMMA Appended ==
    ASSUME NEW S, NEW s \in Seq(S), NEW e \in S, NEW u, u = Append(s, e)
    PROVE  /\ u \in Seq(S) /\ Len(u) = Len(s) + 1
           /\ \A i \in 1..Len(s) : u[i] = s[i]
           /\ u[Len(s) + 1] = e
BY AppendProperties

------------------------------------------------------------------------------
(* The generator *)

LEMMA SizeFacts ==
    ASSUME size \in Sizes \cup FileSizes
    PROVE  size \in Nat \X Nat /\ size[1] \in Nat \ {0} /\ size[2] \in Nat \ {0}
           /\ <<0, 0>> \in Rooms
<1>1. size \in (Nat \ {0}) \X (Nat \ {0})
  BY SizesPositive
<1> QED
  BY <1>1 DEF Rooms

\* Doors are decided between rooms visited.
LEMMA DoorsVisited ==
    ASSUME WalkInv, NEW a \in Rooms, NEW b \in Rooms, Door(a, b)
    PROVE  a \in visited /\ b \in visited
BY DEF WalkInv, WalkDecides, WalkAgrees, Door

\* Deciding one connection.
LEMMA Connected ==
    ASSUME walls \in [Rooms -> [Direction -> {-1, 0, 1}]],
           NEW room \in Rooms, NEW dir \in Direction, NEW c \in {0, 1},
           walls' = [walls EXCEPT ![room][dir] = c]
    PROVE  /\ walls' \in [Rooms -> [Direction -> {-1, 0, 1}]]
           /\ \A a \in Rooms, d \in Direction :
                walls'[a][d] = IF a = room /\ d = dir THEN c ELSE walls[a][d]
OBVIOUS

LEMMA WalkStarts ==
    ASSUME generator_main
    PROVE  WalkInv'
<1>1. /\ size' \in Sizes /\ visited' = {<<0, 0>>}
      /\ walls' = [room \in Rooms' |-> [dir \in Direction |-> -1]]
  BY DEF generator_main
<1>2. <<0, 0>> \in Rooms'
  BY <1>1, SizesPositive DEF Rooms
<1>3. PICK f \in WalkFrame' : f = [room |-> <<0, 0>>, dirs |-> Direction] /\ stack' = <<f>>
  BY <1>2 DEF generator_main, Frame, WalkFrame
<1>4. /\ stack' \in Seq(WalkFrame') /\ DOMAIN stack' = {1} /\ stack'[1] = f
  BY <1>3
<1>5. f.room = <<0, 0>> /\ f.dirs = Direction
  BY <1>3
<1>6. \A a \in Rooms', d \in Direction : walls'[a][d] = -1
  BY <1>1
<1>7. WalkDecides' /\ WalkAgrees'
  <2>1. \A a \in Rooms', d \in Direction :
          a \notin visited' \/ \E i \in DOMAIN stack' : stack'[i].room = a /\ d \in stack'[i].dirs
    BY <1>1, <1>4, <1>5
  <2> QED
    BY <1>6, <2>1 DEF WalkDecides, WalkAgrees, Pending
<1>8. WalkTree'
  <2>1. Passage' = {}
    BY <1>6 DEF Passage, Door
  <2>2. IsFiniteSet(visited') /\ Cardinality(visited') = 1
    BY <1>1, FS_Singleton
  <2>3. IsFiniteSet(Passage') /\ Cardinality(Passage') = 0
    BY <2>1, FS_EmptySet
  <2>4. \A S \in SUBSET visited' : S # {} => S = visited'
    BY <1>1
  <2> QED
    BY <2>2, <2>3, <2>4 DEF WalkTree, SpanningTree, OnePiece
<1>9. StackOnce'
  BY <1>1, <1>4, <1>5 DEF StackOnce
<1>10. walls' \in [Rooms' -> [Direction -> {-1, 0, 1}]]
  BY <1>1
<1> QED
  BY <1>1, <1>2, <1>4, <1>7, <1>8, <1>9, <1>10 DEF WalkInv

LEMMA WalkReturns ==
    ASSUME WalkInv, drunken_walk_return
    PROVE  WalkInv'
<1>1. /\ stack \in Seq(WalkFrame) /\ stack # <<>> /\ Head(stack).dirs = {}
      /\ stack' = Tail(stack)
      /\ UNCHANGED <<phase, size, visited, walls>>
  BY DEF WalkInv, drunken_walk_return
<1>2. /\ Len(stack) \in Nat /\ Len(stack) > 0 /\ DOMAIN stack = 1..Len(stack)
      /\ stack[1].dirs = {}
  BY <1>1, Indices
<1>3. /\ stack' \in Seq(WalkFrame) /\ DOMAIN stack' = 1..(Len(stack) - 1)
      /\ \A i \in 1..(Len(stack) - 1) : stack'[i] = stack[i + 1]
  BY <1>1, Popped
<1>4. Rooms' = Rooms /\ WalkFrame' = WalkFrame /\ Passage' = Passage
  BY <1>1 DEF Rooms, WalkFrame, Passage, Door
<1>5. ASSUME NEW a \in Rooms, NEW d \in Direction
      PROVE  Pending(a, d)' <=> Pending(a, d)
  <2>1. ASSUME NEW i \in DOMAIN stack'
        PROVE  i + 1 \in DOMAIN stack /\ stack'[i] = stack[i + 1]
    BY <1>2, <1>3
  <2>2. ASSUME NEW i \in DOMAIN stack, d \in stack[i].dirs
        PROVE  i - 1 \in DOMAIN stack' /\ stack'[i - 1] = stack[i]
    <3>1. i # 1
      BY <1>2, <2>2
    <3>2. i - 1 \in 1..(Len(stack) - 1) /\ i - 1 + 1 = i
      BY <1>2, <3>1
    <3> QED
      BY <1>3, <3>2
  <2> QED
    BY <2>1, <2>2 DEF Pending
<1>6. StackOnce'
  <2>1. \A i \in DOMAIN stack' : i + 1 \in DOMAIN stack /\ stack'[i] = stack[i + 1]
    BY <1>2, <1>3
  <2>2. \A i, j \in DOMAIN stack' : i + 1 = j + 1 => i = j
    BY <1>3
  <2> QED
    BY <1>1, <2>1, <2>2 DEF WalkInv, StackOnce
<1>7. WalkDecides' /\ WalkAgrees'
  <2>1. WalkDecides /\ WalkAgrees
    BY DEF WalkInv
  <2> QED
    BY <1>1, <1>4, <1>5, <2>1 DEF WalkDecides, WalkAgrees
<1>8. WalkTree'
  <2>1. WalkTree
    BY DEF WalkInv
  <2> QED
    BY <1>1, <1>4, <2>1 DEF WalkTree
<1> QED
  BY <1>1, <1>3, <1>4, <1>6, <1>7, <1>8 DEF WalkInv

\* A connection that is decided without going through it adds no passage.
LEMMA WalkStays ==
    ASSUME WalkInv, stack # <<>>,
           NEW dir \in Head(stack).dirs, NEW c \in {0, 1},
           walls' = [walls EXCEPT ![Head(stack).room][dir] = c],
           stack' = <<Frame(Head(stack).room, Head(stack).dirs \ {dir})>> \o Tail(stack),
           UNCHANGED <<size, visited>>,
           LET neighbor == get_neighbor(Head(stack).room, dir) IN
             \/ neighbor \notin Rooms /\ c = 1
             \/ neighbor \in visited /\ c = seen_connection(Head(stack).room, dir)
    PROVE  WalkInv'
<1> DEFINE room == Head(stack).room
           neighbor == get_neighbor(room, dir)
           back == get_opposite_dir(dir)
<1>1. /\ stack \in Seq(WalkFrame) /\ Len(stack) \in Nat /\ Len(stack) > 0
      /\ DOMAIN stack = 1..Len(stack) /\ stack[1] = Head(stack)
      /\ 1 \in DOMAIN stack /\ stack[1] \in WalkFrame
  BY Indices DEF WalkInv
<1>2. room \in Rooms /\ room \in visited /\ dir \in Direction
  BY <1>1 DEF WalkFrame, WalkInv, StackOnce
<1>3. PICK f \in WalkFrame : f = Frame(room, Head(stack).dirs \ {dir})
  BY <1>1 DEF WalkFrame, Frame
<1>0. f.room = stack[1].room /\ f.dirs = stack[1].dirs \ {dir}
  BY <1>1, <1>3 DEF Frame
<1>4. /\ stack' \in Seq(WalkFrame) /\ DOMAIN stack' = DOMAIN stack
      /\ \A i \in DOMAIN stack : stack'[i] = IF i = 1 THEN f ELSE stack[i]
  <2>1. stack' = <<f>> \o Tail(stack)
    BY <1>3
  <2> HIDE DEF room
  <2>2. PICK V, s, u : V = WalkFrame /\ s = stack /\ u = stack'
    OBVIOUS
  <2>3. f \in V /\ s \in Seq(V) /\ s # <<>> /\ u = <<f>> \o Tail(s)
    BY <1>1, <2>1, <2>2
  <2>4. u \in Seq(V) /\ DOMAIN u = 1..Len(s)
        /\ \A i \in 1..Len(s) : u[i] = IF i = 1 THEN f ELSE s[i]
    BY <2>3, Turned
  <2> QED
    BY <1>1, <2>2, <2>4
<1>5. \A i \in DOMAIN stack : stack'[i].room = stack[i].room
  BY <1>0, <1>4
<1>6. /\ walls' \in [Rooms -> [Direction -> {-1, 0, 1}]]
      /\ \A a \in Rooms, d \in Direction :
           walls'[a][d] = IF a = room /\ d = dir THEN c ELSE walls[a][d]
  <2>1. walls \in [Rooms -> [Direction -> {-1, 0, 1}]]
    BY DEF WalkInv
  <2> QED
    BY <1>2, <2>1, Connected
<1>7. Rooms' = Rooms /\ WalkFrame' = WalkFrame
  BY DEF Rooms, WalkFrame
<1>8. size \in Nat \X Nat /\ back \in Direction /\ get_opposite_dir(back) = dir
  BY <1>2, SizeFacts, Opposite DEF WalkInv
<1>9. walls[room][dir] = -1
  <2>1. Pending(room, dir)
    BY <1>1 DEF Pending
  <2> QED
    BY <1>2, <2>1 DEF WalkInv, WalkDecides
<1>10. StackOnce'
  BY <1>4, <1>5 DEF WalkInv, StackOnce
<1>11. neighbor # room /\ get_neighbor(neighbor, back) = room
  BY <1>2, <1>8, RoomFacts
<1>12. neighbor \in Rooms => walls[neighbor][back] \in {-1, c}
  <2> SUFFICES ASSUME neighbor \in Rooms
               PROVE  walls[neighbor][back] \in {-1, c}
    OBVIOUS
  <2>1. walls[neighbor][back] \in {-1, 0, 1}
    BY <1>8 DEF WalkInv
  <2>2. c = IF walls[neighbor][back] \in {0, 1} THEN walls[neighbor][back] ELSE 1
    BY DEF seen_connection
  <2> QED
    BY <2>1, <2>2
<1>13. ASSUME NEW a \in Rooms, NEW d \in Direction
       PROVE  walls'[a][d] = -1 <=> a \notin visited \/ Pending(a, d)'
  <2>1. walls[a][d] = -1 <=> a \notin visited \/ Pending(a, d)
    BY DEF WalkInv, WalkDecides
  <2>2. CASE a = room /\ d = dir
    <3>1. walls'[a][d] # -1
      BY <1>6, <2>2
    <3>2. ASSUME NEW i \in DOMAIN stack, stack'[i].room = a
          PROVE  dir \notin stack'[i].dirs
      <4>1. i = 1
        BY <1>1, <1>5, <2>2, <3>2 DEF WalkInv, StackOnce
      <4> QED
        BY <1>0, <1>1, <1>4, <4>1
    <3> QED
      BY <1>2, <1>4, <2>2, <3>1, <3>2 DEF Pending
  <2>3. CASE ~(a = room /\ d = dir)
    <3>1. walls'[a][d] = walls[a][d]
      BY <1>6, <2>3
    <3>2. ASSUME NEW i \in DOMAIN stack, stack[i].room = a
          PROVE  d \in stack'[i].dirs <=> d \in stack[i].dirs
      <4>1. CASE i = 1
        <5>1. d # dir /\ stack'[i] = f
          BY <1>1, <1>4, <2>3, <3>2, <4>1
        <5> QED
          BY <1>0, <4>1, <5>1
      <4>2. CASE i # 1
        BY <1>4, <4>2
      <4> QED
        BY <4>1, <4>2
    <3> QED
      BY <1>4, <1>5, <2>1, <3>1, <3>2 DEF Pending
  <2> QED
    BY <2>2, <2>3
<1>14. ASSUME NEW a \in Rooms, NEW d \in Direction, walls'[a][d] # -1
       PROVE  IF get_neighbor(a, d) \in Rooms
              THEN /\ get_neighbor(a, d) \in visited
                   /\ walls'[get_neighbor(a, d)][get_opposite_dir(d)] \in {-1, walls'[a][d]}
              ELSE walls'[a][d] = 1
  <2>1. CASE a = room /\ d = dir
    <3>1. walls'[a][d] = c
      BY <1>2, <1>6, <2>1
    <3>2. CASE neighbor \in Rooms
      <4>1. walls'[neighbor][back] = walls[neighbor][back]
        BY <1>6, <1>8, <1>11, <3>2
      <4>2. neighbor \in visited
        BY <3>2
      <4> QED
        BY <1>12, <2>1, <3>1, <3>2, <4>1, <4>2
    <3>3. CASE neighbor \notin Rooms
      <4>1. c = 1
        BY <3>3 DEF WalkInv
      <4> QED
        BY <2>1, <3>1, <3>3, <4>1
    <3> QED
      BY <3>2, <3>3
  <2>2. CASE ~(a = room /\ d = dir)
    <3>1. walls'[a][d] = walls[a][d]
      BY <1>6, <2>2
    <3>2. IF get_neighbor(a, d) \in Rooms
          THEN /\ get_neighbor(a, d) \in visited
               /\ walls[get_neighbor(a, d)][get_opposite_dir(d)] \in {-1, walls[a][d]}
          ELSE walls[a][d] = 1
      BY <1>14, <3>1 DEF WalkInv, WalkAgrees
    <3>3. get_opposite_dir(d) \in Direction
      BY Opposite
    <3>4. CASE get_neighbor(a, d) = room /\ get_opposite_dir(d) = dir
      <4>1. a = neighbor /\ d = back
        BY <1>8, <3>4, Opposite, RoomFacts
      <4>2. walls[a][d] = c
        BY <1>12, <1>14, <3>1, <4>1
      <4>3. walls'[room][dir] = c
        BY <1>2, <1>6
      <4> QED
        BY <1>2, <3>1, <3>4, <4>2, <4>3
    <3>5. CASE ~(get_neighbor(a, d) = room /\ get_opposite_dir(d) = dir)
      BY <1>6, <3>1, <3>2, <3>3, <3>5
    <3> QED
      BY <3>4, <3>5
  <2> QED
    BY <2>1, <2>2
<1>15. WalkDecides' /\ WalkAgrees'
  BY <1>7, <1>13, <1>14 DEF WalkDecides, WalkAgrees
<1>16. Passage' = Passage
  <2>1. ASSUME NEW a \in Rooms, NEW b \in Rooms, Door(a, b)
        PROVE  Door(a, b)'
    BY <1>6, <1>9, <2>1 DEF Door
  <2>2. ASSUME NEW a \in Rooms, NEW b \in Rooms, Door(a, b)'
        PROVE  Door(a, b) \/ Door(b, a)
    <3>1. PICK d \in Direction : get_neighbor(a, d) = b /\ walls'[a][d] = 0
      BY <2>2 DEF Door
    <3>2. CASE a = room /\ d = dir
      <4>1. walls[b][back] = 0
        <5>1. c = 0 /\ b = neighbor
          BY <1>6, <3>1, <3>2
        <5>2. walls[b][back] \in {-1, 0, 1}
          BY <1>8 DEF WalkInv
        <5>3. c = IF walls[b][back] \in {0, 1} THEN walls[b][back] ELSE 1
          BY <5>1 DEF seen_connection
        <5> QED
          BY <5>1, <5>2, <5>3
      <4> QED
        BY <1>8, <1>11, <3>1, <3>2, <4>1 DEF Door
    <3>3. CASE ~(a = room /\ d = dir)
      BY <1>6, <3>1, <3>3 DEF Door
    <3> QED
      BY <3>2, <3>3
  <2>3. \A e \in Rooms \X Rooms : Door(e[1], e[2])' \/ Door(e[2], e[1])'
                                  <=> Door(e[1], e[2]) \/ Door(e[2], e[1])
    BY <2>1, <2>2
  <2> QED
    BY <1>7, <2>3 DEF Passage
<1>17. WalkTree'
  <2>1. WalkTree
    BY DEF WalkInv
  <2> QED
    BY <1>16, <2>1 DEF WalkTree
<1> QED
  BY <1>4, <1>6, <1>7, <1>10, <1>15, <1>17 DEF WalkInv

LEMMA TwoMore ==
    ASSUME NEW S, IsFiniteSet(S), NEW x, NEW y, x \notin S, y \notin S, x # y
    PROVE  IsFiniteSet(S \cup {x, y}) /\ Cardinality(S \cup {x, y}) = Cardinality(S) + 2
<1>1. PICK R : R = S \cup {x}
  OBVIOUS
<1>2. IsFiniteSet(R) /\ Cardinality(R) = Cardinality(S) + 1 /\ Cardinality(S) \in Nat
  BY <1>1, FS_AddElement, FS_CardinalityType
<1>3. y \notin R /\ S \cup {x, y} = R \cup {y}
  BY <1>1
<1>4. IsFiniteSet(R \cup {y}) /\ Cardinality(R \cup {y}) = Cardinality(R) + 1
  BY <1>2, <1>3, FS_AddElement
<1> QED
  BY <1>2, <1>3, <1>4

\* Passages to a room that none of them led to make the tree one room larger.
LEMMA TreeGrows ==
    ASSUME NEW V, NEW P \in SUBSET (V \X V), NEW a \in V, NEW n, n \notin V,
           SpanningTree(V, P), NEW W, W = V \cup {n},
           NEW x, x = <<a, n>>, NEW y, y = <<n, a>>, NEW Q, Q = P \cup {x, y}
    PROVE  SpanningTree(W, Q)
<1>0. /\ IsFiniteSet(V) /\ IsFiniteSet(P) /\ OnePiece(V, P)
      /\ Cardinality(P) = 2 * (Cardinality(V) - 1)
  BY DEF SpanningTree
<1>1. IsFiniteSet(W) /\ Cardinality(W) = Cardinality(V) + 1 /\ Cardinality(V) \in Nat
  BY <1>0, FS_AddElement, FS_CardinalityType
<1>2. x \notin P /\ y \notin P /\ x # y
  OBVIOUS
<1>3. IsFiniteSet(Q) /\ Cardinality(Q) = Cardinality(P) + 2
  BY <1>0, <1>2, TwoMore
<1>5. Cardinality(Q) = 2 * (Cardinality(W) - 1)
  BY <1>0, <1>1, <1>3
<1>6. ASSUME NEW S \in SUBSET W, S # {}, \A b \in S, c \in W : <<b, c>> \in Q => c \in S
      PROVE  S = W
  <2>1. \A b \in S \cap V, c \in V : <<b, c>> \in P => c \in S \cap V
    BY <1>6
  <2>2. (a \in S => n \in S) /\ (n \in S => a \in S)
    <3>1. <<a, n>> \in Q /\ <<n, a>> \in Q /\ a \in W /\ n \in W
      OBVIOUS
    <3> QED
      BY <1>6, <3>1
  <2>3. S \cap V # {}
    BY <1>6, <2>2
  <2>4. S \cap V = V
    BY <1>0, <2>1, <2>3 DEF OnePiece
  <2> QED
    BY <1>6, <2>2, <2>4
<1>7. OnePiece(W, Q)
  BY <1>6 DEF OnePiece
<1> QED
  BY <1>1, <1>3, <1>5, <1>7 DEF SpanningTree

\* Walking into a room makes the tree one room and one passage larger.
LEMMA WalkEnters ==
    ASSUME WalkInv, stack # <<>>, NEW dir \in Head(stack).dirs,
           get_neighbor(Head(stack).room, dir) \in Rooms \ visited,
           walls' = [walls EXCEPT ![Head(stack).room][dir] = 0],
           visited' = visited \cup {get_neighbor(Head(stack).room, dir)},
           stack' \in Seq(WalkFrame), DOMAIN stack' = 1..(Len(stack) + 1),
           stack'[1] = Frame(get_neighbor(Head(stack).room, dir), Direction),
           stack'[2] = Frame(Head(stack).room, Head(stack).dirs \ {dir}),
           \A i \in 3..(Len(stack) + 1) : stack'[i] = stack[i - 1],
           UNCHANGED size
    PROVE  WalkInv'
<1> DEFINE room == Head(stack).room
           neighbor == get_neighbor(room, dir)
           back == get_opposite_dir(dir)
<1>1. /\ stack \in Seq(WalkFrame) /\ Len(stack) \in Nat /\ Len(stack) > 0
      /\ DOMAIN stack = 1..Len(stack) /\ stack[1] = Head(stack)
      /\ 1 \in DOMAIN stack /\ stack[1] \in WalkFrame
  BY Indices DEF WalkInv
<1>2. /\ room \in Rooms /\ room \in visited /\ dir \in Direction
      /\ neighbor \in Rooms /\ neighbor \notin visited /\ visited' = visited \cup {neighbor}
  BY <1>1 DEF WalkFrame, WalkInv, StackOnce
<1>3. PICK f : f = Frame(room, Head(stack).dirs \ {dir})
  OBVIOUS
<1>4. f.room = stack[1].room /\ f.dirs = stack[1].dirs \ {dir}
  BY <1>1, <1>3 DEF Frame
<1>5. PICK g : g = Frame(neighbor, Direction)
  OBVIOUS
<1>6. g.room = neighbor /\ g.dirs = Direction
  BY <1>5 DEF Frame
<1>7. /\ stack'[1] = g /\ stack'[2] = f
      /\ \A i \in 3..(Len(stack) + 1) : stack'[i] = stack[i - 1]
  BY <1>3, <1>5
<1>8. /\ stack'[1].room = neighbor /\ stack'[1].dirs = Direction /\ 1 \in DOMAIN stack'
      /\ \A i \in DOMAIN stack : /\ i + 1 \in DOMAIN stack'
                                 /\ stack'[i + 1].room = stack[i].room
      /\ \A i \in DOMAIN stack' : i = 1 \/ (i - 1 \in DOMAIN stack /\ i - 1 + 1 = i)
  <2>1. 1 \in 1..(Len(stack) + 1) /\ stack'[1] = g
    BY <1>1, <1>7
  <2>2. ASSUME NEW i \in DOMAIN stack
        PROVE  /\ i + 1 \in DOMAIN stack'
               /\ stack'[i + 1].room = stack[i].room
    <3>1. i + 1 \in 1..(Len(stack) + 1) /\ i + 1 - 1 = i /\ (i # 1 => i + 1 \in 3..(Len(stack) + 1))
      BY <1>1
    <3>2. CASE i = 1
      <4>1. i + 1 = 2
        BY <3>2
      <4> QED
        BY <1>4, <1>7, <3>1, <3>2, <4>1
    <3>3. CASE i # 1
      <4>1. stack'[i + 1] = stack[i]
        BY <1>7, <3>1, <3>3
      <4> QED
        BY <3>1, <4>1
    <3> QED
      BY <3>2, <3>3
  <2>3. \A i \in DOMAIN stack' : i = 1 \/ (i - 1 \in DOMAIN stack /\ i - 1 + 1 = i)
    BY <1>1, <1>7
  <2> QED
    BY <1>6, <1>7, <2>1, <2>2, <2>3
<1>9. stack'[2].dirs = stack[1].dirs \ {dir}
      /\ \A i \in DOMAIN stack : i # 1 => stack'[i + 1] = stack[i]
  <2>1. 2 \in 1..(Len(stack) + 1) /\ stack'[2] = f
    BY <1>1, <1>7
  <2>2. ASSUME NEW i \in DOMAIN stack, i # 1
        PROVE  stack'[i + 1] = stack[i]
    <3>1. i + 1 \in 3..(Len(stack) + 1) /\ i + 1 - 1 = i
      BY <1>1, <2>2
    <3> QED
      BY <1>7, <3>1
  <2> QED
    BY <1>4, <2>1, <2>2
<1>10. /\ walls' \in [Rooms -> [Direction -> {-1, 0, 1}]]
       /\ \A a \in Rooms, d \in Direction :
            walls'[a][d] = IF a = room /\ d = dir THEN 0 ELSE walls[a][d]
  <2>1. walls \in [Rooms -> [Direction -> {-1, 0, 1}]]
    BY DEF WalkInv
  <2> QED
    BY <1>2, <2>1, Connected
<1>11. Rooms' = Rooms /\ WalkFrame' = WalkFrame
  BY DEF Rooms, WalkFrame
<1>12. size \in Nat \X Nat /\ back \in Direction /\ get_opposite_dir(back) = dir
  BY <1>2, SizeFacts, Opposite DEF WalkInv
<1>13. /\ walls[room][dir] = -1
       /\ \A d \in Direction : walls[neighbor][d] = -1
  <2>1. Pending(room, dir)
    BY <1>1 DEF Pending
  <2> QED
    BY <1>2, <2>1 DEF WalkInv, WalkDecides
<1>14. neighbor # room /\ get_neighbor(neighbor, back) = room
  BY <1>2, <1>12, RoomFacts
<1>15. StackOnce'
  <2>1. \A i \in DOMAIN stack' :
          \/ i = 1 /\ stack'[i].room = neighbor
          \/ /\ i - 1 \in DOMAIN stack /\ i # 1
             /\ stack'[i].room = stack[i - 1].room /\ stack'[i].room \in visited
    <3> SUFFICES ASSUME NEW i \in DOMAIN stack', i # 1
                 PROVE  /\ i - 1 \in DOMAIN stack
                        /\ stack'[i].room = stack[i - 1].room
                        /\ stack'[i].room \in visited
      BY <1>8
    <3>1. i - 1 \in DOMAIN stack /\ i - 1 + 1 = i
      BY <1>8
    <3>2. stack'[i - 1 + 1].room = stack[i - 1].room
      BY <1>8, <3>1
    <3> QED
      BY <3>1, <3>2 DEF WalkInv, StackOnce
  <2>2. \A i, j \in DOMAIN stack : stack[i].room = stack[j].room => i = j
    BY DEF WalkInv, StackOnce
  <2>3. ASSUME NEW i \in DOMAIN stack', NEW j \in DOMAIN stack',
               stack'[i].room = stack'[j].room
        PROVE  i = j
    <3>1. i \in Int /\ j \in Int
      BY <1>7
    <3>2. CASE i = 1
      <4>1. j = 1
        BY <1>2, <2>1, <2>3, <3>2
      <4> QED
        BY <3>2, <4>1
    <3>3. CASE j = 1
      <4>1. i = 1
        BY <1>2, <2>1, <2>3, <3>3
      <4> QED
        BY <3>3, <4>1
    <3>4. CASE i # 1 /\ j # 1
      <4>1. /\ i - 1 \in DOMAIN stack /\ stack'[i].room = stack[i - 1].room
            /\ j - 1 \in DOMAIN stack /\ stack'[j].room = stack[j - 1].room
        BY <2>1, <3>4
      <4>2. i - 1 = j - 1
        BY <2>2, <2>3, <4>1
      <4> QED
        BY <3>1, <4>2
    <3> QED
      BY <3>2, <3>3, <3>4
  <2>4. \A i \in DOMAIN stack' : stack'[i].room \in visited'
    BY <1>2, <2>1
  <2> QED
    BY <2>3, <2>4 DEF StackOnce
<1>16. ASSUME NEW a \in Rooms, NEW d \in Direction
       PROVE  walls'[a][d] = -1 <=> a \notin visited' \/ Pending(a, d)'
  <2>1. walls[a][d] = -1 <=> a \notin visited \/ Pending(a, d)
    BY DEF WalkInv, WalkDecides
  <2>2. CASE a = neighbor
    <3>1. walls'[a][d] = -1
      BY <1>10, <1>13, <1>14, <2>2
    <3>2. Pending(a, d)'
      BY <1>8, <2>2 DEF Pending
    <3> QED
      BY <3>1, <3>2
  <2>3. CASE a = room /\ d = dir
    <3>1. walls'[a][d] # -1
      BY <1>10, <2>3
    <3>2. ASSUME NEW i \in DOMAIN stack', stack'[i].room = a
          PROVE  dir \notin stack'[i].dirs
      <4>1. i # 1
        BY <1>8, <1>14, <2>3, <3>2
      <4>2. i - 1 \in DOMAIN stack /\ i - 1 + 1 = i
        BY <1>8, <4>1
      <4>3. stack[i - 1].room = stack[1].room
        BY <1>1, <1>8, <2>3, <3>2, <4>2
      <4>4. i - 1 = 1
        BY <1>1, <4>2, <4>3 DEF WalkInv, StackOnce
      <4>5. i = 2
        BY <4>2, <4>4
      <4> QED
        BY <1>9, <4>5
    <3> QED
      BY <1>2, <2>3, <3>1, <3>2 DEF Pending
  <2>4. CASE a # neighbor /\ ~(a = room /\ d = dir)
    <3>1. walls'[a][d] = walls[a][d]
      BY <1>10, <2>4
    <3>2. ASSUME NEW i \in DOMAIN stack, stack[i].room = a
          PROVE  d \in stack'[i + 1].dirs <=> d \in stack[i].dirs
      <4>1. CASE i = 1
        <5>1. d # dir /\ i + 1 = 2
          BY <1>1, <2>4, <3>2, <4>1
        <5> QED
          BY <1>9, <4>1, <5>1
      <4>2. CASE i # 1
        BY <1>9, <4>2
      <4> QED
        BY <4>1, <4>2
    <3>3. Pending(a, d) => Pending(a, d)'
      <4> SUFFICES ASSUME NEW i \in DOMAIN stack, stack[i].room = a, d \in stack[i].dirs
                   PROVE  Pending(a, d)'
        BY DEF Pending
      <4>1. i + 1 \in DOMAIN stack' /\ stack'[i + 1].room = a /\ d \in stack'[i + 1].dirs
        BY <1>8, <3>2
      <4> QED
        BY <4>1 DEF Pending
    <3>4. ASSUME NEW i \in DOMAIN stack', stack'[i].room = a, d \in stack'[i].dirs
          PROVE  Pending(a, d)
      <4>1. i # 1
        BY <1>8, <2>4, <3>4
      <4>2. i - 1 \in DOMAIN stack /\ i - 1 + 1 = i
        BY <1>8, <4>1
      <4>3. stack[i - 1].room = a
        BY <1>8, <3>4, <4>2
      <4>4. d \in stack[i - 1].dirs
        BY <3>2, <3>4, <4>2, <4>3
      <4> QED
        BY <4>2, <4>3, <4>4 DEF Pending
    <3>5. Pending(a, d)' => Pending(a, d)
      BY <3>4 DEF Pending
    <3> QED
      BY <1>2, <2>1, <2>4, <3>1, <3>3, <3>5
  <2> QED
    BY <2>2, <2>3, <2>4
<1>17. ASSUME NEW a \in Rooms, NEW d \in Direction, walls'[a][d] # -1
       PROVE  IF get_neighbor(a, d) \in Rooms
              THEN /\ get_neighbor(a, d) \in visited'
                   /\ walls'[get_neighbor(a, d)][get_opposite_dir(d)] \in {-1, walls'[a][d]}
              ELSE walls'[a][d] = 1
  <2>1. CASE a = room /\ d = dir
    <3>1. walls'[neighbor][back] = -1
      BY <1>2, <1>10, <1>12, <1>13, <1>14
    <3> QED
      BY <1>2, <2>1, <3>1
  <2>2. CASE ~(a = room /\ d = dir)
    <3>1. walls'[a][d] = walls[a][d]
      BY <1>10, <2>2
    <3>2. IF get_neighbor(a, d) \in Rooms
          THEN /\ get_neighbor(a, d) \in visited
               /\ walls[get_neighbor(a, d)][get_opposite_dir(d)] \in {-1, walls[a][d]}
          ELSE walls[a][d] = 1
      BY <1>17, <3>1 DEF WalkInv, WalkAgrees
    <3>3. get_opposite_dir(d) \in Direction
      BY Opposite
    <3>4. ~(get_neighbor(a, d) = room /\ get_opposite_dir(d) = dir)
      <4> SUFFICES ASSUME get_neighbor(a, d) = room, get_opposite_dir(d) = dir
                   PROVE  FALSE
        OBVIOUS
      <4>1. a = neighbor
        BY <1>12, Opposite, RoomFacts
      <4> QED
        BY <1>13, <1>17, <3>1, <4>1
    <3> QED
      BY <1>2, <1>10, <3>1, <3>2, <3>3, <3>4
  <2> QED
    BY <2>1, <2>2
<1>18. WalkDecides' /\ WalkAgrees'
  BY <1>11, <1>16, <1>17 DEF WalkDecides, WalkAgrees
<1>19. Passage' = Passage \cup {<<room, neighbor>>, <<neighbor, room>>}
  <2>1. \A a \in Rooms, b \in Rooms : Door(a, b)' <=> Door(a, b) \/ (a = room /\ b = neighbor)
    BY <1>2, <1>10, <1>13 DEF Door
  <2>2. \A e \in Rooms \X Rooms :
          Door(e[1], e[2])' \/ Door(e[2], e[1])'
          <=> \/ Door(e[1], e[2]) \/ Door(e[2], e[1])
              \/ e = <<room, neighbor>> \/ e = <<neighbor, room>>
    <3> SUFFICES ASSUME NEW a \in Rooms, NEW b \in Rooms
                 PROVE  Door(a, b)' \/ Door(b, a)'
                        <=> \/ Door(a, b) \/ Door(b, a)
                            \/ <<a, b>> = <<room, neighbor>> \/ <<a, b>> = <<neighbor, room>>
      OBVIOUS
    <3> QED
      BY <2>1
  <2>3. <<room, neighbor>> \in Rooms \X Rooms /\ <<neighbor, room>> \in Rooms \X Rooms
    BY <1>2
  <2> QED
    BY <1>11, <2>2, <2>3 DEF Passage
<1>20. WalkTree'
  <2>1. Passage \in SUBSET (visited \X visited)
    BY DoorsVisited DEF Passage
  <2>2. PICK P, Q, V, W, r, n, x, y : /\ P = Passage /\ Q = Passage' /\ V = visited /\ W = visited'
                                /\ r = room /\ n = neighbor /\ x = <<r, n>> /\ y = <<n, r>>
    OBVIOUS
  <2>5. /\ P \in SUBSET (V \X V) /\ r \in V /\ n \notin V
        /\ W = V \cup {n} /\ Q = P \cup {x, y}
        /\ x = <<r, n>> /\ y = <<n, r>>
    BY <1>2, <1>19, <2>1, <2>2
  <2>3. SpanningTree(V, P)
    BY <2>2 DEF WalkInv, WalkTree
  <2>4. SpanningTree(W, Q)
    BY <2>3, <2>5, TreeGrows
  <2> QED
    BY <2>2, <2>4 DEF WalkTree
<1>21. visited' \subseteq Rooms /\ <<0, 0>> \in visited' /\ size \in Sizes
  BY <1>2 DEF WalkInv
<1> QED
  BY <1>7, <1>10, <1>11, <1>15, <1>18, <1>20, <1>21 DEF WalkInv

LEMMA WalkRounds ==
    ASSUME WalkInv, drunken_walk
    PROVE  WalkInv'
<1>1. stack # <<>> /\ size' = size
  BY DEF drunken_walk
<1>2. PICK dir \in Head(stack).dirs :
        LET room == Head(stack).room
            neighbor == get_neighbor(room, dir)
            rest == <<Frame(room, Head(stack).dirs \ {dir})>> \o Tail(stack)
            connect(c) == walls' = [walls EXCEPT ![room][dir] = c]
        IN
        \/ /\ ~direction_index(room, dir)
           /\ connect(1)
           /\ stack' = rest
           /\ UNCHANGED visited
        \/ /\ direction_index(room, dir) /\ neighbor \notin visited
           /\ connect(0)
           /\ visited' = visited \cup {neighbor}
           /\ stack' = <<Frame(neighbor, Direction)>> \o rest
        \/ /\ direction_index(room, dir) /\ neighbor \in visited
           /\ connect(seen_connection(room, dir))
           /\ stack' = rest
           /\ UNCHANGED visited
  BY DEF drunken_walk
<1>3. /\ stack \in Seq(WalkFrame) /\ 1 \in DOMAIN stack /\ stack[1] = Head(stack)
      /\ stack[1] \in WalkFrame
  <2>1. Len(stack) \in Nat /\ Len(stack) > 0
    BY <1>1, Indices DEF WalkInv
  <2> QED
    BY <1>1, <2>1, Indices DEF WalkInv
<1>4. Head(stack).room \in Rooms /\ dir \in Direction
  BY <1>3 DEF WalkFrame
<1>5. direction_index(Head(stack).room, dir) <=> get_neighbor(Head(stack).room, dir) \in Rooms
  BY <1>4, InRange
<1>6. seen_connection(Head(stack).room, dir) \in {0, 1}
  BY DEF seen_connection
<1>7. CASE get_neighbor(Head(stack).room, dir) \in Rooms \ visited
  <2>1. /\ walls' = [walls EXCEPT ![Head(stack).room][dir] = 0]
        /\ visited' = visited \cup {get_neighbor(Head(stack).room, dir)}
        /\ stack' = <<Frame(get_neighbor(Head(stack).room, dir), Direction)>> \o
                      (<<Frame(Head(stack).room, Head(stack).dirs \ {dir})>> \o Tail(stack))
    BY <1>2, <1>5, <1>7
  <2>2. /\ Frame(get_neighbor(Head(stack).room, dir), Direction) \in WalkFrame
        /\ Frame(Head(stack).room, Head(stack).dirs \ {dir}) \in WalkFrame
    BY <1>3, <1>7 DEF Frame, WalkFrame
  <2>3. /\ stack' \in Seq(WalkFrame) /\ DOMAIN stack' = 1..(Len(stack) + 1)
        /\ stack'[1] = Frame(get_neighbor(Head(stack).room, dir), Direction)
        /\ stack'[2] = Frame(Head(stack).room, Head(stack).dirs \ {dir})
        /\ \A i \in 3..(Len(stack) + 1) : stack'[i] = stack[i - 1]
    <3>1. PICK V, s, e, f, u :
            /\ V = WalkFrame /\ s = stack /\ u = stack'
            /\ e = Frame(get_neighbor(Head(stack).room, dir), Direction)
            /\ f = Frame(Head(stack).room, Head(stack).dirs \ {dir})
      OBVIOUS
    <3>2. s \in Seq(V) /\ s # <<>> /\ e \in V /\ f \in V
      BY <1>1, <1>3, <2>2, <3>1
    <3>4. u = <<e>> \o (<<f>> \o Tail(s))
      BY <2>1, <3>1
    <3>3. /\ u \in Seq(V) /\ DOMAIN u = 1..(Len(s) + 1)
          /\ u[1] = e /\ u[2] = f /\ \A i \in 3..(Len(s) + 1) : u[i] = s[i - 1]
      BY <3>2, <3>4, Called
    <3> QED
      BY <3>1, <3>3
  <2> QED
    BY <1>1, <1>7, <2>1, <2>3, WalkEnters
<1>8. CASE get_neighbor(Head(stack).room, dir) \notin Rooms
  BY <1>1, <1>2, <1>5, <1>8, WalkStays
<1>9. CASE get_neighbor(Head(stack).room, dir) \in Rooms \cap visited
  BY <1>1, <1>2, <1>5, <1>6, <1>9, WalkStays
<1> QED
  BY <1>7, <1>8, <1>9

\* A set of natural numbers has a least element.
LEMMA LeastOf ==
    ASSUME NEW places \in SUBSET Nat, places # {}
    PROVE  \E i \in places : \A j \in places : i <= j
<1> DEFINE R == OpToRel(<, Nat)
<1>1. IsWellFoundedOn(R, Nat)
  BY NatLessThanWellFounded
<1>2. \A i, j \in Nat : <<j, i>> \in R <=> j < i
  BY DEF OpToRel
<1> HIDE DEF R
<1>3. PICK i \in places : \A j \in places : ~(<<j, i>> \in R)
  BY <1>1, WFMin
<1>4. ASSUME NEW j \in places
      PROVE  i <= j
  <2>1. ~(<<j, i>> \in R) /\ i \in Nat /\ j \in Nat
    BY <1>3
  <2>2. ~(j < i)
    BY <2>1, <1>2, Zenon
  <2> QED
    BY <2>1, <2>2
<1> QED
  BY <1>4

\* When the walk is over it has visited every room and decided every connection:
\* of the rooms it has not visited, the one nearest to the corner would lie beside
\* one that has decided its connections.
LEMMA WalkIsOver ==
    ASSUME WalkInv, stack = <<>>
    PROVE  visited = Rooms /\ \A a \in Rooms, dir \in Direction : walls[a][dir] \in {0, 1}
<1>1. \A a \in visited, dir \in Direction : walls[a][dir] # -1
  <2>1. DOMAIN stack = {}
    OBVIOUS
  <2> QED
    BY <2>1 DEF WalkInv, WalkDecides, Pending
<1>2. size[1] \in Nat /\ size[2] \in Nat /\ visited \subseteq Rooms /\ <<0, 0>> \in visited
  BY SizeFacts DEF WalkInv
<1>3. \A a \in visited, dir \in Direction :
        get_neighbor(a, dir) \in Rooms => get_neighbor(a, dir) \in visited
  BY <1>1, <1>2 DEF WalkInv, WalkAgrees
<1>4. visited = Rooms
  <2> DEFINE bad == {n \in Nat : \E x, y \in Nat : n = x + y /\ <<x, y>> \in Rooms \ visited}
  <2> SUFFICES ASSUME visited # Rooms PROVE FALSE
    OBVIOUS
  <2>1. bad # {}
    <3>0. PICK a \in Rooms : a \notin visited
      BY <1>2
    <3>1. PICK x \in 0..(size[1] - 1), y \in 0..(size[2] - 1) : <<x, y>> \in Rooms \ visited
      BY <3>0 DEF Rooms
    <3>2. x \in Nat /\ y \in Nat /\ x + y \in Nat
      BY <1>2
    <3>3. x + y \in bad
      BY <3>1, <3>2
    <3> QED
      BY <3>3
  <2>2. PICK n \in bad : \A m \in bad : n <= m
    <3>1. bad \in SUBSET Nat
      OBVIOUS
    <3> HIDE DEF bad
    <3> QED
      BY <2>1, <3>1, LeastOf
  <2>3. PICK x \in Nat, y \in Nat : n = x + y /\ <<x, y>> \in Rooms \ visited
    OBVIOUS
  <2>4. x \in 0..(size[1] - 1) /\ y \in 0..(size[2] - 1)
    BY <2>3 DEF Rooms
  <2>5. CASE x > 0
    <3>1. x - 1 \in Nat /\ <<x - 1, y>> \in Rooms /\ x - 1 + y \in Nat /\ ~(n <= x - 1 + y)
      BY <1>2, <2>3, <2>4, <2>5 DEF Rooms
    <3>2. <<x - 1, y>> \in visited
      BY <2>2, <3>1
    <3>3. get_neighbor(<<x - 1, y>>, SOUTH) = <<x, y>> /\ SOUTH \in Direction
      BY <3>1 DEF get_neighbor, Direction, NORTH, SOUTH, WEST, EAST
    <3> QED
      BY <1>3, <2>3, <3>2, <3>3
  <2>6. CASE y > 0
    <3>1. y - 1 \in Nat /\ <<x, y - 1>> \in Rooms /\ x + (y - 1) \in Nat /\ ~(n <= x + (y - 1))
      BY <1>2, <2>3, <2>4, <2>6 DEF Rooms
    <3>2. <<x, y - 1>> \in visited
      BY <2>2, <3>1
    <3>3. get_neighbor(<<x, y - 1>>, EAST) = <<x, y>> /\ EAST \in Direction
      BY <3>1 DEF get_neighbor, Direction, NORTH, SOUTH, WEST, EAST
    <3> QED
      BY <1>3, <2>3, <3>2, <3>3
  <2> QED
    BY <1>2, <2>3, <2>5, <2>6
<1>5. \A a \in Rooms, dir \in Direction : walls[a][dir] \in {-1, 0, 1}
  BY DEF WalkInv
<1> QED
  BY <1>1, <1>4, <1>5

\* What it has decided then is a maze without loops.
LEMMA WalkMakesTree ==
    ASSUME WalkInv, stack = <<>>
    PROVE  TreeIn(walls)
<1>1. visited = Rooms /\ \A a \in Rooms, dir \in Direction : walls[a][dir] \in {0, 1}
  BY WalkIsOver
<1>2. size \in Nat \X Nat
  BY SizeFacts DEF WalkInv
<1>3. ASSUME NEW a \in Rooms, NEW b \in Rooms, Door(a, b)
      PROVE  Door(b, a)
  <2>1. PICK dir \in Direction : get_neighbor(a, dir) = b /\ walls[a][dir] = 0
    BY <1>3 DEF Door
  <2>2. get_opposite_dir(dir) \in Direction /\ get_neighbor(b, get_opposite_dir(dir)) = a
    BY <1>2, <2>1, Opposite, RoomFacts
  <2>3. walls[b][get_opposite_dir(dir)] \in {-1, 0}
    BY <2>1 DEF WalkInv, WalkAgrees
  <2>4. walls[b][get_opposite_dir(dir)] = 0
    BY <1>1, <2>2, <2>3
  <2> QED
    BY <2>2, <2>4 DEF Door
<1>4. ASSUME NEW a \in Rooms, NEW dir \in Direction, ~direction_index(a, dir)
      PROVE  walls[a][dir] = 1
  <2>1. get_neighbor(a, dir) \notin Rooms /\ walls[a][dir] # -1
    BY <1>1, <1>4, InRange
  <2> QED
    BY <2>1 DEF WalkInv, WalkAgrees
<1>5. Passage = {d \in Rooms \X Rooms : Door(d[1], d[2])}
  BY <1>3 DEF Passage
<1>6. \A a, b : DoorIn(walls, a, b) <=> Door(a, b)
  BY DEF DoorIn, Door
<1>7. Passage = {d \in Rooms \X Rooms : DoorIn(walls, d[1], d[2])}
  BY <1>5, <1>6
<1>8. SpanningTree(Rooms, Passage)
  BY <1>1 DEF WalkInv, WalkTree
<1> QED
  BY <1>3, <1>4, <1>6, <1>7, <1>8 DEF TreeIn

\* The weights that the solver takes off a digit, and the connections they make.
Weights(hex, n, s, w, e) ==
    /\ e = IF hex >= 8 THEN 1 ELSE 0
    /\ w = IF hex - 8 * e >= 4 THEN 1 ELSE 0
    /\ s = IF hex - 8 * e - 4 * w >= 2 THEN 1 ELSE 0
    /\ n = IF hex - 8 * e - 4 * w - 2 * s = 1 THEN 1 ELSE 0
Connections(n, s, w, e) == [dir \in Direction |-> <<n, s, w, e>>[dir + 1]]

LEMMA Weighed ==
    ASSUME NEW hex
    PROVE  \E n, s, w, e : Weights(hex, n, s, w, e)
<1>1. PICK e : e = IF hex >= 8 THEN 1 ELSE 0
  OBVIOUS
<1>2. PICK w : w = IF hex - 8 * e >= 4 THEN 1 ELSE 0
  OBVIOUS
<1>3. PICK s : s = IF hex - 8 * e - 4 * w >= 2 THEN 1 ELSE 0
  OBVIOUS
<1>4. PICK n : n = IF hex - 8 * e - 4 * w - 2 * s = 1 THEN 1 ELSE 0
  OBVIOUS
<1>5. Weights(hex, n, s, w, e)
  BY <1>1, <1>2, <1>3, <1>4, Zenon DEF Weights
<1> QED
  BY <1>5, Zenon

LEMMA Bits ==
    ASSUME NEW hex, NEW n, NEW s, NEW w, NEW e, Weights(hex, n, s, w, e)
    PROVE  /\ n \in {0, 1} /\ s \in {0, 1} /\ w \in {0, 1} /\ e \in {0, 1}
           /\ create_room_connections(hex) = Connections(n, s, w, e)
<1>1. n \in {0, 1} /\ s \in {0, 1} /\ w \in {0, 1} /\ e \in {0, 1}
  BY DEF Weights
<1>2. create_room_connections(hex) = Connections(n, s, w, e)
  BY Zenon DEF create_room_connections, Weights, Connections
<1> QED
  BY <1>1, <1>2

LEMMA ConnectionsOf ==
    ASSUME NEW n \in {0, 1}, NEW s \in {0, 1}, NEW w \in {0, 1}, NEW e \in {0, 1},
           NEW f, f = Connections(n, s, w, e)
    PROVE  /\ f \in [Direction -> {0, 1}]
           /\ f[0] = n /\ f[1] = s /\ f[2] = w /\ f[3] = e
BY DEF Connections, Direction, NORTH, SOUTH, WEST, EAST

\* The digit of a room tells its connections, and the solver reads them back.
LEMMA Decodes ==
    /\ \A hex : create_room_connections(hex) \in [Direction -> {0, 1}]
    /\ \A c \in [Direction -> {0, 1}] : create_room_connections(encode_room(c)) = c
<1>1. ASSUME NEW c \in [Direction -> {0, 1}]
      PROVE  create_room_connections(encode_room(c)) = c
  <2>1. c[0] \in {0, 1} /\ c[1] \in {0, 1} /\ c[2] \in {0, 1} /\ c[3] \in {0, 1}
    BY DEF Direction, NORTH, SOUTH, WEST, EAST
  <2>2. PICK hex \in Nat : hex = c[0] * 1 + c[1] * 2 + c[2] * 4 + c[3] * 8
    BY <2>1
  <2>3. PICK n, s, w, e : Weights(hex, n, s, w, e)
    BY Weighed
  <2>4. /\ e = IF hex >= 8 THEN 1 ELSE 0
        /\ w = IF hex - 8 * e >= 4 THEN 1 ELSE 0
        /\ s = IF hex - 8 * e - 4 * w >= 2 THEN 1 ELSE 0
        /\ n = IF hex - 8 * e - 4 * w - 2 * s = 1 THEN 1 ELSE 0
    BY <2>3, Zenon DEF Weights
  <2>5. /\ n \in {0, 1} /\ s \in {0, 1} /\ w \in {0, 1} /\ e \in {0, 1}
        /\ create_room_connections(hex) = Connections(n, s, w, e)
    BY <2>3, Bits
  <2>6. e = c[3] /\ w = c[2] /\ s = c[1] /\ n = c[0]
    <3>1. e = c[3]
      BY <2>5, <2>4, <2>1, <2>2
    <3>2. PICK hex4 \in Int : hex4 = hex - 8 * e
      BY <2>5, <2>2
    <3>3. hex4 = c[0] + c[1] * 2 + c[2] * 4
      <4>1. CASE e = 0
        BY <2>1, <2>2, <3>1, <3>2, <4>1
      <4>2. CASE e = 1
        BY <2>1, <2>2, <3>1, <3>2, <4>2
      <4> QED
        BY <2>5, <4>1, <4>2
    <3>4. w = IF hex4 >= 4 THEN 1 ELSE 0
      BY <2>5, <2>4, <3>2
    <3>5. w = c[2]
      BY <2>1, <3>3, <3>4
    <3>6. PICK hex2 \in Int : hex2 = hex4 - 4 * w
      BY <2>5
    <3>7. hex2 = c[0] + c[1] * 2
      <4>1. CASE w = 0
        BY <2>1, <3>3, <3>5, <3>6, <4>1
      <4>2. CASE w = 1
        BY <2>1, <3>3, <3>5, <3>6, <4>2
      <4> QED
        BY <2>5, <4>1, <4>2
    <3>8. s = IF hex2 >= 2 THEN 1 ELSE 0
      BY <2>5, <2>4, <3>2, <3>6
    <3>9. s = c[1]
      BY <2>1, <3>7, <3>8
    <3>10. n = IF hex2 - 2 * s = 1 THEN 1 ELSE 0
      BY <2>5, <2>4, <3>2, <3>6
    <3>11. n = c[0]
      <4>1. CASE s = 0
        BY <2>1, <3>7, <3>9, <3>10, <4>1
      <4>2. CASE s = 1
        BY <2>1, <3>7, <3>9, <3>10, <4>2
      <4> QED
        BY <2>5, <4>1, <4>2
    <3> QED
      BY <3>1, <3>5, <3>9, <3>11
  <2>7. PICK f : f = create_room_connections(hex)
    OBVIOUS
  <2>8. f \in [Direction -> {0, 1}] /\ f[0] = n /\ f[1] = s /\ f[2] = w /\ f[3] = e
    <3>1. f = Connections(n, s, w, e)
      BY <2>5, <2>7
    <3> QED
      BY <2>5, <3>1, ConnectionsOf
  <2>9. f = c
    <3>1. \A dir \in Direction : f[dir] = c[dir]
      BY <2>6, <2>8 DEF Direction, NORTH, SOUTH, WEST, EAST
    <3> QED
      BY <2>8, <3>1
  <2> QED
    BY <2>2, <2>7, <2>9 DEF encode_room
<1>2. ASSUME NEW hex
      PROVE  create_room_connections(hex) \in [Direction -> {0, 1}]
  <2>1. PICK n, s, w, e : Weights(hex, n, s, w, e)
    BY Weighed
  <2>2. /\ n \in {0, 1} /\ s \in {0, 1} /\ w \in {0, 1} /\ e \in {0, 1}
        /\ create_room_connections(hex) = Connections(n, s, w, e)
    BY <2>1, Bits
  <2>3. PICK f : f = Connections(n, s, w, e)
    OBVIOUS
  <2>4. f \in [Direction -> {0, 1}]
    BY <2>2, <2>3, ConnectionsOf
  <2> QED
    BY <2>2, <2>3, <2>4, Zenon
<1> QED
  BY <1>1, <1>2

LEMMA WalkIsWritten ==
    ASSUME WalkInv, encode_maze
    PROVE  TreeIn(Decoded)'
<1>1. /\ stack = <<>> /\ size' = size
      /\ file' = [room \in Rooms |-> encode_room(walls[room])]
  BY DEF encode_maze
<1>2. Rooms' = Rooms
  BY <1>1 DEF Rooms
<1>3. TreeIn(walls) /\ walls \in [Rooms -> [Direction -> {0, 1}]]
  BY <1>1, WalkIsOver, WalkMakesTree DEF WalkInv
<1>4. Decoded' = walls
  <2>1. \A room \in Rooms : create_room_connections(file'[room]) = walls[room]
    BY <1>1, <1>3, Decodes
  <2> QED
    BY <1>2, <1>3, <2>1 DEF Decoded
<1> QED
  BY <1>1, <1>2, <1>3, <1>4 DEF TreeIn, DoorIn, direction_index, is_in_range

------------------------------------------------------------------------------
(* The solver *)

\* Reachable is the least set of rooms with the start that no door leads out of.
LEMMA ReachFacts ==
    /\ start \in Rooms => start \in Reachable
    /\ Reachable \subseteq Rooms
    /\ \A a \in Reachable, b \in Rooms : Door(a, b) => b \in Reachable
    /\ \A S \in SUBSET Rooms : start \in S /\ NoDoorOut(S) => Reachable \subseteq S
BY DEF Reachable, NoDoorOut

LEMMA SameMaze ==
    ASSUME UNCHANGED <<size, walls, start>>
    PROVE  /\ Rooms' = Rooms /\ Reachable' = Reachable /\ SearchFrame' = SearchFrame
           /\ \A a, b : Door(a, b)' <=> Door(a, b)
<1>1. Rooms' = Rooms /\ \A a, b : Door(a, b)' <=> Door(a, b)
  BY DEF Rooms, Door
<1>2. \A S : NoDoorOut(S)' <=> NoDoorOut(S)
  BY <1>1 DEF NoDoorOut
<1> QED
  BY <1>1, <1>2 DEF Reachable, SearchFrame

\* One more room is written.
LEMMA TrailStays ==
    ASSUME Trail, UNCHANGED <<size, walls, start>>, Len(out) \in Nat, Len(out) > 0,
           Len(out') = Len(out) + 1, out' \in Seq(Rooms),
           \A i \in 1..Len(out) : out'[i] = out[i],
           LET e == out'[Len(out) + 1] IN Door(out[Len(out)], e) \/ Door(e, out[Len(out)])
    PROVE  Trail'
<1>1. Rooms' = Rooms /\ start' = start /\ walls' = walls
  BY SameMaze
<1>2. out' # <<>> /\ out'[1] = start
  BY DEF Trail
<1>3. ASSUME NEW i \in 1..(Len(out') - 1)
      PROVE  Door(out'[i], out'[i + 1]) \/ Door(out'[i + 1], out'[i])
  <2>1. i \in 1..Len(out)
    OBVIOUS
  <2>2. CASE i = Len(out)
    BY <2>1, <2>2
  <2>3. CASE i # Len(out)
    <3>1. i \in 1..(Len(out) - 1) /\ i + 1 \in 1..Len(out)
      BY <2>1, <2>3
    <3>2. out'[i] = out[i] /\ out'[i + 1] = out[i + 1]
      BY <2>1, <3>1
    <3> QED
      BY <3>1, <3>2 DEF Trail
  <2> QED
    BY <2>2, <2>3
<1> QED
  BY <1>1, <1>2, <1>3 DEF Trail, Door

LEMMA TrailGrows ==
    ASSUME Trail, UNCHANGED <<size, walls, start>>, NEW e \in Rooms, out' = out \o <<e>>,
           Door(out[Len(out)], e) \/ Door(e, out[Len(out)])
    PROVE  Trail' /\ out'[Len(out')] = e
<1>1. PICK V, s, u : V = Rooms /\ s = out /\ u = out'
  OBVIOUS
<1>2. s \in Seq(V) /\ s # <<>> /\ e \in V /\ u = Append(s, e)
  <2>1. out \in Seq(Rooms) /\ out # <<>>
    BY DEF Trail
  <2>2. out' = Append(out, e)
    BY <2>1, AppendIsConcat
  <2> QED
    BY <1>1, <2>1, <2>2
<1>3. /\ u \in Seq(V) /\ Len(u) = Len(s) + 1 /\ \A i \in 1..Len(s) : u[i] = s[i]
      /\ u[Len(s) + 1] = e
  BY <1>2, Appended
<1>4. Len(s) \in Nat /\ Len(s) > 0
  BY <1>2, Indices
<1>5. Trail'
  BY <1>1, <1>3, <1>4, TrailStays
<1> QED
  BY <1>1, <1>3, <1>5

\* The innermost activation of a search.
LEMMA SearchFacts ==
    ASSUME SearchInv
    PROVE  /\ stack \in Seq(SearchFrame) /\ Len(stack) \in Nat /\ Len(stack) > 0
           /\ DOMAIN stack = 1..Len(stack) /\ stack[1] = Head(stack) /\ 1 \in DOMAIN stack
           /\ \A i \in DOMAIN stack : /\ stack[i].room \in Rooms /\ stack[i].room \in visited
                                      /\ stack[i].dirs \in 0..4
           /\ \A i, j \in DOMAIN stack : stack[i].room = stack[j].room => i = j
<1>1. stack \in Seq(SearchFrame) /\ stack # <<>>
  BY DEF SearchInv, Chained
<1>2. /\ Len(stack) \in Nat /\ Len(stack) > 0 /\ DOMAIN stack = 1..Len(stack)
      /\ stack[1] = Head(stack) /\ \A i \in DOMAIN stack : stack[i] \in SearchFrame
  BY <1>1, Indices
<1> QED
  BY <1>1, <1>2 DEF SearchInv, StackOnce, SearchFrame

LEMMA SearchStarts ==
    ASSUME solver_main
    PROVE  SearchInv'
<1>1. /\ start' \in Rooms' /\ goal' \in Rooms' /\ full' \in BOOLEAN /\ visited' = {start'}
      /\ out' = IF full' THEN <<start'>> ELSE <<>>
  BY DEF solver_main, Rooms
<1>2. PICK f \in SearchFrame' : f = Frame(start', 0) /\ stack' = <<f>>
  BY <1>1 DEF solver_main, Frame, SearchFrame
<1>3. /\ stack' \in Seq(SearchFrame') /\ DOMAIN stack' = {1} /\ stack'[1] = f
      /\ Len(stack') = 1 /\ stack' # <<>> /\ Head(stack') = f
  BY <1>2
<1>4. f.room = start' /\ f.dirs = 0
  BY <1>2 DEF Frame
<1>5. start' \in Reachable'
  BY <1>1 DEF Reachable
<1>6. StackOnce' /\ Chained'
  BY <1>1, <1>3, <1>4 DEF StackOnce, Chained
<1>7. Searched'
  BY <1>1, <1>3, <1>4 DEF Searched, Direction, NORTH, SOUTH, WEST, EAST
<1>8. ASSUME full'
      PROVE  Trail' /\ out'[Len(out')] = Head(stack').room
  <2>1. PICK s \in Rooms' : s = start' /\ out' = <<s>>
    BY <1>1, <1>8
  <2>2. out' \in Seq(Rooms') /\ out' # <<>> /\ Len(out') = 1 /\ out'[1] = s
    BY <2>1
  <2> QED
    BY <1>3, <1>4, <2>1, <2>2 DEF Trail
<1> QED
  BY <1>1, <1>3, <1>4, <1>5, <1>6, <1>7, <1>8 DEF SearchInv

\* A direction is done with: there is no door, or the room behind it is visited.
LEMMA SearchGoesOn ==
    ASSUME SearchInv, Head(stack).room # goal, Head(stack).dirs < 4,
           LET neighbor == get_neighbor(Head(stack).room, Head(stack).dirs) IN
             neighbor \in Rooms \ visited => walls[Head(stack).room][Head(stack).dirs] # 0,
           stack' \in Seq(SearchFrame), Len(stack') = Len(stack), DOMAIN stack' = 1..Len(stack),
           stack'[1] = Frame(Head(stack).room, Head(stack).dirs + 1),
           \A i \in 2..Len(stack) : stack'[i] = stack[i],
           \A a \in Rooms : a # Head(stack).room => next'[a] = next[a],
           UNCHANGED <<size, visited, walls, start, goal, full, out>>
    PROVE  SearchInv'
<1> DEFINE room == Head(stack).room
           dir == Head(stack).dirs
<1>1. /\ Len(stack) \in Nat /\ Len(stack) > 0
      /\ DOMAIN stack = 1..Len(stack) /\ stack[1] = Head(stack) /\ 1 \in DOMAIN stack
      /\ \A i \in DOMAIN stack : /\ stack[i].room \in Rooms /\ stack[i].room \in visited
                                 /\ stack[i].dirs \in 0..4
      /\ \A i, j \in DOMAIN stack : stack[i].room = stack[j].room => i = j
  BY SearchFacts
<1>2. Rooms' = Rooms /\ Reachable' = Reachable /\ SearchFrame' = SearchFrame
      /\ \A a, b : Door(a, b)' <=> Door(a, b)
  BY SameMaze
<1>3. stack'[1].room = stack[1].room /\ stack'[1].dirs = dir + 1
  BY <1>1 DEF Frame
<1>4. \A i \in DOMAIN stack : stack'[i].room = stack[i].room /\ (i # 1 => stack'[i] = stack[i])
  BY <1>1, <1>3
<1>5. StackOnce'
  BY <1>1, <1>4 DEF StackOnce
<1>6. stack' # <<>> /\ Head(stack') = stack'[1]
  BY <1>1, Indices
<1>7. Chained'
  <2>1. stack'[Len(stack')].room = start
    BY <1>1, <1>4 DEF SearchInv, Chained
  <2>2. ASSUME NEW i \in 1..(Len(stack) - 1)
        PROVE  /\ Door(stack'[i + 1].room, stack'[i].room)
               /\ next'[stack'[i + 1].room] = stack'[i].room
    <3>1. i \in DOMAIN stack /\ i + 1 \in DOMAIN stack /\ i + 1 # 1
      BY <1>1
    <3>2. /\ Door(stack[i + 1].room, stack[i].room)
          /\ next[stack[i + 1].room] = stack[i].room
      BY DEF SearchInv, Chained
    <3>3. stack[i + 1].room # room /\ stack[i + 1].room \in Rooms
      BY <1>1, <3>1
    <3> QED
      BY <1>2, <1>4, <3>1, <3>2, <3>3
  <2> QED
    BY <1>1, <1>6, <2>1, <2>2 DEF Chained, Door
<1>8. Searched'
  <2> SUFFICES ASSUME NEW a \in visited, NEW d \in Direction,
                      walls[a][d] = 0, get_neighbor(a, d) \in Rooms \ visited
               PROVE  \E i \in DOMAIN stack' : stack'[i].room = a /\ stack'[i].dirs <= d
    BY <1>2 DEF Searched
  <2>1. PICK i \in DOMAIN stack : stack[i].room = a /\ stack[i].dirs <= d
    BY DEF SearchInv, Searched
  <2>2. CASE i = 1
    <3>1. a = room /\ dir <= d /\ d # dir /\ dir \in 0..4 /\ d \in 0..3
      BY <1>1, <2>1, <2>2 DEF Direction, NORTH, SOUTH, WEST, EAST
    <3>2. stack'[1].dirs <= d
      BY <1>3, <3>1
    <3> QED
      BY <1>1, <1>3, <2>1, <2>2, <3>2
  <2>3. CASE i # 1
    BY <1>1, <1>4, <2>1, <2>3
  <2> QED
    BY <2>2, <2>3
<1>9. Trail' <=> Trail
  BY <1>2 DEF Trail
<1> QED
  BY <1>1, <1>2, <1>3, <1>5, <1>6, <1>7, <1>8, <1>9 DEF SearchInv

\* A room is entered through a door.
LEMMA SearchEnters ==
    ASSUME SearchInv, Head(stack).room # goal, Head(stack).dirs < 4, size \in Nat \X Nat,
           get_neighbor(Head(stack).room, Head(stack).dirs) \in Rooms \ visited,
           walls[Head(stack).room][Head(stack).dirs] = 0,
           visited' = visited \cup {get_neighbor(Head(stack).room, Head(stack).dirs)},
           stack' \in Seq(SearchFrame), Len(stack') = Len(stack) + 1,
           DOMAIN stack' = 1..(Len(stack) + 1),
           stack'[1] = Frame(get_neighbor(Head(stack).room, Head(stack).dirs), 0),
           stack'[2] = Frame(Head(stack).room, Head(stack).dirs + 1),
           \A i \in 3..(Len(stack) + 1) : stack'[i] = stack[i - 1],
           \A a \in Rooms : next'[a] = IF a = Head(stack).room
                                       THEN get_neighbor(Head(stack).room, Head(stack).dirs)
                                       ELSE next[a],
           out' = out \o Writes(get_neighbor(Head(stack).room, Head(stack).dirs)),
           UNCHANGED <<size, walls, start, goal, full>>
    PROVE  SearchInv'
<1> DEFINE room == Head(stack).room
           dir == Head(stack).dirs
           neighbor == get_neighbor(room, dir)
<1>1. /\ Len(stack) \in Nat /\ Len(stack) > 0
      /\ DOMAIN stack = 1..Len(stack) /\ stack[1] = Head(stack) /\ 1 \in DOMAIN stack
      /\ \A i \in DOMAIN stack : /\ stack[i].room \in Rooms /\ stack[i].room \in visited
                                 /\ stack[i].dirs \in 0..4
      /\ \A i, j \in DOMAIN stack : stack[i].room = stack[j].room => i = j
  BY SearchFacts
<1>2. Rooms' = Rooms /\ Reachable' = Reachable /\ SearchFrame' = SearchFrame
      /\ \A a, b : Door(a, b)' <=> Door(a, b)
  BY SameMaze
<1>3. room \in Rooms /\ room \in visited /\ dir \in Direction /\ dir \in 0..3
  BY <1>1 DEF Direction, NORTH, SOUTH, WEST, EAST
<1>4. Door(room, neighbor)
  BY <1>3 DEF Door
<1>5. /\ stack'[1].room = neighbor /\ stack'[1].dirs = 0
      /\ stack'[2].room = stack[1].room /\ stack'[2].dirs = dir + 1
  BY <1>1 DEF Frame
<1>6. /\ 1 \in DOMAIN stack'
      /\ \A i \in DOMAIN stack : /\ i + 1 \in DOMAIN stack'
                                 /\ stack'[i + 1].room = stack[i].room
                                 /\ i # 1 => stack'[i + 1].dirs = stack[i].dirs
      /\ \A i \in DOMAIN stack' : i = 1 \/ (i - 1 \in DOMAIN stack /\ i - 1 + 1 = i)
  <2>1. ASSUME NEW i \in DOMAIN stack
        PROVE  /\ i + 1 \in DOMAIN stack'
               /\ stack'[i + 1].room = stack[i].room
               /\ i # 1 => stack'[i + 1].dirs = stack[i].dirs
    <3>1. /\ i + 1 \in DOMAIN stack' /\ i + 1 - 1 = i
          /\ i = 1 => i + 1 = 2
          /\ i # 1 => i + 1 \in 3..(Len(stack) + 1)
      BY <1>1
    <3>2. CASE i = 1
      BY <1>5, <3>1, <3>2
    <3>3. CASE i # 1
      <4>1. stack'[i + 1] = stack[i]
        BY <3>1, <3>3
      <4> QED
        BY <3>1, <4>1
    <3> QED
      BY <3>2, <3>3
  <2>2. 1 \in DOMAIN stack' /\ \A i \in DOMAIN stack' : i = 1 \/ (i - 1 \in DOMAIN stack /\ i - 1 + 1 = i)
    BY <1>1
  <2> QED
    BY <2>1, <2>2
<1>7. stack' # <<>> /\ Head(stack') = stack'[1]
  BY <1>1, Indices
<1>8. StackOnce'
  <2>1. ASSUME NEW i \in DOMAIN stack', i # 1
        PROVE  /\ i - 1 \in DOMAIN stack
               /\ stack'[i].room = stack[i - 1].room
               /\ stack'[i].room \in visited
    <3>1. i - 1 \in DOMAIN stack /\ i - 1 + 1 = i
      BY <1>6, <2>1
    <3>2. stack'[i - 1 + 1].room = stack[i - 1].room
      BY <1>6, <3>1
    <3> QED
      BY <1>1, <3>1, <3>2
  <2>2. ASSUME NEW i \in DOMAIN stack', NEW j \in DOMAIN stack',
               stack'[i].room = stack'[j].room
        PROVE  i = j
    <3>1. i \in Int /\ j \in Int
      OBVIOUS
    <3>2. CASE i = 1
      BY <1>5, <2>1, <2>2, <3>2
    <3>3. CASE j = 1
      BY <1>5, <2>1, <2>2, <3>3
    <3>4. CASE i # 1 /\ j # 1
      <4>1. /\ i - 1 \in DOMAIN stack /\ stack'[i].room = stack[i - 1].room
            /\ j - 1 \in DOMAIN stack /\ stack'[j].room = stack[j - 1].room
        BY <2>1, <3>4
      <4>2. stack[i - 1].room = stack[j - 1].room
        BY <2>2, <4>1
      <4>3. i - 1 = j - 1
        BY <1>1, <4>1, <4>2
      <4> QED
        BY <3>1, <4>3
    <3> QED
      BY <3>2, <3>3, <3>4
  <2>3. \A i \in DOMAIN stack' : stack'[i].room \in visited'
    BY <1>5, <2>1
  <2> QED
    BY <2>2, <2>3 DEF StackOnce
<1>9. Chained'
  <2>1. stack'[Len(stack')].room = start
    <3>1. Len(stack) \in DOMAIN stack /\ stack[Len(stack)].room = start
      BY <1>1 DEF SearchInv, Chained
    <3> QED
      BY <1>6, <3>1
  <2>2. ASSUME NEW i \in 1..Len(stack)
        PROVE  /\ Door(stack'[i + 1].room, stack'[i].room)
               /\ next'[stack'[i + 1].room] = stack'[i].room
    <3>0. i \in DOMAIN stack /\ stack'[i + 1].room = stack[i].room /\ stack[i].room \in Rooms
      BY <1>1, <1>6
    <3>1. CASE i = 1
      BY <1>1, <1>2, <1>3, <1>4, <1>5, <3>0, <3>1
    <3>2. CASE i # 1
      <4>1. /\ i - 1 \in 1..(Len(stack) - 1) /\ i - 1 + 1 = i
            /\ i - 1 \in DOMAIN stack /\ i \in DOMAIN stack
        BY <1>1, <3>2
      <4>2. Door(stack[i].room, stack[i - 1].room) /\ next[stack[i].room] = stack[i - 1].room
        BY <4>1 DEF SearchInv, Chained
      <4>3. stack'[i].room = stack[i - 1].room
        BY <1>6, <4>1
      <4>4. stack[i].room # room
        BY <1>1, <3>2, <4>1
      <4> QED
        BY <1>2, <3>0, <4>2, <4>3, <4>4
    <3> QED
      BY <3>1, <3>2
  <2> QED
    BY <1>1, <1>7, <2>1, <2>2 DEF Chained, Door
<1>10. Searched'
  <2> SUFFICES ASSUME NEW a \in visited', NEW d \in Direction,
                      walls[a][d] = 0, get_neighbor(a, d) \in Rooms \ visited'
               PROVE  \E i \in DOMAIN stack' : stack'[i].room = a /\ stack'[i].dirs <= d
    BY <1>2 DEF Searched
  <2>1. CASE a = neighbor
    <3>1. 0 <= d
      BY DEF Direction, NORTH, SOUTH, WEST, EAST
    <3> QED
      BY <1>5, <1>6, <2>1, <3>1
  <2>2. CASE a # neighbor
    <3>1. PICK i \in DOMAIN stack : stack[i].room = a /\ stack[i].dirs <= d
      BY <2>2 DEF SearchInv, Searched
    <3>2. CASE i = 1
      <4>1. a = room /\ dir <= d /\ d # dir /\ dir \in 0..4 /\ d \in 0..3
        BY <1>1, <3>1, <3>2 DEF Direction, NORTH, SOUTH, WEST, EAST
      <4>2. stack'[2].dirs <= d /\ i + 1 = 2
        BY <1>5, <3>2, <4>1
      <4> QED
        BY <1>6, <3>1, <4>2
    <3>3. CASE i # 1
      BY <1>6, <3>1, <3>3
    <3> QED
      BY <3>2, <3>3
  <2> QED
    BY <2>1, <2>2
<1>11. goal \in visited' => Head(stack').room = goal
  BY <1>5, <1>7 DEF SearchInv
<1>12. visited' \subseteq Reachable' /\ start \in visited'
  <2>1. room \in Reachable
    BY <1>3 DEF SearchInv
  <2>2. neighbor \in Reachable
    BY <1>4, <2>1, ReachFacts
  <2> QED
    BY <1>2, <2>2 DEF SearchInv
<1>13. ASSUME full
       PROVE  Trail' /\ out'[Len(out')] = Head(stack').room
  <2>1. Trail /\ out[Len(out)] = room
    BY <1>13 DEF SearchInv
  <2>2. out' = out \o <<neighbor>> /\ neighbor \in Rooms
    BY <1>13 DEF Writes
  <2>3. Trail' /\ out'[Len(out')] = neighbor
    BY <1>4, <2>1, <2>2, TrailGrows
  <2> QED
    BY <1>5, <1>7, <2>3
<1>14. ~full => out' = <<>>
  BY DEF Writes, SearchInv
<1> QED
  BY <1>2, <1>8, <1>9, <1>10, <1>11, <1>12, <1>13, <1>14 DEF SearchInv

\* The loop of a room has ended: its caller goes on and writes its own room.
LEMMA SearchReturns ==
    ASSUME SearchInv, Head(stack).room # goal, Head(stack).dirs = 4, Len(stack) > 1,
           stack' \in Seq(SearchFrame), Len(stack') = Len(stack) - 1,
           DOMAIN stack' = 1..(Len(stack) - 1),
           \A i \in 1..(Len(stack) - 1) : stack'[i] = stack[i + 1],
           out' = out \o Writes(stack[2].room),
           UNCHANGED <<size, visited, walls, start, goal, next, full>>
    PROVE  SearchInv'
<1>1. /\ Len(stack) \in Nat /\ Len(stack) > 0
      /\ DOMAIN stack = 1..Len(stack) /\ stack[1] = Head(stack) /\ 1 \in DOMAIN stack
      /\ \A i \in DOMAIN stack : /\ stack[i].room \in Rooms /\ stack[i].room \in visited
                                 /\ stack[i].dirs \in 0..4
      /\ \A i, j \in DOMAIN stack : stack[i].room = stack[j].room => i = j
  BY SearchFacts
<1>2. Rooms' = Rooms /\ Reachable' = Reachable /\ SearchFrame' = SearchFrame
  BY SameMaze
<1>3. \A i \in DOMAIN stack' : /\ i \in Nat /\ i + 1 \in DOMAIN stack /\ i + 1 # 1
                               /\ stack'[i] = stack[i + 1]
  BY <1>1
<1>4. \A i \in DOMAIN stack : i # 1 => /\ i - 1 \in DOMAIN stack'
                                       /\ stack'[i - 1] = stack[i]
  <2> SUFFICES ASSUME NEW i \in DOMAIN stack, i # 1
               PROVE  i - 1 \in DOMAIN stack' /\ stack'[i - 1] = stack[i]
    OBVIOUS
  <2>1. i - 1 \in 1..(Len(stack) - 1) /\ i - 1 + 1 = i
    BY <1>1
  <2>2. stack'[i - 1] = stack[i - 1 + 1]
    BY <2>1
  <2> QED
    BY <2>1, <2>2
<1>5. /\ stack' # <<>> /\ Head(stack') = stack'[1] /\ stack'[1] = stack[2]
      /\ 2 \in DOMAIN stack
  BY <1>1, Indices
<1>6. StackOnce'
  <2>1. ASSUME NEW i \in DOMAIN stack', NEW j \in DOMAIN stack', stack'[i].room = stack'[j].room
        PROVE  i = j
    <3>1. i + 1 = j + 1 /\ i \in Nat /\ j \in Nat
      BY <1>1, <1>3, <2>1
    <3> QED
      BY <3>1
  <2>2. \A i \in DOMAIN stack' : stack'[i].room \in visited'
    BY <1>1, <1>3
  <2> QED
    BY <2>1, <2>2 DEF StackOnce
<1>7. Chained'
  <2>1. stack'[Len(stack')].room = start
    <3>1. Len(stack) \in DOMAIN stack /\ stack[Len(stack)].room = start /\ Len(stack) # 1
      BY <1>1 DEF SearchInv, Chained
    <3> QED
      BY <1>4, <3>1
  <2>2. ASSUME NEW i \in 1..(Len(stack') - 1)
        PROVE  /\ Door(stack'[i + 1].room, stack'[i].room)
               /\ next'[stack'[i + 1].room] = stack'[i].room
    <3>1. /\ i \in DOMAIN stack' /\ i + 1 \in DOMAIN stack'
          /\ i + 1 \in 1..(Len(stack) - 1) /\ i + 1 + 1 \in DOMAIN stack
      BY <1>1
    <3>2. /\ Door(stack[i + 1 + 1].room, stack[i + 1].room)
          /\ next[stack[i + 1 + 1].room] = stack[i + 1].room
      BY <3>1 DEF SearchInv, Chained
    <3>3. stack'[i] = stack[i + 1] /\ stack'[i + 1] = stack[i + 1 + 1]
      BY <1>3, <3>1
    <3> QED
      BY <3>2, <3>3
  <2> QED
    BY <1>5, <2>1, <2>2 DEF Chained, Door
<1>8. Searched'
  <2> SUFFICES ASSUME NEW a \in visited, NEW d \in Direction,
                      walls[a][d] = 0, get_neighbor(a, d) \in Rooms \ visited
               PROVE  \E i \in DOMAIN stack' : stack'[i].room = a /\ stack'[i].dirs <= d
    BY <1>2 DEF Searched
  <2>1. PICK i \in DOMAIN stack : stack[i].room = a /\ stack[i].dirs <= d
    BY DEF SearchInv, Searched
  <2>2. i # 1
    BY <1>1, <2>1 DEF Direction, NORTH, SOUTH, WEST, EAST
  <2> QED
    BY <1>4, <2>1, <2>2
<1>9. goal \notin visited
  BY DEF SearchInv
<1>10. ASSUME full
       PROVE  Trail' /\ out'[Len(out')] = Head(stack').room
  <2>1. Trail /\ out[Len(out)] = stack[1].room
    BY <1>1, <1>10 DEF SearchInv
  <2>2. out' = out \o <<stack[2].room>> /\ stack[2].room \in Rooms
    BY <1>1, <1>5, <1>10 DEF Writes
  <2>3. Door(stack[2].room, stack[1].room)
    <3>1. 1 \in 1..(Len(stack) - 1)
      BY <1>1
    <3>2. Door(stack[1 + 1].room, stack[1].room)
      BY <3>1 DEF SearchInv, Chained
    <3> QED
      BY <3>2
  <2>4. Trail' /\ out'[Len(out')] = stack[2].room
    <3>1. PICK e \in Rooms : e = stack[2].room
      BY <2>2
    <3>2. Trail' /\ out'[Len(out')] = e
      BY <2>1, <2>2, <2>3, <3>1, TrailGrows
    <3> QED
      BY <3>1, <3>2
  <2> QED
    BY <1>5, <2>4
<1>11. ~full => out' = <<>>
  BY DEF Writes, SearchInv
<1> QED
  BY <1>2, <1>6, <1>7, <1>8, <1>9, <1>10, <1>11 DEF SearchInv

\* The first activation has tried every direction: what was visited is all that
\* can be reached.
LEMMA SearchFails ==
    ASSUME SearchInv, start \in Rooms, Head(stack).room # goal, Head(stack).dirs = 4,
           Len(stack) = 1
    PROVE  goal \notin Reachable
<1>1. /\ DOMAIN stack = {1} /\ stack[1].dirs = 4
  BY SearchFacts
<1>2. visited \subseteq Rooms /\ start \in visited /\ goal \notin visited
  BY ReachFacts DEF SearchInv
<1>3. NoDoorOut(visited)
  <2> SUFFICES ASSUME NEW a \in visited, NEW b \in Rooms, Door(a, b), b \notin visited
               PROVE  FALSE
    BY DEF NoDoorOut
  <2>1. PICK dir \in Direction : get_neighbor(a, dir) = b /\ walls[a][dir] = 0
    BY DEF Door
  <2>2. PICK i \in DOMAIN stack : stack[i].room = a /\ stack[i].dirs <= dir
    BY <2>1 DEF SearchInv, Searched
  <2> QED
    BY <1>1, <2>2 DEF Direction, NORTH, SOUTH, WEST, EAST
<1>4. Reachable \subseteq visited
  BY <1>2, <1>3, ReachFacts
<1> QED
  BY <1>2, <1>4

\* At the goal the activations, outermost first, are a way along next.
LEMMA SearchEnds ==
    ASSUME SearchInv, ~full, Head(stack).room = goal, goal \in Rooms,
           next \in [Rooms -> Rooms \cup {NoRoom}], next' = [next EXCEPT ![goal] = goal],
           UNCHANGED <<size, walls, start, goal, full, out>>
    PROVE  PruneInv'
<1>1. /\ Len(stack) \in Nat /\ Len(stack) > 0
      /\ DOMAIN stack = 1..Len(stack) /\ stack[1] = Head(stack) /\ 1 \in DOMAIN stack
      /\ \A i \in DOMAIN stack : /\ stack[i].room \in Rooms /\ stack[i].room \in visited
                                 /\ stack[i].dirs \in 0..4
      /\ \A i, j \in DOMAIN stack : stack[i].room = stack[j].room => i = j
  BY SearchFacts
<1>2. Rooms' = Rooms /\ Reachable' = Reachable
  BY SameMaze
<1>3. PICK n \in Nat : n = Len(stack)
  BY <1>1
<1>4. PICK way : way = [j \in 1..n |-> stack[n - j + 1].room]
  OBVIOUS
<1>5. /\ DOMAIN way = 1..n /\ n > 0
      /\ \A j \in 1..n : n - j + 1 \in DOMAIN stack /\ way[j] = stack[n - j + 1].room
  BY <1>1, <1>3, <1>4
<1>6. way \in Seq(Rooms) /\ Len(way) = n /\ way # <<>>
  <2>1. \A j \in 1..n : stack[n - j + 1].room \in Rooms
    BY <1>1, <1>5
  <2>2. way \in Seq(Rooms) /\ Len(way) = n
    BY <1>4, <2>1
  <2> QED
    BY <1>5, <2>2
<1>7. way[1] = start
  <2>1. stack[Len(stack)].room = start
    BY DEF SearchInv, Chained
  <2>2. n - 1 + 1 = n /\ 1 \in 1..n
    BY <1>5
  <2> QED
    BY <1>3, <1>5, <2>1, <2>2
<1>8. way[n] = goal
  <2>1. n - n + 1 = 1 /\ n \in 1..n
    BY <1>5
  <2> QED
    BY <1>1, <1>5, <2>1
<1>9. ASSUME NEW i \in 1..(n - 1)
      PROVE  Door(way[i], way[i + 1]) /\ next'[way[i]] = way[i + 1]
  <2>1. PICK k \in 1..(Len(stack) - 1) : k = n - i
    BY <1>3
  <2>2. /\ i \in 1..n /\ i + 1 \in 1..n /\ n - i + 1 = k + 1 /\ n - (i + 1) + 1 = k
        /\ k + 1 \in DOMAIN stack /\ k + 1 # 1
    BY <1>1, <1>3, <2>1
  <2>3. way[i] = stack[k + 1].room /\ way[i + 1] = stack[k].room
    BY <1>5, <2>2
  <2>4. Door(stack[k + 1].room, stack[k].room) /\ next[stack[k + 1].room] = stack[k].room
    BY DEF SearchInv, Chained
  <2>5. stack[k + 1].room # goal /\ stack[k + 1].room \in Rooms
    BY <1>1, <2>2
  <2> QED
    BY <2>3, <2>4, <2>5
<1>10. ASSUME NEW i \in DOMAIN way, NEW j \in DOMAIN way, way[i] = way[j]
       PROVE  i = j
  <2>1. /\ n - i + 1 \in DOMAIN stack /\ way[i] = stack[n - i + 1].room
        /\ n - j + 1 \in DOMAIN stack /\ way[j] = stack[n - j + 1].room
    BY <1>5
  <2>2. n - i + 1 = n - j + 1
    BY <1>1, <1>10, <2>1
  <2>3. i \in Int /\ j \in Int
    BY <1>5
  <2> QED
    BY <2>2, <2>3
<1>11. Way(way)'
  BY <1>6, <1>7, <1>8, <1>9, <1>10 DEF Way, Door
<1>12. goal \in Reachable
  BY <1>1 DEF SearchInv
<1>13. out' = <<>> /\ Len(out') = 0
  BY DEF SearchInv
<1> QED
  BY <1>2, <1>5, <1>6, <1>11, <1>12, <1>13 DEF PruneInv

\* The solver changes neither the maze nor what it was asked.
LEMMA SolverStays ==
    ASSUME SolverInv, UNCHANGED <<size, walls, start, goal, full>>,
           next' \in [Rooms -> Rooms \cup {NoRoom}],
           phase' = "dfs" => SearchInv', phase' = "print" => PruneInv'
    PROVE  SolverInv'
<1>1. /\ Rooms' = Rooms /\ walls' = walls
      /\ \A a, dir : direction_index(a, dir)' <=> direction_index(a, dir)
  BY DEF Rooms, direction_index, is_in_range
<1>2. TreeIn(walls) => TreeIn(walls)'
  BY <1>1 DEF TreeIn, DoorIn
<1> QED
  BY <1>1, <1>2 DEF SolverInv

\* The solver reads the file and begins.
LEMMA SolverStarts ==
    ASSUME solver_main, size \in Sizes \ FileSizes => TreeIn(Decoded)
    PROVE  SolverInv'
<1>1. /\ size' = size /\ Rooms' = Rooms /\ walls' = Decoded
      /\ \A a, dir : direction_index(a, dir)' <=> direction_index(a, dir)
  BY DEF solver_main, Rooms, direction_index, is_in_range, Decoded
<1>2. walls' \in [Rooms' -> [Direction -> {0, 1}]]
  <2>1. \A room \in Rooms : create_room_connections(file[room]) \in [Direction -> {0, 1}]
    BY Decodes
  <2> QED
    BY <1>1, <2>1 DEF Decoded
<1>3. next' \in [Rooms' -> Rooms' \cup {NoRoom}]
  BY <1>1 DEF solver_main
<1>4. TreeIn(Decoded) => TreeIn(walls)'
  BY <1>1 DEF TreeIn, DoorIn
<1>5. SearchInv' /\ phase' = "dfs"
  BY SearchStarts DEF solver_main
<1> QED
  BY <1>1, <1>2, <1>3, <1>4, <1>5 DEF solver_main, SolverInv

\* One round of the search.
LEMMA SearchRounds ==
    ASSUME SolverInv, dfs, size \in Nat \X Nat
    PROVE  SolverInv'
<1> DEFINE room == Head(stack).room
           dir == Head(stack).dirs
           neighbor == get_neighbor(room, dir)
<1>1. /\ SearchInv /\ room # goal /\ dir < 4 /\ stack # <<>> /\ phase' = "dfs"
      /\ UNCHANGED <<size, walls, start, goal, full>>
  BY DEF dfs, SolverInv
<1>2. /\ stack \in Seq(SearchFrame) /\ stack[1] = Head(stack) /\ 1 \in DOMAIN stack
      /\ room \in Rooms /\ dir \in Direction /\ dir + 1 \in 0..4
  <2>1. /\ stack \in Seq(SearchFrame) /\ stack[1] = Head(stack) /\ 1 \in DOMAIN stack
        /\ room \in Rooms /\ dir \in 0..4
    BY <1>1, SearchFacts
  <2> QED
    BY <1>1, <2>1 DEF Direction, NORTH, SOUTH, WEST, EAST
<1>3. direction_index(room, dir) <=> neighbor \in Rooms
  BY <1>2, InRange
<1>4. next \in [Rooms -> Rooms \cup {NoRoom}]
  BY DEF SolverInv
<1>5. CASE neighbor \in Rooms \ visited /\ walls[room][dir] = 0
  <2>1. /\ next' = [next EXCEPT ![room] = neighbor]
        /\ visited' = visited \cup {neighbor}
        /\ stack' = <<Frame(neighbor, 0)>> \o (<<Frame(room, dir + 1)>> \o Tail(stack))
        /\ out' = out \o Writes(neighbor)
    BY <1>3, <1>5 DEF dfs
  <2>2. Frame(neighbor, 0) \in SearchFrame /\ Frame(room, dir + 1) \in SearchFrame
    BY <1>2, <1>5 DEF Frame, SearchFrame
  <2>3. /\ stack' \in Seq(SearchFrame) /\ Len(stack') = Len(stack) + 1
        /\ DOMAIN stack' = 1..(Len(stack) + 1)
        /\ stack'[1] = Frame(neighbor, 0) /\ stack'[2] = Frame(room, dir + 1)
        /\ \A i \in 3..(Len(stack) + 1) : stack'[i] = stack[i - 1]
    <3>1. PICK V, s, e, f, u :
            /\ V = SearchFrame /\ s = stack /\ u = stack'
            /\ e = Frame(neighbor, 0) /\ f = Frame(room, dir + 1)
      OBVIOUS
    <3>2. s \in Seq(V) /\ s # <<>> /\ e \in V /\ f \in V
      BY <1>1, <1>2, <2>2, <3>1
    <3>3. u = <<e>> \o (<<f>> \o Tail(s))
      BY <2>1, <3>1
    <3>4. /\ u \in Seq(V) /\ Len(u) = Len(s) + 1 /\ DOMAIN u = 1..(Len(s) + 1)
          /\ u[1] = e /\ u[2] = f /\ \A i \in 3..(Len(s) + 1) : u[i] = s[i - 1]
      BY <3>2, <3>3, Called
    <3> QED
      BY <3>1, <3>4
  <2>4. /\ \A a \in Rooms : next'[a] = IF a = room THEN neighbor ELSE next[a]
        /\ next' \in [Rooms -> Rooms \cup {NoRoom}]
    BY <1>2, <1>4, <1>5, <2>1
  <2>5. SearchInv'
    BY <1>1, <1>5, <2>1, <2>3, <2>4, SearchEnters
  <2> QED
    BY <1>1, <2>4, <2>5, SolverStays
<1>6. CASE neighbor \in Rooms \ visited => walls[room][dir] # 0
  <2>1. /\ next' = next \/ (neighbor \in Rooms /\ next' = [next EXCEPT ![room] = neighbor])
        /\ stack' = <<Frame(room, dir + 1)>> \o Tail(stack)
        /\ UNCHANGED <<visited, out>>
    <3>1. CASE direction_index(room, dir)
      <4>1. ~(walls[room][dir] = 0 /\ neighbor \notin visited)
        BY <1>3, <1>6, <3>1
      <4> QED
        BY <1>3, <3>1, <4>1 DEF dfs
    <3>2. CASE ~direction_index(room, dir)
      BY <3>2 DEF dfs
    <3> QED
      BY <3>1, <3>2
  <2>2. Frame(room, dir + 1) \in SearchFrame
    BY <1>2 DEF Frame, SearchFrame
  <2>3. /\ stack' \in Seq(SearchFrame) /\ Len(stack') = Len(stack)
        /\ DOMAIN stack' = 1..Len(stack) /\ stack'[1] = Frame(room, dir + 1)
        /\ \A i \in 2..Len(stack) : stack'[i] = stack[i]
    <3>1. PICK V, s, e, u :
            V = SearchFrame /\ s = stack /\ u = stack' /\ e = Frame(room, dir + 1)
      OBVIOUS
    <3>2. s \in Seq(V) /\ s # <<>> /\ e \in V /\ Len(s) \in Nat /\ Len(s) > 0
      BY <1>1, <1>2, <2>2, <3>1, SearchFacts
    <3>3. u = <<e>> \o Tail(s)
      BY <2>1, <3>1
    <3>4. /\ u \in Seq(V) /\ Len(u) = Len(s) /\ DOMAIN u = 1..Len(s)
          /\ \A i \in 1..Len(s) : u[i] = IF i = 1 THEN e ELSE s[i]
      BY <3>2, <3>3, Turned
    <3>5. u[1] = e /\ \A i \in 2..Len(s) : u[i] = s[i]
      BY <3>2, <3>4
    <3> QED
      BY <3>1, <3>4, <3>5
  <2>4. /\ \A a \in Rooms : a # room => next'[a] = next[a]
        /\ next' \in [Rooms -> Rooms \cup {NoRoom}]
    BY <1>2, <1>4, <2>1
  <2>5. SearchInv'
    BY <1>1, <1>6, <2>1, <2>3, <2>4, SearchGoesOn
  <2> QED
    BY <1>1, <2>4, <2>5, SolverStays
<1> QED
  BY <1>5, <1>6

\* The search leaves a room, or gives up.
LEMMA SearchLeaves ==
    ASSUME SolverInv, dfs_return
    PROVE  SolverInv' /\ SolvesMaze'
<1>1. /\ SearchInv /\ stack # <<>> /\ Head(stack).room # goal /\ Head(stack).dirs = 4
      /\ UNCHANGED <<size, visited, walls, start, goal, next, full>>
      /\ next \in [Rooms -> Rooms \cup {NoRoom}] /\ start \in Rooms
  BY DEF dfs_return, SolverInv
<1>2. Len(stack) \in Nat /\ Len(stack) > 0 /\ stack \in Seq(SearchFrame)
  BY <1>1, SearchFacts
<1>3. Reachable' = Reachable
  BY <1>1, SameMaze
<1>4. Len(stack) = 1 \/ (Len(stack) # 1 /\ Len(stack) > 1)
  BY <1>2
<1>5. CASE Len(stack) = 1
  <2>1. goal \notin Reachable
    BY <1>1, <1>5, SearchFails
  <2>2. phase' = "no solution" /\ out' = out
    BY <1>5 DEF dfs_return
  <2>3. SolvesMaze'
    <3>1. CASE full
      <4>1. Trail
        BY <1>1, <3>1 DEF SearchInv
      <4> QED
        BY <1>1, <1>3, <2>1, <2>2, <3>1, <4>1 DEF SolvesMaze, MazeEnded, Trail, Door
    <3>2. CASE ~full
      <4>1. out' = <<>>
        BY <1>1, <2>2, <3>2 DEF SearchInv
      <4>2. DOMAIN out' = {} /\ 1..(Len(out') - 1) = {}
        BY <4>1
      <4>3. ~full' /\ goal' \notin Reachable' /\ phase' = "no solution"
        BY <1>1, <1>3, <2>1, <2>2, <3>2
      <4> QED
        BY <4>2, <4>3 DEF SolvesMaze, MazeEnded
    <3> QED
      BY <3>1, <3>2
  <2> QED
    BY <1>1, <2>2, <2>3, SolverStays
<1>6. CASE Len(stack) # 1 /\ Len(stack) > 1
  <2>1. /\ stack' = Tail(stack) /\ out' = out \o Writes(stack[2].room) /\ phase' = "dfs"
    BY <1>6 DEF dfs_return
  <2>2. /\ stack' \in Seq(SearchFrame) /\ Len(stack') = Len(stack) - 1
        /\ DOMAIN stack' = 1..(Len(stack) - 1)
        /\ \A i \in 1..(Len(stack) - 1) : stack'[i] = stack[i + 1]
    BY <1>1, <1>2, <2>1, Popped
  <2>3. SearchInv'
    BY <1>1, <1>6, <2>1, <2>2, SearchReturns
  <2> QED
    BY <1>1, <2>1, <2>3, SolverStays DEF SolvesMaze, MazeEnded
<1> QED
  BY <1>4, <1>5, <1>6

\* The search has come to the goal.
LEMMA SearchSucceeds ==
    ASSUME SolverInv, dfs_goal
    PROVE  SolverInv' /\ SolvesMaze'
<1>1. /\ SearchInv /\ Head(stack).room = goal /\ goal \in Rooms
      /\ next' = [next EXCEPT ![goal] = goal]
      /\ UNCHANGED <<size, walls, start, goal, full, out>>
      /\ phase' = IF full THEN "found" ELSE "print"
      /\ next \in [Rooms -> Rooms \cup {NoRoom}]
  BY DEF dfs_goal, SolverInv
<1>2. next' \in [Rooms -> Rooms \cup {NoRoom}]
  BY <1>1
<1>3. CASE full
  <2>1. Trail /\ out[Len(out)] = goal
    BY <1>1, <1>3 DEF SearchInv
  <2>2. goal \in Reachable /\ Reachable' = Reachable
    BY <1>1, SearchFacts, SameMaze DEF SearchInv
  <2>3. phase' = "found"
    BY <1>1, <1>3
  <2>4. SolvesMaze'
    BY <1>1, <1>3, <2>1, <2>2, <2>3 DEF SolvesMaze, MazeEnded, Trail, Door
  <2> QED
    BY <1>1, <1>2, <2>3, <2>4, SolverStays
<1>4. CASE ~full
  <2>1. PruneInv' /\ phase' = "print"
    BY <1>1, <1>4, SearchEnds
  <2> QED
    BY <1>1, <1>2, <2>1, SolverStays DEF SolvesMaze, MazeEnded
<1> QED
  BY <1>3, <1>4

\* The next room of the way is printed.
LEMMA PrunePrints ==
    ASSUME SolverInv, print_prunned
    PROVE  SolverInv' /\ SolvesMaze'
<1> DEFINE room == IF out = <<>> THEN start ELSE next[out[Len(out)]]
<1>1. /\ PruneInv /\ out' = Append(out, room)
      /\ phase' = IF room = goal THEN "found" ELSE "print"
      /\ UNCHANGED <<size, walls, start, goal, next, full>>
      /\ next \in [Rooms -> Rooms \cup {NoRoom}]
  BY DEF print_prunned, SolverInv
<1>2. Rooms' = Rooms /\ Reachable' = Reachable
  BY <1>1, SameMaze
<1>3. PICK way \in Seq(Rooms) :
        Way(way) /\ Len(out) < Len(way) /\ \A i \in 1..Len(out) : out[i] = way[i]
  BY <1>1 DEF PruneInv
<1>4. PICK m \in Nat, n \in Nat : m = Len(out) /\ n = Len(way)
  BY <1>1, <1>3 DEF PruneInv
<1>5. /\ DOMAIN way = 1..n /\ m < n /\ m + 1 \in 1..n /\ way[m + 1] \in Rooms
  BY <1>3, <1>4, Indices
<1>6. room = way[m + 1]
  <2>1. CASE out = <<>>
    <3>1. m + 1 = 1
      BY <1>4, <2>1
    <3> QED
      BY <1>3, <2>1, <3>1 DEF Way
  <2>2. CASE out # <<>>
    <3>1. m > 0 /\ m \in 1..(Len(way) - 1) /\ m \in 1..Len(out)
      BY <1>1, <1>4, <1>5, <2>2, Indices DEF PruneInv
    <3>2. out[m] = way[m] /\ next[way[m]] = way[m + 1]
      BY <1>3, <3>1 DEF Way
    <3> QED
      BY <1>4, <2>2, <3>2
  <2> QED
    BY <2>1, <2>2
<1>7. /\ out' \in Seq(Rooms) /\ Len(out') = m + 1
      /\ \A i \in 1..(m + 1) : out'[i] = way[i]
  <2>1. PICK V, s, e, u : V = Rooms /\ s = out /\ u = out' /\ e = room
    OBVIOUS
  <2>2. s \in Seq(V) /\ e \in V /\ u = Append(s, e)
    BY <1>1, <1>5, <1>6, <2>1 DEF PruneInv
  <2>3. /\ u \in Seq(V) /\ Len(u) = Len(s) + 1 /\ \A i \in 1..Len(s) : u[i] = s[i]
        /\ u[Len(s) + 1] = e
    BY <2>2, Appended
  <2>4. ASSUME NEW i \in 1..(m + 1)
        PROVE  u[i] = way[i]
    <3>1. CASE i = m + 1
      BY <1>4, <1>6, <2>1, <2>3, <3>1
    <3>2. CASE i # m + 1
      <4>1. i \in 1..Len(s)
        BY <1>4, <2>1, <3>2
      <4> QED
        BY <1>3, <2>1, <2>3, <4>1
    <3> QED
      BY <3>1, <3>2
  <2> QED
    BY <1>4, <2>1, <2>3, <2>4
<1>8. room = goal <=> m + 1 = n
  <2>1. way[n] = goal /\ n \in DOMAIN way /\ m + 1 \in DOMAIN way
    BY <1>3, <1>4, <1>5 DEF Way
  <2> QED
    BY <1>3, <1>6, <2>1 DEF Way
<1>9. ~full /\ goal \in Reachable
  BY <1>1 DEF PruneInv
<1>10. \A w : Way(w)' <=> Way(w)
  BY <1>1 DEF Way, Door
<1>11. CASE room = goal
  <2>1. phase' = "found" /\ m + 1 = n
    BY <1>1, <1>8, <1>11
  <2>2. out'[1] = start /\ out'[Len(out')] = goal
    BY <1>3, <1>4, <1>5, <1>7, <2>1 DEF Way
  <2>3. ASSUME NEW i \in 1..(Len(out') - 1)
        PROVE  Door(out'[i], out'[i + 1])
    <3>1. i \in 1..(Len(way) - 1) /\ i \in 1..(m + 1) /\ i + 1 \in 1..(m + 1)
      BY <1>4, <1>7, <2>1
    <3>2. out'[i] = way[i] /\ out'[i + 1] = way[i + 1]
      BY <1>7, <3>1
    <3> QED
      BY <1>3, <3>1, <3>2 DEF Way
  <2>4. ASSUME NEW i \in DOMAIN out', NEW j \in DOMAIN out', i # j
        PROVE  out'[i] # out'[j]
    <3>1. i \in 1..(m + 1) /\ j \in 1..(m + 1)
      BY <1>7, Indices
    <3>2. out'[i] = way[i] /\ out'[j] = way[j] /\ i \in DOMAIN way /\ j \in DOMAIN way
      BY <1>5, <1>7, <2>1, <3>1
    <3> QED
      BY <1>3, <2>4, <3>2 DEF Way
  <2>5. SolvesMaze'
    BY <1>1, <1>2, <1>9, <2>1, <2>2, <2>3, <2>4 DEF SolvesMaze, MazeEnded, Door
  <2> QED
    BY <1>1, <2>1, <2>5, SolverStays
<1>12. CASE room # goal
  <2>1. phase' = "print" /\ m + 1 < n
    BY <1>1, <1>5, <1>8, <1>12
  <2>2. PruneInv'
    BY <1>1, <1>2, <1>3, <1>4, <1>7, <1>9, <1>10, <2>1 DEF PruneInv
  <2> QED
    BY <1>1, <2>1, <2>2, SolverStays DEF SolvesMaze, MazeEnded
<1> QED
  BY <1>11, <1>12

------------------------------------------------------------------------------
(* The theorems *)

LEMMA MazeInvInit == MazeInit => MazeInv
BY DEF MazeInit, MazeInv, SolvesMaze, MazeEnded

LEMMA MazeInvStep == MazeInv /\ [MazeNext]_maze => MazeInv'
<1> SUFFICES ASSUME MazeInv, [MazeNext]_maze
             PROVE  MazeInv'
  OBVIOUS
<1>1. CASE generator_main
  <2>1. phase' = "walk" /\ size' \in Sizes /\ WalkInv'
    BY <1>1, WalkStarts DEF generator_main
  <2> QED
    BY <2>1 DEF MazeInv, SolvesMaze, MazeEnded
<1>2. CASE drunken_walk
  <2>1. phase' = "walk" /\ phase = "walk" /\ size' = size
    BY <1>2 DEF drunken_walk
  <2>2. WalkInv'
    BY <1>2, <2>1, WalkRounds DEF MazeInv
  <2> QED
    BY <2>1, <2>2 DEF MazeInv, SolvesMaze, MazeEnded
<1>3. CASE drunken_walk_return
  <2>1. phase' = "walk" /\ phase = "walk" /\ size' = size
    BY <1>3 DEF drunken_walk_return
  <2>2. WalkInv'
    BY <1>3, <2>1, WalkReturns DEF MazeInv
  <2> QED
    BY <2>1, <2>2 DEF MazeInv, SolvesMaze, MazeEnded
<1>4. CASE encode_maze
  <2>1. phase' = "file" /\ phase = "walk" /\ size' = size
    BY <1>4 DEF encode_maze
  <2>2. TreeIn(Decoded)'
    BY <1>4, <2>1, WalkIsWritten DEF MazeInv
  <2> QED
    BY <2>1, <2>2 DEF MazeInv, SolvesMaze, MazeEnded
<1>5. CASE other_file
  <2>1. phase' = "file" /\ size' \in FileSizes
    BY <1>5 DEF other_file
  <2> QED
    BY <2>1 DEF MazeInv, SolvesMaze, MazeEnded
<1>6. CASE solver_main
  <2>1. phase' = "dfs" /\ phase = "file" /\ size' = size
    BY <1>6 DEF solver_main
  <2>2. SolverInv'
    BY <1>6, <2>1, SolverStarts DEF MazeInv
  <2> QED
    BY <2>1, <2>2 DEF MazeInv, SolvesMaze, MazeEnded
<1>7. CASE dfs_goal
  <2>1. phase' \in {"found", "print"} /\ phase = "dfs" /\ size' = size
    BY <1>7 DEF dfs_goal
  <2>2. SolverInv' /\ SolvesMaze'
    BY <1>7, <2>1, SearchSucceeds DEF MazeInv
  <2> QED
    BY <2>1, <2>2 DEF MazeInv
<1>8. CASE dfs
  <2>1. phase' = "dfs" /\ phase = "dfs" /\ size' = size
    BY <1>8 DEF dfs
  <2>2. size \in Nat \X Nat
    BY <2>1, SizeFacts DEF MazeInv
  <2>3. SolverInv'
    BY <1>8, <2>1, <2>2, SearchRounds DEF MazeInv
  <2> QED
    BY <2>1, <2>3 DEF MazeInv, SolvesMaze, MazeEnded
<1>9. CASE dfs_return
  <2>1. phase' \in {"no solution", "dfs"} /\ phase = "dfs" /\ size' = size
    BY <1>9 DEF dfs_return
  <2>2. SolverInv' /\ SolvesMaze'
    BY <1>9, <2>1, SearchLeaves DEF MazeInv
  <2> QED
    BY <2>1, <2>2 DEF MazeInv
<1>10. CASE print_prunned
  <2>1. phase' \in {"found", "print"} /\ phase = "print" /\ size' = size
    BY <1>10 DEF print_prunned
  <2>2. SolverInv' /\ SolvesMaze'
    BY <1>10, <2>1, PrunePrints DEF MazeInv
  <2> QED
    BY <2>1, <2>2 DEF MazeInv
<1>11. CASE UNCHANGED maze
  <2>1. UNCHANGED <<phase, size, visited, walls, stack, file, start, goal, next, full, out>>
    BY <1>11 DEF maze
  <2>2. /\ Rooms' = Rooms /\ Reachable' = Reachable /\ WalkFrame' = WalkFrame
        /\ SearchFrame' = SearchFrame
    BY <2>1, SameMaze DEF WalkFrame
  <2>3. WalkInv => WalkInv'
    BY <2>1, <2>2 DEF WalkInv, StackOnce, WalkDecides, WalkAgrees, WalkTree, Pending, Passage,
                      Door
  <2>4. SearchInv => SearchInv'
    BY <2>1, <2>2 DEF SearchInv, StackOnce, Chained, Searched, Trail, Door
  <2>5. PruneInv => PruneInv'
    BY <2>1, <2>2 DEF PruneInv, Way, Door
  <2>6. SolverInv => SolverInv'
    <3>1. SolverInv => next \in [Rooms -> Rooms \cup {NoRoom}]
      BY DEF SolverInv
    <3>2. SolverInv /\ phase = "dfs" => SearchInv
      BY DEF SolverInv
    <3>3. SolverInv /\ phase = "print" => PruneInv
      BY DEF SolverInv
    <3> QED
      BY <2>1, <2>4, <2>5, <3>1, <3>2, <3>3, SolverStays
  <2>7. TreeIn(Decoded) => TreeIn(Decoded)'
    BY <2>1, <2>2 DEF TreeIn, DoorIn, Decoded, direction_index, is_in_range
  <2>8. SolvesMaze'
    BY <2>1, <2>2 DEF MazeInv, SolvesMaze, MazeEnded, Door
  <2> QED
    BY <2>1, <2>3, <2>6, <2>7, <2>8 DEF MazeInv
<1> QED
  BY <1>1, <1>2, <1>3, <1>4, <1>5, <1>6, <1>7, <1>8, <1>9, <1>10, <1>11 DEF MazeNext

LEMMA TreeIsPerfect == MazeInv => PerfectMaze
<1> SUFFICES ASSUME MazeInv, phase = "dfs", size \in Sizes \ FileSizes
             PROVE  /\ \A a, b \in Rooms : Door(a, b) => Door(b, a)
                    /\ \A a \in Rooms, dir \in Direction :
                         ~direction_index(a, dir) => walls[a][dir] = 1
                    /\ Reachable = Rooms
                    /\ Cardinality({d \in Rooms \X Rooms : Door(d[1], d[2])}) =
                         2 * (Cardinality(Rooms) - 1)
  BY DEF PerfectMaze
<1>1. TreeIn(walls) /\ start \in Rooms
  BY DEF MazeInv, SolverInv
<1>2. \A a, b : DoorIn(walls, a, b) <=> Door(a, b)
  BY DEF DoorIn, Door
<1>3. PICK doors : doors = {d \in Rooms \X Rooms : Door(d[1], d[2])}
  OBVIOUS
<1>4. SpanningTree(Rooms, doors)
  <2>1. doors = {d \in Rooms \X Rooms : DoorIn(walls, d[1], d[2])}
    BY <1>2, <1>3
  <2> QED
    BY <1>1, <2>1 DEF TreeIn
<1>5. Reachable = Rooms
  <2>1. Reachable \subseteq Rooms /\ Reachable # {}
    BY <1>1, ReachFacts
  <2>2. \A a \in Reachable, b \in Rooms : <<a, b>> \in doors => b \in Reachable
    BY <1>3, ReachFacts
  <2> QED
    BY <1>4, <2>1, <2>2 DEF SpanningTree, OnePiece
<1>6. Cardinality(doors) = 2 * (Cardinality(Rooms) - 1)
  BY <1>4 DEF SpanningTree
<1> QED
  BY <1>1, <1>2, <1>3, <1>5, <1>6 DEF TreeIn

\* What the two programs keep, of mazes of every size.
THEOREM MazeInvariance == MazeSpec => []MazeInv
<1> QED
  BY MazeInvInit, MazeInvStep, PTL DEF MazeSpec

\* The maze that the generator's drunken walk leaves, as the solver reads it, has
\* no loop and no room that cannot be reached, whatever order the directions come
\* in.
THEOREM MazeIsPerfect == MazeSpec => []PerfectMaze
<1> QED
  BY MazeInvariance, TreeIsPerfect, PTL

\* The solver finds a way exactly when there is one, through doors and without
\* visiting a room twice; also through a maze whose doors open one way.
THEOREM SearchIsSound == MazeSpec => []SolvesMaze
<1>1. MazeInv => SolvesMaze
  BY DEF MazeInv
<1> QED
  BY <1>1, MazeInvariance, PTL
==============================================================================
