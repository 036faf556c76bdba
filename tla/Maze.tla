-------------------------------- MODULE Maze ---------------------------------
(***************************************************************************)
(* The maze programs of src/maze: the generator carves a maze by a         *)
(* drunken walk and writes each room as a hexadecimal digit; the solver    *)
(* reads the digits back and searches a way from one room to another.      *)
(* Recursion is a stack of activations, innermost first.  The array of     *)
(* rooms is a function on <<row, column>>; get_index is its position in    *)
(* the array.                                                              *)
(***************************************************************************)
EXTENDS Integers, Sequences, FiniteSets

CONSTANTS
    Sizes,     \* <<rows, columns>> the generator is run with
    FileSizes  \* <<rows, columns>> of mazes that somebody else wrote

ASSUME SizesPositive == Sizes \cup FileSizes \subseteq (Nat \ {0}) \X (Nat \ {0})

VARIABLES
    phase,     \* which program runs, and where it is
    size,      \* <<num_rows, num_cols>>
    visited,   \* rooms whose flag visited is 1
    walls,     \* connections: 1 a wall, 0 a door, -1 not yet decided
    stack,     \* activations of drunken_walk or dfs: the room, and the directions
               \* that its loop still has to try
    file,      \* the digit written for each room
    start, goal,
    next,      \* the solver's next room of each room
    full,      \* the solver is compiled with FULL
    out        \* the rooms it writes

maze == <<phase, size, visited, walls, stack, file, start, goal, next, full, out>>

NORTH == 0
SOUTH == 1
WEST == 2
EAST == 3
Direction == {NORTH, SOUTH, WEST, EAST}
NoRoom == <<-1, -1>>

is_in_range(room) == room[1] \in 0..(size[1] - 1) /\ room[2] \in 0..(size[2] - 1)

Rooms == (0..(size[1] - 1)) \X (0..(size[2] - 1))

get_neighbor(room, dir) ==
    CASE dir = NORTH -> <<room[1] - 1, room[2]>>
      [] dir = SOUTH -> <<room[1] + 1, room[2]>>
      [] dir = WEST  -> <<room[1], room[2] - 1>>
      [] dir = EAST  -> <<room[1], room[2] + 1>>

direction_index(room, dir) == is_in_range(get_neighbor(room, dir))

get_opposite_dir(dir) ==
    CASE dir = NORTH -> SOUTH [] dir = SOUTH -> NORTH
      [] dir = WEST -> EAST   [] dir = EAST -> WEST

\* shuffle_array: each place is swapped with one that rand() % 4 gives.
Swapped(a, i, j) == [a EXCEPT ![i] = a[j], ![j] = a[i]]
shuffle_array(a) ==
    LET shuffled[i \in 0..4] ==
          IF i = 0 THEN {a}
          ELSE {Swapped(b, i - 1, j) : b \in shuffled[i - 1], j \in 0..3}
    IN shuffled[4]

\* Every order can come out of it, so the walk may take the directions one by
\* one in any order.
ASSUME ShuffleReachesAll ==
    shuffle_array([i \in 0..3 |-> i]) =
        {f \in [0..3 -> Direction] : \A i, j \in 0..3 : i # j => f[i] # f[j]}

Frame(room, dirs) == [room |-> room, dirs |-> dirs]
Idle == UNCHANGED <<start, goal, next, full, out>>

MazeInit ==
    /\ phase = "none" /\ size = <<0, 0>> /\ visited = {} /\ walls = <<>>
    /\ stack = <<>> /\ file = <<>> /\ start = NoRoom /\ goal = NoRoom
    /\ next = <<>> /\ full = FALSE /\ out = <<>>

------------------------------------------------------------------------------
(* generator.c *)

generator_main ==
    /\ phase = "none"
    /\ size' \in Sizes
    /\ walls' = [room \in Rooms' |-> [dir \in Direction |-> -1]]
    /\ phase' = "walk"
    /\ visited' = {<<0, 0>>}
    /\ stack' = <<Frame(<<0, 0>>, Direction)>>
    /\ UNCHANGED file /\ Idle

\* Mutation: a wall towards every room already visited.
seen_walls(room, dir) == 1

\* The connection to a room already visited: what that room has decided, or else
\* a wall.
seen_connection(room, dir) ==
    LET other == walls[get_neighbor(room, dir)][get_opposite_dir(dir)]
    IN IF other \in {0, 1} THEN other ELSE 1

\* One round of the loop of drunken_walk, up to its recursive call.
drunken_walk ==
    /\ phase = "walk" /\ stack # <<>>
    /\ \E dir \in Head(stack).dirs :
         LET room == Head(stack).room
             neighbor == get_neighbor(room, dir)
             rest == <<Frame(room, Head(stack).dirs \ {dir})>> \o Tail(stack)
             connect(c) == walls' = [walls EXCEPT ![room][dir] = c]
         IN
         \/ /\ ~direction_index(room, dir)
            /\ connect(1)
            /\ stack' = rest
            /\ UNCHANGED visited
         \/ /\ direction_index(room, dir) /\ neighbor \notin visited
            /\ connect(0)
            /\ visited' = visited \cup {neighbor}
            /\ stack' = <<Frame(neighbor, Direction)>> \o rest
         \/ /\ direction_index(room, dir) /\ neighbor \in visited
            /\ connect(seen_connection(room, dir))
            /\ stack' = rest
            /\ UNCHANGED visited
    /\ UNCHANGED <<phase, size, file>> /\ Idle

drunken_walk_return ==
    /\ phase = "walk" /\ stack # <<>> /\ Head(stack).dirs = {}
    /\ stack' = Tail(stack)
    /\ UNCHANGED <<phase, size, visited, walls, file>> /\ Idle

encode_room(c) == c[0] * 1 + c[1] * 2 + c[2] * 4 + c[3] * 8

encode_maze ==
    /\ phase = "walk" /\ stack = <<>>
    /\ file' = [room \in Rooms |-> encode_room(walls[room])]
    /\ phase' = "file"
    /\ UNCHANGED <<size, visited, walls, stack>> /\ Idle

\* A maze from elsewhere: any doors between neighbours, open both ways or one.
other_file ==
    /\ phase = "none"
    /\ size' \in FileSizes
    /\ \E doors \in SUBSET {d \in Rooms' \X Direction :
                              get_neighbor(d[1], d[2]) \in Rooms'} :
         file' = [room \in Rooms' |->
                    encode_room([dir \in Direction |->
                        IF <<room, dir>> \in doors THEN 0 ELSE 1])]
    /\ phase' = "file"
    /\ UNCHANGED <<visited, walls, stack>> /\ Idle

------------------------------------------------------------------------------
(* solver.c *)

\* create_room_connections takes the weights 8, 4, 2, 1 off in that order.
create_room_connections(hex) ==
    LET east == IF hex >= 8 THEN 1 ELSE 0
        hex4 == hex - 8 * east
        west == IF hex4 >= 4 THEN 1 ELSE 0
        hex2 == hex4 - 4 * west
        south == IF hex2 >= 2 THEN 1 ELSE 0
        north == IF hex2 - 2 * south = 1 THEN 1 ELSE 0
    IN [dir \in Direction |-> <<north, south, west, east>>[dir + 1]]

solver_main ==
    /\ phase = "file"
    /\ walls' = [room \in Rooms |-> create_room_connections(file[room])]
    /\ next' = [room \in Rooms |-> NoRoom]
    /\ start' \in Rooms /\ goal' \in Rooms /\ full' \in BOOLEAN
    /\ visited' = {start'}
    /\ stack' = <<Frame(start', 0)>>
    /\ out' = IF full' THEN <<start'>> ELSE <<>>
    /\ phase' = "dfs"
    /\ UNCHANGED <<size, file>>

Writes(room) == IF full THEN <<room>> ELSE <<>>

\* dfs at the goal: every activation returns 1.
dfs_goal ==
    /\ phase = "dfs" /\ stack # <<>> /\ Head(stack).room = goal
    /\ next' = [next EXCEPT ![goal] = goal]
    /\ stack' = <<>>
    /\ phase' = IF full THEN "found" ELSE "print"
    /\ UNCHANGED <<size, visited, walls, file, start, goal, full, out>>

\* One round of the loop of dfs: enter the neighbour, or try the next direction.
\* next is set for every direction tried, also for a wall.
dfs ==
    /\ phase = "dfs" /\ stack # <<>> /\ Head(stack).room # goal /\ Head(stack).dirs < 4
    /\ LET room == Head(stack).room
           dir == Head(stack).dirs
           neighbor == get_neighbor(room, dir)
           rest == <<Frame(room, dir + 1)>> \o Tail(stack)
       IN IF direction_index(room, dir)
          THEN /\ next' = [next EXCEPT ![room] = neighbor]
               /\ IF walls[room][dir] = 0 /\ neighbor \notin visited
                  THEN /\ visited' = visited \cup {neighbor}
                       /\ stack' = <<Frame(neighbor, 0)>> \o rest
                       /\ out' = out \o Writes(neighbor)
                  ELSE stack' = rest /\ UNCHANGED <<visited, out>>
          ELSE stack' = rest /\ UNCHANGED <<next, visited, out>>
    /\ UNCHANGED <<phase, size, walls, file, start, goal, full>>

\* Mutation: going back is not written.
silent_return ==
    /\ phase = "dfs" /\ stack # <<>> /\ Head(stack).room # goal /\ Head(stack).dirs = 4
    /\ stack' = Tail(stack)
    /\ phase' = IF Len(stack) = 1 THEN "no solution" ELSE "dfs"
    /\ UNCHANGED <<size, visited, walls, file, start, goal, next, full, out>>

\* No direction is left: return 0 to the caller, which writes its room again.
dfs_return ==
    /\ phase = "dfs" /\ stack # <<>> /\ Head(stack).room # goal /\ Head(stack).dirs = 4
    /\ stack' = Tail(stack)
    /\ out' = IF Len(stack) = 1 THEN out ELSE out \o Writes(stack[2].room)
    /\ phase' = IF Len(stack) = 1 THEN "no solution" ELSE "dfs"
    /\ UNCHANGED <<size, visited, walls, file, start, goal, next, full>>

\* print_prunned from the start along next, one room per activation.
print_prunned ==
    /\ phase = "print"
    /\ LET room == IF out = <<>> THEN start ELSE next[out[Len(out)]] IN
       /\ out' = Append(out, room)
       /\ phase' = IF room = goal THEN "found" ELSE "print"
    /\ UNCHANGED <<size, visited, walls, stack, file, start, goal, next, full>>

MazeEnded == phase \in {"found", "no solution"}

MazeNext ==
    \/ generator_main \/ drunken_walk \/ drunken_walk_return \/ encode_maze
    \/ other_file
    \/ solver_main \/ dfs_goal \/ dfs \/ dfs_return \/ print_prunned

MazeSpec == MazeInit /\ [][MazeNext]_maze

------------------------------------------------------------------------------
(* What the two programs achieve *)

Door(a, b) ==
    \E dir \in Direction : get_neighbor(a, dir) = b /\ walls[a][dir] = 0

\* Nobody gets out of such rooms through a door.
NoDoorOut(rooms) == \A a \in rooms, b \in Rooms : Door(a, b) => b \in rooms

Reachable ==
    LET closed == {rooms \in SUBSET Rooms : start \in rooms /\ NoDoorOut(rooms)}
    IN {b \in Rooms : \A rooms \in closed : b \in rooms}

\* The file of the generator, read as the solver reads it, is a maze without
\* loops in which every room can be reached: its doors agree on both sides, none
\* leads outside, and they are a spanning tree of the rooms.
PerfectMaze ==
    phase = "dfs" /\ size \in Sizes \ FileSizes =>
      /\ \A a, b \in Rooms : Door(a, b) => Door(b, a)
      /\ \A a \in Rooms, dir \in Direction : ~direction_index(a, dir) => walls[a][dir] = 1
      /\ Reachable = Rooms
      /\ Cardinality({d \in Rooms \X Rooms : Door(d[1], d[2])}) = 2 * (Cardinality(Rooms) - 1)

\* The solver finds a way exactly when there is one.  The way it prints leads
\* from start to goal through doors and visits no room twice; with FULL, each
\* room written is entered from the one before, or gone back to.
SolvesMaze ==
    MazeEnded =>
      /\ phase = "found" <=> goal \in Reachable
      /\ full \/ phase = "found" => out[1] = start
      /\ phase = "found" => out[Len(out)] = goal
      /\ \A i \in 1..(Len(out) - 1) :
           Door(out[i], out[i + 1]) \/ (full /\ Door(out[i + 1], out[i]))
      /\ ~full => \A i, j \in DOMAIN out : i # j => out[i] # out[j]
==============================================================================
