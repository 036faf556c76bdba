------------------------------ MODULE MCPrograms -----------------------------
(***************************************************************************)
(* The small sequential programs, one of which runs in each behaviour: the *)
(* maze programs, the first shell with both parsers, the string library,   *)
(* the bit puzzles, the database client on its connection.                 *)
(***************************************************************************)
EXTENDS Maze, SimpleShell, StringLib, BitPuzzles, Wire

VARIABLE program    \* the one that runs

mcvars == <<program, maze, parser, descriptors, strings, arguments, wire>>

\* The generator's mazes and the smallest arbitrary ones with a loop.
MCSizes == {<<2, 3>>, <<1, 3>>}
MCFileSizes == {<<2, 2>>}

Init ==
    /\ MazeInit /\ SimpleShellInit /\ StringsInit /\ BitsInit /\ WireInit
    /\ program \in {"maze", "shell", "strings", "bits", "wire"}

RunMaze ==
    /\ program = "maze" /\ MazeNext
    /\ UNCHANGED <<program, parser, descriptors, strings, arguments, wire>>

RunShell ==
    /\ program = "shell" /\ SimpleShellNext
    /\ UNCHANGED <<program, maze, strings, arguments, wire>>

RunStrings ==
    /\ program = "strings" /\ StringsNext
    /\ UNCHANGED <<program, maze, parser, descriptors, arguments, wire>>

RunBits ==
    /\ program = "bits" /\ BitsNext
    /\ UNCHANGED <<program, maze, parser, descriptors, strings, wire>>

RunWire ==
    /\ program = "wire" /\ WireNext
    /\ UNCHANGED <<program, maze, parser, descriptors, strings, arguments>>

\* A program may stop only where it has ended.
Ended ==
    /\ CASE program = "maze" -> MazeEnded
         [] program = "shell" -> ppc = "done"
         [] program = "strings" -> StringsEnded
         [] program = "wire" -> WireEnded
         [] program = "bits" -> arguments # <<>>
    /\ UNCHANGED mcvars

Next == RunMaze \/ RunShell \/ RunStrings \/ RunBits \/ RunWire \/ Ended

Spec == Init /\ [][Next]_mcvars
==============================================================================
