----------------------------- MODULE SimpleShell -----------------------------
(***************************************************************************)
(* The loop of the first shell, src/shell_1/sh.c: it redirects its own     *)
(* standard input and output for a command and puts them back afterwards.  *)
(* A descriptor is what it refers to, or "free".                           *)
(***************************************************************************)
EXTENDS Parse

VARIABLES
    fd,       \* the shell's descriptors
    ifd, ofd, \* what redir returned
    served    \* history: the flags whose file could be opened

descriptors == <<fd, ifd, ofd, served>>

STDIN_FILENO == 0
STDOUT_FILENO == 1
stdin == 3     \* dup(STDIN_FILENO) and
stdout == 4    \* dup(STDOUT_FILENO) when the shell starts

StartingFds ==
    [n \in 0..6 |-> CASE n \in {0, 3} -> "terminal_in" [] n \in {1, 4} -> "terminal_out"
                      [] n = 2 -> "terminal_err" [] OTHER -> "free"]

SimpleShellInit ==
    /\ ParserInit
    /\ fd = StartingFds /\ ifd = STDIN_FILENO /\ ofd = STDOUT_FILENO /\ served = {}

main_repl ==
    /\ ppc = "none"
    /\ sh' \in {1, 2}
    /\ ppc' = "read"
    /\ UNCHANGED <<line, c, argc, narg, iflag, oflag, aflag, iname, oname, descriptors>>

GoTo(step) ==
    /\ ppc' = step
    /\ UNCHANGED <<sh, line, c, argc, narg, iflag, oflag, aflag, iname, oname>>

\* The line is given up, or (second shell) goes to the job control of Shell.
\* Its flags are not used again.
repl_again ==
    /\ ppc = "rejected" \/ (ppc = "parsed" /\ sh = 2) \/ ppc = "restored"
    /\ ppc' = "read" /\ line' = <<>> /\ c' = 0 /\ argc' = <<>> /\ narg' = 0
    /\ iflag' = 0 /\ oflag' = 0 /\ aflag' = 0 /\ iname' = 0 /\ oname' = 0
    /\ ifd' = STDIN_FILENO /\ ofd' = STDOUT_FILENO /\ served' = {}
    /\ UNCHANGED <<sh, fd>>

\* open gives the lowest free descriptor, which dup2 copies to std.
Opened(std, what) ==
    LET tempfd == CHOOSE n \in DOMAIN fd :
                    fd[n] = "free" /\ \A m \in 0..(n - 1) : fd[m] # "free"
    IN /\ fd' = [fd EXCEPT ![tempfd] = what, ![std] = what]
       /\ served' = served \cup {what}
       /\ IF std = STDIN_FILENO THEN ifd' = tempfd /\ UNCHANGED ofd
          ELSE ofd' = tempfd /\ UNCHANGED ifd

\* redir: when open fails the standard descriptor stays, and the command runs.
redir(std, what) == Opened(std, what) \/ UNCHANGED descriptors

redir_input ==
    /\ ppc = "parsed" /\ sh = 1
    /\ GoTo("input_done")
    /\ IF iflag # 0 THEN redir(STDIN_FILENO, "input_file") ELSE UNCHANGED descriptors

redir_output ==
    /\ ppc = "input_done"
    /\ GoTo("run")
    /\ IF oflag # 0 THEN redir(STDOUT_FILENO, "output_file") ELSE UNCHANGED descriptors

\* cd, rm, ln, or a child that inherits the descriptors and is waited for.
run_command == ppc = "run" /\ GoTo("ran") /\ UNCHANGED descriptors

\* End of input.
repl_eof == ppc = "read" /\ sh = 1 /\ GoTo("done") /\ UNCHANGED descriptors

\* The command exit, and a fork that fails.
return_or_exit == ppc = "run" /\ GoTo("done") /\ UNCHANGED descriptors

\* Mutation: the file is closed but the standard descriptor not put back.
close_only(std, saved, opened) == [fd EXCEPT ![opened] = "free"]

\* dup2(saved, std) and close of what redir opened.
put_back(std, saved, opened) == [fd EXCEPT ![std] = fd[saved], ![opened] = "free"]

restore_output ==
    /\ ppc = "ran"
    /\ GoTo("output_restored")
    /\ fd' = IF ofd # STDOUT_FILENO THEN put_back(STDOUT_FILENO, stdout, ofd) ELSE fd
    /\ ofd' = STDOUT_FILENO
    /\ UNCHANGED <<ifd, served>>

restore_input ==
    /\ ppc = "output_restored"
    /\ GoTo("restored")
    /\ fd' = IF ifd # STDIN_FILENO THEN put_back(STDIN_FILENO, stdin, ifd) ELSE fd
    /\ ifd' = STDIN_FILENO
    /\ UNCHANGED <<ofd, served>>

SimpleShellNext ==
    \/ main_repl
    \/ ParseNext /\ UNCHANGED descriptors
    \/ repl_again \/ redir_input \/ redir_output
    \/ run_command \/ repl_eof \/ return_or_exit \/ restore_output \/ restore_input

SimpleShellSpec == SimpleShellInit /\ [][SimpleShellNext]_<<parser, descriptors>>

------------------------------------------------------------------------------
\* Whatever a line redirects and whichever of its files could be opened, the
\* command runs with exactly those redirections, and at the next prompt the
\* shell has its own descriptors again and no other.
DescriptorsRestored ==
    /\ ppc = "read" => fd = StartingFds
    /\ ppc = "run" =>
         /\ fd[STDIN_FILENO] =
              IF "input_file" \in served THEN "input_file" ELSE "terminal_in"
         /\ fd[STDOUT_FILENO] =
              IF "output_file" \in served THEN "output_file" ELSE "terminal_out"
         /\ served \subseteq {w \in {"input_file", "output_file"} :
                                IF w = "input_file" THEN Inputs # {} ELSE Outputs # {}}

\* The inductive invariant behind it: the descriptors are the shell's own but for
\* the files that ifd and ofd say are open, and these are the ones of the line.
Redirected ==
    [n \in 0..6 |-> IF ifd # STDIN_FILENO /\ n \in {STDIN_FILENO, ifd} THEN "input_file"
                   ELSE IF ofd # STDOUT_FILENO /\ n \in {STDOUT_FILENO, ofd}
                   THEN "output_file" ELSE StartingFds[n]]
DescriptorsInv ==
    /\ fd = Redirected
    /\ <<ifd, ofd>> \in {<<0, 1>>, <<5, 1>>, <<0, 5>>, <<5, 6>>}
    /\ ppc \in {"none", "read", "parse", "parsed", "rejected", "restored"} =>
         ifd = STDIN_FILENO /\ ofd = STDOUT_FILENO
    /\ ppc \in {"input_done", "output_restored"} => ofd = STDOUT_FILENO
    /\ ppc \in {"none", "read", "parse", "parsed", "rejected"} => served = {}
    /\ served \subseteq {"input_file", "output_file"}
    /\ ppc \in {"input_done", "run"} =>
         /\ "input_file" \in served <=> ifd # STDIN_FILENO
         /\ "output_file" \in served <=> ofd # STDOUT_FILENO
         /\ ifd # STDIN_FILENO => iflag # 0
         /\ ofd # STDOUT_FILENO => oflag # 0

\* What parse has saved and what redir has opened, at every step of repl.
SimpleShellInv == ParseInv /\ DescriptorsInv
==============================================================================
