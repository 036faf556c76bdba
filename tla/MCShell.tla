------------------------------ MODULE MCShell --------------------------------
(***************************************************************************)
(* Small instances of the job-control shell.                               *)
(***************************************************************************)
EXTENDS ShellProps
==============================================================================
