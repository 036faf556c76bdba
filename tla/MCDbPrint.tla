------------------------------ MODULE MCDbPrint ------------------------------
(***************************************************************************)
(* Small instances of a print among the client threads.                    *)
(***************************************************************************)
EXTENDS MCDbTree, DbPrint

MCPrintSpec == MCInit /\ PrintInit /\ [][PrintNext]_<<vars, printer>>
==============================================================================
