------------------------------ MODULE MCMalloc -------------------------------
(***************************************************************************)
(* Small instances of the malloc library. The client writes words that are *)
(* zero or that, read as a size, lead far outside the arena.               *)
(***************************************************************************)
EXTENDS MallocProps

Zero == [val |-> 0, bit |-> 0]
MCFills == {Zero, [val |-> 4 * Base, bit |-> 1]}

(***************************************************************************)
(* Between calls, two states that differ only in words that nobody will    *)
(* read before they are written are explored once. In use are the tags of  *)
(* the blocks, the list pointers of the free ones and the words that the   *)
(* client asked for; the other words are what earlier blocks left behind.  *)
(***************************************************************************)
InUse ==
  UNION ({{b, b + block_size(b) - 1} : b \in blocks}
           \cup {{b + 1, b + 2} : b \in FreeBlocks}
           \cup {p .. (p + align(live[p]) - 1) : p \in DOMAIN live})

View ==
  <<IF pc = "idle" THEN [a \in InUse \cap Arena |-> mem[a]] ELSE mem,
    brk, flist_first, epilogue, blocks, live, pc, call, blk, ret, ok>>
==============================================================================
