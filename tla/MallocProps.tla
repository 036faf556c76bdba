----------------------------- MODULE MallocProps -----------------------------
(***************************************************************************)
(* What keeps the malloc library sound: the boundary tags, the free list   *)
(* and the client's pointers describe the same partition of the heap.      *)
(***************************************************************************)
EXTENDS Malloc

FreeBlocks == {b \in blocks : ~block_allocated(b)}

(***************************************************************************)
(* mm.h says of a block that "there is a copy of the size field at the end *)
(* of the block": both tags of every block are equal. block_prev, and with *)
(* it coalesce, depends on it.                                             *)
(***************************************************************************)
TagsAgree ==
  \A b \in blocks : mem[b + block_size(b) - 1] = mem[b]

(***************************************************************************)
(* The blocks tile the heap from the prologue to the epilogue, which ends  *)
(* at the break: every block starts where another one ends, none overlap,  *)
(* and none is smaller than MINBLOCKSIZE. It holds between the steps of a  *)
(* call as well.                                                           *)
(***************************************************************************)
Tiled ==
  /\ {Base, epilogue} \subseteq blocks
  /\ \A b \in blocks :
       /\ block_size(b) >= MINBLOCKSIZE
       /\ IF b = epilogue THEN block_next(b) = brk
                          ELSE block_next(b) \in blocks
  /\ \A b, c \in blocks : b < c => block_next(b) <= c
  /\ TagsAgree

(***************************************************************************)
(* The free list holds exactly the free blocks, in one circle that reads   *)
(* the same forwards and backwards: the search of mm_malloc ends, and      *)
(* misses no block. Between two steps of split and of coalesce the blocks  *)
(* in transit are not on the list.                                         *)
(***************************************************************************)
InTransit ==
  CASE pc \in {"split", "insert", "pull_next"} -> {blk}
    [] pc = "split_insert" -> {block_next(blk)}
    [] pc = "merge" -> (IF prev_free THEN {blk} ELSE {})
                         \cup (IF next_free THEN {block_next(blk)} ELSE {})
    [] OTHER -> {}

FreeListExact ==
  /\ closes
  /\ on_list = FreeBlocks \ InTransit
  /\ \A b \in on_list : block_prev_free(block_next_free(b)) = b

(***************************************************************************)
(* Between calls no two free blocks are neighbours. split does not         *)
(* coalesce the tail it cuts off ("The idea of coalescing here is          *)
(* appealing but ..."), and need not: the block it splits was free, so its *)
(* neighbour is allocated.                                                 *)
(***************************************************************************)
Coalesced ==
  pc = "idle" => \A b \in FreeBlocks : block_next(b) \notin FreeBlocks

(***************************************************************************)
(* Between calls the allocated blocks are the two sentinels and one block  *)
(* for each pointer of the client, large enough for what it asked for:     *)
(* mm_malloc, mm_free and mm_realloc leak nothing.                         *)
(***************************************************************************)
NothingLeaks ==
  pc = "idle" =>
    /\ blocks \ FreeBlocks
         = {Base, epilogue} \cup {payload_to_block(p) : p \in DOMAIN live}
    /\ \A p \in DOMAIN live :
         live[p] <= WORD_SIZE * (block_size(payload_to_block(p)) - TAGS_SIZE)

(***************************************************************************)
(* The heap grows only for a request that no free block can serve.         *)
(***************************************************************************)
GrowsOnlyWhenFull ==
  [][brk' > brk => \A b \in FreeBlocks : block_size(b) < brk' - brk]_vars

(***************************************************************************)
(* No assert fails and no wild address is used, except in the two places   *)
(* where the code reads what it should not: mm_realloc of a block that     *)
(* must grow and whose first word is not zero, and mm_check_heap with an   *)
(* empty free list.                                                        *)
(***************************************************************************)
DiesOnlyWhereKnown ==
  [][ok /\ ~ok' => \/ pc = "idle" /\ flist_first = NULL
                   \/ pc = "mm_realloc" /\ mem[call.ptr].val # 0]_vars

(***************************************************************************)
(* The library implements the abstract allocator: pointers stand for       *)
(* disjoint regions, and the client finds in them what it wrote, also      *)
(* after mm_realloc. A pointer passed to free is given up when the call is *)
(* made. Once mm_realloc has copied a block, the client's data is in the   *)
(* copy.                                                                   *)
(***************************************************************************)
GivenUp == IF call.fn \in {"free", "realloc"} /\ call.size = 0
             THEN {call.ptr} ELSE {}

Copied(p) ==
  /\ Growing /\ p = call.ptr
  /\ ret # NULL
  /\ pc \notin {"split_insert", "copy"}

store == [p \in DOMAIN live \ GivenUp |->
            [a \in p .. (p + align(live[p]) - 1) |->
               IF Copied(p) THEN mem[ret + (a - p)] ELSE mem[a]]]

Abstract == INSTANCE Allocator
Allocates == Abstract!Spec
------------------------------------------------------------------------------
(* The inductive invariant behind the properties above. *)

Freeing == pc \in {"insert", "coalesce", "pull_next", "merge"}
Taking == pc \in {"mm_malloc", "split", "split_insert"}

MallocTypeOK ==
  /\ mem \in [Arena -> Word] /\ brk \in Nat /\ ok \in BOOLEAN
  /\ pc \in {"idle", "mm_malloc", "split", "split_insert", "mm_free", "insert", "coalesce",
             "pull_next", "merge", "mm_realloc", "copy", "return"}
  /\ call \in [fn : {"none", "malloc", "free", "realloc"}, ptr : Nat, size : Sizes \cup {0},
              fill : Word]
  /\ blk \in Nat /\ ret \in Nat
  /\ \A p \in DOMAIN live : p \in Nat /\ live[p] \in Sizes

\* The memory m is cut into the blocks B, up to the epilogue e and the break k. Each
\* block but the prologue follows another.
Heap(m, B, e, k) ==
  /\ m \in [Arena -> Word] /\ k \in Nat /\ k <= Base + MaxHeap
  /\ B \subseteq Base .. (k - 1) /\ Base \in B /\ e \in B
  /\ \A b \in B : /\ m[b].val >= 4
                  /\ m[b + m[b].val - 1] = m[b]
                  /\ b # e => b + m[b].val \in B
  /\ m[e].val = 4 /\ e + 4 = k
  /\ \A b, c \in B : b < c => b + m[b].val <= c
  /\ \A b \in B \ {Base} : \E c \in B : c + m[c].val = b

HeapOK == Heap(mem, blocks, epilogue, brk)

\* The blocks L are linked in a circle, f among them: the two links of a block are
\* inverse to each other, and no part of the circle is closed in itself.
Ring(m, L, f) ==
  /\ f \in L \/ (f = NULL /\ L = {})
  /\ \A b \in L : /\ m[b + 1].val \in L /\ m[m[b + 1].val + 2].val = b
                  /\ m[b + 2].val \in L /\ m[m[b + 2].val + 1].val = b
  /\ \A S \in SUBSET L : S # {} /\ (\A b \in S : m[b + 1].val \in S) => S = L

Listed == FreeBlocks \ InTransit
ListOK == InTransit \subseteq FreeBlocks /\ Ring(mem, Listed, flist_first)

\* An allocated block is a sentinel or belongs to a pointer, of the client or on
\* its way there.
Released == IF Freeing THEN {call.ptr}
            ELSE IF pc = "return" THEN dropped \ (gained \cup {NULL}) ELSE {}
Owned == (DOMAIN live \ Released) \cup gained
           \cup (IF pc = "split_insert" THEN {payload(blk)} ELSE {})
BitsOK ==
  /\ epilogue # Base
  /\ \A b \in blocks : mem[b].bit = 1 <=> b \in {Base, epilogue} \/ b + 1 \in Owned
  /\ \A p \in Owned : p - 1 \in blocks \ {Base, epilogue}

\* The block of a pointer is large enough for what the client asked for, and the
\* block on its way to the client for what it asks for now.
RoomOK ==
  \A p \in DOMAIN live \ Released : align(live[p]) + TAGS_SIZE <= mem[p - 1].val
RetOK ==
  ret # NULL =>
    /\ nsize <= mem[ret - 1].val
    /\ IF ret = call.ptr THEN pc = "return" ELSE ret \notin DOMAIN live

\* Free neighbours are being merged.
MergeOK ==
  \A b, c \in FreeBlocks : c = b + mem[b].val => Freeing /\ blk \in {b, c}

\* What the step of the call says of its arguments and of its result.
CallOK ==
  /\ pc = "idle" => call = NoCall /\ ret = NULL
  /\ call.ptr \in DOMAIN live \cup {NULL}
  /\ call.size = 0 => ret = NULL
  /\ Taking \/ pc = "mm_realloc" => ret = NULL
  /\ pc = "copy" => Growing
  /\ Taking => call.fn = "realloc" \/ call.ptr = NULL
  /\ pc = "mm_realloc" => call.fn = "realloc"
  /\ (Taking \/ pc = "copy") /\ Growing => call.size # 0
  /\ pc \in {"split", "split_insert"} => call.size # 0
  /\ Freeing \/ pc = "mm_free" => call.ptr # NULL /\ (call.size # 0 => ret # NULL)
  /\ Freeing => blk = payload_to_block(call.ptr)

\* What it says of the blocks that the call works on.
WorkOK ==
  /\ (Taking \/ pc = "copy") /\ Growing => nsize > mem[call.ptr - 1].val
  /\ pc = "split" => blk \in FreeBlocks /\ mem[blk].val >= nsize
  /\ pc = "split_insert" =>
       blk \in blocks /\ mem[blk].val = nsize /\ block_next(blk) \in FreeBlocks
         /\ payload(blk) \notin DOMAIN live
  /\ Freeing => blk \in FreeBlocks
  /\ pc = "pull_next" => prev_free /\ next_free
  /\ pc = "merge" => prev_free \/ next_free

MallocInv ==
  /\ MallocTypeOK /\ HeapOK /\ ListOK /\ BitsOK /\ RoomOK /\ RetOK /\ MergeOK
  /\ CallOK /\ WorkOK

\* mm_realloc is about to copy a word too many: into the end tag of the new block.
Overruns ==
  pc = "copy" /\ ret # NULL /\ block_size(payload_to_block(ret)) = csize + 1

\* It never is if every request is an even number of words: then all blocks start at
\* an even distance from the first.
EvenRequests == \A size \in Sizes : align(size) % 2 = 0
EvenPlace(b) == (b - Base) % 2 = 0
Evenly == \A b \in blocks : EvenPlace(b)
==============================================================================
