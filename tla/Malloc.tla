------------------------------- MODULE Malloc --------------------------------
(***************************************************************************)
(* The malloc library: mm.c and the block and free-list operations of      *)
(* mminline.h, on the simulated memory of memlib.c.                        *)
(*                                                                         *)
(* Addresses and block sizes count words. A word of memory is a record:    *)
(* `val' is the word without its lowest bit, read as a size or an address, *)
(* `bit' the lowest bit, the allocated flag of a tag. Tags, list pointers  *)
(* and the client's data share the words, as they do in the program.       *)
(*                                                                         *)
(* One call is under way at a time. A step of it makes at most one change  *)
(* of the free list, and pc says which step comes next.                    *)
(***************************************************************************)
EXTENDS Integers, FiniteSets, Sequences

CONSTANTS Base,      \* mem_start_brk, far above any size of a block
          MaxHeap,   \* MAX_HEAP in words
          Sizes,     \* the sizes, in bytes, that the client asks for
          Fills,     \* the words that the client writes
          MaxLive    \* bound on the pointers the client holds at a time

VARIABLES
  mem,          \* the simulated memory
  brk,          \* mem_brk
  flist_first, epilogue,  \* the library's globals
  live,         \* the pointers the client holds, with the sizes it asked for
  pc, call,     \* the step and the arguments of the call under way
  blk,          \* the block it works on
  ret,          \* the pointer it will return
  ok,           \* FALSE once an assert has failed or a word of the client's
                \* has been followed as if it were a size: nothing runs after
  blocks        \* history: the addresses at which blocks start

heapvars == <<mem, brk, flist_first, epilogue, blocks>>
callvars == <<call, blk, ret>>
vars == <<heapvars, live, pc, callvars, ok>>

NULL == 0
WORD_SIZE == 8
TAGS_SIZE == 2
MINBLOCKSIZE == 4

Word == [val : Nat, bit : {0, 1}]
Arena == Base .. (Base + MaxHeap - 1)
MaxBlocks == MaxHeap \div MINBLOCKSIZE

ASSUME ArenaAssumption ==
  /\ Base \in Nat /\ MaxHeap \in Nat
  /\ MaxHeap >= 3 * MINBLOCKSIZE /\ Base > MaxHeap
ASSUME ClientAssumption ==
  Sizes \subseteq Nat \ {0} /\ Fills \subseteq Word /\ MaxLive \in Nat

-----------------------------------------------------------------------------
(* Blocks *)

At(step) == ok /\ pc = step

Tag(size, allocated) == [val |-> size, bit |-> allocated]
Pointer(b) == [val |-> b, bit |-> 0]

word(a) == IF a \in Arena THEN mem[a] ELSE Tag(0, 1)
assert(cond) == ok' = (ok /\ cond)

block_allocated(b) == word(b).bit = 1
block_size(b) == word(b).val
block_prev(b) == b - word(b - 1).val
block_next(b) == b + block_size(b)
block_next_free(b) == word(b + 1).val
block_prev_free(b) == word(b + 2).val
payload(b) == b + 1
payload_to_block(p) == p - 1

\* The memory m with both tags of the block b set.
block_set_size_and_allocated(m, b, size, allocated) ==
  [m EXCEPT ![b] = Tag(size, allocated),
            ![b + size - 1] = Tag(size, allocated)]

-----------------------------------------------------------------------------
(* The circular, doubly linked free list *)

\* Mutation: flist_first still leads to the block that was pulled.
pull_free_block_first(fb) ==
  /\ assert(~block_allocated(fb))
  /\ mem' = [mem EXCEPT ![block_prev_free(fb) + 1] = mem[fb + 1],
                        ![block_next_free(fb) + 2] = mem[fb + 2]]
  /\ UNCHANGED flist_first

pull_free_block(fb) ==
  LET prev == block_prev_free(fb)
      next == block_next_free(fb)
  IN  IF flist_first = fb /\ next = fb
        THEN /\ assert(~block_allocated(fb))
             /\ flist_first' = NULL
             /\ UNCHANGED mem
        ELSE /\ assert(\A b \in {fb, prev, next} : ~block_allocated(b))
             /\ flist_first' = IF flist_first = fb THEN next ELSE flist_first
             /\ mem' = [mem EXCEPT ![prev + 1] = Pointer(next),
                                   ![next + 2] = Pointer(prev)]

insert_free_block(fb) ==
  LET last == block_prev_free(flist_first)
  IN  /\ flist_first' = fb
      /\ IF flist_first # NULL
           THEN /\ assert(\A b \in {fb, flist_first, last} :
                            ~block_allocated(b))
                /\ mem' = [mem EXCEPT ![fb + 1] = Pointer(flist_first),
                                      ![fb + 2] = Pointer(last),
                                      ![last + 1] = Pointer(fb),
                                      ![flist_first + 2] = Pointer(fb)]
           ELSE /\ assert(~block_allocated(fb))
                /\ mem' = [mem EXCEPT ![fb + 1] = Pointer(fb),
                                      ![fb + 2] = Pointer(fb)]

(***************************************************************************)
(* The blocks that a loop over the list passes, in their order: it follows *)
(* block_next_free from flist_first until it is back there. The loop never *)
(* ends if it does not come back; closes says that it does. More blocks    *)
(* than MaxBlocks do not fit into the arena.                               *)
(***************************************************************************)
hop[k \in 0 .. MaxBlocks] ==
  IF k = 0 THEN flist_first ELSE block_next_free(hop[k - 1])

rounds == {k \in 1 .. MaxBlocks : hop[k] = flist_first}
closes == flist_first # NULL => rounds # {}

free_list ==
  IF flist_first = NULL THEN <<>>
  ELSE LET length == CHOOSE k \in rounds : \A j \in rounds : k <= j
       IN  [k \in 1 .. length |-> hop[k - 1]]

on_list == {free_list[k] : k \in DOMAIN free_list}

-----------------------------------------------------------------------------
(* mm_malloc *)

align(size) == (size + WORD_SIZE - 1) \div WORD_SIZE

\* Mutation: room for one tag only.
block_size_for_one_tag(size) ==
  IF align(size) + 1 > MINBLOCKSIZE THEN align(size) + 1 ELSE MINBLOCKSIZE

block_size_for(size) ==
  IF align(size) + TAGS_SIZE > MINBLOCKSIZE THEN align(size) + TAGS_SIZE
                                            ELSE MINBLOCKSIZE

nsize == block_size_for(call.size)

smallest(wanted, diff) ==
  LET halve[d \in 0 .. diff] == IF d \div 2 > wanted THEN halve[d \div 2] ELSE d
  IN  halve[diff]

\* Mutation: a block of exactly the right size is passed over.
fits_strictly(size) ==
  {k \in DOMAIN free_list : block_size(free_list[k]) > size}

(***************************************************************************)
(* The search: of the blocks that are large enough, the first on the list  *)
(* with the least difference. smallest is called with the block's own size *)
(* in the place of the size asked for.                                     *)
(***************************************************************************)
fits(size) == {k \in DOMAIN free_list : block_size(free_list[k]) >= size}

best(size) ==
  LET diff == [k \in fits(size) |->
                 smallest(block_size(free_list[k]),
                          block_size(free_list[k]) - size)]
  IN  free_list[CHOOSE k \in DOMAIN diff :
                  \A j \in DOMAIN diff :
                     diff[k] < diff[j] \/ (diff[k] = diff[j] /\ k <= j)]

(***************************************************************************)
(* mm_malloc returns p, to the client or to the mm_realloc that called it. *)
(***************************************************************************)
Growing == call.fn = "realloc" /\ call.ptr # NULL

malloc_returns(p) ==
  /\ ret' = p
  /\ pc' = IF Growing THEN "copy" ELSE "return"

mm_malloc_zero ==
  /\ At("mm_malloc")
  /\ call.size = 0
  /\ malloc_returns(NULL)
  /\ UNCHANGED <<heapvars, live, call, blk, ok>>

mem_sbrk(incr) ==
  /\ brk + incr <= Base + MaxHeap
  /\ brk' = brk + incr

mm_malloc_fails ==
  /\ At("mm_malloc")
  /\ call.size # 0
  /\ fits(nsize) = {}
  /\ brk + nsize > Base + MaxHeap
  /\ malloc_returns(NULL)
  /\ UNCHANGED <<heapvars, live, call, blk, ok>>

(***************************************************************************)
(* The old epilogue becomes the new block, and a new epilogue follows. The *)
(* split that the code tries next finds nothing to cut off.                *)
(***************************************************************************)
extend_heap ==
  LET new_epilogue == epilogue + nsize
  IN  /\ At("mm_malloc")
      /\ call.size # 0
      /\ fits(nsize) = {}
      /\ mem_sbrk(nsize)
      /\ mem' = block_set_size_and_allocated(
                  block_set_size_and_allocated(mem, epilogue, nsize, 1),
                  new_epilogue, MINBLOCKSIZE, 1)
      /\ epilogue' = new_epilogue
      /\ blocks' = blocks \cup {new_epilogue}
      /\ malloc_returns(payload(epilogue))
      /\ UNCHANGED <<flist_first, live, call, blk, ok>>

mm_malloc_pull ==
  /\ At("mm_malloc")
  /\ call.size # 0
  /\ fits(nsize) # {}
  /\ blk' = best(nsize)
  /\ pull_free_block(best(nsize))
  /\ pc' = "split"
  /\ UNCHANGED <<brk, epilogue, blocks, live, call, ret>>

\* Mutation: the head of the block keeps its old size.
split_head ==
  LET diff == block_size(blk) - nsize
      rest == blk + nsize
  IN  /\ At("split")
      /\ diff >= 2 * nsize /\ diff >= MINBLOCKSIZE
      /\ mem' = block_set_size_and_allocated(
                  block_set_size_and_allocated(mem, blk, block_size(blk), 1),
                  rest, diff, 0)
      /\ blocks' = blocks \cup {rest}
      /\ pc' = "split_insert"
      /\ UNCHANGED <<brk, flist_first, epilogue, live, callvars, ok>>

(***************************************************************************)
(* mm_malloc marks the block, and split cuts off its tail if the block is  *)
(* three times too large. The tail is not coalesced with what follows.     *)
(***************************************************************************)
split ==
  LET diff == block_size(blk) - nsize
      rest == blk + nsize
  IN  /\ At("split")
      /\ diff >= 2 * nsize /\ diff >= MINBLOCKSIZE
      /\ mem' = block_set_size_and_allocated(
                  block_set_size_and_allocated(mem, blk, nsize, 1),
                  rest, diff, 0)
      /\ blocks' = blocks \cup {rest}
      /\ pc' = "split_insert"
      /\ UNCHANGED <<brk, flist_first, epilogue, live, callvars, ok>>

no_split ==
  LET diff == block_size(blk) - nsize
  IN  /\ At("split")
      /\ diff < 2 * nsize \/ diff < MINBLOCKSIZE
      /\ mem' = block_set_size_and_allocated(mem, blk, block_size(blk), 1)
      /\ malloc_returns(payload(blk))
      /\ UNCHANGED <<brk, flist_first, epilogue, blocks, live, call, blk, ok>>

split_insert ==
  /\ At("split_insert")
  /\ insert_free_block(block_next(blk))
  /\ malloc_returns(payload(blk))
  /\ UNCHANGED <<brk, epilogue, blocks, live, call, blk>>

-----------------------------------------------------------------------------
(* mm_free *)

\* Mutation: the block is inserted although it is still marked allocated.
mm_free_unmarked ==
  /\ At("mm_free")
  /\ blk' = payload_to_block(call.ptr)
  /\ pc' = "insert"
  /\ UNCHANGED <<heapvars, live, call, ret, ok>>

mm_free ==
  LET b == payload_to_block(call.ptr)
  IN  /\ At("mm_free")
      /\ blk' = b
      /\ mem' = block_set_size_and_allocated(mem, b, block_size(b), 0)
      /\ pc' = "insert"
      /\ UNCHANGED <<brk, flist_first, epilogue, blocks, live, call, ret, ok>>

mm_free_insert ==
  /\ At("insert")
  /\ insert_free_block(blk)
  /\ pc' = "coalesce"
  /\ UNCHANGED <<brk, epilogue, blocks, live, callvars>>

prev_free == ~block_allocated(block_prev(blk))
next_free == ~block_allocated(block_next(blk))

coalesce_helper(b) == b \in on_list

\* Mutation: the block is not merged with a free block after it.
coalesce_none_before ==
  /\ At("coalesce")
  /\ ~prev_free
  /\ pc' = "return"
  /\ UNCHANGED <<heapvars, live, callvars, ok>>

coalesce_none ==
  /\ At("coalesce")
  /\ coalesce_helper(blk) => ~prev_free /\ ~next_free
  /\ pc' = "return"
  /\ UNCHANGED <<heapvars, live, callvars, ok>>

\* With the previous block free, this block leaves the list; with only the
\* next one free, the next one does.
coalesce_pull ==
  /\ At("coalesce")
  /\ coalesce_helper(blk)
  /\ prev_free \/ next_free
  /\ pull_free_block(IF prev_free THEN blk ELSE block_next(blk))
  /\ pc' = IF prev_free /\ next_free THEN "pull_next" ELSE "merge"
  /\ UNCHANGED <<brk, epilogue, blocks, live, callvars>>

coalesce_pull_next ==
  /\ At("pull_next")
  /\ pull_free_block(block_next(blk))
  /\ pc' = "merge"
  /\ UNCHANGED <<brk, epilogue, blocks, live, callvars>>

coalesce_merge ==
  LET prev == block_prev(blk)
      next == block_next(blk)
      first == IF prev_free THEN prev ELSE blk
      size == block_size(blk) + (IF prev_free THEN block_size(prev) ELSE 0)
                              + (IF next_free THEN block_size(next) ELSE 0)
  IN  /\ At("merge")
      /\ mem' = block_set_size_and_allocated(mem, first, size, 0)
      /\ blocks' = {b \in blocks : b <= first \/ b >= first + size}
      /\ pc' = "return"
      /\ UNCHANGED <<brk, flist_first, epilogue, live, callvars, ok>>

-----------------------------------------------------------------------------
(* mm_realloc *)

csize == block_size(payload_to_block(call.ptr))

\* block_next of the payload pointer: the client's first word is its size.
astray == block_next(call.ptr)
seems_to_fit == astray \notin Arena \/ csize + block_size(astray) >= nsize

mm_realloc_free ==
  /\ At("mm_realloc")
  /\ call.size = 0
  /\ ret' = NULL
  /\ pc' = IF call.ptr = NULL THEN "return" ELSE "mm_free"
  /\ UNCHANGED <<heapvars, live, call, blk, ok>>

mm_realloc_malloc ==
  /\ At("mm_realloc")
  /\ call.size # 0
  /\ call.ptr = NULL \/ (nsize > csize /\ ~seems_to_fit)
  /\ pc' = "mm_malloc"
  /\ UNCHANGED <<heapvars, live, callvars, ok>>

mm_realloc_keep ==
  /\ At("mm_realloc")
  /\ call.size # 0 /\ call.ptr # NULL
  /\ nsize <= csize
  /\ ret' = call.ptr
  /\ pc' = "return"
  /\ UNCHANGED <<heapvars, live, call, blk, ok>>

(***************************************************************************)
(* The neighbour that mm_realloc looks for was computed from the payload   *)
(* pointer. Reading it faults, or an assert of pull_free_block fails, or   *)
(* tags are written over the client's data and over the next header; the   *)
(* model ends here.                                                        *)
(***************************************************************************)
mm_realloc_astray ==
  /\ At("mm_realloc")
  /\ call.size # 0 /\ call.ptr # NULL
  /\ nsize > csize
  /\ seems_to_fit
  /\ ok' = FALSE
  /\ UNCHANGED <<heapvars, live, pc, callvars>>

\* Mutation: the last word of the payload is not copied.
memmove_short(dst, src, n) ==
  mem' = [a \in Arena |-> IF a \in dst .. (dst + n - TAGS_SIZE - 2)
                            THEN word(src + (a - dst)) ELSE mem[a]]

memmove(dst, src, n) ==
  mem' = [a \in Arena |-> IF a \in dst .. (dst + n - 1)
                            THEN word(src + (a - dst)) ELSE mem[a]]

mm_realloc_copy ==
  /\ At("copy")
  /\ IF ret = NULL THEN UNCHANGED mem /\ pc' = "return"
                   ELSE memmove(ret, call.ptr, csize) /\ pc' = "mm_free"
  /\ UNCHANGED <<brk, flist_first, epilogue, blocks, live, callvars, ok>>

-----------------------------------------------------------------------------
(* The client: a program that calls the library as the driver does. It     *)
(* fills the memory it gains and passes only pointers that it holds.       *)

Call(fn, p, size, w) == [fn |-> fn, ptr |-> p, size |-> size, fill |-> w]
NoCall == Call("none", NULL, 0, Pointer(0))
NoPointers == [p \in {} |-> 0]
MayHold == Cardinality(DOMAIN live) < MaxLive

call_malloc(size, w) ==
  /\ At("idle")
  /\ MayHold
  /\ call' = Call("malloc", NULL, size, w)
  /\ pc' = "mm_malloc"
  /\ UNCHANGED <<heapvars, live, blk, ret, ok>>

call_free(p) ==
  /\ At("idle")
  /\ call' = Call("free", p, 0, Pointer(0))
  /\ pc' = IF p = NULL THEN "return" ELSE "mm_free"
  /\ UNCHANGED <<heapvars, live, blk, ret, ok>>

call_realloc(p, size, w) ==
  /\ At("idle")
  /\ p = NULL => MayHold
  /\ call' = Call("realloc", p, size, w)
  /\ pc' = "mm_realloc"
  /\ UNCHANGED <<heapvars, live, blk, ret, ok>>

(***************************************************************************)
(* mm_check_heap changes nothing, but reads the first free block even if   *)
(* the list is empty.                                                      *)
(***************************************************************************)
mm_check_heap ==
  /\ At("idle")
  /\ assert(flist_first # NULL)
  /\ UNCHANGED <<heapvars, live, pc, callvars>>

(***************************************************************************)
(* The call returns: the client drops the pointer it passed and notes the  *)
(* one it got, and fills the words it gained. A realloc that failed leaves *)
(* it the old pointer.                                                     *)
(***************************************************************************)
old_size == IF call.ptr \in DOMAIN live THEN live[call.ptr] ELSE 0
dropped == IF call.size # 0 /\ ret = NULL THEN {} ELSE {call.ptr}
gained == IF ret = NULL THEN {} ELSE {ret}

return ==
  /\ At("return")
  /\ live' = [p \in (DOMAIN live \ dropped) \cup gained |->
                IF p \in gained THEN call.size ELSE live[p]]
  /\ mem' = [a \in Arena |->
               IF ret # NULL
                  /\ a \in (ret + align(old_size)) .. (ret + align(call.size) - 1)
                 THEN call.fill ELSE mem[a]]
  /\ pc' = "idle"
  /\ call' = NoCall
  /\ blk' = NULL
  /\ ret' = NULL
  /\ UNCHANGED <<brk, flist_first, epilogue, blocks, ok>>

-----------------------------------------------------------------------------
(***************************************************************************)
(* mm_init on the memory m: prologue, one free block, epilogue.            *)
(***************************************************************************)
free_spot == Base + MINBLOCKSIZE
first_epilogue == Base + 2 * MINBLOCKSIZE

mm_init(m) ==
  block_set_size_and_allocated(
    [block_set_size_and_allocated(
       block_set_size_and_allocated(m, Base, MINBLOCKSIZE, 1),
       free_spot, MINBLOCKSIZE, 0)
     EXCEPT ![free_spot + 1] = Pointer(free_spot),
            ![free_spot + 2] = Pointer(free_spot)],
    first_epilogue, MINBLOCKSIZE, 1)

Init ==
  /\ mem = mm_init([a \in Arena |-> Pointer(0)])
  /\ brk = Base + 3 * MINBLOCKSIZE
  /\ flist_first = free_spot
  /\ epilogue = first_epilogue
  /\ blocks = {Base, free_spot, first_epilogue}
  /\ live = NoPointers
  /\ pc = "idle" /\ call = NoCall /\ blk = NULL /\ ret = NULL
  /\ ok = TRUE

(***************************************************************************)
(* mem_reset_brk and mm_init, with which the driver starts each trace: the *)
(* memory keeps what the last trace left in it.                            *)
(***************************************************************************)
restart ==
  /\ At("idle")
  /\ mem' = mm_init(mem)
  /\ brk' = Base + 3 * MINBLOCKSIZE
  /\ flist_first' = free_spot
  /\ epilogue' = first_epilogue
  /\ blocks' = {Base, free_spot, first_epilogue}
  /\ live' = NoPointers
  /\ UNCHANGED <<pc, callvars, ok>>

Step ==
  \/ mm_malloc_zero \/ mm_malloc_fails \/ extend_heap \/ mm_malloc_pull
  \/ split \/ no_split \/ split_insert
  \/ mm_free \/ mm_free_insert
  \/ coalesce_none \/ coalesce_pull \/ coalesce_pull_next \/ coalesce_merge
  \/ mm_realloc_free \/ mm_realloc_malloc \/ mm_realloc_keep
  \/ mm_realloc_astray \/ mm_realloc_copy
  \/ return

Client ==
  \/ \E size \in Sizes \cup {0}, w \in Fills : call_malloc(size, w)
  \/ \E p \in DOMAIN live \cup {NULL} : call_free(p)
  \/ \E p \in DOMAIN live \cup {NULL}, size \in Sizes \cup {0}, w \in Fills :
       call_realloc(p, size, w)
  \/ mm_check_heap
  \/ restart

Next == Step \/ Client

Spec == Init /\ [][Next]_vars
==============================================================================
