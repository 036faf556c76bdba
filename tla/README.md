# Verification of the course projects

The repository holds eight independent C programs: a multi-threaded database
server, a malloc library, two shells, a maze generator and solver, a string
library, a polynomial evaluator, and bit puzzles. This directory holds TLA+
models of them, the TLC runs that check the models, and TLAPS proofs.

## Inventory

| Part | State | Operations | What is hard | What makes it correct |
|---|---|---|---|---|
| database tree, `database/db.c` | nodes with name, value, two children and a rwlock | query, add, remove, print, cleanup | hand-over-hand locking; `db_remove` walks and frees nodes whose lock it released | no use after free, no race, every command atomic, every command returns |
| server threads, `database/server.c`, `comm.c` | client list, thread count, stop/go gate, cancellation flags | accept, serve, cancel on SIGINT, stop/go, shutdown | four kinds of threads, cancellation, condition variables, shutdown order | list sound, no lost wakeup, cancelled clients end, nobody uses the database when it is freed |
| client, `database/client.c` | connection, line buffer | send a line, print the response | buffers of different sizes on the two sides | one response for each line |
| malloc, `malloc/mm.c`, `mminline.h`, `memlib.c` | boundary-tagged blocks, circular free list | init, malloc, free, realloc, check | splits and merges that must keep tags and list in step | blocks tile the heap, the list is exactly the free blocks, allocations do not overlap |
| job-control shell, `shell_2/` | job list with an iterator, terminal's process group | fork, wait, reap, fg, bg, jobs | children change state at any time; one status report per call | each child has one job, the shell regains the terminal |
| simple shell, `shell_1/sh.c` | its own descriptors | parse, redirect, run | parser corner cases, redirections that fail | the line means what it says, descriptors come back |
| maze, `maze/` | room grid, visited marks | generate, encode, prune, solve | recursion over a grid | every room connected, the path leads from start to goal |
| strings, `stringsperf/strings/` | the static pointer of strtok | string functions | ends and empty strings | agreement with the C library but for the empty needle of `strstr` |
| polynomial, `stringsperf/performance/` | none | evaluate | remainder cases of the unrolled loop | agreement with the naive evaluation |
| bit puzzles, `data/bits.c` | none | nine functions | least and greatest words | agreement with the specification |
| buffer lab, harnesses | - | - | - | binaries or supplied test code, not modelled |

The programs do not call one another. Inside the database program the parts
meet as follows: the listener creates a client thread per connection; a client
thread passes the gate and runs `interpret_command` on the tree; the SIGINT
thread and main cancel client threads through the list; main prints the tree,
works the gate and finally frees the tree.

## Modules

### `DbTree`: the locked tree

One variable per field of `node_t` (`name`, `value`, `lchild`, `rchild`), the
set `alive` of cells that malloc has handed out, and the rwlock of each node
(`readers`, `writer`). Per thread: the parsed command, its response, a program
counter and the C locals. A step is the code between two lock operations, and
every lock, unlock, write to a shared node and free is a step of its own, so
the interleavings that the locks exclude are excluded by the locks and not by
the model. Names are positive integers ordered like the strings; the head's
empty name is 0, which is why every node hangs on its right.

| Action | Code |
|---|---|
| `interpret_command` | a well-formed `q`, `a` or `d` command is parsed |
| `lock_head`, `search`, `search_lock`, `search_compare` | the first lock, and one round of `search` |
| `db_query_*` | `db_query`, with the unlock that `search` does for it |
| `db_add_*`, `node_constructor` | `db_add`; a new node is private until its last write links it |
| `db_remove_splice*` | `db_remove` of a node with at most one child |
| `db_remove_two`, `_walk*`, `_copy`, `_unlink`, `_free`, `_unlock_dnode` | `db_remove` of a node with two children |
| `unlock_parent` | the last unlock of each function |

`walked` is a history variable: the nodes of the left spine that a walking
`db_remove` has passed. It guards nothing; the proofs need it.

`DbTreeSafety` states what the locking must guarantee, through the sets
`Reads`, `Writes`, `Locks` and `Holds` of the next step of a thread, and the
inductive invariant `IInv`. `DbTreeLinear` maps the tree to `KVStore`, an
atomic map that says what clients may rely on: the abstract database is what
the linked nodes hold, and a command takes effect at the step that fixes its
response.

### `DbPrint`: the terminal's `p` command

`db_print_recurs` as a stack of activations, one step per read of the tree, in
parallel with the clients of `DbTree`. `fprintf` takes no lock while it reads a
name, and `db_remove` may be writing that name with `snprintf`, so a line takes
two steps: `fprintf_begin`, and the step of `db_print_recurs` that writes it. In
between `reading` collects the names the node has had. If it has had only one,
that is what is written; otherwise it is one of them or `Torn`, which stands for
every mixture of their bytes, one in which the null of the shorter name is missed
included. Reading a freed node ends in the state "undefined". `kept`, `ever`, `moved`, `cut` and `quiet` are history variables;
`cut` says that the walk has held a pointer to a freed node, whether or not the
cell was allocated again before the walk came back to it.

### `Server`: the threads

One program counter per client thread, for the listener, the SIGINT thread
(`monitor`) and `main`; the `prev` and `next` fields and `thread_list_head`;
`num_client_threads`; the gate (`stopped`, `go_mutex`); and which threads
`pthread_cancel` has marked. The sections under `thread_list_mutex` and
`server_mutex` contain no blocking call and no cancellation point, so each is
one step; `go_mutex` is explicit, because clients wait and are cancelled inside
its section. A client that has given it back (`server.c:79`) is "passed" and has
still to call `interpret_command` (`server.c:175`): a stop may come in between.
`StopHolds` is therefore about both places. After a stop a client that had passed
the gate may still begin and finish its one command; no other gets in, so the
database only empties. A cancelled thread dies when it meets a cancellation point: in
`fgets`, in the write of a response, in `pthread_cond_wait` (at its entry or
while it waits), or in the `pthread_testcancel` of the `f` command. `pthread`
functions, `sigwait`, sockets and the terminal are external; their behaviour is
taken from how the code uses them.

`ServerProps` has the properties; the last two state what comments promise
and the code does not keep.

### `Malloc`: the allocator

Memory is a function from word addresses to words, each with its lowest bit
apart, so boundary tags, list pointers and the client's data live in the same
words as in the program, and `mm_realloc` can mistake one for another. The
library is sequential: one call is under way at a time, and `pc` leads it from
step to step. A step makes at most one change of the free list, so that each
is a plain update of a few words. `ok` turns FALSE where an assert fails or
`mm_realloc` takes the client's data for a block; nothing happens after that.
`blocks`, the addresses at which blocks start, is a history variable that no
guard reads.

| Action | Code |
|---|---|
| `call_malloc`, `call_free`, `call_realloc`, `return` | the client, which calls and fills its memory as the driver does |
| `mm_malloc_*`, `extend_heap`, `split`, `no_split`, `split_insert` | `mm_malloc`: the search for the best fit, then `split` or `extend_heap` |
| `mm_free`, `mm_free_insert`, `coalesce_*` | `mm_free` with the cases of `coalesce` |
| `mm_realloc_*` | the cases of `mm_realloc`; it goes on in `mm_malloc` and `mm_free` |
| `mm_check_heap` | changes nothing but reads an empty list |
| `restart` | `mem_reset_brk` and `mm_init`, before each trace of the driver |

`Allocator` is the promise: the pointers that a client holds stand for disjoint
regions, and what is written in them stays, through `realloc` too. `MallocProps`
states the library's invariants and maps it to `Allocator`: a pointer is given
up when `free` is called, and a region moves when `realloc` returns. It also has
`MallocInv`, the inductive invariant of `MallocProofs`, which TLC confirms on the
instance of `malloc_safety` when it is added to that configuration.

### `Jobs` and `Shell`: the job-control shell

`Jobs` is the list of `jobs.c` with its iterator `current`; a pointer to an
element is written as the element's jid, which the shell gives out once.
`Shell` is the shell against its children. The shell's `pc` leads from one
system call that children can tell apart to the next; each child has a life of
its own in `proc` (born by fork, grouped by `setpgid`, ready after `tcsetpgrp`,
running, stopped, zombie, gone) and in `report` the one change of state that
`waitpid` has not taken yet, the latest replacing the one before. `tty` is the
terminal's foreground group.

| Action | Code |
|---|---|
| `repl_read`, `repl_eof`, `repl_return`, `repl_no_job` | the loop of `repl`, and the lines that touch no job |
| `reap`, `reap_help_waitpid`, `reap_help` | a round of `reap`: the iterator, the status, what it does to the list |
| `fork_process*`, `wait_child*` | a command, a line without a command word, a failing fork; the wait |
| `bg`, `fg`, `bg_update`, `fg_update` | continue the group, then update the list and the terminal |
| `cleanup_job_list`, `cleanup_return` | end of input |
| `child_*` | `fork_process` in the child |
| `program_*`, `child_killed` | the job's program and signals, external |

Assumed of the outside: pids are not reused within a run; no SIGSTOP reaches a
child before `execv` (a foreground child stopped between `setpgid` and
`tcsetpgrp` and continued later would take the terminal from a shell at its
prompt). `failures` bounds failing forks and lines without a command word;
`polled` and `missed` are history variables.

### The sequential programs

`Parse` has both parsers as one step machine over the strings of a line, each of
which is a symbol or a word; `SimpleShell` adds the first shell's loop with its
descriptors. `Maze` has the generator and the solver as stacks of activations;
the generator's file goes through the digits it writes. `StringLib` has the
string functions over a memory of characters, `strtok` as an action with its
static pointer. `BitPuzzles` has the puzzles over the operators of C on narrow
words; C leaves signed overflow undefined, and as the head of `bits.c` allows it
wraps. `Poly` has the two evaluations modulo a prime, where the program's
`x = 1 + 1/degree` exists. `Wire` has the database client and the server's
`comm_serve` on one connection, with text in units of a part of a buffer.
`MCPrograms` runs one of them in each behaviour.

### Mutations

Operators whose comment begins with "Mutation" are plausible slips in the
definition that follows them. No specification uses them. They document what
each property can tell apart: with the mutation in place of the definition, TLC
finds the property violated.

## Runs

| Run | Shows | Instance |
|---|---|---|
| `tree_safety` | `NoUseAfterFree`, `RaceFree`, `FreedUnlocked`, `QuiescentClean`, `IInv` (with `TypeOK` and `LockDiscipline` in it), `OrderInv`, `EveryCommandReturns`, no deadlock | 2 threads with 1 command each, 5 names, 6 cells, three initial trees |
| `tree_linear` | `Linearizable` | 2 threads, 2 commands each, 4 names, 2 values |
| `print_quiet` | `PrintExact`, `PrintInventsNothing`, `PrintMissesOnlyMoved` | a print among 2 threads with 1 command each, 5 names |
| `server_safety` | `ListSafe`, `CountExact`, `GateOwner`, `NoLostWakeup`, `StopHolds` | 2 clients with 1 command each, 2 stop/go commands, 1 SIGINT, shutdown |
| `server_live` | `CancelledEnd`, `GateOpens` | 2 clients with 1 command each, 2 stop/go commands, 1 SIGINT |
| `server_sigint`, `server_cleanup` | violated: `SigintReachesAll`, `CleanupAlone` | 2 clients |
| `malloc_safety` | `Tiled`, `FreeListExact`, `Coalesced`, `NothingLeaks`, `GrowsOnlyWhenFull`, `DiesOnlyWhereKnown`, `Allocates` | arena of 28 words, requests of 16 and 48 bytes, 3 pointers at a time |
| `malloc_tags` | violated: `TagsAgree` | the same arena, requests of 16 and 24 bytes |
| `shell_jobs` | `ReapCoversList`, `ListMatchesChildren`, `StatesCatchUp`, `NeverWaitsInVain`, `TerminalPlaced`, `EofKillsJobs`, `ShellInv`, `ZombiesReaped`, no deadlock | 2 children, 1 fork that fails or has no command, any number of lines |
| `programs` | `PerfectMaze`, `SolvesMaze`, `ParseExact`, `DescriptorsRestored`, `StringsCorrect`, `BitsCorrect`, `WireInStep`, no deadlock | see below |
| `poly` | violated: `PolyAgrees` | degrees 15 to 19, two coefficients that are not zero |

Bounds. The initial trees are ones a client builds by adding names in a given
order; they have a node with two children whose right child has a left spine of
three nodes, of two with a subtree at its end, or of two with nothing below, so
that `db_remove` walks one or two steps or moves a subtree. The spare cell lets
an add take a new cell, and freed cells are reused. Two
commands a thread are enough for an add to change what a removal then copies
and a query then reads; two values tell the copied value from the old one. Two
clients are enough for one to join between another's cancellation and its
unlinking, and for one to wait at the gate while another takes the mutex; two
stop/go commands let a client meet both. Longer spines, more threads and more
clients are covered by the proofs. `Threads` and `Clients` are symmetric and
symmetry is used only where every property is a safety property. The deadlock check is on for the
tree; the server may really stop (it exits, or waits for input), so its runs
switch it off.

In the malloc runs the arena holds the three first blocks and 16 words more.
Blocks of 4 and 8 words make every case of `coalesce` happen, a split (a free
block of 12 words asked for 4), a block kept whole with words to spare, and a
full heap in the middle of a `realloc`. The requests of `malloc_safety` are even
numbers of words, so that every block is; `malloc_tags` has an odd one, and with
it the overrun of `mm_realloc`. The client writes zero words and words that lead
outside the arena when they are read as a size. `View` lets TLC take two states
between calls for one when they differ only in words that nobody reads before
writing them. The deadlock check is off: a dead process stops.

In `shell_jobs` two children are enough for the iterator to stand on one while
the other is removed, for a `fg` of one among the other's changes, and for the
wait of a failed fork to take another's status; lines and changes of state are
not bounded. `ZombiesReaped` needs no fairness: it assumes that the shell comes
back to its prompt and to its dispatch again and again, which is what lines that
keep coming and jobs that stop or end give.

In `programs` the generator makes mazes of 2 by 3 and 1 by 3 rooms, the smallest
in which a walk meets a room visited from elsewhere, and the solver also reads
every maze of 2 by 2 rooms, with loops, one-way doors and rooms apart; lines have
up to 5 strings, which is both redirections and a trailing `&` or a word;
strings have up to 4 characters of 2 kinds, needles up to 3, and `strtok` is
called 4 times with any delimiters; words have 8 bits, four bytes of 2; scripts
of the database client have 3 lines that fit both buffers, only the client's, or
neither, and the last may lack its newline. `Ended` lets a program stop only
where it has really ended, so the deadlock check covers all of them.

Fairness. `tree_safety` assumes weak fairness of each thread's steps: the kernel
schedules every runnable thread, and a lock that stays free is granted. New
commands are not assumed to arrive. The server runs assume weak fairness of
each thread's own steps, not of the inputs (connections, commands, EOF, SIGINT,
terminal commands, spurious wakeups), and strong fairness of a client's taking
of `go_mutex`: it is held for a few instructions, so a client that wants it gets
it even when another keeps waking up spuriously and taking it.

What the violated runs show:

- `server_cleanup`: `delete_all` sets the count to 0 while the cancelled threads
  still run, so main does not wait for them and frees the tree under them.
- `server_sigint`: a client that `delete_all` took off the list unlinks itself
  later by setting `thread_list_head` to NULL, and so removes a client that
  joined meanwhile; the next SIGINT does not reach it.
- `malloc_tags`: `mm_realloc` copies as many bytes as the old block has, tags
  included. If the new block is one word larger, the last of them overwrites
  its end tag with the header of the block behind the old one.
- `poly`: in the case of remainder 3, `result4` and `result5` are multiplied by
  each other's powers of x; in the case of remainder 4, `result4` is multiplied
  by its own continuation. With remainders 0, 1 and 2 the two evaluations agree.
  A difference modulo the prime is a difference of the exact values; for one
  coefficient 1 and remainder 3 it is about 1/degree, far above the 0.00001 that
  the program's own test tolerates.

What the passing runs show of hazards that are known and stay inside their
bounds:

- A print that overlaps a removal may leave out a name that `db_remove` moves up
  into a node already printed, and nothing else as long as no node is freed
  where the walk will come back to; a node freed there and allocated again can
  hide a subtree. While `db_remove` rewrites the name of a node, the line printed
  for it may be a name that never was in the database.
- A client thread that joins after the final `delete_all` is not cancelled. Main
  waits for it only while the count happens to be other than 0: a client that was
  cancelled and counts itself down makes up for the one that joined, and then the
  database is freed under it.
- The other side of `server_cleanup`: if a cancelled client counts itself down
  after `delete_all` has set the count to 0 and before main tests it
  (`server.c:359`), main finds -1, which is not 0, and waits for ever although no
  client is left. No property says that main ends; `CountExact` bounds the count
  from above, and is exact only before `delete_all`.
- `strstr` answers the empty needle with NULL (`strings.c:157`), where the C library
  returns the haystack. `StringsCorrect` says of the other needles that the first
  occurrence is found, and nothing of the empty one.
- `WireInStep`: a line that does not fit the server's 256 bytes puts the
  responses out of step for good, and a last line without newline leaves client
  and server waiting for each other.
- A child of a failed fork (pid -1) ends each round of `reap` at its place, and
  `wait_child` on it takes the status of any child; a line of redirections only
  forks a child without a job, which is never collected in the background; a
  child that has not reached `setpgid` survives the end of input. The properties
  of `ShellProps` name these exceptions and allow no other.
- The first shell accepts a redirection symbol as the name of a file, the second
  does after `>` and `<`: `WellFormed` in `Parse` says so.

## Proofs

`DbTreeProofs` proves, for any sets of threads, cells, names and values and any
number of commands, from `ConstAssumption` alone (names are positive, `head`
and `NULL` are distinct from the rest):

- `Invariance`: `Spec => []Inv`
- `TypeCorrect`, `Locking`, `MemorySafe`, `NoRaces`, `FreedIsUnwanted`: the
  invariants of the tree run follow.

The safety properties are not inductive: they do not say why a node whose lock
is free is safe. `IInv` adds the reason. `TreeShape`: the child pointers of
linked nodes lead to linked nodes, and no node has two parents. `SearchPos` and
`WalkPos`: where the pointers of a thread lead, at each point of the code.
`Private`: the spine that a walking `db_remove` has passed, locked or not, is
out of every other thread's hands, because whoever would get there must pass
`dnode` or its right child, which are locked, and whoever was there before
would have been met by the walk's lock. `Inv` adds `Acyclic`: some ranking of
the nodes falls along every child pointer. It is what shows that a node below
`dnode` is neither `dnode` nor its parent, and every write keeps a ranking:
unlinking a node only shortens paths, and a new node is ranked below its
parent. Each action has a lemma; those that only read or only change locks share
`PlainStep` and `UnlockStep`, and the two that take a node out of the tree share
`DetachStep`.

`ServerProofs` proves for any set of clients and any bounds:

- `ListIsSafe`: only five actions write the list. The heart of the proof is that
  a client taken off the list by `delete_all` keeps a chain of its own, whose
  first member has no `prev`; unlinking in that chain never touches another.
- `GateIsOwned`, `NoWakeupIsLost`, and the action property `StopIsHeld`: while the
  server stays stopped the clients let through to the database become fewer only;
- `CountIsExact`, with the cardinality theorems of the library.

`DbTreeProofs` also proves, of the commands as operations of a map:

- `OrderInvariance` and `LockInvariance`: `OrderInv` and `IInv` always hold;
- `Linearizes`: `Spec => Linearizable`, the refinement of `KVStore`;
- `NothingIsLost`: `QuiescentClean`.

The search order cannot be stated node by node, because a removal overwrites the
name of `dnode` with that of a node deep in its right subtree. `OrderInv` states
it through `Path(k)`, the nodes that an undisturbed search for `k` visits, the
least set that holds the head and is closed under the step of a search: every
linked node lies on the path of its own name, and every search under way stands
on the path of its key. While a removal moves the successor up, the path of the
names between the two bends at most below `dnode`, which is locked, so nobody is
there. With it each step is one of the map or a stutter: `db_query_read` is the
instant of a hit, `search` that of a miss, the link that of an add, and the write
that hides the name that of a removal. The refinement mapping says of a command
whether it has taken effect by whether its response is there; an attempt to prove
it showed that an earlier mapping read the response of a thread that had none.

`ShellProofs` proves, for any number of children and of failing forks,
`ShellInvariance` (`ShellInv`) and from it `ReapIsComplete`, `ListIsExact`,
`MarksCatchUp`, `WaitIsAnswered`, `TerminalIsPlaced` and `EofKills`, the
invariants of `shell_jobs`. What the invariants alone lack: `ReportsFit` (what a
child has to report follows from what it is doing), `StatusFits` (a status that
the shell holds and has not written to the list yet is out of date only if a newer
one can be collected), `JobsDistinct` (jids rise along the list and no two jobs
share a process), `IteratorPlaced` (in a round of `reap`, whatever lies before the
iterator has been asked about) and `TerminalFits` (a child that has still to take
the terminal is the one waited for).

`ServerProofs` also proves, of one connection, `WireInvariance` and `StaysInStep` for
scripts and buffers of any size. `WireBounds` assumes what the `#define`s give: both buffers hold
something and the server's is no larger than the client's (256 and 1024 bytes).
The argument: a server that owes nothing has read nothing since the client's last
piece, so the end of that piece is the end of what is on its way; and with lines
that fit the server's buffer, that piece or its response is in exactly one place.

`SimpleShellProofs` proves, for lines of any number of strings,
`SimpleShellInvariance`, `ParseIsExact` and `DescriptorsAreRestored`. `ParseInv`
is the loop invariant of both parsers: the operators passed are the ones the flags
and names stand for, two strings are spent on each of them, and the others are in
`argc` in their order; `FlagOfOutput` ties `oflag` to the symbol that set it, 1 for
`>` and 2 for `>>`. `DescriptorsInv` says at each point of the loop which
descriptors stand for files, as `ifd` and `ofd` have it.

`DbPrintProofs` builds on `DbTreeProofs` and proves the three properties of
`print_quiet` for any number of threads, commands, nodes and names. The print takes
no lock, so it may stand on a node that a removal has just taken out, or read a name
that a removal is writing. `TornAssumption` keeps torn names apart from the others.

- `NothingIsInvented` (`PrintInventsNothing`). `PrintInv` says that some set of nodes
  is apart: they were taken out of the tree before the print began and are not freed
  yet; no pointer from any other node leads to them, and the walk is not there. All
  other nodes bear names that were in the database since the print began, and so does
  whatever the walk writes. What has to be shown is that no step links a node that is
  apart: a node taken out stays out until it is freed, only the tree's own nodes are
  written to, and a new node gets its name before it is linked. `ReadInv` says of
  `fprintf` under way that the names it has met are such names too, and that they are
  more than one only if a removal of two children wrote a name during the print; so a
  torn line, the one exception, needs such a removal.
- `NothingIsMissed` (`PrintMissesOnlyMoved`). `Ahead` is the least set that holds the
  nodes at which the activations go on and everything below them. `MissInv` says that
  a name that has been there all the time and is neither moved nor written is in a
  node of `Ahead`. The walk takes from `Ahead` only the node it writes; a removal only
  the nodes that it takes out, because what was below them is linked to their parent.
  That also holds below a node that is already out of the tree and on which the walk
  stands: `Heirs` says that its children are children of nodes that stay in the tree
  until it is freed, since the removal still has the lock above them.
- `QuietPrintIsExact` (`PrintExact`). By the other two it writes the names of the
  database and no others. That it writes none twice is `ExactInv`: the nodes passed
  are a set with the parent of each member, as many as the names written; the
  activations go on at different nodes outside that set, each below a member.

`MazeProofs` proves, for mazes of every size, `MazeIsPerfect` (`PerfectMaze`) and
`SearchIsSound` (`SolvesMaze`) from `MazeInvariance`. `WalkInv`: a connection is
undecided exactly where an activation of `drunken_walk` has still to try it; the two
sides of a wall never contradict each other; and the doors between the rooms visited
are a spanning tree of them, stated by counting the doors and by saying that no part
of the rooms is cut off. When the stack is empty every room is visited: the unvisited
room nearest to the corner would lie beside one that has decided all its connections.
`Decodes` shows that the solver reads back from a digit what the generator encoded.
`SearchInv`: the activations of `dfs` are a way from the start, along which `next`
points; a door out of the visited rooms is one that an activation has still to try.
So when the first activation gives up the visited rooms are closed, and `Reachable`,
the least closed set with the start, lies in them. This part holds of every file,
also of one with loops and doors that open one way. `PruneInv` says that what
`print_prunned` has written is the beginning of the way that `next` tells.

`StringProofs` proves `StringsAreCorrect` (`StringsCorrect`), for strings and needles
of any length and any number of calls of `strtok`, from the part of `StringsBound` that makes every
character positive and less than 128. Each loop is a function that refers
to itself; that there is one, and that it gives the value of the first round in which
the loop stops, follows from the least element of a set of rounds (`LoopExists`,
`LoopGives`), so no induction over the string is needed. `FirstDifference` takes
`strncmp` to the order of a dictionary, `FoundWhereItOccurs` takes `strstr` to
occurrences. `StringsInv` is about `strtok`: memory is the given string but for the
nulls behind the tokens found, and `rem` is the place behind the last of them from which
on nothing has been written, or NULL when the end has been reached. A token never ends
behind that place, so a later null cannot fall into it. `Tokenized` then says that
each call returns the first token behind the one returned before, or NULL when there
is none; it returns none twice, and after a NULL only NULL (`rest_again` in
`StringLib`, which starts over, violates it).

`MallocProofs` proves, for any arena, any number of pointers and any contents, from
`ArenaAssumption` (the three first blocks fit, and addresses are larger than sizes)
and `ClientAssumption` (requests are positive):

- `OnlyTheCopyHarms`: `Tiled`, `FreeListExact`, `Coalesced` and `NothingLeaks` hold
  as long as the state `Overruns` does not come about, in which `mm_realloc` is about
  to copy into the end tag of a block one word larger. The finding of `malloc_tags`
  is the only way in which the library damages its own heap.
- `EvenIsSound`: with `EvenRequests` (every request an even number of words) it never
  comes about, because all blocks then start at an even distance from the first.
- `HeapIsTiled`, `ListIsExact`, `FreeIsMerged`, `NoLeaks`, `GrowsLate`,
  `DiesInTwoPlaces`: the properties of `malloc_safety`, with `EvenRequests`.
- `LibraryAllocates`: with `EvenRequests`, the refinement of `Allocator`.

`EvenRequests` is what the run `malloc_safety` has, and is needed: with an odd request
`malloc_tags` shows the damage. `MallocInv` is a conjunction of named parts. `Heap`:
the tags of each block agree and each block but the epilogue ends where another
begins. `Ring`: the free list as a set of blocks, on which `flink` and `blink` are
inverse to each other and no part of which is closed under `flink` but the whole; this
is a circle stated without counting, and each insertion and removal keeps it. A walk
along it comes back to its start after as many steps as there are free blocks, by the
pigeonhole principle, and there are no more of those than `MaxBlocks`. `BitsOK`,
`RoomOK`, `RetOK`, `MergeOK`, `CallOK` and `WorkOK` say which blocks are marked, which
are in the list and which the library has in hand at each point of a call. Lemmas
about `Heap` and `Ring` as values (a block cut in two, two blocks joined, a member put
in or taken out, words written elsewhere) are proved once and used by one lemma for
each action. For the refinement,
`Home(p)` is the place where the data of the region `p` is at each point of a call;
only the copy of `mm_realloc` and the client write payloads, and `MoveOK` says that
the place the copy fills belongs to nobody else.

Only model-checked: the liveness properties `EveryCommandReturns`, `CancelledEnd`,
`GateOpens` and `ZombiesReaped` (fairness and ENABLED are outside the prover's
reach); `IInv` from the initial trees other than the empty one; the bit puzzles, which
use the bitwise operators of a library that the provers cannot take; and the
polynomial.

## Not modelled, and the plan

Not modelled in the database program: failures of malloc and of socket calls,
the value next to a name in a printed line,
the lengths of names and values, the loop of the `f` command (its lines are
commands like others), the read of `new->thread` after a thread may have ended
(`server.c:117`), the signal set freed at `server.c:285`, the OS X shim.

Not modelled in the malloc library: a failing `mm_init`, requests of 2 GB and
more, and the driver's trace files, timing and scores.

Not modelled in the shells: what `cd`, `rm` and `ln` do to the file system, the
messages, the 1024-byte buffer (a line that fills it leaves no null for `parse`),
a failing `dup2` of the first shell (`shell_1/sh.c:421-423`: it copies a descriptor
that `open` has just returned onto 0 or 1, which does not fail in a process of one
thread), the out-of-bounds read of a line without a command word, whose effect on
the job list is modelled,
and the value that `fg` without an argument reads past the end of `argc`.
`remove_job_jid` and `update_job_jid` are never called.

Not modelled of the rest: rounding of doubles, mazes read from a file that ends too
early, arguments that the programs reject.
The OS X shim is not part of the Linux build; the harnesses of the data, string
and malloc assignments are supplied test code; the buffer lab has no source.
