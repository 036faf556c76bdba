-------------------------------- MODULE Shell --------------------------------
(***************************************************************************)
(* The job-control shell of src/shell_2: its loop (sh.c), reap and         *)
(* wait_child (reap.c), bg and fg (executes.c) over the job list of Jobs,  *)
(* against the processes it forks.  A child is a process of its own from   *)
(* fork on: it enters its process group, takes the terminal and executes   *)
(* the program while the shell goes on, and its program may exit, be       *)
(* killed, stop or be continued between any two system calls of the shell. *)
(*                                                                         *)
(* A step of the shell reaches from one system call that other processes   *)
(* can tell apart to the next; the job list belongs to the shell alone.    *)
(* What a line asks for is chosen when it is dispatched, since reap does   *)
(* not look at it.                                                         *)
(***************************************************************************)
EXTENDS Jobs

CONSTANTS
    MaxForks,      \* bound: children of a run
    MaxFailures    \* bound: forks that fail, and forks without a command

ASSUME ShellBounds == MaxForks \in Nat /\ MaxFailures \in Nat

Pids == 1..MaxForks
ShellPid == 0
Jids == 1..(MaxForks + MaxFailures)

VARIABLES
    pc,          \* where the shell is
    target,      \* the pid reap_help, wait_child, bg or fg works on, or NoJob
    stat,        \* the status the last waitpid gave
    job_id,      \* the last job id given out
    proc,        \* each child's life, as the kernel sees it
    report,      \* each child's change of state that no waitpid has taken yet
    background,  \* the child's aflag
    redirected,  \* the child's standard input is a file
    tty,         \* the process group in the foreground of the terminal
    failures,    \* forks that failed or had no command
    nameless,    \* children forked for a line without a command word
    \* history: pids polled by this round of reap; children that cleanup_job_list
    \* found no process group for
    polled, missed

shell == <<pc, target, stat, job_id>>
children == <<proc, report, background, redirected, nameless>>
jobs == <<job_list, current>>
history == <<failures, polled, missed>>
vars == <<shell, children, jobs, tty, history>>

Init ==
    /\ init_job_list
    /\ pc = "read" /\ target = NoJob /\ stat = "none" /\ job_id = 0
    /\ proc = [p \in Pids |-> "none"]
    /\ report = [p \in Pids |-> "none"]
    /\ background = [p \in Pids |-> FALSE]
    /\ redirected = [p \in Pids |-> FALSE]
    /\ nameless = {}
    /\ tty = ShellPid
    /\ failures = 0 /\ polled = {} /\ missed = {}

------------------------------------------------------------------------------
(* The kernel, as the shell uses it *)

Ended == {"exited", "signaled"}
Live(p) == proc[p] \in {"born", "grouped", "ready", "running", "stopped"}
IsChild(p) == Live(p) \/ proc[p] = "zombie"
\* The group p exists: its process has called setpgid and is not reaped.
GroupExists(p) == p \in Pids /\ IsChild(p) /\ proc[p] # "born"

\* A child's new state replaces a change that nobody has collected.
Becomes(p, state, change) ==
    /\ proc' = [proc EXCEPT ![p] = state]
    /\ report' = [report EXCEPT ![p] = change]
    /\ UNCHANGED <<background, redirected, nameless>>

\* killpg(p, SIGCONT) continues a stopped process and changes no other.
sigcont(p) ==
    IF proc[p] = "stopped" THEN Becomes(p, "running", "continued")
    ELSE UNCHANGED children

\* waitpid takes p's change; a child that ended is gone with it.
waitpid(p) ==
    /\ stat' = report[p]
    /\ Becomes(p, IF report[p] \in Ended THEN "gone" ELSE proc[p], "none")

At(step) == pc = step /\ UNCHANGED missed
GoTo(step) == pc' = step /\ target' = NoJob /\ stat' = "none"

------------------------------------------------------------------------------
(* repl: read a line, reap, dispatch *)

\* The shell ignores the terminal's signals while it is at the prompt.
repl_read ==
    /\ At("read")
    /\ GoTo("reap")
    /\ polled' = {}
    /\ UNCHANGED <<job_id, children, jobs, tty, failures>>

reap ==
    /\ At("reap")
    /\ get_next_pid
    /\ IF next_pid > 0
       THEN pc' = "poll" /\ target' = next_pid /\ stat' = "none"
       ELSE GoTo("dispatch")
    /\ UNCHANGED <<job_id, children, tty, failures, polled>>

\* reap_help asks about the child without waiting.
reap_help_waitpid ==
    /\ At("poll")
    /\ polled' = polled \cup {target}
    /\ IF get_job_jid(target) < 0 \/ report[target] = "none"
       THEN GoTo("reap") /\ UNCHANGED children
       ELSE /\ waitpid(target)
            /\ pc' = "reap_help"
            /\ UNCHANGED target
    /\ UNCHANGED <<job_id, jobs, tty, failures>>

reap_help ==
    /\ At("reap_help")
    /\ CASE stat = "stopped"   -> update_job_pid(target, "Stopped")
         [] stat \in Ended     -> remove_job_pid(target)
         [] stat = "continued" -> update_job_pid(target, "Running")
    /\ GoTo("reap")
    /\ UNCHANGED <<job_id, children, tty, failures, polled>>

\* End of input: the list is cleaned up before the shell returns.
repl_eof ==
    /\ At("dispatch")
    /\ GoTo("cleanup")
    /\ UNCHANGED <<job_id, children, jobs, tty, failures, polled>>

\* A failed read and the command exit return at once.
repl_return ==
    /\ At("dispatch")
    /\ GoTo("done")
    /\ UNCHANGED <<job_id, children, jobs, tty, failures, polled>>

\* A line that does not parse, cd, rm, ln, jobs, exit with arguments, and fg
\* without one, which reads argc past its end and finds no % there.
repl_no_job ==
    /\ At("dispatch")
    /\ GoTo("read")
    /\ UNCHANGED <<job_id, children, jobs, tty, failures, polled>>

\* Mutation: jobs that are stopped are not killed.
cleanup_running ==
    /\ pc = "cleanup" /\ job_list # <<>>
    /\ LET p == Head(job_list).pid IN
       /\ IF GroupExists(p) /\ Live(p) /\ Head(job_list).state = "Running"
          THEN Becomes(p, "zombie", "signaled") ELSE UNCHANGED children
       /\ missed' = IF p \in Pids /\ ~GroupExists(p) THEN missed \cup {p} ELSE missed
    /\ job_list' = Tail(job_list)
    /\ UNCHANGED <<shell, current, tty, failures, polled>>

\* cleanup_job_list: one element, killed as a group and freed.
cleanup_job_list ==
    /\ pc = "cleanup" /\ job_list # <<>>
    /\ LET p == Head(job_list).pid IN
       /\ IF GroupExists(p) /\ Live(p) THEN Becomes(p, "zombie", "signaled")
          ELSE UNCHANGED children
       /\ missed' = IF p \in Pids /\ ~GroupExists(p) THEN missed \cup {p} ELSE missed
    /\ job_list' = Tail(job_list)
    /\ UNCHANGED <<shell, current, tty, failures, polled>>

cleanup_return ==
    /\ At("cleanup") /\ job_list = <<>>
    /\ current' = NoJob
    /\ GoTo("done")
    /\ UNCHANGED <<job_id, children, job_list, tty, failures, polled>>

------------------------------------------------------------------------------
(* fork_process and wait_child *)

\* The child starts in the shell's own group; the shell waits for it unless the
\* line ended in &.
Forks(p, amp, input) ==
    /\ proc[p] = "none" /\ \A q \in 1..(p - 1) : proc[q] # "none"
    /\ proc' = [proc EXCEPT ![p] = "born"]
    /\ background' = [background EXCEPT ![p] = amp]
    /\ redirected' = [redirected EXCEPT ![p] = input]
    /\ job_id' = job_id + 1
    /\ IF amp THEN GoTo("read")
       ELSE pc' = "wait" /\ target' = p /\ stat' = "none"
    /\ UNCHANGED <<report, tty, polled>>

fork_process(amp, input) ==
    /\ At("dispatch")
    /\ \E p \in Pids : Forks(p, amp, input) /\ add_job(job_id + 1, p)
    /\ UNCHANGED <<failures, nameless>>

\* A line of redirections or an & alone parses with narg = 0.  argv[0] is NULL,
\* which add_job refuses, so the child has no job.
fork_process_nameless(amp, input) ==
    /\ At("dispatch") /\ failures < MaxFailures
    /\ failures' = failures + 1
    /\ \E p \in Pids : Forks(p, amp, input) /\ nameless' = nameless \cup {p}
    /\ UNCHANGED jobs

\* fork fails: the job list gets a job of pid -1, and wait_child waits for that.
fork_process_fails(amp) ==
    /\ At("dispatch") /\ failures < MaxFailures
    /\ failures' = failures + 1
    /\ job_id' = job_id + 1
    /\ add_job(job_id + 1, NoPid)
    /\ IF amp THEN GoTo("read")
       ELSE pc' = "wait" /\ target' = NoPid /\ stat' = "none"
    /\ UNCHANGED <<children, tty, polled>>

\* waitpid(-1) is satisfied by any child.
Awaited == IF target = NoPid THEN {p \in Pids : IsChild(p)} ELSE {target}

\* Blocks until a child it waits for has stopped or ended.
wait_child_waitpid ==
    /\ At("wait")
    /\ \E p \in Awaited : report[p] \in Ended \cup {"stopped"} /\ waitpid(p)
    /\ pc' = "wait_child"
    /\ UNCHANGED <<target, job_id, jobs, tty, failures, polled>>

\* ... or fails when there is none.
wait_child_no_child ==
    /\ At("wait") /\ Awaited = {}
    /\ GoTo("terminal")
    /\ UNCHANGED <<job_id, children, jobs, tty, failures, polled>>

\* Mutation: a job that a signal ended stays on the list.
wait_child_keeps_killed ==
    /\ At("wait_child")
    /\ CASE stat = "stopped" -> update_job_pid(target, "Stopped")
         [] stat = "exited" -> remove_job_pid(target)
         [] OTHER -> UNCHANGED jobs
    /\ GoTo("terminal")
    /\ UNCHANGED <<job_id, children, tty, failures, polled>>

\* Mutation: a job that stopped in the foreground is not marked.
wait_child_no_mark ==
    /\ At("wait_child")
    /\ IF stat = "stopped" THEN UNCHANGED jobs ELSE remove_job_pid(target)
    /\ GoTo("terminal")
    /\ UNCHANGED <<job_id, children, tty, failures, polled>>

wait_child ==
    /\ At("wait_child")
    /\ IF stat = "stopped" THEN update_job_pid(target, "Stopped")
       ELSE remove_job_pid(target)
    /\ GoTo("terminal")
    /\ UNCHANGED <<job_id, children, tty, failures, polled>>

wait_child_terminal ==
    /\ At("terminal")
    /\ tty' = ShellPid
    /\ GoTo("read")
    /\ UNCHANGED <<job_id, children, jobs, failures, polled>>

------------------------------------------------------------------------------
(* bg and fg *)

\* The common part: look the job up and continue its group; next names what
\* follows when both succeed.
resume(jid, next) ==
    /\ At("dispatch")
    /\ LET p == get_job_pid(jid) IN
       IF GroupExists(p)
       THEN sigcont(p) /\ pc' = next /\ target' = p /\ stat' = "none"
       ELSE GoTo("read") /\ UNCHANGED children
    /\ UNCHANGED <<job_id, jobs, tty, failures, polled>>

bg(jid) == resume(jid, "bg")

bg_update ==
    /\ At("bg")
    /\ update_job_pid(target, "Running")
    /\ GoTo("read")
    /\ UNCHANGED <<job_id, children, tty, failures, polled>>

\* Mutation: fg waits without having continued the job.
fg_silent(jid) ==
    /\ At("dispatch")
    /\ LET p == get_job_pid(jid) IN
       IF GroupExists(p) THEN pc' = "fg" /\ target' = p /\ stat' = "none"
       ELSE GoTo("read")
    /\ UNCHANGED <<job_id, children, jobs, tty, failures, polled>>

fg(jid) == resume(jid, "fg")

\* The job's group exists as long as its process is not reaped, so tcsetpgrp
\* succeeds.
fg_update ==
    /\ At("fg")
    /\ update_job_pid(target, "Running")
    /\ tty' = target
    /\ pc' = "wait"
    /\ UNCHANGED <<target, stat, job_id, children, failures, polled>>

------------------------------------------------------------------------------
(* The child: fork_process after fork returned 0, then its program *)

Running == pc # "done"
ChildStep(p, from) ==
    Running /\ proc[p] = from /\ UNCHANGED <<shell, jobs, history>>

child_setpgid(p) ==
    /\ ChildStep(p, "born")
    /\ Becomes(p, "grouped", "none")
    /\ UNCHANGED tty

\* Mutation: a background child takes the terminal too.
child_grabs_tty(p) ==
    /\ ChildStep(p, "grouped")
    /\ Becomes(p, "ready", "none")
    /\ tty' = IF redirected[p] THEN tty ELSE p

\* tcsetpgrp names the terminal by STDIN_FILENO: it fails when redir has put a
\* file there.
child_tcsetpgrp(p) ==
    /\ ChildStep(p, "grouped")
    /\ Becomes(p, "ready", "none")
    /\ tty' = IF background[p] \/ redirected[p] THEN tty ELSE p

\* multisignal(1), execv; when that fails, exit(0).
child_execv(p) ==
    /\ ChildStep(p, "ready")
    /\ \/ p \notin nameless /\ Becomes(p, "running", "none")
       \/ Becomes(p, "zombie", "exited")
    /\ UNCHANGED tty

\* The program, and signals from the terminal or from other processes.  SIGSTOP
\* reaches no child before execv.
program_exits(p) ==
    ChildStep(p, "running") /\ Becomes(p, "zombie", "exited") /\ UNCHANGED tty
program_stops(p) ==
    ChildStep(p, "running") /\ Becomes(p, "stopped", "stopped") /\ UNCHANGED tty
program_continued(p) ==
    ChildStep(p, "stopped") /\ Becomes(p, "running", "continued") /\ UNCHANGED tty
child_killed(p) ==
    /\ Live(p) /\ ChildStep(p, proc[p])
    /\ Becomes(p, "zombie", "signaled")
    /\ UNCHANGED tty

------------------------------------------------------------------------------
Next ==
    \/ repl_read \/ reap \/ reap_help_waitpid \/ reap_help
    \/ repl_eof \/ repl_return \/ repl_no_job
    \/ cleanup_job_list \/ cleanup_return
    \/ \E amp, input \in BOOLEAN : fork_process(amp, input)
    \/ \E amp, input \in BOOLEAN : fork_process_nameless(amp, input)
    \/ \E amp \in BOOLEAN : fork_process_fails(amp)
    \/ wait_child_waitpid \/ wait_child_no_child \/ wait_child \/ wait_child_terminal
    \/ \E jid \in Jids : bg(jid) \/ fg(jid)
    \/ bg_update \/ fg_update
    \/ \E p \in Pids : \/ child_setpgid(p) \/ child_tcsetpgrp(p) \/ child_execv(p)
                       \/ program_exits(p) \/ program_stops(p)
                       \/ program_continued(p) \/ child_killed(p)
    \/ pc = "done" /\ UNCHANGED vars

Spec == Init /\ [][Next]_vars
==============================================================================
