----------------------------- MODULE ShellProps ------------------------------
(***************************************************************************)
(* What the job list of src/shell_2 says about the shell's children, who   *)
(* has the terminal, and what reap, wait_child and cleanup_job_list        *)
(* achieve, whatever the children do in the meantime.                      *)
(***************************************************************************)
EXTENDS Shell, FiniteSets

ListedPids == {job_list[i].pid : i \in DOMAIN job_list}
ListedJids == {job_list[i].jid : i \in DOMAIN job_list}
\* The shell has taken a status and has not yet written it to the list.
Applying(p) == target = p /\ pc \in {"reap_help", "wait_child", "bg", "fg"}
Ending == pc \in {"cleanup", "done"}

\* "Step through the job list and updates it" (reap.h): the iterator, which the
\* removals of fg, wait_child and reap itself move, never points to a freed
\* element, and a round of reap asks about every job.  (The pid of a failed fork
\* ends a round early.)
ReapCoversList ==
    /\ ~Ending => current \in ListedJids \cup {NoJob}
    /\ failures = 0 /\ pc = "dispatch" => ListedPids \subseteq polled

\* Every child the shell has started and not collected has a job, and every job
\* but one of a failed fork, or one whose status a wait for any child took, is a
\* child not yet collected.  No child has two jobs.
ListMatchesChildren ==
    ~Ending =>
      /\ \A p \in Pids : IsChild(p) => p \in ListedPids \cup nameless
      /\ failures = 0 => \A p \in ListedPids : IsChild(p) \/ Applying(p)
      /\ \A i, j \in DOMAIN job_list :
           i # j /\ job_list[i].pid # NoPid => job_list[i].pid # job_list[j].pid

\* Where the list is wrong about a child, the child's change is still to be
\* collected: no interleaving of bg, fg and reap with stops and continues makes
\* the list wrong for good.
StatesCatchUp ==
    failures = 0 /\ ~Ending =>
      \A i \in DOMAIN job_list :
        LET p == job_list[i].pid IN
        ~Applying(p) =>
          /\ job_list[i].state = "Running" /\ proc[p] = "stopped" => report[p] = "stopped"
          /\ job_list[i].state = "Stopped" /\ proc[p] = "running" => report[p] = "continued"

\* The shell never blocks in wait_child on a child that has nothing more to
\* report until somebody else continues it.
NeverWaitsInVain ==
    pc = "wait" /\ target \in Pids =>
      \/ proc[target] \in {"born", "grouped", "ready", "running"}
      \/ report[target] \in Ended \cup {"stopped"}

\* Whenever the shell reads, reaps or dispatches, the terminal is its own; while
\* it waits for a job whose program runs, the terminal is that job's, except
\* one started in the foreground with its input redirected.
TerminalPlaced ==
    /\ pc \in {"read", "reap", "poll", "reap_help", "dispatch"} => tty = ShellPid
    /\ pc = "wait" /\ target \in Pids /\ proc[target] \in {"running", "stopped"} =>
         tty = target \/ (redirected[target] /\ ~background[target])

\* At the end of input cleanup_job_list kills every child, except those that had
\* not yet entered their process group and those without a job.
EofKillsJobs ==
    pc = "cleanup" /\ job_list = <<>> =>
      \A p \in Pids : Live(p) => p \in missed \cup nameless

\* As long as lines keep coming, no child that ended stays a zombie, unless it
\* never had a job.
ZombiesReaped ==
    []<>(pc = "read") /\ []<>(pc = "dispatch") =>
      \A p \in Pids : proc[p] = "zombie" ~> proc[p] = "gone" \/ p \in nameless

------------------------------------------------------------------------------
(* The inductive invariant behind the invariants above. *)

Job == [jid : Nat \ {0}, pid : Pids \cup {NoPid}, state : {"Running", "Stopped"}]
Changes == Ended \cup {"none", "stopped", "continued"}

TypeOK ==
    /\ job_list \in Seq(Job) /\ current \in Nat
    /\ pc \in {"read", "reap", "poll", "reap_help", "dispatch", "cleanup", "done",
               "wait", "wait_child", "terminal", "bg", "fg"}
    /\ target \in Pids \cup {NoPid, NoJob}
    /\ stat \in Changes
    /\ job_id \in Nat
    /\ proc \in [Pids -> {"none", "born", "grouped", "ready", "running", "stopped",
                          "zombie", "gone"}]
    /\ report \in [Pids -> Changes]
    /\ background \in [Pids -> BOOLEAN] /\ redirected \in [Pids -> BOOLEAN]
    /\ nameless \subseteq Pids /\ polled \subseteq Pids /\ missed \subseteq Pids
    /\ tty \in Pids \cup {ShellPid}
    /\ failures \in Nat

\* What a process has to report follows from the state it is in.
ReportsFit ==
    \A p \in Pids :
        /\ report[p] = "stopped" => proc[p] = "stopped"
        /\ report[p] = "continued" => proc[p] = "running"
        /\ report[p] \in Ended <=> proc[p] = "zombie"

\* The status that reap_help and wait_child are about to write to the list is
\* out of date only if the child has something newer to report.
StatusFits ==
    /\ pc = "reap_help" => target \in Pids /\ stat # "none"
    /\ pc = "wait_child" => target # NoJob /\ stat \in Ended \cup {"stopped"}
    /\ pc \in {"reap_help", "wait_child"} /\ target \in Pids =>
         /\ stat \in Ended => proc[target] = "gone"
         /\ stat \in {"stopped", "continued"} =>
              proc[target] \in {"stopped", "running", "zombie"}
         /\ stat = "stopped" /\ proc[target] = "running" => report[target] = "continued"
         /\ stat = "continued" /\ proc[target] = "stopped" => report[target] = "stopped"

\* What the shell works on, and that the job bg or fg continued has not stopped
\* since without a report.
TargetFits ==
    /\ pc \in {"poll", "bg", "fg"} => target \in Pids
    /\ pc = "wait" => target # NoJob
    /\ pc \in {"bg", "fg"} =>
         IsChild(target) /\ (proc[target] = "stopped" => report[target] = "stopped")
    /\ NeverWaitsInVain

\* Jobs are in the order of their ids, of processes that were forked, and no two
\* of the same process; only a fork that failed gives a job without a process.
JobsDistinct ==
    ~Ending =>
      /\ \A i \in DOMAIN job_list : job_list[i].jid <= job_id
      /\ \A i, j \in DOMAIN job_list : i < j => job_list[i].jid < job_list[j].jid
      /\ \A i, j \in DOMAIN job_list :
           i # j /\ job_list[i].pid # NoPid => job_list[i].pid # job_list[j].pid
      /\ \A i \in DOMAIN job_list :
           job_list[i].pid # NoPid => proc[job_list[i].pid] # "none"
      /\ failures = 0 => NoPid \notin ListedPids /\ target # NoPid

\* A job outlives its process only until reap_help or wait_child removes it.
ChildrenListed ==
    ~Ending =>
      /\ \A p \in Pids : IsChild(p) => p \in ListedPids \cup nameless
      /\ failures = 0 => \A p \in ListedPids :
           \/ IsChild(p)
           \/ target = p /\ pc \in {"reap_help", "wait_child"} /\ stat \in Ended

\* The iterator is on the list, at its head between two rounds of reap, and in a
\* round everything it has passed has been asked about.
Reaping == pc \in {"reap", "poll", "reap_help"}
IteratorPlaced ==
    ~Ending =>
      /\ current \in ListedJids \cup {NoJob}
      /\ failures = 0 /\ ~Reaping => current = FirstJid
      /\ failures = 0 /\ Reaping =>
           \A i \in DOMAIN job_list :
             current = NoJob \/ job_list[i].jid < current =>
               \/ job_list[i].pid \in polled
               \/ pc = "poll" /\ job_list[i].pid = target
      /\ failures = 0 /\ pc = "dispatch" => ListedPids \subseteq polled

\* A job is marked stopped only once its program has run.
MarksFit ==
    failures = 0 /\ ~Ending =>
      \A i \in DOMAIN job_list :
        job_list[i].state = "Stopped" =>
          proc[job_list[i].pid] \in {"running", "stopped", "zombie", "gone"}

\* A child that will still take the terminal is the one the shell waits for.
TerminalFits ==
    /\ pc \in {"read", "reap", "poll", "reap_help", "dispatch", "bg", "fg"} =>
         tty = ShellPid
    /\ \A p \in Pids : proc[p] \in {"born", "grouped"} /\ ~background[p] =>
         pc = "wait" /\ target = p
    /\ pc = "wait" /\ target \in Pids =>
         /\ background[target] => tty = target
         /\ proc[target] \in {"ready", "running", "stopped"} =>
              tty = target \/ redirected[target]

\* While the list is cleaned up, whoever lives is still listed or has been
\* passed over.
CleanupCovers ==
    pc = "cleanup" =>
      \A p \in Pids : Live(p) => p \in ListedPids \cup missed \cup nameless

ShellInv ==
    /\ TypeOK /\ ReportsFit /\ StatusFits /\ TargetFits
    /\ JobsDistinct /\ ChildrenListed /\ IteratorPlaced
    /\ StatesCatchUp /\ MarksFit /\ TerminalFits /\ CleanupCovers
==============================================================================
