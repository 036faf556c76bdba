----------------------------- MODULE ShellProofs -----------------------------
(***************************************************************************)
(* Proofs about the job-control shell, for any number of children and of   *)
(* failing forks: ShellInv is inductive, and the properties of ShellProps  *)
(* follow from it.                                                         *)
(***************************************************************************)
EXTENDS ShellProps, SequenceTheorems, WellFoundedInduction, TLAPS

------------------------------------------------------------------------------
(* The operators of Jobs *)

\* A set of natural numbers has a least element.
LEMMA LeastOf ==
    ASSUME NEW places \in SUBSET Nat, places # {}
    PROVE  \E i \in places : \A j \in places : i <= j
<1> DEFINE R == OpToRel(<, Nat)
<1>1. IsWellFoundedOn(R, Nat)
  BY NatLessThanWellFounded
<1>2. \A i, j \in Nat : <<j, i>> \in R <=> j < i
  BY DEF OpToRel
<1> HIDE DEF R
<1>3. PICK i \in places : \A j \in places : ~(<<j, i>> \in R)
  BY <1>1, WFMin
<1>4. ASSUME NEW j \in places
      PROVE  i <= j
  <2>1. ~(<<j, i>> \in R) /\ i \in Nat /\ j \in Nat
    BY <1>3
  <2>2. ~(j < i)
    BY <2>1, <1>2, Zenon
  <2> QED
    BY <2>1, <2>2
<1> QED
  BY <1>4

\* The walk of the list stops at the first of the places it looks for.
LEMMA FirstIsFirst ==
    ASSUME NEW places \in SUBSET Nat, places # {}
    PROVE  First(places) \in places /\ \A j \in places : First(places) <= j
  BY LeastOf DEF First

\* Taking an element out of the list.
LEMMA RemoveAtFacts ==
    ASSUME NEW S, NEW s \in Seq(S), NEW i \in 1..Len(s)
    PROVE  /\ RemoveAt(s, i) \in Seq(S)
           /\ Len(RemoveAt(s, i)) = Len(s) - 1
           /\ DOMAIN RemoveAt(s, i) = 1..(Len(s) - 1)
           /\ \A j \in 1..(Len(s) - 1) :
                RemoveAt(s, i)[j] = IF j < i THEN s[j] ELSE s[j + 1]
<1> DEFINE front == SubSeq(s, 1, i - 1)
           back == SubSeq(s, i + 1, Len(s))
<1>1. /\ front \in Seq(S) /\ Len(front) = i - 1
      /\ \A j \in 1..(i - 1) : front[j] = s[j]
  BY SubSeqProperties, ElementOfSeq
<1>2. /\ back \in Seq(S) /\ Len(back) = Len(s) - i
      /\ \A j \in 1..(Len(s) - i) : back[j] = s[i + j]
  BY SubSeqProperties, ElementOfSeq
<1>3. RemoveAt(s, i) = front \o back
  BY DEF RemoveAt
<1> HIDE DEF front, back
<1>4. /\ RemoveAt(s, i) \in Seq(S) /\ Len(RemoveAt(s, i)) = Len(s) - 1
      /\ \A j \in 1..(Len(s) - 1) :
           RemoveAt(s, i)[j] = IF j <= i - 1 THEN front[j] ELSE back[j - (i - 1)]
  BY <1>1, <1>2, <1>3, ConcatProperties
<1> QED
  BY <1>1, <1>2, <1>4

\* Where the list is searched for a process or for a job id.
LEMMA PidAtFacts ==
    ASSUME TypeOK, NEW pid
    PROVE  /\ PidAt(pid) \in 0..Len(job_list)
           /\ PidAt(pid) = 0 => \A i \in 1..Len(job_list) : job_list[i].pid # pid
           /\ PidAt(pid) # 0 => job_list[PidAt(pid)].pid = pid
<1> DEFINE places == {i \in 1..Len(job_list) : job_list[i].pid = pid}
<1>1. Len(job_list) \in Nat /\ DOMAIN job_list = 1..Len(job_list)
  BY DEF TypeOK
<1>2. PidAt(pid) = First(places)
  BY <1>1 DEF PidAt
<1>3. CASE places = {}
  BY <1>1, <1>2, <1>3 DEF First
<1>4. CASE places # {}
  <2>1. places \in SUBSET Nat
    BY <1>1
  <2>2. First(places) \in places
    BY <2>1, <1>4, FirstIsFirst, Zenon
  <2> QED
    BY <1>1, <1>2, <2>2
<1> QED
  BY <1>3, <1>4

LEMMA JidAtFacts ==
    ASSUME TypeOK, NEW jid
    PROVE  /\ JidAt(jid) \in 0..Len(job_list)
           /\ JidAt(jid) = 0 => \A i \in 1..Len(job_list) : job_list[i].jid # jid
           /\ JidAt(jid) # 0 => job_list[JidAt(jid)].jid = jid
<1> DEFINE places == {i \in 1..Len(job_list) : job_list[i].jid = jid}
<1>1. Len(job_list) \in Nat /\ DOMAIN job_list = 1..Len(job_list)
  BY DEF TypeOK
<1>2. JidAt(jid) = First(places)
  BY <1>1 DEF JidAt
<1>3. CASE places = {}
  BY <1>1, <1>2, <1>3 DEF First
<1>4. CASE places # {}
  <2>1. places \in SUBSET Nat
    BY <1>1
  <2>2. First(places) \in places
    BY <2>1, <1>4, FirstIsFirst, Zenon
  <2> QED
    BY <1>1, <1>2, <2>2
<1> QED
  BY <1>3, <1>4

LEMMA JobAt ==
    ASSUME TypeOK, NEW i \in 1..Len(job_list)
    PROVE  /\ job_list[i].jid \in Nat \ {0}
           /\ job_list[i].pid \in Pids \cup {NoPid}
           /\ job_list[i].state \in {"Running", "Stopped"}
<1>1. job_list[i] \in Job
  BY ElementOfSeq DEF TypeOK
<1> QED
  BY <1>1 DEF Job

\* What get_next_pid and get_job_pid return is a pid of the list, or -1.
LEMMA JobPidFacts ==
    ASSUME TypeOK, NEW jid
    PROVE  get_job_pid(jid) # NoPid =>
             /\ JidAt(jid) \in 1..Len(job_list)
             /\ job_list[JidAt(jid)].jid = jid
             /\ get_job_pid(jid) = job_list[JidAt(jid)].pid
             /\ get_job_pid(jid) \in Pids
  BY JidAtFacts, JobAt DEF get_job_pid

\* What the three writing operations of jobs.c do to the list, place by place.
LEMMA AddFacts ==
    ASSUME TypeOK, NEW jid \in Nat \ {0}, NEW pid \in Pids \cup {NoPid}, add_job(jid, pid)
    PROVE  /\ job_list' \in Seq(Job)
           /\ Len(job_list') = Len(job_list) + 1
           /\ \A i \in 1..Len(job_list) : job_list'[i] = job_list[i]
           /\ job_list'[Len(job_list) + 1].jid = jid
           /\ job_list'[Len(job_list) + 1].pid = pid
           /\ job_list'[Len(job_list) + 1].state = "Running"
<1> DEFINE job == [jid |-> jid, pid |-> pid, state |-> "Running"]
<1>1. job \in Job
  BY DEF Job
<1>2. job_list \in Seq(Job) /\ job_list' = Append(job_list, job)
  BY DEF TypeOK, add_job
<1>3. job.jid = jid /\ job.pid = pid /\ job.state = "Running"
  OBVIOUS
<1> HIDE DEF job
<1> QED
  BY <1>1, <1>2, <1>3, AppendProperties

LEMMA UpdateFacts ==
    ASSUME TypeOK, NEW pid, NEW state \in {"Running", "Stopped"},
           update_job_pid(pid, state)
    PROVE  /\ job_list' \in Seq(Job)
           /\ Len(job_list') = Len(job_list)
           /\ \A i \in 1..Len(job_list) :
                /\ job_list'[i].jid = job_list[i].jid
                /\ job_list'[i].pid = job_list[i].pid
                /\ job_list'[i].state =
                     IF i = PidAt(pid) THEN state ELSE job_list[i].state
           /\ current' = current
<1>1. job_list \in Seq(Job) /\ PidAt(pid) \in 0..Len(job_list)
  BY PidAtFacts DEF TypeOK
<1>2. current' = current
  BY DEF update_job_pid
<1>3. CASE PidAt(pid) = 0
  BY <1>1, <1>2, <1>3 DEF update_job_pid
<1>4. CASE PidAt(pid) # 0
  <2> DEFINE k == PidAt(pid)
             job == [job_list[k] EXCEPT !.state = state]
  <2>1. k \in 1..Len(job_list) /\ job_list[k] \in Job
    BY <1>1, <1>4, ElementOfSeq
  <2>2. /\ job \in Job
        /\ job.jid = job_list[k].jid /\ job.pid = job_list[k].pid /\ job.state = state
    BY <2>1 DEF Job
  <2>3. job_list' = [job_list EXCEPT ![k] = job]
    BY <1>4 DEF update_job_pid
  <2> HIDE DEF job, k
  <2>4. /\ job_list' \in Seq(Job) /\ Len(job_list') = Len(job_list)
        /\ \A i \in 1..Len(job_list) : job_list'[i] = IF i = k THEN job ELSE job_list[i]
    BY <1>1, <2>1, <2>2, <2>3, ExceptSeq
  <2> QED
    BY <1>2, <2>2, <2>4 DEF k
<1> QED
  BY <1>3, <1>4

\* The element at i after a removal was at Kept(k, i) before it.
Kept(k, i) == IF i < k THEN i ELSE i + 1

LEMMA RemoveFacts ==
    ASSUME TypeOK, NEW pid, remove_job_pid(pid), PidAt(pid) # 0
    PROVE  /\ PidAt(pid) \in 1..Len(job_list) /\ job_list[PidAt(pid)].pid = pid
           /\ job_list' \in Seq(Job)
           /\ Len(job_list') = Len(job_list) - 1
           /\ \A i \in 1..Len(job_list') :
                /\ Kept(PidAt(pid), i) \in 1..Len(job_list) /\ Kept(PidAt(pid), i) # PidAt(pid)
                /\ job_list'[i] = job_list[Kept(PidAt(pid), i)]
           /\ \A i \in 1..Len(job_list) : i # PidAt(pid) =>
                \E j \in 1..Len(job_list') : i = Kept(PidAt(pid), j)
           /\ current' = IF current # job_list[PidAt(pid)].jid THEN current
                         ELSE IF PidAt(pid) = Len(job_list) THEN NoJob
                         ELSE job_list[PidAt(pid) + 1].jid
<1> DEFINE k == PidAt(pid)
<1>1. job_list \in Seq(Job) /\ k \in 1..Len(job_list) /\ job_list[k].pid = pid
  BY PidAtFacts DEF TypeOK
<1>2. /\ job_list' = RemoveAt(job_list, k)
      /\ current' = IF current = job_list[k].jid THEN NextJid(k) ELSE current
  BY DEF remove_job_pid
<1> HIDE DEF k
<1>3. /\ job_list' \in Seq(Job) /\ Len(job_list') = Len(job_list) - 1
      /\ \A i \in 1..(Len(job_list) - 1) :
           job_list'[i] = IF i < k THEN job_list[i] ELSE job_list[i + 1]
  BY <1>1, <1>2, RemoveAtFacts
<1>4. Len(job_list) \in Nat
  BY <1>1
<1>5. ASSUME NEW i \in 1..Len(job_list), i # k
      PROVE  \E j \in 1..Len(job_list') : i = Kept(k, j)
  <2>1. CASE i < k
    BY <1>1, <1>3, <1>4, <2>1 DEF Kept
  <2>2. CASE i > k
    <3>1. i - 1 \in 1..Len(job_list') /\ i = Kept(k, i - 1)
      BY <1>1, <1>3, <1>4, <2>2 DEF Kept
    <3> QED
      BY <3>1
  <2> QED
    BY <1>1, <1>5, <2>1, <2>2
<1>6. ASSUME NEW i \in 1..Len(job_list')
      PROVE  /\ Kept(k, i) \in 1..Len(job_list) /\ Kept(k, i) # k
             /\ job_list'[i] = job_list[Kept(k, i)]
  BY <1>1, <1>3, <1>4 DEF Kept
<1> QED
  BY <1>1, <1>2, <1>3, <1>5, <1>6 DEF NextJid, k

------------------------------------------------------------------------------
(* The steps of the shell, in three groups: those that leave the list alone, *)
(* those that change it, and those of a child.                               *)

Quiet ==
    \/ repl_read \/ reap_help_waitpid \/ repl_eof \/ repl_return \/ repl_no_job
    \/ \E amp, input \in BOOLEAN : fork_process_nameless(amp, input)
    \/ wait_child_waitpid \/ wait_child_no_child \/ wait_child_terminal
    \/ \E jid \in Jids : bg(jid) \/ fg(jid)

ChildMoves ==
    \E p \in Pids : \/ child_setpgid(p) \/ child_tcsetpgrp(p) \/ child_execv(p)
                    \/ program_exits(p) \/ program_stops(p)
                    \/ program_continued(p) \/ child_killed(p)

LEMMA NextCases ==
    ASSUME [Next]_vars
    PROVE  \/ Quiet
           \/ reap \/ reap_help \/ cleanup_job_list \/ cleanup_return
           \/ \E amp, input \in BOOLEAN : fork_process(amp, input)
           \/ \E amp \in BOOLEAN : fork_process_fails(amp)
           \/ wait_child \/ bg_update \/ fg_update
           \/ ChildMoves
           \/ UNCHANGED vars
  BY DEF Next, Quiet, ChildMoves

\* The life of a child, in one table.
ChildChange(p, state, change) ==
    /\ Becomes(p, state, change)
    /\ \/ proc[p] = "born" /\ state = "grouped" /\ change = "none"
       \/ proc[p] = "grouped" /\ state = "ready" /\ change = "none"
       \/ proc[p] = "ready" /\ state = "running" /\ change = "none"
       \/ proc[p] = "running" /\ state = "stopped" /\ change = "stopped"
       \/ proc[p] = "stopped" /\ state = "running" /\ change = "continued"
       \/ Live(p) /\ state = "zombie" /\ change \in Ended
    /\ tty' = IF proc[p] = "grouped" /\ state = "ready"
                 /\ ~background[p] /\ ~redirected[p]
              THEN p ELSE tty
    /\ UNCHANGED <<shell, jobs, history>>

LEMMA ChildCases ==
    ASSUME ChildMoves
    PROVE  \E p \in Pids : \E state, change : ChildChange(p, state, change)
<1>1. PICK p \in Pids : \/ child_setpgid(p) \/ child_tcsetpgrp(p) \/ child_execv(p)
                        \/ program_exits(p) \/ program_stops(p)
                        \/ program_continued(p) \/ child_killed(p)
  BY DEF ChildMoves
<1>2. CASE child_setpgid(p)
  <2>1. ChildChange(p, "grouped", "none")
    BY <1>2 DEF child_setpgid, ChildStep, ChildChange
  <2> QED
    BY <2>1
<1>3. CASE child_tcsetpgrp(p)
  <2>1. ChildChange(p, "ready", "none")
    BY <1>3 DEF child_tcsetpgrp, ChildStep, ChildChange
  <2> QED
    BY <2>1
<1>4. CASE child_execv(p)
  <2>1. ChildChange(p, "running", "none") \/ ChildChange(p, "zombie", "exited")
    BY <1>4 DEF child_execv, ChildStep, ChildChange, Live, Ended
  <2> QED
    BY <2>1
<1>5. CASE program_exits(p)
  <2>1. ChildChange(p, "zombie", "exited")
    BY <1>5 DEF program_exits, ChildStep, ChildChange, Live, Ended
  <2> QED
    BY <2>1
<1>6. CASE program_stops(p)
  <2>1. ChildChange(p, "stopped", "stopped")
    BY <1>6 DEF program_stops, ChildStep, ChildChange
  <2> QED
    BY <2>1
<1>7. CASE program_continued(p)
  <2>1. ChildChange(p, "running", "continued")
    BY <1>7 DEF program_continued, ChildStep, ChildChange
  <2> QED
    BY <2>1
<1>8. CASE child_killed(p)
  <2>1. ChildChange(p, "zombie", "signaled")
    BY <1>8 DEF child_killed, ChildStep, ChildChange, Ended
  <2> QED
    BY <2>1
<1> QED
  BY <1>1, <1>2, <1>3, <1>4, <1>5, <1>6, <1>7, <1>8

------------------------------------------------------------------------------
(* Types *)

LEMMA JobsTyped ==
    ASSUME ShellInv, [Next]_vars
    PROVE  job_list' \in Seq(Job) /\ current' \in Nat
<1>1. /\ TypeOK /\ job_list \in Seq(Job) /\ current \in Nat /\ job_id \in Nat
      /\ \A i \in 1..Len(job_list) : job_list[i].jid \in Nat
  BY JobAt DEF ShellInv, TypeOK
<1>2. CASE Quiet \/ ChildMoves \/ UNCHANGED vars
  <2>1. UNCHANGED jobs
    BY <1>2, ChildCases
       DEF Quiet, repl_read, reap_help_waitpid, repl_eof, repl_return, repl_no_job,
           fork_process_nameless, wait_child_waitpid, wait_child_no_child,
           wait_child_terminal, bg, fg, resume, ChildChange, vars
  <2> QED
    BY <1>1, <2>1 DEF jobs
<1>3. CASE reap
  BY <1>1, <1>3, JidAtFacts DEF reap, get_next_pid, FirstJid, NextJid, NoJob
<1>4. ASSUME NEW pid, remove_job_pid(pid)
      PROVE  job_list' \in Seq(Job) /\ current' \in Nat
  <2>1. CASE PidAt(pid) = 0
    BY <1>1, <1>4, <2>1 DEF remove_job_pid
  <2>2. CASE PidAt(pid) # 0
    <3>1. /\ PidAt(pid) \in 1..Len(job_list) /\ job_list' \in Seq(Job)
          /\ current' = IF current # job_list[PidAt(pid)].jid THEN current
                        ELSE IF PidAt(pid) = Len(job_list) THEN NoJob
                        ELSE job_list[PidAt(pid) + 1].jid
      BY <1>1, <1>4, <2>2, RemoveFacts, Zenon
    <3>2. PidAt(pid) # Len(job_list) => PidAt(pid) + 1 \in 1..Len(job_list)
      BY <1>1, <3>1
    <3> QED
      BY <1>1, <3>1, <3>2 DEF NoJob
  <2> QED
    BY <2>1, <2>2
<1>5. ASSUME NEW pid, NEW state \in {"Running", "Stopped"}, update_job_pid(pid, state)
      PROVE  job_list' \in Seq(Job) /\ current' \in Nat
  BY <1>1, <1>5, UpdateFacts
<1>6. CASE reap_help \/ wait_child \/ bg_update \/ fg_update
  BY <1>4, <1>5, <1>6
     DEF reap_help, wait_child, bg_update, fg_update, ShellInv, StatusFits, TypeOK, At,
         Changes
<1>7. ASSUME NEW pid \in Pids \cup {NoPid}, add_job(job_id + 1, pid)
      PROVE  job_list' \in Seq(Job) /\ current' \in Nat
  <2>1. job_list' \in Seq(Job)
    BY <1>1, <1>7, AddFacts
  <2>2. current' \in Nat
    BY <1>1, <1>7 DEF add_job
  <2> QED
    BY <2>1, <2>2
<1>8. CASE \/ \E amp, input \in BOOLEAN : fork_process(amp, input)
           \/ \E amp \in BOOLEAN : fork_process_fails(amp)
  BY <1>7, <1>8 DEF fork_process, fork_process_fails
<1>9. CASE cleanup_job_list \/ cleanup_return
  BY <1>1, <1>9 DEF cleanup_job_list, cleanup_return, NoJob
<1> QED
  BY <1>2, <1>3, <1>6, <1>8, <1>9, NextCases

LEMMA TypeStep ==
    ASSUME ShellInv, [Next]_vars
    PROVE  TypeOK'
<1> USE ShellBounds DEF ShellInv, TypeOK, Changes, Ended, NoPid, NoJob, ShellPid,
        At, GoTo, Becomes, waitpid, shell, children, history
<1>0. job_list' \in Seq(Job) /\ current' \in Nat
  BY JobsTyped
<1>1. CASE Quiet
  <2>1. CASE repl_read \/ repl_eof \/ repl_return \/ repl_no_job \/ wait_child_no_child
             \/ wait_child_terminal
    BY <1>0, <2>1 DEF repl_read, repl_eof, repl_return, repl_no_job, wait_child_no_child,
                wait_child_terminal
  <2>2. CASE reap_help_waitpid
    BY <1>0, <2>2 DEF reap_help_waitpid, TargetFits
  <2>3. ASSUME NEW amp \in BOOLEAN, NEW input \in BOOLEAN,
               fork_process_nameless(amp, input)
        PROVE  TypeOK'
    BY <1>0, <2>3 DEF fork_process_nameless, Forks
  <2>4. CASE wait_child_waitpid
    BY <1>0, <2>4 DEF wait_child_waitpid, Awaited, TargetFits
  <2>5. ASSUME NEW jid \in Jids, bg(jid) \/ fg(jid)
        PROVE  TypeOK'
    BY <1>0, <2>5 DEF bg, fg, resume, sigcont, GroupExists
  <2> QED
    BY <1>1, <2>1, <2>2, <2>3, <2>4, <2>5 DEF Quiet
<1>2. CASE reap
  <2>1. next_pid > 0 => next_pid \in Pids
    BY JobPidFacts DEF next_pid
  <2> QED
    BY <1>0, <1>2, <2>1 DEF reap
<1>3. CASE reap_help
  BY <1>0, <1>3 DEF reap_help
<1>4. CASE cleanup_job_list \/ cleanup_return
  BY <1>0, <1>4 DEF cleanup_job_list, cleanup_return
<1>5. ASSUME NEW amp \in BOOLEAN, NEW input \in BOOLEAN, fork_process(amp, input)
      PROVE  TypeOK'
  BY <1>0, <1>5 DEF fork_process, Forks
<1>6. ASSUME NEW amp \in BOOLEAN, fork_process_fails(amp)
      PROVE  TypeOK'
  BY <1>0, <1>6 DEF fork_process_fails
<1>7. CASE wait_child
  BY <1>0, <1>7 DEF wait_child
<1>8. CASE bg_update \/ fg_update
  BY <1>0, <1>8 DEF bg_update, fg_update, TargetFits
<1>9. CASE ChildMoves
  BY <1>0, <1>9, ChildCases, SMTT(40) DEF ChildChange
<1>10. CASE UNCHANGED vars
  BY <1>0, <1>10 DEF vars
<1> QED
  BY <1>1, <1>2, <1>3, <1>4, <1>5, <1>6, <1>7, <1>8, <1>9, <1>10, NextCases

------------------------------------------------------------------------------
(* The processes and what the shell knows of them *)

\* Every step is one of these for the processes: nothing, a status taken, a
\* child continued or killed by the shell, a fork, a move of the child itself.
LEMMA ProcessCases ==
    ASSUME ShellInv, [Next]_vars
    PROVE  \/ UNCHANGED children
           \/ \E p \in Pids : /\ pc \in {"poll", "wait"} /\ report[p] # "none"
                              /\ waitpid(p)
           \/ \E p \in Pids : /\ pc = "dispatch" /\ proc[p] = "stopped"
                              /\ Becomes(p, "running", "continued")
           \/ \E p \in Pids : /\ pc = "cleanup" /\ Live(p)
                              /\ Becomes(p, "zombie", "signaled")
           \/ \E p \in Pids : /\ pc = "dispatch" /\ proc[p] = "none"
                              /\ proc' = [proc EXCEPT ![p] = "born"]
                              /\ report' = report
           \/ \E p \in Pids : \E state, change : ChildChange(p, state, change)
<1> USE DEF At, Ended
<1>1. CASE reap_help_waitpid
  BY <1>1 DEF reap_help_waitpid, ShellInv, TargetFits
<1>2. CASE wait_child_waitpid
  BY <1>2 DEF wait_child_waitpid, Awaited, ShellInv, TypeOK, TargetFits
<1>3. ASSUME NEW jid \in Jids, bg(jid) \/ fg(jid)
      PROVE  \/ UNCHANGED children
             \/ \E p \in Pids : /\ pc = "dispatch" /\ proc[p] = "stopped"
                                /\ Becomes(p, "running", "continued")
  BY <1>3 DEF bg, fg, resume, sigcont, GroupExists
<1>4. CASE cleanup_job_list
  BY <1>4 DEF cleanup_job_list, GroupExists
<1>5. CASE \/ \E amp, input \in BOOLEAN : fork_process(amp, input)
           \/ \E amp, input \in BOOLEAN : fork_process_nameless(amp, input)
  BY <1>5 DEF fork_process, fork_process_nameless, Forks
<1>6. CASE ChildMoves
  BY <1>6, ChildCases
<1>7. CASE repl_read \/ repl_eof \/ repl_return \/ repl_no_job
           \/ wait_child_no_child \/ wait_child_terminal
  BY <1>7 DEF repl_read, repl_eof, repl_return, repl_no_job, wait_child_no_child,
              wait_child_terminal
<1>8. CASE \/ reap \/ reap_help \/ cleanup_return \/ wait_child \/ bg_update \/ fg_update
           \/ \E amp \in BOOLEAN : fork_process_fails(amp) \/ UNCHANGED vars
  BY <1>8 DEF reap, reap_help, cleanup_return, wait_child, bg_update, fg_update,
              fork_process_fails, vars
<1> QED
  BY <1>1, <1>2, <1>3, <1>4, <1>5, <1>6, <1>7, <1>8, NextCases DEF Quiet

LEMMA ReportsStep ==
    ASSUME ShellInv, [Next]_vars
    PROVE  ReportsFit'
<1> USE DEF ReportsFit, Ended
<1>1. /\ ReportsFit /\ proc \in [Pids -> {"none", "born", "grouped", "ready", "running",
                                          "stopped", "zombie", "gone"}]
      /\ report \in [Pids -> Changes]
  BY DEF ShellInv, TypeOK
<1>2. CASE UNCHANGED children
  BY <1>1, <1>2 DEF children
<1>3. ASSUME NEW p \in Pids, report[p] # "none", waitpid(p)
      PROVE  ReportsFit'
  BY <1>1, <1>3 DEF waitpid, Becomes
<1>4. ASSUME NEW p \in Pids, proc[p] = "stopped", Becomes(p, "running", "continued")
      PROVE  ReportsFit'
  BY <1>1, <1>4 DEF Becomes
<1>5. ASSUME NEW p \in Pids, Becomes(p, "zombie", "signaled")
      PROVE  ReportsFit'
  BY <1>1, <1>5 DEF Becomes
<1>6. ASSUME NEW p \in Pids, proc[p] = "none", proc' = [proc EXCEPT ![p] = "born"],
             report' = report
      PROVE  ReportsFit'
  BY <1>1, <1>6 DEF Becomes
<1>7. ASSUME NEW p \in Pids, NEW state, NEW change, ChildChange(p, state, change)
      PROVE  ReportsFit'
  BY <1>1, <1>7 DEF ChildChange, Becomes, Live
<1> QED
  BY <1>2, <1>3, <1>4, <1>5, <1>6, <1>7, ProcessCases

LEMMA StatusStep ==
    ASSUME ShellInv, [Next]_vars
    PROVE  StatusFits'
<1> USE DEF StatusFits, Ended, At, GoTo, shell, children
<1>1. /\ StatusFits /\ ReportsFit /\ TargetFits
      /\ target \in Pids \cup {NoPid, NoJob}
      /\ proc \in [Pids -> {"none", "born", "grouped", "ready", "running",
                            "stopped", "zombie", "gone"}]
      /\ report \in [Pids -> Changes]
  BY DEF ShellInv, TypeOK
<1>2. CASE pc' \notin {"reap_help", "wait_child"}
  BY <1>2
<1>3. CASE reap_help_waitpid
  BY <1>1, <1>3 DEF reap_help_waitpid, waitpid, Becomes, TargetFits, ReportsFit, Changes
<1>4. CASE wait_child_waitpid
  <2>1. PICK p \in Awaited : report[p] \in Ended \cup {"stopped"} /\ waitpid(p)
    BY <1>4 DEF wait_child_waitpid
  <2>2. p \in Pids /\ target # NoJob /\ (target \in Pids => p = target)
    BY <1>1, <1>4, <2>1, ShellBounds
       DEF wait_child_waitpid, Awaited, TargetFits, Pids, NoPid
  <2>3. pc' = "wait_child" /\ target' = target
    BY <1>4 DEF wait_child_waitpid
  <2> QED
    BY <1>1, <2>1, <2>2, <2>3 DEF waitpid, Becomes, ReportsFit, Changes
<1>5. ASSUME NEW p \in Pids, NEW state, NEW change, ChildChange(p, state, change)
      PROVE  StatusFits'
  BY <1>1, <1>5 DEF ChildChange, Becomes, Live
<1>6. CASE UNCHANGED vars
  BY <1>1, <1>6 DEF vars
<1>7. \/ pc' \notin {"reap_help", "wait_child"} \/ reap_help_waitpid
      \/ wait_child_waitpid \/ ChildMoves \/ UNCHANGED vars
  BY NextCases
     DEF Quiet, repl_read, repl_eof, repl_return, repl_no_job, wait_child_no_child,
         wait_child_terminal, fork_process_nameless, Forks, bg, fg, resume, reap,
         reap_help, cleanup_job_list, cleanup_return, fork_process, fork_process_fails,
         wait_child, bg_update, fg_update
<1> QED
  BY <1>2, <1>3, <1>4, <1>5, <1>6, <1>7, ChildCases

LEMMA TargetStep ==
    ASSUME ShellInv, [Next]_vars
    PROVE  TargetFits'
<1> USE DEF TargetFits, NeverWaitsInVain, Ended, At, GoTo, shell, children, IsChild, Live
<1>1. /\ TargetFits /\ ReportsFit /\ TypeOK
      /\ target \in Pids \cup {NoPid, NoJob}
      /\ proc \in [Pids -> {"none", "born", "grouped", "ready", "running",
                            "stopped", "zombie", "gone"}]
      /\ report \in [Pids -> Changes]
  BY DEF ShellInv, TypeOK
<1>2. CASE pc' \notin {"poll", "bg", "fg", "wait"}
  BY <1>2
<1>3. CASE reap
  <2>1. next_pid > 0 => next_pid \in Pids
    BY <1>1, JobPidFacts DEF next_pid, NoPid
  <2> QED
    BY <1>3, <2>1 DEF reap
<1>4. ASSUME NEW amp \in BOOLEAN, NEW input \in BOOLEAN,
             fork_process(amp, input) \/ fork_process_nameless(amp, input)
      PROVE  TargetFits'
  BY <1>1, <1>4, ShellBounds DEF fork_process, fork_process_nameless, Forks, Pids, NoJob
<1>5. ASSUME NEW amp \in BOOLEAN, fork_process_fails(amp)
      PROVE  TargetFits'
  BY <1>1, <1>5, ShellBounds DEF fork_process_fails, Pids, NoJob, NoPid
<1>6. ASSUME NEW jid \in Jids, bg(jid) \/ fg(jid)
      PROVE  TargetFits'
  BY <1>1, <1>6 DEF bg, fg, resume, sigcont, Becomes, GroupExists
<1>7. CASE fg_update
  BY <1>1, <1>7, ShellBounds DEF fg_update, ReportsFit, Pids, NoJob
<1>8. ASSUME NEW p \in Pids, NEW state, NEW change, ChildChange(p, state, change)
      PROVE  TargetFits'
  BY <1>1, <1>8 DEF ChildChange, Becomes
<1>9. CASE UNCHANGED vars
  BY <1>1, <1>9 DEF vars
<1>10. \/ pc' \notin {"poll", "bg", "fg", "wait"} \/ reap
       \/ \E amp, input \in BOOLEAN : fork_process(amp, input)
       \/ \E amp, input \in BOOLEAN : fork_process_nameless(amp, input)
       \/ \E amp \in BOOLEAN : fork_process_fails(amp)
       \/ \E jid \in Jids : bg(jid) \/ fg(jid)
       \/ fg_update \/ ChildMoves \/ UNCHANGED vars
  BY NextCases
     DEF Quiet, repl_read, repl_eof, repl_return, repl_no_job, wait_child_no_child,
         wait_child_terminal, reap_help_waitpid, wait_child_waitpid, reap_help,
         cleanup_job_list, cleanup_return, wait_child, bg_update
<1> QED
  BY <1>2, <1>3, <1>4, <1>5, <1>6, <1>7, <1>8, <1>9, <1>10, ChildCases

LEMMA TerminalStep ==
    ASSUME ShellInv, [Next]_vars
    PROVE  TerminalFits'
<1> USE DEF TerminalFits, At, GoTo, shell, children
<1>1. /\ TerminalFits /\ TargetFits /\ StatusFits /\ ReportsFit
      /\ tty \in Pids \cup {ShellPid} /\ target \in Pids \cup {NoPid, NoJob}
      /\ proc \in [Pids -> {"none", "born", "grouped", "ready", "running",
                            "stopped", "zombie", "gone"}]
      /\ report \in [Pids -> Changes]
      /\ background \in [Pids -> BOOLEAN] /\ redirected \in [Pids -> BOOLEAN]
  BY DEF ShellInv, TypeOK
<1>2. CASE repl_read \/ repl_eof \/ repl_return \/ repl_no_job
           \/ reap \/ reap_help \/ cleanup_return \/ bg_update
  BY <1>1, <1>2 DEF repl_read, repl_eof, repl_return, repl_no_job,
                    reap, reap_help, cleanup_return, bg_update
<1>3. CASE reap_help_waitpid
  BY <1>1, <1>3 DEF reap_help_waitpid, waitpid, Becomes, TargetFits, ReportsFit
<1>4. CASE cleanup_job_list
  BY <1>1, <1>4 DEF cleanup_job_list, Becomes
<1>5. ASSUME NEW amp \in BOOLEAN, NEW input \in BOOLEAN,
             fork_process(amp, input) \/ fork_process_nameless(amp, input)
      PROVE  TerminalFits'
  BY <1>1, <1>5 DEF fork_process, fork_process_nameless, Forks
<1>6. ASSUME NEW amp \in BOOLEAN, fork_process_fails(amp)
      PROVE  TerminalFits'
  BY <1>1, <1>6, ShellBounds DEF fork_process_fails, Pids, NoPid
<1>7. CASE wait_child_waitpid
  <2>1. PICK p \in Awaited : report[p] \in Ended \cup {"stopped"} /\ waitpid(p)
    BY <1>7 DEF wait_child_waitpid
  <2>2. p \in Pids /\ proc[p] \in {"stopped", "zombie"}
    BY <1>1, <1>7, <2>1 DEF wait_child_waitpid, Awaited, TargetFits, ReportsFit
  <2>3. ASSUME NEW q \in Pids, proc[q] \in {"born", "grouped"}, ~background[q]
        PROVE  FALSE
    <3>1. target = q /\ pc = "wait"
      BY <1>1, <2>3
    <3> QED
      BY <2>1, <2>2, <2>3, <3>1, ShellBounds DEF Awaited, Pids, NoPid
  <2> QED
    BY <1>1, <1>7, <2>1, <2>2, <2>3 DEF wait_child_waitpid, waitpid, Becomes
<1>8. CASE wait_child_no_child
  <2>1. target \notin Pids
    BY <1>8, ShellBounds DEF wait_child_no_child, Awaited, Pids, NoPid
  <2> QED
    BY <1>1, <1>8, <2>1 DEF wait_child_no_child
<1>9. CASE wait_child \/ wait_child_terminal
  BY <1>1, <1>9 DEF wait_child, wait_child_terminal
<1>10. ASSUME NEW jid \in Jids, bg(jid) \/ fg(jid)
       PROVE  TerminalFits'
  BY <1>1, <1>10 DEF bg, fg, resume, sigcont, Becomes, GroupExists
<1>11. CASE fg_update
  BY <1>1, <1>11 DEF fg_update
<1>12. ASSUME NEW p \in Pids, NEW state, NEW change, ChildChange(p, state, change)
       PROVE  TerminalFits'
  BY <1>1, <1>12 DEF ChildChange, Becomes, Live, Ended
<1>13. CASE UNCHANGED vars
  BY <1>1, <1>13 DEF vars
<1> QED
  BY <1>2, <1>3, <1>4, <1>5, <1>6, <1>7, <1>8, <1>9, <1>10, <1>11, <1>12, <1>13,
     ChildCases, NextCases DEF Quiet

------------------------------------------------------------------------------
(* The list *)

LEMMA ForkedStays ==
    ASSUME ShellInv, [Next]_vars, NEW p \in Pids, proc[p] # "none"
    PROVE  proc'[p] # "none"
<1>1. /\ proc \in [Pids -> {"none", "born", "grouped", "ready", "running",
                            "stopped", "zombie", "gone"}]
      /\ proc' \in [Pids -> {"none", "born", "grouped", "ready", "running",
                             "stopped", "zombie", "gone"}]
  BY TypeStep DEF ShellInv, TypeOK
<1> QED
  BY <1>1, ProcessCases DEF children, waitpid, Becomes, ChildChange

\* The steps that leave the list as it is.
LEMMA QuietFacts ==
    ASSUME Quiet \/ ChildMoves \/ UNCHANGED vars
    PROVE  UNCHANGED jobs
  BY ChildCases
     DEF Quiet, repl_read, reap_help_waitpid, repl_eof, repl_return, repl_no_job,
         fork_process_nameless, wait_child_waitpid, wait_child_no_child,
         wait_child_terminal, bg, fg, resume, ChildChange, vars

\* The target of a shell without failures is a process; failures stay.
LEMMA TargetIsProcess ==
    ASSUME ShellInv, [Next]_vars
    PROVE  /\ failures' # 0 \/ (failures = 0 /\ failures' = 0)
           /\ failures' = 0 /\ target # NoPid => target' # NoPid
<1> USE ShellBounds DEF At, GoTo, NoJob, NoPid, Pids, shell, children, history
<1>1. TypeOK /\ failures \in Nat
  BY DEF ShellInv, TypeOK
<1>2. CASE Quiet
  BY <1>1, <1>2
     DEF Quiet, repl_read, reap_help_waitpid, repl_eof, repl_return, repl_no_job,
         fork_process_nameless, Forks, wait_child_waitpid, wait_child_no_child,
         wait_child_terminal, bg, fg, resume, GroupExists
<1>3. CASE reap
  BY <1>1, <1>3 DEF reap
<1>4. CASE \/ reap_help \/ cleanup_job_list \/ cleanup_return
           \/ wait_child \/ bg_update \/ fg_update
  <2>1. CASE reap_help \/ wait_child
    <3>1. target' = NoJob /\ failures' = failures
      BY <2>1, Zenon DEF reap_help, wait_child
    <3> QED
      BY <1>1, <3>1
  <2>2. CASE cleanup_return \/ cleanup_job_list
    BY <1>1, <2>2 DEF cleanup_return, cleanup_job_list
  <2>3. CASE bg_update \/ fg_update
    BY <1>1, <2>3 DEF bg_update, fg_update
  <2> QED
    BY <1>4, <2>1, <2>2, <2>3
<1>5. CASE \/ \E amp, input \in BOOLEAN : fork_process(amp, input)
           \/ \E amp \in BOOLEAN : fork_process_fails(amp)
  BY <1>1, <1>5 DEF fork_process, fork_process_fails, Forks
<1>6. CASE ChildMoves
  BY <1>1, <1>6, ChildCases DEF ChildChange
<1>7. CASE UNCHANGED vars
  BY <1>1, <1>7 DEF vars
<1> QED
  BY <1>2, <1>3, <1>4, <1>5, <1>6, <1>7, NextCases

LEMMA NotEnding ==
    ASSUME [Next]_vars, ~Ending'
    PROVE  ~Ending /\ ~cleanup_job_list /\ ~cleanup_return
  BY NextCases
     DEF Ending, Quiet, repl_read, reap_help_waitpid, repl_eof, repl_return,
         repl_no_job, fork_process_nameless, Forks, wait_child_waitpid,
         wait_child_no_child, wait_child_terminal, bg, fg, resume, reap, reap_help,
         cleanup_job_list, cleanup_return, fork_process, fork_process_fails, wait_child,
         bg_update, fg_update, ChildMoves, child_setpgid, child_tcsetpgrp, child_execv,
         program_exits, program_stops, program_continued, child_killed, ChildStep,
         At, GoTo, shell, vars

LEMMA DistinctStep ==
    ASSUME ShellInv, [Next]_vars
    PROVE  JobsDistinct'
<1> SUFFICES ASSUME ~Ending'
             PROVE  JobsDistinct'
  BY DEF JobsDistinct
<1> USE DEF JobsDistinct, ListedPids
<1>1. /\ TypeOK /\ TypeOK' /\ job_list \in Seq(Job) /\ job_list' \in Seq(Job)
      /\ Len(job_list) \in Nat /\ DOMAIN job_list = 1..Len(job_list)
      /\ Len(job_list') \in Nat /\ DOMAIN job_list' = 1..Len(job_list')
      /\ job_id \in Nat
  BY TypeStep DEF ShellInv, TypeOK
<1>2. ~Ending /\ JobsDistinct
  BY NotEnding DEF ShellInv
<1>3. \A i \in 1..Len(job_list) :
        /\ job_list[i].jid \in Nat /\ job_list[i].pid \in Pids \cup {NoPid}
        /\ job_list[i].pid # NoPid => proc'[job_list[i].pid] # "none"
  BY <1>1, <1>2, JobAt, ForkedStays
<1>4. /\ failures' # 0 \/ (failures = 0 /\ failures' = 0)
      /\ failures' = 0 /\ target # NoPid => target' # NoPid
  BY TargetIsProcess
<1>5. CASE UNCHANGED job_list /\ job_id' \in Nat /\ job_id <= job_id'
  BY <1>1, <1>2, <1>3, <1>4, <1>5
<1>6. ASSUME NEW pid, remove_job_pid(pid), PidAt(pid) # 0, job_id' = job_id
      PROVE  JobsDistinct'
  <2> DEFINE k == PidAt(pid)
  <2>1. /\ \A i \in 1..Len(job_list') :
             Kept(k, i) \in 1..Len(job_list) /\ job_list'[i] = job_list[Kept(k, i)]
    BY <1>1, <1>6, RemoveFacts
  <2>2. \A i, j \in 1..Len(job_list') :
          /\ i < j => Kept(k, i) < Kept(k, j)
          /\ i # j => Kept(k, i) # Kept(k, j)
    BY <1>1, PidAtFacts DEF Kept
  <2> HIDE DEF k
  <2>3. \A i \in 1..Len(job_list') : job_list'[i].jid <= job_id'
    BY <1>1, <1>2, <1>6, <2>1
  <2>4. \A i, j \in 1..Len(job_list') : i < j => job_list'[i].jid < job_list'[j].jid
    BY <1>1, <1>2, <2>1, <2>2
  <2>5. \A i, j \in 1..Len(job_list') :
          i # j /\ job_list'[i].pid # NoPid => job_list'[i].pid # job_list'[j].pid
    BY <1>1, <1>2, <2>1, <2>2
  <2>6. \A i \in 1..Len(job_list') :
          job_list'[i].pid # NoPid => proc'[job_list'[i].pid] # "none"
    BY <1>3, <2>1
  <2>7. failures' = 0 => NoPid \notin ListedPids' /\ target' # NoPid
    BY <1>1, <1>2, <1>4, <2>1
  <2> QED
    BY <1>1, <2>3, <2>4, <2>5, <2>6, <2>7
<1>7. ASSUME NEW pid, NEW state \in {"Running", "Stopped"}, update_job_pid(pid, state),
             job_id' = job_id
      PROVE  JobsDistinct'
  <2>1. /\ Len(job_list') = Len(job_list)
        /\ \A i \in 1..Len(job_list) : /\ job_list'[i].jid = job_list[i].jid
                                       /\ job_list'[i].pid = job_list[i].pid
    BY <1>1, <1>7, UpdateFacts
  <2> QED
    BY <1>1, <1>2, <1>3, <1>4, <1>7, <2>1
<1>8. ASSUME NEW amp \in BOOLEAN, NEW input \in BOOLEAN, fork_process(amp, input)
      PROVE  JobsDistinct'
  <2>1. PICK p \in Pids : /\ proc[p] = "none" /\ add_job(job_id + 1, p)
                          /\ job_id' = job_id + 1 /\ proc'[p] # "none"
    BY <1>1, <1>8 DEF fork_process, Forks, TypeOK
  <2>2. p # NoPid
    BY ShellBounds DEF Pids, NoPid
  <2>3. job_id + 1 \in Nat \ {0} /\ p \in Pids \cup {NoPid}
    BY <1>1
  <2>4. /\ Len(job_list') = Len(job_list) + 1
        /\ \A i \in 1..Len(job_list) : job_list'[i] = job_list[i]
        /\ job_list'[Len(job_list) + 1].jid = job_id + 1
        /\ job_list'[Len(job_list) + 1].pid = p
    BY <1>1, <2>1, <2>3, AddFacts, Zenon
  <2> QED
    BY <1>1, <1>2, <1>3, <1>4, <2>1, <2>2, <2>4, SMTT(40)
<1>9. ASSUME NEW amp \in BOOLEAN, fork_process_fails(amp)
      PROVE  JobsDistinct'
  <2>1. add_job(job_id + 1, NoPid) /\ job_id' = job_id + 1 /\ failures' # 0
    BY <1>9 DEF fork_process_fails, ShellInv, TypeOK
  <2>3. job_id + 1 \in Nat \ {0} /\ NoPid \in Pids \cup {NoPid}
    BY <1>1
  <2>4. /\ Len(job_list') = Len(job_list) + 1
        /\ \A i \in 1..Len(job_list) : job_list'[i] = job_list[i]
        /\ job_list'[Len(job_list) + 1].jid = job_id + 1
        /\ job_list'[Len(job_list) + 1].pid = NoPid
    BY <1>1, <2>1, <2>3, AddFacts, Zenon
  <2> QED
    BY <1>1, <1>2, <1>3, <1>4, <2>1, <2>4, SMTT(40)
<1>10. CASE reap_help \/ wait_child \/ bg_update \/ fg_update
  <2>1. /\ job_id' = job_id
        /\ \/ remove_job_pid(target)
           \/ \E state \in {"Running", "Stopped"} : update_job_pid(target, state)
    BY <1>1, <1>10
       DEF reap_help, wait_child, bg_update, fg_update, At, StatusFits, ShellInv, TypeOK,
           Changes
  <2>2. CASE remove_job_pid(target) /\ PidAt(target) = 0
    BY <1>1, <1>5, <2>1, <2>2 DEF remove_job_pid
  <2> QED
    BY <1>6, <1>7, <2>1, <2>2
<1>11. CASE Quiet \/ ChildMoves \/ reap \/ UNCHANGED vars
  <2>1. UNCHANGED job_list
    BY <1>11, QuietFacts DEF reap, get_next_pid, jobs
  <2>2. job_id' = job_id \/ job_id' = job_id + 1
    BY <1>1, <1>11, ChildCases
       DEF Quiet, repl_read, reap_help_waitpid, repl_eof, repl_return, repl_no_job,
           fork_process_nameless, Forks, wait_child_waitpid, wait_child_no_child,
           wait_child_terminal, bg, fg, resume, ChildChange, reap, shell, vars
  <2> QED
    BY <1>1, <1>5, <2>1, <2>2
<1> QED
  BY <1>2, <1>8, <1>9, <1>10, <1>11, NextCases
     DEF Ending, cleanup_job_list, cleanup_return, At, GoTo

------------------------------------------------------------------------------
(* Jobs and children *)

\* The processes on the list after each operation.
LEMMA ListedAfterRemove ==
    ASSUME TypeOK, JobsDistinct, ~Ending, NEW pid, remove_job_pid(pid)
    PROVE  /\ ListedPids \ {pid} \subseteq ListedPids'
           /\ ListedPids' \subseteq ListedPids
           /\ pid # NoPid => pid \notin ListedPids'
<1>1. /\ job_list \in Seq(Job) /\ DOMAIN job_list = 1..Len(job_list)
  BY DEF TypeOK
<1>2. CASE PidAt(pid) = 0
  <2>1. job_list' = job_list /\ \A i \in 1..Len(job_list) : job_list[i].pid # pid
    BY <1>2, PidAtFacts DEF remove_job_pid
  <2> QED
    BY <1>1, <2>1 DEF ListedPids
<1>3. CASE PidAt(pid) # 0
  <2> DEFINE k == PidAt(pid)
  <2>1. /\ k \in 1..Len(job_list) /\ job_list[k].pid = pid /\ job_list' \in Seq(Job)
        /\ \A i \in 1..Len(job_list') :
             /\ Kept(k, i) \in 1..Len(job_list) /\ Kept(k, i) # k
             /\ job_list'[i] = job_list[Kept(k, i)]
        /\ \A i \in 1..Len(job_list) : i # k =>
             \E j \in 1..Len(job_list') : i = Kept(k, j)
    BY <1>3, RemoveFacts, Zenon
  <2>2. DOMAIN job_list' = 1..Len(job_list')
    BY <2>1
  <2> HIDE DEF k
  <2>3. ASSUME NEW p \in ListedPids, p # pid
        PROVE  p \in ListedPids'
    <3>1. PICK i \in 1..Len(job_list) : job_list[i].pid = p
      BY <1>1 DEF ListedPids
    <3>2. PICK j \in 1..Len(job_list') : i = Kept(k, j)
      BY <2>1, <2>3, <3>1
    <3>3. job_list'[j].pid = p
      BY <2>1, <3>1, <3>2
    <3> QED
      BY <2>2, <3>3 DEF ListedPids
  <2>4. ASSUME NEW p \in ListedPids'
        PROVE  p \in ListedPids /\ (pid # NoPid => p # pid)
    <3>1. PICK j \in 1..Len(job_list') : job_list'[j].pid = p
      BY <2>2 DEF ListedPids
    <3>2. /\ Kept(k, j) \in 1..Len(job_list) /\ Kept(k, j) # k
          /\ job_list[Kept(k, j)].pid = p
      BY <2>1, <3>1
    <3> QED
      BY <1>1, <2>1, <3>2 DEF ListedPids, JobsDistinct
  <2> QED
    BY <2>3, <2>4
<1> QED
  BY <1>2, <1>3

LEMMA ListedAfterUpdate ==
    ASSUME TypeOK, NEW pid, NEW state \in {"Running", "Stopped"},
           update_job_pid(pid, state)
    PROVE  ListedPids' = ListedPids /\ ListedJids' = ListedJids
<1>1. /\ DOMAIN job_list = 1..Len(job_list) /\ DOMAIN job_list' = 1..Len(job_list')
      /\ Len(job_list') = Len(job_list)
      /\ \A i \in 1..Len(job_list) : /\ job_list'[i].jid = job_list[i].jid
                                     /\ job_list'[i].pid = job_list[i].pid
  BY UpdateFacts DEF TypeOK
<1> QED
  BY <1>1 DEF ListedPids, ListedJids

LEMMA ListedAfterAdd ==
    ASSUME TypeOK, NEW pid \in Pids \cup {NoPid}, add_job(job_id + 1, pid)
    PROVE  /\ ListedPids' = ListedPids \cup {pid}
           /\ ListedJids' = ListedJids \cup {job_id + 1}
<1>1. job_list \in Seq(Job) /\ DOMAIN job_list = 1..Len(job_list)
      /\ job_id + 1 \in Nat \ {0} /\ Len(job_list) \in Nat
  BY DEF TypeOK
<1>2. /\ job_list' \in Seq(Job) /\ Len(job_list') = Len(job_list) + 1
      /\ \A i \in 1..Len(job_list) : job_list'[i] = job_list[i]
      /\ job_list'[Len(job_list) + 1].jid = job_id + 1
      /\ job_list'[Len(job_list) + 1].pid = pid
  BY <1>1, AddFacts, Zenon
<1>3. DOMAIN job_list' = 1..(Len(job_list) + 1)
  BY <1>2
<1> QED
  BY <1>1, <1>2, <1>3 DEF ListedPids, ListedJids

\* reap_help and wait_child write the status they took to the target's job.
LEMMA Applies ==
    ASSUME ShellInv, reap_help \/ wait_child
    PROVE  /\ pc \in {"reap_help", "wait_child"} /\ UNCHANGED <<children, failures>>
           /\ pc = "wait_child" => pc' = "terminal"
           /\ pc = "reap_help" => pc' = "reap"
           /\ UNCHANGED <<job_id, polled>> /\ target' = NoJob
           /\ \/ stat \in Ended /\ remove_job_pid(target)
              \/ stat = "stopped" /\ update_job_pid(target, "Stopped")
              \/ stat = "continued" /\ update_job_pid(target, "Running")
  BY DEF reap_help, wait_child, At, GoTo, ShellInv, StatusFits, TypeOK, Changes, Ended

LEMMA ChildrenStep ==
    ASSUME ShellInv, [Next]_vars
    PROVE  ChildrenListed'
<1> SUFFICES ASSUME ~Ending'
             PROVE  ChildrenListed'
  BY DEF ChildrenListed
<1> USE DEF ChildrenListed, IsChild, Live
<1>1. /\ TypeOK /\ JobsDistinct /\ ChildrenListed /\ TargetFits /\ StatusFits /\ ~Ending
      /\ ~cleanup_job_list /\ ~cleanup_return
      /\ target \in Pids \cup {NoPid, NoJob}
      /\ proc \in [Pids -> {"none", "born", "grouped", "ready", "running",
                            "stopped", "zombie", "gone"}]
      /\ report \in [Pids -> Changes]
      /\ nameless \subseteq Pids
  BY NotEnding DEF ShellInv, TypeOK
<1>2. /\ ListedPids \subseteq Pids \cup {NoPid}
      /\ failures = 0 => ListedPids \subseteq Pids /\ target # NoPid
      /\ failures' # 0 \/ (failures = 0 /\ failures' = 0)
  <2>1. DOMAIN job_list = 1..Len(job_list)
    BY DEF ShellInv, TypeOK
  <2>2. ListedPids \subseteq Pids \cup {NoPid}
    BY <1>1, <2>1, JobAt DEF ListedPids
  <2>3. failures = 0 => NoPid \notin ListedPids /\ target # NoPid
    BY <1>1 DEF JobsDistinct
  <2> QED
    BY <2>2, <2>3, TargetIsProcess
<1>3. CASE reap_help \/ wait_child
  <2>1. CASE stat \in Ended /\ remove_job_pid(target)
    <3>1. /\ ListedPids \ {target} \subseteq ListedPids'
          /\ ListedPids' \subseteq ListedPids
          /\ target # NoPid => target \notin ListedPids'
      BY <1>1, <2>1, ListedAfterRemove
    <3>2. target \in Pids => proc[target] = "gone"
      BY <1>1, <1>3, <2>1, Applies DEF StatusFits
    <3> QED
      BY <1>1, <1>2, <1>3, <2>1, <3>1, <3>2, Applies, ShellBounds
         DEF children, NoPid, Pids, Ended
  <2>2. CASE \/ stat = "stopped" /\ update_job_pid(target, "Stopped")
             \/ stat = "continued" /\ update_job_pid(target, "Running")
    <3>1. ListedPids' = ListedPids
      BY <1>1, <2>2, ListedAfterUpdate
    <3> QED
      BY <1>1, <1>2, <1>3, <2>2, <3>1, Applies DEF children, Ended
  <2> QED
    BY <1>3, <2>1, <2>2, Applies
<1>4. CASE bg_update \/ fg_update
  <2>1. ListedPids' = ListedPids
    BY <1>1, <1>4, ListedAfterUpdate DEF bg_update, fg_update
  <2> QED
    BY <1>1, <1>2, <1>4, <2>1 DEF bg_update, fg_update, At, children
<1>5. ASSUME NEW amp \in BOOLEAN, NEW input \in BOOLEAN, fork_process(amp, input)
      PROVE  ChildrenListed'
  <2>1. PICK p \in Pids : /\ proc' = [proc EXCEPT ![p] = "born"] /\ pc = "dispatch"
                          /\ add_job(job_id + 1, p) /\ UNCHANGED <<failures, nameless>>
    BY <1>5 DEF fork_process, Forks, At
  <2>2. ListedPids' = ListedPids \cup {p}
    BY <1>1, <2>1, ListedAfterAdd
  <2> QED
    BY <1>1, <1>2, <2>1, <2>2
<1>6. ASSUME NEW amp \in BOOLEAN, fork_process_fails(amp)
      PROVE  ChildrenListed'
  <2>1. ListedPids' = ListedPids \cup {NoPid}
    BY <1>1, <1>6, ListedAfterAdd DEF fork_process_fails
  <2> QED
    BY <1>1, <1>2, <1>6, <2>1 DEF fork_process_fails, children, TypeOK
<1>7. CASE Quiet \/ ChildMoves \/ reap \/ UNCHANGED vars
  <2>1. ListedPids' = ListedPids
    <3>1. UNCHANGED job_list
      BY <1>7, QuietFacts DEF reap, get_next_pid, jobs
    <3> QED
      BY <3>1 DEF ListedPids
  <2>2. CASE repl_read \/ repl_no_job \/ wait_child_no_child \/ wait_child_terminal \/ reap
    BY <1>1, <1>2, <2>1, <2>2
       DEF repl_read, repl_no_job, wait_child_no_child, wait_child_terminal, reap, At,
           children
  <2>3. CASE repl_eof \/ repl_return
    BY <2>3 DEF repl_eof, repl_return, GoTo, Ending
  <2>4. CASE reap_help_waitpid
    BY <1>1, <1>2, <2>1, <2>4
       DEF reap_help_waitpid, TargetFits, waitpid, Becomes, At, GoTo, children, Ended
  <2>5. CASE wait_child_waitpid
    <3>1. PICK p \in Awaited : report[p] \in Ended \cup {"stopped"} /\ waitpid(p)
      BY <2>5 DEF wait_child_waitpid
    <3>2. p \in Pids /\ (failures = 0 => p = target)
      BY <1>1, <1>2, <2>5, <3>1 DEF wait_child_waitpid, Awaited, TargetFits, At
    <3> QED
      BY <1>1, <1>2, <2>1, <2>5, <3>1, <3>2
         DEF wait_child_waitpid, waitpid, Becomes, At, Ended
  <2>6. ASSUME NEW amp \in BOOLEAN, NEW input \in BOOLEAN,
               fork_process_nameless(amp, input)
        PROVE  ChildrenListed'
    BY <1>1, <1>2, <2>1, <2>6 DEF fork_process_nameless, Forks, At, TypeOK
  <2>7. ASSUME NEW jid \in Jids, bg(jid) \/ fg(jid)
        PROVE  ChildrenListed'
    BY <1>1, <1>2, <2>1, <2>7
       DEF bg, fg, resume, sigcont, Becomes, GroupExists, At, children
  <2>8. ASSUME NEW p \in Pids, NEW state, NEW change, ChildChange(p, state, change)
        PROVE  ChildrenListed'
    BY <1>1, <1>2, <2>1, <2>8 DEF ChildChange, Becomes, shell
  <2>9. CASE UNCHANGED vars
    BY <1>1, <1>2, <2>1, <2>9 DEF vars, shell, children
  <2> QED
    BY <1>7, <2>2, <2>3, <2>4, <2>5, <2>6, <2>7, <2>8, <2>9, ChildCases DEF Quiet
<1> QED
  BY <1>1, <1>3, <1>4, <1>5, <1>6, <1>7, NextCases

------------------------------------------------------------------------------
(* The iterator *)

\* In a round of reap, whatever the iterator has passed has been asked about.
Passed ==
    \A i \in 1..Len(job_list) :
        current = NoJob \/ job_list[i].jid < current =>
            \/ job_list[i].pid \in polled
            \/ pc = "poll" /\ job_list[i].pid = target

LEMMA IteratorStep ==
    ASSUME ShellInv, [Next]_vars
    PROVE  IteratorPlaced'
<1> SUFFICES ASSUME ~Ending'
             PROVE  IteratorPlaced'
  BY DEF IteratorPlaced
<1>1. /\ TypeOK /\ TypeOK' /\ JobsDistinct /\ ~Ending
      /\ ~cleanup_job_list /\ ~cleanup_return
      /\ failures' # 0 \/ (failures = 0 /\ failures' = 0)
  BY NotEnding, TypeStep, TargetIsProcess DEF ShellInv
<1>2. /\ job_list \in Seq(Job) /\ job_list' \in Seq(Job) /\ current \in Nat
      /\ Len(job_list) \in Nat /\ DOMAIN job_list = 1..Len(job_list)
      /\ Len(job_list') \in Nat /\ DOMAIN job_list' = 1..Len(job_list')
      /\ job_list = <<>> <=> Len(job_list) = 0
      /\ job_list' = <<>> <=> Len(job_list') = 0
  BY <1>1 DEF TypeOK
<1>0. Len(job_list) \in Nat /\ Len(job_list') \in Nat
  BY <1>2
<1>3. /\ \A i \in 1..Len(job_list) :
           /\ job_list[i].jid \in Nat \ {0} /\ job_list[i].jid <= job_id
           /\ failures = 0 => job_list[i].pid \in Pids
      /\ \A i, j \in 1..Len(job_list) : i < j => job_list[i].jid < job_list[j].jid
  BY <1>1, <1>2, JobAt DEF JobsDistinct, ListedPids
<1>4. /\ current \in ListedJids \cup {NoJob}
      /\ failures = 0 /\ ~Reaping => current = FirstJid
      /\ failures = 0 /\ Reaping => Passed
      /\ failures = 0 /\ pc = "dispatch" => ListedPids \subseteq polled
  BY <1>1, <1>2 DEF ShellInv, IteratorPlaced, Passed
<1>5. SUFFICES /\ current' \in ListedJids' \cup {NoJob}
               /\ failures' = 0 /\ ~Reaping' => current' = FirstJid'
               /\ failures' = 0 /\ Reaping' => Passed'
               /\ failures' = 0 /\ pc' = "dispatch" => ListedPids' \subseteq polled'
  BY <1>2 DEF IteratorPlaced, Passed
<1>6. CASE Quiet \/ ChildMoves \/ UNCHANGED vars
  <2>1. /\ job_list' = job_list /\ current' = current
        /\ FirstJid' = FirstJid /\ ListedJids' = ListedJids /\ ListedPids' = ListedPids
    BY <1>6, QuietFacts DEF jobs, FirstJid, ListedJids, ListedPids
  <2>2. CASE repl_read
    <3>1. pc = "read" /\ pc' = "reap" /\ failures' = failures
      BY <2>2 DEF repl_read, At, GoTo
    <3>2. failures = 0 => Passed'
      BY <1>2, <1>3, <1>4, <2>1, <3>1 DEF Passed, FirstJid, Reaping, NoJob
    <3> QED
      BY <1>4, <2>1, <3>1, <3>2 DEF Reaping
  <2>3. CASE reap_help_waitpid
    <3>1. /\ pc = "poll" /\ pc' \in {"reap", "reap_help"}
          /\ polled' = polled \cup {target} /\ failures' = failures
      BY <2>3 DEF reap_help_waitpid, At, GoTo
    <3> QED
      BY <1>4, <2>1, <3>1 DEF Passed, Reaping
  <2>4. CASE \/ repl_eof \/ repl_return \/ repl_no_job
             \/ \E amp, input \in BOOLEAN : fork_process_nameless(amp, input)
             \/ wait_child_waitpid \/ wait_child_no_child \/ wait_child_terminal
             \/ \E jid \in Jids : bg(jid) \/ fg(jid)
    <3>1. ~Reaping /\ ~Reaping' /\ pc' # "dispatch"
      BY <2>4
         DEF repl_eof, repl_return, repl_no_job, fork_process_nameless, Forks,
             wait_child_waitpid, wait_child_no_child, wait_child_terminal, bg, fg, resume,
             At, GoTo, Reaping
    <3> QED
      BY <1>1, <1>4, <2>1, <3>1
  <2>5. CASE ChildMoves \/ UNCHANGED vars
    <3>1. UNCHANGED <<pc, target, polled, failures>>
      BY <2>5, ChildCases DEF ChildChange, shell, history, vars
    <3> QED
      BY <1>4, <2>1, <3>1 DEF Passed, Reaping
  <2> QED
    BY <1>6, <2>2, <2>3, <2>4, <2>5 DEF Quiet
<1>7. CASE reap
  <2>1. /\ pc = "reap" /\ UNCHANGED <<job_list, polled, failures>>
        /\ current' = IF current = NoJob THEN FirstJid ELSE NextJid(JidAt(current))
        /\ \/ next_pid > 0 /\ pc' = "poll" /\ target' = next_pid
           \/ ~(next_pid > 0) /\ pc' = "dispatch"
    BY <1>7 DEF reap, get_next_pid, At, GoTo
  <2>2. CASE current = NoJob
    <3>1. current' = FirstJid /\ pc' = "dispatch"
      BY <2>1, <2>2 DEF next_pid, NoPid
    <3>2. FirstJid \in ListedJids \cup {NoJob} /\ FirstJid' = FirstJid
      BY <1>2, <2>1 DEF FirstJid, ListedJids
    <3>3. failures = 0 => ListedPids \subseteq polled
      BY <1>2, <1>4, <2>1, <2>2 DEF Passed, Reaping, ListedPids
    <3> QED
      BY <2>1, <3>1, <3>2, <3>3 DEF Reaping, ListedJids, ListedPids
  <2>3. CASE current # NoJob
    <3> DEFINE k == JidAt(current)
    <3>1. k \in 1..Len(job_list) /\ job_list[k].jid = current
      <4>1. \E i \in 1..Len(job_list) : job_list[i].jid = current
        BY <1>2, <1>4, <2>3 DEF ListedJids
      <4> QED
        BY <1>1, <1>2, <4>1, JidAtFacts
    <3>2. next_pid = job_list[k].pid
      BY <2>3, <3>1, JidAtFacts, <1>1 DEF next_pid, get_job_pid
    <3>3. current' = IF k = Len(job_list) THEN NoJob ELSE job_list[k + 1].jid
      BY <2>1, <2>3 DEF NextJid
    <3> HIDE DEF k
    <3>4. current' \in ListedJids' \cup {NoJob}
      <4>1. k # Len(job_list) => k + 1 \in 1..Len(job_list)
        BY <1>0, <3>1
      <4> QED
        BY <1>2, <2>1, <3>3, <4>1 DEF ListedJids
    <3>5. ASSUME failures' = 0
          PROVE  pc' = "poll" /\ Passed'
      <4>1. job_list[k].pid \in Pids /\ pc' = "poll" /\ target' = job_list[k].pid
        BY <1>3, <2>1, <3>1, <3>2, <3>5, ShellBounds DEF Pids
      <4>2. ASSUME NEW i \in 1..Len(job_list),
                   current' = NoJob \/ job_list[i].jid < current'
            PROVE  i = k \/ job_list[i].jid < current
        BY <1>2, <1>3, <3>1, <3>3, <4>2 DEF NoJob
      <4> QED
        BY <1>4, <2>1, <3>1, <3>5, <4>1, <4>2 DEF Passed, Reaping
    <3> QED
      BY <1>1, <2>1, <3>4, <3>5 DEF Reaping
  <2> QED
    BY <2>2, <2>3
<1>8. ASSUME NEW pid, NEW state \in {"Running", "Stopped"}, update_job_pid(pid, state),
             polled' = polled, pc # "poll", pc' \notin {"dispatch", "poll"},
             Reaping' <=> Reaping
      PROVE  /\ current' \in ListedJids' \cup {NoJob}
             /\ failures' = 0 /\ ~Reaping' => current' = FirstJid'
             /\ failures' = 0 /\ Reaping' => Passed'
  <2>1. /\ Len(job_list') = Len(job_list) /\ current' = current
        /\ \A i \in 1..Len(job_list) : /\ job_list'[i].jid = job_list[i].jid
                                       /\ job_list'[i].pid = job_list[i].pid
        /\ ListedJids' = ListedJids
    BY <1>1, <1>8, UpdateFacts, ListedAfterUpdate
  <2>2. FirstJid' = FirstJid
    BY <1>2, <2>1 DEF FirstJid
  <2> QED
    BY <1>1, <1>4, <1>8, <2>1, <2>2 DEF Passed
<1>9. ASSUME NEW pid, remove_job_pid(pid), PidAt(pid) # 0,
             polled' = polled, pc # "poll", pc' \notin {"dispatch", "poll"},
             Reaping' <=> Reaping
      PROVE  /\ current' \in ListedJids' \cup {NoJob}
             /\ failures' = 0 /\ ~Reaping' => current' = FirstJid'
             /\ failures' = 0 /\ Reaping' => Passed'
  <2> DEFINE k == PidAt(pid)
  <2>0. /\ k \in 1..Len(job_list) /\ Len(job_list') = Len(job_list) - 1
        /\ \A i \in 1..Len(job_list') :
             /\ Kept(k, i) \in 1..Len(job_list) /\ Kept(k, i) # k
             /\ job_list'[i] = job_list[Kept(k, i)]
        /\ \A i \in 1..Len(job_list) : i # k =>
             \E j \in 1..Len(job_list') : i = Kept(k, j)
        /\ current' = IF current # job_list[k].jid THEN current
                      ELSE IF k = Len(job_list) THEN NoJob ELSE job_list[k + 1].jid
    BY <1>1, <1>9, RemoveFacts, Zenon
  <2> HIDE DEF k
  <2>1. /\ k \in 1..Len(job_list) /\ Len(job_list') = Len(job_list) - 1
        /\ k # Len(job_list) => k + 1 \in 1..Len(job_list) /\ k + 1 # k
        /\ current # job_list[k].jid => current' = current
        /\ current = job_list[k].jid /\ k = Len(job_list) => current' = NoJob
        /\ current = job_list[k].jid /\ k # Len(job_list) =>
             current' = job_list[k + 1].jid
    BY <1>0, <2>0
  <2>2. \A i \in 1..Len(job_list) : i # k => job_list[i].jid \in ListedJids'
    <3>1. ASSUME NEW i \in 1..Len(job_list), i # k
          PROVE  job_list[i].jid \in ListedJids'
      <4>1. PICK j \in 1..Len(job_list') : i = Kept(k, j)
        BY <2>0, <3>1
      <4>2. job_list'[j].jid = job_list[i].jid
        BY <2>0, <4>1
      <4> QED
        BY <1>2, <4>2 DEF ListedJids
    <3> QED
      BY <3>1
  <2>3. current' \in ListedJids' \cup {NoJob}
    <3>1. CASE current = job_list[k].jid
      BY <2>1, <2>2, <3>1
    <3>2. CASE current # job_list[k].jid /\ current # NoJob
      <4>1. PICK i \in 1..Len(job_list) : job_list[i].jid = current
        BY <1>2, <1>4, <3>2 DEF ListedJids
      <4> QED
        BY <2>1, <2>2, <3>2, <4>1
    <3> QED
      BY <2>1, <3>1, <3>2
  <2>4. ASSUME failures' = 0, ~Reaping'
        PROVE  current' = FirstJid'
    <3>0. 1 \in 1..Len(job_list) /\ Len(job_list) # 0
      <4>1. k \in 1..Len(job_list)
        BY <2>1
      <4> QED
        BY <4>1
    <3>1. 1 \in 1..Len(job_list) /\ job_list # <<>>
      <4>1. Len(<<>>) = 0
        BY EmptySeq
      <4> QED
        BY <3>0, <4>1, Zenon
    <3>2. current = job_list[1].jid
      BY <1>1, <1>4, <1>9, <2>4, <3>1 DEF FirstJid
    <3>3. CASE k = 1 /\ Len(job_list) = 1
      BY <1>2, <2>1, <3>2, <3>3 DEF FirstJid
    <3>4. CASE Len(job_list) # 1
      <4>0. 1 \in 1..Len(job_list') /\ Len(job_list') # 0
        BY <1>0, <2>1, <3>4
      <4>1. 1 \in 1..Len(job_list') /\ job_list' # <<>>
        BY <1>2, <4>0
      <4>2. FirstJid' = job_list[Kept(k, 1)].jid
        BY <2>0, <4>1 DEF FirstJid
      <4>3. CASE k = 1
        BY <1>2, <2>1, <3>2, <3>4, <4>2, <4>3 DEF Kept
      <4>4. CASE k # 1
        <5>1. job_list[1].jid < job_list[k].jid /\ Kept(k, 1) = 1
          BY <1>0, <1>3, <2>1, <3>1, <4>4 DEF Kept
        <5>2. current # job_list[k].jid
          BY <1>0, <1>3, <2>1, <3>1, <3>2, <5>1
        <5> QED
          BY <2>1, <3>2, <4>2, <5>1, <5>2
      <4> QED
        BY <4>3, <4>4
    <3>5. Len(job_list) = 1 => k = 1
      <4>1. k \in 1..Len(job_list)
        BY <2>1
      <4> QED
        BY <4>1
    <3> QED
      BY <3>3, <3>4, <3>5, Zenon
  <2>5. ASSUME failures' = 0, Reaping', NEW i \in 1..Len(job_list'),
               current' = NoJob \/ job_list'[i].jid < current'
        PROVE  job_list'[i].pid \in polled'
    <3> DEFINE j == Kept(k, i)
    <3>1. j \in 1..Len(job_list) /\ j # k /\ job_list'[i] = job_list[j]
      BY <2>0
    <3> HIDE DEF j
    <3>2. current = NoJob \/ job_list[j].jid < current
      <4>1. CASE current # job_list[k].jid
        BY <2>1, <2>5, <3>1, <4>1
      <4>2. CASE current = job_list[k].jid /\ k = Len(job_list)
        <5>1. j < k
          BY <1>0, <2>1, <3>1, <4>2
        <5> QED
          BY <1>3, <2>1, <3>1, <4>2, <5>1
      <4>3. CASE current = job_list[k].jid /\ k # Len(job_list)
        <5>1. job_list[j].jid < job_list[k + 1].jid
          BY <1>3, <2>1, <2>5, <3>1, <4>3 DEF NoJob
        <5>2. ~(k + 1 <= j)
          BY <1>0, <1>3, <2>1, <3>1, <5>1
        <5>3. j < k
          BY <1>0, <2>1, <3>1, <5>2
        <5> QED
          BY <1>3, <2>1, <3>1, <4>3, <5>3
      <4> QED
        BY <4>1, <4>2, <4>3
    <3> QED
      BY <1>1, <1>4, <1>9, <2>5, <3>1, <3>2 DEF Passed
  <2> QED
    BY <2>3, <2>4, <2>5 DEF Passed
<1>10. CASE reap_help \/ wait_child
  <2>1. /\ polled' = polled /\ pc # "poll" /\ pc' \notin {"dispatch", "poll"}
        /\ Reaping' <=> Reaping
    BY <1>10, Applies DEF Reaping
  <2>2. CASE remove_job_pid(target) /\ PidAt(target) = 0
    BY <1>1, <1>4, <2>1, <2>2
       DEF remove_job_pid, Passed, FirstJid, ListedJids
  <2> QED
    BY <1>8, <1>9, <1>10, <2>1, <2>2, Applies
<1>11. CASE bg_update \/ fg_update
  <2>1. /\ polled' = polled /\ pc # "poll" /\ pc' \notin {"dispatch", "poll"}
        /\ ~Reaping' /\ ~Reaping /\ update_job_pid(target, "Running")
    BY <1>11 DEF bg_update, fg_update, At, GoTo, Reaping
  <2> QED
    BY <1>8, <2>1
<1>12. ASSUME NEW pid \in Pids \cup {NoPid}, add_job(job_id + 1, pid),
              ~Reaping, ~Reaping', pc' # "dispatch"
       PROVE  /\ current' \in ListedJids' \cup {NoJob}
              /\ failures' = 0 => current' = FirstJid'
  <2>1. /\ ListedJids' = ListedJids \cup {job_id + 1}
        /\ current' = IF job_list = <<>> THEN job_id + 1 ELSE current
    BY <1>1, <1>12, ListedAfterAdd DEF add_job
  <2>2. job_id + 1 \in Nat \ {0}
    BY <1>1 DEF TypeOK
  <2>3. /\ Len(job_list') = Len(job_list) + 1
        /\ \A i \in 1..Len(job_list) : job_list'[i] = job_list[i]
        /\ job_list'[Len(job_list) + 1].jid = job_id + 1
    BY <1>1, <1>12, <2>2, AddFacts, Zenon
  <2> QED
    BY <1>1, <1>2, <1>4, <1>12, <2>1, <2>3 DEF FirstJid
<1>13. CASE \/ \E amp, input \in BOOLEAN : fork_process(amp, input)
            \/ \E amp \in BOOLEAN : fork_process_fails(amp)
  <2>1. /\ ~Reaping /\ ~Reaping' /\ pc' # "dispatch"
        /\ \E pid \in Pids \cup {NoPid} : add_job(job_id + 1, pid)
    BY <1>13 DEF fork_process, fork_process_fails, Forks, At, GoTo, Reaping
  <2> QED
    BY <1>12, <2>1
<1> QED
  BY <1>1, <1>6, <1>7, <1>10, <1>11, <1>13, NextCases

------------------------------------------------------------------------------
(* The states on the list *)

\* StatesCatchUp and MarksFit, said of one job.
MarkFits(state, p) ==
    /\ state = "Stopped" => proc[p] \in {"running", "stopped", "zombie", "gone"}
    /\ ~Applying(p) =>
         /\ state = "Running" /\ proc[p] = "stopped" => report[p] = "stopped"
         /\ state = "Stopped" /\ proc[p] = "running" => report[p] = "continued"

\* The same after the step.
MarkWillFit(state, p) ==
    /\ state = "Stopped" => proc'[p] \in {"running", "stopped", "zombie", "gone"}
    /\ ~(target' = p /\ pc' \in {"reap_help", "wait_child", "bg", "fg"}) =>
         /\ state = "Running" /\ proc'[p] = "stopped" => report'[p] = "stopped"
         /\ state = "Stopped" /\ proc'[p] = "running" => report'[p] = "continued"

LEMMA StatesStep ==
    ASSUME ShellInv, [Next]_vars
    PROVE  StatesCatchUp' /\ MarksFit'
<1> SUFFICES ASSUME failures' = 0, ~Ending'
             PROVE  \A i \in 1..Len(job_list') :
                      MarkWillFit(job_list'[i].state, job_list'[i].pid)
  <2>1. DOMAIN job_list' = 1..Len(job_list')
    BY TypeStep DEF TypeOK
  <2> QED
    BY <2>1 DEF StatesCatchUp, MarksFit, MarkWillFit, Applying
<1>1. /\ TypeOK /\ JobsDistinct /\ TargetFits /\ StatusFits /\ ReportsFit /\ ~Ending
      /\ ~cleanup_job_list /\ ~cleanup_return /\ failures = 0
      /\ target \in Pids \cup {NoPid, NoJob}
      /\ proc \in [Pids -> {"none", "born", "grouped", "ready", "running",
                            "stopped", "zombie", "gone"}]
      /\ report \in [Pids -> Changes]
  BY NotEnding, TargetIsProcess DEF ShellInv, TypeOK
<1>2. Len(job_list) \in Nat /\ DOMAIN job_list = 1..Len(job_list)
  BY <1>1 DEF TypeOK
<1>3. /\ target # NoPid
      /\ \A i \in 1..Len(job_list) :
           /\ job_list[i].pid \in Pids /\ proc[job_list[i].pid] # "none"
           /\ MarkFits(job_list[i].state, job_list[i].pid)
      /\ \A i, j \in 1..Len(job_list) : i # j => job_list[i].pid # job_list[j].pid
  <2>1. target # NoPid /\ \A i \in 1..Len(job_list) : job_list[i].pid # NoPid
    BY <1>1, <1>2 DEF JobsDistinct, ListedPids
  <2>2. \A i \in 1..Len(job_list) : MarkFits(job_list[i].state, job_list[i].pid)
    BY <1>1, <1>2 DEF ShellInv, StatesCatchUp, MarksFit, MarkFits, MarkWillFit
  <2> QED
    BY <1>1, <1>2, <2>1, <2>2, JobAt DEF JobsDistinct
<1>4. CASE Quiet \/ ChildMoves \/ reap \/ UNCHANGED vars
  <2>1. UNCHANGED job_list
    BY <1>4, QuietFacts DEF reap, get_next_pid, jobs
  <2> SUFFICES ASSUME NEW q \in Pids, NEW mark, MarkFits(mark, q)
               PROVE  MarkWillFit(mark, q)
    <3>1. \A i \in 1..Len(job_list) : MarkWillFit(job_list[i].state, job_list[i].pid)
      BY <1>3
    <3> QED
      BY <2>1, <3>1
  <2> USE DEF MarkFits, MarkWillFit, Applying, At, GoTo, children, shell
  <2>2. CASE repl_read \/ repl_no_job \/ wait_child_no_child \/ wait_child_terminal \/ reap
    BY <1>1, <2>2 DEF repl_read, repl_no_job, wait_child_no_child, wait_child_terminal,
                      reap
  <2>3. CASE repl_eof \/ repl_return
    BY <2>3 DEF repl_eof, repl_return, Ending
  <2>4. CASE reap_help_waitpid
    BY <1>1, <2>4 DEF reap_help_waitpid, TargetFits, waitpid, Becomes
  <2>5. CASE wait_child_waitpid
    <3>1. report[target] \in Ended \cup {"stopped"} /\ waitpid(target)
      BY <1>3, <2>5 DEF wait_child_waitpid, Awaited
    <3>2. target \in Pids
      BY <1>1, <1>3, <2>5 DEF wait_child_waitpid, TargetFits
    <3> QED
      BY <1>1, <2>5, <3>1, <3>2 DEF wait_child_waitpid, waitpid, Becomes
  <2>6. ASSUME NEW amp \in BOOLEAN, NEW input \in BOOLEAN,
               fork_process_nameless(amp, input)
        PROVE  FALSE
    BY <1>1, <2>6 DEF fork_process_nameless
  <2>7. ASSUME NEW jid \in Jids, bg(jid) \/ fg(jid)
        PROVE  MarkWillFit(mark, q)
    BY <1>1, <2>7 DEF bg, fg, resume, sigcont, Becomes, GroupExists
  <2>8. ASSUME NEW p \in Pids, NEW state, NEW change, ChildChange(p, state, change)
        PROVE  MarkWillFit(mark, q)
    BY <1>1, <2>8 DEF ChildChange, Becomes, Live
  <2>9. CASE UNCHANGED vars
    BY <2>9 DEF vars
  <2> QED
    BY <1>4, <2>2, <2>3, <2>4, <2>5, <2>6, <2>7, <2>8, <2>9, ChildCases DEF Quiet
<1>5. ASSUME NEW state \in {"Running", "Stopped"}, update_job_pid(target, state),
             UNCHANGED children, pc' \notin {"reap_help", "wait_child", "bg", "fg"},
             target \in Pids => MarkWillFit(state, target)
      PROVE  \A i \in 1..Len(job_list') :
               MarkWillFit(job_list'[i].state, job_list'[i].pid)
  <2>1. /\ Len(job_list') = Len(job_list)
        /\ \A i \in 1..Len(job_list) :
             /\ job_list'[i].pid = job_list[i].pid
             /\ job_list'[i].state =
                  IF i = PidAt(target) THEN state ELSE job_list[i].state
    BY <1>1, <1>5, UpdateFacts
  <2> SUFFICES ASSUME NEW i \in 1..Len(job_list)
               PROVE  MarkWillFit(job_list'[i].state, job_list'[i].pid)
    BY <2>1
  <2>2. /\ PidAt(target) = 0 => job_list[i].pid # target
        /\ PidAt(target) # 0 => /\ PidAt(target) \in 1..Len(job_list)
                                /\ job_list[PidAt(target)].pid = target
    BY <1>1, <1>2, PidAtFacts
  <2>3. CASE i = PidAt(target)
    BY <1>3, <1>5, <2>1, <2>2, <2>3 DEF MarkFits, MarkWillFit, Applying
  <2>4. CASE i # PidAt(target)
    <3>1. job_list[i].pid # target
      BY <1>3, <2>2, <2>4
    <3> QED
      BY <1>3, <1>5, <2>1, <2>4, <3>1 DEF MarkFits, MarkWillFit, Applying, children
  <2> QED
    BY <2>3, <2>4
<1>6. CASE reap_help \/ wait_child
  <2>1. /\ pc' \notin {"reap_help", "wait_child", "bg", "fg"} /\ UNCHANGED children
        /\ pc \in {"reap_help", "wait_child"}
    BY <1>6, Applies
  <2>2. CASE \/ stat = "stopped" /\ update_job_pid(target, "Stopped")
             \/ stat = "continued" /\ update_job_pid(target, "Running")
    <3>1. /\ stat = "stopped" /\ target \in Pids => MarkWillFit("Stopped", target)
          /\ stat = "continued" /\ target \in Pids => MarkWillFit("Running", target)
      BY <1>1, <2>1 DEF StatusFits, MarkFits, MarkWillFit, children
    <3> QED
      BY <1>5, <2>1, <2>2, <3>1
  <2>3. CASE remove_job_pid(target) /\ PidAt(target) = 0
    <3>1. job_list' = job_list /\ \A i \in 1..Len(job_list) : job_list[i].pid # target
      BY <1>1, <2>3, PidAtFacts DEF remove_job_pid
    <3> QED
      BY <1>3, <2>1, <3>1 DEF MarkFits, MarkWillFit, Applying, children
  <2>4. CASE remove_job_pid(target) /\ PidAt(target) # 0
    <3> DEFINE k == PidAt(target)
    <3>1. /\ k \in 1..Len(job_list) /\ job_list[k].pid = target
          /\ \A i \in 1..Len(job_list') :
               /\ Kept(k, i) \in 1..Len(job_list) /\ Kept(k, i) # k
               /\ job_list'[i] = job_list[Kept(k, i)]
      BY <1>1, <2>4, RemoveFacts, Zenon
    <3> HIDE DEF k
    <3>2. ASSUME NEW i \in 1..Len(job_list')
          PROVE  MarkWillFit(job_list'[i].state, job_list'[i].pid)
      <4> DEFINE j == Kept(k, i)
      <4>1. j \in 1..Len(job_list) /\ j # k /\ job_list'[i] = job_list[j]
        BY <3>1
      <4> HIDE DEF j
      <4>2. job_list[j].pid # target /\ MarkFits(job_list[j].state, job_list[j].pid)
        BY <1>3, <3>1, <4>1
      <4> QED
        BY <2>1, <4>1, <4>2 DEF MarkFits, MarkWillFit, Applying, children
    <3> QED
      BY <3>2
  <2> QED
    BY <1>6, <2>2, <2>3, <2>4, Applies
<1>7. CASE bg_update \/ fg_update
  <2>1. /\ pc \in {"bg", "fg"} /\ pc' \in {"read", "wait"} /\ UNCHANGED children
        /\ update_job_pid(target, "Running")
    BY <1>7 DEF bg_update, fg_update, At, GoTo
  <2>2. MarkWillFit("Running", target)
    BY <1>1, <2>1 DEF TargetFits, MarkFits, MarkWillFit, children
  <2> QED
    BY <1>5, <2>1, <2>2
<1>8. ASSUME NEW amp \in BOOLEAN, NEW input \in BOOLEAN, fork_process(amp, input)
      PROVE  \A i \in 1..Len(job_list') :
               MarkWillFit(job_list'[i].state, job_list'[i].pid)
  <2>1. PICK p \in Pids : /\ proc[p] = "none" /\ proc' = [proc EXCEPT ![p] = "born"]
                          /\ report' = report /\ add_job(job_id + 1, p)
                          /\ pc = "dispatch" /\ pc' \in {"read", "wait"}
    BY <1>8 DEF fork_process, Forks, At, GoTo
  <2>2. job_id + 1 \in Nat \ {0} /\ p \in Pids \cup {NoPid}
    BY <1>1 DEF TypeOK
  <2>3. /\ Len(job_list') = Len(job_list) + 1
        /\ \A i \in 1..Len(job_list) : job_list'[i] = job_list[i]
        /\ job_list'[Len(job_list) + 1].pid = p
        /\ job_list'[Len(job_list) + 1].state = "Running"
    BY <1>1, <2>1, <2>2, AddFacts, Zenon
  <2>4. ASSUME NEW i \in 1..Len(job_list)
        PROVE  MarkWillFit(job_list[i].state, job_list[i].pid)
    BY <1>1, <1>3, <2>1 DEF MarkFits, MarkWillFit, Applying
  <2>5. MarkWillFit("Running", p)
    BY <1>1, <2>1 DEF MarkFits, MarkWillFit
  <2>6. \A i \in 1..Len(job_list') : i \in 1..Len(job_list) \/ i = Len(job_list) + 1
    BY <1>2, <2>3
  <2> QED
    BY <2>3, <2>4, <2>5, <2>6
<1>9. ASSUME NEW amp \in BOOLEAN, fork_process_fails(amp)
      PROVE  FALSE
  BY <1>1, <1>9 DEF fork_process_fails
<1> QED
  BY <1>1, <1>4, <1>6, <1>7, <1>8, <1>9, NextCases

LEMMA CleanupStep ==
    ASSUME ShellInv, [Next]_vars
    PROVE  CleanupCovers'
<1> SUFFICES ASSUME pc' = "cleanup", NEW p \in Pids, Live(p)'
             PROVE  p \in ListedPids' \cup missed' \cup nameless'
  BY DEF CleanupCovers
<1>1. /\ TypeOK /\ ChildrenListed /\ CleanupCovers
      /\ proc \in [Pids -> {"none", "born", "grouped", "ready", "running",
                            "stopped", "zombie", "gone"}]
  BY DEF ShellInv, TypeOK
<1>2. CASE repl_eof
  BY <1>1, <1>2 DEF repl_eof, At, jobs, children, Live, IsChild, ChildrenListed, Ending,
                    ListedPids
<1>3. CASE cleanup_job_list
  <2>1. job_list \in Seq(Job) /\ job_list # <<>> /\ job_list' = Tail(job_list)
    BY <1>1, <1>3 DEF cleanup_job_list, TypeOK
  <2>2. ListedPids \subseteq ListedPids' \cup {Head(job_list).pid}
    <3>1. /\ Len(job_list) \in Nat \ {0} /\ DOMAIN job_list = 1..Len(job_list)
          /\ DOMAIN job_list' = 1..(Len(job_list) - 1) /\ Head(job_list) = job_list[1]
      BY <2>1
    <3>2. \A i \in 1..(Len(job_list) - 1) : job_list'[i] = job_list[i + 1]
      BY <2>1
    <3> SUFFICES ASSUME NEW i \in 1..Len(job_list), i # 1
                 PROVE  \E j \in 1..(Len(job_list) - 1) : job_list'[j] = job_list[i]
      <4>1. ListedPids = {job_list[i].pid : i \in 1..Len(job_list)}
        BY <3>1 DEF ListedPids
      <4>2. ListedPids' = {job_list'[j].pid : j \in 1..(Len(job_list) - 1)}
        BY <3>1 DEF ListedPids
      <4> QED
        BY <3>1, <4>1, <4>2
    <3>3. i - 1 \in 1..(Len(job_list) - 1) /\ (i - 1) + 1 = i
      BY <3>1
    <3> QED
      BY <3>2, <3>3
  <2> DEFINE h == Head(job_list).pid
  <2>3. /\ missed' = IF h \in Pids /\ ~GroupExists(h) THEN missed \cup {h} ELSE missed
        /\ \/ GroupExists(h) /\ Live(h) /\ Becomes(h, "zombie", "signaled")
           \/ ~(GroupExists(h) /\ Live(h)) /\ UNCHANGED children
        /\ pc = "cleanup"
    BY <1>3 DEF cleanup_job_list
  <2> HIDE DEF h
  <2>4. Live(p) /\ nameless' = nameless
    BY <1>1, <2>3 DEF Live, Becomes, GroupExists, children
  <2>5. p \in ListedPids \cup missed \cup nameless
    BY <1>1, <2>3, <2>4 DEF CleanupCovers
  <2>6. p = h => p \in missed'
    BY <1>1, <2>3, <2>4 DEF Live, Becomes, GroupExists, children
  <2> QED
    BY <2>2, <2>3, <2>4, <2>5, <2>6 DEF h
<1>4. ASSUME NEW q \in Pids, NEW state, NEW change, ChildChange(q, state, change)
      PROVE  p \in ListedPids' \cup missed' \cup nameless'
  <2>1. Live(p) /\ pc = "cleanup" /\ UNCHANGED <<job_list, missed, nameless>>
    BY <1>1, <1>4 DEF ChildChange, Becomes, Live, shell, jobs, history
  <2> QED
    BY <1>1, <2>1 DEF CleanupCovers, ListedPids
<1>5. CASE UNCHANGED vars
  BY <1>1, <1>5 DEF vars, shell, children, jobs, history, CleanupCovers, Live, ListedPids
<1>6. repl_eof \/ cleanup_job_list \/ ChildMoves \/ UNCHANGED vars
  BY NextCases
     DEF Quiet, repl_read, reap_help_waitpid, repl_return, repl_no_job,
         fork_process_nameless, Forks, wait_child_waitpid, wait_child_no_child,
         wait_child_terminal, bg, fg, resume, reap, reap_help, cleanup_return,
         fork_process, fork_process_fails, wait_child, bg_update, fg_update, GoTo
<1> QED
  BY <1>2, <1>3, <1>4, <1>5, <1>6, ChildCases

------------------------------------------------------------------------------
(* The theorems *)

LEMMA ShellInit == Init => ShellInv
<1> SUFFICES ASSUME Init
             PROVE  ShellInv
  OBVIOUS
<1> USE DEF Init, init_job_list
<1>1. TypeOK
  BY DEF TypeOK, Changes, NoJob, ShellPid
<1>2. ReportsFit /\ StatusFits /\ TargetFits /\ TerminalFits /\ CleanupCovers
  BY DEF ReportsFit, StatusFits, TargetFits, NeverWaitsInVain, TerminalFits,
         CleanupCovers, Ended
<1>3. DOMAIN job_list = {} /\ ListedPids = {} /\ ListedJids = {}
  BY DEF ListedPids, ListedJids
<1>4. JobsDistinct /\ ChildrenListed /\ IteratorPlaced /\ StatesCatchUp /\ MarksFit
  BY <1>3 DEF JobsDistinct, ChildrenListed, IteratorPlaced, StatesCatchUp, MarksFit,
              IsChild, Live, NoJob, NoPid, FirstJid, Reaping
<1> QED
  BY <1>1, <1>2, <1>4 DEF ShellInv

\* The invariant behind the others is inductive, whatever the number of children
\* and however many forks fail.
THEOREM ShellInvariance == Spec => []ShellInv
<1>1. ShellInv /\ [Next]_vars => ShellInv'
  BY TypeStep, ReportsStep, StatusStep, TargetStep, DistinctStep, ChildrenStep,
     IteratorStep, StatesStep, TerminalStep, CleanupStep DEF ShellInv
<1> QED
  BY ShellInit, <1>1, PTL DEF Spec

\* reap.c asks about every job in each round, and the iterator that removals in
\* jobs.c move never points to a freed element.
THEOREM ReapIsComplete == Spec => []ReapCoversList
<1>1. ShellInv => ReapCoversList
  BY DEF ShellInv, ReapCoversList, IteratorPlaced, Ending
<1> QED
  BY ShellInvariance, <1>1, PTL

\* The job list and the shell's uncollected children are the same processes.
THEOREM ListIsExact == Spec => []ListMatchesChildren
<1>1. ShellInv => ListMatchesChildren
  BY DEF ShellInv, ListMatchesChildren, ChildrenListed, JobsDistinct, Applying
<1> QED
  BY ShellInvariance, <1>1, PTL

\* A job marked wrongly has a report that will correct it.
THEOREM MarksCatchUp == Spec => []StatesCatchUp
<1>1. ShellInv => StatesCatchUp
  BY DEF ShellInv
<1> QED
  BY ShellInvariance, <1>1, PTL

\* wait_child never waits for a child that has nothing to report any more.
THEOREM WaitIsAnswered == Spec => []NeverWaitsInVain
<1>1. ShellInv => NeverWaitsInVain
  BY DEF ShellInv, TargetFits
<1> QED
  BY ShellInvariance, <1>1, PTL

\* The terminal is the shell's at the prompt and the job's while it is waited for.
THEOREM TerminalIsPlaced == Spec => []TerminalPlaced
<1>1. ShellInv => TerminalPlaced
  BY DEF ShellInv, TerminalPlaced, TerminalFits, TypeOK
<1> QED
  BY ShellInvariance, <1>1, PTL

\* cleanup_job_list leaves no child alive but those it found no group for and
\* those that never had a job.
THEOREM EofKills == Spec => []EofKillsJobs
<1>1. ShellInv => EofKillsJobs
  <2> SUFFICES ASSUME ShellInv, pc = "cleanup", job_list = <<>>
               PROVE  \A p \in Pids : Live(p) => p \in missed \cup nameless
    BY DEF EofKillsJobs
  <2>1. ListedPids = {}
    BY DEF ListedPids
  <2> QED
    BY <2>1 DEF ShellInv, CleanupCovers
<1> QED
  BY ShellInvariance, <1>1, PTL
==============================================================================
