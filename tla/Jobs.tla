-------------------------------- MODULE Jobs ---------------------------------
(***************************************************************************)
(* The job list of src/shell_2/jobs.c: a linked list of jobs and an        *)
(* iterator, current, that survives between calls and that removals must   *)
(* keep off freed elements.  The shell gives every job a jid of its own,   *)
(* so a pointer to an element is written as the element's jid.             *)
(***************************************************************************)
EXTENDS Integers, Sequences, SequencesExt

VARIABLES
    job_list,   \* the elements from the head: [jid, pid, state]
    current     \* the iterator: a jid, or NoJob for NULL

NoJob == 0
NoPid == -1

\* The walk from the head: the first of the places given, 0 if there is none.
First(places) ==
    IF places = {} THEN 0 ELSE CHOOSE i \in places : \A j \in places : i <= j
PidAt(pid) == First({i \in DOMAIN job_list : job_list[i].pid = pid})
JidAt(jid) == First({i \in DOMAIN job_list : job_list[i].jid = jid})

\* The pointers head and cur->next of the element at i.
FirstJid == IF job_list = <<>> THEN NoJob ELSE job_list[1].jid
NextJid(i) == IF i = Len(job_list) THEN NoJob ELSE job_list[i + 1].jid

init_job_list == job_list = <<>> /\ current = NoJob

\* A new job goes to the tail; only the first one moves the iterator.
add_job(jid, pid) ==
    /\ job_list' = Append(job_list, [jid |-> jid, pid |-> pid, state |-> "Running"])
    /\ current' = IF job_list = <<>> THEN jid ELSE current

\* Mutation: the iterator is left on the freed element.
remove_keeps_current(pid) ==
    /\ job_list' = IF PidAt(pid) = 0 THEN job_list ELSE RemoveAt(job_list, PidAt(pid))
    /\ UNCHANGED current

remove_job_pid(pid) ==
    LET i == PidAt(pid) IN
    IF i = 0
    THEN UNCHANGED <<job_list, current>>
    ELSE /\ job_list' = RemoveAt(job_list, i)
         /\ current' = IF current = job_list[i].jid THEN NextJid(i) ELSE current

update_job_pid(pid, state) ==
    /\ job_list' = IF PidAt(pid) = 0 THEN job_list
                   ELSE [job_list EXCEPT ![PidAt(pid)].state = state]
    /\ UNCHANGED current

get_job_pid(jid) == IF JidAt(jid) = 0 THEN NoPid ELSE job_list[JidAt(jid)].pid
get_job_jid(pid) == IF PidAt(pid) = 0 THEN -1 ELSE job_list[PidAt(pid)].jid

\* get_next_pid: its result, and where it leaves the iterator.
next_pid == IF current = NoJob THEN NoPid ELSE get_job_pid(current)

\* Mutation: the end of the list is returned again and again.
stay_at_end ==
    /\ current' = IF current = NoJob THEN NoJob ELSE NextJid(JidAt(current))
    /\ UNCHANGED job_list

get_next_pid ==
    /\ current' = IF current = NoJob THEN FirstJid ELSE NextJid(JidAt(current))
    /\ UNCHANGED job_list
==============================================================================
