----------------------------- MODULE TaskQueue -----------------------------
(***************************************************************************)
(* What the task queue promises the AODV thread (task_queue.c): control    *)
(* tasks first, the others when there is none, each kind in the order of   *)
(* arrival, except that a TASK_GEN_RREQ goes before everything else.       *)
(* LinkedTaskQueue is the list that implements it.                         *)
(***************************************************************************)
EXTENDS Integers, Sequences

CONSTANTS
  Task,   \* task structures
  Null    \* the null pointer

ASSUME TaskAssumption == Null \notin Task

VARIABLES
  ctl,    \* control tasks waiting, the next one first
  low,    \* the other tasks waiting, the next one first
  got     \* the task the thread is handling, or Null

queueVars == <<ctl, low, got>>

Members(s) == {s[i] : i \in 1 .. Len(s)}
Held == Members(ctl) \cup Members(low) \cup ({got} \ {Null})

QueueInit == ctl = <<>> /\ low = <<>> /\ got = Null

\* A new task at the end of the tasks of its kind.
Insert(t, control) ==
  /\ t \notin Held
  /\ IF control THEN ctl' = Append(ctl, t) /\ UNCHANGED low
                ELSE low' = Append(low, t) /\ UNCHANGED ctl
  /\ UNCHANGED got

InsertAtFront(t) ==
  /\ t \notin Held
  /\ ctl' = <<t>> \o ctl
  /\ UNCHANGED <<low, got>>

\* Mutant of Get: the newest control task is taken.
GetNewest ==
  /\ got = Null
  /\ \/ /\ ctl # <<>>
        /\ got' = ctl[Len(ctl)] /\ ctl' = SubSeq(ctl, 1, Len(ctl) - 1)
        /\ UNCHANGED low
     \/ /\ ctl = <<>> /\ low # <<>>
        /\ got' = Head(low) /\ low' = Tail(low) /\ UNCHANGED ctl

Get ==
  /\ got = Null
  /\ \/ /\ ctl # <<>>
        /\ got' = Head(ctl) /\ ctl' = Tail(ctl) /\ UNCHANGED low
     \/ /\ ctl = <<>> /\ low # <<>>
        /\ got' = Head(low) /\ low' = Tail(low) /\ UNCHANGED ctl

\* The thread has handled the task and frees it.
Done ==
  /\ got # Null /\ got' = Null
  /\ UNCHANGED <<ctl, low>>

\* cleanup_task_queue: everything that waits is thrown away.
Clear ==
  /\ ctl' = <<>> /\ low' = <<>>
  /\ UNCHANGED got

QueueNext ==
  \/ \E t \in Task : InsertAtFront(t) \/ \E control \in BOOLEAN : Insert(t, control)
  \/ Get \/ Done \/ Clear

QueueSpec == QueueInit /\ [][QueueNext]_queueVars
=============================================================================
