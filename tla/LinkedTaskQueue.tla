-------------------------- MODULE LinkedTaskQueue --------------------------
(***************************************************************************)
(* The task queue as task_queue.c builds it: one doubly linked list of all *)
(* tasks, newest at task_q and oldest at task_end, and through its control *)
(* tasks a second list, singly linked by prev_control from the oldest at   *)
(* sub_end to the newest at sub_q.  Every operation runs under             *)
(* task_queue_lock, so it is one action.                                   *)
(***************************************************************************)
EXTENDS Integers, Sequences, FiniteSets

CONSTANTS
  Task,   \* addresses kmalloc returns for a task
  Null    \* the null pointer

ASSUME PoolAssumption == IsFiniteSet(Task) /\ Null \notin Task

VARIABLES
  next, prev, prev_control,         \* the fields of the tasks
  task_q, task_end, sub_q, sub_end, \* the ends of the two lists
  control,  \* tasks whose type is_control_task accepts
  live,     \* tasks allocated and not freed
  got,      \* the task the thread is handling, or Null
  idle,     \* is the thread outside its loop over get_task?
  closed    \* has cleanup_task_queue run?

links == <<next, prev, prev_control>>
ends  == <<task_q, task_end, sub_q, sub_end>>
vars  == <<links, ends, control, live, got, idle, closed>>

Init ==
  /\ next = [t \in Task |-> Null]
  /\ prev = [t \in Task |-> Null]
  /\ prev_control = [t \in Task |-> Null]
  /\ task_q = Null /\ task_end = Null /\ sub_q = Null /\ sub_end = Null
  /\ control = {} /\ live = {} /\ got = Null /\ idle = TRUE
  /\ closed = FALSE

\* field with x at the tasks of ts; a null pointer is not written through.
Set(field, ts, x) == [t \in Task |-> IF t \in ts THEN x ELSE field[t]]

\* create_task gives every pointer of the new task the value NULL.
Create(t, isControl) ==
  /\ ~ closed
  /\ t \notin live
  /\ live' = live \cup {t}
  /\ control' = IF isControl THEN control \cup {t} ELSE control \ {t}
  /\ UNCHANGED <<got, idle, closed>>

\* queue_aodv_task, called with a new task by insert_task and with one taken
\* from the timers by insert_task_from_timer.
QueueTask(t, isControl) ==
  /\ Create(t, isControl)
  /\ next' = [next EXCEPT ![t] = task_q]
  /\ prev' = Set([prev EXCEPT ![t] = Null], {task_q}, t)
  /\ task_q' = t
  /\ task_end' = IF task_end = Null THEN t ELSE task_end
  /\ IF ~ isControl
     THEN /\ prev_control' = [prev_control EXCEPT ![t] = Null]
          /\ UNCHANGED <<sub_q, sub_end>>
     ELSE /\ prev_control' = Set([prev_control EXCEPT ![t] = Null], {sub_q}, t)
          /\ sub_q' = t
          /\ sub_end' = IF sub_q = Null /\ sub_end = Null THEN t ELSE sub_end

\* Mutant of QueueAtFront: the old end does not learn of its new neighbour.
QueueAtFrontOneWay(t) ==
  /\ Create(t, TRUE)
  /\ next' = [next EXCEPT ![t] = Null]
  /\ prev' = [prev EXCEPT ![t] = task_end]
  /\ task_end' = t
  /\ task_q' = IF task_q = Null THEN t ELSE task_q
  /\ prev_control' = [prev_control EXCEPT ![t] = sub_end]
  /\ sub_end' = t
  /\ sub_q' = IF sub_q = Null /\ sub_end = Null THEN t ELSE sub_q

\* queue_control_task_at_front: its only caller passes a TASK_GEN_RREQ, which
\* is a control task.
QueueAtFront(t) ==
  /\ Create(t, TRUE)
  /\ next' = Set([next EXCEPT ![t] = Null], {task_end}, t)
  /\ prev' = [prev EXCEPT ![t] = task_end]
  /\ task_end' = t
  /\ task_q' = IF task_q = Null THEN t ELSE task_q
  /\ prev_control' = [prev_control EXCEPT ![t] = sub_end]
  /\ sub_end' = t
  /\ sub_q' = IF sub_q = Null /\ sub_end = Null THEN t ELSE sub_q

\* prev->next = next; next->prev = prev.
Unlink(t) ==
  /\ next' = [next EXCEPT ![prev[t]] = next[t]]
  /\ prev' = [prev EXCEPT ![next[t]] = prev[t]]
  /\ UNCHANGED <<task_q, task_end>>

\* The four places a control task can be taken from.  The end of the list
\* keeps its next pointer, which then leads to the task taken.
TakeControl ==
  LET t == sub_end
      single == sub_end = sub_q
  IN /\ \/ /\ single /\ task_end = task_q /\ task_end = t
           /\ task_q' = Null /\ task_end' = Null
           /\ UNCHANGED <<next, prev>>
        \/ /\ task_end = t /\ ~ (single /\ task_end = task_q)
           /\ task_end' = prev[task_end]
           /\ UNCHANGED <<next, prev, task_q>>
        \/ /\ task_end # t /\ single /\ task_q = sub_q
           /\ task_q' = next[task_q]
           /\ prev' = [prev EXCEPT ![next[task_q]] = Null]
           /\ UNCHANGED <<next, task_end>>
        \/ /\ task_end # t /\ ~ (single /\ task_q = sub_q)
           /\ Unlink(t)
     /\ sub_q' = IF single THEN Null ELSE sub_q
     /\ sub_end' = IF single THEN Null ELSE prev_control[sub_end]

\* Mutant of GetTask: the oldest task is taken, whatever its kind.
GetOldestTask ==
  /\ ~ closed /\ got = Null
  /\ \/ /\ sub_end # Null /\ sub_end = task_end
        /\ got' = sub_end
        /\ TakeControl
     \/ /\ sub_end # task_end
        /\ got' = task_end
        /\ task_q' = IF task_end = task_q THEN Null ELSE task_q
        /\ task_end' = IF task_end = task_q THEN Null ELSE prev[task_end]
        /\ UNCHANGED <<next, prev, sub_q, sub_end>>
  /\ idle' = FALSE
  /\ UNCHANGED <<prev_control, control, live, closed>>

\* Mutant of GetTask: task_q is not reset when its last task is taken.
GetTaskKeepingQ ==
  /\ ~ closed /\ got = Null
  /\ \/ /\ sub_end # Null
        /\ got' = sub_end
        /\ TakeControl
     \/ /\ sub_end = Null /\ task_end # Null
        /\ got' = task_end
        /\ task_end' = IF task_end = task_q THEN Null ELSE prev[task_end]
        /\ UNCHANGED <<next, prev, task_q, sub_q, sub_end>>
  /\ idle' = FALSE
  /\ UNCHANGED <<prev_control, control, live, closed>>

GetTask ==
  /\ ~ closed /\ got = Null
  /\ \/ /\ sub_end # Null
        /\ got' = sub_end
        /\ TakeControl
     \/ /\ sub_end = Null /\ task_end # Null
        /\ got' = task_end
        /\ task_q' = IF task_end = task_q THEN Null ELSE task_q
        /\ task_end' = IF task_end = task_q THEN Null ELSE prev[task_end]
        /\ UNCHANGED <<next, prev, sub_q, sub_end>>
  /\ idle' = FALSE
  /\ UNCHANGED <<prev_control, control, live, closed>>

\* get_task returns NULL and the thread goes back to sleep.
GetNothing ==
  /\ ~ closed /\ got = Null /\ ~ idle
  /\ sub_end = Null /\ task_end = Null
  /\ idle' = TRUE
  /\ UNCHANGED <<links, ends, control, live, got, closed>>

\* kfree(tmp_task), the end of every turn of the thread's loop.
FreeTask ==
  /\ got # Null
  /\ live' = live \ {got} /\ got' = Null
  /\ UNCHANGED <<links, ends, control, idle, closed>>

\* The tasks of T met from start along a field, until a null pointer.
Met(start, field, T) ==
  LET at[i \in 1 .. Cardinality(Task)] ==
        IF i = 1 THEN start
        ELSE IF at[i - 1] = Null THEN Null ELSE field[at[i - 1]]
      places == {i \in 1 .. Cardinality(Task) : at[i] \in T}
      ith(k) == CHOOSE i \in places : Cardinality(places \cap 1 .. i) = k
  IN [k \in 1 .. Cardinality(places) |-> at[ith(k)]]

Walk(start, field) == Met(start, field, Task)

Elements(s) == {s[i] : i \in 1 .. Len(s)}

\* cleanup_task_queue: only task_q is reset.  Nothing makes it wait for the
\* thread, which may be inside its loop: kill_aodv sleeps a second and does
\* not look at aodv_is_dead.
Cleanup ==
  /\ ~ closed
  /\ closed' = TRUE
  /\ live' = live \ Elements(Walk(task_q, next))
  /\ task_q' = Null
  /\ UNCHANGED <<links, task_end, sub_q, sub_end, control, got, idle>>

Next ==
  \/ \E t \in Task : QueueAtFront(t) \/ \E c \in BOOLEAN : QueueTask(t, c)
  \/ GetTask \/ GetNothing \/ FreeTask \/ Cleanup

Spec == Init /\ [][Next]_vars
-----------------------------------------------------------------------------
ByAge == Walk(task_end, prev)
ControlByAge == Walk(sub_end, prev_control)

(* The lists of get_task (task_queue.c:240-315): the queue is empty at both *)
(* ends or at none (what line 309 warns of); between the ends the two       *)
(* directions agree and lead to tasks not yet freed; the second list holds  *)
(* exactly the control tasks.                                               *)
WellLinked ==
  ~ closed =>
    LET Q == Elements(ByAge)
    IN /\ task_q = Null <=> task_end = Null
       /\ Q \subseteq live /\ got \notin Q
       /\ Q # {} => task_q \in Q
       /\ \A t \in Q : IF t = task_q THEN prev[t] = Null
                       ELSE prev[t] \in Q /\ next[prev[t]] = t
       /\ Elements(ControlByAge) = Q \cap control
       /\ sub_q # Null => sub_q = ControlByAge[Len(ControlByAge)]

Abstract ==
  INSTANCE TaskQueue WITH
    ctl <- IF closed THEN <<>> ELSE ControlByAge,
    low <- IF closed THEN <<>> ELSE Met(task_end, prev, Task \ control)

(* The pointers of task_queue.c implement the queue that the thread and    *)
(* the netfilter hook rely on.                                             *)
ImplementsTaskQueue == Abstract!QueueSpec

(* cleanup_task_queue (task_queue.c:40-54) follows next, which get_task     *)
(* leaves dangling at the end of the list (lines 259, 277, 303).  No task   *)
(* of the queue survives it, whenever it runs; and once the thread has left *)
(* its loop, which it does with the list empty only, nothing dangles that   *)
(* the walk can reach: it frees the tasks of the queue, each of them once.  *)
CleanupFreesQueue ==
  [][closed' /\ ~ closed =>
       LET freed == Walk(task_q, next)
       IN /\ Elements(ByAge) \cap live' = {}
          /\ idle => /\ Elements(freed) = Elements(ByAge)
                     /\ Len(freed) = Cardinality(Elements(freed))]_vars
=============================================================================
