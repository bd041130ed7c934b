---------------------------- MODULE NeighborLife ----------------------------
(***************************************************************************)
(* The life of one neighbour in the list of this node (hello.c,            *)
(* aodv_neigh.c, timer_queue.c).  The neighbour says hello once in         *)
(* HELLO_INTERVAL while it is in range; what the thread hears of it puts   *)
(* its TASK_NEIGHBOR timer off; the timer, once it fires, is a task behind *)
(* those already queued.                                                   *)
(*                                                                         *)
(* HOPS metric; netlink and kmalloc succeed.                               *)
(***************************************************************************)
EXTENDS Integers, Sequences

CONSTANTS
  Life,       \* 1 + ALLOWED_HELLO_LOSS, in units of HELLO_INTERVAL
  MaxTasks,   \* bound: tasks about the neighbour that wait for the thread
  MaxEntries  \* bound: up to where its entries are counted

ASSUME LifeAssumption ==
  Life \in Nat \ {0} /\ MaxTasks \in Nat /\ MaxEntries \in Nat

VARIABLES
  near,     \* is the neighbour in range?
  said,     \* has it said hello in this interval?
  tasks,    \* tasks about it, in the order the thread will take them
  neigh,    \* is it in aodv_neigh_list?
  timers,   \* its TASK_NEIGHBOR timers: intervals left
  entries   \* neighbour entries that lead to it, all ACTIVE

vars == <<near, said, tasks, neigh, timers, entries>>

Members(s) == {s[i] : i \in 1 .. Len(s)}

Init ==
  /\ near \in BOOLEAN /\ said = FALSE
  /\ tasks = <<>> /\ neigh = FALSE /\ timers = <<>> /\ entries = 0
-----------------------------------------------------------------------------
(* The neighbour, its messages, and time.                                  *)

Move ==
  /\ near' = ~ near
  /\ UNCHANGED <<said, tasks, neigh, timers, entries>>

\* send_hello of the neighbour; the radio may lose it.
Hello ==
  /\ near /\ ~ said
  /\ said' = TRUE
  /\ \/ Len(tasks) < MaxTasks /\ tasks' = Append(tasks, "hello")
     \/ UNCHANGED tasks
  /\ UNCHANGED <<near, neigh, timers, entries>>

\* A RREQ or RREP the neighbour sends or passes on.
Message ==
  /\ near /\ Len(tasks) < MaxTasks
  /\ tasks' = Append(tasks, "message")
  /\ UNCHANGED <<near, said, neigh, timers, entries>>

Overdue == timers # <<>> /\ Head(timers) = 0

\* Mutant of Tick: the timer that is due is passed over.
TickOn ==
  /\ said \/ ~ near
  /\ said' = FALSE
  /\ timers' = [i \in 1 .. Len(timers) |-> timers[i] - 1]
  /\ UNCHANGED <<near, tasks, neigh, entries>>

\* An interval ends; what was due in it has fired.
Tick ==
  /\ said \/ ~ near
  /\ ~ Overdue
  /\ said' = FALSE
  /\ timers' = [i \in 1 .. Len(timers) |-> timers[i] - 1]
  /\ UNCHANGED <<near, tasks, neigh, entries>>

\* timer_queue_signal.  The timer runs 100 ms longer than its intervals, the
\* jitter of a hello is at most 40 ms: the hello of this interval is out.
Fire ==
  /\ Overdue /\ (said \/ ~ near)
  /\ tasks' = Append(tasks, "expire")
  /\ timers' = Tail(timers)
  /\ UNCHANGED <<near, said, neigh, entries>>
-----------------------------------------------------------------------------
(* The thread.                                                             *)

Take(task) ==
  /\ tasks # <<>> /\ Head(tasks) = task
  /\ tasks' = Tail(tasks)
  /\ UNCHANGED <<near, said>>

\* Mutant of PutOff: the old timer is not deleted.
PutOffAgain == timers' = Append(timers, Life)

\* delete_timer, which finds the first, and insert_timer_simple.
PutOff ==
  timers' = Append(IF timers = <<>> THEN <<>> ELSE Tail(timers), Life)

\* recv_hello, create_aodv_neigh and route_aodv_neigh.
RecvHello ==
  /\ Take("hello")
  /\ \/ neigh /\ UNCHANGED <<neigh, entries>>
     \/ /\ ~ neigh /\ neigh' = TRUE
        /\ entries' = IF entries < MaxEntries THEN entries + 1 ELSE entries
  /\ PutOff

\* recv_rreq and recv_rrep, which ignore a sender they do not know.
RecvMessage ==
  /\ Take("message")
  /\ \/ neigh /\ PutOff
     \/ ~ neigh /\ UNCHANGED timers
  /\ UNCHANGED <<neigh, entries>>

\* Mutant of DeleteNeigh: the timer is armed again, as by the periodic tasks.
DeleteNeighLater ==
  /\ Take("expire")
  /\ PutOff
  /\ UNCHANGED <<neigh, entries>>

\* delete_aodv_neigh, for a neighbour that may be gone already.  gen_rerr
\* passes over the neighbour entries.
DeleteNeigh ==
  /\ Take("expire")
  /\ neigh' = FALSE
  /\ UNCHANGED <<timers, entries>>

Thread == RecvHello \/ RecvMessage \/ DeleteNeigh

Next == Move \/ Hello \/ Message \/ Tick \/ Fire \/ Thread

Spec == Init /\ [][Next]_vars

(* The kernel runs the thread, time passes and timers fire.                *)
FairSpec == Spec /\ WF_vars(Thread) /\ WF_vars(Tick) /\ WF_vars(Fire)
-----------------------------------------------------------------------------
(* Every variable has its type.                                            *)
TypeOK ==
  /\ near \in BOOLEAN /\ said \in BOOLEAN /\ neigh \in BOOLEAN
  /\ tasks \in Seq({"hello", "message", "expire"})
  /\ timers \in Seq(0 .. Life)
  /\ entries \in 0 .. MaxEntries

(* Hellos, other messages and the timer may cross in the task queue, and   *)
(* delete_aodv_neigh leaves the timer alone (hello.c:312, aodv_neigh.c:77):*)
(* still there is never more than one timer, and a neighbour in the list   *)
(* has one, or its end is queued.                                          *)
OneWatch ==
  /\ Len(timers) <= 1
  /\ neigh => timers # <<>> \/ "expire" \in Members(tasks)

(* A neighbour that is gone for good leaves the list for good.             *)
LossNoticed == <>[](~ near) => <>[](~ neigh)
=============================================================================
