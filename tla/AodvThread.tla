----------------------------- MODULE AodvThread -----------------------------
(***************************************************************************)
(* The thread of the module and those it shares its queue with             *)
(* (aodv_thread.c, and packet_in.c, packet_out.c, timer_queue.c and        *)
(* fbaodv_protocol.c where they call it).  The netfilter hooks and the     *)
(* kernel timer queue tasks and then, outside the lock, wake the thread;   *)
(* the thread looks at kill_thread, falls asleep and, once woken, empties  *)
(* the queue; rmmod asks it to die, waits a second and frees everything.   *)
(***************************************************************************)
EXTENDS TaskQueue

CONSTANTS
  Periodic,  \* tasks whose handler arms their timer again (TASK_HELLO...)
  Packet,    \* tasks made of messages that keep arriving from neighbours
  Local,     \* TASK_GEN_RREQs of flows that applications open, once each
  MaxKicks   \* bound: how many callers are between unlock and kick_aodv

ASSUME SourceAssumption ==
  /\ Periodic \cup Packet \cup Local \subseteq Task
  /\ MaxKicks \in Nat \ {0}

VARIABLES
  pc,     \* where the thread is
  armed,  \* tasks of Periodic that are in the timer queue
  fresh,  \* tasks of Local not yet made
  kicks,  \* callers that have queued a task and not yet called kick_aodv
  kill,   \* kill_thread
  stage   \* how far cleanup_fbaodv_module has come

threadVars == <<pc, armed, fresh, kicks, kill, stage>>
vars == <<queueVars, threadVars>>

Init ==
  /\ QueueInit
  /\ pc = "check" /\ armed = Periodic /\ fresh = Local
  /\ kicks = 0 /\ kill = FALSE /\ stage = "up"

Running == stage # "freed"
-----------------------------------------------------------------------------
(* The callers.                                                            *)

\* timer_queue_signal for a timer that is due.
TimerFires(t) ==
  /\ stage = "up" /\ t \in armed /\ kicks < MaxKicks
  /\ Insert(t, TRUE)
  /\ armed' = armed \ {t} /\ kicks' = kicks + 1
  /\ UNCHANGED <<pc, fresh, kill, stage>>

\* packet_in.  Messages of one kind count once however many wait.
PacketArrives(t, control) ==
  /\ stage = "up" /\ kicks < MaxKicks
  /\ Insert(t, control) \/ (t \in Held /\ UNCHANGED queueVars)
  /\ kicks' = kicks + 1
  /\ UNCHANGED <<pc, armed, fresh, kill, stage>>

\* output_handler for the first packet of a flow.
FlowOpens(t) ==
  /\ stage = "up" /\ t \in fresh /\ kicks < MaxKicks
  /\ InsertAtFront(t)
  /\ fresh' = fresh \ {t} /\ kicks' = kicks + 1
  /\ UNCHANGED <<pc, armed, kill, stage>>

\* wake_up_interruptible: only a thread that is asleep is woken.
Woken == IF pc = "asleep" THEN "awake" ELSE pc

\* kick_aodv.
Kick ==
  /\ Running /\ kicks > 0
  /\ kicks' = kicks - 1 /\ pc' = Woken
  /\ UNCHANGED <<queueVars, armed, fresh, kill, stage>>
-----------------------------------------------------------------------------
(* The thread.                                                             *)

Go(from, to) ==
  /\ Running /\ pc = from /\ pc' = to
  /\ UNCHANGED <<fresh, kicks, kill, stage>>

\* Mutant of Check: the flag is only looked at after waking up.
CheckNothing == Go("check", "falling") /\ UNCHANGED <<queueVars, armed>>

\* The first test of kill_thread.
Check ==
  /\ Go("check", IF kill THEN "dead" ELSE "falling")
  /\ UNCHANGED <<queueVars, armed>>

\* interruptible_sleep_on: from here on a wake-up is heard.
Sleep == Go("falling", "asleep") /\ UNCHANGED <<queueVars, armed>>

\* The second test of kill_thread.
WakeUp ==
  /\ Go("awake", IF kill THEN "dead" ELSE "drain")
  /\ UNCHANGED <<queueVars, armed>>

TakeTask == Go("drain", "handle") /\ Get /\ UNCHANGED armed

QueueEmpty ==
  /\ Go("drain", "check") /\ ctl = <<>> /\ low = <<>>
  /\ UNCHANGED <<queueVars, armed>>

\* The handler and the kfree that follows it.
Handle ==
  /\ Go("handle", "drain") /\ Done
  /\ armed' = armed \cup ({got} \cap Periodic)
-----------------------------------------------------------------------------
(* cleanup_fbaodv_module.                                                  *)

\* nf_unregister_hook and del_timer.
Unhook ==
  /\ stage = "up" /\ stage' = "unhooked"
  /\ UNCHANGED <<queueVars, pc, armed, fresh, kicks, kill>>

\* kill_aodv up to its sleep.
KillAodv ==
  /\ stage = "unhooked" /\ stage' = "killing"
  /\ kill' = TRUE /\ pc' = Woken
  /\ UNCHANGED <<queueVars, armed, fresh, kicks>>

\* A second has passed; nobody else wakes the queue kill_aodv sleeps on.
FreeEverything ==
  /\ stage = "killing" /\ stage' = "freed"
  /\ Clear
  /\ UNCHANGED <<pc, armed, fresh, kicks, kill>>

Thread == Check \/ Sleep \/ WakeUp \/ TakeTask \/ QueueEmpty \/ Handle

Next ==
  \/ \E t \in Task : TimerFires(t) \/ FlowOpens(t)
  \/ \E t \in Packet : \E control \in BOOLEAN : PacketArrives(t, control)
  \/ Kick
  \/ Thread
  \/ Unhook \/ KillAodv \/ FreeEverything

Spec == Init /\ [][Next]_vars

(* The kernel runs the thread and every caller that is half way; timers    *)
(* fire; the hellos of a neighbour, if there is one, keep arriving.        *)
FairSpec ==
  /\ Spec
  /\ WF_vars(Thread) /\ WF_vars(Kick)
  /\ \A t \in Periodic : WF_vars(TimerFires(t))
  /\ \A t \in Packet : WF_vars(\E c \in BOOLEAN : PacketArrives(t, c))
-----------------------------------------------------------------------------
(* Until the module is removed, a control task that waits is handled in    *)
(* the end.  A wake-up that comes while the thread is about to sleep       *)
(* (aodv_thread.c:73-77) is lost, so this takes a later one.               *)
ControlTaken ==
  \A t \in Task : t \in Members(ctl) ~> (got = t \/ stage # "up")

(* After kill_aodv the thread dies unless it was about to sleep: no turn   *)
(* of its loop misses the flag otherwise.                                  *)
KillHeard ==
  (kill /\ pc \notin {"falling", "asleep"}) ~> (pc = "dead" \/ stage = "freed")
=============================================================================
