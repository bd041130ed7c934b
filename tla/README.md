# Verification of fbaodv, a flow-based AODV kernel module

TLA+ models of the fbaodv routing module in `src/`, the TLC configurations that
check them, and TLAPS proofs about them. Paths are relative to the repository;
line numbers refer to the commit in `src/`. `PROJECT.json` maps each definition
to the lines it models and lists the hazards of the code, open ones included.

## 1. The system

fbaodv is a Linux kernel module that routes *flows*, triples (source,
destination, type of service), through a wireless mesh.

| part | files | state | operations | who touches it |
|---|---|---|---|---|
| route discovery | `rreq.c`, `rrep.c` | the id counter `g_local_route->dst_id` | `gen_rreq`, `resend_rreq`, `recv_rreq`, `gen_rrep`, `recv_rrep` | thread |
| route errors | `rerr.c` | none | `gen_rerr`, `recv_rerr` | thread |
| routing table | `aodv_route.c` | sorted list of `aodv_route` | `create`, `rreq_aodv_route`, `rrep_aodv_route`, find by key or id, `flush`, `expire`, `delete` | thread, output hook |
| neighbours | `aodv_neigh.c`, `hello.c`, `aodv_neigh_2h.c` | neighbour lists, a lifetime timer for each neighbour | `recv_hello`, `create`, `delete`, load and SNR updates | thread, input hook (SNR) |
| task queue | `task_queue.c` | two linked lists through the same tasks | `insert_task`, `insert_task_at_front`, `insert_task_from_timer`, `get_task`, `cleanup` | hooks, timer, thread |
| thread | `aodv_thread.c` | `kill_thread`, `aodv_is_dead`, a wait queue | the loop, `kick_aodv`, `kill_aodv` | everyone |
| timers | `timer_queue.c` | sorted list of tasks, one kernel timer | insert, find, delete, signal, update | timer interrupt, thread |
| message input | `packet_in.c` | none | size check, address check, `insert_task` | input hook |
| packet interception | `packet_out.c`, `packet_queue.c` | packets held for a route | hold, reinject, drop | output hook, thread |
| kernel tables | `rpdb.c`, `src_list.c` | rules, routes, one table for each source | add and delete over netlink | thread |
| broken links | `brk_list.c`, `rcvp.c` | links known broken, recovery paths | insert, flush, `gen_/recv_rcvp`, `gen_/recv_rrdp` | thread |
| gateways | `gw_list.c`, `st_rreq.c` | gateways, the one in use | update, lifetimes, ST-RREQ flood | thread |
| metrics | `probe_ett.c`, `route_alg.c` | probe times, rates, loads | ETT probes, WCIM sequences | thread, input hook |
| device | `aodv_dev.c`, `socket.c` | interface, sockets | `local_broadcast`, `send_message` | thread |
| start, stop | `fbaodv_protocol.c` | everything above | `init_`, `cleanup_fbaodv_module` | insmod, rmmod |

**How they interact.** Netfilter hooks and the kernel timer turn packets and
expired timers into tasks, queue them under `task_queue_lock` and, after
releasing it, wake the single thread. The thread takes one task at a time,
control tasks first, and calls its handler. Handlers change the tables of their
node and send messages. Between nodes there are only datagrams: broadcast hellos
and RREQs, and unicast RREPs and RERRs.

**What is hard here**

- Messages are lost, reordered and delayed. Each node judges them only by its
  own table, yet next hops must never close a loop.
- Entries are replaced, expire, are revived by late RREPs, and are removed
  while neighbours still point at them.
- Searches look at `(dst, id)` only. A neighbour entry can carry the same id as
  a route.
- Unsigned metrics are subtracted at `rrep.c:216`.
- Producers and the thread meet in a hand-made pair of linked lists, and in a
  sleep and wake-up that is not atomic.
- Module removal frees what the thread uses.
- The hook asks for a discovery before it holds the packet, retry timers are
  found and deleted by flow, and RREPs come late: a packet may miss all of them.
- What is already in the task queue is not recalled when its cause is gone, for
  example the end of a neighbour that has just been heard.
- Entries, sources, rules and kernel routes describe the same thing in four
  places, and the output hook writes to an entry after it gave up the lock.
- Recovery messages have no sequence number and are confirmed by nobody.
- Probe timers are restarted from several places; delays are taken from two
  time stamps of seconds and microseconds.
- Restarted gateways count from the start again.

**What makes each part correct**

- Discovery and table: no loops, next hops fresher than their users, ids that
  name one route, positive metrics, and a flood that ends in a path.
- Queue: control tasks before others, first in first out in each kind, nothing
  lost or freed twice.
- Thread: every control task is handled, a kick is heard, and removal waits for
  the thread (it does not: section 4).
- Held packets: each is sent or dropped, and costs a bounded number of floods.
- Neighbours: each is watched by one timer, and its loss is noticed.
- Kernel tables: a rule for each source as long as it has entries, and the
  kernel route of every flow in force.
- Broken links: sorted lists, no more RCVPs than breaks, no link left over while
  messages arrive.
- Gateways: floods end and find the least metric, and the default gateway is one
  the node knows.
- ETT: what passes for a delay is the time between two probes, the vector of
  delays is not overrun, a rate ends with the probes, probing never stops.
- Parts not modelled: see section 6 and the open hazards in `PROJECT.json`.

## 2. Modules

| module | models | role |
|---|---|---|
| `RouteDiscovery` | `rreq.c`, `rrep.c`, `rerr.c`, `aodv_route.c`, parts of `aodv_neigh.c`, `aodv_dev.c`, `socket.c` | all nodes, their tables, the radio |
| `RouteDiscoveryProofs` | - | TLAPS proofs about `RouteDiscovery` |
| `TaskQueue` | what users of `task_queue.c` rely on | abstract queue |
| `LinkedTaskQueue` | `task_queue.c` pointer by pointer | implements `TaskQueue` |
| `LinkedTaskQueueProofs` | - | TLAPS proofs about `LinkedTaskQueue`, with the refinement |
| `AodvThread` | `aodv_thread.c` and its callers | extends `TaskQueue` with thread, timers, hooks, rmmod |
| `PacketHold` | `packet_out.c`, `packet_queue.c`, and what `rreq.c`, `rrep.c` and `timer_queue.c` do at the source of a flow | held packets, retries, timers |
| `PacketHoldProofs` | - | TLAPS proofs about `PacketHold` |
| `NeighborLife` | `hello.c`, `aodv_neigh.c`, `timer_queue.c` for one neighbour | the list entry and its timer |
| `NeighborLifeProofs` | - | TLAPS proofs about `NeighborLife` |
| `KernelRoutes` | `aodv_route.c`, `src_list.c`, `rpdb.c`, the route test of `packet_out.c`, the table part of `cleanup_fbaodv_module` | one node's entries, sources, rules and kernel routes |
| `KernelRoutesProofs` | - | TLAPS proofs about `KernelRoutes` |
| `Recovery` | `brk_list.c`, `rcvp.c`, and what `rerr.c`, `hello.c`, `rrep.c` do with them | broken links and recovery messages of several nodes |
| `RecoveryProofs` | - | TLAPS proofs about `Recovery` |
| `Gateways` | `gw_list.c`, `st_rreq.c` | the flood of gateways and the choice of one |
| `GatewaysProofs` | - | TLAPS proofs about `Gateways` |
| `ProbeEtt` | `probe_ett.c`, with `timer_queue.c` for its two timers | probes between a node and one neighbour |
| `ProbeEttProofs` | - | TLAPS proofs about `ProbeEtt` |
| `MCRouteDiscovery`, `MCLinkedTaskQueue`, `MCKernelRoutes`, `MCRecovery`, `MCGateways`, `MCProbeEtt` | - | topologies, flows, symmetry for TLC |

A definition called "Mutant of X" in a comment is a plausible mistake in X. Put in
place of X, it makes TLC report the property it is paired with in
`PROJECT.json`. No specification uses it.

### RouteDiscovery

Each node has one thread, so an action is one whole task handler: the tests, the
tables it changes and the messages it sends.

| code | model |
|---|---|
| `g_local_route->dst_id` | `seq[n]` |
| `aodv_route` with key (src, dst, tos) | `rt[n][k]`; `NoEntry` if absent |
| `aodv_neigh` list | `neigh[n]` |
| entries `route_aodv_neigh` makes | `nroute[n]`, pairs (neighbour, id) |
| `TASK_SEND_RREP` timer, then task | `timer`, `task` |
| messages in the air or in a task queue | `rreq`, `rrep`, `rerr` |
| `gen_rreq`, `resend_rreq` | `GenRreq` |
| `recv_rreq` | `DropRreq`, `AnswerRreq`, `ForwardRreq` |
| `gen_rrep`, `recv_rrep` | `GenRrep`; `DropRrep`, `FinishRrep`, `ForwardRrep` |
| `delete_aodv_neigh` and `gen_rerr` | `DeleteNeigh` |
| `recv_rerr`, `recv_hello` (unknown node) | `RecvRerr`, `NewNeigh` |
| `flush_aodv_route_table` | `Flush` |

What is abstracted, and why it is sound:

- Shipped configuration: HOPS metric, no gateway, no DTN registration. Flows
  have a type of service other than `NO_TOS`, which is the key of neighbour
  entries.
- `REPLIED` and `ACTIVE` are one state, `VALID`. They differ only for the load
  metric and the kernel table.
- `find_aodv_route_by_id` may return the neighbour entry when it carries the
  same id. Which one comes first in the list depends on insertion order, so
  `ById` yields both and the action chooses.
- Messages are lost when sent. Equal messages in flight are one. Two queued
  `TASK_SEND_RREP` of a flow are one.
- A link in `Flaky` may lose its neighbour at any moment, which allows more than
  the expiry of a neighbour's lifetime does.
- Failures of `insert_src_list_entry` and of netlink calls are left out.
- Metrics are integers. `MetricPositive` shows that the unsigned subtraction
  never wraps, so nothing is lost by this.
- `FloodOver` is an **assumption about time**: an entry expires or is removed at
  least `DELETE_PERIOD` (3 s) after it was last written, and a flood lives at
  most `NET_TRAVERSAL_TIME` (800 ms). By then no message that could write the
  same or an older entry is under way. Loop freedom rests on it: the mutant
  `FlushEarly` drops it and TLC finds `IndInv` violated.
- `MaxSeq` stops `GenRreq` only, so it bounds the number of floods.

### TaskQueue and LinkedTaskQueue

Every operation of `task_queue.c` runs under `task_queue_lock` and is one action.
`LinkedTaskQueue` keeps each pointer: `next`, `prev`, `prev_control`, the ends
of both lists, and the pointers `get_task` leaves dangling. Addresses come from a
finite pool and are reused at once, which is what makes stale pointers dangerous.
`Met` is the sequence of the tasks of a set that a walk along a field meets;
`Walk` meets all. `Abstract` maps what a walk from `sub_end` along `prev_control`
meets to `ctl`, and the tasks that are no control tasks of the walk from
`task_end` along `prev` to `low`.
`insert_task_at_front` has one caller, which passes a `TASK_GEN_RREQ`, a control
task. `Cleanup` may run at any moment, whatever the thread is doing,
because its caller does not make sure that the thread has ended. `live` are the
tasks not freed, `idle` says that the thread is outside its inner loop.

### AodvThread

The program counter of the thread stops at every point where another party can
run: before the first test (`check`), between the test and the sleep
(`falling`), `asleep`, `awake`, and around `get_task` and the handler. `kicks`
counts callers that have queued a task and not yet called `kick_aodv`. `stage`
is the progress of `cleanup_fbaodv_module`. The one-second wait of `kill_aodv`
has no clock: `FreeEverything` may come at any moment after `KillAodv`, because
nothing bounds how long a handler runs or a sleep lasts.

### PacketHold

The source of one flow. `RouteDiscovery` leaves open when the source sends a
RREQ again; here the timers decide, and the rest of the mesh is reduced to the
RREPs it returns.

| code | model |
|---|---|
| `aodv_route` of the flow | `route` (state and id) |
| a packet, from the hook to its verdict | `fate[p]`; `held` is `q->list` |
| control tasks of the flow | `tasks` |
| `TASK_RESEND_RREQ` timers | `timers`, in the order of the timer list |
| `output_handler` | `Accept` with a route; `Ask`, then `Enqueue`, without |
| `gen_rreq`, `resend_rreq`, `recv_rrep` | `GenRreq`, `ResendRreq`, `RecvRrep` |
| `ipq_send_ip`, `ipq_drop_ip` | `Release` |
| `ipq_destroy_queue` | `Destroy` |

- Every search here is by the key of the flow, so other flows do not matter,
  apart from the length of the queue (`MaxLen`).
- Time is counted in `NET_TRAVERSAL_TIME`. `2 ^ n` in `insert_timer_directional`
  is C's exclusive or: with two retries the waits are 2, 3 and 0 units.
- `gen_rreq` does not ask whether a discovery is running; every packet without a
  route starts one, with a timer of its own.
- `SlowHook` lets the thread run between the two halves of the hook. On the
  scale of timers a hook takes no time, so `Tick` waits for it.
- The destination may answer one RREQ twice, when a shorter copy of the flood
  turns up after its wait. `MaxId` bounds the RREPs.
- `Remove` needs the entry to be older than any RREP under way that it would
  refuse, for the reason given with `FloodOver`.
- `NeighIds` are ids of neighbour entries of the destination.
  `find_aodv_route_by_id` may return such an entry, and `recv_rrep` then sends
  the packets of another type of service.
- `ipq_dev_drop` is left out: the notifier that would call it is never
  registered.

### NeighborLife

One neighbour, which is in range or not. Time is counted in `HELLO_INTERVAL`; a
neighbour in range says hello once in each, and the hello may be lost. A timer
that is due fires before the next interval ends, and after the hello of its
interval, because it runs 100 ms longer than whole intervals and the jitter of a
hello is 40 ms at most. `recv_hello`, `recv_rreq` and `recv_rrep` put the timer
off, and the last two ignore a node that is not in the list. `DeleteNeigh` is the
whole of `delete_aodv_neigh` for this neighbour: the entries `route_aodv_neigh`
made stay, and so does a timer armed since. `entries` counts up to `MaxEntries`.

### KernelRoutes

The tables of one node. What the mesh decides, `RouteDiscovery` says; here any
message of `Offer` may arrive at any time, and an entry may be past its lifetime
at any time, so every order of creation, replacement, reply, expiry and removal
occurs.

| code | model |
|---|---|
| `aodv_route` list | `rt[k]`, with `INVALID`, `ACTIVE` and `REPLIED` apart; `copy` tells entries of one flow apart |
| `src_list_entry` | `src[s]`: table number and `num_routes` |
| `ip rule` entries, routes in the kernel | `rules`, `kernel` |
| `rreq_aodv_route`, `insert_src_list_entry` | `RecvRreq` (`Create`, `Replace`, `AddSource`) |
| `rrep_aodv_route`, `expire_aodv_route` | `RecvRrep`, `Expire` |
| `flush_aodv_route_table`, `delete_src_list_entry` | `Flush` (`DropSource`) |
| a route made for a DTN hello | `DtnRoute` |
| `route_aodv_neigh` | `NewNeigh` |
| `output_handler` after `find_aodv_route` | `HookFinds`, `HookTests`, `HookReads`, `HookWrites` |
| `cleanup_neigh_routes`, `cleanup_aodv_route_table`, `flush_src_list` | `CleanupNeighRoutes`, `CleanupRoute`, `FlushSrcList` (`CleanupSelf`) |

- `find_aodv_route` returns a pointer and gives up its lock. Each later access of
  the hook is a step of its own. Once the entry is freed, a read yields the state
  of any entry, and the write hits none or any entry.
- `RTM_DELROUTE` as `rpdb_route` builds it names neither table nor type of
  service: the kernel takes a route of that destination, gateway and metric,
  where a null gateway and metric 0 match any. `DelRoute` says so.
- The metric is HOPS, so `path_metric` is the number of hops.
- A DTN hello makes an entry without a look at the table (`rrep.c:173`, 325), so
  a flow may have several; `insert_aodv_route` puts the newest in front, which is
  the one `find_aodv_route` finds (`Found`). `recv_rrep` may return before it
  comes to `rrep_aodv_route` and leave the new entry `INVALID`.
- `cleanup_aodv_route_table` looks for the self route in the list it has just
  freed (`aodv_route.c:163`): `CleanupSelf` deletes its kernel route or not. When
  the search finds nothing the code goes through a null pointer, and removal
  stops where the model may stop too.
- Netlink calls that fail are left out. Neighbour entries are never flushed, so
  only their kernel routes are kept.
- `bare` remembers that an entry was ever left out of `num_routes`: it has no
  table, or came from a DTN hello. From then on counts may be too small.

### Recovery

Several nodes, each with its `brk_list` and its message queue. A flow has a
fixed `Path`; its routes break and are found again along it.

| code | model |
|---|---|
| a route that is not `INVALID` | `valid[n]` |
| `brk_list` | `brk[n]`, a sequence |
| `gen_rerr`, `recv_rerr` | `GenRerr`, `RecvRerr` (`NoteBreaks`) |
| `insert_brk_link`, `flush_brk_list`, `remove_brk_link` | `InsertLink`, `FlushBrkList`, `Without` |
| `recv_rrep` on the way and at the source, with `gen_rcvp` | `Found`, `RecvRrep` (`GenRcvp`) |
| `recv_hello` of a new neighbour, with `gen_rrdp` | `RecvHello` |
| `recv_rcvp`, `recv_rrdp` | `RecvRcvp`, `RecvRrdp` |

- `FlushBrkList` is the loop as its braces stand: an expired link that was
  `ACTIVE` is marked and the one behind it removed; at the end of the list it
  follows a null pointer, and the node is `down`. The links the loop looks at are
  the least set of places that holds the first and is closed under the loop's
  step. Marking renews the lifetime (`expire_brk_link`), so a marked link is not
  due again when the same handler flushes again.
- `NoteAll` is the loop of `gen_rerr` over the routes, `Note` its body for one of
  them; `recv_rerr` does the same for a single route. `Picked` takes the members
  of a list at given places, in their order.
- Paths are free of loops, which `RouteDiscovery` shows of next hops.
- `RecvRrdp` frees its message twice at the source, which may crash the node or
  pass unnoticed.
- What one node sends another arrives in order or is lost. The RREQs of
  `recv_hello` are discoveries like others; their answers come at any time.
- No DTN layer is registered and there is no gateway.
- `heard` marks links noted because of a RERR; `credit`, `clean` count what the
  properties speak about. The code has none of the three.

### Gateways

| code | model |
|---|---|
| `dst_id` of a gateway's own route | `id[g]` |
| `gw_list`, `g_default_gw` | `list[n]`, `default[n]` |
| ST-RREQs that wait for the thread | `tasks[n]` |
| `gen_st_rreq`, `recv_rreq_st` (with `update_gw`) | `GenStRreq`, `RecvRreqSt` |
| `update_gw_lifetimes` | `UpdateGwLifetimes` |
| module restart on a gateway | `Restart` |

- `Least[g][n]` is a constant that `IsLeast` characterises: 0 at the gateway,
  attained over some neighbour elsewhere, and bounded over each. `LeastExists`
  proves that a finite network has one, so the assumption can always be met.
- `Cost` is at least 1: HOPS counts each hop, and ETT adds a time that is never
  less than that of a probe at the highest rate.
- Two **assumptions about time**. `Quiet`: a flood is over well within
  `ST_INTERVAL` (10 s), so no second flood of a gateway starts while one is under
  way. `MayBeDue`: an entry lives 21 s, so one that a flood has renewed does not
  expire before that flood is over; one that the flood has not renewed may.
- `update_gw_lifetimes` reads `next` of an entry it has just freed: the pointer
  may still be right, end the walk, or lead astray. A walk led astray chooses
  `Stray`, which stands for any address; a kernel that crashes instead is a node
  that does nothing from then on, and nothing in the model forces a node to act.
- `local_broadcast` sends nothing once the TTL is used up.
- A broadcast may miss any neighbour; that covers neighbours forgotten and those
  without a rate. `hurt` remembers which floods were spoilt.

### ProbeEtt

A node and one neighbour, which is the environment: it sends pairs of probes
that are lost at will and report any of `Delay`.

| code | model |
|---|---|
| `ett.last_count`, `meas_delay` | `small`, `meas` |
| `count_rcv`, `ett_window`, `recv_delays`, `reset` | `ett` |
| `send_rate` | `rate` |
| `TASK_SEND_ETT`, `TASK_ETT_CLEANUP` | `send`, `watch`: timers and queued tasks |
| `recv_sprobe`, `recv_lprobe`, `send_probe`, `reset_ett` | `RecvSprobe`, `RecvLprobe`, `SendProbe`, `Cleanup` |
| `delay_vector_add`, `find_delay_range`, `compute_delay`, `compute_rate` | `DelayVectorAdd`, `InRange`, `ComputeDelay`, `ComputeRate` |

- Probes carry the number the neighbour gave them and the second and microsecond
  they arrived at (`packet_in.c:91`, 100). The neighbour counts the probes to all
  its neighbours with one `count_send`, so any number may be next; a small probe
  may be paired with the large one of a later pair.
- `ResUsec` is the time `recv_lprobe` takes for the pair, from the seconds test
  on, unsigned, and with the seconds where microseconds are meant (line 372).
- The delays that the neighbour reports are any of `Delay`, or the default. What
  this node measures goes out in its own probes only, so it is not fed back.
- `reset_ett` inserts timers without asking whether one is there. `Many`, two
  timers, stands for two or more.

## 3. Runs

| run | instance | properties | what it shows |
|---|---|---|---|
| `rd_floods` | 4 nodes, kite with links that work one way, two floods, losses, ageing | `LoopFree`, `NextHopFresher`, `MetricPositive`, `NoOlderRoute` | copies on a long and a short path that share a link are lost and reordered, and two floods overlap: no loop, entries fresher downstream, positive metrics, no way back to an older route |
| `rd_churn` | line of 3, the middle node loses and finds both neighbours, two flows to its end with one flood each, RERRs, losses, ageing | `TypeOK`, `IdNamesRoute`, `IndInv` | nothing is sent to the null next hop of a neighbour entry, ids stay unambiguous, and the inductive invariant survives loss and return of neighbours |
| `rd_ends` | diamond of 4, no losses, fairness | `DiscoveryEnds` | a RREQ under way ends in a complete path |
| `tq_links` | 4 addresses, symmetric | `WellLinked`, `ImplementsTaskQueue`, `CleanupFreesQueue` | the pointers implement the queue; cleanup frees every waiting task whenever it runs, and nothing else, nor twice, when the thread is outside its loop |
| `thread_fair` | two timers, a neighbour, one new flow, rmmod | `ControlTaken`, `KillHeard` | control tasks are handled while wake-ups keep coming; a turn of the loop misses the kill flag only at its sleep |
| `hold_retries` | 3 packets, room for 2, 2 retries, 2 RREPs | `TypeOK`, `FloodsBounded`, `GivesUp` | RREQs stay bounded however discoveries overlap; packets nobody answers are dropped |
| `neigh_life` | lifetime 4, up to 4 queued messages | `TypeOK`, `OneWatch`, `LossNoticed` | one timer for each listed neighbour, or its end is queued; a neighbour gone for good leaves the list |
| `kernel_routes` | two sources and this node, four flows, of which this node's has DTN hellos and up to two entries and three share a destination, two tables, hook, removal | `TypeOK`, `SrcCounted`, `RulesFollowList`, `RepliedInstalled`, `LeftBehind` | counts and rules stay right however hook, expiry and removal cross; tables run out; kernel routes are lost or left only as stated |
| `recovery` | 3 nodes, 3 flows that share nodes, up to 2 open links, losses, crashes | `RcvpPaid`, `ListSorted`, `HeardBacked` | RCVPs do not multiply, lists stay sorted though links go from their middle, and without losses no link is left over |
| `gateways` | 2 gateways, 3 nodes, 2 + 1 floods, losses, expiry, a restart | `NoneComesBack`, `FloodFindsLeast`, `DefaultListed` | floods end, find the least metric, and the default gateway is known unless a walk went astray |
| `ett` | one neighbour, window 3 to 4, two probe numbers, arrival times in two seconds, fair threads, deadlock checked | `VectorFits`, `DelayMeasured`, `RateGivenUp`, `ProbesGoOn` | lost and mixed probes, resets and timers cross: no overrun, no wrong delay passes for one, a rate ends with the probes, probing goes on |
| `hold_fed_back` | 2 packets, no neighbour entries, fast hook | `AllFedBack` (violated) | a packet that is held for ever |

**Bounds and why they suffice.**

- Four nodes give two paths of different length with a shared link. That is the
  smallest mesh in which a late, longer copy can try to replace a shorter one
  behind a forwarder.
- `NetDiameter` is the longest path of the instance, so the TTL test bites
  exactly at its boundary.
- A counter starts at 1, so `MaxSeq = 2` is one flood and `MaxSeq = 3` is two,
  enough for an old answer to meet a newer request. RREPs raise the counter of
  the destination beyond `MaxSeq`.
- In `rd_floods` the source hears none of its neighbours, so that two floods with
  losses and ageing stay within reach: RREPs set out and change entries on their
  way but never arrive. Their arrival, RERRs and the loss of neighbours are in
  `rd_churn` and `rd_ends`, and the proofs cover every mesh.
- Four tasks reach every branch of `get_task` (only task, newest, oldest and
  middle, each with and without others of the same kind) with one task in the
  hands of the thread.
- `MaxKicks = 2` lets two callers be between unlock and kick. A flow opens once,
  so front insertions are finite.
- Three packets and room for two: discoveries overlap, and the third packet finds
  the queue full. Two retries (`RREQ_RETRIES`) use all the waits. With two RREPs
  one can overtake the other.
- `hold_fed_back` takes the weakest instance in which the packet is stuck: no
  neighbour entry and no race with the hook are needed for it.
- A lifetime of 4 is `1 + ALLOWED_HELLO_LOSS`, the value of the code. Four queued
  messages let hellos and RREQs stand before and behind the end of the
  neighbour.

- `kernel_routes`: two tables and three sources make tables run out. The flow of
  this node has two places for entries, which is what an older and a newer entry
  of one flow need; two flows of other nodes share its destination, so one can
  delete the kernel route of another. The flow to a neighbour shares its kernel
  route with the neighbour entry, has its destination to itself, and its three
  offers (shorter, newer) reach every branch of a replacement.
- `recovery`: the longest flow has a node on the way, so a RCVP is passed on; two
  flows of one source give lists of two links, in which flushing one removes the
  other. `MaxLinks` and `MaxTasks` stop new breaks and hellos, never the handling
  of a message.
- `gateways`: one gateway hears the other badly and a third node well, so the
  worse copy comes first; the other hears it only through that node. Two floods and a restart let old numbers meet new.
- `ett`: two numbers make pairs that match and pairs that do not. A probe may come
  at each of two times, whatever came before, so that `ResUsec` sees the same
  second, the next one, and a clock that went back. A second of 2000 microseconds
  and unsigned numbers below 20000 keep the proportions that `EttAssumption` asks
  for. A window of 4 is full with no three delays within `EttRange`, or with
  three; it is at its bound from the start, and grows to it from 3.

What lies beyond these bounds is covered by the proofs of section 5, for every
safety property that a passing run checks. The bounds matter for liveness.

Deadlock is checked in `ett` only, which never stops. Elsewhere, with bounded
counters, a mesh that has nothing left to send may stop, and so does the queue
after cleanup and the module after removal.

**Fairness.**

- `RouteDiscovery!FairSpec`: the threads keep handling queued RREQs and RREPs,
  timers fire, and the resulting tasks are run. There is no fairness on losses,
  neighbours, ageing or new floods.
- `AodvThread!FairSpec`: weak fairness for the thread and for a caller half way
  to its kick, because the scheduler runs both. Also for each periodic timer, and
  for the arrival of messages, because a neighbour sends a hello each second.
- Without those later wake-ups `ControlTaken` does not hold: the kick of a task
  can be lost (section 4).
- `PacketHold!FairSpec`: the thread runs, time passes, timers fire, and a hook
  half way to the queue goes on. No packet, RREP or loss of a route is promised.
  `GivesUp` is about the case that no RREP comes.
- `NeighborLife!FairSpec`: the thread runs, time passes, timers fire. Movement,
  hellos and messages are free; `LossNoticed` assumes only that the neighbour
  stays away from some moment on.
- `ProbeEtt!Spec`: both timers fire, the thread takes probes and handles both
  tasks. The neighbour promises nothing. Nothing is assumed about which probe
  handler runs, only that the queue of probes empties (`WF_inbox`).
- `KernelRoutes`, `Recovery` and `Gateways` state safety only.
- Only control tasks are promised a turn. `get_task` lets the others starve by
  design, and `insert_task_at_front` is last in first out.

## 4. Findings

One finding is a run (`hold_fed_back`):

- **A late RREP cancels the wrong retries** (`rrep.c:87`). Two RREPs that answer
  one RREQ arrive in the wrong order. The newer one makes the route; the route
  breaks; a new packet starts a discovery and its timer. Now the older RREP is
  refused, but `recv_rrep` deletes the timer all the same. If the RREQ of that
  discovery brings no RREP either, its packet stays in the queue until another
  packet of the flow comes or the module is removed. `packet_queue.c:355` says
  that all packets "must be fed back via nf_reinject()".

The following are read off the code. The models contain them as behaviour, not
as something repaired, and their properties hold in spite of them or name them
as exceptions.

- **Lost wake-up** (`aodv_thread.c:77`). The thread tests `kill_thread` and then
  sleeps, without looking at the queue in between. A task queued and kicked in
  that window waits for a later wake-up.
- **Removal does not wait** (`aodv_thread.c:45`). `kill_aodv` is to "wait for the
  thread to set flag saying it is dead" (line 40), but it sleeps for a second on a
  private queue and never reads `aodv_is_dead`; cleanup then frees queues and
  tables. A thread that was about to sleep sleeps on; a busy one uses them.
- **Cleanup frees what the thread holds** (`task_queue.c:50`). `get_task` leaves
  `next` of the oldest waiting task pointing at the one it took
  (`task_queue.c:277`), and `cleanup_task_queue` follows it: the task that the
  thread handles is freed, and freed again by the thread, or a task freed before
  is. `CleanupFreesQueue` promises exactness only when the thread has left its
  loop.
- **A pair that spans a second is measured wrongly** (`probe_ett.c:372`). Of the
  small probe "the arrival time is saved" (line 321), but the delay of a "large
  packet received in a new second-value" (line 371) is computed from the saved
  seconds in place of the saved microseconds. `DelayMeasured` shows that the
  result is too large to pass for a delay, unless the clock of the node started
  less than two million seconds ago.
- **The entry of a lost neighbour stays** (`rerr.c:42`). `gen_rerr` passes over
  neighbour entries, so the one that leads to the neighbour itself stays
  `ACTIVE`, and each return of the neighbour adds another.
- **The hook may use a freed entry** (`packet_out.c:59`): it keeps the pointer
  after the lock is released. `RepliedInstalled` and `SrcCounted` survive this,
  because the hook writes a state only and never makes an entry.
- **A kernel route two flows share** (`aodv_route.c:205`). `RTM_DELROUTE` names
  neither table nor type of service, so flushing one flow may take the route of
  another. `RepliedInstalled` is stated for flows that have their destination
  to themselves.
- **Entries of one flow pile up** (`rrep.c:173`, 325). Each DTN hello adds one,
  with metric 0, which matches any: when an older entry is flushed, the kernel
  route of the newer one goes with it. `RepliedInstalled` excludes these flows.
- **Removal searches the list it has freed** (`aodv_route.c:163`), and reads the
  source of what it found before the test for null.
- **A kernel route left behind** (`aodv_route.c:408`): an `INVALID` entry that is
  replaced does not delete its route. `LeftBehind` shows that nothing else leaves
  one while counts are right.
- **`flush_brk_list` removes the wrong link** (`brk_list.c:311`): the one behind
  an expired link, or it follows a null pointer. The lists stay sorted.
- **`recv_rrdp` frees twice** (`rcvp.c:315`, and `aodv_thread.c:134`).
- **`update_gw_lifetimes` reads a freed entry** (`gw_list.c:154`), and may choose
  an address that is no gateway (`Stray`).
- **A restarted gateway is refused** (`gw_list.c:61`): it counts from the start,
  so its ST-RREQs look old until its entry times out.
- **`compute_rate` divides by the low 16 bits of the delay** (`probe_ett.c:54`),
  which may be small, or 0, for a long one.
- **`route_aodv_neigh` frees a linked entry** when the netlink call fails
  (`aodv_neigh.c:296`). No model contains it: netlink failures are left out.

## 5. Proofs

`RouteDiscoveryProofs` proves, for every set of nodes, links, flows, TTL, bound,
and with or without loss and ageing:

| theorem | statement |
|---|---|
| `TypeCorrect` | `Spec => []TypeOK` |
| `Inductive` | `Spec => []IndInv` |
| `IdsNameRoutes` | `Spec => []IdNamesRoute` |
| `Fresh` | `Spec => []NextHopFresher` |
| `Positive` | `Spec => []MetricPositive` |
| `NoLoops` | `Spec => []LoopFree` |
| `RoutesRenew` | `Spec => NoOlderRoute` (`[][RoutesRenewed]_vars`) |
| `IdsNeverGoBack` | for a node, a key and an id: `Spec => []((Present /\ rt[n][k].id >= id) => [](Present => rt[n][k].id >= id))` |

**Assumptions.** The named `ASSUME`s of `RouteDiscovery`: flows join different
nodes, links join nodes, `NetDiameter` is positive, the null values are no node
and no key. `NoLoops` does not need `Node` to be finite.

**Argument.** `NextHopFresher` is not inductive: it says nothing of messages,
nor of an entry whose next hop has lost its own. `IndInv` adds:

- `SoundEntry`: an entry is never at its own destination, its next hop is never
  the far end of the route, its metric is at least the shortest possible, and
  the next hop is the destination, or has a fresher entry, or has none and the
  flood of that id is over.
- `SoundRreq`: the sender of a RREQ is the source or has a fresher entry than
  the one the RREQ would install.
- `SoundRrep`: the same for a RREP and each metric its receiver may compute:
  the whole, less 1 (a neighbour entry was found), or less the metric of its
  own reverse entry. If that entry has moved on to a newer id, the search by id
  fails. If it is gone, the flood of the RREQ is over and cannot bring it back.
- `IdNamesRoute`: ids in entries and messages were issued by the destination,
  and one id of a destination stands for one key, so the search by id finds
  either the key of the message or a neighbour entry.

Preservation is split by action, through three facts about a step. `RouteStep`:
an entry is kept, or removed after its flood, or written by a message under way
whose sender offers it. `Grows`: an entry is only replaced by one as fresh or
fresher, so what a sender offered it still offers. `Hushed`: a flood that is over
stays over. `LoopFree` then follows without induction on
paths: in a set of nodes whose next hops stay inside it, take the entries of
greatest id (ids are bounded by the destination's counter) and among them one of
least metric (a natural number, well founded). Its next hop has a fresher entry,
which contradicts the choice.

Each action's lemma concludes `Safely`: the invariant afterwards, and what the
step did to entries (`RouteStep`) and to ids under way (`MessageStep`). The
action property `NoOlderRoute` follows from `Safely`. `IdsNeverGoBack` is about
whole behaviours: a node that removed an entry has nothing left to compare a
late message with (`aodv_route.c:175`), so the proof carries `Knew(n, k, id)`
along, which says of a removed entry that the floods of all older ids are over;
`RoutesRenewed` and the growth of sequence numbers (`SeqGrows`) keep it true.
It rests on what the guard of `Flush` states: an entry outlives its flood
(`DELETE_PERIOD` against `NET_TRAVERSAL_TIME`).

`NeighborLifeProofs` proves `NeighborTypes` (`Spec => []TypeOK`) and
`NeighborWatched` (`Spec => []OneWatch`) for every lifetime and every bound, from
`LifeAssumption`. The invariant is their conjunction: that the one timer there
may be is not overdue when time passes keeps it within `0 .. Life`, and that
there is only one is what makes `PutOff`, which deletes the first it finds,
leave exactly one. The lemmas say what `Take`, `Append` and `PutOff` do to the
members of a sequence.

`KernelRoutesProofs` proves, for every finite set of flows, every set of offers
and neighbours and every number of tables, from `KernelAssumption`:

| theorem | statement |
|---|---|
| `KernelTypes` | `Spec => []TypeOK` |
| `KernelRules` | `Spec => []RulesFollowList` |
| `SourcesCounted` | `Spec => []SrcCounted` |
| `KernelInstalled` | `Spec => []RepliedInstalled` |

- `TypeOK` is inductive once each variable's part is stated as a lemma about the
  helpers. That `num_routes` stays a natural number rests on the tests of
  `Flush`: a count that reaches 0 goes with its source, or is set to 1 again.
- `RulesFollowList` is inductive with `TypeOK`. The table of a new source is
  free because the free tables are a set of naturals with a least member.
- `SrcCounted` alone is not inductive: the write of the hook could make an entry
  out of nothing. `CountInv` adds `HookSound`: a hook whose entry was not freed
  points at one in the table, so its write changes a state and no count. Each
  creation and removal moves one flow into or out of `EntriesOf`, whose
  cardinality follows from the theorems about finite sets.
- `RepliedInstalled` is inductive with `TypeOK` since `DelRoute` takes only
  routes to the destination it was asked about, and the flows it speaks of share
  theirs with none and have no DTN route: such a flow never has a second entry,
  as `create_aodv_route` is called for it only when it has none (`SingleEntry`).
- `LeftBehind` is an action property. Its step needs `WholeEntries`: while counts
  are right, every entry names a gateway and a metric and its source is listed,
  so `DelRoute` with the entry's own values takes the entry's route and no other.
  The only step that drops an entry without that call is the replacement of an
  `INVALID` one.

`LinkedTaskQueueProofs` proves, for every finite set of tasks, from
`PoolAssumption`:

| theorem | statement |
|---|---|
| `QueueLinked` | `Spec => []WellLinked` |
| `CleanupFreesAll` | `Spec => CleanupFreesQueue` |
| `QueueImplements` | `Spec => ImplementsTaskQueue`, the refinement of `TaskQueue` |

The invariant says that there *are* three sequences, all waiting tasks by age,
the control tasks by age, and the others, which the pointers spell:
`prev` from `task_end` and `next` backwards for the first, `prev_control` from
`sub_end` for the second, and the other two are what is left of the first. It
says nothing of the pointers outside, so dangling ones do no harm to these.
`CleanupFreesAll`: the walk of `cleanup_task_queue` meets all of the first
sequence, whatever it meets behind it, and nothing behind it when the thread has
left its loop, as `get_task` then found the list empty and nothing dangles yet. `MetIs` shows
that the walks of the model return just these sequences. Each operation then
becomes a statement about sequences (a member at the end, at the front, or
removed from the middle), and each refines the operation of `TaskQueue`.

`PacketHoldProofs` proves, for every number of packets, retries, RREPs and length
of the queue, from `HoldAssumption`:

| theorem | statement |
|---|---|
| `HoldTypes` | `Spec => []TypeOK` |
| `HoldFloods` | `Spec => []FloodsBounded` |

- `TypeOK` says that no timer is overdue when time passes, so the invariant adds
  that the timers are in the order of their times, and that a queued resend is
  within the retries.
- `FloodsBounded` has nothing to count with: the code does not know which packet
  a retry is for. The invariant keeps a ledger. Each place where a flood is yet
  to come (a task or a timer) belongs to a different packet that asked, each
  packet owns `Retries + 1` tokens, a RREQ spends one of the packet that owns its
  place, and a place has as many unspent tokens as it may still cost. Timers
  deleted by a RREP, of whatever discovery, only give places up.

`RecoveryProofs` proves, for every finite set of nodes and flows and all
loop-free paths, from `RecoveryAssumption`:

| theorem | statement |
|---|---|
| `ListsSorted` | `Spec => []ListSorted` |
| `RcvpsPaid` | `Spec => []RcvpPaid` |
| `HeardsBacked` | `Spec => []HeardBacked` |

- The lists are sorted because `flush_brk_list`, `gen_rcvp` and `recv_rcvp` only
  take links away, whichever they are (`PickSorted`), and `insert_brk_link` puts
  a new one where it belongs (`InsertIs`). Only in sorted lists do the searches
  find every link there is (`PlacesTo`, `PlacesOf`).
- `RcvpPaid` is inductive: no step lets a list grow, or sends a RCVP, by more
  than `credit` allows for (`ListStep`).
- `HeardBacked` is not: a link may be noted for a RERR long after that RERR was
  sent. `AllBacked` asks the same of RERRs on their way, and counts only RCVPs
  *behind* the RERR in the queue, as one in front of it would be handled before
  the link is there. Messages keep their order, so what lies behind stays behind
  (`BackingKept`). Whoever gives up a link tells the hop in front in the same
  handler (`Speaks`), and nobody sends a RERR without having the link (`Tells`).

`GatewaysProofs` proves, for every finite network and all costs, from
`GatewayAssumption` and `LeastAssumption`:

| theorem | statement |
|---|---|
| `GatewayListed` | `Spec => []DefaultListed` |
| `FloodsEnd` | `Spec => []NoneComesBack` |
| `FloodsFindLeast` | `Spec => []FloodFindsLeast` |
| `LeastExists` | a least metric exists, as `LeastAssumption` asks |

- `DefaultListed` rests on what the walk of `update_gw_lifetimes` leaves: the
  gateway chosen is one that was not removed, unless the walk went astray.
- `FloodsEnd`: the hops of a copy are fewer than the nodes that have taken the
  flood, its gateway included. A node that has taken it never forgets it while
  the flood is under way (`HadStays`, from `MayBeDue`), and refuses all but better
  copies. Only one flood of a gateway is under way (`OneFlood`, from `Quiet`).
- `FloodsFindLeast`: `Flood` says of a flood that lost nothing: whatever metric a
  node has taken, each node in its reach has one as good or that copy on its way
  (`Spread`); and when no copy is left, each entry holds the least metric
  (`Settled`). The second follows from the first by taking a node nearest to the
  gateway that has not got its least metric: the one before it on a least path
  has. That no metric is less than the least (`Lower`) holds of every message and
  entry. Once settled, entries may time out, and stay settled.

`ProbeEttProofs` proves, for every window and every set of delays, probe numbers
and arrival times, from `EttAssumption`, which only says of which kind the
constants are, and how the default, the second and the width of a number compare:

| theorem | statement |
|---|---|
| `VectorNeverOverrun` | `Spec => []VectorFits` |
| `DelaysTrue` | `Spec => DelayMeasured` |

- `EttOK`: `count_rcv` is below `ett_window`, the window is at most the length of
  the vector, and every place past the reports holds the default. The count rises
  by one, and a window that is full grows or gives way to a new round at once, so
  the test by `=` never misses.
- `DelaysTrue`: `Stamped` keeps every stamp below a second and below the width of
  an unsigned number. `ResUsecIsElapsed` then goes through the cases of the
  seconds test: a negative difference wraps around to more than the default, and
  so does what line 372 computes once the seconds exceed the microseconds of two
  seconds.

**Only model-checked.** `DiscoveryEnds`, `ControlTaken`, `KillHeard`, `GivesUp`,
`LossNoticed`, `RateGivenUp` and `ProbesGoOn`, because liveness under fairness is
beyond the prover. Every invariant of a passing run is proved, and so are all
action properties and the refinement. What `compute_rate` and `compute_delay`
yield is not stated as a property. The finding is a counterexample and needs no
proof.

## 6. Not modelled

- The WCIM metric: loads, rates of two hop neighbours, sequences
  (`route_alg.c`, `aodv_neigh_2h.c`, parts of `hello.c` and `aodv_route.c`). A
  load is a sum over the tables of all neighbours with 32 slots each; nothing
  else depends on it but the choice among paths, which `RouteDiscovery` and
  `KernelRoutes` make by HOPS. Its hazards are listed without a property.
- A fixed rate of the ETT metric and the messages about it (`send_ett_info`,
  `recv_ett_info`).
- The DTN layer: its registration, its datagrams over the netlink socket, its
  queue commands. Only the routes its hellos leave are in `KernelRoutes`.
- The list of all timers with its one kernel timer (`timer_queue.c`). Each module
  has the timers it needs, with their order and waits; that one kernel timer
  serves them all is not shown.
- `cleanup_brk_list` at removal; netlink calls and allocations that fail.
- The text of the `/proc` files, module parameters, socket and netlink byte
  formats, address parsing (`utils.c`): input and output with no state of their
  own.
- `tos.c`: a list filled at start-up and only read afterwards.

## 7. Plan

Done: 1 `RouteDiscovery` with its proofs; 2 `TaskQueue` and `LinkedTaskQueue`
with the proof that one implements the other; 3 `AodvThread`; 4 `PacketHold`,
5 `NeighborLife`, 6 `KernelRoutes`, 7 `Recovery`, 8 `Gateways` and 9 `ProbeEtt`,
each with its proofs.

To come, in this order:

10. Conservation in `TaskQueue` and `AodvThread` (no task is in two places, none
    is used after it was freed while the module stays), checked and proved.
11. `TimerQueue`: the list of all timers and its one kernel timer, shown to
    implement a set of deadlines.
12. `Loads`: the WCIM loads and two hop neighbours.
