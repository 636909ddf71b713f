# Verification of the QL-TSCH node

The repository modifies Contiki-NG's TSCH so that a node *learns* in which
timeslot of its unicast slotframe to transmit. Every policy update reads the
result of the last transmission, updates a Q-value, chooses a timeslot, and
moves the node's single unicast Tx link there, while the slot operation, driven
by a timer interrupt, goes on running the links of that very schedule.

This directory holds TLA+ models of that system, TLC configurations that check
them on small instances, and TLAPS proofs that hold for every value of the
constants.

## 1. The system

### Execution contexts

* **Process context.** Contiki processes are cooperative: `node_udp_process`,
  `scheduler_process` and TSCH's own processes give up control only where they
  wait for an event. `scheduler_process` waits only for its timer, outside any
  critical section, so a whole policy update runs without another process in
  between.
* **Interrupt context.** `tsch_slot_operation` is a protothread resumed by the
  rtimer interrupt. It may preempt process context at any instruction, runs
  uninterrupted up to its next `PT_YIELD`, and leaves `tsch_in_slot_operation`
  set while it is yielded inside a slot. That the interrupt may come anywhere is
  the contract the code is written for: `volatile` flags, the lock, the ring
  buffers (`tsch-slot-operation.c:140-175`). Where Cooja, the platform the
  Makefile names, lets an interrupt come less often, the models allow more.

### Components

| Component | State | Operations | Source |
|---|---|---|---|
| Slot operation | where the protothread yielded, `current_link`, `backup_link`, burst flag and count, `tsch_in_slot_operation` | `tsch_slot_operation`, `tsch_tx_slot`, `tsch_rx_slot`, `..._start`, `..._sync` | `tsch/tsch-slot-operation.c` |
| TSCH lock | `tsch_locked`, `tsch_lock_requested` | `tsch_get_lock`, `tsch_release_lock`, `tsch_is_locked` | `tsch/tsch-slot-operation.c` |
| Scheduler process | `current_action`, timer | `scheduler_process`, `set_up_new_schedule` | `node.c` |
| Q-learning and APT table | `q_values`, `apt_table`, `trans_status`, `cycles_since_start` | `update_q_table`, `max_q_value_index`, `policy_check`, `get_slot_with_apt_table_min_value`, `reset_apt_table`, `get_and_reset_Tx_slot_status` | `node.c`, `tsch/tsch-slot-operation.c` |
| Schedule | slotframe list, link lists, pools | `add_slotframe`, `add_link`, `remove_link`, `remove_link_by_timeslot`, `get_next_active_link`, ... | `tsch/tsch-schedule.c` |
| Packet queues | neighbours, one ring per neighbour, backoff, `tx_links_count` | `add_nbr`, `add_packet`, `packet_sent`, `get_packet_for_nbr`, flushes, backoff | `tsch/tsch-queue.c/.h` |
| UDP application | sequence number, timer | start-up, periodic send, APT reset | `node.c` |
| Slot timing | `current_slot_start`, ASN, drift, last sync | `check_timer_miss`, `tsch_schedule_slot_operation`, drift correction, the desynchronization check | `tsch/tsch-slot-operation.c` |
| RL-TSCH queues | -- | compiled out (`RL_TSCH_ENABLED`), header missing | `tsch/tsch-slot-operation.c` |
| TSCH core | association, pending-event processes | only `tsch.h` is in the repository | `tsch/tsch.h` |
| Build configuration | constants | -- | `Makefile`, `project-conf.h` |

### How they interact

```
 node_udp_process --init_tsch_schedule-->  Schedule  <--add_link/remove_link-- scheduler_process
        |reset_apt_table                   |  ^  |                                  |   |
        v                     current_link |  |  | tx_links_count                   |   | get_lock /
   APT table  <--count Rx--  Slot operation |  |  +-> Packet queues                 |   | release
        ^                     |  ^  |get_packet / packet_sent ^                     |   v
        |                     |  |  +-------------------------+                     |  Lock
        |  trans_status <-----+  +----- tsch_lock_requested, tsch_locked -----------|---+
        +---- get_slot_with_apt_table_min_value, get_and_reset_Tx_slot_status ------+
```

Everything is shared memory. The lock is not a mutex: taking it waits for the
slot in progress to end, but once it is *held* the request flag is clear again,
and the slot operation skips slots only for the request. So Rx slots do run in
the middle of a critical section. What keeps the lists safe then is that the two
functions through which the interrupt reaches them,
`tsch_schedule_get_next_active_link` and `tsch_queue_get_packet_for_nbr`, return
nothing while `tsch_locked` is set.

### What is hard, and what makes each part correct

* **Lock.** Four unprotected accesses with an interrupt possible between any
  two. Correct when: no slot transmits inside a critical section; a slot does
  not read a list mid-update; the process that asks always gets the lock.
* **Schedule against slot operation.** `remove_link` frees a link the interrupt
  may hold three pointers to: next link, backup link, link of the slot in
  progress. Correct when no pointer outlives its link.
* **Scheduler process.** Four critical sections in a row, each of which may fail
  silently. Correct when every update leaves exactly one Tx link, at
  `current_action`, and an Rx link at every other timeslot.
* **Learning.** Results are written by the interrupt and read by the process.
  Correct when no result is lost and each is credited to the action that earned
  it (it is not: section 5). Q-values must stay bounded; the scans must find the
  best action.
* **Schedule.** Links of several slotframes overlap; they are compared one by one, in
  the order of the lists. Correct when the search ends on the link, and the backup, that
  the standard's priorities name, in every order; when the lists, the pool and the
  neighbours' link counters agree after any sequence of calls.
* **Packet queues.** Flushes that bypass the lock, a full dequeued ring, backoff
  windows that count links in the very slot that draws them. Correct when every
  accepted packet is reported exactly once, and when the pointers a Tx slot holds over
  its yields stay valid.
* **Timing.** Wrapping timer arithmetic, drift corrections, bursts and missed deadlines.
  Correct when each slot runs the link its ASN falls on, at the time its ASN has, and no
  timer is set for a time that has passed.

The complete list, each item at its line, is `hazards` in `PROJECT.json`.

## 2. The modules

| Module | Role |
|---|---|
| `TschSlotOperation` | the slot operation: lock flags, links, bursts, every yield of a Tx and an Rx slot |
| `QlNode` | composes it with process context: association, `tsch_get_lock` access by access, the chain of critical sections of a policy update |
| `LockContract` | abstract specification: what the lock promises, without flags |
| `QLearning` | Q-table, policy, APT table; the loops over the tables one iteration at a time, interrupted by receptions |
| `TschQueue` | the packet queues: rings, packet blocks, backoff, flushes, the dequeued ring, against the Tx slot |
| `PacketLife` | abstract specification: what the queues promise for each packet |
| `TschSchedule` | slotframes, links and their pools, call by call and critical section by critical section; the search for the next active link |
| `RtimerClock` | the wrapping arithmetic of deadlines |
| `SlotTimeline` | composes the two: ASN, slot starts, drift, bursts and missed deadlines over a schedule that changes |
| `QlNodeProperties`, `TschQueueProperties`, `TschScheduleProperties`, `SlotTimelineProperties` | what is checked of each, and the refinement mappings |
| `MCQlNode`, `MCQLearning`, `MCTschQueue`, `MCTschSchedule`, `MCSlotTimeline` | what TLC is run on |
| `QlNodeProofs`, `QlScheduleProofs`, `QLearningProofs`, `TschQueueProofs` | theorems about the node, its learning and its queues, and their proofs |
| `FoldFacts` | what folds and flattened sequences return, for the two below |
| `TschScheduleProofs`, `NextLinkProofs`, `SlotTimelineProofs` | theorems about the schedule, the search, and the timeline over both |

The modules look at one system from different sides, and rest on each other:
`TschQueue` assumes of the lock what `QlNode` shows (no slot transmits inside a
critical section: `LockContract`), `TschSlotOperation` abstracts time away, and
`SearchIsAbstracted` of `SlotTimeline` shows that what the search returns at any ASN is
among what it allows.

### `TschSlotOperation` and the code

`slot` is the place the protothread has yielded at; one action is the code
between two yields.

| `slot` | Yield | Left by |
|---|---|---|
| `sleep` | between two slots | `SkipSlot`, `IdleSlot`, `StartTx`, `StartRx` |
| `tx` | before the transmission | `Transmit` |
| `ack` | waits for the acknowledgement (all its yields taken together) | `ReceiveAck` |
| `rx` | from the start of listening to the end of the frame | `Listen` |
| `rxAck` | before the acknowledgement goes out | `SendAck` |
| `fault` | the code has read through a NULL `current_link` | nothing |

The several yields of `ack` and of `rx` are one place: no code in between
touches the state modelled. `TSCH_SCHEDULE_AND_YIELD` runs on without yielding
when its deadline has passed; that is the same as yielding and resuming at once.

`EndSlot` is everything from the end of a slot to the sleep before the next: it
leaves the network when out of sync, replays a burst's link, or takes the next
active link. The do-while over missed deadlines may repeat that choice, so a
burst count may grow by more than one. `BurstMaxLen` is where the model stops
counting: the code only compares `count + 1` with it.

A link is its slotframe, timeslot and options; `links` is the union of the two
slotframes' lists. The two slotframe lengths, 7 and 15, are coprime, so the
broadcast link coincides in time with every unicast link sooner or later, and
`FoundLinks` may return each single link and each such pair. `Overlap` is the
priority rule with its backup, including that a link that stays the best may be
recorded as *its own* backup (`tsch-schedule.c:452-465`). The module allows a
single link at any time, which time-exact code allows for the ASNs where nothing
overlaps. Whether a queue has a packet, whether a frame arrives and what the
radio answers is a free choice. `trans_status` is written exactly where
`tsch_tx_slot` writes it; `status_timeslot` is a history variable that remembers
which timeslot earned it.

### `QlNode` and the code

`pc` is the next access of process context, `phase` the critical section. A policy
update whose action changes goes through five: `learn` (in `scheduler_process`)
and then `dropRx`, `addTx`, `dropTx`, `addRx` (in the two `add_link` calls of
`set_up_new_schedule`, each of which first removes what is at the timeslot). Each
one goes through `call`, `request`, `spin`, `take`, `clear`, `enter`, `finish`,
`release`, `count`: the first test of `tsch_locked`, the request, the busy wait,
the second test with the taking, the withdrawal of the request, the two halves
of the section, the release, and the update of `tx_links_count` that
`tsch-schedule.c` does after the release. Interrupt actions may fall between any
two. `finish` is the half-way point that matters: status read but not yet reset,
link forgotten but still listed, link listed but not yet filled in.

Association is external (`tsch.c` is not in the repository) and modelled from what
`tsch_slot_operation_sync` and `tsch_slot_operation_start` do. It is only allowed
while `scheduler_process` waits, since both run in process context.

### `QLearning` and the code

Q-values are fixed-point, `Scale` standing for 1.0; the code's are `float`. Each update may be
rounded down or up (`Rounded`), so that neither direction is favoured. The new value is `0.8 q +
0.1 r + 0.095 (max + 1)`, since the code subtracts `q` twice. The actions are the iterations of
`max_q_value_index`, `get_slot_with_apt_table_min_value` and `reset_apt_table`, and `Receive`,
the interrupt that counts a reception in between. `heard` and `wrapped` are history variables:
how often that happened during a scan, and whether a `uint8_t` counter overflowed.

### `TschQueue` and the code

A packet is a block of `packet_memb`, so that a block that is freed and allocated again is the
same value: a stale pointer would be noticed. The ring buffers are sequences, since
`ringbufindex` updates one byte per put or get. `slot` is `sleep` or `tx`, the latter from the
choice of a packet to the moment its status is known; `FinishTx` is all that then follows
without a yield: `tsch_queue_packet_sent`, the store in `dequeued_array`, `update_backoff_state`
in the code's order, then the decrement of the backoff windows at the end of the slot. In
process context, `pc` separates the steps between which the interrupt may come: the critical
sections (`locked`), the loop of `tsch_queue_flush_nbr_queue` (`flush`), between a removal and
its callback (`callback`), and the wait for the lock in `tsch_queue_remove_nbr` (`wait`). The
upper layer and `tsch_tx_process_pending` are external. The upper layer calls `AddPacket` and
`UpdateTimeSource` between the calls of others, and from the callback of a packet that a flush
reports (`UpperLayerCalls`): a packet may be added to the queue that is being flushed, to one
that was, or for a neighbour that the reset in progress may or may not come to (`Meet`). A
packet that finds no entry in the ring, no block or no queuebuf is refused. As in the schedules
of `node.c`, all links are shared and addressed to the broadcast neighbour. Whether the upper
layers flush queues while the node runs slots is the constant `FlushesDuringSlot`: nothing in
the repository does, nothing prevents it. `due` is a history variable: how many Tx links a
neighbour still has to let pass of those it drew.

### `TschSchedule` and the code

`Sections` unfolds a call into its critical sections, as the code's loops would run
them; each section is one action that begins with what its predecessors left. Between
two of them, or inside one, the slot operation may search (`LookUp`); inside one it finds
nothing. A link is a block of `link_memb` with its fields. `NextActiveLink` is the loop
over the lists as a fold of `Consider`, which keeps best link, time and backup as the
code does, including that a link may be its own backup. Neither
the size of the neighbour table nor what fills it is in the repository: a neighbour that is
not `Virtual` and has no Tx link may or may not have an entry (`MayBeAbsent`). A Tx link
whose neighbour finds none is installed all the same and is not counted
(`tsch-schedule.c:272`); `missed` remembers such neighbours, and the counters are integers so
that one below 0 stands for the `uint8_t` that has wrapped.

### `SlotTimeline` and the code

`current_slot_start` and the clock are values modulo `ClockModulus`; `elapsed` is how
much later than the start of the slot it is, so that long delays are told from short
ones. `ScheduleSlot` is `tsch_schedule_slot_operation`: a timer, whose wait is what the
rtimer makes of its argument, or a busy wait. One turn of the do-while loop over missed
deadlines is one action (`RepeatLink` in a burst, else `NextLink`), for `..._start`
likewise. The ASN is kept modulo `AsnCycle`, a multiple of the slotframe lengths in which the
clock makes whole turns.
A timer that the rtimer refuses leads to the busy wait, as a missed deadline does. A sender
asks for another slot while the burst is below its limit; a receiver whenever the frame
pending bit is set (`tsch-slot-operation.c:1090`), however long the burst is by then.
`corrected`, `repeated`, `burst_of` and `overslept` are history variables: the corrections
made since association, the slots a link has been repeated in, whose repetition the burst
flag asks for, and how much later than the slot's start its timer fires.

## 3. The runs

| Run | Instance | Shows |
|---|---|---|
| `node` | 3 unicast timeslots, bursts of 2, a node that may leave its network | safety of lock, links, status and schedule; `ImplementsLockContract` |
| `node_liveness` | 2 timeslots, `FairSpec` | every policy update completes; every slot ends and a waiting process gets the lock |
| `lock_skips_slots` | 2 timeslots | finding: a slot runs while the lock is held |
| `removal_aborts` | 2 timeslots | finding: an Rx slot in progress loses its link |
| `reward_credits` | 2 timeslots | finding: a result is credited to the wrong action |
| `learning` | 3 actions, 1.0 = 3 rounded either way, counters mod 3, 1 reception per scan | bounded Q-values; the scans find a best index, under interruption and overflow; failures do not promote |
| `max_is_highest` | 3 actions, 1.0 = 20 | finding: index 0 is overlooked |
| `queue` | 2 unicast neighbours, 3 packets, rings of 2, one place in the dequeued ring, 2 attempts, exponents 0 and 1 | no packet is leaked, freed early or reported twice; the slot's pointers hold; backoff is respected; `ImplementsPacketLife` |
| `queue_liveness` | 1 neighbour, 2 packets, `FairSpec` | every packet is reported in the end; every flush ends |
| `flush_in_slot` | as `queue`, with flushes while slots run | finding: a flush takes the packet from under a Tx slot |
| `schedule` | 3 blocks, 3 handles for 2 slotframes of 1, 2 or 3 timeslots, a virtual and a unicast neighbour, the latter with or without an entry | the search from every ASN, pool, lists and counters, over any sequence of calls |
| `timeline` | slotframes of 2 and 3 timeslots, a link that moves, a clock of 36 ticks, slots of 3, delays up to 7, drift of 1, bursts of 2, 2 repetitions that no limit stops | links, times and ASNs agree; no timer oversleeps; `SearchIsAbstracted` |

**Why the bounds are enough.** A policy update concerns the old timeslot, the new one, and all
the others, which it leaves alone: three timeslots are one of each. Liveness does not depend on
the untouched ones, and two suffice. With `BurstMaxLen = 2` a burst is started, repeated and
cut. Q-values are explored until the fixed-point values repeat; since an update may be rounded
up, they climb to the bound: with `Scale = 3` the antecedent of `FailureNeverRaisesTheBest`, a
best value of at least 19/21, is met by every failure while the best value is 3 or more, and
`QBounded` forbids 7. (Rounded down only, the values would stop far below either.) APT counters
modulo 3 with a reception per scan overflow in the middle of a scan.

In `queue`, two neighbours compete for a Tx link and three packets fill a ring of two and the
dequeued ring at once; with two attempts a packet succeeds, is retried, and is given up;
exponents 0 and 1 include the window of one link. Symmetry (packets, neighbours, blocks) is used
in safety runs only. In `schedule` three links can overlap in one slot, in any order of
insertion, while the pool is full; lengths 2 and 3 are coprime, so each pair of timeslots
coincides within `AsnCycle = 6`. The calls can add more links than there are blocks, and more
slotframes than there is room for, so that additions fail for either reason, and for want of an
entry for the neighbour. In `timeline` a delay of 7 misses two deadlines in a row, and the clock
wraps every twelve slots, at a place that moves with the drift; the node joins at one slot start
(`JoinTimes`), just before the wrap, and at any ASN. `MaxRepeats` bounds what the code does not:
how often a burst goes on because frames announce more, a slot is skipped for the lock, or a
timer is refused.

**Deadlock** is not checked on the node: a node that dereferences NULL really
stops, and `fault` models that; nor in `flush_in_slot`, where the search ends at the finding. It
is checked everywhere else.

**Fairness.** `FairSpec` asks weak fairness of two things. *Process context*
(`PolicyUpdate`): an interrupt returns, so what it interrupted goes on.
*The slot in progress* (`ResumeSlot`): every yield inside a slot sets a timer for
a bounded time ahead. Nothing is asked of the slots' *starts*, nor that a lookup
of a link ever succeeds, nor of the environment. The busy wait for the end of the slot
depends on the request flag: without it the next slot may start before the
process looks again, which is the mutant of `PolicyUpdateCompletes`.

For the queues, weak fairness of process context (`ReleaseLock`, `Flush`, the reset after
leaving) and of the slot in progress (`EndTx`), for the same reasons. Strong fairness of
three things that the lock may disable again and again: that the polled process reports a
dequeued packet, that a Tx link with something to send comes up while the lock is free,
and that one passes while it is free so that windows are counted. Critical sections are a
few instructions in a policy update of seconds: they do not coincide with every link.
`EveryPacketReported` is stated for a node that stays in its network and an upper layer
that stops sending; without the latter, a neighbour could starve another. `FlushEnds` is
stated for upper layers whose callbacks stop sending in the end (`CallbacksStopSending`):
one that adds a packet from the callback of every packet keeps the flush going.

## 4. What is proved

All theorems hold for every slotframe length, every burst limit, for the
coordinator and for other nodes, any number of packets, neighbours and links, any
width of the clock; the only assumptions are the named ones on the constants of each
module.

*Lock.* `LockExcludesTransmission` is not inductive: that no transmission can be in
progress when `tsch_locked` becomes true depends on a chain of facts about the
accesses of `tsch_get_lock`. `LockInv` in `QlNodeProofs` states them: the lock is
held exactly from `clear` to `release`; it is requested exactly from `spin` to
`clear`; at `take` and `clear` no slot is open (the busy wait ended, and the
request keeps new ones from starting); after `clear` slots may start again, but
no queue offers a packet, so they only receive. From this inductive invariant
follow `LockedNeverTransmits`, `LockNeverRefused`, `NoStatusLost`, the action property
`ListSafe`, and `LockRefinement`: each step of the node maps to a step or a
stutter of `LockContract`.

*Links.* `LinkInv` adds that the link in a critical section is not the current
link when it leaves the list, and the fact that makes `backup_link` safe although
`remove_link` never resets it: a backup is always the broadcast link, which no update
moves. (When the broadcast link coincides with a unicast link it stays the best one, since
it transmits and has the lower handle, and then becomes its own backup; a unicast Rx link
never takes its place.) It gives `CurrentLinkNeverFreed`,
`BackupLinkNeverFreed` and, with `LockInv`, `TransmissionSafe`.

*Policy update.* The three properties of an update hold only between updates, or at
some of its phases, so none is inductive. `UpdateInv` in `QlScheduleProofs` gives, for
each phase, which timeslots have a Tx and which an Rx link, which link the phase is
about, and what `tx_links_count` is: 2, or 3 between the addition of the new Tx link and
the removal of the old one. It gives `ScheduleFollowsAction` and `TxLinksCounted`.
`CreditInv` says where a result not yet reset can come from: before the reset, the current
or the previous timeslot; after it, the current timeslot or the one the update moves to. A
result is recorded only for a Tx link in the list, and `UpdateInv` says which those are; this
gives `CreditAtMostOneUpdateLate`.

*Learning.* `QLearningProofs` proves the ranges of the tables, `QValuesBounded` (the
bound 13/7 is inductive, `0.8 B + 0.1 + 0.095 (B + 1) = B`, and one unit above it remains so
when each update may be rounded up), the loop invariants of both
scans (`ScanFindsMax`; `ScanFindsMin`, where each reception during the scan may cost
one), and `FailureKeepsTheBest`.

*Queues.* `TschQueueProofs`, for nodes whose upper layers do not flush while slots run (where
`flush_in_slot` shows the opposite). `CallerInv` ties `pc`, `caller`, `to_flush` and `removed`
together: a reset flushes only after the network was left, a removal only an empty queue, so
that it calls no upper layer back; the lock is held only in its section, where no slot
transmits. `SlotInv` is what a Tx slot needs over its yields: the node is in a network (so no
reset flushes), its packet is the head of its queue, and the place in the dequeued ring is still
free; and no window is shorter than the links still due. With the type invariant they are
inductive and give `SlotPointersValid`, `DequeuedHasRoom`, `BackoffRespected` and
`PacketSentIsRight`. On top of them `PlaceInv` says that each block in use is in one place,
once; it gives `PacketsKeepOnePlace` and the refinement `QueuesImplementPacketLife`.

*Folds.* The search, the lists and the sections of a call are folds over sequences, and the
library's induction theorems cannot be used (they take an operator as a parameter).
`FoldFacts` gets around that: the relation `<` on the numbers is well-founded, so a set of
numbers that is not empty has a least one (`LeastNumber`), and a set that holds 0 and, with
each number, the next, holds all (`InductionOnNat`). With the loop invariant as such a set
it shows that the function a fold is defined by exists, and that it takes the elements one
after the other; then what `Those` keeps, what `FlattenSeq` joins, and that `RemoveFirst` on
a sequence without repetitions removes one element and keeps the order of the rest.

*Schedule.* `EditInv` in `TschScheduleProofs` is inductive for every pool, every set of calls
and any number of slotframes. `PoolInv`: the slotframes of the list are those with a size, and
the list of each holds each of its links once, within its timeslots. This alone is not
inductive, since a slotframe is removed without another look at its links, and a link is added
without another look at its timeslot: what makes these right was found out sections ago.
`TodoOK` therefore says what is left of a call in progress: each link to be removed is
installed, each slotframe that is to go loses its links first, a slotframe is added only when
none of its handle is left, a link is added last, to a slotframe that still has its timeslot,
and what `add_link` replaces goes before. `CountInv`: the counters of a neighbour that has
missed no link are the cardinalities of its links, so that one with a Tx link is not 0 and has
its entry when the next link is counted. `EditInv`
gives `LinkKeepsPlace`, `CountersMatch`, `ReplacementAlwaysFits` and `ReplacesAll`.

*Search.* `TimeToNextOccurrence`: the distance to a timeslot is in `1..length` and leads to
an ASN of that timeslot, whatever the ASN. `SearchKeepsFirst` and `SearchKeepsListener` are the
steps of the search's loop invariants, in any well-formed schedule and for any queue
lengths: what has been kept is the earliest and first by priority of the links seen, and
the backup makes the node listen on the lowest handle. With the facts on folds they give
`SearchFindsTheFirst` and `ListensOnTheLowest`, of the whole search.

*Time.* `TimerMissIsExact`: for a clock of any width, `check_timer_miss` says whether the offset
has elapsed, provided neither it nor the time since the reference is a turn of the clock -- the
"single overflow" its comment assumes. `TimerFiresOnTime` is what that is for: a deadline that
`check_timer_miss` lets pass is more than the guard ahead, and its timer fires at the offset.
`NextSlotIsNear` shows the assumption, with half a turn, which is as far as the busy wait can
compare: no slotframe is half a turn of the clock long (`CycleAssumption`: those of the initial
schedule and those calls add), and what the search finds is no further than the length of its
slotframe. So `OnTime`, `NeverOversleeps`, holds without a hypothesis, for every slot length,
drift bound, delay below half a turn, and every sequence of schedule changes; `TimeInv` is its
inductive invariant, on top of `ScheduleInv` (`EditInv`, and only lengths that are known), which
holds of any initial schedule whose links are in its slotframes (`InitialAssumption`).
`StartInv` strengthens `SlotStartFollowsAsn`: a correction is due at the end of a slot only, and
is 0 elsewhere. Its steps are arithmetic with multiples of the clock's modulus; that the ASN may
be counted modulo `AsnCycle` needs `AsnCycle` slots to be whole turns of the clock, and
`AsnCycle` to be a multiple of every length, which is the rest of `CycleAssumption`: the
constant stands for the full counter, and can always be chosen so.

*Place.* `PointerInv` says of any moment what `LinkFallsOnAsn` says of a slot: the link falls on
the ASN its burst began at, and a backup exists only before a burst repeats. It is not inductive
for any schedule, because `remove_link` does not forget the backup, whose block may be given to
another link (section 5). `QlInv` is why that does not happen here: in the schedule of `node.c`
(`QlAssumption`: slotframe 0 first, with links to broadcast; one link for each timeslot of
slotframe 1; calls that replace such a link), a backup is a broadcast link, and only unicast
links are removed. Its own argument goes through the search once more: the broadcast slotframe
comes first in the lists, so that a broadcast link is the best link when a unicast link of the
same slot comes up, stays so, and becomes its own backup (`SearchOfQl`). `BurstInv` says that
the flag of a burst is down while a slot runs, that as long as it is for the current link that
link is repeated and not looked up, and so that a link is repeated for no other reason than a
burst: its own, or one that was cut. From the two follows `LinkIsOnItsTimeslot`; from `QlInv`
and the search, `SearchOfTheAbstraction`: what the search returns at an ASN is one of the pairs
that `TschSlotOperation`, and so every theorem on the node, takes it to return. Only these two
theorems use `QlAssumption`.

`TypeCorrect`, `ScheduleTypeCorrect` and `TimelineTypeCorrect` are type correctness.

**Only model-checked.** `PolicyUpdateCompletes`, `ImplementsFairLockContract`,
`EveryPacketReported` and `FlushEnds`: liveness under fairness and ENABLED are beyond the
prover. Every safety invariant and action property of the passing runs is a theorem.

## 5. Findings

1. `tsch-slot-operation.h:76` says slot operation is skipped while the lock is
   taken. It is skipped while the lock is *requested*; once taken, slots run and
   receive (`LockSkipsSlots`).
2. `remove_link` "aborts the next link operation" by setting `current_link` to NULL
   (`tsch-schedule.c:299`), but because of 1 this may hit an Rx slot in progress,
   which then reads `current_link->slotframe_handle` (`RemovalAbortsNextSlot`). Here
   the model's node stops.
3. The status is read, the lock released, and only then is the link moved. A
   transmission in between leaves a result that the *next* update credits to the
   *new* action (`RewardCreditsAction`). It is never later than that
   (`CreditAtMostOneUpdateLate`).
4. `max_q_value_index` and `get_slot_with_apt_table_min_value` start from a random
   index and compare from index 1 on: index 0 is overlooked unless drawn
   (`MaxIsHighest`; the scan for the minimum has the same form).
5. `tsch_queue_flush_nbr_queue` takes no lock. Called through `tsch_queue_free_packets_to`
   while a Tx slot is between its yields, it frees that slot's packet; then
   `tsch_queue_packet_sent` takes the *next* packet out, or none, and answers for the one it
   was given (`PacketSentTellsTheTruth`). The reset after leaving a network and the removal of an
   unused neighbour are safe.

Observations that no run states, met while modelling:

* When the link of a burst is removed, or the network left, `burst_link_scheduled` stays set
  (`tsch-slot-operation.c:1295`). The next link found is unrelated to the burst; its slot does
  not hop its channel, and if that slot is skipped for the lock, the link is repeated
  slot after slot, outside its timeslot, until one slot runs. `LinkFallsOnAsn` names this as its
  exception (`burst_of = "another"`), and excludes any other. `tsch_slot_operation_start` does
  not reset `tsch_current_burst_count` either, so that a first burst after rejoining may be cut
  short.
* A slot of a burst that is skipped, or late, prolongs the burst: its link is tried again one
  slot on, when the neighbour may have stopped waiting for it.
* A Tx link whose neighbour had no room in the neighbour table is not counted when it is added
  (`tsch-schedule.c:272`), and is counted off when it is removed if the neighbour has an
  entry by then: the `uint8_t` counters wrap, and the neighbour stays in the table
  until another link brings them back to 0. The links of `node.c` are all to the broadcast neighbour, which is always in the table.
* `tsch_queue_flush_nbr_queue` calls the upper layer back before it looks whether the queue is
  empty (`tsch-queue.c:202`): one that sends again from each callback keeps it going.
* `remove_link` forgets `current_link` and never `backup_link`. In a QL-TSCH schedule the
  backup is never a link that is removed (`BackupLinkNeverFreed`); with other schedules
  the slot operation can be left with a freed backup.
* `tsch_schedule_add_link` replaces only links at the same timeslot *and* channel offset, although
  its comment speaks of one link per timeslot.

## 6. What is not modelled

* Payloads, logging, 6LoWPAN, RPL: input and output without influence on the
  state above.
* RL-TSCH, link-layer security, the link selector, CCA: compiled out by
  `project-conf.h` and the defaults.
* Floating-point arithmetic of the Q-values: fixed-point instead, rounded either way. The
  exploration rate `10000 / cycles_since_start`, capped at 1/2, is positive and below one for every value of the
  16-bit counter: the models let each cycle explore or exploit, so the counter is no
  variable.
* The channel of a slot: hopping is a function of ASN and offset that nothing else reads.
* The adaptive compensation of clock drift (its source is not in the repository) and the
  threshold of desynchronization, which is a free choice to leave the network.
* In the queues, unicast neighbours with Tx links of their own: QL-TSCH schedules have no such
  links. The limit of the neighbour table is a constant of Contiki-NG; the models let any
  entry fail. `custom_reset_all_backoff_exponents` is not called (`node.c:278` is commented out).
* The read-only lookups of `tsch-schedule.c` by handle and timeslot.
* `tsch.c`, the pending-event processes and the rtimer are external.

## 7. Plan

Done, in this order: `TschSlotOperation`, `QlNode`, `LockContract`; `QLearning`; `TschQueue`,
`PacketLife`; `TschSchedule`; `RtimerClock`, `SlotTimeline`; each with its properties and proofs.
What could be added:

1. Unicast neighbours with Tx links of their own in `TschQueue`.
