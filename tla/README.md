# LBeacon in TLA+

LBeacon is the program of a Bluetooth beacon: it advertises its position, scans
for tags, keeps the tags it has seen in memory and reports them to a gateway by
UDP when the gateway asks. It is one multi-threaded C process (`src/src/LBeacon.c`)
over a small library (`src/import/`), restarted by scripts (`src/bin/`).

## The system

| Component | State | Operations | Threads |
|---|---|---|---|
| Memory pools (`Mempool.c`) | blocks from `malloc`, one free list, `used_slots`, `blocks` | `mp_init`, `mp_alloc` (expands), `mp_free`, `mp_destroy` | any, under `mem_lock` |
| Scanner (`start_ble_scanning`) | the report just read | take a temp slot, fill it, link it to `temp_ble_device_list` | scanner |
| Examiner (`examine_scanned_ble_device`) | the list it detached, a pointer into the object list | detach, match, look up, update or insert, free | examiner |
| Reporter (`handle_tracked_object_data`, `consolidate_tracked_data`) | the nodes it detached, the message | detach, count, write, free, queue the message | communication |
| Cleaner (`timeout_cleanup`, `cleanup_lists`) | none | read the usage, empty the lists | cleaner |
| Packet queue (`pkt_Queue.c`) | ring of cells, `front`, `rear`, `is_free` | `addpkt`, `get_pkt`, `delpkt`, `Free_Packet_Queue` | any two, under its mutex |
| UDP channel (`UDP_API.c`) | a send and a receive queue, `shutdown` | add, get, the send and the receive loop | communication, sender, receiver |
| Communication (`manage_communication`, join, health report) | the last packet's direction and type, `gateway_latest_polling_time` | dispatch, join, answer | communication, main |
| Recognition (`eir_parse_specific_data`, the prefix rules) | position in the payload, the rule that fits | search a field, match, push | examiner |
| Lifecycle (`main`, `cleanup_exit`, SIGINT) | `ready_to_work`, `is_ble_scanning_thread_running`, whether the dongle advertises | start, stop, destroy | main, signal handler |
| Advertising (`generate_uuid`, `enable_advertising`) | `config.uuid`, the dongle's payload | make, pack, switch on and off | main |
| Supervision (`network.sh`, upgrade scripts, `single_running_instance`) | lock file, `config.conf`, `config_save.conf` | kill, start, change, save, merge | cron, shell, main |

Interactions: the scanner hands nodes to the examiner through
`temp_ble_device_list` (lock `temp_ble_device_list_lock`); the examiner hands
nodes to the reporter and the cleaner through `BLE_object_list_head`
(`list_lock`); all of them share the pools (`mem_lock`). The communication
thread exchanges packets with the two socket threads through two packet queues.
The main thread stops everybody by one flag. Scripts and processes meet in the lock
file and in `config.conf`.

What is hard:

- the object list is searched, extended, cut and emptied in separate critical
  sections of `list_lock`, and its nodes are written and freed outside it;
- a pointer outlives the lock under which it was obtained;
- the reporter decides twice, at two times, which records a message holds;
- pools and queues are bounded, and results of a full one are ignored;
- the free of a slot may be refused, and the caller does not look;
- shutdown destroys what other threads may be using;
- a message's space is estimated, then the nodes change, then it is written;
- scripts stop and start the process, and replace its configuration, without
  waiting for it or for each other; the power may fail between two commands;
- lengths in a payload come from outside.

What makes each part correct: a pool hands a slot to one owner and gets every
slot back; a list has one node for a device, with its own data; a message's
header agrees with its records; a queue loses and reorders nothing; a tag in
range is eventually listed, a poll answered, a full pool relieved; shutdown
touches nothing that is gone; one process runs, with the configuration the box
has; a tag is recognised as the rules say, whatever its payload; a message fits.

## The modules

| Module | Models | Uses |
|---|---|---|
| `BleTracking` | the pipeline: scanner, examiner, reporter, cleaner, both pools and lists | |
| `MCBleTracking` | its instance for TLC | `BleTracking` |
| `Mempool` | a pool with addresses and its free list | `SlotPool` |
| `SlotPool` | what a pool promises (abstract) | |
| `PktQueue` | the ring buffer | `BoundedFifo` |
| `Reporting` | a report from the object list through the message and the ring to the socket | `PktQueue` |
| `MCReporting` | its instances for TLC | `Reporting` |
| `BoundedFifo` | what a queue promises (abstract) | |
| `Communication` | LBeacon and its gateway: queues, socket threads, dispatch, join loop, network | |
| `MCCommunication` | its instance for TLC | `Communication` |
| `Recognition` | the search of a payload and the prefix rules | |
| `Advertising` | what LBeacon itself advertises | `Recognition` |
| `MCRecognition` | their instance for TLC | `Advertising` |
| `Supervision` | processes, scripts, lock file and configuration of one box | |
| `Lifecycle` | the threads from their start to the exit of the process | |
| `ListPointers` | the lists pointer by pointer | |
| `ListFacts` | proved facts: lists as sequences, prefixes, sequences joined into one, induction | |
| `BleTrackingProofs` | theorems about the pipeline: ownership and data, the pool's count, the messages | `BleTracking`, `ListFacts` |
| `MemoryProofs` | theorems about the pool, that it implements `SlotPool`, and about the lists' pointers | `Mempool`, `ListPointers`, `ListFacts` |
| `ReportingProofs` | theorems about the ring and the path of a report | `Reporting` |
| `RecognitionProofs` | theorems about the search, the rules and the advertisement | `Advertising`, `ListFacts` |
| `CommunicationProofs`, `LifecycleProofs`, `SupervisionProofs` | theorems | the modules they are about |

An operator `X_Fault`, defined just before `X`, is `X` with one plausible
mistake. No action uses it: it documents what the property that names the
mistake would catch.

### BleTracking

State. `tfree`/`trep` are the temp pool, `scanHeld` the slot the scanner has not
linked, `temp` and `tlocal` the temp list and the examiner's local list (the head
of `tlocal` is `temp` in the code, the report under examination), `exPc` and
`exPtr` the examiner's position and its `temp_node`. `free`, `used`, `blocks` are
`mempool` (free list, `used_slots`, `alloc_time`), `node` the content of its
slots, `ble` is `BLE_object_list_head`. `local`, `at`, `hdr`, `recs` are the
reporter's local list, the node its loop visits, `number_to_send` and the records
written; `toPc` the cleaner's position.

Actions. One per critical section and one per access outside the locks, each
with the code's early returns. `ScanAlloc`, `ScanDrop`, `ScanLink`: the scanner.
`ExDetach` and `ExDone`: the examiner's outer loop. `ExWeak`, `ExIgnore`,
`ExLookup`: what becomes of a report. `ExFlags`, `ExButton`: the unlocked update
of a known device. `ExCheckRsp`, `ExWriteRsp`: a scan response. `ExAlloc`,
`ExAllocFails`, `ExLink`: a new device. `ExRelease`: `mp_free` of the report.
`RepPoll`, `RepDetach`, `RepCount`, `RepWrite`, `RepFree`: a poll. `ToCheck`,
`ToClean`: the cleaner.

Abstractions. A report is a record of the verdicts the code reaches about it
(strong enough, matched by a rule, wants its scan response, button pressed); the
payload parsing that yields them is an input. Of a node the model keeps what the
properties tell apart: address, `is_scan_rsp_needed`, whose scan response it
holds, the button. The space left in a message is `Batch` records. `mp_free`
refuses the slots in `Stuck` (for `mempool`) and `TempStuck`: `Mempool` shows
which those can be. The BR/EDR lists are left out, as nothing ever fills them.
Steps joined into one, with the reason, are named in comments: the two critical
sections of `check_is_in_list`, the nodes `cleanup_lists` frees under one lock. A poll
whose basic information cannot be prepared (`LBeacon.c:1258-1267`) ends before it touches
a list and is left out.

### Mempool

Addresses are numbers, `Bases` the addresses `malloc` may return; a block goes
anywhere it does not overlap another. `head` is the free list, in the code's
order. `mp_free` is modelled with its search for the closest block below, and a
slot it refuses is `leaked`. Pointers are converted to `int` in the code; the
distances between a process's blocks fit, so no width is modelled. `mp_destroy`
belongs to shutdown: it is a step of `Lifecycle`.

### PktQueue

The ring with the code's `-1` for empty, the wrap of each index, and the three
refusals of `addpkt`. `Oversize` packets are those beyond `MESSAGE_LENGTH`. `ret` is
what the last call returned, so that the refinement covers the answers too. The
ring is run by the threads of `Reporting`.

### Reporting

State. `list` is `BLE_object_list_head` with an id for every object filed, `node`
the fields of each that decide how long its record is, `held` the examiner's
pointer. `pc`, `base`, `room` (`msg_remain_size`), `local`, `at`, `size`
(`strlen(message)`) are `handle_tracked_object_data`. The ring of `PktQueue` is
the send queue, `sPc` and `sending` are the send thread, `shutdown` its flag. `fate`
is history, where each object is; so is `long`, a record with more than 36 bytes of
payload and response.

Actions. `Track`, `Find`, `Update`, `Clean` are examiner and cleaner. `Poll` to
`Hand` are the handler: the two lists of the message, the loop that takes nodes
under `list_lock` and gives each its estimated space (`Take`, `Cut`), the count, a
record at a time (`Write`), `udp_addpkt` with its ignored result (`Hand`). `Look`,
`Get`, `SendTo` are the send thread, which tests the queue outside its mutex;
`Shutdown` and `Free` are `udp_release`.

`BleTracking` has the same list with slots, locks and every access outside them, and
a fixed number of records per message; here the slots are left out, and lengths are
what the code computes. What both have is the list, the cut, the two passes. A
message is known by its first and last object: the objects of a message are
consecutive. `WIFI_MESSAGE_LENGTH` is assumed to be between 323 and the code's 8192: with
less than a record's room beside the basic information the code would unlink a node it
does not send, which the real length excludes.

### Recognition and Advertising

`adv` is the advertisement under examination, `rules` the order of the name rules.
`WalkOn`, `WalkStop` and `WalkFail` are the three ways a step of
`eir_parse_specific_data`'s loop ends; `Search` and `Return` are its call and return.
`CheckMac`, `CheckMacField`, `CheckName`, `CheckNameField` are the branches of the
examiner, with the identifiers of each. `verdict` is the call of
`send_to_push_dongle`. The code compares hexadecimal texts; the model compares bytes,
which is the same for prefixes of whole bytes. A byte beyond the payload is zero,
as its buffer is. Battery voltage is left out.

`Advertising` has no variables: `uuid` is `generate_uuid`, digit by digit, `Elements`
the packing of `enable_advertising`. `MCRecognition` makes its payloads reports of
`Recognition`, so that a receiver walks what a beacon packed.

### Supervision

State. `st` and `loaded` are where each process is in `main` and the configuration it
read, `lock` the holder of the lock file. `conf` and `saved` are `config.conf` and
`config_save.conf`, cut down to the gateway's address and whether the rest is the
box's own. `netPc`, `gatewayAddr`, `confGatewayAddr`, `netCopy`, `netFound` are
`network.sh` with its variables, the file its `sed` has read and the list of its
`kill_LBeacon.sh`; `upPc`, `upFound` the upgrade. `net` is the router's address.
`missed` and `spoilt` are history: processes that keep what they read, and a merge that
was prevented or overtaken.

Actions. One for each command of a script that reads or writes something shared,
and for each call of `main` that matters up to its `sigaction`: `LockFile`,
`GetConfig`, `Handle`. `sed -i` is two steps, as it reads the file and later renames its
copy over whatever is there (`NetSed`, `NetRename`). `Move` and `PowerCut` are external:
the box changes its router, the power fails between any two commands and `rc.local`
starts LBeacon.

`kill_LBeacon.sh` is `ps` and then `kill` (`NetPs` and `NetKill`, `UpPs` and `UpKill`),
and finds every command line with `LBeacon` in it, which is the directory's name too. So
the list has the processes and the other script, if it is at work, and the script that
calls may be in it:

- a process past its `sigaction` stops, and ends at some time (`Exit`); one before it
  ignores the signal, because `auto_LBeacon.sh` starts it with `&` and a shell without
  job control has such a command ignore SIGINT (`Sigint`);
- a script ends, or goes on, since a shell that waits for a command heeds SIGINT only if
  the command died of it (`MaySpareUp`, `MaySpareNet`). A script that ends takes with it
  what it had begun (`UpStops`, `NetStops`): an upgrade stopped between `tar` and `mv`
  leaves the package's `config.conf`, a `network.sh` stopped after its `sed` starts
  nothing.

Simplifications: `tar` puts `config.conf` in place in one step; a script of each kind is
at work one at a time; a signal reaches a script with all the commands it is in. The
names of processes are interchangeable, so a new one takes a fixed unused name (`Fresh`).
A process that ends leaves the lists: the signal for it reaches nobody.

### ListPointers

State. `ptr` holds the `next` and `prev` of every entry; `todo` the pointer writes a
thread has yet to do of the operation it is in; `at` the entry a loop is at. `list`
and `mine` are history: the sequences `BleTracking` has for `ble` and `local`.

Actions. `Step` does one write. The others start an operation, computing its arguments
where the code does, or end it: `ExAlloc`, `ExAppend`, `ExUnlock` a new device; `RepCut`
and `RepUnlock` the cut under the lock, `RepClose` the ring closed outside it,
`RepRemove` and `RepFree` a round of the last loop; `ClLock`, `ClRemove`, `ClFree`,
`ClUnlock` the cleaner, which frees a node at a time under the lock. The examiner takes
`temp_ble_device_list` apart in the same way, all of it at once and without the
removals.

### Communication

State. `sendq` and `recvq` are the two queues of `udp_config`, bounded as
`PktQueue` is shown to be. `comm` is the position of `manage_communication`,
`dir` and `type` its `pkt_direction` and `pkt_type`, which live across its rounds.
`addr` is `g_config.local_addr`, cut down to whether it is empty, whole or a piece.
`main` and `req` are the join loop and the address in the request it prepares.
`joinAir` and `air` are what is in transit, `known` the gateway's map of beacons,
and `asked` and `built` are history: the types received and the types of the
answers prepared.

Actions. `Send` and `Receive` are the socket threads. `CommGet` is `udp_getrecv`
with the dispatch that follows. `JoinClear` and `JoinCopy` are the two writes of
`handle_join_response`; `Answer` is the handler of a poll. `MainPrepare` and
`MainAdd` are `send_join_request`: its read of the address, its `udp_addpkt`.
`Elapse` is the time between two requests. `Deliver`, `Lose`, `LoseJoin` and the
`Gateway...` actions are external: packets are lost, delivered again and in any
order, and the gateway may restart without the beacons it knew.

A packet is a record of what the parser can see of it: whether it decodes, how many of
the first three fields it has, and the values of two. `sscanf` leaves a variable alone
when it fails (`Parsed`). A packet that fails the decoding or the hash makes
`udp_getrecv` return an `sPkt` nobody initialised (`UDP_API.c:171`, `:177`). The build
(`-O3`) copies what is on the stack, where an empty text or an answer prepared earlier
may lie: `Leftover` is these, or the flag reads as "no packet". Time is a flag, `due`:
of `INTERVAL_FOR_RECONNECT_GATEWAY_IN_SEC` only that it ends matters. Left out: the end
of the threads (see `Lifecycle`), packets cut short after the third field, the fields of
the health report, a join request or an answer whose basic information is too long. An
answer that reaches the network is of no concern to any property and leaves the model.

### Lifecycle

State. `main`, `scan` and `work` are the positions of `main`, the scanner and the
other threads. `ready` and `scanning` are `ready_to_work` and
`is_ble_scanning_thread_running`, `shutdown` is the flag of the socket threads.
`advert` and `refused` say whether the dongle advertises, and whether it refused to
stop. `lock` is the holder of `list_lock`, `pool` stands for `mempool` with that lock,
`tempPool` for the other pool with its lock, `udp` for the queues.

Actions. `Sigint` at any time. `StartExaminer` to `StartComm` are the starts in `main`'s
order, each with its failure; `EnableAdvertising` may fail with the dongle switched on,
as the request that switches it is not the last. `LeaveLoop`, `DisableAdvertising`,
`Await` and `Clean` to `Exit` are the end, each destruction a step. `ScanSetUp`,
`ScanTest`, `ScanRead`, `ScanRound`, `ScanClose` are the scanner. `WorkTest`,
`WorkLock`, `WorkUnlock`, `WorkDone` are a round of the examiner, the cleaner or the
communication thread: a test of the flag, critical sections of `list_lock`, back to the
test. What they do in there is `BleTracking`. The three lists are emptied in one step. A
start fails without a thread: that `pthread_create` succeeds and `pthread_detach` then
fails (`BeDIS.c:678-680`) is left out.

The flags are plain `bool`s without a lock. The model reads and writes them in
program order, which a compiler need not keep: `ScannerSafe` is a statement about
the source as written, on the processors that run it one step at a time.

## The runs

| Run | Checks | Result |
|---|---|---|
| `ble_safety` | eight invariants and `PressKept` over every interleaving | hold |
| `ble_progress` | `TagTracked`, `PollAnswered`, `UsageRelieved` under fairness | hold |
| `ble_weak_signals` | `ScanningContinues` | violated by the code |
| `mempool` | accounting, what can leak, refinement of `SlotPool` | hold |
| `list_pointers` | `ListWhole`, `LocalWhole`, `OwnWrites`, and `LoopEnds` under fairness | hold |
| `reporting` | `MessageFits`, `NoneVanishes`, `InOrder`, refinement of `BoundedFifo`, and `TakenIsSettled` under fairness | hold |
| `reporting_fit` | `BufferHolds` | violated by the code |
| `recognition` | `TextFits`, `ParseFindsFirst`, `TrackedByRules`, `PositionReadable` | hold |
| `communication` | `AnswersAsked`, and `Rejoined` under fairness | hold |
| `lifecycle` | `ScannerSafe`, `AdvertisingEnds`, `LastRound`, and `ShutdownCompletes` under fairness | hold |
| `supervision` | `OneInstance`, `RunsAsConfigured`, `SettingsKept`, and `ConfFollowsNet` under fairness | hold |
| `supervision_restart` | `Restarted` | violated by the code |

The type invariants of `BleTracking`, `Mempool`, `Reporting`, `Communication`,
`Lifecycle` and `Supervision`, and `RingInv` of `PktQueue`, are proved and no longer run.

`ble_safety` says: no slot has two owners (`OneOwner`, `TempOneOwner`), none is
forgotten and `used_slots` is exact (`NoSlotLost`), the list has one node per
device (`DistinctObjects`), data never crosses devices although the examiner
writes through a pointer without a lock (`OwnData`, `StalePointerHarmless`), a
header is off by at most one although the examiner may still write to a detached
node (`HeaderAlmostExact`), no record is doubled
(`RecordsDistinct`), and a button press stays until its node leaves
(`PressKept`).

`list_pointers` says: the sequences of `BleTracking` are what the pointers say
whenever they are read, forward and backward (`ListWhole`, `LocalWhole`), and what a
thread writes without the lock no other thread reads or writes (`OwnWrites`).

`mempool` says: whatever addresses `malloc` returns, no slot is handed out twice
and every one is accounted for (`SlotsAccounted`, `IsSlotPool`). `mp_free` refuses
the first slot of the lowest block (`Mempool.c:233`), and the first slot of any block
whose distance to the next lower one is not a multiple of the slot size;
`OnlyFirstSlotsLeak` says that it refuses no other.

`reporting` says: an object is in one place at a time, on its way from the list to
the socket, and where it is lost the code can name the reason: a full or freed
queue, the cleaner, the network (`NoneVanishes`); objects leave in the order they
were filed (`InOrder`); one taken for a message is settled, even if the handler, the
send thread and `udp_release` meet (`TakenIsSettled`); a message of records that have
36 bytes of payload and response at most fits (`MessageFits`).

`recognition` says: whatever its lengths say, the text of a field fits its buffer
(`TextFits`). Where the lengths are true, the search finds the first field of the wanted
type that is whole but for its last byte, and nothing else, wherever the payload is cut
(`ParseFindsFirst`); an empty field, of which the last byte is the type, is passed over
when that byte is missing. A device is tracked exactly when some rule accepts what
arrived, so the order of the rules in `config.conf` decides nothing, if no prefix begins
another (`TrackedByRules`). A receiver reads from what `enable_advertising` packed the
area, the floor and the fractions of a degree of the sender, up to floor 255
(`PositionReadable`); the whole degrees are not in the UUID.

`supervision` says: one process at most is past the lock file (`OneInstance`); one
with an old configuration is about to be stopped, read the file during an upgrade, or was
told to stop between `get_config` and `sigaction`, which it ignores
(`RunsAsConfigured`: the last two are not stopped by anybody).

The settings of the box can be lost, in two ways and no other (`SettingsKept`). The
upgrade may end between `tar` and `mv`: by a power cut, or by a restart of `network.sh`,
whose kill finds the upgrade's script and its `tar`. Or a `sed -i` of `network.sh` reads
the package's file before the `mv` and renames its copy after it. The invariant says that
the many other meetings of the two scripts are harmless, a `sed` that began before `tar`
among them. The address in `config.conf` follows the router, although either script may
undo the other or end it (`ConfFollowsNet`).

`communication` says: the beacon prepares an answer only if that question arrived
at some time, though the type it acts on may be left from an earlier packet, half
a packet or the stack (`AnswersAsked`); and a gateway that has forgotten the
beacon knows it again, whatever is lost and whichever request the full queue
refuses (`Rejoined`), provided strays cease. It holds because `main` sends its
request for ever: the condition that would send it only after a silence is
commented out (`LBeacon.c:3047`), and `send_join_request` is described as if it
were not (`LBeacon.h:782-783`). One of these requests may carry a piece of the
beacon's address, as the communication thread rewrites `g_config.local_addr`
(`LBeacon.c:1214-1215`) while `main` reads it (`LBeacon.c:1147`).

`lifecycle` says: the scanner is not in a round when its pool is gone, whenever
Ctrl-C comes and whichever start failed (`ScannerSafe`); no thread begins a round
on what is destroyed, so each meets it in one round at most (`LastRound`); the
process ends, unless the scanner waits in `read` for ever (`ShutdownCompletes`); and
its dongle is silent by then, unless it refused or the start failed
(`AdvertisingEnds`). `main` waits for the scanner only: the pools, locks and queues are
destroyed while another thread may be in its last round.

Findings:

1. A report below `scan_rssi_coverage` is skipped by a `continue` past the
   `mp_free` at the end of the loop (`LBeacon.c:1974`). Its slot is gone for
   good; after enough of them every report is dropped.
2. The space set aside for a record does not cover its scan response
   (`LBeacon.c:1637`). Fifty-one tags with 31 bytes of payload and 31 of response make
   a message longer than its buffer. `MessageFits` says up to which lengths it fits.
3. `network.sh` starts LBeacon right after it has told the old one to stop
   (`network.sh:16-18`). The old one holds the lock file until it has ended, the new
   one gives up, and then none runs until the next boot, upgrade or change of
   address.

### Bounds

`MCBleTracking`: two tags, so that one can be mistaken for the other; three slots
of `mempool` in three blocks of one, so that the pool expands twice, runs dry,
and meets the threshold of the cleaner at every size; `s1` is `Stuck`, so that a
leaked slot goes round too; two temp slots, so that one is under examination
while another is scanned and listed; `Batch` = 2, so that a poll leaves a tail
and a message has two records to confuse. The temp slots are symmetric. Two tags
suffice for the wrong-device properties, since each relates two devices.
`ble_progress` has one temp slot and adds a weak signal and a stranger.

`Mempool`: slots of 3 bytes, blocks of 2, three blocks among seven addresses, so
that the distances between blocks are multiples of the slot size and not, and
blocks lie in every order.

`Reporting`: a buffer for two records in one mixture and for one in another, so that
the budget decides; three objects (`MaxReports`), so that a message has a first and a
last and leaves a tail; a ring of two cells, which wraps and fills up, with a packet
in hand; basic information at its limit and one byte over. `reporting_fit` has the
code's buffer of 8192, objects that are all alike, and one poll after the last is
filed (`OnePoll`): its error needs no more.

`Recognition`: fields of every kind the examiner tells apart, in lists of up to three,
cut at every byte; lengths 0, 1, near the end of the payload and far beyond; name rules
in all 24 orders. `Advertising`: positions at the edges of what `config.conf` may
say, floors around 0, 15 and 255.

`Supervision`: three processes, so that one may stop, one run and one start; two
addresses; three events (`MaxEvents`) of the router, the package and the power. That
makes 1.6 million states, with both ways of losing the settings among them.

`Communication`: queues of one packet, so that a full queue refuses in every
position and a join request competes with an answer for the place; one stray of
each kind the parser treats on a way of its own: one that fails the hash, one cut
short after its type, one whose type is no number. The set of packets in the
network is bounded by the three the gateway sends. `ListPointers`: three nodes, so
that a cut leaves first, inner and last nodes on either side. `Lifecycle` has no constants:
its threads are those of the program, and its state space is finite.

### Fairness

`FairSpec` has weak fairness of the scanner's link, the examiner, the reporter
and the cleaner, one condition for each thread: each is a loop that waits only
for locks held for bounded times and for `sleep_t`. The arrival of reports
(`ScanAlloc`) and of polls (`RepPoll`) is not fair: radio and gateway owe nothing.

`Communication`: the threads and time are weakly fair. Of the network it is assumed
that a packet does not stay for ever (it is lost or delivered), and that of join
requests sent again and again one arrives (strong fairness of `GatewayJoin`);
without that no protocol could rejoin. Strays are not fair, and `Rejoined` asks
that they cease: with a full receive queue they could crowd out everything else.

`Reporting`: the handler, the send thread and `udp_release` go on once begun. Polls,
reports and the shutdown are not fair.

`Supervision`: cron runs `network.sh` again and again and the router answers again and
again (strong fairness of `NetCompare`); scripts that have begun go on, and so does a
process that starts. `Exit` is not fair: a stopping process waits for its scanner.

`ListPointers`: the reporter runs. `Lifecycle`: threads are weakly fair, and a worker's
round ends (strong fairness of `WorkDone`), as each takes `list_lock` a bounded number
of times. `ScanRead` is not fair: nobody promises that the dongle has another event.
`Sigint` and the socket threads are not fair.

## The proofs

`BleTrackingProofs` proves for all sets of addresses, slots, blocks and reports:
`TypeCorrect`, `SlotsOwnedOnce`, `TempSlotsOwnedOnce`, `ObjectsDistinct`,
`DataOwn`, `PointerHarmless`, `PressesKept`. They follow from one inductive
invariant, `IInv`. It adds to the properties:

- `ExInv`: past its detach the examiner has a report, and a pointer where it
  uses one. Without it the address under examination is undefined.
- `RepInv`: the reporter's list is empty exactly between polls, and `hdr` covers
  the nodes not yet visited; so `hdr` never goes negative.
- `PoolInv`: no list holds a slot of a block not yet taken. So an expansion
  brings only slots nobody has.
- `DataInv`: while the examiner is between lookup and insertion no listed node
  has the address it is about to insert: it is the only thread that inserts.

The step is proved by one lemma per group of actions; frame lemmas say which
variables each part reads. The assumptions are those of `BleTracking`: blocks
partition the slots, sentinels are distinct from what they stand beside.

The same module proves `NothingLost`: the free list, the lists, the reporter's
nodes, the examiner's new node and the refused slots together are all slots of
the blocks taken, and `used_slots` counts those not free, for pools of any size.
It also proves `CountAlmostExact`, for messages of any length. Its
invariant, `ErrorInv`, says that the header is exact while the examiner can still change a
node of the message: it holds one pointer at the detach, changes one node, and
gets no other pointer into the message.

`EachOnce` proves `RecordsDistinct`. Its invariant, `RecInv`, says that the nodes of the
reporter's list are of different devices and that no record written is of the device
of a node still to be written: the list was cut from one whose devices differ
(`DataInv`), and from then on no thread changes an address in it (`MacsStay`).

`MemoryProofs` proves `Accounted`, `LeakBounded` and the refinement of `SlotPool`, for
slots, blocks and pools of any size and whatever addresses `malloc` returns. To the
invariants `IInv` adds that no two blocks overlap; then the block that starts closest
below a slot is its own, unless the slot is the block's first (`InnerSlots`).

`ReportingProofs` proves, for every length `N` of the ring, `RingInv` (inductive with
the types) and the refinement of `BoundedFifo`, first for any caller (`RingSpec`),
then for the threads of `Reporting`: every step of theirs is a step of the ring or
leaves it alone. The refinement needs how `Contents` changes: `StoreAppends` and
`DeleteTakesHead` do the arithmetic of the indices on both sides of the wrap. `Fits`
proves `MessageFits` for every number of objects and every buffer; its invariant,
`Budget`, says that 125 bytes of the buffer belong to every record taken, whatever its
node was then, 35 are spare, and what is written stays below.

`Ordered` and `Conserved` prove `InOrder` and `NoneVanishes` for any number of objects.
Their invariant, `FlowInv`, follows an object from stage to stage. Every list is a run
of consecutive numbers (`Row`), as objects are filed at one end and taken from the
other; so a message, which has only a first and a last number, carries exactly the
local list (`PackedCarries`). While records are taken the two lists adjoin, as
`list_lock` is held (`ListFlow`). The messages in the queue carry ever higher numbers,
all below the local list's (`QueueFlow`): two queued messages never share an object,
and the oldest goes first. Frame lemmas say which fates each part reads, and there is
one lemma per step that moves an object.

`CommunicationProofs` proves `NothingUnasked` for queues of any length and any
set of strays. The invariant adds that `pkt_type` itself, and every answer on the
stack, was received at some time.

`LifecycleProofs` proves `PoolsOutliveScanner` and `NoRoundAfter`. The argument is
Dekker's: the scanner raises its flag and then reads `main`'s, `main` lowers its
flag and then reads the scanner's, so that one of them sees the other. `FlagInv`
says it for every position, `GoneInv` that `main` is past what is destroyed,
`StartInv` that a thread not yet started does not run.

The same module proves `NoAdvertLeft`, from an invariant that says of each position
of `main` whether the dongle may be on.

`RecognitionProofs` proves `TextAlwaysFits` for every payload of up to `MaxEir` bytes
and all rules. The field is usable only if it ends in the payload, so it has at most
`MaxEir` + 1 bytes (`FieldFits`): this is the strengthening of the types that is
inductive.

`FirstFound` proves `ParseFindsFirst` for every advertisement of fields with a length
and a type. Its invariant, `WInv`, says that the walk stands where a field begins, and
that a field of the wanted type it has passed had its type cut off (`AtField`): so what
it takes is the first of its type, and when it fails there is none. `TrackedAsRules`
proves `TrackedByRules` from `PlainRules`: the rules are apart, and have identifiers
their list has a use for. `MCRecognition` has TLC evaluate it on the rules of the
configuration in the repository. The invariant, `RuleInv`, says at each stage which rules are
out: of two prefixes of one text one begins the other (`PrefixesNest`), so the
first rule that fits is the only one.

`PositionAlwaysReadable` proves `PositionReadable` for every accepted configuration with
a floor up to `MaxLevel` (4095, where `%X%X` has three digits). The advertisement has a
field of fixed length before the one with the position, the UUID has 32 or 33 digits by
its floor, either of which makes 16 bytes (`PositionField`), and reading eight decimal
digits gives the number they were made of.

`SupervisionProofs` proves `SingleInstance`, `NoStaleProcess` and `SettingsSurvive` for
any number of processes, addresses and events. The invariant adds that whoever is
past the lock holds it (`LockInv`), what the variables of the scripts hold at each of
their commands (`ReadInv`), and that a process which works with an old configuration is
in the list of a kill to come (`RunInv`). For that the lists must be sound (`ListInv`):
when one script's kill ends the other, whose list may name a process with an old
configuration, its own list has every process alive, so none is spared. `OwnInv` says
that, while nothing is spoilt, `config.conf`, the copy the upgrade keeps and the one `sed`
is about to rename have the settings of the box, except for `config.conf` between `tar`
and `mv`.

`MemoryProofs` also proves `ListAlwaysWhole`, `LocalAlwaysWhole` and `WritesOwn`, for
any number of nodes. Pointers are wrong while an operation is under way; the inductive
invariant `LinkInv` therefore speaks of `After(t)`, the pointers once thread `t` has done
the writes it has begun. By `ListInv` and `LocalInv` the list of the holder of
`list_lock` is a ring in its `After`, and the reporter's a chain or a ring in its own. A
write of `t` leaves `After(t)` as it is, and no other ring sees it: `OwnInv` says which
entries a thread writes, `NodesInv` that a node is in one list. One lemma per action
gives the ring the action's writes will make (`init_entry`, insertion at the end,
removal, the cut). `LinksImply` turns the ring into the sequences one reads by following
`next` and `prev`.

Induction. What a loop or a fold computes is proved with `SetInduction` of `ListFacts`:
a set of numbers that has 0 and every successor has them all. It is proved by counting, from
the library's facts about finite sets, and speaks of a set where the library's induction
speaks of an operator. With it `FlatExists` gives `FlattenSeq` its values (`Joined`), and
`Loop` gives them to `Visited`.

Model-checked only: liveness (`TagTracked`, `PollAnswered`, `UsageRelieved`,
`TakenIsSettled`, `Rejoined`, `ShutdownCompletes`, `LoopEnds`, `ConfFollowsNet`), as
fairness and `ENABLED` are out of the prover's reach. Every other property of
the runs that hold is a theorem.

## Plan

Done: the pipeline, the pool, the queue, the lists, the communication, the report's
way to the socket, the recognition of tags, the advertisement, the lifecycle and the
supervision, each with its safety proved.
What is left: that the pipeline's sequences and the lists' pointers are one system,
as a refinement of the steps of `BleTracking` by those of `ListPointers`; and what
makes liveness work (which step is enabled where), as safety lemmas.

## Not modelled

BR/EDR scanning and OBEX push (never started, or under an undefined macro); the parsing
of `config.conf`'s lines; the parameters of the HCI requests; `self_check.sh`, which
looks and changes nothing, and `setup.sh`; `thpool.c` and most of `BeDIS.c` (not called
by LBeacon); the encryption library (not in the repository); log output and file
formats.
