# Verification of libiio's iiod

TLA+ models of the concurrent core of this repository, TLC configurations that
check them on small instances, and TLAPS proofs of what matters most for every
instance. `PROJECT.json` maps every definition to the lines it models, lists the
runs, the hazards of the code, the mutants that show each property can fail, and
the theorems.

Run a model with `tlc -config MCModule.cfg MCModule`, a proof with
`tlapm M_proofs.tla`.

## 1. The system

libiio is a C library for Industrial I/O devices: contexts contain devices,
devices channels and attributes, and samples travel through buffers. The same API
works on the local machine (sysfs, ioctl) or through a backend that talks to the
daemon `iiod` over TCP, USB or a serial line. This repository's iiod is extended
for a software-defined radio: buffers may carry metadata per frame, be captured
into a ring of DDR memory, hop between frequencies on a plan or scan them
adaptively.

The library is mostly stateless plumbing under the caller's own serialisation.
The logic that is hard to get right is in the daemon, and in the two places of the
library where two threads meet: the blocks of the local backend and the metadata
buffer of a remote one. That is where the models are.

### Inventory

| Component | State | Operations | Interacts with | Correct when |
|---|---|---|---|---|
| **Shared device buffers** (`iiod/ops.c`) | `DevEntry` per open device: list of clients, mask, buffer, `closed`, `cancelled`, `ref_count`; `ThdEntry` per client | open, join, read, write, close, hang-up; worker `rw_thd`: reopen, refill, push, tear down | clients' parser threads, worker in `main_thread_pool`, kernel buffer | one live entry per device; every command answered; entry freed exactly when unused; a close means what it says |
| **DDR ring** (`iiod/ddr-ring-core.c`) | slots, positions, reservations, frame counts, state and reason, continuity of samples | start, reserve, commit, abort, release, discard, fail, cancel, complete | called under `ring_lock` by producer, worker and client | each slot has one owner; frames leave once and in order; one terminal state |
| **Ring capture session** (`iiod/ops.c`) | the ring's entry, producer flags, two locks, two condition variables | producer loop, worker's send path, READBUF, hang-up, CLOSE, stop of the daemon | ring, metadata provider, thread pool | no lost wakeup, storage outlives its users, the session ends |
| **Direct and burst modes** (`iiod/ops.c`) | leased DMA blocks, frame queue, spill to the ring, sealed burst, RAM reservation | asynchronous direct reads, spill, drop, drain, capture burst | ring, local backend, metadata provider | the client sees one queue of frames; gaps exact; leases and reservation returned |
| **Thread pool, main loop** (`iiod/thread-pool.c`, `iiod/iiod.c`) | `thread_count`, `stop`, `stop_fd`, `restart_usr1` | add thread, leave, stop, stop and wait, restart; signals | all threads of the daemon | nobody left after the wait; the wait ends; no signal lost |
| **USB daemon** (`iiod/usbd.c`) | a pool, worker, endpoints and transfer per pipe | open, close, reset of pipes; interpreter over cancellable transfers | main pool, host | endpoints have one owner; a stop ends whatever is in flight |
| **Visit queue** (`iiod/spf-visit-queue.c`) | visits with windows, slices and results; leased blocks with references; reserved blocks and bytes | reserve, bind, feed, close window, take, complete send, expire, cancel, reap, destroy | scan session, DMA blocks, transport | reservation suffices, headroom kept, COMPLETE means complete, nothing leaks |
| **Scan policy** (`iiod/spf-scan-policy.c`) | table of visits, revisit deadlines, pending feedback, remembered sequence numbers, receipts | select, commit, finish visit, feedback, take receipt, stop | scan session, clients' feedback | every target revisited in time; feedback accepted once and answered once |
| **Scan session** (`iiod/spf-scan-session.c`, `spf-scan-radio.c`) | ledger of visits, radio, stop and failure flags | schedule, feed, take output, finish output, stop, cancel, terminal | visit queue, radio, scheduler thread, control commands | every planned visit accounted for once; the radio where the records say; a failure never blocks the terminal record |
| **Hop session, scheduler** (`iiod/spf-hop-session.c`, `spf-hop-scheduler.c`) | event queue, worker's plan, block counters, dwell labels, terminal state | start, on block, accept event, cancel, restore; worker: wait, recall, enqueue | radio, sample clock, blocks | valid samples were on their frequency; radio restored once and for good |
| **Hop policy, GLRT wrapper** (`iiod/spf-hop-adaptive-policy.c`, `spf-scanner-glrt.c`) | lock-free ring of observations, committed dwells, fault; frames and pending results | choose, commit, offer, offer by the host; feed, frame, finish, drain | hop scheduler, acquisition thread, host | feedback taken once, in order and whole; FINAL comes and comes last |
| **Tandem AGC session** (`iiod/spf-tandem-session.c`) | device ownership, event queue, counter baselines | open, acquire, collect, close | metadata provider | each frame has exactly the gain steps of its samples |
| **Metadata provider** (`iiod/spf-buffer-metadata.c`) | provider context, startup discards, buffer sequence, leases | open, before/after refill, get, rebase, close | all of the above | description belongs to the frame; nothing left behind by any failure |
| **Temperature cache** (`iiod/spf-temperature-cache.c`) | sampler thread, last reading | sample, read, stop | sysfs | no stale reading as fresh; bounded stop |
| **Wire protocols** (`iiod/spf-*-protocol.c`) | none | encode, decode, validate | sessions | what a session makes can be encoded and read |
| **Local backend** (`local.c`) | blocks, leases, `last_dequeued`, `cancel_fd` | open, get buffer, acquire, release, cancel, close | kernel driver, iiod's senders | a block is in one place; a cancel ends the call |
| **Client of iiod** (`iiod-client.c`, `network.c`, `usb.c`, `buffer.c`) | the pipe, batches, segments, terminal status, endpoint couples | open, refill, drain, feedback, status, cancel, close | iiod | answers matched to commands; frames in order; a cancelled call returns |
| **Parser, serial, discovery, XML, accessors, tools** | per connection, or none | one call of the library per command | — | — |

`bindings/`, `examples/`, `tests/`, `deps/` and `CI/` are users of the library or
third-party material; the tests and the Markdown documents were read as
statements about the code.

### What is hard here

* **Threads and locks.** A client's parser thread, the R/W worker, a producer
  and the main thread share an entry. `devlist_lock` is taken before
  `thdlist_lock`, `thdlist_lock` before `ring_lock`; slots are filled and sockets
  written with some of them released.
* **Teardown.** The last client to leave starts it, from any state, while another
  client may be opening the same device. Closes wait for workers, workers for
  producers, producers for refills.
* **Failure halfway**: a refill, a metadata read, a write to the socket, a block
  release, the creation of a thread or buffer, a recall of the radio.
* **Two views of one clock.** The schedulers read 32 bits of a counter, blocks
  carry 64, and the thread that retunes runs late by any amount.
* **Two records of one thing.** The ledger of a scan and its visit queue, the
  frame queue of direct captures and the ring behind it, the events of the gain
  device and their counter, the pipe of a client and the commands it believes
  outstanding.
* **Bounded resources**: ring slots, DMA blocks with headroom, event queues,
  mailboxes.

## 2. Plan and its state

| Step | Modules | State |
|---|---|---|
| 1 | `DdrRingCore`, `DdrRing` | checked and proved |
| 2 | `ThreadPool`, `UsbDaemon` | checked and proved |
| 3 | `SharedBuffer` | checked and proved |
| 4 | `VisitQueue`, `VisitQueueCalls` | checked and proved |
| 5 | `Wire`, `HopWire`, `HopSession`, `HopFeedback` | checked; `HopFeedback` proved |
| 6 | `ScanPolicy`, `ScanWire` | checked and proved |
| 7 | `ScanSession`, `ScanCapture` (on `VisitQueue`) | checked |
| 8 | `FrameFifo`, `DirectAsync` (on `DdrRingCore`), the refinement between them | checked |
| 9 | `TandemSession`, `MetadataProvider` | checked |
| 10 | `LocalBlocks`, `MetadataClient` | checked and proved |

Composition: `DdrRing` and `DirectAsync` extend `DdrRingCore`; `UsbDaemon` extends
`ThreadPool`; `VisitQueueCalls` and `ScanSession` extend `VisitQueue`, and
`ScanCapture` extends `ScanSession`; `HopSession` extends `HopWire`; `ScanPolicy`
and `ScanSession` extend `ScanWire`; `MetadataProvider` extends `TandemSession`;
`DirectAsync` implements `FrameFifo`.

## 3. Modules

**`DdrRingCore`** translates every function of `ddr-ring-core.c`. A function `F`
becomes `FRet(r)`, what it returns on the ring record `r`, and `F(r)`, the ring it
leaves behind. The sample continuity fields are a second record, which no function
reads together with the first. `Owned` states who owns each slot.

**`DdrRing`** is one exclusive ring session. Variables: the ring, the frame in
each slot, the program counters of producer (`ring_producer_thd`), worker
(`rw_thd`) and client (parser thread), the `ThdEntry` and `DevEntry`, the threads
blocked on `ring_ready_cond` and `rw_ready_cond`, and a history of captured frames.
A step is a critical section of a lock or the work between two of them. Refills
fail, samples are lost, startup frames are discarded, writes fail, the client hangs
up and the daemon is stopped at any point.

**`DirectAsync`** has the other modes of the same worker: direct frames from leased
DMA blocks, direct frames with a ring behind them, and the sealed burst. `dma` and
`ram` say which frame lies in which block and slot, `direct` is
`struct iiod_direct_async`, `meta` its metadata slots; the producer spills the
newest block before the kernel runs out, retires stale frames, and drops the backlog
when a gap makes it useless. **`FrameFifo`** is what a client may rely on: a queue of
frames from which only a drop removes anything unsent, never the frame in transport.

**`ThreadPool`** has each thread of the pool, which may start others as the code
does (a client its worker, a worker its producer), the two halves of
`thread_pool_add_thread_internal` as separate steps, and the main thread through
`main`, the accept loop and `thread_pool_stop_and_wait`. A signal handler runs
between any two steps of the main thread; the pool's threads have signals blocked.
**`UsbDaemon`** adds `usbd_main`, one of the pool's threads, with a pool, a worker,
two endpoints and a transfer per pipe. The host opens, closes and resets pipes; a
transfer belongs to the kernel from `io_submit` until its event is taken.

**`SharedBuffer`** has several clients of one device, and several `DevEntry`s
because the worker of an old one may still be tearing down when the next is
made. A channel is one byte of a sample and a refill brings one sample, which is
enough to tell a client's own share from that of the others. What happens under
`thdlist_lock` is one step, the lookup under `devlist_lock` another. `output` says
whether the device sends or receives; no device does both (a comment of `rw_thd`
says so), and the model relies on it. `cyclic` stands for every exclusive buffer.

**`VisitQueue`** translates every function of `spf-visit-queue.c`, again as
`FRet`/`F`; **`VisitQueueCalls`** is the behaviour: any sequence of calls, since
the session's mutex serialises them, in both modes of `preserve_partial`. One sample
is one byte. A block is fed at any counter not before the last, so gaps, phases and
retunes before the end of a window all occur.

**`ScanSession`** is the session on top of that queue, function by function: the
ledger of planned visits, the radio's recall, attestation and restore, and the
records. **`ScanCapture`** runs it: the scheduler thread, the thread that feeds DMA
blocks, the one that sends (READSCAN with its watchdog), control commands of other
connections and the teardown. `lo` is a history of the frequency at every sample. The policy is any
selection here; **`ScanPolicy`** has it in detail, with an action for each function
of `spf-scan-policy.c`. The lottery may draw any eligible target, because no weight
is ever zero. What the scan session contributes is in the inputs: a snapshot at or
after the end of the last visit, the start it commits, outputs in order, and no call
between a selection and its commit but the stop. A feedback message is any sequence
number for any visit and target; an answer other than ACCEPTED changes nothing.

**`HopSession`** has the sample clock, the radio (with a history `air` of what it
was tuned to at every sample), the scheduler's thread step by step, its event
queue, and the session's calls, between whose steps clock and scheduler go on. The
register the scheduler reads wraps at `Word`, the blocks' counter does not. A
session is opened from a request that has to pass the decoder, and every block's
sidecar and the status are encoded and decoded. **`HopFeedback`** has the loop that
an adaptive plan closes: scheduler, policy, the ring of observations between two
threads without a lock, load by load and store by store, the host's batches and the
detector's results.

**`Wire`** is the form of a record on the wire: its size, and a function from the
offset of a field to the field's value. **`HopWire`** and **`ScanWire`** are the
encoders and decoders with every check they make.

**`TandemSession`** numbers the steps of the gain control, so that a wrong gain is
a wrong number; records pass the device's FIFO, which may lose them, and the
session's queue, and a narrow counter tells how many there were.
**`MetadataProvider`** opens, runs and closes one capture of each kind around it,
with any one call failing, and the temperature thread beside it.

**`LocalBlocks`** has the blocks of one local device between driver and program
with three threads: the owner, one that releases leases, one that cancels.
**`MetadataClient`** has the pipe between a client and the daemon as a queue of
answers, the owner's calls and a cancelling thread, over a socket or USB endpoints.

Each `MC*` module only gives model values and the constants that a `.cfg` cannot
write. Operators commented "Mutant" are faulty variants of the definition that
follows them; no specification uses them.

## 4. Runs

A property that several parts make up is a conjunction of named parts, each with its
own comment. State counts are distinct states.

| Run | Instance | States | Properties |
|---|---|---|---|
| `ddr_ring` | 2 slots, 3 frames, refill errors EIO and EPIPE, samples up to an overflow | 406,425 | `SlotOwnership`, `FramesInOrder`, `StorageInUse`; `OutcomeSound`: the gap-free prefix is right and a terminal state final; `ReadAnswered`; `SessionEnds` |
| `direct_async` | 3 DMA blocks, 2 slots, READBUF of 4 frames, burst of 2, one refused release | 964,908 | `ResourcesReturned`; `GapsExact`; `ImplementsFifo` (refinement of `FrameFifo`); `SessionEnds`. Deadlock is checked |
| `usb_daemon` | 2 threads, 1 pipe | 64,141 | `NoStragglers`; `PipesOwned`; `StopsEnd`; `SignalHeeded`. Deadlock is checked |
| `shared_buffer` | 2 clients with different channels, 2 entries | 460,680 | `EntriesSound`: one live entry, exact references; `ExclusiveReleased`; `CommandsAnswered` |
| `visit_queue` | 2 visits, 3 blocks of 2 samples, partial visits discarded or preserved | 243,902 | `BlocksAccounted`: counters, headroom, reservation; `VisitsWhole`; `SentAsTaken` |
| `scan_policy` | 2 targets, 3 kinds of scan, 3 sequence numbers, 2 receipts | 467,102 | `FeasibleKept`; `NoReplay`; `OneAckEach` |
| `scan_capture` | 2 targets, 4 blocks, one lost block, every failing call | 499,712 | `RadioAttested`; `SessionSound`; `CaptureEnds`. Deadlock is checked |
| `hop_session` | up to 3 dwells of 2 samples, fixed, adaptive and shadow, wrap of the register in the middle | 527,122 | `ValidTuned`; `OutcomeSound`; `Restored`; `Described` |
| `hop_feedback` | ring of 2, 2 profiles, host or detector, wrap of the register | 452,797 | `FeedbackSound`; `FinalDelivered`. Deadlock is checked |
| `local_blocks` | up to 3 blocks, 2 failing calls | 22,327 | `BlocksSound`; `CancelHeeded`. Deadlock is checked |
| `metadata_client` | batches of 2, segments of 2, 4 frames, 2 endpoints, one fault, 2 opens | 650,960 | `PipesSound`; `FramesSound`; `CancelHeeded` |
| `metadata_provider` | 4 kinds of capture, 2 blocks, queues and FIFOs of 1 and 2 events, one failing call | 697,409 | `FramesDescribed`; `LeasesSound`; `CloseEnds` |

**Bounds, and why they are enough.** Two slots and three frames make the ring
fill, wrap and drain its rest; `MaxSample` = 4 stands for UINT64_MAX and is
reached; one startup discard happens or not. Four frames are the fewest in which a
direct capture sends one, queues one and finds a gap behind it; with three DMA
blocks one of them is spilled. Two threads are a client or `usbd_main` and what it
starts, and one pipe is opened, closed and opened again (the invariants also hold
with two pipes in 2.5 million states, and are proved for any number). Two entries
are the old one in teardown and the new one; a third would need a second teardown
still under way, which adds no new pair. Two clients with one and two channels make both orders of
join and leave change the sample size. `Retries` (500 in the code) is 1: the retry
only repeats the lookup. Two visits and windows of up to three samples over blocks
of two cover every phase, shared blocks and visits that wait behind others. Two
targets with a revisit time one tick longer than two slots leave the lottery a choice
at some boundaries and none at others. Three sequence numbers over a window of two
are accepted out of order, repeated in the window and repeated beyond it; two
receipts fill the mailbox. In a scan a visit is one sample with one of transition
before it, so that late recalls and late schedulers miss it or not, and blocks of two
hold two visits' samples. Dwells of two samples with a guard of one, blocks of
three and a register that wraps at 32 from a start at 29 put a wrap into the first or
second dwell; a queue of two events overflows with three dwells. A ring of two
observations wraps and overflows; an event counter modulo 8 is just wide enough for
queue and FIFO, which is what the code's assumption on the width amounts to. Batches
and segments of two are the smallest that can break off in the middle. One fault per
behaviour of provider and client (two of the local backend) shows each error path
with everything that follows it; faults do not interact with each other but through
the states they leave. `CHECK_DEADLOCK FALSE` is set where the system may stop for
good: clients need not send a command, a queue may be destroyed, a clock or a device is
bounded, and for the unreported end of section 5.

**Fairness.** `DdrRing`, `DirectAsync`: threads run; a refill ends by its timeout, a
write because the peer reads or goes; clients need never read or leave, but finish a
command begun, and the interpreter closes for a client that hung up.
`UsbDaemon`: main, `usbd_main` and the workers run; the return of a thread once
`stop_fd` is readable is strongly fair, because every thread function polls that
descriptor between any two threads it may start, and a worker polls its stop event with
every transfer; a transfer ends once it is cancelled, and need not before.
`SharedBuffer`: workers run, commands begun go on. `ScanCapture`: time passes; each
of the four threads goes on when it can for ever, stated as
`<>[]CanX => []<><<X>>_vars` with the thread's guard written out (`CanX`), which is
weak fairness without its ENABLED. `HopSession`, `HopFeedback`: samples come, threads
run, a session call that has begun goes on. `LocalBlocks`, `MetadataClient`,
`MetadataProvider`: the thread in a call goes on; neither hardware nor daemon owes an
answer. Nothing assumes that a client, signal, cancellation or fault ever comes.

## 5. Where the code and what is said about it disagree

Met while modelling. The models follow the code, and the properties say what
holds of it; each case is described here so that nobody reads more into them.

1. **A ring whose frame fails with EPIPE never fails** (`ops.c:2024`).
   `ring_failure_reason` maps `-EPIPE` to a reason that `iiod_ddr_ring_core_fail`
   rejects, the result is ignored, and the ring stays RUNNING without a producer.
   The reader waits for ever, although `rw_thd` says of a failed read "signal the
   error to all connected clients". `-EPIPE` is what the tandem session returns
   when the AGC device is at its end of file. `ReadAnswered` and `SessionEnds` name
   this end as `Unreported`, and show it to be the only one.
2. **An adaptive scheduler can stop before the session has the span**
   (`spf-hop-scheduler.c:223`). After a dwell without a recall the scheduler counts
   from the counter at which it decided, the session from the scheduled edge. The
   lateness adds up on one side, and a finite capture goes on until it is closed.
   `OutcomeSound` of `HopSession` therefore asks scheduler and session to stop
   together of fixed plans only.
3. **The same dwell makes the feedback of the host fault the policy**
   (`spf-hop-scheduler.c:233`, `spf-hop-adaptive-policy.c:159`). The bounds committed
   for a dwell without a recall are not those the session publishes, so the host's
   observation of it does not match. `FeedbackSound` names it (`history.repeated`).
4. **CLOSE_PIPE is not the barrier its comment says** (`usbd.c:140`: "Do not
   acknowledge it while the worker can still own an enabled IIO buffer"). It waits for
   the pipe's threads; the R/W worker is in the main pool, and only exclusive
   buffers are waited for by the close itself. `ExclusiveReleased` is about those; an
   ordinary buffer can be enabled when the acknowledgement goes out.
5. **A block is returned twice** when the visit queue has consumed it and the call
   then fails: the restore of the radio in `maybe_release`
   (`spf-scan-session.c:525`, although the lines above it avoid exactly this for a lost
   block) or `pthread_create` of the scheduler (`spf-buffer-metadata.c:1258`). The
   producer releases what scan_feed did not take (`ops.c:2269`), and the queue
   releases it again.
6. **Leases can outlive the buffer** (`spf-buffer-metadata.c:1494`): a client that
   leaves after the scheduler ended normally and before the last block was fed
   finds neither a thread to join nor a scan to cancel; the producer stops, the
   session is not released, and the queue's blocks stay with it when `rw_thd`
   destroys the buffer, whose comment says "Return every lease before destroying the
   parent buffer" (`ops.c:3079`).
7. **A READBUF can end with -ENODATA under the drop policy.** The worker sees a
   frame, releases `ring_lock` (`ops.c:2790`), a gap drops the backlog, and the send
   finds the queue empty (`ops.c:1782`). `iio.h:1588` promises that replacements are
   acquired until all frames are delivered.
8. **The gap is not rebased across READBUFs** (`ops.c:2173`): the end of the last
   frame sent is forgotten with the segment, while `COUNTER_METADATA_V1.md:65` defines
   the missing samples within a session. `GapsExact` is about one READBUF.
9. **A terminal status can be a frame** (`buffer.c:253`): the status is asked for on a
   pipe that may still hold frames of the segment that broke off, and the first answer
   is taken for it. `PipesSound` excepts this call.

Observations that contradict no document:

* A reader with fewer bytes left than a sample of the buffer, because another client
  enabled more channels in the meantime, is deactivated without an answer
  (`ops.c:2713`) and waits until the sample shrinks again. `CommandsAnswered` names
  this case as `Starved`, and shows it to be the only one.
* When the dwell on the drawn target no longer fits the scan,
  `spf_scan_policy_select` has already applied the pending feedback
  (`spf-scan-policy.c:298`). Its receipts say APPLIED and name as first visit one that
  does not take place.
* A single refill, a status or a session cancel that times out leaves its answer in
  the pipe (`iiod-client.c:968`), where the next call finds it, unless the caller
  closes the buffer. `PipesSound` holds up to that point.

## 6. Proofs

All proofs are for every value of the constants that the named assumptions admit;
no theorem is taken on trust.

**`DdrRing_proofs`**: `TypeCorrect`, `SlotsAreOwned`, `FramesStayInOrder`,
`StorageOutlivesUse` and `OutcomeIsSound`, from `IndInvHolds`. The checked invariants are not inductive:
a cancel takes the producer's reservation away while it fills its slot, so nothing
in `SlotOwnership` and `FramesInOrder` says that the slot is still outside the
occupied ones. The invariant is

    IndInv == TypeOK /\ RingInv /\ ControlInv /\ FramesInOrder

where `RingInv` adds that a slot is left while the producer is at work, that only
a running ring with frames to go has a reservation and that a draining ring has its
target, and `ControlInv` ties the threads' positions to the entry's flags
(`producer_started`, `producer_exited`, `mapped`, `buf`). Assumptions: at least one
slot, any target, any subset of the errors.

`OutcomeIsSound` is both halves of `OutcomeSound`. The first needs `ContinuityInv` next
to `IndInv`: as long as the producer may still commit, every captured frame was
observed, the expected sample follows the last frame, and the reported run is the whole
capture or ends at its first gap. Without the expected sample the next
`observe_samples` could extend the run across a gap. Once a frame overflowed the
counter or was rejected, the producer is on its way out and only the report itself has
to stay right. The second half (`FinalStep`) goes through the calls that touch the
ring: fail and cancel refuse a terminal one, and commit, release and start need one
that is not.

The module begins with lemmas about `DdrRingCore`: each core function keeps the ring
well typed and `Owned`, and what it does to the window of occupied slots. In the
session proof every step leaves the ring alone or is one of these calls.

**`UsbDaemon_proofs`**: `PoolIsEmpty` for the pool alone, for any finite set of
threads, from `TypeOK /\ CountExact /\ NoStragglers`: `thread_count` is the cardinality
of the threads that exist or are about to, so that zero means nobody. This is the
reason why the count is raised before `pthread_create`. Then `UsbPoolIsEmpty` and
`PipesAreOwned`, for any positive number of pipes as well. A worker of a pipe starts threads in the
main pool without being counted there, so the count alone no longer shows that the
pool stays empty. The invariant

    UsbIndInv == IndInv /\ UsbTypeOK /\ PipesInv /\ UsbCounted

adds that `usbd_main` is a running thread of the pool from its first request to its
return (`UsbCounted`), that what a pipe holds follows from where its worker is, that
the pipes `usbd_main` has stopped for a request have no worker until the request is
carried out, and that a stop event is pending only for the pipe that is waited for
(`PipesInv`). A worker is therefore outlived by `usbd_main`, and `usbd_main` by the
wait.

**`SharedBuffer_proofs`**: `EntriesAreSound` and `ExclusiveIsReleased`, for any
finite set of clients, any number of entries, any masks and number of retries, from

    IndInv == TypeOK /\ RefsInv /\ DevInv /\ EntryInv /\ ClientInv /\ ExclusiveInv

`EntriesSound` is not inductive: a step of one client is only safe if the others'
positions agree with their entries. `RefsInv` says that `ref_count` is one for the
worker and one for each client at the entry, two while a close waits, as
cardinalities; `DevInv` that a live entry is the one clients find; `EntryInv` that an
entry is closed from the moment its worker leaves its loop, with an empty list and no
buffer; `ClientInv` which list a client in the middle of a command is on; and
`ExclusiveInv` that an exclusive entry has one client, and that a close that does not
wait finds the entry closed.

**`VisitQueue_proofs`**: `BlocksAreAccounted`, `VisitsAreWhole` and `SentIsAsTaken`, for
every configuration the constructor admits, any tokens and counters, from

    IndInv == TypeOK /\ QueueInv(q) /\ AttestedInv(q, attested)

where `QueueInv` has four parts. `VisitInv` and `ReservationInv` say what a visit is on
its own. A reservation is made before the phase of the blocks is known, so the first
slice may be short; from then on what a visit lacks lies beyond all that was fed and
fits into `remaining_blocks` whole blocks. `VisitsInv` adds that only the newest visit may wait
for its window, since `feed` asks no other before it hands out samples. `SumsInv` are
the counters, and `HeadroomInv` the headroom, counted from the blocks some visit
refers to: the others wait for `reap`, whose release may fail. `AttestedInv` ties the attestations, which the queue
itself forgets, to the results. Each function of the core has a lemma: it keeps
`QueueInv`, and leaves the visits that are being sent as they are.

**`ScanPolicy_proofs`**: `DeadlinesAreKept`, `NoFeedbackReplayed` and
`ReceiptsAreExact`, for every configuration that `spf_scan_policy_init` admits, any
number of targets, any size of window and of mailbox, from

    IndInv == TypeOK /\ AcksInv /\ WindowInv /\ TableInv /\ SelectionInv /\ DeadlineInv
              /\ OneAckEach

`FeasibleKept` speaks of the deadlines at the current boundary only. `DeadlineInv` is
the schedule behind it: if from now on the targets are visited by increasing deadline (in turn, in
a continuous scan), each with the longest dwell and transition, every one of them is
in time. A target is eligible when choosing it leaves this true for the others,
which needs the number of targets due before a time and not only the deadlines one by
one; `SelectionInv` carries the choice from `select` to `commit`, `TableInv` keeps
visits within the scan and the table. `NoReplay` needs that a number which is neither
remembered nor below the window was never accepted (`WindowInv`). `OneAckEach` is
inductive once receipts are well formed (`AcksInv`).

**`LocalBlocks_proofs`**: `BlocksAreSound` and `CancelledCallsDeliverNothing` (the
action part of `CancelHeeded`), for any number of blocks, from

    IndInv == TypeOK /\ SessionInv /\ QueueInv /\ LeaseInv /\ CallInv /\ PlaceInv
              /\ CancelInv

`PlaceInv` gives every block its place, by counting its copies in the driver's two
queues, its leases and the program's last block. `CallInv` and `LeaseInv` say what the
thread in a call knows of the block it dequeued or hands back between two steps, during
which the releasing thread and the canceller run; `SessionInv` that blocks exist only
while the device is open in high-speed mode; `CancelInv` that a call begun after the
cancellation passes the poll only without blocking.

**`HopFeedback_proofs`**: `FeedbackIsSound` and `FinalComesLast` (the safety part of
`FinalDelivered`), for every number of dwells, every size of ring, block, dwell and
guard, every epoch and every lateness, from

    IndInv == TypeOK /\ RingInv /\ HostInv /\ PlanInv /\ AgreeInv /\ MatchInv /\ DrainInv

`RingInv` is the lock-free ring seen index by index: the slots between `read` and
`write` hold what was offered, and while the writer stores, fewer than `Capacity` are in
use, so its slot is none of them. `HostInv` follows a batch of `offer_host` from item to
item. `AgreeInv` says that policy and session have the same samples for every dwell as
long as none was repeated, over the events still in the queue; `MatchInv` carries this
to the observations on their way, from which `bind_observation` never refuses one.
That `Word` is greater than one is what makes a shift by a sample no epoch.

**`MetadataClient_proofs`**: `PipesAreSound`, `FramesAreSound` and `PoisonStays` (the
`PoisonSticks` part of `CancelHeeded`), for every size of batch and segment, any number
of frames, faults, opens and couples, from

    IndInv == Types /\ Control /\ WireInv /\ OrderInv /\ EpInv

`AnswersMatched` says that no answer was misread, and nothing of the answers that are
still unread. `WireInv` does: they are all for the call that waits for them (`Asking`),
for the call that broke off on its way out (`Broken`), or, between calls, the rest of a
segment (`Segment`), unless the pipe is poisoned or the buffer has failed. A segment is
closed by its first answer without a frame, so `direct_frames` is never too small for what is
unread. `OrderInv` numbers the frames through from the last one the program got, over
those in memory and those of a batch half read, to those in the pipe and the last the
daemon sent; a batch that failed drops its frames, and therefore poisons. `Control` is
what a call found and nobody else changes while the cancelling thread runs between its
steps. `EpInv` gives each couple in use to one open device: a failed open returns its own
couple, and the pointer a closed device keeps to a couple of another does no harm.

For the proofs a few definitions of the models avoid recursion, folds and strings at
large: the windows of `HopFeedback` are given per event by the last recall before it
(`ValidStart`), the receipts of `ScanPolicy` by rank (`Nth`), the sums of `VisitQueue`
as the number of pairs of a visit and one of its units (`Count`), the answers of
`MetadataClient` by the calls they belong to (`Calls`).

**Only model-checked.** Liveness (`ReadAnswered`, `SessionEnds`, `StopsEnd`,
`SignalHeeded`, `CommandsAnswered`, `CaptureEnds`, `FinalDelivered`, `CloseEnds`, the
liveness in `Restored` and `CancelHeeded`) is beyond the provers: fairness
and ENABLED have no backend here. Checked on the instances of section 4 and not proved
are the safety properties of the three modules that put the most threads and calls together, where an
inductive invariant would have to relate the positions of up to four threads to the
queue, the radio and the wire: `RadioAttested` and `SessionSound` of the scan (whose
queue is proved above), `ValidTuned`, `Restored`, `OutcomeSound` and `Described` of the
hop session, `FramesDescribed` and `LeasesSound` of the provider. `ResourcesReturned`,
`GapsExact` and the refinement `ImplementsFifo` of the direct capture are not proved
either (lemmas about its ring's functions are, with `DdrRing`): the mapping reads the
queue off the kernel's blocks, the ring and the metadata slots at once, and its proof
needs the invariant of all three modes of the worker.

## 7. Not modelled

Listed with the reasons in `PROJECT.json`. In short: the grammar and the attribute
commands, discovery, serial lines, XML, platform wrappers and accessors are data or
I/O, or one call under the caller's own lock; the detector, the scan library and the gain
sampler are outside the repository and appear as open choices. Within the modelled
parts, statistics and high-water marks, logging, CPU affinity, spurious wakeups (which
re-check their condition), byte order and checksums of the records (a checksum is
taken to tell all records apart), the layout of the metadata header, the memory-mapped
`get_buffer` of the network backend and the retry of an exclusive open in real time (500
times 100 µs) are left out.
