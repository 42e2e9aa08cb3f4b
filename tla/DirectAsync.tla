---------------------------- MODULE DirectAsync ----------------------------
(***************************************************************************)
(* The direct asynchronous capture of iiod (iiod/ops.c): one READBUF asks  *)
(* for a number of frames; direct_async_producer_thd leases DMA blocks of  *)
(* the kernel and queues them, rw_thd writes the frames to the client      *)
(* straight from the leased blocks.  With a RAM ring as extension, blocks  *)
(* are copied to ring slots before the kernel runs out of them.  The       *)
(* sealed burst, the other mode of the same worker, captures into RAM      *)
(* before it sends the first frame.                                        *)
(*                                                                         *)
(* Every step is one critical section of ring_lock or thdlist_lock, or the *)
(* work between two of them, as in DdrRing, which also models the          *)
(* reference count of the entry.  A frame is one unit of samples, named by *)
(* its position in the sample counter.                                     *)
(***************************************************************************)
EXTENDS DdrRingCore, Sequences, FiniteSets

CONSTANTS
    DmaBlocks,          \* allocated_kernel_buffers
    BurstFrames,        \* frame_count of a sealed burst
    Targets,            \* the frame counts a READBUF asks for
    MaxStartupDiscards, \* IIOD_BURST_MAX_STARTUP_DISCARDS
    StaleMargin,        \* IIOD_DIRECT_STALE_RETRY_MARGIN
    MaxFaults           \* bound: block releases the kernel refuses

ASSUME DmaAssumption == DmaBlocks \in Nat /\ DmaBlocks >= 3 /\ TargetFrames = 0
ASSUME TargetsAssumption == Targets \subseteq Nat \ {0}

VARIABLES
    mode,       \* the OPEN asked for direct frames, with a ring, or for a burst
    reserved,   \* burst_reserved: held by this entry, by another one, or free
    burst,      \* entry->burst
    ring,       \* entry->ring.core, when there is an extension
    ram,        \* the frame in each ring slot
    dma,        \* the frame in each leased DMA block, None while the kernel has it
    direct,     \* entry->direct
    meta,       \* the metadata slots: first sample and missing samples before it
    expected,   \* provider: end of the last frame it described, or None
    seq,        \* device: position of the next frame
    producer,   \* direct_async_producer_thd: where it is
    frame,      \* direct_async_producer_thd: its locals for the current frame
    error,      \* direct_async_producer_thd: error
    discards,   \* direct_async_producer_thd: startup_discards
    rw,         \* rw_thd: where it is
    write,      \* send_direct_async_data: its ret is not negative, release_ret is 0
    thd,        \* the client's struct ThdEntry
    client,     \* the client's parser thread: where it is
    entry,      \* struct DevEntry: buf, the RAM mapping, cancelled, closed
    ring_ready, \* threads blocked on ring_ready_cond
    rw_ready,   \* threads blocked on rw_ready_cond
    stopped,    \* main_thread_pool is stopped
    faults,     \* releases refused so far
    sent        \* history: the last frame written to the client

captureVars == <<ram, dma, meta, expected, seq>>
producerVars == <<producer, frame, error, discards>>
storageVars == <<mode, reserved, burst>>
vars == <<storageVars, ring, captureVars, direct, producerVars, rw, write, thd, client, entry,
          ring_ready, rw_ready, stopped, faults, sent>>

None == -1
Blocks == 1 .. DmaBlocks
Frames == 0 .. MaxSample - 1
leased == {b \in Blocks : dma[b] # None}

\* struct iiod_direct_async_frame; iq_offset, iq_bytes and metadata_bytes are the
\* same for every frame.
NoMeta == [first |-> None, missing |-> 0]
NoFrame == [block |-> None, frame_end |-> None, ring_slot |-> 0, ring_backed |-> FALSE]

NoLocals == [block |-> None, slot |-> None, missing |-> 0, result |-> "OK"]

\* struct iiod_direct_async before a READBUF, and after its storage is released
DirectOff ==
    [requested |-> FALSE, producer_started |-> FALSE, producer_exited |-> FALSE,
     cancelled |-> FALSE, consumer_active |-> FALSE, error |-> FALSE,
     frames |-> << >>, capacity |-> 0, dma_headroom |-> 0, dma_count |-> 0,
     head |-> 0, tail |-> 0, count |-> 0, target_frames |-> 0, consumed_frames |-> 0,
     last_consumed_frame_end |-> None, stale_metadata_streak |-> 0,
     dropping |-> FALSE]

Init ==
    /\ mode \in {"direct", "extended", "burst"}
    /\ reserved \in {"free", "other"}
    /\ burst = [state |-> "OFF", frames |-> << >>, next_frame |-> 0]
    /\ ring = CoreInit /\ ram = [s \in Slots |-> None]
    /\ dma = [b \in Blocks |-> None]
    /\ direct = DirectOff /\ meta = << >>
    /\ expected = None /\ seq = 0
    /\ producer = "off" /\ error = "none" /\ discards = 0
    /\ frame = NoLocals
    /\ write = [ok |-> TRUE, released |-> TRUE]
    /\ rw = "open" /\ rw_ready = {} /\ ring_ready = {}
    /\ thd = [linked |-> TRUE, active |-> FALSE, fits |-> TRUE, remaining |-> 0,
              err |-> FALSE]
    /\ client = "opening"
    /\ entry = [buf |-> FALSE, mapped |-> FALSE, cancelled |-> FALSE, closed |-> FALSE]
    /\ stopped = FALSE /\ faults = 0
    /\ sent = [meta |-> NoMeta, iq |-> None, after |-> None, first |-> TRUE]

\* rw_thd holds thdlist_lock while it sends a frame and while it closes the entry.
Locked == rw \in {"open", "bursting", "sending", "sent", "final"}

extension == mode = "extended"

Signalled(failed) == [thd EXCEPT !.active = FALSE, !.err = failed]

\* The i-th position behind position p of the frame queue.
Behind(p, i) == (p + i) % direct.capacity

-----------------------------------------------------------------------------
(* Storage *)

\* direct_async_prepare: the kernel keeps dma_headroom blocks while the ring is used.
DirectPrepare(target, dropping) ==
    LET beyond == IF target > DmaBlocks THEN target - DmaBlocks ELSE 0
        useful == IF ~extension THEN 0 ELSE IF beyond > SlotCount THEN SlotCount ELSE beyond
        headroom == IF useful = 0 THEN 0 ELSE IF DmaBlocks > 4 THEN 3 ELSE DmaBlocks - 2
        capacity == DmaBlocks + useful - headroom
    IN  [DirectOff EXCEPT !.requested = TRUE, !.frames = [s \in 0 .. capacity - 1 |-> NoFrame],
                          !.capacity = capacity, !.dma_headroom = headroom,
                          !.target_frames = target, !.dropping = dropping]

\* The blocks that the frame array still refers to.
HeldBlocks == {direct.frames[s].block : s \in DOMAIN direct.frames} \ {None}

\* iiod_direct_async_segment_is_complete
SegmentIsComplete ==
    /\ direct.requested /\ direct.producer_started /\ direct.producer_exited
    /\ ~direct.consumer_active /\ ~direct.cancelled /\ ~direct.error
    /\ direct.count = 0 /\ direct.consumed_frames = direct.target_frames

\* iio_buffer_block_release of the blocks bs.  What a slot held when it is free
\* again, and what a metadata slot held when its frame is gone, is never read.
Returned(bs) == [b \in Blocks |-> IF b \in bs THEN None ELSE dma[b]]
Occupied(r) == [s \in Slots |-> IF r.slots[s] = "FREE" THEN None ELSE ram[s]]
Described(d) == [s \in DOMAIN d.frames |-> IF d.frames[s] = NoFrame /\ s # frame.slot
                                           THEN NoMeta ELSE meta[s]]

\* The pending frames are those behind the one in transport.
Keep == IF direct.consumer_active THEN 1 ELSE 0
PendingAt(i) == direct.frames[Behind(direct.head, Keep + i - 1)]
PendingCount == direct.count - Keep
ActiveRing == direct.consumer_active /\ direct.frames[direct.head].ring_backed

\* Pending frames in RAM occupy the slots the ring would hand out next, in order.
RingOrder ==
    LET first == IF ActiveRing THEN NextSlot(ring.consumer_position)
                               ELSE ring.consumer_position
        before(i) == Cardinality({j \in 1 .. i - 1 : PendingAt(j).ring_backed})
    IN  \A i \in 1 .. PendingCount :
          IF PendingAt(i).ring_backed
          THEN extension /\ PendingAt(i).ring_slot = At(first, before(i))
          ELSE PendingAt(i).block # None

\* direct_async_drop_pending checks both storages before it touches either.
DropPendingCheck ==
    LET ramFrames == Cardinality({i \in 1 .. PendingCount : PendingAt(i).ring_backed})
    IN  IF direct.count < Keep \/ (extension /\ ring.consumer_reserved # ActiveRing)
           \/ ~RingOrder
        THEN "EIO"
        ELSE IF ramFrames = 0 THEN "OK"
        ELSE IF DiscardPendingRet(ring) # "OK" THEN DiscardPendingRet(ring)
        ELSE IF DiscardedFrames(ring) # ramFrames THEN "EIO" ELSE "OK"

\* It then drops the ring's frames and releases the blocks of the others.  The
\* release of the bad-th pending frame is refused, 0 if none is: what comes
\* before it is gone, and the counters stay as they were.
DropPendingRing ==
    IF \E i \in 1 .. PendingCount : PendingAt(i).ring_backed
    THEN DiscardPending(ring) ELSE ring

DroppedUpTo(bad) == {i \in 1 .. PendingCount : bad = 0 \/ i < bad}

DropPendingBlocks(bad) == {PendingAt(i).block : i \in DroppedUpTo(bad)} \ {None}

\* Mutant: the frame in transport is dropped as well.
DropPendingDirectAll(bad) ==
    [direct EXCEPT !.frames = [s \in DOMAIN direct.frames |-> NoFrame],
                   !.dma_count = 0, !.count = 0, !.tail = direct.head]

DropPendingDirect(bad) ==
    [direct EXCEPT
        !.frames = [s \in DOMAIN direct.frames |->
                      IF \E i \in DroppedUpTo(bad) : s = Behind(direct.head, Keep + i - 1)
                      THEN NoFrame ELSE direct.frames[s]],
        !.dma_count = @ - Cardinality(DropPendingBlocks(bad)),
        !.count = IF bad = 0 THEN Keep ELSE @,
        !.tail = IF bad = 0 THEN Behind(direct.head, Keep) ELSE @]

\* The releases that can be refused: none, or one of the pending DMA frames.
BadRelease == {0} \cup {i \in 1 .. PendingCount :
                           faults < MaxFaults /\ PendingAt(i).block # None}

\* The whole call, for a producer that continues with next(ok).
DropPending(bad) ==
    IF DropPendingCheck = "OK"
    THEN /\ bad \in BadRelease
         /\ ring' = DropPendingRing
         /\ dma' = Returned(DropPendingBlocks(bad))
         /\ ram' = Occupied(ring')
         /\ meta' = Described(DropPendingDirect(bad))
         /\ faults' = IF bad = 0 THEN faults ELSE faults + 1
    ELSE bad = 0 /\ UNCHANGED <<ring, dma, ram, meta, faults>>

DropPendingOK(bad) == DropPendingCheck = "OK" /\ bad = 0
DroppedDirect(bad) == IF DropPendingCheck = "OK" THEN DropPendingDirect(bad) ELSE direct

-----------------------------------------------------------------------------
(* direct_async_producer_thd *)

FailureReason(e) ==
    CASE e = "EOVERFLOW" -> "COUNTER_GAP"
      [] e = "ETIMEDOUT" -> "CONSUMER_STALL"
      [] e \in {"ECANCELED", "EPIPE"} -> "CLIENT_DISCONNECTED"
      [] OTHER -> "DMA_ERROR"

\* Ring calls guarded by direct_extension and, in the caller, is_terminal.
FailRing(r, reason) == IF extension THEN TryFail(r, reason) ELSE r
CancelRing(r) == IF extension THEN TryCancel(r, "CLIENT_DISCONNECTED") ELSE r

\* while (!thread_pool_is_stopped(pool)), looked at as the last step ends.
Again == IF stopped THEN "exit" ELSE "room"

\* Queue positions whose DMA block may be spilled: never the head, which rw_thd
\* may be writing from.
Spillable == {i \in 1 .. direct.count - 1 :
                /\ direct.frames[Behind(direct.head, i)].block # None
                /\ ~direct.frames[Behind(direct.head, i)].ring_backed}

SpillChoice == CHOOSE i \in Spillable : \A j \in Spillable : j <= i

MustSpill ==
    /\ extension /\ direct.dma_headroom > 0
    /\ direct.dma_count + direct.dma_headroom >= DmaBlocks

\* direct_async_spill_newest_dma: copy the newest block to the ring, then release it.
Spill(refused) ==
    LET slot == Behind(direct.head, SpillChoice)
        b == direct.frames[slot].block
        ret == ProducerReserveRet(ring)
        r == ProducerReserve(ring)
    IN  IF ~MustSpill \/ Spillable = {}
        THEN /\ ~refused
             /\ error' = IF MustSpill /\ direct.dma_count >= DmaBlocks THEN "EIO" ELSE error
             /\ UNCHANGED <<ring, ram, dma, direct, faults>>
        ELSE IF ret # "OK"
        THEN ~refused /\ error' = ret /\ UNCHANGED <<ring, ram, dma, direct, faults>>
        ELSE IF refused
        THEN /\ faults < MaxFaults /\ faults' = faults + 1
             /\ error' = "EIO" /\ ring' = TryProducerAbort(r)
             /\ UNCHANGED <<ram, dma, direct>>
        ELSE /\ ram' = [ram EXCEPT ![ring.producer_position] = dma[b]]
             /\ ring' = ProducerCommit(r)
             /\ dma' = Returned({b})
             /\ direct' = [direct EXCEPT !.frames[slot].block = None,
                                         !.frames[slot].ring_backed = TRUE,
                                         !.frames[slot].ring_slot = ring.producer_position,
                                         !.dma_count = @ - 1]
             /\ UNCHANGED <<error, faults>>

\* Wait for room in the queue; leave when the segment has all its frames.
ProducerRoom(refused) ==
    /\ producer = "room" /\ "producer" \notin ring_ready
    /\ IF ~direct.cancelled /\ direct.count = direct.capacity
       THEN /\ ~refused
            /\ ring_ready' = ring_ready \cup {"producer"}
            /\ UNCHANGED <<producer, frame, ring, ram, dma, direct, faults, error>>
       ELSE IF direct.cancelled \/ direct.count >= direct.target_frames - direct.consumed_frames
       THEN /\ ~refused
            /\ producer' = "exit"
            /\ UNCHANGED <<frame, ring, ram, dma, direct, faults, error, ring_ready>>
       ELSE /\ Spill(refused)
            /\ producer' = IF error' # "none" THEN "exit" ELSE "acquire"
            /\ frame' = IF error' # "none" THEN frame ELSE [NoLocals EXCEPT !.slot = direct.tail]
            /\ UNCHANGED ring_ready
    /\ UNCHANGED <<storageVars, write, meta, expected, seq, discards, rw, thd, client, entry,
                   rw_ready, stopped, sent>>

\* The kernel fills the free block with the lowest number next.
FreeBlock == CHOOSE b \in Blocks \ leased : \A c \in Blocks \ leased : b <= c

\* The sampler, the acquire (also because the buffer was cancelled) or the
\* metadata provider fails; held: a block was acquired before that.
ProducerAcquireFail(held) ==
    /\ producer = "acquire"
    /\ held => leased # Blocks
    /\ frame' = [frame EXCEPT !.block = IF held THEN FreeBlock ELSE None]
    /\ dma' = IF held THEN [dma EXCEPT ![FreeBlock] = seq] ELSE dma
    /\ error' = "EIO"
    /\ producer' = "release"
    /\ UNCHANGED <<storageVars, write, ring, ram, meta, expected, seq, direct, discards, rw, thd,
                   client, entry, ring_ready, rw_ready, stopped, faults, sent>>

\* The provider has no description of this frame: not yet (EAGAIN, before it has
\* described any), or no more (ESTALE), which only the drop policy survives.
ProducerUndescribed(result) ==
    /\ producer = "acquire" /\ leased # Blocks /\ seq < MaxSample
    /\ result = "EAGAIN" => expected = None
    /\ frame' = [frame EXCEPT !.block = FreeBlock, !.result = result]
    /\ dma' = [dma EXCEPT ![FreeBlock] = seq]
    /\ seq' = seq + 1
    /\ IF result = "EAGAIN"
       THEN /\ discards' = discards + 1
            /\ error' = IF discards' > MaxStartupDiscards THEN "ETIMEDOUT" ELSE error
            /\ producer' = "release"
       ELSE /\ error' = IF direct.dropping THEN error ELSE "ESTALE"
            /\ producer' = IF direct.dropping THEN "stale" ELSE "release"
            /\ UNCHANGED discards
    /\ UNCHANGED <<storageVars, write, ring, ram, meta, expected, direct, rw, thd, client, entry,
                   ring_ready, rw_ready, stopped, faults, sent>>

\* The frame at position first is acquired and described: the provider reports
\* the samples missing since the last frame it described.
ProducerAcquire(first) ==
    /\ producer = "acquire" /\ leased # Blocks
    /\ first \in {seq, seq + 1} /\ first \in Frames
    /\ LET missing == IF expected = None THEN 0 ELSE first - expected
       IN  /\ frame' = [frame EXCEPT !.block = FreeBlock, !.missing = missing]
           /\ meta' = [meta EXCEPT ![frame.slot] = [first |-> first, missing |-> missing]]
    /\ dma' = [dma EXCEPT ![FreeBlock] = first]
    /\ expected' = first + 1 /\ seq' = first + 1
    /\ direct' = [direct EXCEPT !.stale_metadata_streak = 0]
    /\ producer' = "append"
    /\ UNCHANGED <<storageVars, write, ring, ram, error, discards, rw, thd, client, entry,
                   ring_ready, rw_ready, stopped, faults, sent>>

\* A stale frame retires itself and the backlog, a bounded number of times.
ProducerStale(bad) ==
    /\ producer = "stale"
    /\ IF direct.cancelled
       THEN bad = 0 /\ UNCHANGED <<ring, ram, dma, meta, faults, direct, error>>
       ELSE /\ DropPending(bad)
            /\ direct' = [DroppedDirect(bad) EXCEPT !.stale_metadata_streak =
                             IF DropPendingOK(bad) THEN @ + 1 ELSE @]
            /\ error' = IF ~DropPendingOK(bad) THEN "EIO"
                        ELSE IF direct'.stale_metadata_streak > DmaBlocks + StaleMargin
                        THEN "ESTALE" ELSE error
    /\ producer' = "release"
    /\ UNCHANGED <<storageVars, write, expected, seq, frame, discards, rw, thd, client,
                   entry, ring_ready, rw_ready, stopped, sent>>

\* The end of what the client has, or will have once the active frame is sent.
LastEnd == IF direct.consumer_active THEN direct.frames[direct.head].frame_end
           ELSE direct.last_consumed_frame_end

\* Mutant: the frame behind a dropped backlog keeps the provider's count.
RebasedNever(m) == m

\* iiod_buffer_metadata_rebase_frame
Rebased(m) == IF LastEnd = None THEN m ELSE [m EXCEPT !.missing = m.first - LastEnd]

\* Append the frame.  Under the drop policy a gap drops the backlog first, and
\* the frame's metadata moves to the new tail, rebased.
ProducerAppend(bad) ==
    /\ producer = "append"
    /\ LET gap == direct.dropping /\ frame.missing > 0
           d == IF gap THEN DroppedDirect(bad) ELSE direct
           m == meta[frame.slot]
           slot == d.tail
           added == [d EXCEPT
                       !.frames[slot] = [block |-> frame.block,
                                         frame_end |-> IF direct.dropping THEN m.first + 1 ELSE 0,
                                         ring_slot |-> 0, ring_backed |-> FALSE],
                       !.dma_count = @ + 1, !.tail = (slot + 1) % d.capacity, !.count = @ + 1]
       IN  IF direct.cancelled
           THEN bad = 0 /\ producer' = "release"
                /\ UNCHANGED <<ring, ram, dma, faults, error, direct, meta, frame, ring_ready>>
           ELSE IF gap /\ (DropPendingCheck # "OK" \/ bad # 0)
           THEN /\ DropPending(bad)
                /\ direct' = d /\ error' = "EIO" /\ producer' = "release"
                /\ UNCHANGED <<frame, ring_ready>>
           ELSE /\ bad = 0
                /\ ring' = IF gap THEN DropPendingRing ELSE ring
                /\ ram' = Occupied(ring')
                /\ dma' = Returned(IF gap THEN DropPendingBlocks(0) ELSE {})
                /\ meta' = [Described(added) EXCEPT ![frame.slot] = NoMeta,
                                                    ![slot] = IF gap THEN Rebased(m) ELSE m]
                /\ direct' = added
                /\ frame' = NoLocals
                /\ ring_ready' = {}
                /\ producer' = Again
                /\ UNCHANGED <<error, faults>>
    /\ UNCHANGED <<storageVars, write, expected, seq, discards, rw, thd, client, entry,
                   rw_ready, stopped, sent>>

\* release_block; a block that cannot be released stays in its frame for the
\* teardown.
ProducerRelease(refused) ==
    /\ producer = "release"
    /\ refused => frame.block # None /\ faults < MaxFaults
    /\ dma' = IF refused THEN dma ELSE Returned({frame.block})
    /\ direct' = IF refused THEN [direct EXCEPT !.frames[frame.slot].block = frame.block]
                            ELSE direct
    /\ error' = IF refused THEN "EIO" ELSE error
    /\ faults' = IF refused THEN faults + 1 ELSE faults
    /\ producer' = IF error' = "none" /\ frame.result \in {"EAGAIN", "ESTALE"}
                   THEN Again ELSE "exit"
    /\ frame' = NoLocals
    /\ UNCHANGED <<storageVars, write, ring, ram, meta, expected, seq, discards, rw, thd, client,
                   entry, ring_ready, rw_ready, stopped, sent>>

ProducerExit ==
    /\ producer = "exit"
    /\ LET failing == error # "none" /\ ~direct.cancelled
       IN  /\ direct' = [direct EXCEPT !.producer_exited = TRUE,
                                       !.error = IF failing THEN TRUE ELSE @]
           /\ ring' = IF failing /\ ~IsTerminal(ring) THEN FailRing(ring, FailureReason(error))
                                                      ELSE ring
    /\ error' = "none" /\ discards' = 0
    /\ ring_ready' = {}
    /\ producer' = "notify"
    /\ UNCHANGED <<storageVars, write, captureVars, frame, rw, thd, client, entry,
                   rw_ready, stopped, faults, sent>>

ProducerNotify ==
    /\ producer = "notify" /\ ~Locked
    /\ rw_ready' = {}
    /\ producer' = "done"
    /\ UNCHANGED <<storageVars, write, ring, captureVars, direct, frame, error, discards, rw, thd,
                   client, entry, ring_ready, stopped, faults, sent>>

Producer ==
    \/ \E refused \in BOOLEAN : ProducerRoom(refused) \/ ProducerRelease(refused)
    \/ \E held \in BOOLEAN : ProducerAcquireFail(held)
    \/ \E result \in {"EAGAIN", "ESTALE"} : ProducerUndescribed(result)
    \/ \E first \in Frames : ProducerAcquire(first)
    \/ \E bad \in 0 .. DmaBlocks + SlotCount : ProducerStale(bad) \/ ProducerAppend(bad)
    \/ ProducerExit \/ ProducerNotify

-----------------------------------------------------------------------------
(* rw_thd *)

\* burst_release_storage, ring_release_storage: unmap, give the reservation back.
ReleaseStorage ==
    /\ entry' = [entry EXCEPT !.mapped = FALSE]
    /\ reserved' = IF reserved = "mine" THEN "free" ELSE reserved

\* Mutant: a burst that fails keeps its reservation.
BurstFailHolding ==
    /\ burst' = [burst EXCEPT !.state = "FAILED", !.frames = << >>]
    /\ entry' = [entry EXCEPT !.mapped = FALSE]
    /\ UNCHANGED reserved

\* burst_fail
BurstFail ==
    /\ burst' = [burst EXCEPT !.state = "FAILED", !.frames = << >>]
    /\ ReleaseStorage

\* buffered_reservation_acquire: one capture of the daemon may have RAM at a time.
ReservationBusy == reserved # "free"

\* burst_prepare, ring_prepare: reserve and map the RAM, unless the memory that is
\* left is too small or cannot be mapped; the reservation is then given back.
BurstPrepared(failing) == mode = "burst" /\ ~ReservationBusy /\ failing # "memory"
RingPrepared(failing) == mode = "extended" /\ ~ReservationBusy /\ failing # "memory"

\* The first pass of the loop opens the device: the RAM, then the buffer.
\* failing: memory or the buffer is refused.
RwOpen(failing) ==
    /\ rw = "open"
    /\ LET busy == mode # "direct" /\ ReservationBusy
           ok == ~busy /\ failing = "none"
           mapped == BurstPrepared(failing) \/ RingPrepared(failing)
       IN  /\ failing = "memory" => mode # "direct" /\ ~busy
           /\ failing = "buffer" => ~busy
           /\ entry' = [entry EXCEPT !.buf = ok, !.mapped = mapped]
           /\ reserved' = IF mapped THEN "mine" ELSE reserved
           /\ burst' = IF mode = "burst" /\ mapped
                       THEN [burst EXCEPT !.state = IF ok THEN "CAPTURING" ELSE "RESERVED"]
                       ELSE burst
           /\ client' = IF ok THEN "idle" ELSE client
           /\ rw' = IF ok THEN "top" ELSE "final"
    /\ UNCHANGED <<mode, ring, captureVars, direct, producerVars, write, thd, ring_ready,
                   rw_ready, stopped, faults, sent>>

RwTop ==
    /\ rw \in {"top", "idle"} /\ "rw" \notin rw_ready
    /\ rw' = IF ~thd.linked
             THEN IF direct.producer_started THEN "drain" ELSE "final"
             ELSE IF burst.state = "CAPTURING" THEN "capture"
             ELSE IF ~thd.active THEN "idle" ELSE IF mode = "burst" THEN "burst" ELSE "wait"
    /\ rw_ready' = IF rw' = "idle" THEN rw_ready \cup {"rw"} ELSE rw_ready
    /\ UNCHANGED <<storageVars, write, ring, captureVars, direct, producerVars, thd, client, entry,
                   ring_ready, stopped, faults, sent>>

\* A reader is active: wait for a frame or for the end of the capture.
RwWait ==
    /\ rw = "wait" /\ "rw" \notin ring_ready
    /\ IF direct.count = 0 /\ ~direct.error /\ ~direct.producer_exited
       THEN ring_ready' = ring_ready \cup {"rw"} /\ UNCHANGED rw
       ELSE rw' = "send" /\ UNCHANGED ring_ready
    /\ UNCHANGED <<storageVars, write, ring, captureVars, direct, producerVars, thd, client, entry,
                   rw_ready, stopped, faults, sent>>

\* send_direct_async_data up to the first write.
HeadFrame == direct.frames[direct.head]

TakeRet ==
    IF direct.count = 0 THEN "ENODATA"
    ELSE IF HeadFrame.ring_backed = (HeadFrame.block # None) \/ ~thd.fits THEN "ENOSPC"
    ELSE IF ~HeadFrame.ring_backed THEN "OK"
    ELSE IF ConsumerReserveRet(ring) # "OK" THEN ConsumerReserveRet(ring)
    ELSE IF ring.consumer_position # HeadFrame.ring_slot THEN "EIO" ELSE "OK"

RwTake ==
    /\ rw = "send"
    /\ LET ret == IF thd.linked /\ thd.active THEN TakeRet ELSE "SKIP"
           held == IF ret \in {"OK", "EIO"} /\ HeadFrame.ring_backed
                          /\ ConsumerReserveRet(ring) = "OK"
                       THEN ConsumerReserve(ring) ELSE ring
           failing == ret \notin {"OK", "ENODATA", "SKIP"}
       IN  /\ direct' = [direct EXCEPT !.consumer_active = ret = "OK",
                                       !.error = @ \/ failing, !.cancelled = @ \/ failing]
           /\ ring' = IF failing /\ ~IsTerminal(held)
                      THEN FailRing(held, "INTERNAL_ERROR") ELSE held
           /\ ring_ready' = IF failing THEN {} ELSE ring_ready
           /\ thd' = IF ret \in {"OK", "SKIP"} THEN thd ELSE Signalled(TRUE)
           /\ rw' = IF ret = "OK" THEN "sending" ELSE "top"
    /\ UNCHANGED <<storageVars, write, captureVars, producerVars, client, entry, rw_ready, stopped,
                   faults, sent>>

\* The frame and its metadata are written, or a write fails; a DMA block is then
\* released, without ring_lock.
RwWritten(ok, refused) ==
    /\ rw = "sending"
    /\ refused => ~HeadFrame.ring_backed /\ faults < MaxFaults
    /\ sent' = IF ~ok THEN sent
               ELSE [meta |-> meta[direct.head],
                     iq |-> IF HeadFrame.ring_backed THEN ram[HeadFrame.ring_slot]
                                                     ELSE dma[HeadFrame.block],
                     first |-> direct.consumed_frames = 0,
                     after |-> IF sent.iq = None THEN None ELSE sent.iq + 1]
    /\ dma' = IF refused THEN dma ELSE Returned({HeadFrame.block})
    /\ faults' = IF refused THEN faults + 1 ELSE faults
    /\ write' = [ok |-> ok, released |-> ~refused]
    /\ rw' = "sent"
    /\ UNCHANGED <<storageVars, ring, ram, meta, expected, seq, direct, producerVars, thd, client,
                   entry, ring_ready, rw_ready, stopped>>

\* The rest of send_direct_async_data, and the reader is signalled after the last
\* frame it asked for.  A block that was not released stays in its frame.
RwSent ==
    /\ rw = "sent"
    /\ LET released == IF HeadFrame.ring_backed THEN ConsumerReleaseRet(ring) = "OK"
                                                ELSE write.released
           r == IF HeadFrame.ring_backed /\ released THEN ConsumerRelease(ring) ELSE ring
           ok == write.ok /\ released
           last == direct.consumed_frames + 1 = direct.target_frames
           complete == extension /\ ok /\ last
           bad == ~ok \/ (complete /\ CompleteExtensionRet(r) # "OK")
       IN  /\ direct' = [direct EXCEPT
                 !.consumer_active = FALSE,
                 !.frames[direct.head] = IF released THEN NoFrame ELSE @,
                 !.dma_count = IF released /\ ~HeadFrame.ring_backed THEN @ - 1 ELSE @,
                 !.head = Behind(@, 1),
                 !.count = @ - 1,
                 !.consumed_frames = @ + 1,
                 !.last_consumed_frame_end = IF ok /\ direct.dropping
                                             THEN HeadFrame.frame_end ELSE @,
                 !.error = @ \/ bad, !.cancelled = @ \/ bad]
           /\ ring' = IF ~ok /\ ~IsTerminal(r) THEN FailRing(r, "TRANSPORT_ERROR")
                      ELSE IF complete /\ ~bad THEN CompleteExtension(r) ELSE r
           /\ thd' = IF bad \/ thd.remaining = 1 THEN [Signalled(bad) EXCEPT !.remaining = 0]
                     ELSE [thd EXCEPT !.remaining = @ - 1]
    /\ ram' = Occupied(ring')
    /\ meta' = [meta EXCEPT ![direct.head] = NoMeta]
    /\ write' = [ok |-> TRUE, released |-> TRUE]
    /\ ring_ready' = {}
    /\ rw' = "top"
    /\ UNCHANGED <<storageVars, dma, expected, seq, producerVars, client, entry, rw_ready, stopped,
                   faults, sent>>

\* No client is left: wait for the producer, then cancel what is left.
RwDrain ==
    /\ rw = "drain" /\ "rw" \notin ring_ready
    /\ IF ~direct.producer_exited
       THEN ring_ready' = ring_ready \cup {"rw"} /\ UNCHANGED <<rw, direct, ring>>
       ELSE /\ direct' = [direct EXCEPT !.cancelled = TRUE]
            /\ ring' = CancelRing(ring)
            /\ ring_ready' = {}
            /\ rw' = "final"
    /\ UNCHANGED <<storageVars, write, captureVars, producerVars, thd, client, entry, rw_ready, stopped,
                   faults, sent>>

\* Every lease is returned (refused ones are given up), then the buffer is
\* destroyed and the entry closed.
RwFinal ==
    /\ rw = "final"
    /\ dma' = Returned(HeldBlocks)
    /\ direct' = DirectOff /\ meta' = << >>
    /\ entry' = [entry EXCEPT !.buf = FALSE, !.mapped = FALSE, !.closed = TRUE]
    /\ reserved' = IF reserved = "mine" THEN "free" ELSE reserved
    /\ thd' = IF thd.linked THEN [Signalled(TRUE) EXCEPT !.linked = FALSE] ELSE thd
    /\ rw_ready' = {}
    /\ rw' = "done"
    /\ UNCHANGED <<mode, burst, write, ring, ram, expected, seq, producerVars, client,
                   ring_ready, stopped, faults, sent>>

-----------------------------------------------------------------------------
(* rw_thd: a sealed burst *)

\* capture_burst: the next frame is refilled and copied.
BurstCapture(first) ==
    /\ rw = "capture" /\ Len(burst.frames) < BurstFrames
    /\ thd.linked /\ ~entry.cancelled /\ first = seq /\ first \in Frames
    /\ burst' = [burst EXCEPT !.frames = Append(@, first)]
    /\ seq' = first + 1
    /\ UNCHANGED <<mode, reserved, write, ring, ram, dma, meta, expected, direct, producerVars, rw,
                   thd, client, entry, ring_ready, rw_ready, stopped, faults, sent>>

\* A frame without a description is skipped at the start, MaxStartupDiscards times.
BurstSkip ==
    /\ rw = "capture" /\ Len(burst.frames) < BurstFrames
    /\ thd.linked /\ ~entry.cancelled /\ seq \in Frames /\ discards < MaxStartupDiscards
    /\ seq' = seq + 1 /\ discards' = discards + 1
    /\ UNCHANGED <<storageVars, write, ring, ram, dma, meta, expected, direct, producer, frame,
                   error, rw, thd, client, entry, ring_ready, rw_ready, stopped, faults, sent>>

\* The capture ends, complete, cancelled or with an error (a gap is one, too), and
\* finish_burst_capture takes the buffer from the entry and destroys it.
BurstFinish(failing) ==
    /\ rw = "capture"
    /\ Len(burst.frames) = BurstFrames => ~failing
    /\ Len(burst.frames) < BurstFrames => failing
    /\ entry' = [entry EXCEPT !.buf = FALSE]
    /\ rw' = "seal"
    /\ UNCHANGED <<storageVars, write, ring, captureVars, direct, producerVars, thd, client,
                   ring_ready, rw_ready, stopped, faults, sent>>

BurstSeal ==
    /\ rw = "seal"
    /\ IF Len(burst.frames) = BurstFrames
       THEN burst' = [burst EXCEPT !.state = "SEALED"] /\ UNCHANGED <<entry, reserved>>
       ELSE BurstFail
    /\ rw_ready' = {}
    /\ rw' = "top"
    /\ UNCHANGED <<mode, write, ring, captureVars, direct, producerVars, thd, client,
                   ring_ready, stopped, faults, sent>>

\* Nobody reads a sealed burst for 30 seconds.
BurstTimeout ==
    /\ rw = "idle" /\ "rw" \in rw_ready /\ burst.state = "SEALED"
    /\ BurstFail
    /\ rw' = "top" /\ rw_ready' = rw_ready \ {"rw"}
    /\ UNCHANGED <<mode, write, ring, captureVars, direct, producerVars, thd, client,
                   ring_ready, stopped, faults, sent>>

\* send_burst_data under thdlist_lock, up to the first write.
BurstTake ==
    /\ rw = "burst" /\ "rw" \notin rw_ready
    /\ IF burst.state = "SEALED" /\ thd.fits
       THEN rw' = "bursting" /\ UNCHANGED <<burst, entry, reserved, thd>>
       ELSE /\ IF burst.state = "SEALED" THEN BurstFail
                                         ELSE UNCHANGED <<burst, entry, reserved>>
            /\ thd' = Signalled(TRUE)
            /\ rw' = "top"
    /\ UNCHANGED <<mode, write, ring, captureVars, direct, producerVars, client, ring_ready,
                   rw_ready, stopped, faults, sent>>

\* The frame is written, or not; the last one releases the storage.
BurstWritten(ok) ==
    /\ rw = "bursting"
    /\ LET f == burst.frames[burst.next_frame + 1]
           last == burst.next_frame + 1 = BurstFrames
       IN  IF ok
           THEN /\ sent' = [meta |-> [first |-> f, missing |-> 0], iq |-> f, first |-> TRUE,
                            after |-> None]
                /\ burst' = [burst EXCEPT !.next_frame = @ + 1,
                                          !.state = IF last THEN "DRAINED" ELSE @]
                /\ IF last THEN ReleaseStorage ELSE UNCHANGED <<entry, reserved>>
           ELSE BurstFail /\ UNCHANGED sent
    /\ thd' = Signalled(~ok)
    /\ rw' = "top"
    /\ UNCHANGED <<mode, write, ring, captureVars, direct, producerVars, client, ring_ready,
                   rw_ready, stopped, faults>>

Burst == \/ \E first \in Frames : BurstCapture(first)
         \/ BurstSkip \/ BurstTake \/ BurstSeal \/ BurstTimeout
         \/ \E b \in BOOLEAN : BurstFinish(b) \/ BurstWritten(b)

Rw == \/ \E failing \in {"none", "memory", "buffer"} : RwOpen(failing)
      \/ RwTop \/ RwWait \/ RwTake \/ RwSent \/ RwDrain \/ RwFinal
      \/ \E ok, refused \in BOOLEAN : RwWritten(ok, refused)
      \/ Burst

-----------------------------------------------------------------------------
(* The client's parser thread *)

\* rw_buffer with async_frames: a complete segment's storage is released, the next
\* one prepared and its producer started.  A segment that is not complete answers
\* EBUSY; a ring can be started once only, a second segment on it answers EINVAL.
\* The thread of the last segment may still be about to broadcast.
ClientRead(target, dropping, fits) ==
    /\ mode # "burst" /\ client = "idle" /\ ~Locked /\ ~entry.closed
    /\ direct.requested => SegmentIsComplete
    /\ IF extension /\ StartExtensionRet(ring) # "OK"
       THEN /\ direct' = DirectOff /\ meta' = << >>
            /\ UNCHANGED <<ring, producer, error, discards, thd, client, rw_ready>>
       ELSE /\ direct' = [DirectPrepare(target, dropping) EXCEPT !.producer_started = TRUE]
            /\ meta' = [s \in DOMAIN direct'.frames |-> NoMeta]
            /\ ring' = IF extension THEN StartExtension(ring) ELSE ring
            /\ producer' = Again /\ error' = "none" /\ discards' = 0
            /\ thd' = [thd EXCEPT !.active = TRUE, !.fits = fits, !.remaining = target,
                                  !.err = FALSE]
            /\ client' = "reading"
            /\ rw_ready' = rw_ready \ {"rw"}
    /\ dma' = Returned(HeldBlocks)
    /\ UNCHANGED <<storageVars, write, ram, expected, seq, frame, rw, entry, ring_ready, stopped,
                   faults, sent>>

\* The producer's thread cannot be started: its storage is released again.
ClientReadFail ==
    /\ mode # "burst" /\ client = "idle" /\ ~Locked /\ ~entry.closed
    /\ direct.requested => SegmentIsComplete
    /\ extension => StartExtensionRet(ring) = "OK"
    /\ direct' = DirectOff /\ meta' = << >>
    /\ dma' = Returned(HeldBlocks)
    /\ ring' = IF extension THEN FailRing(StartExtension(ring), "INTERNAL_ERROR") ELSE ring
    /\ UNCHANGED <<storageVars, write, ram, expected, seq, producerVars, rw, thd, client, entry,
                   ring_ready, rw_ready, stopped, faults, sent>>

\* rw_buffer for one frame of a burst.
ClientReadBurst(fits) ==
    /\ mode = "burst" /\ client = "idle" /\ ~Locked /\ ~entry.closed
    /\ thd' = [thd EXCEPT !.active = TRUE, !.fits = fits, !.err = FALSE]
    /\ client' = "reading"
    /\ rw_ready' = rw_ready \ {"rw"}
    /\ UNCHANGED <<storageVars, write, ring, captureVars, direct, producerVars, rw, entry,
                   ring_ready, stopped, faults, sent>>

ClientReadDone ==
    /\ client = "reading" /\ ~thd.active /\ ~Locked
    /\ client' = "idle"
    /\ UNCHANGED <<storageVars, write, ring, captureVars, direct, producerVars, rw, thd, entry,
                   ring_ready, rw_ready, stopped, faults, sent>>

\* Mutant: the waiting producer is not told.
ClientRemoveSilent ==
    /\ client \in {"opening", "idle", "reading"} /\ ~Locked /\ ~entry.closed
    /\ thd' = [thd EXCEPT !.linked = FALSE]
    /\ direct' = [direct EXCEPT !.cancelled = @ \/ direct.producer_started]
    /\ ring' = IF direct.producer_started THEN CancelRing(ring) ELSE ring
    /\ rw_ready' = rw_ready \ {"rw"}
    /\ entry' = [entry EXCEPT !.cancelled = @ \/ entry.buf]
    /\ client' = "closing"
    /\ UNCHANGED <<storageVars, write, captureVars, producerVars, rw, ring_ready, stopped,
                   faults, sent>>

\* CLOSE, or the connection ends, or the pool stops.  What thd_entry_event_wait
\* and the interpreter do before remove_thd_entry is not seen by the others.
\* remove_thd_entry: the last client cancels the capture and its buffer.
ClientRemove ==
    /\ client \in {"opening", "idle", "reading"} /\ ~Locked /\ ~entry.closed
    /\ thd' = [thd EXCEPT !.linked = FALSE]
    /\ direct' = [direct EXCEPT !.cancelled = @ \/ direct.producer_started]
    /\ ring' = IF direct.producer_started THEN CancelRing(ring) ELSE ring
    /\ ring_ready' = IF direct.producer_started THEN {} ELSE ring_ready
    /\ rw_ready' = rw_ready \ {"rw"}
    /\ entry' = [entry EXCEPT !.cancelled = @ \/ entry.buf]
    /\ client' = "closing"
    /\ UNCHANGED <<storageVars, write, captureVars, producerVars, rw, stopped, faults, sent>>

\* close_dev_helper: wait until rw_thd has closed the entry; a failed OPEN returns.
ClientClosed ==
    /\ client \notin {"gone"} /\ entry.closed
    /\ client' = "gone"
    /\ UNCHANGED <<storageVars, write, ring, captureVars, direct, producerVars, rw, thd, entry,
                   ring_ready, rw_ready, stopped, faults, sent>>

Client ==
    \/ \E target \in Targets, dropping, fits \in BOOLEAN : ClientRead(target, dropping, fits)
    \/ \E fits \in BOOLEAN : ClientReadBurst(fits)
    \/ ClientReadFail
    \/ ClientReadDone \/ ClientRemove \/ ClientClosed

\* thread_pool_stop; a client that is leaving ends the session already.
PoolStop ==
    /\ ~stopped /\ client \in {"idle", "reading"}
    /\ stopped' = TRUE
    /\ UNCHANGED <<storageVars, write, ring, captureVars, direct, producerVars, rw, thd, client, entry,
                   ring_ready, rw_ready, faults, sent>>

SessionOver == producer \in {"off", "done"} /\ rw = "done" /\ client = "gone"
Terminated == SessionOver /\ UNCHANGED vars

Next == Producer \/ Rw \/ Client \/ PoolStop \/ Terminated

Spec == Init /\ [][Next]_vars

\* The threads run, a refill ends by its timeout at the latest, a write ends; a
\* client need not read or leave, unless the daemon stops.
Fairness ==
    /\ WF_vars(Producer) /\ WF_vars(Rw)
    /\ WF_vars(ClientReadDone) /\ WF_vars(ClientClosed)
    /\ WF_vars(stopped /\ ClientRemove)

LiveSpec == Spec /\ Fairness

-----------------------------------------------------------------------------
(* Properties *)

\* The two storages never disagree, in any interleaving of spilling, sending and
\* dropping: the queue's frames in RAM are the ring's committed slots in the
\* ring's order, dma_count counts the frames in leased blocks, and so the checks
\* of direct_async_drop_pending and send_direct_async_data (-EIO) never fail
\* unless the kernel refused a release.
StoragesAgree ==
    direct.requested /\ faults = 0 =>
      /\ DropPendingCheck \in {"OK", "EBUSY"}
      /\ extension => ring.occupied =
            Cardinality({i \in 0 .. direct.count - 1 :
                            direct.frames[Behind(direct.head, i)].ring_backed})
      /\ direct.dma_count =
            Cardinality({i \in 0 .. direct.count - 1 :
                            ~direct.frames[Behind(direct.head, i)].ring_backed})

\* The RAM that one capture may reserve is given back with its storage, however the
\* capture ends: by its last frame, a failure, a timeout, a refused OPEN or the
\* teardown.  A reservation that stays would refuse every later capture (EBUSY).
ReservationReturned ==
    /\ entry.mapped <=> reserved = "mine"
    /\ rw = "done" => reserved # "mine"
    /\ burst.state \in {"CAPTURING", "SEALED"} => entry.mapped \/ entry.closed

\* Leases outlive neither the buffer nor the queue: a leased block is a queued
\* frame's, the producer's or the writer's, the spill leaves dma_headroom blocks
\* with the kernel while the producer waits for the next frame, and when the
\* buffer is destroyed every block was returned.
LeasesReturned ==
    /\ ~entry.buf => leased = {}
    /\ leased \subseteq HeldBlocks \cup {frame.block}
    /\ producer = "acquire" /\ faults = 0 =>
         Cardinality(leased) + direct.dma_headroom < DmaBlocks
    /\ rw = "sending" /\ ~HeadFrame.ring_backed => HeadFrame.block \in leased

\* Memory and blocks are with who says so, and all come back.
ResourcesReturned == StoragesAgree /\ ReservationReturned /\ LeasesReturned

\* The frames as the client will see them: the samples in RAM or DMA of each
\* queued frame, up to the first that a refused release has emptied.
LogicalFrame(i) ==
    LET f == direct.frames[Behind(direct.head, i - 1)]
    IN  IF f.ring_backed
        THEN IF ring.slots[f.ring_slot] \in {"COMMITTED", "CONSUMER"} THEN ram[f.ring_slot]
                                                                      ELSE None
        ELSE IF f.block = None THEN None ELSE dma[f.block]

LogicalQueue ==
    LET gone == IF rw = "sent" THEN 1 ELSE 0
        shown(n) == \A i \in 1 .. n : LogicalFrame(gone + i) # None
        n == CHOOSE n \in 0 .. direct.count - gone :
               shown(n) /\ \A m \in 0 .. direct.count - gone : shown(m) => m <= n
    IN  IF mode = "burst" THEN SubSeq(burst.frames, burst.next_frame + 1, Len(burst.frames))
        ELSE [i \in 1 .. n |-> LogicalFrame(gone + i)]

Fifo == INSTANCE FrameFifo WITH
            Frame    <- 0 .. MaxSample,
            queue    <- LogicalQueue,
            last     <- sent.iq,
            active   <- rw \in {"sending", "bursting"},
            failed   <- \/ direct.cancelled \/ entry.closed \/ burst.state = "FAILED"
                        \/ (rw = "sent" /\ ~write.ok),
            dropping <- direct.dropping

\* Whatever memory a frame passes through, DMA block or ring slot, the client sees
\* a queue: every spill, copy and move of metadata is invisible, frames leave in
\* capture order, and only the drop policy discards a backlog, never the frame
\* in transport.
ImplementsFifo == Fifo!Spec

\* The metadata sent with a frame describes that frame, and the missing samples it
\* states are exactly those between it and the frame sent before in the same
\* READBUF, whatever was dropped between them (rebase_frame).
GapsExact ==
    /\ sent.meta.first = sent.iq
    /\ ~sent.first => sent.meta.missing = sent.iq - sent.after

\* A client that leaves, or a stopped daemon, ends the session: no thread stays
\* blocked on a full or an empty queue.
SessionEnds == (client = "closing" \/ stopped) ~> SessionOver
=============================================================================
