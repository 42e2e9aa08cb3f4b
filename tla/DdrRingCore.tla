---------------------------- MODULE DdrRingCore ----------------------------
(***************************************************************************)
(* The bounded DDR frame ring of iiod (iiod/ddr-ring-core.c).              *)
(*                                                                         *)
(* The C functions mutate a struct iiod_ddr_ring_core under the caller's   *)
(* ring_lock and return 0 or a negative errno.  Here each function F is    *)
(* translated to FRet(r), the value it returns on the ring r ("OK" for 0), *)
(* and F(r), the ring it leaves behind when it returns "OK".  A call that  *)
(* returns anything else leaves the ring as it was, except where noted.    *)
(* Field names are those of the struct.  The counters wrap_count and       *)
(* high_water_frames only feed the status report and are left out, and so  *)
(* is error_code, which only chooses the errno a drained failed ring       *)
(* answers (here "EIO").  The sample continuity fields are a record of     *)
(* their own, because no function reads them together with the others.     *)
(***************************************************************************)
EXTENDS Integers

CONSTANTS
    SlotCount,      \* slot_count: frames the ring can hold
    TargetFrames,   \* target_frames: frames of a finite capture, 0 if endless
    MaxSample       \* UINT64_MAX, the largest sample sequence number

ASSUME SlotCountAssumption == SlotCount \in Nat \ {0}
ASSUME TargetFramesAssumption == TargetFrames \in Nat
ASSUME MaxSampleAssumption == MaxSample \in Nat \ {0}

Slots == 0 .. SlotCount - 1

\* enum iiod_ddr_ring_slot_state
SlotState == {"FREE", "PRODUCER", "COMMITTED", "CONSUMER"}

\* SPF_DDR_RING_STATE_*, without OFF: a ring that was never prepared
RingState == {"RESERVED", "RUNNING", "DRAINING", "COMPLETE", "FAILED", "CANCELLED"}

FailReason == {"CONSUMER_STALL", "DMA_ERROR", "COUNTER_GAP", "TRANSPORT_ERROR",
               "INTERNAL_ERROR"}
CancelReason == {"CLIENT_CANCELLED", "CLIENT_DISCONNECTED"}
Reason == {"NONE", "TARGET_COMPLETE"} \cup FailReason \cup CancelReason

\* struct iiod_ddr_ring_core
Ring == [slots             : [Slots -> SlotState],
         producer_position : Slots,
         consumer_position : Slots,
         occupied          : 0 .. SlotCount,
         prefill_frames    : 0 .. SlotCount,
         low_water_frames  : 0 .. SlotCount,
         produced_frames   : Nat,
         consumed_frames   : Nat,
         state             : RingState,
         terminal_reason   : Reason,
         producer_reserved : BOOLEAN,
         consumer_reserved : BOOLEAN,
         consumer_started  : BOOLEAN]

\* Positions advance by one and wrap at slot_count.
NextSlot(s) == IF s + 1 = SlotCount THEN 0 ELSE s + 1

\* iiod_ddr_ring_core_init
CoreInit ==
    [slots             |-> [s \in Slots |-> "FREE"],
     producer_position |-> 0,
     consumer_position |-> 0,
     occupied          |-> 0,
     prefill_frames    |-> IF TargetFrames # 0 /\ TargetFrames < SlotCount
                           THEN TargetFrames ELSE SlotCount,
     low_water_frames  |-> IF TargetFrames # 0 /\ TargetFrames <= SlotCount
                           THEN 0 ELSE SlotCount \div 2,
     produced_frames   |-> 0,
     consumed_frames   |-> 0,
     state             |-> "RESERVED",
     terminal_reason   |-> "NONE",
     producer_reserved |-> FALSE,
     consumer_reserved |-> FALSE,
     consumer_started  |-> FALSE]

\* The slots from consumer_position on that hold the occupied frames.
Window(r) ==
    {s \in Slots :
        LET past == r.consumer_position + r.occupied
        IN  IF past <= SlotCount
            THEN s >= r.consumer_position /\ s < past
            ELSE s >= r.consumer_position \/ s < past - SlotCount}

StateAllowsDrain(r) == r.state \in {"RUNNING", "DRAINING", "FAILED"}

IsTerminal(r) ==
    \/ r.state \in {"COMPLETE", "CANCELLED"}
    \/ r.state = "FAILED" /\ r.occupied = 0 /\ ~r.consumer_reserved

-----------------------------------------------------------------------------
(* Starting the ring. *)

StartRet(r) == IF r.state # "RESERVED" THEN "EINVAL" ELSE "OK"
Start(r) == [r EXCEPT !.state = "RUNNING"]

\* The DMA descriptors ahead of the ring provide the prefill.
StartExtensionRet(r) == StartRet(r)
StartExtension(r) ==
    [Start(r) EXCEPT !.prefill_frames = 0, !.low_water_frames = 0,
                     !.consumer_started = TRUE]

-----------------------------------------------------------------------------
(* The producer's half. *)

\* Mutant: the slot's state is not looked at; a full ring is overwritten.
ProducerReserveRetUnchecked(r) ==
    IF r.state # "RUNNING" THEN "ESHUTDOWN"
    ELSE IF r.producer_reserved THEN "EBUSY"
    ELSE IF TargetFrames # 0 /\ r.produced_frames >= TargetFrames THEN "ENODATA"
    ELSE "OK"

ProducerReserveRet(r) ==
    IF r.state # "RUNNING" THEN "ESHUTDOWN"
    ELSE IF r.producer_reserved THEN "EBUSY"
    ELSE IF TargetFrames # 0 /\ r.produced_frames >= TargetFrames THEN "ENODATA"
    ELSE IF r.slots[r.producer_position] # "FREE" THEN "EAGAIN"
    ELSE "OK"

ProducerReserve(r) ==
    [r EXCEPT !.slots[r.producer_position] = "PRODUCER",
              !.producer_reserved = TRUE]

ProducerCommitRet(r) ==
    IF ~r.producer_reserved THEN "EINVAL"
    ELSE IF r.slots[r.producer_position] # "PRODUCER" THEN "EIO"
    ELSE "OK"

ProducerCommit(r) ==
    [r EXCEPT !.slots[r.producer_position] = "COMMITTED",
              !.producer_reserved = FALSE,
              !.occupied = @ + 1,
              !.produced_frames = @ + 1,
              !.producer_position = NextSlot(@),
              !.state = IF TargetFrames # 0 /\ r.produced_frames + 1 = TargetFrames
                        THEN "DRAINING" ELSE @]

ProducerAbortRet(r) == ProducerCommitRet(r)
ProducerAbort(r) ==
    [r EXCEPT !.slots[r.producer_position] = "FREE",
              !.producer_reserved = FALSE]

\* Callers that ignore the result of the abort: (void) producer_abort.
TryProducerAbort(r) == IF ProducerAbortRet(r) = "OK" THEN ProducerAbort(r) ELSE r

PrefixComplete(r) == r.produced_frames >= r.prefill_frames

-----------------------------------------------------------------------------
(* The consumer's half. *)

\* Mutant: the watermarks are applied to a ring that only drains, too.
BelowWatermarkAlways(r) ==
    IF r.consumer_started THEN r.occupied <= r.low_water_frames
                          ELSE r.occupied < r.prefill_frames

\* The consumer of a running ring waits for the prefill, then for more than
\* the low watermark.
BelowWatermark(r) ==
    /\ r.state = "RUNNING"
    /\ IF r.consumer_started THEN r.occupied <= r.low_water_frames
                             ELSE r.occupied < r.prefill_frames

ConsumerReserveRet(r) ==
    IF ~StateAllowsDrain(r)
    THEN IF r.state = "COMPLETE" THEN "ENODATA" ELSE "ESHUTDOWN"
    ELSE IF r.consumer_reserved THEN "EBUSY"
    ELSE IF r.occupied = 0
    THEN IF r.state = "DRAINING" THEN "ENODATA"
         ELSE IF r.state = "FAILED" THEN "EIO" ELSE "EAGAIN"
    ELSE IF BelowWatermark(r) THEN "EAGAIN"
    ELSE IF r.slots[r.consumer_position] # "COMMITTED" THEN "EIO"
    ELSE "OK"

\* Mutant: the consumer takes the slot without marking it.
ConsumerReserveUnmarked(r) ==
    [r EXCEPT !.consumer_reserved = TRUE, !.consumer_started = @ \/ r.state = "RUNNING"]

ConsumerReserve(r) ==
    [r EXCEPT !.slots[r.consumer_position] = "CONSUMER",
              !.consumer_reserved = TRUE,
              !.consumer_started = @ \/ r.state = "RUNNING"]

ConsumerReady(r) ==
    StateAllowsDrain(r) /\ r.occupied # 0 /\ ~BelowWatermark(r)

ConsumerReleaseRet(r) ==
    IF ~r.consumer_reserved \/ r.occupied = 0 THEN "EINVAL"
    ELSE IF r.slots[r.consumer_position] # "CONSUMER" THEN "EIO"
    ELSE "OK"

ConsumerRelease(r) ==
    LET drained == r.state = "DRAINING" /\ r.occupied = 1
    IN  [r EXCEPT !.slots[r.consumer_position] = "FREE",
                  !.consumer_reserved = FALSE,
                  !.occupied = @ - 1,
                  !.consumed_frames = @ + 1,
                  !.consumer_position = NextSlot(@),
                  !.state = IF drained THEN "COMPLETE" ELSE @,
                  !.terminal_reason = IF drained THEN "TARGET_COMPLETE" ELSE @]

-----------------------------------------------------------------------------
(* Dropping the backlog.  The slot being consumed, if any, stays. *)

Pending(r) == IF r.consumer_reserved THEN Window(r) \ {r.consumer_position}
                                     ELSE Window(r)

DiscardPendingRet(r) ==
    IF r.state # "RUNNING" \/ r.producer_reserved THEN "EBUSY"
    ELSE IF r.consumer_reserved /\ r.occupied = 0 THEN "EIO"
    ELSE IF \E s \in Pending(r) : r.slots[s] # "COMMITTED" THEN "EIO"
    ELSE "OK"

DiscardedFrames(r) == r.occupied - (IF r.consumer_reserved THEN 1 ELSE 0)

DiscardPending(r) ==
    [r EXCEPT !.slots = [s \in Slots |-> IF s \in Pending(r) THEN "FREE" ELSE r.slots[s]],
              !.occupied = IF r.consumer_reserved THEN 1 ELSE 0,
              !.producer_position = IF r.consumer_reserved
                                    THEN NextSlot(r.consumer_position)
                                    ELSE r.consumer_position]

-----------------------------------------------------------------------------
(* Ending the ring.  Both calls abort a reservation the producer holds.    *)
(* fail() accepts the reasons CONSUMER_STALL .. INTERNAL_ERROR only.       *)

FailRet(r, reason) ==
    IF reason \notin FailReason THEN "EINVAL"
    ELSE IF IsTerminal(r) THEN "ESHUTDOWN" ELSE "OK"

Fail(r, reason) ==
    [TryProducerAbort(r) EXCEPT !.state = "FAILED", !.terminal_reason = reason]

\* Mutant: a ring that is already terminal is cancelled again.
CancelRetAlways(r, reason) == IF reason \notin CancelReason THEN "EINVAL" ELSE "OK"

CancelRet(r, reason) ==
    IF reason \notin CancelReason THEN "EINVAL"
    ELSE IF IsTerminal(r) THEN "ESHUTDOWN" ELSE "OK"

Cancel(r, reason) ==
    [TryProducerAbort(r) EXCEPT !.state = "CANCELLED", !.terminal_reason = reason]

TryFail(r, reason) == IF FailRet(r, reason) = "OK" THEN Fail(r, reason) ELSE r
TryCancel(r, reason) == IF CancelRet(r, reason) = "OK" THEN Cancel(r, reason) ELSE r

CompleteExtensionRet(r) ==
    IF r.state # "RUNNING" THEN "EINVAL"
    ELSE IF r.occupied # 0 \/ r.producer_reserved \/ r.consumer_reserved THEN "EBUSY"
    ELSE "OK"

CompleteExtension(r) ==
    [r EXCEPT !.state = "COMPLETE", !.terminal_reason = "TARGET_COMPLETE"]

-----------------------------------------------------------------------------
(* Sample continuity: the fields c of the ring that say up to which sample *)
(* the capture has no gap and which sample is the first one missing.       *)
(* continuity_broken and first_unavailable_valid are always set together   *)
(* and are one field here.  A frame holds one unit of samples_per_frame    *)
(* samples, so sequences are counted in frames.                            *)

Continuity == [expected_sample_sequence : Nat, expected_sample_valid : BOOLEAN,
               last_contiguous_sample_sequence : Nat, last_contiguous_valid : BOOLEAN,
               first_unavailable_sample_sequence : Nat, first_unavailable_valid : BOOLEAN]

ContinuityInit ==
    [expected_sample_sequence |-> 0, expected_sample_valid |-> FALSE,
     last_contiguous_sample_sequence |-> 0, last_contiguous_valid |-> FALSE,
     first_unavailable_sample_sequence |-> 0, first_unavailable_valid |-> FALSE]

MarkUnavailable(c, observed) ==
    IF c.first_unavailable_valid THEN c
    ELSE [c EXCEPT !.first_unavailable_sample_sequence =
                        IF c.expected_sample_valid THEN c.expected_sample_sequence
                                                   ELSE observed,
                   !.first_unavailable_valid = TRUE]

\* The exclusive boundary first + 1 must not exceed MaxSample (UINT64_MAX).
ObserveSamplesRet(first) == IF first > MaxSample - 1 THEN "EOVERFLOW" ELSE "OK"

ObserveSamples(c, first) ==
    LET gap == c.expected_sample_valid /\ first # c.expected_sample_sequence
        m == IF gap THEN MarkUnavailable(c, first) ELSE c
    IN  [m EXCEPT !.last_contiguous_sample_sequence =
                        IF m.first_unavailable_valid THEN @ ELSE first + 1,
                  !.last_contiguous_valid = @ \/ ~m.first_unavailable_valid,
                  !.expected_sample_sequence = first + 1,
                  !.expected_sample_valid = TRUE]

-----------------------------------------------------------------------------
(* What the slot states must say. *)

\* The slot i places after c, i <= SlotCount.
At(c, i) == IF c + i < SlotCount THEN c + i ELSE c + i - SlotCount

\* The occupied slots from consumer_position on are committed, the first of
\* them being sent when consumer_reserved; the slot after them is the
\* producer's when producer_reserved; the others are free.
Owned(r) ==
    /\ r.producer_position = At(r.consumer_position, r.occupied)
    /\ r.producer_reserved => r.occupied < SlotCount
    /\ r.consumer_reserved => r.occupied > 0
    /\ \A s \in Slots :
         r.slots[s] =
            IF s \in Window(r)
            THEN IF r.consumer_reserved /\ s = r.consumer_position
                 THEN "CONSUMER" ELSE "COMMITTED"
            ELSE IF r.producer_reserved /\ s = r.producer_position
                 THEN "PRODUCER" ELSE "FREE"
=============================================================================
