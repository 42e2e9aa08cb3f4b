-------------------------- MODULE MetadataClient --------------------------
(***************************************************************************)
(* The client side of a capture with metadata: one iio_buffer (buffer.c),  *)
(* the commands it sends on the data pipe of its device (iiod-client.c)    *)
(* and the pipe itself, a socket (network.c) or a pair of USB endpoints    *)
(* (usb.c).  The owner of the buffer makes one call at a time; another     *)
(* thread may cancel the buffer at any moment.  The pipe is a queue of     *)
(* answers: a command puts the answer it will get at its end, the daemon   *)
(* fills the answers in, the client reads them from its head.  What can go *)
(* wrong is that an answer is read by a call that did not ask for it.      *)
(***************************************************************************)
EXTENDS Integers, Sequences, FiniteSets

CONSTANTS Batch,      \* frames of a host batch, iio_buffer_set_metadata_batch_size
          Direct,     \* frames of a direct segment
          MaxFrames,  \* frames the daemon delivers
          MaxWire,    \* unread answers
          MaxFaults,  \* time-outs, refused commands, malformed answers
          MaxOpens,   \* successful opens
          Endpoints   \* endpoint couples of the USB gadget, without couple 0

ASSUME BatchAssumption == Batch \in Nat /\ Batch > 1
ASSUME DirectAssumption == Direct \in Nat /\ Direct > 0
ASSUME EndpointsAssumption ==
    IsFiniteSet(Endpoints) /\ Endpoints # {} /\ "nowhere" \notin Endpoints
ASSUME BoundsAssumption == {MaxFrames, MaxWire, MaxFaults, MaxOpens} \subseteq Nat

VARIABLES backend,  \* "network" or "usb"
          io,       \* struct iiod_client_pdata of the device
          wire,     \* answers the client has not read, in order
          b,        \* struct iio_buffer
          call,     \* the call the owner of the buffer is in
          can,      \* the cancelling thread is between its two steps
          ep,       \* USB: in_use of the couples, and each device's couple
          sent,     \* frames the daemon has sent
          seen,     \* the last frame the program got
          hist,     \* what went wrong: see NoHistory
          opens, faults

vars == <<backend, io, wire, b, call, can, ep, sent, seen, hist, opens, faults>>

Devices == {"dev", "other"}
Nowhere == "nowhere"
Tags == {"mine", "stale", "direct"}
Values == {"none", "frame", "ok", "err", "busy", "bad"}
Calls == {"single", "batch", "direct", "status", "cancel", "drain", "feedback", "close"}
Item == [tag : Tags, op : Calls, val : Values, n : 0 .. MaxFrames]
Asked(tag, op) == [tag |-> tag, op |-> op, val |-> "none", n |-> 0]
Idle == [op |-> "none", pc |-> "idle", after |-> FALSE, part |-> <<>>, err |-> "none"]
NoBuffer == [live |-> FALSE, failed |-> FALSE, size |-> 1, cached |-> <<>>,
             df |-> 0, dp |-> 0, term |-> "none"]
NoPipe == [open |-> FALSE, cancelled |-> FALSE, event |-> FALSE,
           transfer |-> FALSE, aborted |-> FALSE]
\* loose: a call without protection broke off and left its answer behind;
\* crossed: operations that, before, consumed the answer to another command;
\* disorder: a frame that, before, came out of order; late: a frame after the
\* cancellation
NoHistory == [crossed |-> {}, loose |-> FALSE, disorder |-> FALSE, late |-> FALSE]

TypeOK ==
    /\ backend \in {"network", "usb"}
    /\ io \in [open : BOOLEAN, cancelled : BOOLEAN, event : BOOLEAN,
               transfer : BOOLEAN, aborted : BOOLEAN]
    /\ \A i \in DOMAIN wire : wire[i] \in Item
    /\ Len(wire) <= MaxWire + 1
    /\ b \in [live : BOOLEAN, failed : BOOLEAN, size : {1, Batch},
              cached : Seq(1 .. MaxFrames), df : 0 .. Direct, dp : 0 .. Direct,
              term : {"none", "status", "wrong", "error"}]
    /\ b.dp <= b.df
    /\ call.pc \in {"idle", "submit", "read", "failed", "term"}
    /\ can \in BOOLEAN
    /\ ep \in [used : [Endpoints -> BOOLEAN], at : [Devices -> Endpoints \cup {Nowhere}],
               opened : [Devices -> BOOLEAN]]
    /\ sent \in 0 .. MaxFrames /\ seen \in 0 .. MaxFrames

Init ==
    /\ backend \in {"network", "usb"}
    /\ io = NoPipe /\ wire = <<>> /\ b = NoBuffer /\ call = Idle /\ can = FALSE
    /\ ep = [used |-> [e \in Endpoints |-> FALSE], at |-> [d \in Devices |-> Nowhere],
             opened |-> [d \in Devices |-> FALSE]]
    /\ sent = 0 /\ seen = 0 /\ hist = NoHistory /\ opens = 0 /\ faults = 0

Fault == faults < MaxFaults /\ faults' = faults + 1
NoFault == UNCHANGED faults

----------------------------------------------------------------------------
(* The USB endpoint couples, under ep_lock.                                *)

Free(e) == {x \in Endpoints : ~e.used[x]}

\* usb_reserve_ep_unlocked: the first couple that is not in use
Reserve(e, d, x) == [e EXCEPT !.used[x] = TRUE, !.at[d] = x]
\* usb_free_ep_unlocked: the couple whose lock the device still points at
Release(e, d) == IF e.at[d] = Nowhere THEN e ELSE [e EXCEPT !.used[e.at[d]] = FALSE]

\* usb_open and usb_open_with_metadata: the couple is reserved and freed again
\* when the pipe, the OPEN command or the TIMEOUT command fails
usb_open(e, d, x, ok) ==
    IF ok THEN [Reserve(e, d, x) EXCEPT !.opened[d] = TRUE]
    ELSE [Release(Reserve(e, d, x), d) EXCEPT !.opened[d] = FALSE]

\* usb_close: the pipe is closed and the couple freed whatever CLOSE answered
usb_close(e, d) == [Release(e, d) EXCEPT !.opened[d] = FALSE]

\* another device of the context opens and closes its own buffer
OtherDevice ==
    /\ backend = "usb"
    /\ IF ep.opened["other"]
       THEN NoFault /\ ep' = usb_close(ep, "other")
       ELSE \E x \in Free(ep), ok \in BOOLEAN :
              /\ ep' = usb_open(ep, "other", x, ok)
              /\ IF ok THEN NoFault ELSE Fault
    /\ UNCHANGED <<backend, io, wire, b, call, can, sent, seen, hist, opens>>

----------------------------------------------------------------------------
(* The pipe.                                                               *)

\* a read or a write on the pipe returns at once with an error
Dead(i) == ~i.open \/ i.cancelled \/ i.event

\* network_cancel and usb_cancel: wakes the thread that waits and poisons the
\* pipe; a USB transfer in flight is aborted
Cancelled(i) ==
    [i EXCEPT !.cancelled = TRUE, !.event = (backend = "network"),
              !.aborted = @ \/ (i.transfer /\ ~i.cancelled)]

\* iiod_client_write_all: the answers to come are queued, or the write fails
Queue(items) == wire' = wire \o items
Command(op) == <<Asked("mine", op)>>
\* iiod_command_batch_write: one write, all of it or none
BatchTrain == [k \in 1 .. Batch |-> Asked("mine", "batch")]
\* READBUFMA: one command, answered by all frames of the segment
DirectTrain == [k \in 1 .. Direct |-> Asked("direct", "direct")]
Reading(op) ==
    [Idle EXCEPT !.op = op, !.pc = IF backend = "usb" THEN "submit" ELSE "read",
                 !.after = b.failed]

\* what the end of a call leaves unread will be stale for every later call
Left(w) == [k \in DOMAIN w |-> IF w[k].tag = "mine" THEN [w[k] EXCEPT !.tag = "stale"] ELSE w[k]]

\* a call writes its command and goes on to read the answer; a program whose
\* unprotected call timed out only closes the buffer
Begin(op, items) ==
    /\ call.pc = "idle" /\ b.live
    /\ Len(wire \o items) <= MaxWire \/ op = "close"
    /\ hist.loose => op = "close"
    /\ \/ /\ ~Dead(io) /\ NoFault /\ Queue(items) /\ call' = Reading(op)
       \/ /\ Dead(io) /\ NoFault /\ UNCHANGED wire
          /\ call' = [Idle EXCEPT !.op = op, !.pc = "failed", !.after = b.failed, !.err = "dead"]
       \/ /\ ~Dead(io) /\ Fault /\ UNCHANGED wire
          /\ call' = [Idle EXCEPT !.op = op, !.pc = "failed", !.after = b.failed, !.err = "io"]

\* Mutant: the flag is checked before the lock is taken.
SubmitBlind ==
    /\ call.pc = "submit"
    /\ call' = [call EXCEPT !.pc = "read"]
    /\ io' = [io EXCEPT !.transfer = TRUE, !.aborted = FALSE]
    /\ UNCHANGED <<backend, wire, b, can, ep, sent, seen, hist, opens, faults>>

\* usb_sync_transfer submits its transfer under the lock of the pipe, unless
\* the pipe is cancelled: the check and the registration are one step
usb_sync_transfer ==
    /\ call.pc = "submit"
    /\ IF io.cancelled
       THEN call' = [call EXCEPT !.pc = "failed", !.err = "dead"] /\ UNCHANGED io
       ELSE /\ call' = [call EXCEPT !.pc = "read"]
            /\ io' = [io EXCEPT !.transfer = TRUE, !.aborted = FALSE]
    /\ UNCHANGED <<backend, wire, b, can, ep, sent, seen, hist, opens, faults>>

\* the wait is over: the transfer is no longer registered
Unblocked == io' = [io EXCEPT !.transfer = FALSE, !.aborted = FALSE]

\* wait_cancellable and the end of usb_sync_transfer without data: the pipe
\* was cancelled or the time is over
ReadCancelled ==
    /\ call.pc = "read" /\ (io.event \/ io.aborted)
    /\ call' = [call EXCEPT !.pc = "failed", !.err = "dead"] /\ Unblocked
    /\ UNCHANGED <<backend, wire, b, can, ep, sent, seen, hist, opens, faults>>
ReadTimesOut ==
    /\ call.pc = "read" /\ Fault
    /\ call' = [call EXCEPT !.pc = "failed", !.err = "io"] /\ Unblocked
    /\ UNCHANGED <<backend, wire, b, can, ep, sent, seen, hist, opens>>

\* calls answered with frames
FrameCalls == {"single", "batch", "direct"}

\* the daemon fills in the oldest answer it owes: a frame or a result, or an
\* error, which ends a direct segment with it
Owed == {k \in DOMAIN wire : wire[k].val = "none"}
Answer(k, v) ==
    LET w == [wire EXCEPT ![k].val = v, ![k].n = IF v = "frame" THEN sent + 1 ELSE 0]
    IN  IF wire[k].tag = "direct" /\ v # "frame" THEN SubSeq(w, 1, k) ELSE w
Daemon ==
    /\ io.open /\ Owed # {}
    /\ \E k \in Owed :
         /\ \A j \in Owed : k <= j
         /\ \/ NoFault /\ wire[k].op \in FrameCalls /\ sent < MaxFrames
               /\ wire' = Answer(k, "frame") /\ sent' = sent + 1
            \/ /\ NoFault /\ wire[k].op \notin FrameCalls
               /\ wire' = Answer(k, "ok") /\ UNCHANGED sent
            \/ /\ NoFault /\ \E v \in {"err", "busy"} : wire' = Answer(k, v)
               /\ UNCHANGED sent
            \/ /\ Fault /\ wire[k].tag = "mine" /\ wire' = Answer(k, "bad") /\ UNCHANGED sent
    /\ UNCHANGED <<backend, io, b, call, can, ep, seen, hist, opens>>

----------------------------------------------------------------------------
(* The end of a call.                                                      *)

\* fail_metadata_batch: the first failure also cancels the transport
fail_metadata_batch(x) == [x EXCEPT !.failed = TRUE, !.cached = <<>>]
FailBatch(x, i) ==
    /\ b' = fail_metadata_batch(x)
    /\ io' = IF b.failed THEN i ELSE Cancelled(i)

\* operations whose broken exchange poisons the pipe or the buffer; after the
\* others a late answer stays in the pipe
Guarded == {"batch", "direct", "drain", "feedback"}
Loosens(op, w) == op \notin Guarded /\ \E k \in DOMAIN w : w[k].tag = "mine"

Delivered(n, after) ==
    /\ seen' = n
    /\ hist' = [hist EXCEPT !.disorder = @ \/ (~hist.loose /\ n # seen + 1), !.late = @ \/ after]

\* reset_metadata_direct_segment
ResetDirect(x) == [x EXCEPT !.df = 0, !.dp = 0]

\* iio_buffer_refill_with_metadata after its exchange failed: a batch fails
\* the buffer; a direct segment that was refused before its first frame may be
\* armed again; any other direct failure asks for the terminal status first
RefillFailed ==
    /\ call.pc = "failed" /\ call.op \in FrameCalls
    /\ IF call.op = "single"
       THEN call' = Idle /\ UNCHANGED <<b, io>>
       ELSE IF call.op = "batch" THEN FailBatch(b, io) /\ call' = Idle
       ELSE IF b.dp = b.df /\ call.err \in {"busy"}
       THEN b' = ResetDirect(b) /\ call' = Idle /\ UNCHANGED io
       ELSE call' = [call EXCEPT !.pc = "term"] /\ UNCHANGED <<b, io>>
    /\ wire' = IF call'.pc = "idle" THEN Left(wire) ELSE wire
    /\ hist' = [hist EXCEPT !.loose = @ \/ Loosens(call.op, wire)]
    /\ UNCHANGED <<backend, can, ep, sent, seen, opens, faults>>

\* cache_terminal_metadata_status: one READBUFMSTAT behind whatever the pipe
\* still holds, then fail_metadata_batch; a frame read in its place is kept as
\* the status when it is no longer than the status may be.  (The function also
\* keeps an earlier status or error, but a failed buffer never comes here.)
TermStatus(t) == FailBatch([b EXCEPT !.term = t], io)
CacheTerminal ==
    /\ call.pc = "term"
    /\ b.term = "none"
    /\ \/ /\ Dead(io)
          /\ TermStatus("error") /\ NoFault /\ UNCHANGED <<wire, hist>>
       \/ /\ ~Dead(io) /\ NoFault /\ wire # <<>> /\ wire[1].val # "none"
          /\ \E t \in IF wire[1].val = "frame" THEN {"error", "wrong"} ELSE {"error"} :
                TermStatus(t)
          /\ wire' = Tail(wire)
          /\ hist' = [hist EXCEPT !.crossed = @ \cup {"term"}]
       \/ /\ ~Dead(io) /\ NoFault /\ wire = <<>>
          /\ \E t \in {"status", "error"} : TermStatus(t) /\ UNCHANGED <<wire, hist>>
       \/ ~Dead(io) /\ Fault /\ TermStatus("error") /\ UNCHANGED <<wire, hist>>
    /\ call' = Idle
    /\ UNCHANGED <<backend, can, ep, sent, seen, opens>>

\* the other calls: drain and feedback cancel the pipe when the exchange broke
\* off or was malformed, a close goes on to free the pipe
ClosePipe ==
    /\ io' = NoPipe /\ wire' = <<>> /\ b' = NoBuffer
    /\ ep' = IF backend = "usb" THEN usb_close(ep, "dev") ELSE ep
    /\ sent' = 0 /\ seen' = 0 /\ hist' = [hist EXCEPT !.loose = FALSE]

CommandFailed ==
    /\ call.pc = "failed" /\ call.op \in {"status", "cancel", "drain", "feedback", "close"}
    /\ call' = Idle
    /\ IF call.op = "close" THEN ClosePipe
       ELSE /\ io' = IF call.op \in {"drain", "feedback"} /\ call.err # "err"
                     THEN Cancelled(io) ELSE io
            /\ wire' = Left(wire)
            /\ hist' = [hist EXCEPT !.loose = @ \/ Loosens(call.op, wire)]
            /\ UNCHANGED <<b, ep, sent, seen>>
    /\ UNCHANGED <<backend, can, opens, faults>>

\* the next answer of the pipe is in and is read; it may be another command's
Arrived ==
    /\ call.pc = "read" /\ wire # <<>> /\ wire[1].val # "none" /\ ~io.event
Noted ==
    IF (wire[1].tag = "stale" \/ wire[1].op # call.op) /\ ~hist.loose
    THEN [hist EXCEPT !.crossed = @ \cup {call.op}] ELSE hist
Got(n) ==
    /\ seen' = n
    /\ hist' = [Noted EXCEPT !.disorder = @ \/ (~hist.loose /\ n # seen + 1),
                             !.late = @ \/ call.after]

\* an error, or an answer of a length the call does not accept
ReadError ==
    /\ Arrived /\ (wire[1].val \in {"err", "busy", "bad"}
                   \/ (wire[1].val = "frame") # (call.op \in FrameCalls))
    /\ call' = [call EXCEPT !.pc = "failed",
                  !.err = IF wire[1].val \in {"err", "busy"} THEN wire[1].val ELSE "io"]
    /\ hist' = Noted /\ wire' = Tail(wire) /\ Unblocked
    /\ UNCHANGED <<backend, b, can, ep, sent, seen, opens, faults>>

\* update_buffer: the frame is the program's unless the buffer failed meanwhile
ReadFrame ==
    /\ Arrived /\ wire[1].val = "frame" /\ call.op \in {"single", "direct"}
    /\ b' = IF call.op = "direct" THEN [b EXCEPT !.dp = @ - 1] ELSE b
    /\ IF b.failed THEN hist' = Noted /\ UNCHANGED seen ELSE Got(wire[1].n)
    /\ wire' = Tail(wire) /\ call' = Idle /\ Unblocked
    /\ UNCHANGED <<backend, can, ep, sent, opens, faults>>

\* one frame of a batch; with the last one the call goes on to return the
\* first frame from memory
ReadBatchFrame ==
    /\ Arrived /\ wire[1].val = "frame" /\ call.op = "batch"
    /\ LET part == Append(call.part, wire[1].n)
       IN  IF b.failed
           THEN /\ call' = [call EXCEPT !.pc = "failed"] /\ hist' = Noted
                /\ UNCHANGED <<b, seen>>
           ELSE IF Len(part) = b.size
           THEN call' = Idle /\ b' = [b EXCEPT !.cached = Tail(part)] /\ Got(Head(part))
           ELSE /\ call' = [Reading("batch") EXCEPT !.part = part, !.after = call.after]
                /\ hist' = Noted /\ UNCHANGED <<b, seen>>
    /\ wire' = Tail(wire) /\ Unblocked
    /\ UNCHANGED <<backend, can, ep, sent, opens, faults>>

\* the result of a command; after the one of a CLOSE the pipe is freed
ReadResult ==
    /\ Arrived /\ wire[1].val = "ok" /\ call.op \notin FrameCalls
    /\ call' = Idle
    /\ IF call.op = "close" THEN ClosePipe
       ELSE wire' = Tail(wire) /\ hist' = Noted /\ Unblocked /\ UNCHANGED <<b, ep, sent, seen>>
    /\ UNCHANGED <<backend, can, opens, faults>>

----------------------------------------------------------------------------
(* The calls of the owner.                                                 *)

\* iio_device_create_buffer_with_metadata with network_open_with_metadata or
\* usb_open_with_metadata; a device that is open refuses a second buffer and
\* keeps its pipe as it is
Opened == [NoPipe EXCEPT !.open = TRUE]
OpenAllowed == opens < MaxOpens /\ call.pc = "idle" /\ ~can
OpenFresh ==
    /\ ~b.live
    /\ \/ NoFault /\ b' = [NoBuffer EXCEPT !.live = TRUE] /\ io' = Opened /\ opens' = opens + 1
       \/ Fault /\ UNCHANGED <<b, io, opens>>
    /\ IF backend = "usb"
       THEN \E x \in Free(ep) : ep' = usb_open(ep, "dev", x, b'.live)
       ELSE UNCHANGED ep

create_buffer_with_metadata ==
    /\ OpenAllowed
    /\ \/ OpenFresh
       \/ b.live /\ UNCHANGED <<io, b, ep, opens, faults>>
    /\ UNCHANGED <<backend, wire, call, can, sent, seen, hist>>

iio_buffer_set_metadata_batch_size ==
    /\ call.pc = "idle" /\ b.live /\ ~b.failed /\ b.cached = <<>> /\ b.df = 0
    /\ \E n \in {1, Batch} : b' = [b EXCEPT !.size = n]
    /\ UNCHANGED <<backend, io, wire, call, can, ep, sent, seen, hist, opens, faults>>

\* iio_buffer_set_metadata_read_prequeue_async, with or without a policy: one
\* READBUFMA asks for all frames of the segment
prequeue_async ==
    /\ call.pc = "idle" /\ b.live /\ ~b.failed /\ b.dp = 0 /\ b.size = 1 /\ b.cached = <<>>
    /\ Len(wire) + Direct <= MaxWire /\ ~hist.loose
    /\ LET armed == [b EXCEPT !.df = Direct, !.dp = Direct]
       IN \/ /\ ~Dead(io) /\ NoFault /\ b' = armed
             /\ Queue(DirectTrain)
             /\ UNCHANGED io
          \/ /\ IF Dead(io) THEN NoFault ELSE Fault
             /\ FailBatch(armed, io) /\ UNCHANGED wire
    /\ UNCHANGED <<backend, call, can, ep, sent, seen, hist, opens>>

\* iio_buffer_refill_with_metadata from a segment, asking for one frame, or
\* for a batch written as one train of commands
RefillDirect ==
    /\ b.df > 0 /\ b.dp > 0 /\ ~b.failed /\ Begin("direct", <<>>)
    /\ UNCHANGED <<backend, io, b, can, ep, sent, seen, hist, opens>>
SingleAllowed == b.df = 0 /\ b.cached = <<>> /\ b.size = 1 /\ ~b.failed
RefillSingle ==
    /\ SingleAllowed /\ Begin("single", Command("single"))
    /\ UNCHANGED <<backend, io, b, can, ep, sent, seen, hist, opens>>
RefillBatch ==
    /\ b.df = 0 /\ b.cached = <<>> /\ b.size = Batch /\ ~b.failed
    /\ Begin("batch", BatchTrain)
    /\ UNCHANGED <<backend, io, b, can, ep, sent, seen, hist, opens>>

\* a capacity or a mask that is not the segment's fails the buffer
RefillMismatch ==
    /\ call.pc = "idle" /\ b.live /\ b.df > 0 /\ b.dp > 0 /\ ~b.failed
    /\ FailBatch(b, io)
    /\ UNCHANGED <<backend, wire, call, can, ep, sent, seen, hist, opens, faults>>

\* Mutant: the failure of the buffer is not looked at.
ReplayFailed ==
    /\ call.pc = "idle" /\ b.live /\ b.df = 0 /\ b.cached # <<>>
    /\ b' = [b EXCEPT !.cached = Tail(@)]
    /\ Delivered(Head(b.cached), b.failed)
    /\ UNCHANGED <<backend, io, wire, call, can, ep, sent, opens, faults>>

\* the next frame of the batch that is in memory
RefillCached ==
    /\ call.pc = "idle" /\ b.live /\ b.df = 0 /\ b.cached # <<>>
    /\ IF b.failed
       THEN b' = fail_metadata_batch(b) /\ UNCHANGED <<seen, hist>>
       ELSE b' = [b EXCEPT !.cached = Tail(@)] /\ Delivered(Head(b.cached), FALSE)
    /\ UNCHANGED <<backend, io, wire, call, can, ep, sent, opens, faults>>

\* iio_buffer_get_metadata_status when nothing is kept from a failure
StatusAllowed == b.term = "none" /\ (b.dp = 0 \/ b.failed)
GetStatus ==
    /\ StatusAllowed /\ Begin("status", Command("status"))
    /\ UNCHANGED <<backend, io, b, can, ep, sent, seen, hist, opens>>

\* iio_buffer_cancel_metadata_session, in band
CancelAllowed == b.dp = 0 /\ ~b.failed
CancelSession ==
    /\ CancelAllowed /\ Begin("cancel", Command("cancel"))
    /\ UNCHANGED <<backend, io, b, can, ep, sent, seen, hist, opens>>

\* iio_buffer_drain_metadata and iio_buffer_submit_metadata_feedback
DrainAllowed == b.dp = 0 /\ ~b.failed /\ b.cached = <<>>
DrainOrFeedback ==
    /\ backend = "network" /\ DrainAllowed
    /\ \E op \in {"drain", "feedback"} : Begin(op, Command(op))
    /\ UNCHANGED <<backend, io, b, can, ep, sent, seen, hist, opens>>

\* Mutant: the device is closed with frames in flight.
DestroyPlain ==
    /\ call.pc = "idle" /\ b.live /\ ~can
    /\ IF io.cancelled
       THEN ClosePipe /\ call' = call /\ NoFault
       ELSE /\ Begin("close", Command("close"))
            /\ UNCHANGED <<io, b, ep, sent, seen, hist>>
    /\ UNCHANGED <<backend, can, opens>>

\* iio_buffer_destroy fails a buffer that has frames in flight, then closes
\* the device: no CLOSE on a pipe that was cancelled
iio_buffer_destroy ==
    /\ call.pc = "idle" /\ b.live /\ ~can
    /\ IF io.cancelled \/ (b.dp > 0 /\ ~b.failed)
       THEN ClosePipe /\ call' = call /\ NoFault
       ELSE /\ Begin("close", Command("close"))
            /\ UNCHANGED <<io, b, ep, sent, seen, hist>>
    /\ UNCHANGED <<backend, can, opens>>

\* iio_buffer_cancel in another thread: the flag, then the transport
iio_buffer_cancel ==
    /\ b.live /\ ~can /\ ~b.failed /\ call.op # "close"
    /\ b' = [b EXCEPT !.failed = TRUE] /\ can' = TRUE
    /\ UNCHANGED <<backend, io, wire, call, ep, sent, seen, hist, opens, faults>>
CancelTransport ==
    /\ can /\ can' = FALSE /\ io' = Cancelled(io)
    /\ UNCHANGED <<backend, wire, b, call, ep, sent, seen, hist, opens, faults>>

\* the thread in a call, with the data it waited for or without
Owner == \/ usb_sync_transfer \/ ReadCancelled \/ ReadError \/ ReadFrame \/ ReadBatchFrame
         \/ ReadResult \/ RefillFailed \/ CommandFailed \/ CacheTerminal

Next ==
    \/ create_buffer_with_metadata \/ iio_buffer_set_metadata_batch_size \/ prequeue_async
    \/ RefillDirect \/ RefillSingle \/ RefillBatch \/ RefillMismatch \/ RefillCached
    \/ GetStatus \/ CancelSession \/ DrainOrFeedback \/ iio_buffer_destroy
    \/ ReadTimesOut \/ Owner
    \/ iio_buffer_cancel \/ CancelTransport \/ OtherDevice \/ Daemon

\* threads in a call go on with it; the daemon owes no answer
Spec == Init /\ [][Next]_vars /\ WF_vars(Owner) /\ WF_vars(CancelTransport)

----------------------------------------------------------------------------
(* Properties *)

\* No call consumes the answer to another command, through batches and
\* segments that break off, cancellations, drains that time out and the CLOSE
\* of a pipe with frames in flight; the exceptions are the status of a segment
\* that broke off or whose cancellation has not reached the pipe yet, and the
\* pipe after a call that nothing protects (a single refill, a status, a
\* session cancel) timed out.
AnswersMatched == hist.crossed \subseteq {"term", "status"}

\* Frames come to the program one after the other, none twice and none left
\* out, whether single, from a batch in memory or from a segment.
FramesInOrder == ~hist.disorder

\* A refill begun after iio_buffer_cancel never returns a frame, a frame of a
\* batch that was already in memory included.
NothingAfterCancel == ~hist.late

\* A couple of endpoints is in use exactly when an open device has it, and two
\* open devices never share one, through opens that fail at any step.
EndpointsOwned ==
    backend = "usb" =>
        /\ \A x \in Endpoints : ep.used[x] <=> \E d \in Devices : ep.opened[d] /\ ep.at[d] = x
        /\ \A d, d2 \in Devices : ep.opened[d] /\ ep.opened[d2] /\ d # d2 => ep.at[d] # ep.at[d2]

\* The program gets the frames of its capture in order, and none after a cancel.
FramesSound == FramesInOrder /\ NothingAfterCancel

\* No answer and no endpoint goes to anyone but its owner.
PipesSound == TypeOK /\ AnswersMatched /\ EndpointsOwned

\* A poisoned pipe stays poisoned until the device is closed: a second open
\* that is refused does not revive it (usb_open, network_open).
PoisonSticks == [][io.cancelled => io'.cancelled \/ ~io'.open]_vars

\* A call of a cancelled buffer ends, though the daemon never answers: the
\* cancellation cannot fall between the check and the transfer.
CancelEndsCall == (b.failed /\ call.pc # "idle") ~> (call.pc = "idle")

\* A cancellation ends the call it meets and is not undone by another open.
CancelHeeded == PoisonSticks /\ CancelEndsCall
============================================================================
