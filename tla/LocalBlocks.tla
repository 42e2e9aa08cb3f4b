---------------------------- MODULE LocalBlocks ----------------------------
(***************************************************************************)
(* The local backend of libiio: one device opened by one iio_buffer, with  *)
(* the blocks of memory that travel between the driver and the program.    *)
(* Three threads of the program use it: the owner of the buffer (create,   *)
(* refill, push, acquire, destroy), a thread that gives leased blocks back *)
(* (the senders of iiod do) and one that cancels.  A block is lent in one  *)
(* of two ways: by local_get_buffer, which keeps one block at a time in    *)
(* last_dequeued, or by local_acquire_buffer_block, which keeps a lease    *)
(* per block.  The driver's queues are external.                           *)
(***************************************************************************)
EXTENDS Integers, Sequences, FiniteSets, Functions

CONSTANTS MaxBlocks,   \* the largest number of blocks asked of the driver
          MaxFaults,   \* failing system calls in one behaviour
          Want         \* chunks in one low-speed transfer

ASSUME MaxBlocksAssumption == MaxBlocks \in Nat \ {0}
ASSUME MaxFaultsAssumption == MaxFaults \in Nat
ASSUME WantAssumption == Want \in Nat \ {0}

VARIABLES pd,      \* struct iio_device_pdata
          event,   \* the counter of cancel_fd is not zero
          buf,     \* struct iio_buffer
          rd,      \* the call the owner of the buffer is in
          rl,      \* the call the releasing thread is in
          held,    \* blocks whose lease the program holds
          drv,     \* the driver: its blocks, its queues, buffer/enable
          late,    \* a call begun after the cancellation delivered samples
          faults   \* failures so far

vars == <<pd, event, buf, rd, rl, held, drv, late, faults>>

None == -1
Ids == 0 .. MaxBlocks - 1
NoLease == [b \in Ids |-> FALSE]
Idle == [pc |-> "idle", op |-> "none", blk |-> None, after |-> FALSE, got |-> 0]
IdleRelease == [pc |-> "idle", blk |-> None]

\* struct iio_device_pdata: what an open device keeps
Pdata == [open : BOOLEAN, blocking : BOOLEAN, max : 1 .. MaxBlocks, n : 0 .. MaxBlocks,
          lease : [Ids -> BOOLEAN], last : {None} \cup Ids,
          high_speed : BOOLEAN, cyclic : BOOLEAN, enqueued : BOOLEAN]

TypeOK ==
    /\ pd \in Pdata
    /\ event \in BOOLEAN /\ late \in BOOLEAN /\ faults \in 0 .. MaxFaults
    /\ buf \in [live : BOOLEAN, tx : BOOLEAN, lease_mode : BOOLEAN]
    /\ rd \in [pc : {"idle", "enqueue", "wait", "dequeue", "mark", "transfer"},
               op : {"none", "first", "get", "acquire", "raw"},
               blk : {None} \cup Ids, after : BOOLEAN, got : 0 .. Want]
    /\ rl \in [pc : {"idle", "enqueue", "undo"}, blk : {None} \cup Ids]
    /\ held \subseteq Ids
    /\ drv.blocks \subseteq Ids /\ drv.enabled \in BOOLEAN
    /\ drv.in \in Seq(Ids) /\ drv.out \in Seq(Ids)

Init ==
    /\ pd = [open |-> FALSE, blocking |-> TRUE, max |-> MaxBlocks, n |-> 0, lease |-> NoLease,
             last |-> None, high_speed |-> FALSE, cyclic |-> FALSE, enqueued |-> FALSE]
    /\ event = FALSE /\ late = FALSE /\ faults = 0 /\ held = {}
    /\ buf = [live |-> FALSE, tx |-> FALSE, lease_mode |-> FALSE]
    /\ rd = Idle /\ rl = IdleRelease
    /\ drv = [blocks |-> {}, in |-> <<>>, out |-> <<>>, enabled |-> FALSE]

\* a system call may fail as long as the bound on failures allows it
Fault == faults < MaxFaults /\ faults' = faults + 1
NoFault == UNCHANGED faults

----------------------------------------------------------------------------
(* Opening and closing.  Both are calculated: the owner is alone with the  *)
(* device while they run.  d is a pair of the device data and the driver.  *)

FreeBlocks(k) == [k EXCEPT !.blocks = {}, !.in = <<>>, !.out = <<>>]
CloseForgets(p) == [p EXCEPT !.n = 0, !.lease = NoLease]

\* local_close: the blocks go back only in high-speed mode, buffer/enable is
\* written last and may fail
local_close(p, k, disabled) ==
    LET freed == IF p.high_speed
                 THEN <<CloseForgets(p), FreeBlocks(k)>>
                 ELSE <<p, k>>
    IN  <<[freed[1] EXCEPT !.open = FALSE],
          [freed[2] EXCEPT !.enabled = IF disabled THEN FALSE ELSE @]>>

\* enable_high_speed, with the way it ends: the driver has no blocks
\* ("nosys"), grants none or fails the request ("alloc"), fails to map a
\* block ("map"), or grants n of the blocks asked for
enable_high_speed(p, k, ends, n) ==
    CASE ends = "nosys" -> [ret |-> "ENOSYS", p |-> p, k |-> k]
      [] ends \in {"alloc", "map"} ->
           [ret |-> "error", p |-> CloseForgets(p), k |-> FreeBlocks(k)]
      [] OTHER ->
           [ret |-> "ok",
            p |-> [p EXCEPT !.n = n, !.lease = NoLease, !.last = None],
            k |-> [k EXCEPT !.blocks = 0 .. n - 1, !.out = <<>>,
                            !.in = [i \in 1 .. n |-> i - 1]]]

Endings == {"early", "dev", "channels", "nosys", "alloc", "map", "final", "ok"}
Failures == Endings \ {"nosys", "ok"}

\* local_open up to the point where it ends: nothing is open before "dev",
\* and every later failure closes what was opened
local_open(p0, k0, cyc, ends, n) ==
    LET k1 == [k0 EXCEPT !.enabled = FALSE]
        p1 == [p0 EXCEPT !.open = TRUE]
        p2 == [p1 EXCEPT !.cyclic = cyc, !.enqueued = FALSE]
        hs == enable_high_speed(p2, k1, ends, n)
        p3 == [hs.p EXCEPT !.high_speed = (hs.ret = "ok")]
        fail(p, k) == [ret |-> "error", pk |-> local_close(p, k, TRUE)]
    IN  CASE ends = "early"    -> [ret |-> "error", pk |-> <<p0, k0>>]
          [] ends = "dev"      -> [ret |-> "error", pk |-> <<p0, k1>>]
          [] ends = "channels" -> fail(p1, k1)
          [] hs.ret = "error"  -> fail(hs.p, hs.k)
          [] ends = "nosys" /\ cyc -> fail(p3, hs.k)
          [] ends = "final"    -> fail(p3, hs.k)
          [] OTHER -> [ret |-> "ok", pk |-> <<p3, [hs.k EXCEPT !.enabled = TRUE]>>]

\* create_buffer on a closed device: the open, and for an output buffer in
\* high-speed mode the call of get_buffer that fetches the first block
create_buffer ==
    \E tx, cyc \in BOOLEAN, ends \in Endings, n \in 1 .. pd.max :
        \E r \in {local_open(pd, drv, cyc, ends, IF cyc THEN 1 ELSE n)} :
            /\ ~buf.live /\ ~pd.open
            /\ IF ends \in Failures THEN Fault ELSE NoFault
            /\ cyc => tx
            /\ pd' = r.pk[1] /\ drv' = r.pk[2]
            /\ event' = IF r.ret = "ok" THEN FALSE ELSE event
            /\ buf' = [live |-> r.ret = "ok", tx |-> tx, lease_mode |-> FALSE]
            /\ rd' = IF r.ret = "ok" /\ tx /\ pd'.high_speed
                     THEN [Idle EXCEPT !.pc = "wait", !.op = "first"] ELSE rd
            /\ late' = IF r.ret = "ok" THEN FALSE ELSE late
    /\ UNCHANGED <<rl, held>>

\* iio_buffer_destroy: the program has given every lease back before
iio_buffer_destroy ==
    /\ buf.live /\ rd.pc = "idle" /\ rl.pc = "idle" /\ held = {}
    /\ \E disabled \in BOOLEAN :
         \E r \in {local_close(pd, drv, disabled)} :
            /\ IF disabled THEN NoFault ELSE Fault
            /\ pd' = r[1] /\ drv' = r[2]
    /\ buf' = [buf EXCEPT !.live = FALSE, !.lease_mode = FALSE]
    /\ UNCHANGED <<event, rd, rl, held, late>>

local_set_kernel_buffers_count ==
    /\ ~pd.open
    /\ \E n \in 1 .. MaxBlocks : pd' = [pd EXCEPT !.max = n]
    /\ UNCHANGED <<event, buf, rd, rl, held, drv, late, faults>>

local_set_blocking_mode ==
    /\ buf.live /\ rd.pc = "idle" /\ ~pd.cyclic
    /\ \E b \in BOOLEAN : pd' = [pd EXCEPT !.blocking = b]
    /\ UNCHANGED <<event, buf, rd, rl, held, drv, late, faults>>

\* local_cancel through iio_buffer_cancel
local_cancel ==
    /\ buf.live /\ rd.op # "first"
    /\ event' = TRUE
    /\ UNCHANGED <<pd, buf, rd, rl, held, drv, late, faults>>

----------------------------------------------------------------------------
(* The calls of the owner.                                                 *)

Call(op, pc) == rd' = [Idle EXCEPT !.pc = pc, !.op = op, !.after = event]

\* a call ends without samples; the call create_buffer makes closes the
\* device when it fails
Fails ==
    /\ rd' = Idle
    /\ IF rd.op = "first"
       THEN \E r \in {local_close(pd, drv, TRUE)} :
              pd' = r[1] /\ drv' = r[2] /\ buf' = [buf EXCEPT !.live = FALSE]
       ELSE UNCHANGED <<pd, drv, buf>>

Delivers == rd' = Idle /\ late' = (late \/ rd.after)

\* iio_buffer_refill and iio_buffer_push in high-speed mode: local_get_buffer
\* returns the block of the last call first
GetBufferCall ==
    /\ buf.live /\ rd.pc = "idle" /\ pd.high_speed
    /\ ~buf.tx => ~buf.lease_mode
    /\ pd.last # None => (pd.cyclic => ~pd.enqueued)
    /\ Call("get", IF pd.last # None THEN "enqueue" ELSE "wait")
    /\ pd' = IF pd.last # None /\ pd.cyclic THEN [pd EXCEPT !.enqueued = TRUE] ELSE pd
    /\ UNCHANGED <<event, buf, rl, held, drv, late, faults>>

\* the block goes to the driver, or stays when the driver refuses it
GetBufferEnqueue ==
    /\ rd.pc = "enqueue"
    /\ \/ NoFault /\ drv' = [drv EXCEPT !.in = Append(@, pd.last)]
          /\ IF pd.cyclic
             THEN pd' = pd /\ Delivers
             ELSE /\ pd' = [pd EXCEPT !.last = None]
                  /\ rd' = [rd EXCEPT !.pc = "wait"] /\ UNCHANGED late
       \/ Fault /\ rd' = Idle /\ UNCHANGED <<pd, drv, late>>
    /\ UNCHANGED <<event, buf, rl, held>>

\* iio_buffer_block_acquire, refused while a block of get_buffer is out
AcquireCall ==
    /\ buf.live /\ rd.pc = "idle" /\ pd.high_speed /\ ~buf.tx /\ pd.last = None
    /\ Call("acquire", "wait")
    /\ UNCHANGED <<pd, event, buf, rl, held, drv, late, faults>>

\* iio_buffer_refill and iio_buffer_push in low-speed mode: local_read, local_write
RawCall ==
    /\ buf.live /\ rd.pc = "idle" /\ ~pd.high_speed
    /\ Call("raw", "wait")
    /\ UNCHANGED <<pd, event, buf, rl, held, drv, late, faults>>

\* device_check_ready, with the device ready or the time over; a cancellation
\* is seen before the device
Ready == IF rd.op = "raw" THEN TRUE ELSE drv.out # <<>>
Next_pc == IF rd.op = "raw" THEN "transfer" ELSE "dequeue"

\* Mutant: the poll does not see the cancellation.
NotWoken ==
    /\ rd.pc = "wait"
    /\ \/ /\ ~pd.blocking \/ Ready
          /\ NoFault /\ rd' = [rd EXCEPT !.pc = Next_pc] /\ UNCHANGED <<pd, drv, buf>>
       \/ /\ pd.blocking /\ Fault /\ Fails
    /\ UNCHANGED <<event, rl, held, late>>

device_check_ready ==
    /\ rd.pc = "wait"
    /\ \/ /\ ~pd.blocking \/ (~event /\ Ready)
          /\ NoFault /\ rd' = [rd EXCEPT !.pc = Next_pc] /\ UNCHANGED <<pd, drv, buf>>
       \/ /\ pd.blocking /\ event
          /\ NoFault /\ Fails
       \/ /\ pd.blocking /\ ~event
          /\ Fault /\ Fails
    /\ UNCHANGED <<event, rl, held, late>>

\* BLOCK_DEQUEUE_IOCTL: a block, nothing yet, or an error
Dequeue ==
    /\ rd.pc = "dequeue"
    /\ \/ /\ drv.out # <<>> /\ NoFault
          /\ drv' = [drv EXCEPT !.out = Tail(@)]
          /\ IF rd.op = "acquire"
             THEN rd' = [rd EXCEPT !.pc = "mark", !.blk = Head(drv.out)] /\ UNCHANGED <<pd, late>>
             ELSE pd' = [pd EXCEPT !.last = Head(drv.out)] /\ Delivers
          /\ UNCHANGED buf
       \/ /\ drv.out = <<>> /\ pd.blocking /\ NoFault
          /\ rd' = [rd EXCEPT !.pc = "wait"] /\ UNCHANGED <<pd, drv, buf, late>>
       \/ /\ drv.out = <<>> /\ ~pd.blocking /\ NoFault
          /\ Fails /\ UNCHANGED late
       \/ /\ Fault /\ Fails /\ UNCHANGED late
    /\ UNCHANGED <<event, rl, held>>

\* the rest of local_acquire_buffer_block, under the lease lock: a block
\* that is still marked goes back to the driver with -EIO
AcquireMark ==
    /\ rd.pc = "mark"
    /\ IF pd.lease[rd.blk]
       THEN /\ drv' = [drv EXCEPT !.in = Append(@, rd.blk)]
            /\ rd' = Idle /\ UNCHANGED <<pd, buf, held, late>>
       ELSE /\ pd' = [pd EXCEPT !.lease[rd.blk] = TRUE]
            /\ held' = held \cup {rd.blk}
            /\ buf' = [buf EXCEPT !.lease_mode = TRUE]
            /\ Delivers /\ UNCHANGED drv
    /\ UNCHANGED <<event, rl, faults>>

\* one read or write of the file; the call goes back to poll until the whole
\* length is transferred, and fails with what it has when the device does
Transfer ==
    /\ rd.pc = "transfer"
    /\ \/ /\ NoFault /\ rd.got + 1 < Want
          /\ rd' = [rd EXCEPT !.pc = "wait", !.got = @ + 1] /\ UNCHANGED late
       \/ NoFault /\ rd.got + 1 = Want /\ Delivers
       \/ Fault /\ rd' = Idle /\ UNCHANGED late
    /\ UNCHANGED <<pd, event, buf, rl, held, drv>>

----------------------------------------------------------------------------
(* iio_buffer_block_release: the mark is taken off before the driver gets  *)
(* the block, and put back when the driver refuses it.                     *)

\* Mutant: the mark is taken off after the driver has the block.
ReleaseKeepsMark ==
    /\ rl.pc = "idle"
    /\ \E b \in held : rl' = [pc |-> "enqueue", blk |-> b]
    /\ UNCHANGED <<pd, event, buf, rd, held, drv, late, faults>>

ReleaseUnmark ==
    /\ rl.pc = "idle"
    /\ \E b \in held :
         /\ pd.lease[b]
         /\ pd' = [pd EXCEPT !.lease[b] = FALSE]
         /\ rl' = [pc |-> "enqueue", blk |-> b]
    /\ UNCHANGED <<event, buf, rd, held, drv, late, faults>>

ReleaseEnqueue ==
    /\ rl.pc = "enqueue"
    /\ \/ /\ NoFault /\ rl' = IdleRelease
          /\ drv' = [drv EXCEPT !.in = Append(@, rl.blk)]
          /\ held' = held \ {rl.blk}
       \/ Fault /\ rl' = [rl EXCEPT !.pc = "undo"] /\ UNCHANGED <<drv, held>>
    /\ UNCHANGED <<pd, event, buf, rd, late>>

ReleaseUndo ==
    /\ rl.pc = "undo"
    /\ pd' = [pd EXCEPT !.lease[rl.blk] = TRUE]
    /\ rl' = IdleRelease
    /\ UNCHANGED <<event, buf, rd, held, drv, late, faults>>

\* the hardware fills, or empties, the oldest block of the driver
Hardware ==
    /\ drv.in # <<>> /\ drv.enabled /\ ~(pd.cyclic /\ pd.enqueued)
    /\ drv' = [drv EXCEPT !.in = Tail(@), !.out = Append(@, Head(drv.in))]
    /\ UNCHANGED <<pd, event, buf, rd, rl, held, late, faults>>

Owner == GetBufferEnqueue \/ device_check_ready \/ Dequeue \/ AcquireMark \/ Transfer

Next == \/ create_buffer \/ iio_buffer_destroy \/ local_set_kernel_buffers_count
        \/ local_set_blocking_mode \/ local_cancel
        \/ GetBufferCall \/ AcquireCall \/ RawCall \/ Owner
        \/ ReleaseUnmark \/ ReleaseEnqueue \/ ReleaseUndo \/ Hardware

\* a thread in a call goes on with it; the hardware owes nothing
Spec == Init /\ [][Next]_vars /\ WF_vars(Owner)

----------------------------------------------------------------------------
(* Properties *)

InDriver(b) == b \in Range(drv.in) \cup Range(drv.out)
WithProgram(b) == \/ pd.last = b /\ ~(pd.cyclic /\ InDriver(b))
                  \/ b \in held
                  \/ rd.pc = "mark" /\ rd.blk = b
Copies(s, b) == Cardinality({i \in DOMAIN s : s[i] = b})

\* Every block of an open device is in exactly one place: queued once at the
\* driver, or with the program (the block of get_buffer, a lease, a block
\* just dequeued), through refused enqueues, failed calls and releases that
\* run beside acquires (local.c get_buffer, acquire and release).
BlocksConserved ==
    \A b \in drv.blocks :
        /\ Copies(drv.in, b) + Copies(drv.out, b) = IF WithProgram(b) THEN 0 ELSE 1
        /\ Cardinality({w \in 1 .. 3 : \/ w = 1 /\ pd.last = b
                                       \/ w = 2 /\ b \in held
                                       \/ w = 3 /\ rd.pc = "mark" /\ rd.blk = b}) <= 1

\* A block the driver hands to local_acquire_buffer_block is never marked as
\* leased, however the releasing thread interleaves: no capture fails with a
\* spurious -EIO (local.c acquire against release).
NoSpuriousLease == rd.pc = "mark" => ~pd.lease[rd.blk]

\* A device that is not open has no blocks, no lease marks and no block
\* count left, whichever step of local_open failed before, also when the
\* session before it had blocks (local_open, enable_high_speed, local_close).
ClosedClean ==
    ~pd.open => drv.blocks = {} /\ drv.in = <<>> /\ drv.out = <<>>
                /\ pd.n = 0 /\ pd.lease = NoLease

\* Blocks and leases are neither lost nor doubled, from open to close.
BlocksSound == TypeOK /\ BlocksConserved /\ NoSpuriousLease /\ ClosedClean

\* A call begun after iio_buffer_cancel on a blocking buffer delivers nothing.
CancelSticks == [][late' /\ ~late => ~pd.blocking \/ pd.cyclic]_vars

\* A blocked call of a cancelled buffer ends though the hardware never
\* delivers another block (device_check_ready polls cancel_fd as well).
CancelEndsCall == (event /\ pd.blocking /\ rd.pc # "idle") ~> (rd.pc = "idle")

\* A cancellation ends the call it meets and delivers nothing to a later one.
CancelHeeded == CancelSticks /\ CancelEndsCall
============================================================================
