------------------------------ MODULE DdrRing ------------------------------
(***************************************************************************)
(* A capture through the DDR frame ring of iiod (iiod/ops.c): the producer *)
(* thread ring_producer_thd refills the kernel buffer and fills ring       *)
(* slots, the R/W worker rw_thd sends frames to the client, and the        *)
(* client's own parser thread queues READBUF commands and tears the        *)
(* session down.  The ring mode is exclusive: one client per device entry. *)
(*                                                                         *)
(* Every step is one critical section of ring_lock or thdlist_lock, or the *)
(* work a thread does between two of them.  thdlist_lock is held across    *)
(* steps only by rw_thd (Locked).  A thread blocked on a condition         *)
(* variable is in ring_ready or rw_ready; a broadcast empties the set.     *)
(* A spurious wakeup would re-check the loop condition and block again,    *)
(* and is left out.                                                        *)
(***************************************************************************)
EXTENDS DdrRingCore, Sequences

CONSTANTS
    RefillErrors,           \* errnos refilling or describing a frame can give
    CounterMetadata,        \* metadata_extra_samples # 0: frames carry a counter
    MaxStartupDiscards      \* IIOD_BURST_MAX_STARTUP_DISCARDS

Errno == {"ETIMEDOUT", "EOVERFLOW", "ECANCELED", "EPIPE", "EIO", "EBUSY"}

ASSUME RefillErrorsAssumption == RefillErrors \subseteq Errno
ASSUME CounterMetadataAssumption == CounterMetadata \in BOOLEAN
ASSUME MaxStartupDiscardsAssumption == MaxStartupDiscards \in Nat

VARIABLES
    ring,       \* entry->ring.core
    cont,       \* the continuity fields of entry->ring.core
    frames,     \* the frame in each slot, by its first sample sequence
    producer,   \* ring_producer_thd: where it is
    error,      \* ring_producer_thd: its local error
    discards,   \* ring_producer_thd: startup_discards
    seq,        \* device: sequence number of the next sample
    rw,         \* rw_thd: where it is
    client,     \* the client's parser thread: where it is
    waitClose,  \* close_dev_helper: wait_for_exclusive_close
    thd,        \* the client's struct ThdEntry
    entry,      \* struct DevEntry
    ring_ready, \* threads blocked on ring_ready_cond
    rw_ready,   \* threads blocked on rw_ready_cond
    stopped,    \* main_thread_pool is stopped
    captured    \* history: the frames committed so far, in order

prodVars == <<producer, error, discards, seq, captured>>
clientVars == <<client, waitClose>>
vars == <<ring, cont, frames, producer, error, discards, seq, rw, client, waitClose,
          thd, entry, ring_ready, rw_ready, stopped, captured>>

NoFrame == -1

ProducerPc == {"off", "loop", "reserve", "refill", "commit", "abort", "exit",
               "take", "exited", "notify", "done"}
RwPc == {"top", "idle", "wait", "send", "sending", "drain", "final", "put", "done"}
ClientPc == {"opening", "idle", "reading", "hungup", "leaving", "closing", "gone"}

\* struct ThdEntry: linked in thdlist_head, active, sizes of the request fit the
\* frame, wait_for_open cleared, err set.
ThdEntry == [linked : BOOLEAN, active : BOOLEAN, fits : BOOLEAN, opened : BOOLEAN,
             err : BOOLEAN]

\* struct DevEntry: buf and metadata_provider_context (they live and die
\* together), the ring's mapping, the producer's flags, closed, ref_count.
DevEntry == [buf : BOOLEAN, mapped : BOOLEAN, producer_started : BOOLEAN,
             producer_exited : BOOLEAN, closed : BOOLEAN, ref_count : Int]

\* rw_thd holds thdlist_lock while it sends and while it closes the entry.
Locked == rw \in {"sending", "final"}

Init ==
    /\ ring = CoreInit
    /\ cont = ContinuityInit
    /\ frames = [s \in Slots |-> NoFrame]
    /\ producer = "off" /\ error = "none" /\ discards = 0 /\ seq = 0
    /\ rw = "top"
    /\ client = "opening" /\ waitClose = FALSE
    /\ thd = [linked |-> TRUE, active |-> FALSE, fits |-> FALSE, opened |-> FALSE,
              err |-> FALSE]
    /\ entry = [buf |-> FALSE, mapped |-> FALSE,
                producer_started |-> FALSE, producer_exited |-> FALSE,
                closed |-> FALSE, ref_count |-> 2]
    /\ ring_ready = {} /\ rw_ready = {}
    /\ stopped = FALSE
    /\ captured = << >>

\* dev_entry_put; the entry is freed when ref_count reaches 0.
DevEntryPut == entry' = [entry EXCEPT !.ref_count = @ - 1]
Freed == entry.ref_count = 0

\* signal_thread
Signalled(failed) == [thd EXCEPT !.active = FALSE, !.opened = TRUE, !.err = failed]

-----------------------------------------------------------------------------
(* ring_producer_thd *)

FailureReason(e) ==
    CASE e = "EOVERFLOW" -> "COUNTER_GAP"
      [] e = "ETIMEDOUT" -> "CONSUMER_STALL"
      [] e \in {"ECANCELED", "EPIPE"} -> "CLIENT_DISCONNECTED"
      [] OTHER -> "DMA_ERROR"

ProducerLoop ==
    /\ producer = "loop"
    /\ producer' = IF stopped THEN "exit" ELSE "reserve"
    /\ UNCHANGED <<ring, cont, frames, error, discards, seq, rw, clientVars, thd, entry,
                   ring_ready, rw_ready, stopped, captured>>

\* Wait for a free slot; ESHUTDOWN and ENODATA end the thread quietly.
ProducerReserveSlot ==
    /\ producer = "reserve" /\ "producer" \notin ring_ready
    /\ LET ret == ProducerReserveRet(ring)
       IN  /\ ring' = IF ret = "OK" THEN ProducerReserve(ring) ELSE ring
           /\ ring_ready' = IF ret = "EAGAIN" THEN ring_ready \cup {"producer"}
                                              ELSE ring_ready
           /\ producer' = CASE ret = "OK" -> "refill"
                            [] ret = "EAGAIN" -> "reserve"
                            [] OTHER -> "exit"
           /\ error' = IF ret = "EBUSY" THEN "EBUSY" ELSE error
    /\ UNCHANGED <<cont, frames, discards, seq, rw, clientVars, thd, entry, rw_ready,
                   stopped, captured>>

\* The device delivers a frame; lost samples show as a jump of the counter.
NextFrame(first) == first \in {seq, seq + 1} /\ first <= MaxSample

\* refill, metadata and copy into the reserved slot succeed.
ProducerFill(first) ==
    /\ producer = "refill" /\ NextFrame(first)
    /\ frames' = [frames EXCEPT ![ring.producer_position] = first]
    /\ seq' = first + 1
    /\ producer' = "commit"
    /\ UNCHANGED <<ring, cont, error, discards, rw, clientVars, thd, entry, ring_ready,
                   rw_ready, stopped, captured>>

\* The provider has no description for this frame yet (-EAGAIN).
ProducerDiscard ==
    /\ producer = "refill" /\ NextFrame(seq)
    /\ seq' = seq + 1
    /\ ring' = TryProducerAbort(ring)
    /\ discards' = discards + 1
    /\ IF discards' > MaxStartupDiscards
       THEN error' = "ETIMEDOUT" /\ producer' = "exit"
       ELSE producer' = "loop" /\ UNCHANGED error
    /\ UNCHANGED <<cont, frames, rw, clientVars, thd, entry, ring_ready, rw_ready,
                   stopped, captured>>

\* The refill fails, or the provider rejects the frame (describing).
ProducerRefillError(e, describing) ==
    /\ producer = "refill"
    /\ error' = e
    /\ cont' = IF describing /\ CounterMetadata THEN MarkUnavailable(cont, seq) ELSE cont
    /\ producer' = "abort"
    /\ UNCHANGED <<ring, frames, discards, seq, rw, clientVars, thd, entry, ring_ready,
                   rw_ready, stopped, captured>>

ProducerAbortSlot ==
    /\ producer = "abort"
    /\ ring' = TryProducerAbort(ring)
    /\ producer' = "exit"
    /\ UNCHANGED <<cont, frames, error, discards, seq, rw, clientVars, thd, entry,
                   ring_ready, rw_ready, stopped, captured>>

ProducerCommitSlot ==
    /\ producer = "commit"
    /\ LET ret == ProducerCommitRet(ring)
           first == frames[ring.producer_position]
           observed == IF CounterMetadata THEN ObserveSamplesRet(first) ELSE "OK"
       IN  /\ ring' = IF ret = "OK" THEN ProducerCommit(ring) ELSE ring
           /\ captured' = IF ret = "OK" THEN Append(captured, first) ELSE captured
           /\ cont' = IF ret = "OK" /\ observed = "OK" /\ CounterMetadata
                      THEN ObserveSamples(cont, first) ELSE cont
           /\ error' = IF ret # "OK" THEN "EIO"
                       ELSE IF observed # "OK" THEN observed ELSE error
           /\ producer' = IF ret = "OK" /\ observed = "OK" THEN "loop" ELSE "exit"
    /\ ring_ready' = {}
    /\ UNCHANGED <<frames, discards, seq, rw, clientVars, thd, entry, rw_ready, stopped>>

\* The thread leaves its loop: it fails or cancels a ring that still runs.
ProducerExit ==
    /\ producer = "exit"
    /\ ring' = IF error # "none" /\ ring.state # "CANCELLED"
               THEN TryFail(ring, FailureReason(error))
               ELSE IF error = "none" /\ ring.state = "RUNNING"
               THEN TryCancel(ring, "CLIENT_CANCELLED") ELSE ring
    /\ ring_ready' = {}
    /\ producer' = "take"
    /\ UNCHANGED <<cont, frames, error, discards, seq, rw, clientVars, thd, entry,
                   rw_ready, stopped, captured>>

\* It takes the buffer and the provider context from the entry, destroys them,
ProducerTakeBuffer ==
    /\ producer = "take" /\ ~Locked
    /\ entry' = [entry EXCEPT !.buf = FALSE]
    /\ producer' = "exited"
    /\ UNCHANGED <<ring, cont, frames, error, discards, seq, rw, clientVars, thd,
                   ring_ready, rw_ready, stopped, captured>>

\* announces it to rw_thd,
ProducerExited ==
    /\ producer = "exited"
    /\ entry' = [entry EXCEPT !.producer_exited = TRUE]
    /\ ring_ready' = {}
    /\ producer' = "notify"
    /\ UNCHANGED <<ring, cont, frames, error, discards, seq, rw, clientVars, thd,
                   rw_ready, stopped, captured>>

\* and drops its reference on the entry.
ProducerPut ==
    /\ producer = "notify" /\ ~Locked
    /\ rw_ready' = {}
    /\ DevEntryPut
    /\ producer' = "done"
    /\ UNCHANGED <<ring, cont, frames, error, discards, seq, rw, clientVars, thd,
                   ring_ready, stopped, captured>>

Producer ==
    \/ ProducerLoop \/ ProducerReserveSlot
    \/ \E first \in 0 .. MaxSample : ProducerFill(first)
    \/ ProducerDiscard
    \/ \E e \in RefillErrors, describing \in BOOLEAN : ProducerRefillError(e, describing)
    \/ ProducerAbortSlot \/ ProducerCommitSlot \/ ProducerExit
    \/ ProducerTakeBuffer \/ ProducerExited \/ ProducerPut

-----------------------------------------------------------------------------
(* rw_thd *)

\* Open the session: prepare the ring, create the buffer, start the producer.
RwOpen ==
    /\ rw = "top" /\ thd.linked /\ ~thd.opened /\ StartRet(ring) = "OK"
    /\ ring' = Start(ring)
    /\ entry' = [entry EXCEPT !.buf = TRUE, !.mapped = TRUE, !.producer_started = TRUE,
                              !.producer_exited = FALSE, !.ref_count = @ + 1]
    /\ producer' = "loop"
    /\ thd' = Signalled(FALSE)
    /\ rw' = "idle" /\ rw_ready' = rw_ready \cup {"rw"}
    /\ UNCHANGED <<cont, frames, error, discards, seq, clientVars, ring_ready, stopped,
                   captured>>

\* A step of the opening fails: before the ring is mapped, before the buffer
\* exists, or when the producer thread cannot be started.
RwOpenFail(mapped, buf) ==
    /\ rw = "top" /\ thd.linked /\ ~thd.opened
    /\ buf => (mapped /\ StartRet(ring) = "OK")
    /\ ring' = IF buf THEN TryFail(Start(ring), "INTERNAL_ERROR") ELSE ring
    /\ entry' = [entry EXCEPT !.buf = buf, !.mapped = mapped, !.producer_exited = buf]
    /\ rw' = "final"
    /\ UNCHANGED <<cont, frames, prodVars, clientVars, thd, ring_ready, rw_ready, stopped>>

\* Top of the loop, under thdlist_lock.
RwTop ==
    /\ rw = "top" /\ (thd.linked => thd.opened)
    /\ rw' = IF ~thd.linked
             THEN IF entry.producer_started THEN "drain" ELSE "final"
             ELSE IF thd.active THEN "wait" ELSE "idle"
    /\ rw_ready' = IF rw' = "idle" THEN rw_ready \cup {"rw"} ELSE rw_ready
    /\ UNCHANGED <<ring, cont, frames, prodVars, clientVars, thd, entry, ring_ready,
                   stopped>>

\* Woken up from rw_ready_cond.
RwWake ==
    /\ rw = "idle" /\ "rw" \notin rw_ready
    /\ rw' = "top"
    /\ UNCHANGED <<ring, cont, frames, prodVars, clientVars, thd, entry, ring_ready,
                   rw_ready, stopped>>

\* A reader is waiting: block while the ring runs and has no frame for it.
RwWait ==
    /\ rw = "wait" /\ "rw" \notin ring_ready
    /\ IF ring.state = "RUNNING" /\ ~ConsumerReady(ring)
       THEN ring_ready' = ring_ready \cup {"rw"} /\ UNCHANGED rw
       ELSE rw' = "send" /\ UNCHANGED ring_ready
    /\ UNCHANGED <<ring, cont, frames, prodVars, clientVars, thd, entry, rw_ready, stopped>>

\* send_ring_data up to the first write, for the client if it is still active.
RwReserve ==
    /\ rw = "send"
    /\ LET ret == IF thd.linked /\ thd.active THEN ConsumerReserveRet(ring) ELSE "SKIP"
           mismatch == ret = "OK" /\ ~thd.fits
       IN  /\ ring' = IF mismatch THEN TryCancel(ConsumerReserve(ring), "CLIENT_CANCELLED")
                      ELSE IF ret = "OK" THEN ConsumerReserve(ring) ELSE ring
           /\ ring_ready' = IF mismatch THEN {} ELSE ring_ready
           /\ rw' = IF ret = "OK" /\ thd.fits THEN "sending" ELSE "top"
           /\ thd' = IF mismatch \/ ret \notin {"OK", "EAGAIN", "SKIP"}
                     THEN Signalled(TRUE) ELSE thd
    /\ UNCHANGED <<cont, frames, prodVars, clientVars, entry, rw_ready, stopped>>

\* The frame went out: its slot is released and the client signalled.
RwSent ==
    /\ rw = "sending"
    /\ LET ret == ConsumerReleaseRet(ring)
       IN  /\ ring' = IF ret = "OK" THEN ConsumerRelease(ring) ELSE ring
           /\ thd' = Signalled(ret # "OK")
    /\ ring_ready' = {}
    /\ rw' = "top"
    /\ UNCHANGED <<cont, frames, prodVars, clientVars, entry, rw_ready, stopped>>

\* A write fails: transport_failure.
RwSendFail ==
    /\ rw = "sending"
    /\ ring' = TryCancel(ring, "CLIENT_DISCONNECTED")
    /\ ring_ready' = {}
    /\ thd' = Signalled(TRUE)
    /\ rw' = "top"
    /\ UNCHANGED <<cont, frames, prodVars, clientVars, entry, rw_ready, stopped>>

\* No client is left: wait for the producer to exit,
RwDrainWait ==
    /\ rw = "drain" /\ ~entry.producer_exited /\ "rw" \notin ring_ready
    /\ ring_ready' = ring_ready \cup {"rw"}
    /\ UNCHANGED <<ring, cont, frames, prodVars, rw, clientVars, thd, entry, rw_ready,
                   stopped>>

\* Mutant: the worker does not wait for the producer.
RwDrainedEarly ==
    /\ rw = "drain"
    /\ ring' = TryCancel(ring, "CLIENT_DISCONNECTED")
    /\ ring_ready' = {}
    /\ rw' = "final"
    /\ UNCHANGED <<cont, frames, prodVars, clientVars, thd, entry, rw_ready, stopped>>

\* then cancel what is left of the ring.  The second wait for producer_exited
\* in the teardown returns at once: the flag is never cleared.
RwDrained ==
    /\ rw = "drain" /\ entry.producer_exited
    /\ ring' = TryCancel(ring, "CLIENT_DISCONNECTED")
    /\ ring_ready' = {}
    /\ rw' = "final"
    /\ UNCHANGED <<cont, frames, prodVars, clientVars, thd, entry, rw_ready, stopped>>

\* Signal the remaining client, release buffer and storage, close the entry.
RwFinal ==
    /\ rw = "final"
    /\ thd' = IF thd.linked THEN [Signalled(TRUE) EXCEPT !.linked = FALSE] ELSE thd
    /\ entry' = [entry EXCEPT !.buf = FALSE, !.mapped = FALSE, !.closed = TRUE]
    /\ rw_ready' = {}
    /\ rw' = "put"
    /\ UNCHANGED <<ring, cont, frames, prodVars, clientVars, ring_ready, stopped>>

RwPut ==
    /\ rw = "put"
    /\ DevEntryPut
    /\ rw' = "done"
    /\ UNCHANGED <<ring, cont, frames, prodVars, clientVars, thd, ring_ready, rw_ready,
                   stopped>>

Rw ==
    \/ RwOpen \/ \E mapped, buf \in BOOLEAN : RwOpenFail(mapped, buf)
    \/ RwTop \/ RwWake \/ RwWait \/ RwReserve \/ RwSent \/ RwSendFail
    \/ RwDrainWait \/ RwDrained \/ RwFinal \/ RwPut

-----------------------------------------------------------------------------
(* The client's parser thread *)

\* open_dev_helper and rw_buffer return once the client is signalled.
ClientOpened ==
    /\ client = "opening" /\ thd.opened
    /\ client' = IF thd.err THEN "leaving" ELSE "idle"
    /\ UNCHANGED <<ring, cont, frames, prodVars, rw, waitClose, thd, entry, ring_ready,
                   rw_ready, stopped>>

\* rw_buffer; fits: the sizes asked for match the frame and its metadata.
ClientRead(fits) ==
    /\ client = "idle" /\ ~Locked /\ ~entry.closed
    /\ thd' = [thd EXCEPT !.active = TRUE, !.fits = fits, !.err = FALSE]
    /\ client' = "reading"
    /\ rw_ready' = rw_ready \ {"rw"}
    /\ UNCHANGED <<ring, cont, frames, prodVars, rw, waitClose, entry, ring_ready, stopped>>

ClientReadDone ==
    /\ client = "reading" /\ ~thd.active /\ ~Locked
    /\ client' = "idle"
    /\ UNCHANGED <<ring, cont, frames, prodVars, rw, waitClose, thd, entry, ring_ready,
                   rw_ready, stopped>>

\* The socket is closed by the peer, or the pool stops.  The interpreter then
\* closes every opened device; a client that was still opening removes itself.
ClientHangUp ==
    /\ client \in {"opening", "idle", "reading"}
    /\ client' = IF client = "opening" THEN "leaving" ELSE "hungup"
    /\ UNCHANGED <<ring, cont, frames, prodVars, rw, waitClose, thd, entry, ring_ready,
                   rw_ready, stopped>>

\* close_dev_helper up to remove_thd_entry.
ClientClose ==
    /\ client \in {"idle", "hungup"} /\ ~Locked
    /\ waitClose' = thd.linked
    /\ entry' = IF thd.linked THEN [entry EXCEPT !.ref_count = @ + 1] ELSE entry
    /\ client' = "leaving"
    /\ UNCHANGED <<ring, cont, frames, prodVars, rw, thd, ring_ready, rw_ready, stopped>>

\* Mutant: the last client does not cancel the ring.
ClientRemoveNoCancel ==
    /\ client = "leaving" /\ ~Locked
    /\ thd' = [thd EXCEPT !.linked = FALSE]
    /\ DevEntryPut
    /\ rw_ready' = rw_ready \ {"rw"}
    /\ client' = IF waitClose THEN "closing" ELSE "gone"
    /\ UNCHANGED <<ring, ring_ready, cont, frames, prodVars, rw, waitClose, stopped>>

\* remove_thd_entry: the last client cancels a ring whose buffer exists.
ClientRemove ==
    /\ client = "leaving" /\ ~Locked
    /\ IF ~entry.closed
       THEN /\ thd' = [thd EXCEPT !.linked = FALSE]
            /\ IF entry.buf /\ entry.producer_started
               THEN ring' = TryCancel(ring, "CLIENT_DISCONNECTED") /\ ring_ready' = {}
               ELSE UNCHANGED <<ring, ring_ready>>
            /\ rw_ready' = rw_ready \ {"rw"}
       ELSE UNCHANGED <<thd, ring, ring_ready, rw_ready>>
    /\ DevEntryPut
    /\ client' = IF waitClose THEN "closing" ELSE "gone"
    /\ UNCHANGED <<cont, frames, prodVars, rw, waitClose, stopped>>

\* The rest of close_dev_helper: wait for rw_thd to close the entry.
ClientCloseWait ==
    /\ client = "closing" /\ ~Locked /\ ~entry.closed /\ "client" \notin rw_ready
    /\ rw_ready' = rw_ready \cup {"client"}
    /\ UNCHANGED <<ring, cont, frames, prodVars, rw, clientVars, thd, entry, ring_ready,
                   stopped>>

ClientClosed ==
    /\ client = "closing" /\ entry.closed /\ "client" \notin rw_ready
    /\ DevEntryPut
    /\ client' = "gone"
    /\ UNCHANGED <<ring, cont, frames, prodVars, rw, waitClose, thd, ring_ready, rw_ready,
                   stopped>>

Client ==
    \/ ClientOpened \/ \E fits \in BOOLEAN : ClientRead(fits)
    \/ ClientReadDone \/ ClientHangUp \/ ClientClose \/ ClientRemove
    \/ ClientCloseWait \/ ClientClosed

\* thread_pool_stop on the main pool.
PoolStop ==
    /\ ~stopped /\ stopped' = TRUE
    /\ UNCHANGED <<ring, cont, frames, prodVars, rw, clientVars, thd, entry, ring_ready,
                   rw_ready>>

\* Everything has exited: the session is over.
SessionOver == producer \in {"off", "done"} /\ rw = "done" /\ client = "gone"
Terminated == SessionOver /\ UNCHANGED vars

Next == Producer \/ Rw \/ Client \/ PoolStop \/ Terminated

Spec == Init /\ [][Next]_vars

\* The threads run, a refill ends by its timeout at the latest, a write ends
\* because the peer reads or goes away; clients need never read or leave,
\* but a signalled, stopped or leaving one finishes its command.
Fairness ==
    /\ WF_vars(Producer) /\ WF_vars(Rw)
    /\ WF_vars(ClientOpened) /\ WF_vars(ClientReadDone)
    /\ WF_vars(ClientRemove \/ ClientCloseWait \/ ClientClosed)
    /\ WF_vars(client = "hungup" /\ ClientClose)
    /\ WF_vars(stopped /\ ClientHangUp)

LiveSpec == Spec /\ Fairness

-----------------------------------------------------------------------------
(* Properties *)

\* The variables have the types of the C structures.
TypeOK ==
    /\ ring \in Ring /\ cont \in Continuity
    /\ frames \in [Slots -> 0 .. MaxSample \cup {NoFrame}]
    /\ producer \in ProducerPc /\ error \in Errno \cup {"none"}
    /\ discards \in Nat /\ seq \in Nat
    /\ rw \in RwPc /\ client \in ClientPc /\ waitClose \in BOOLEAN
    /\ thd \in ThdEntry /\ entry \in DevEntry
    /\ ring_ready \subseteq {"producer", "rw"} /\ rw_ready \subseteq {"rw", "client"}
    /\ stopped \in BOOLEAN
    /\ captured \in Seq(0 .. MaxSample)

\* Every slot belongs to exactly who the ring's positions and flags say, in
\* any interleaving of the threads (Owned): the slot states that guard the
\* copies in ring_producer_thd and the writes in send_ring_data never
\* disagree with the counters of ddr-ring-core.c.
SlotOwnership == Owned(ring)

\* The client gets every captured frame, once and in order: the occupied slots
\* hold the captured frames that were not consumed yet, oldest first, also
\* while the producer refills and the oldest is on its way to the socket.
\* A ring that reports COMPLETE has sent the whole finite capture.
FramesInOrder ==
    /\ Len(captured) = ring.produced_frames
    /\ ring.produced_frames = ring.consumed_frames + ring.occupied
    /\ \A i \in 0 .. ring.occupied - 1 :
         frames[At(ring.consumer_position, i)] = captured[ring.consumed_frames + i + 1]
    /\ ring.state = "COMPLETE" =>
         TargetFrames # 0 /\ ring.consumed_frames = TargetFrames /\ ring.occupied = 0

\* The ring's memory and the buffer are released only when neither thread
\* uses them: rw_thd waits for producer_exited before ring_release_storage.
StorageInUse ==
    /\ \/ producer \in {"reserve", "refill", "commit", "abort", "exit"}
       \/ rw \in {"wait", "send", "sending", "drain"}
       => entry.mapped
    /\ producer = "refill" => entry.buf

\* The reported last contiguous sample is the end of the longest gap-free run
\* at the start of the capture, and the first unavailable sample is where
\* that run ended, however many gaps follow (observe_samples,
\* mark_unavailable).  A frame that overflows the counter is not observed.
GapFreePrefix ==
    CounterMetadata /\ cont.last_contiguous_valid =>
      /\ \E n \in 1 .. Len(captured) :
           /\ \A i \in 2 .. n : captured[i] = captured[i - 1] + 1
           /\ cont.last_contiguous_sample_sequence = captured[n] + 1
           /\ \/ n = Len(captured)
              \/ captured[n + 1] # captured[n] + 1
              \/ captured[n + 1] = MaxSample
      /\ cont.first_unavailable_valid =>
           cont.first_unavailable_sample_sequence = cont.last_contiguous_sample_sequence

\* The outcome of a capture is decided once: neither the teardown's cancel, a
\* late failure of the producer nor a hang-up rewrites a terminal state.
TerminalIsFinal ==
    [][IsTerminal(ring) => /\ ring'.state = ring.state
                           /\ ring'.terminal_reason = ring.terminal_reason]_vars

\* What the status of the capture says of its end is right and stays so.
OutcomeSound == []GapFreePrefix /\ TerminalIsFinal

\* A capture that ended in an error its ring does not report: ring_failure_reason
\* makes a disconnect of -EPIPE, which iiod_ddr_ring_core_fail refuses, and
\* ring_producer_thd ignores that.
Unreported == error = "EPIPE" /\ producer \in {"off", "done"} /\ ~IsTerminal(ring)

\* A READBUF is always answered: with a frame, or with an error because the
\* capture ended (no lost wakeup, no deadlock between watermark and full ring).
\* The one READBUF that waits for ever is that of an Unreported end.
ReadAnswered == client = "reading" ~> client # "reading" \/ Unreported

\* A client that leaves, or a stopped daemon, ends the session: both threads
\* exit, CLOSE returns and the entry is freed, unless the end of the capture
\* was Unreported: rw_thd waits on ring_ready_cond then, and CLOSE on rw_thd.
SessionEnds == (client \in {"hungup", "leaving"} \/ stopped) ~> SessionOver \/ Unreported
=============================================================================
