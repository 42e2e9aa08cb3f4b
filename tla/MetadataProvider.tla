------------------------- MODULE MetadataProvider -------------------------
(***************************************************************************)
(* The metadata provider of iiod (spf-buffer-metadata.c): one capture from *)
(* the open to the close, with the gain session of TandemSession, the      *)
(* buffer sequence (spf-buffer-layout.c) and the temperature thread        *)
(* (spf-temperature-cache.c).  The capture thread makes the calls in the   *)
(* order ops.c makes them; the DMA, the gain control and the temperature   *)
(* thread run beside it, and a second client may cancel the hop session.   *)
(* The gain sampler is a library outside the repository: it covers a frame *)
(* with observations or does not.  Scan captures are modelled in           *)
(* ScanSession.                                                            *)
(***************************************************************************)
EXTENDS TandemSession

CONSTANTS Kinds,        \* kinds of request tried
          Threads,      \* those of them in which the temperature thread starts
          Buffers,      \* kernel buffers of the device
          MaxDiscards,  \* frames the startup may discard
          MaxAge,       \* samples after which a temperature is too old
          MaxOpens,     \* bound on the opens
          MaxFaults     \* bound on the failures of calls outside the provider

ASSUME BuffersAssumption == Buffers \in Nat \ {0}
ASSUME KindsAssumption == Kinds \subseteq {"legacy", "plain", "burst", "ring", "hop", "counter"}

VARIABLES ctx,    \* struct spf_iiod_metadata_context
          pc,     \* where the capture thread is
          reg,    \* the timestamp control register of the ADC
          temp,   \* the temperature sampler: its thread and its cache
          hop,    \* the hop session: see HopSession
          dma,    \* first sample of the block being filled, or Idle
          ready,  \* first samples of the blocks filled, oldest first
          frame,  \* the block the capture thread has dequeued
          out,    \* the last two frames delivered
          bad,    \* why the capture ended
          opens, faults

pvars == <<ctx, pc, reg, temp, hop, dma, ready, frame, out, bad, opens, faults>>
vars == <<tvars, pvars>>

Idle == -1
Invalid == -1
\* age: samples since the reading in the cache, as far as MaxAge tells them apart
NoTemp == [up |-> FALSE, thread |-> "none", stop |-> FALSE, age |-> Invalid]
\* cap: event_capacity; lease: counter_fd; end, num: the buffer sequence;
\* late: some block was older than RetentionFrames frames
NoContext == [kind |-> "none", cap |-> 0, stamped |-> FALSE, sampler |-> FALSE, lease |-> FALSE,
              refills |-> 0, discards |-> 0, prefix |-> FALSE,
              end |-> Invalid, num |-> 0, late |-> FALSE]
\* at: when the status of the frame was read
NoFrame == [first |-> Invalid, events |-> <<>>, at |-> Invalid]

Tandem(k) == k \in {"plain", "burst", "ring", "hop"}
BufferedCaptureIsStrict == ctx.kind = "burst" \/ (ctx.kind = "ring" /\ ~ctx.prefix)

Points == {"none", "register", "interval", "temperature", "hop", "plan", "opened", "before",
           "dequeue", "after", "get", "status", "deliver", "failed",
           "closeTandem", "closeSampler", "closeTemp", "join", "closeRest", "exited"}

\* Where the capture thread is while samples pass: it waits for a block, or is
\* between two readings of the gain device.  Elsewhere nothing tells a sample
\* before the step from one after it.
Capturing == {"dequeue", "get", "status"}

Init ==
    /\ TandemInit
    /\ ctx = NoContext /\ pc = "none" /\ reg = "original" /\ temp = NoTemp /\ hop = "none"
    /\ dma = Idle /\ ready = <<>> /\ frame = NoFrame /\ out = <<>> /\ bad = "none"
    /\ opens = 0 /\ faults = 0

Fault == faults < MaxFaults /\ faults' = faults + 1

-----------------------------------------------------------------------------
(* The radio: the sample counter, the gain and the DMA.  A block that is    *)
(* full waits to be dequeued; with every buffer full the samples are lost.  *)
(* Samples are counted while the capture runs.                              *)

\* The oldest block the capture has not dealt with.
Oldest == IF frame.first # Invalid THEN frame.first
          ELSE IF ready # <<>> THEN Head(ready) ELSE dma

Sampled ==
    LET t == now + 1
        full == dma # Idle /\ t = dma + S
        r == IF full THEN Append(ready, dma) ELSE ready
    IN  /\ now < MaxSample /\ pc \in Capturing
        /\ now' = t
        /\ ready' = r
        /\ dma' = IF ~full THEN dma ELSE IF Len(r) < Buffers THEN t ELSE Idle
        /\ \/ agc' = agc
           \/ CanStep(agc, now) /\ agc' = Step(agc, now)
        /\ ctx' = [ctx EXCEPT !.late = @ \/ (Oldest # Idle /\ t > Oldest + S * RetentionFrames)]
        /\ temp' = [temp EXCEPT !.age = IF @ \in 0 .. MaxAge THEN @ + 1 ELSE @]
        /\ UNCHANGED <<ses, pc, reg, hop, frame, out, bad, opens, faults>>

\* The gain device reports a fault, or its file comes to an end.
DeviceFails ==
    /\ agc.leased /\ ~agc.fault /\ ~agc.hang /\ Fault
    /\ \E f \in {"fault", "hang"} : agc' = [agc EXCEPT ![f] = TRUE]
    /\ UNCHANGED <<now, ses, ctx, pc, reg, temp, hop, dma, ready, frame, out, bad, opens>>

-----------------------------------------------------------------------------
(* iiod_buffer_metadata_open                                                *)

\* The checks of the request that the capture relies on.
Admitted(k, cap) == Tandem(k) => EventWindowValid(cap)

\* The request is decoded and checked against the channels, the receivers and
\* the radio's settings; until the register nothing but memory is taken, and a
\* refusal leaves nothing behind.  A counter request takes its lease at once.
OpenRequest ==
    /\ pc = "none" /\ opens < MaxOpens
    /\ opens' = opens + 1
    /\ \/ \E k \in Kinds, cap \in EventCaps :
             /\ Admitted(k, cap)
             /\ ctx' = [NoContext EXCEPT !.kind = k, !.lease = k = "counter",
                                         !.cap = IF Tandem(k) THEN cap ELSE 0]
             /\ pc' = IF k = "counter" THEN "opened" ELSE "register"
       \/ UNCHANGED <<ctx, pc>>
    /\ out' = <<>> /\ bad' = "none"
    /\ UNCHANGED <<tvars, reg, temp, hop, dma, ready, frame, faults>>

Freed == ctx' = NoContext /\ pc' = "none"

\* The register is read, kept in the context and written.
OpenRegister ==
    /\ pc = "register"
    /\ \/ /\ reg' = "stamped" /\ ctx' = [ctx EXCEPT !.stamped = TRUE]
          /\ pc' = "interval" /\ UNCHANGED faults
       \/ Fault /\ Freed /\ UNCHANGED reg
    /\ UNCHANGED <<tvars, temp, hop, dma, ready, frame, out, bad, opens>>

\* The interval is computed and the gain sampler started; a failure writes the
\* register back.
OpenInterval ==
    /\ pc = "interval"
    /\ \/ ctx' = [ctx EXCEPT !.sampler = TRUE] /\ pc' = "temperature" /\ UNCHANGED <<reg, faults>>
       \/ Fault /\ Freed /\ reg' = "original"
    /\ UNCHANGED <<tvars, temp, hop, dma, ready, frame, out, bad, opens>>

\* spf_temperature_sampler_start: without a thread the capture goes on.
OpenTemperature ==
    /\ pc = "temperature"
    /\ \/ ctx.kind \in Threads /\ temp' = [NoTemp EXCEPT !.up = TRUE, !.thread = "read"] /\ UNCHANGED faults
       \/ temp' = NoTemp /\ UNCHANGED faults
    /\ pc' = IF ctx.kind = "hop" THEN "hop" ELSE "plan"
    /\ UNCHANGED <<tvars, ctx, reg, hop, dma, ready, frame, out, bad, opens>>

Fails(why) == bad' = why /\ pc' = "failed"

\* The locks, the hop device and the hop session; a failure closes the context.
OpenHop ==
    /\ pc = "hop"
    /\ \/ hop' = "open" /\ pc' = "plan" /\ UNCHANGED <<bad, faults>>
       \/ Fault /\ Fails("open") /\ UNCHANGED hop
    /\ UNCHANGED <<tvars, ctx, reg, temp, dma, ready, frame, out, opens>>

\* The plan of the buffer and, for a scanner, the detector.
OpenPlan ==
    /\ pc = "plan"
    /\ \/ pc' = "opened" /\ UNCHANGED <<bad, faults>>
       \/ Fault /\ Fails("open")
    /\ UNCHANGED <<tvars, ctx, reg, temp, hop, dma, ready, frame, out, opens>>

Armed == IF ctx.kind = "hop" THEN "armed" ELSE hop

\* iiod_buffer_metadata_buffer_opened: the DMA is running; the coverage of the
\* sampler is planned, the gain device leased and the hop session armed.
BufferOpened ==
    /\ pc = "opened"
    /\ dma' = now /\ ready' = <<>>
    /\ \/ /\ IF Tandem(ctx.kind)
             THEN \E d \in FifoDepths : /\ FifoSuffices(ctx.cap, d)
                                        /\ ses' = Acquire(ses) /\ agc' = Acquired(agc, d)
             ELSE UNCHANGED <<ses, agc>>
          /\ hop' = Armed
          /\ pc' = "before" /\ UNCHANGED <<bad, faults>>
       \/ /\ Fault /\ Fails("opened") /\ ctx.kind # "counter"
          /\ IF Tandem(ctx.kind) THEN ses' = AcquireFailed(ses) ELSE UNCHANGED ses
          /\ UNCHANGED <<agc, hop>>
    /\ UNCHANGED <<now, ctx, reg, temp, frame, out, opens>>

-----------------------------------------------------------------------------
(* The refills                                                              *)

\* iiod_buffer_metadata_before_refill: from the second refill on the sampler
\* must have begun to cover it.
BeforeRefill ==
    /\ pc = "before"
    /\ \/ /\ pc' = "dequeue" /\ UNCHANGED <<bad, faults>>
          /\ ctx' = IF ctx.kind = "counter" \/ ctx.refills = 2 THEN ctx
                    ELSE [ctx EXCEPT !.refills = @ + 1]
       \/ /\ ctx.refills > 0 /\ ctx.kind # "counter"
          /\ Fault /\ Fails("ETIMEDOUT") /\ UNCHANGED ctx
    /\ UNCHANGED <<tvars, reg, temp, hop, dma, ready, frame, out, opens>>

\* iio_buffer_refill gives the oldest block and arms the one the thread had.
Dequeue ==
    /\ pc = "dequeue" /\ ready # <<>>
    /\ frame' = [first |-> Head(ready), events |-> <<>>, at |-> now]
    /\ ready' = Tail(ready)
    /\ dma' = IF dma = Idle THEN now ELSE dma
    /\ pc' = "after"
    /\ UNCHANGED <<tvars, ctx, reg, temp, hop, out, bad, opens, faults>>

\* The refill fails, or the client leaves: the capture is closed.
Leave ==
    /\ pc \in {"before", "dequeue"} /\ Fails("left")
    /\ UNCHANGED <<tvars, ctx, reg, temp, hop, dma, ready, frame, out, opens, faults>>

\* iiod_buffer_metadata_after_refill: the sampler ends its interval and the
\* heartbeat of the gain device reads its status.
AfterRefill ==
    /\ pc = "after"
    /\ \/ /\ Tandem(ctx.kind) /\ UNCHANGED faults
          /\ \E n \in Snapshots(agc) :
                /\ agc' = [agc EXCEPT !.snap = n]
                /\ IF RefreshStatus(agc, n) = "ok" THEN pc' = "get" /\ UNCHANGED bad
                   ELSE Fails(RefreshStatus(agc, n))
       \/ ~Tandem(ctx.kind) /\ pc' = "get" /\ UNCHANGED <<agc, bad, faults>>
       \/ /\ ctx.kind # "counter" /\ ctx.refills > 1
          /\ Fault /\ Fails("ETIMEDOUT") /\ UNCHANGED agc
    /\ UNCHANGED <<now, ses, ctx, reg, temp, hop, dma, ready, frame, out, opens>>

\* iiod_buffer_metadata_ring_prefix_complete: the ring has its gap-free prefix.
RingPrefixComplete ==
    /\ pc = "before" /\ ctx.kind = "ring" /\ ~ctx.prefix /\ out # <<>>
    /\ ctx' = [ctx EXCEPT !.prefix = TRUE]
    /\ UNCHANGED <<tvars, pc, reg, temp, hop, dma, ready, frame, out, bad, opens, faults>>

-----------------------------------------------------------------------------
(* iiod_buffer_metadata_get                                                 *)

\* spf_buffer_sequence_resolve: the samples since the end of the frame before.
SequenceResolve(first) ==
    LET missing == IF ctx.end = Invalid THEN 0 ELSE first - ctx.end
    IN  [missing |-> missing,
         num |-> IF ctx.end = Invalid THEN 0 ELSE ctx.num + 1 + missing \div S,
         end |-> first + S]

\* The observations of the frame: some, none at all, more than fit, or no
\* signal strength among them.  A strict capture refuses the overflow; a frame
\* without any is discarded while no frame was delivered, MaxDiscards times,
\* and refused after.
GetObserved(o) ==
    CASE o = "overflow" /\ BufferedCaptureIsStrict -> "observations"
      [] o = "none" /\ out = <<>> /\ ctx.discards < MaxDiscards -> "EAGAIN"
      [] o \in {"none", "rssi"} -> "ESTALE"
      [] OTHER -> "ok"

\* The gain events of the frame, up to the status of the gain device.
GetCollect ==
    /\ pc = "get" /\ ctx.kind # "counter"
    /\ \E o \in {"some", "none", "overflow", "rssi"} :
       \E r \in {Collect(ses, agc, frame.first, ctx.cap)} :
          /\ o # "some" => Fault
          /\ o = "some" => UNCHANGED faults
          /\ CASE GetObserved(o) = "EAGAIN" ->
                    /\ ctx' = [ctx EXCEPT !.discards = @ + 1]
                    /\ pc' = "before" /\ UNCHANGED <<ses, agc, frame, bad>>
               [] GetObserved(o) \in {"observations", "ESTALE"} ->
                    Fails(GetObserved(o)) /\ UNCHANGED <<ctx, ses, agc, frame>>
               [] GetObserved(o) = "ok" /\ ~Tandem(ctx.kind) ->
                    pc' = "deliver" /\ UNCHANGED <<ctx, ses, agc, frame, bad>>
               [] OTHER ->
                    /\ ses' = r.ses /\ agc' = r.agc
                    /\ frame' = [frame EXCEPT !.events = r.events]
                    /\ IF r.ret = "ok" THEN pc' = "status" /\ UNCHANGED bad ELSE Fails(r.ret)
                    /\ UNCHANGED ctx
    /\ UNCHANGED <<now, reg, temp, hop, dma, ready, out, opens>>

\* refresh_status_at_least, and the status put into the frame.
GetStatus ==
    /\ pc = "status"
    /\ \E n \in Snapshots(agc) : \E r \in {RefreshStatusAtLeast(agc, n, ses.count)} :
          /\ agc' = [agc EXCEPT !.snap = n]
          /\ IF r = "ok" THEN pc' = "deliver" /\ UNCHANGED bad ELSE Fails(r)
    /\ frame' = [frame EXCEPT !.at = now]
    /\ UNCHANGED <<now, ses, ctx, reg, temp, hop, dma, ready, out, opens, faults>>

\* spf_temperature_sampler_get: the age of the reading put into the frame.
SamplerGet == IF temp.up /\ temp.age <= MaxAge THEN temp.age ELSE Invalid

LastFrame == IF out = <<>> THEN <<>> ELSE <<Last(out)>>

\* The sequence is resolved; a strict capture refuses a gap; the hop session is
\* started by the first frame that came so far and its sidecar made; only then
\* is the sequence committed and the frame delivered.
GetDeliver ==
    /\ \/ pc = "deliver"
       \/ pc = "get" /\ ctx.kind = "counter"
    /\ \E q \in {SequenceResolve(frame.first)} :
          \/ /\ BufferedCaptureIsStrict /\ q.missing # 0
             /\ Fails("gap") /\ UNCHANGED <<ctx, hop, out, faults>>
          \/ /\ ctx.kind = "hop"
             /\ Fault /\ Fails("hop") /\ UNCHANGED <<ctx, out>>
             /\ hop' \in {hop, IF hop = "armed" THEN "running" ELSE hop}
          \/ /\ ~(BufferedCaptureIsStrict /\ q.missing # 0)
             /\ ctx.kind = "hop" => hop # "stopped"
             /\ hop' = IF hop = "armed" THEN "running" ELSE hop
             /\ ctx' = [ctx EXCEPT !.end = q.end, !.num = q.num]
             /\ out' = Append(LastFrame, [first |-> frame.first, missing |-> q.missing, num |-> q.num,
                                          events |-> frame.events, gain |-> ses.count,
                                          temp |-> IF ctx.kind = "counter" THEN Invalid ELSE SamplerGet,
                                          at |-> frame.at])
             /\ pc' = "before" /\ UNCHANGED <<bad, faults>>
          \/ /\ ctx.kind = "hop" /\ hop = "stopped"
             /\ Fails("hop") /\ UNCHANGED <<ctx, hop, out, faults>>
    /\ frame' = NoFrame
    /\ UNCHANGED <<tvars, reg, temp, dma, ready, opens>>

\* iiod_buffer_metadata_cancel, from another connection: the hop thread is
\* stopped and joined under the hop lock.
Cancel ==
    /\ hop \in {"armed", "running"}
    /\ hop' = "stopped"
    /\ UNCHANGED <<tvars, ctx, pc, reg, temp, dma, ready, frame, out, bad, opens, faults>>

-----------------------------------------------------------------------------
(* The temperature thread                                                   *)

\* A reading is stored with the time at which it was complete, if it succeeded.
TempRead ==
    /\ temp.thread = "read"
    /\ temp' \in {[temp EXCEPT !.thread = "wait", !.age = 0], [temp EXCEPT !.thread = "wait"]}
    /\ UNCHANGED <<tvars, ctx, pc, reg, hop, dma, ready, frame, out, bad, opens, faults>>

\* Mutant: the stop requested before the wait is not seen.
TempWaitMisses ==
    /\ temp.thread = "wait"
    /\ temp' = [temp EXCEPT !.thread = "read"]
    /\ UNCHANGED <<tvars, ctx, pc, reg, hop, dma, ready, frame, out, bad, opens, faults>>

\* wait_for_next_poll: a second has passed, or the stop was requested.
TempWait ==
    /\ temp.thread = "wait"
    /\ temp' = [temp EXCEPT !.thread = IF temp.stop THEN "ended" ELSE "read"]
    /\ UNCHANGED <<tvars, ctx, pc, reg, hop, dma, ready, frame, out, bad, opens, faults>>

-----------------------------------------------------------------------------
(* iiod_buffer_metadata_close                                               *)

\* Mutant: the hop thread is left to the destruction of the hop device.
CloseHopLater ==
    /\ pc = "failed"
    /\ dma' = Idle /\ ready' = <<>> /\ frame' = NoFrame /\ out' = <<>> /\ now' = 0
    /\ ctx' = [ctx EXCEPT !.lease = FALSE]
    /\ pc' = "closeTandem"
    /\ UNCHANGED <<agc, ses, reg, temp, hop, bad, opens, faults>>

\* The hop session is cancelled under its lock.  The DMA was disabled before;
\* with the capture its frames and its samples are history.
CloseHop ==
    /\ pc = "failed"
    /\ dma' = Idle /\ ready' = <<>> /\ frame' = NoFrame /\ out' = <<>> /\ now' = 0
    /\ hop' = IF hop \in {"armed", "running"} THEN "stopped" ELSE hop
    /\ ctx' = [ctx EXCEPT !.lease = FALSE]
    /\ pc' = "closeTandem"
    /\ UNCHANGED <<agc, ses, reg, temp, bad, opens, faults>>

CloseTandem ==
    /\ pc = "closeTandem"
    /\ IF ses.fd THEN ses' = CloseSession(ses) /\ agc' = Released(agc)
                 ELSE UNCHANGED <<ses, agc>>
    /\ pc' = "closeSampler"
    /\ UNCHANGED <<now, ctx, reg, temp, hop, dma, ready, frame, out, bad, opens, faults>>

CloseSampler ==
    /\ pc = "closeSampler"
    /\ ctx' = [ctx EXCEPT !.sampler = FALSE]
    /\ pc' = IF temp.up THEN "closeTemp" ELSE "closeRest"
    /\ UNCHANGED <<tvars, reg, temp, hop, dma, ready, frame, out, bad, opens, faults>>

\* spf_temperature_sampler_stop asks the thread to stop ...
CloseTemperature ==
    /\ pc = "closeTemp"
    /\ temp' = [temp EXCEPT !.stop = TRUE]
    /\ pc' = "join"
    /\ UNCHANGED <<tvars, ctx, reg, hop, dma, ready, frame, out, bad, opens, faults>>

Joined == temp.thread = "ended"

\* ... and joins it; one that is stuck in a reading ends the process.
JoinTemperature ==
    /\ pc = "join"
    /\ \/ /\ Joined
          /\ temp' = [NoTemp EXCEPT !.thread = IF temp.thread = "ended" THEN "none" ELSE temp.thread]
          /\ pc' = "closeRest" /\ UNCHANGED <<ctx, ses, agc, hop, faults>>
       \/ /\ temp.thread = "read" /\ UNCHANGED faults
          /\ temp' = NoTemp /\ pc' = "exited" /\ ctx' = NoContext
          /\ ses' = NoSession /\ agc' = Released(agc) /\ hop' = "none"
    /\ UNCHANGED <<now, reg, dma, ready, frame, out, bad, opens>>

\* The register is written back, the hop device and the locks destroyed.
CloseRest ==
    /\ pc = "closeRest"
    /\ reg' = IF ctx.stamped THEN "original" ELSE reg
    /\ hop' = "none" /\ Freed
    /\ UNCHANGED <<tvars, temp, dma, ready, frame, out, bad, opens, faults>>

Next ==
    \/ Sampled \/ DeviceFails
    \/ OpenRequest \/ OpenRegister \/ OpenInterval \/ OpenTemperature \/ OpenHop \/ OpenPlan
    \/ BufferOpened \/ BeforeRefill \/ Dequeue \/ Leave \/ AfterRefill \/ RingPrefixComplete
    \/ GetCollect \/ GetStatus \/ GetDeliver \/ Cancel
    \/ TempRead \/ TempWait
    \/ CloseHop \/ CloseTandem \/ CloseSampler \/ CloseTemperature \/ JoinTemperature \/ CloseRest

\* The capture thread goes through the close, and the broadcast wakes the
\* waiting temperature thread; a reading of sysfs may never return.
Fairness ==
    /\ WF_vars(CloseHop \/ CloseTandem \/ CloseSampler \/ CloseTemperature
               \/ JoinTemperature \/ CloseRest)
    /\ WF_vars(TempWait)

Spec == Init /\ [][Next]_vars /\ Fairness

-----------------------------------------------------------------------------
\* Every variable has its type, and the blocks in flight are no more than the
\* kernel buffers.
TypeOK ==
    /\ TandemTypeOK
    /\ ctx \in [kind : Kinds \cup {"none"}, cap : EventCaps \cup {0}, stamped : BOOLEAN,
                sampler : BOOLEAN, lease : BOOLEAN, refills : 0 .. 2,
                discards : 0 .. MaxDiscards, prefix : BOOLEAN,
                end : -1 .. MaxSample, num : 0 .. MaxSample, late : BOOLEAN]
    /\ pc \in Points /\ reg \in {"original", "stamped"}
    /\ temp \in [up : BOOLEAN, thread : {"none", "read", "wait", "ended"}, stop : BOOLEAN,
                 age : -1 .. MaxAge + 1]
    /\ hop \in {"none", "open", "armed", "running", "stopped"}
    /\ dma \in -1 .. MaxSample
    /\ Len(ready) + (IF frame.first # Invalid THEN 1 ELSE 0) <= Buffers + 1
    /\ opens \in 0 .. MaxOpens /\ faults \in 0 .. MaxFaults

StepsIn(a, b) == {i \in DOMAIN agc.at : a <= agc.at[i] /\ agc.at[i] < b}

\* Each delivered frame names the gain steps of its own samples, all of them and
\* in order, and the gain at its end; only steps younger than the status
\* snapshot may be missing, after a loss nobody could see yet.  This is what
\* the queue, the sequence checks and the modulo comparison of
\* spf_tandem_session_collect are for.
EventsExact ==
    agc.leased => \A k \in DOMAIN out :
        LET f == out[k]
            inside == StepsIn(f.first, f.first + S)
            upTo == StepsIn(0, f.first + S)
            shown == {i \in upTo : agc.at[i] + Latency < f.at}
        IN  /\ \A i \in DOMAIN f.events : i > 1 => f.events[i - 1] < f.events[i]
            /\ Range(f.events) \subseteq inside
            /\ inside \cap shown \subseteq Range(f.events)
            /\ Cardinality(shown) <= f.gain /\ f.gain <= Cardinality(upTo)

\* The missing samples of a frame account for every sample since the frame
\* before, the buffer sequence counts the whole frames among them, and a burst,
\* or a ring before its prefix is complete, has no gap (the resolve of the
\* buffer sequence and the strict check).
GapsAccounted ==
    /\ \A k \in DOMAIN out : k > 1 =>
          /\ out[k].first = out[k - 1].first + S + out[k].missing
          /\ (out[k].num - out[k - 1].num) * S <= out[k].first - out[k - 1].first
          /\ out[k].first - out[k - 1].first < (out[k].num - out[k - 1].num + 1) * S
    /\ BufferedCaptureIsStrict => \A k \in DOMAIN out : out[k].missing = 0

\* With every block dealt with inside the window that validate_event_window
\* checked, and no frame discarded, the capture never ends because events were
\* lost, did not fit or did not agree with the counter.
WindowSuffices ==
    bad \in {"ENOSPC", "EILSEQ", "EOVERFLOW"} => ctx.late \/ ctx.discards > 0 \/ pc \in {"none", "exited"}

\* Every frame says what happened to its samples, and a capture in time gets there.
FramesDescribed == EventsExact /\ GapsAccounted /\ WindowSuffices

\* Whatever step of the open or of the capture failed, the provider leaves the
\* register, the gain device, the counter lease and the threads as it found them.
ReleasedWhenClosed ==
    pc = "none" =>
        /\ reg = "original" /\ ~ses.fd /\ ~agc.leased /\ ~ctx.lease
        /\ temp.thread = "none" /\ hop = "none"

\* The hop thread, which drives the radio through the gain device's file, never
\* runs without the lease of that device.
HopUnderLease == hop = "running" => ses.acquired

\* The temperature thread never outlives the cache it writes to, and no frame
\* carries a reading older than the limit.
TemperatureSound ==
    /\ temp.thread # "none" => temp.up
    /\ \A k \in DOMAIN out : out[k].temp <= MaxAge

\* The provider's threads and leases live within each other, and end with it.
LeasesSound == TypeOK /\ ReleasedWhenClosed /\ HopUnderLease /\ TemperatureSound

\* A capture that failed is closed, or the process ended by the join.
CloseEnds == pc = "failed" ~> pc \in {"none", "exited"}
=============================================================================
