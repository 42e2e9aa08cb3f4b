----------------------------- MODULE HopSession -----------------------------
(***************************************************************************)
(* Persistent frequency hopping of iiod: the scheduler thread              *)
(* (iiod/spf-hop-scheduler.c) retunes the radio from dwell to dwell and    *)
(* queues an event for each; the session (iiod/spf-hop-session.c), called  *)
(* for every block of samples, validates the events, works out which       *)
(* samples are valid, ends the capture when the requested span is reached  *)
(* and has the original frequency restored.  A session is opened from a    *)
(* request on the wire; its sidecars and its status go back over the wire  *)
(* (HopWire).                                                              *)
(*                                                                         *)
(* The session is called under hop_lock, so its calls do not overlap, but  *)
(* the scheduler and the sample clock run on between any two steps of a    *)
(* call.  The clock is the 64-bit counter of the blocks; the scheduler     *)
(* only sees a register of its low bits.  What a receipt must repeat of    *)
(* the request (slots, frequencies, generation) is one outcome: a device   *)
(* fault.                                                                  *)
(***************************************************************************)
EXTENDS HopWire

CONSTANTS
    Requests,           \* requests clients open a capture with
    QueueCapacity,      \* SPF_HOP_SCHEDULER_QUEUE_CAPACITY
    BlockSamples,       \* samples of a block
    MaxSkip,            \* bound: blocks missing in a row at a sparse rate
    Word,               \* 2^32: the counter register wraps here
    StartClock,         \* the counter when the session is armed
    MaxClock            \* bound: the counter stops here

ASSUME BoundAssumption ==
    /\ QueueCapacity \in Nat \ {0} /\ BlockSamples \in Nat \ {0} /\ MaxSkip \in Nat
    /\ Word \in Nat \ {0} /\ Word % 2 = 0
    /\ StartClock \in Nat /\ MaxClock \in StartClock .. StartClock + Word \div 2

VARIABLES
    request,    \* the request of the session, as it was decoded
    clock,      \* the sample being captured
    radio,      \* what the radio is tuned to
    air,        \* history: what it was tuned to for each sample since StartClock
    worker,     \* scheduler_worker: its locals
    sched,      \* struct spf_hop_scheduler_v1
    session,    \* struct spf_hop_session_v1
    labels,     \* history: the dwells the session accepted
    fault       \* history: the device failed, a block was lost or the queue was full

vars == <<request, clock, radio, air, worker, sched, session, labels, fault>>

Moving == ProfileCount + 1      \* between two frequencies; None is the original one

DwellSamples == request.geometry.dwell
DwellCount == request.geometry.count
Span == request.geometry.span
Guard == request.geometry.guard
Adaptive == request.version \in 2 .. 4
Shadow == Adaptive /\ request.policy.mode = "SHADOW"
\* sparse_wide_rate
Sparse == request.geometry.rate \in RatesOf[4]

\* struct spf_hop_device_event_v2
Event == [sequence : Nat, before : Nat, after : Nat, decision : Nat,
          from : Profile \cup {None}, to : Profile, no_recall : BOOLEAN,
          proposed : Profile]

Worker == [pc       : {"none", "top", "wait", "choose", "recall", "tuning", "enqueue",
                       "overflow", "done"},
           index    : Nat,
           startup  : Nat,          \* startup_invalid_start
           next     : Nat,          \* next_invalid_start
           previous : Profile \cup {None},
           profile  : Profile,
           proposed : Profile,
           decision : Nat,
           before   : Nat,
           after    : Nat]

Sched == [queue            : Seq(Event),
          dropped          : Nat,
          worker_error     : BOOLEAN,
          cancel_requested : BOOLEAN,
          restored         : Nat]       \* history: how often the radio was restored

State == {"IDLE", "ARMED", "RUNNING", "COMPLETED", "CANCELLED", "FAILED"}
Reason == {"NONE", "PLAN_COMPLETE", "CLIENT_CLOSE", "DEVICE_ERROR", "EVENT_OVERFLOW",
           "EVENT_SEQUENCE", "COUNTER_DISCONTINUITY", "PROTOCOL_ERROR", "RESTORE_ERROR"}

\* events: events drained for the block at hand; out: the ones accepted, as the
\* sidecar tells them; joining: restore is waiting for the scheduler, to end with
\* reason.
Session == [state           : State,
            reason          : Reason,
            error           : Int,      \* error_code
            flags           : SUBSET StatusFlag,
            pc              : {"ready", "block", "events", "joining"},
            events          : Seq(Event),
            visits          : Nat,      \* visits_started, next_event_sequence
            invalid_end     : Nat,      \* last_event.invalid_end
            active          : Profile \cup {None},
            startup         : Nat,      \* startup_invalid_start
            first           : Nat,      \* first_sample of the block at hand
            block_end       : Nat,      \* last_block_end
            have_last_block : BOOLEAN,
            dropped         : Nat,      \* device_dropped_events
            restore_error   : Int,
            final_counter   : Nat]

EIO == -5
ERANGE == -34
EBADMSG == -74
EOVERFLOW == -75
EILSEQ == -84

Terminal(s) == s.state \in {"COMPLETED", "CANCELLED", "FAILED"}

NoRequest == [version |-> 0]

Init ==
    /\ request = NoRequest
    /\ clock = StartClock /\ radio = None /\ air = << >>
    /\ worker = [pc |-> "none", index |-> 0, startup |-> 0, next |-> 0, previous |-> None,
                 profile |-> 0, proposed |-> 0, decision |-> 0, before |-> 0, after |-> 0]
    /\ sched = [queue |-> << >>, dropped |-> 0, worker_error |-> FALSE,
                cancel_requested |-> FALSE, restored |-> 0]
    /\ session = [state |-> "IDLE", reason |-> "NONE", error |-> 0,
                  flags |-> {"RESTORE_REQUIRED"}, pc |-> "ready", events |-> << >>,
                  out |-> << >>, visits |-> 0, invalid_end |-> 0, active |-> None,
                  startup |-> 0, first |-> 0, block_end |-> StartClock,
                  have_last_block |-> FALSE, dropped |-> 0, restore_error |-> 0,
                  final_counter |-> 0]
    /\ labels = {} /\ fault = FALSE

-----------------------------------------------------------------------------
(* The open. *)

\* The client writes the words of its request unchecked.
ClientWire(q) ==
    IF q.version = 1 THEN RequestV1Wire(q.geometry) ELSE RequestAdaptiveWire(q.version, q)

\* spf_metadata_open and the init of the session: the request is decoded by its
\* size and version, the policy of an adaptive one must be the pinned one, and
\* the encoder validates once more.
OpenRequest(q) ==
    LET w == ClientWire(q)
        d == CASE q.version = 1 -> RequestV1Decode(w) [] q.version = 2 -> RequestV2Decode(w)
               [] q.version = 3 -> RequestV3Decode(w) [] q.version = 4 -> RequestV4Decode(w)
    IN  IF d.ret # "OK" THEN d
        ELSE IF q.version # 1 /\ ~ValidatePinned(d.value) THEN Bad("ENOTSUP")
        ELSE IF RequestV1Encode(d.value.geometry).ret # "OK" THEN Bad("EINVAL")
        ELSE Good([version |-> q.version] @@ d.value)

\* A request that is refused changes nothing.
SessionOpen(q) ==
    /\ session.state = "IDLE"
    /\ \E d \in {OpenRequest(q)} :
          /\ d.ret = "OK"
          /\ request' = d.value
          /\ session' = [session EXCEPT !.state = "ARMED"]
    /\ UNCHANGED <<clock, radio, air, worker, sched, labels, fault>>

-----------------------------------------------------------------------------
(* Counters. *)

\* read_counter: the first reading is the register, later ones extend it.
LowCounter(c) == c - (StartClock \div Word) * Word

\* extend_counter_near
ExtendCounterNear(reference, observed) ==
    LET candidate == (reference \div Word) * Word + (observed % Word)
    IN  IF candidate < reference /\ reference - candidate > Word \div 2
        THEN candidate + Word
        ELSE IF candidate > reference /\ candidate - reference > Word \div 2
                /\ candidate >= Word
        THEN candidate - Word
        ELSE candidate

\* The sample clock of the hardware, while there is a session to see it.
Tick ==
    /\ clock < MaxClock /\ session.state # "IDLE" /\ ~Terminal(session)
    /\ clock' = clock + 1 /\ air' = Append(air, radio)
    /\ UNCHANGED <<request, radio, worker, sched, session, labels, fault>>

-----------------------------------------------------------------------------
(* scheduler_worker *)

\* finish_worker
WorkerDone(error) ==
    /\ worker' = [worker EXCEPT !.pc = "done"]
    /\ sched' = [sched EXCEPT !.worker_error = error]

SpanReached(start, counter) == counter - start >= Span

\* The head of the loop: all dwells are done, or the span is covered.
WorkerTop ==
    /\ worker.pc = "top"
    /\ LET short == worker.next - worker.startup < Span
       IN  IF worker.index = DwellCount THEN WorkerDone(short)
           ELSE IF worker.index > 0 /\ ~short THEN WorkerDone(FALSE)
           ELSE worker' = [worker EXCEPT !.pc = "wait"] /\ UNCHANGED sched
    /\ UNCHANGED <<request, clock, radio, air, session, labels, fault>>

\* Mutant: a cancellation is only noticed between two dwells.
WorkerWaitDeaf ==
    /\ worker.pc = "wait"
    /\ \/ /\ sched.cancel_requested /\ worker.index = 0
          /\ WorkerDone(FALSE)
       \/ /\ worker.index > 0 => LowCounter(clock) >= worker.next
          /\ worker' = [worker EXCEPT !.pc = IF Adaptive THEN "choose" ELSE "recall"]
          /\ UNCHANGED sched
    /\ UNCHANGED <<request, clock, radio, air, session, labels, fault>>

\* wait_until the dwell is over; a cancellation is noticed at every turn.
WorkerWait ==
    /\ worker.pc = "wait"
    /\ \/ /\ sched.cancel_requested
          /\ WorkerDone(FALSE)
       \/ /\ ~sched.cancel_requested
          /\ worker.index > 0 => LowCounter(clock) >= worker.next
          /\ worker' = [worker EXCEPT !.pc = IF Adaptive THEN "choose" ELSE "recall"]
          /\ UNCHANGED sched
    /\ UNCHANGED <<request, clock, radio, air, session, labels, fault>>

\* The policy proposes a profile, in shadow mode without effect; the one the
\* radio is on needs no recall.
WorkerChoose(p) ==
    /\ worker.pc = "choose"
    /\ LET c == LowCounter(clock)
           to == IF Shadow THEN worker.index % ProfileCount ELSE p
           w == [worker EXCEPT !.decision = c, !.profile = to, !.proposed = p]
       IN  worker' = IF worker.index > 0 /\ to = worker.previous
                     THEN [w EXCEPT !.pc = "enqueue", !.before = c, !.after = c]
                     ELSE [w EXCEPT !.pc = "recall"]
    /\ UNCHANGED <<request, clock, radio, air, sched, session, labels, fault>>

\* userspace_recall: the counter is read, the radio moves,
WorkerRecall ==
    /\ worker.pc = "recall"
    /\ worker' = [worker EXCEPT !.pc = "tuning", !.before = LowCounter(clock),
                      !.profile = IF Adaptive THEN @ ELSE worker.index % ProfileCount]
    /\ radio' = Moving
    /\ UNCHANGED <<request, clock, air, sched, session, labels, fault>>

\* and arrives.
WorkerTuned ==
    /\ worker.pc = "tuning"
    /\ worker' = [worker EXCEPT !.pc = "enqueue", !.after = LowCounter(clock)]
    /\ radio' = worker.profile
    /\ UNCHANGED <<request, clock, air, sched, session, labels, fault>>

NoRecall == Adaptive /\ worker.index > 0 /\ worker.profile = worker.previous

NewEvent ==
    [sequence |-> worker.index, before |-> worker.before, after |-> worker.after,
     decision |-> worker.decision, from |-> worker.previous, to |-> worker.profile,
     no_recall |-> NoRecall, proposed |-> worker.proposed]

NextInvalidStart == worker.after + (IF NoRecall THEN 0 ELSE Guard) + DwellSamples

\* enqueue_event, and on to the next dwell.
WorkerEnqueue ==
    /\ worker.pc = "enqueue"
    /\ IF Len(sched.queue) = QueueCapacity
       THEN /\ sched' = [sched EXCEPT !.dropped = @ + 1]
            /\ worker' = [worker EXCEPT !.pc = "overflow"]
            /\ fault' = TRUE
       ELSE /\ sched' = [sched EXCEPT !.queue = Append(@, NewEvent)]
            /\ worker' = [worker EXCEPT
                            !.pc = "top", !.index = @ + 1, !.next = NextInvalidStart,
                            !.previous = worker.profile,
                            !.startup = IF worker.index = 0 THEN worker.before ELSE @]
            /\ UNCHANGED fault
    /\ UNCHANGED <<request, clock, radio, air, session, labels>>

WorkerOverflow ==
    /\ worker.pc = "overflow"
    /\ WorkerDone(TRUE)
    /\ UNCHANGED <<request, clock, radio, air, session, labels, fault>>

\* A counter read, a recall or the policy fails.
WorkerFault ==
    /\ worker.pc \in {"wait", "choose", "recall", "tuning"}
    /\ WorkerDone(TRUE)
    /\ fault' = TRUE
    /\ UNCHANGED <<request, clock, radio, air, session, labels>>

-----------------------------------------------------------------------------
(* The session. *)

\* restore, up to the join: cancel_restore asks the scheduler to stop.
Restore(s, reason) ==
    /\ session' = [s EXCEPT !.pc = "joining", !.reason = reason, !.events = << >>,
                            !.flags = @ \cup {"RESTORE_ATTEMPTED"}]
    /\ sched' = [sched EXCEPT !.cancel_requested = TRUE]

\* fail
Fail(s, reason, error) ==
    Restore([s EXCEPT !.error = error, !.out = << >>, !.first = 0,
                 !.flags = @ \cup
                     (IF reason = "EVENT_OVERFLOW" THEN {"DEVICE_EVENT_OVERFLOW"}
                      ELSE IF reason \in {"EVENT_SEQUENCE", "COUNTER_DISCONTINUITY"}
                      THEN {"CONTINUITY_FAULT"} ELSE {})],
            reason)

\* A block of samples has been captured.
BlockReady == session.block_end + BlockSamples <= clock

\* start, on the first block: submit_plan starts the device and the worker.
SessionStart ==
    /\ session.state = "ARMED" /\ session.pc = "ready" /\ BlockReady
    /\ \/ /\ worker' = [worker EXCEPT !.pc = "top"]
          /\ session' = [session EXCEPT !.state = "RUNNING", !.pc = "block"]
          /\ UNCHANGED <<sched, fault>>
       \/ /\ Fail(session, "DEVICE_ERROR", EIO)
          /\ fault' = TRUE
          /\ UNCHANGED worker
    /\ UNCHANGED <<request, clock, radio, air, labels>>

\* session_on_block with the samples of the next block, or at a sparse rate of a
\* later one: drain the scheduler.
Min2(m, n) == IF m < n THEN m ELSE n

Skips == IF Sparse /\ session.have_last_block THEN 0 .. MaxSkip ELSE {0}

SessionBlock ==
    /\ session.state = "RUNNING" /\ session.pc \in {"ready", "block"} /\ BlockReady
    /\ \E skipped \in Skips :
        LET count == Min2(Len(sched.queue), EventCapacity)
            first == session.block_end + skipped * BlockSamples
        IN  /\ first + BlockSamples <= clock
            /\ IF sched.worker_error THEN Fail(session, "DEVICE_ERROR", EIO)
               ELSE IF sched.dropped > 0
               THEN Fail([session EXCEPT !.dropped = sched.dropped], "EVENT_OVERFLOW", EOVERFLOW)
               ELSE /\ session' = [session EXCEPT !.pc = "events", !.first = first,
                                        !.events = SubSeq(sched.queue, 1, count)]
                    /\ sched' = [sched EXCEPT !.queue = SubSeq(@, count + 1, Len(@))]
    /\ UNCHANGED <<request, clock, radio, air, worker, labels, fault>>

\* A block that does not continue the last one.
SessionDiscontinuity ==
    /\ session.state = "RUNNING" /\ session.pc = "ready" /\ session.have_last_block
    /\ Fail(session, "COUNTER_DISCONTINUITY", EILSEQ)
    /\ fault' = TRUE
    /\ UNCHANGED <<request, clock, radio, air, worker, labels>>

\* validate_device_event, the counters of the event extended to 64 bits.
Extended(e) ==
    LET before == ExtendCounterNear(session.first, e.before)
    IN  [e EXCEPT !.before = before, !.after = ExtendCounterNear(before, e.after),
                  !.decision = ExtendCounterNear(before, e.decision)]

InvalidStart(x) == IF session.visits > 0 THEN session.invalid_end + DwellSamples ELSE x.before

\* Mutant: the samples are valid from the beginning of the retune on.
InvalidEndEarly(x) == IF x.no_recall THEN InvalidStart(x) ELSE x.before + Guard

InvalidEnd(x) == IF x.no_recall THEN InvalidStart(x) ELSE x.after + Guard

\* struct spf_hop_event_v1 and struct spf_hop_choice_v2 of an event.
WireEvent(x) ==
    [sequence |-> x.sequence, dwell_index |-> x.sequence, before |-> x.before,
     after |-> x.after, invalid_start |-> InvalidStart(x), invalid_end |-> InvalidEnd(x),
     from |-> x.from, to |-> x.to, kind |-> IF x.sequence = 0 THEN "STARTUP" ELSE "RETUNE",
     no_recall |-> x.no_recall, id |-> IF x.no_recall THEN 0 ELSE x.sequence + 1]
Choice(x) ==
    [decision |-> x.decision, basis |-> x.sequence - 1, proposed |-> x.proposed,
     generation |-> request.policy.generation, mode |-> request.policy.mode]

EventRet(x) ==
    IF x.sequence # session.visits \/ x.sequence >= DwellCount THEN EILSEQ
    ELSE IF \/ x.from # (IF session.visits = 0 THEN None
                         ELSE IF Adaptive THEN session.active
                         ELSE (x.sequence - 1) % ProfileCount)
            \/ ~Adaptive /\ x.to # x.sequence % ProfileCount
            \/ x.no_recall /\ (session.visits = 0 \/ x.from # x.to \/ x.before # x.after)
            \/ x.before > x.after
            \/ Adaptive /\ ~ChoiceV2Validate(Choice(x), WireEvent(x))
            \/ Adaptive /\ session.visits > 0 /\ x.decision < InvalidStart(x) THEN EBADMSG
    ELSE IF /\ session.visits > 0
            /\ \/ InvalidStart(x) < session.invalid_end
               \/ ~x.no_recall /\ x.before < InvalidStart(x)
               \/ SpanReached(session.startup, InvalidStart(x)) THEN ERANGE
    ELSE 0

\* accept_event
SessionAccept ==
    /\ session.pc = "events" /\ session.events # << >>
    /\ \E x \in {Extended(Head(session.events))} :
       LET ret == EventRet(x)
           end == InvalidEnd(x)
       IN  IF ret # 0
           THEN /\ Fail(session, IF ret = EILSEQ THEN "EVENT_SEQUENCE" ELSE "PROTOCOL_ERROR", ret)
                /\ UNCHANGED labels
           ELSE /\ session' = [session EXCEPT
                        !.events = Tail(@), !.visits = @ + 1, !.active = x.to,
                        !.invalid_end = end,
                        !.out = Append(@, [event |-> WireEvent(x),
                                           choice |-> IF Adaptive THEN Choice(x) ELSE 0]),
                        !.startup = IF session.visits = 0 THEN InvalidStart(x) ELSE @]
                /\ labels' = labels \cup {[from |-> end, to |-> end + DwellSamples,
                                           profile |-> x.to]}
                /\ UNCHANGED sched
    /\ UNCHANGED <<request, clock, radio, air, worker, fault>>

FinalCounter == session.invalid_end + DwellSamples

\* Mutant: the end of the block is not compared with the end of the dwell.
PlanCompleteEarly == session.visits > 0 /\ SpanReached(session.startup, FinalCounter)

\* maybe_complete: the last dwell covers the span and all its samples are here.
PlanComplete ==
    /\ session.visits > 0 /\ SpanReached(session.startup, FinalCounter)
    /\ session.first + BlockSamples >= FinalCounter

SessionBlockEnd ==
    /\ session.pc = "events" /\ session.events = << >>
    /\ LET s == [session EXCEPT !.block_end = session.first + BlockSamples,
                                !.have_last_block = TRUE]
       IN  IF PlanComplete THEN Restore(s, "PLAN_COMPLETE")
           ELSE /\ session' = [s EXCEPT !.pc = "ready", !.first = 0, !.out = << >>]
                /\ UNCHANGED sched
    /\ UNCHANGED <<request, clock, radio, air, worker, labels, fault>>

\* The client closes the buffer, or is gone.
SessionCancel ==
    /\ session.state \in {"ARMED", "RUNNING"} /\ session.pc = "ready"
    /\ Restore(session, "CLIENT_CLOSE")
    /\ UNCHANGED <<request, clock, radio, air, worker, labels, fault>>

\* The receipt of the restore, in the epoch of the blocks.
RestoreBefore ==
    IF ~session.have_last_block THEN LowCounter(clock)
    ELSE ExtendCounterNear(IF session.reason = "PLAN_COMPLETE" THEN FinalCounter
                           ELSE session.block_end, LowCounter(clock))

RestoreError(failed) ==
    IF failed THEN EIO
    ELSE IF session.reason = "PLAN_COMPLETE" /\ RestoreBefore < FinalCounter THEN ERANGE
    ELSE 0

\* pthread_join
WorkerJoined == worker.pc \in {"none", "done"}

\* The rest of restore, once the scheduler is joined.
SessionRestored(failed) ==
    /\ session.pc = "joining" /\ WorkerJoined
    /\ sched' = [sched EXCEPT !.restored = @ + 1]
    /\ radio' = IF failed THEN Moving ELSE None
    /\ fault' = (fault \/ failed)
    /\ LET error == RestoreError(failed)
           s == [session EXCEPT
                    !.pc = "ready", !.first = 0, !.out = << >>, !.restore_error = error,
                    !.final_counter = IF session.reason = "PLAN_COMPLETE" THEN FinalCounter
                                      ELSE RestoreBefore]
       IN  session' =
              IF error # 0
              THEN [s EXCEPT !.state = "FAILED", !.reason = "RESTORE_ERROR",
                        !.error = error, !.flags = @ \cup {"TERMINAL"}]
              ELSE [s EXCEPT !.flags = @ \cup {"RESTORE_SUCCEEDED", "TERMINAL"},
                        !.state = CASE session.reason = "PLAN_COMPLETE" -> "COMPLETED"
                                    [] session.reason = "CLIENT_CLOSE" -> "CANCELLED"
                                    [] OTHER -> "FAILED"]
    /\ UNCHANGED <<request, clock, air, worker, labels>>

\* The sidecar of a block, from the status and the events accepted.
Sidecar(s, out) ==
    LET geometry == [flags |-> s.flags, session_id |-> request.geometry.session_id,
                     buffer_sequence |-> (s.block_end - StartClock) \div BlockSamples,
                     first |-> s.block_end - BlockSamples, end |-> s.block_end,
                     state |-> s.state, reason |-> s.reason, error |-> s.error,
                     events |-> [i \in DOMAIN out |-> out[i].event]]
    IN  IF Adaptive
        THEN [geometry |-> geometry, choices |-> [i \in DOMAIN out |-> out[i].choice]]
        ELSE geometry

\* iiod_buffer_metadata_get encodes it by the version of the request;
EncodeSidecar(s) ==
    CASE request.version = 1 -> SidecarV1Encode(s)
      [] request.version = 2 -> SidecarV2Encode(s)
      [] OTHER -> SidecarV3Encode(s)

\* spf_exact_gap_header decodes it again, before a frame of the ring is described.
DecodeSidecar(w) ==
    CASE request.version = 1 -> SidecarV1Decode(w)
      [] request.version = 2 -> SidecarV2Decode(w)
      [] OTHER -> SidecarV3Decode(w)

\* iiod_buffer_metadata_status
Status ==
    [state |-> session.state, reason |-> session.reason, error |-> session.error,
     flags |-> session.flags, session_id |-> request.geometry.session_id,
     planned |-> DwellCount, visits |-> session.visits, last_block_end |-> session.block_end,
     final_counter |-> session.final_counter, restore_error |-> session.restore_error,
     active |-> session.active, startup |-> session.startup, dropped |-> session.dropped]
EncodeStatus ==
    CASE request.version = 1 -> StatusV1Encode(Status)
      [] request.version = 2 -> StatusV2Encode(Status)
      [] OTHER -> StatusV3Encode(Status)

\* A decoder for version 3 is not part of iiod; its record is the one of
\* version 2 with other numbers.
DecodeStatus(w) ==
    CASE request.version = 1 -> StatusV1Decode(w)
      [] request.version = 2 -> StatusV2Decode(w)
      [] OTHER -> StatusV2Decode([w EXCEPT !.at = Put(@, 4 :> 2 @@ 8 :> Features(2))])

WorkerStep ==
    \/ WorkerTop \/ WorkerWait \/ WorkerRecall \/ WorkerTuned \/ WorkerEnqueue
    \/ WorkerOverflow
    \/ \E p \in Profile : WorkerChoose(p)

SessionStep ==
    \/ SessionStart \/ SessionBlock \/ SessionAccept \/ SessionBlockEnd
    \/ \E failed \in BOOLEAN : SessionRestored(failed)

Next ==
    \/ \E q \in Requests : SessionOpen(q)
    \/ Tick \/ WorkerStep \/ WorkerFault \/ SessionStep \/ SessionDiscontinuity \/ SessionCancel

Spec == Init /\ [][Next]_vars

\* Samples are captured, the scheduler's thread runs, and a call of the session
\* that has begun goes on.
Fairness ==
    /\ WF_vars(Tick) /\ WF_vars(WorkerStep)
    /\ WF_vars(session.pc = "block" /\ SessionBlock)
    /\ WF_vars(SessionAccept) /\ WF_vars(SessionBlockEnd)
    /\ WF_vars(\E failed \in BOOLEAN : SessionRestored(failed))

LiveSpec == Spec /\ Fairness

-----------------------------------------------------------------------------
\* The variables have their types.
TypeOK ==
    /\ clock \in StartClock .. MaxClock
    /\ radio \in Profile \cup {None, Moving}
    /\ worker \in Worker /\ sched \in Sched
    /\ [f \in DOMAIN session \ {"out"} |-> session[f]] \in Session
    /\ fault \in BOOLEAN

\* Every sample the session calls valid was captured on the profile it names: in
\* every dwell it accepted, up to the counter it ended with, however late the
\* scheduler was and wherever the register wrapped.
ValidTuned ==
    \A l \in labels : \A c \in l.from .. l.to - 1 :
        (c < clock /\ (Terminal(session) => c < session.final_counter)) =>
            air[c - StartClock + 1] = l.profile

\* The session finds fault only with a faulty device: what the scheduler reports
\* of a healthy one always passes, and so does the restore.
NoFalseAlarm ==
    (session.reason \notin {"NONE", "PLAN_COMPLETE", "CLIENT_CLOSE"} \/ sched.worker_error)
        => fault

\* A completed session covers the span it was asked for, lost no event, and had
\* all the samples it counts.
CompleteMeansWhole ==
    session.state = "COMPLETED" =>
        /\ SpanReached(session.startup, session.final_counter)
        /\ session.final_counter <= session.block_end
        /\ sched.queue = << >> /\ sched.dropped = 0 /\ ~sched.worker_error

\* The radio is restored once, at the end, and never retuned afterwards.
RestoredForGood ==
    /\ Terminal(session) <=> sched.restored = 1
    /\ Terminal(session) => worker.pc \in {"none", "done"} /\ radio \in {None, Moving}
    /\ ~Terminal(session) => sched.restored = 0

\* In a plan that never stays on a profile, when the scheduler has stopped of its
\* own accord and the session has all its events, the session knows the span to
\* be covered: it needs no event that will not come.
StopsTogether ==
    (/\ request.version = 1 \/ Shadow
     /\ worker.pc = "done" /\ ~sched.worker_error /\ ~sched.cancel_requested
     /\ sched.queue = << >> /\ session.pc = "ready")
        => SpanReached(session.startup, FinalCounter)

\* How a session ends is what happened: completed means whole, failed means a
\* fault, and neither side waits for the other.
OutcomeSound == CompleteMeansWhole /\ NoFalseAlarm /\ StopsTogether

\* session_on_block returns 0: the block goes to the client.
BlockReturned ==
    \/ session.pc = "events" /\ session'.pc = "ready"
    \/ session.pc = "joining" /\ session'.state = "COMPLETED"

\* Every block the session lets through can be described: what it accepted, the
\* encoder accepts too, and the decoder in iiod reads back the same record.  A
\* check the two sides disagree on would end a healthy capture with -EINVAL or
\* -EBADMSG.
SidecarDescribed ==
    [][BlockReturned =>
          \E s \in {Sidecar(session', session.out)} : \E w \in {EncodeSidecar(s)} :
              /\ w.ret = "OK"
              /\ \E d \in {DecodeSidecar(w.value)} : d.ret = "OK" /\ d.value = s]_vars

\* Whenever hop_lock is free the status can be told, whatever ended the session
\* and however: state, reason, error and flags agree as the encoder wants them.
StatusReadable ==
    (session.state # "IDLE" /\ session.pc = "ready") =>
        \E w \in {EncodeStatus} :
            /\ w.ret = "OK"
            /\ \E d \in {DecodeStatus(w.value)} : d.ret = "OK" /\ d.value = Status

\* Whatever the session does can be told to the client, block by block and at its end.
Described == []StatusReadable /\ SidecarDescribed

\* A close, a failure and a completed plan end: the scheduler is joined whatever
\* it is doing.
RestoreEnds == session.pc = "joining" ~> Terminal(session)

\* The radio comes back, and for good.
Restored == []RestoredForGood /\ RestoreEnds
=============================================================================
