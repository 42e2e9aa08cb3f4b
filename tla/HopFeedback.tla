----------------------------- MODULE HopFeedback -----------------------------
(***************************************************************************)
(* The feedback loop of an adaptive hop.  The scheduler thread             *)
(* (iiod/spf-hop-scheduler.c) asks the policy                              *)
(* (iiod/spf-hop-adaptive-policy.c) for a profile before every dwell and   *)
(* tells it the samples the dwell will cover; the session                  *)
(* (iiod/spf-hop-session.c) computes from the same event the samples it    *)
(* calls valid; and what was seen in them comes back as an observation,    *)
(* from the detector on the acquisition thread                             *)
(* (iiod/spf-scanner-glrt.c) or from the host by a command                 *)
(* (iiod_buffer_metadata_feedback), through a ring with one writer and one *)
(* reader and no lock.                                                     *)
(*                                                                         *)
(* The scheduler's counter starts from a register of Word values; the      *)
(* blocks, and so detector and host, count Epoch higher.  The scheduler    *)
(* is late by at most MaxLate.  Cancelling and joining the scheduler is    *)
(* one step here (HopSession has the detail).  The detector and the        *)
(* scan library are external: which profile is proposed, and when the      *)
(* result of a visit is ready, is open.                                    *)
(***************************************************************************)
EXTENDS Integers, Sequences, FiniteSets

CONSTANTS
    Modes,          \* whose feedback: "host" or "glrt"
    Dwells,         \* request.geometry.dwell_count, for each mode
    DwellSamples,   \* request.geometry.dwell_samples
    Guard,          \* request.geometry.transition_guard_samples
    Profiles,       \* the profiles
    Capacity,       \* FEEDBACK_CAPACITY
    Drain,          \* SPF_HOP_PROFILE_COUNT: observations moved at a time
    Rate,           \* sample_rate_hz: a second, the age of feedback
    Word,           \* 2^32
    Epoch,          \* the blocks' counter minus the scheduler's
    MaxLate,        \* bound: samples a decision comes late
    BlockSamples,   \* samples of a block
    MaxBlocks       \* bound: blocks of the capture

ASSUME FeedbackAssumption ==
    /\ Modes \subseteq {"host", "glrt"}
    /\ Dwells \in [Modes -> Nat \ {0}]
    /\ {DwellSamples, Capacity, Drain, Rate, BlockSamples, MaxBlocks} \subseteq Nat \ {0}
    /\ Word \in Nat \ {0, 1} /\ Profiles # {}
    /\ Guard \in 0 .. DwellSamples - 1 /\ MaxLate \in Nat
    /\ Epoch \in Nat /\ Epoch % Word = 0

VARIABLES
    mode,       \* host.enabled, or a GLRT session with the policy attached
    worker,     \* scheduler_worker and its call of choose
    policy,     \* struct spf_hop_adaptive_policy
    session,    \* struct spf_hop_session_v2, the scheduler's queue, a cancel command
    glrt,       \* struct spf_scanner_glrt
    capture,    \* the acquisition thread in iiod_buffer_metadata_get
    offer,      \* the observation being written to the ring, and for whom
    history     \* history: what was offered, taken and refused

vars == <<mode, worker, policy, session, glrt, capture, offer, history>>

\* leo_adaptive_observation_v1, as far as the ring and the binding look at it.
Observation(v, s, e, t, h) ==
    [visit |-> v, start |-> s, end |-> e, target |-> t, healthy |-> h]
NoObservation == Observation(0, 0, 0, CHOOSE p \in Profiles : TRUE, FALSE)

\* spf_hop_adaptive_policy_create
NewPolicy == [write |-> 0, read |-> 0, fault |-> FALSE, visible |-> 0,
              feedback |-> [i \in 0 .. Capacity - 1 |-> NoObservation],
              visits |-> << >>, epoch |-> -1, next_host |-> 0]

Init ==
    /\ mode \in Modes
    /\ worker = [pc |-> "wait", next |-> 0, previous |-> -1, decision |-> 0, n |-> 0,
                 seen |-> NoObservation]
    /\ policy = NewPolicy
    /\ session = [state |-> "RUNNING", queue |-> << >>, windows |-> << >>, block_end |-> 0,
                  cancel |-> "none"]
    /\ glrt = [told |-> 0, sent |-> 0, finished |-> FALSE, frame_pending |-> FALSE,
               drain_ready |-> FALSE]
    /\ capture = [pc |-> "idle", left |-> 0, blocks |-> 0]
    /\ offer = [pc |-> "idle", o |-> NoObservation, until |-> 0, shift |-> 0, write |-> 0]
    /\ history = [offered |-> << >>, taken |-> << >>, overflow |-> FALSE, repeated |-> FALSE,
                  final |-> FALSE, late |-> FALSE]

-----------------------------------------------------------------------------
(* scheduler_worker, with choose and commit of the policy *)

\* wait_until ends: the next dwell is due.  A cancelled session stops the
\* thread here (see StopWorker).
WorkerDecide ==
    /\ worker.pc = "wait" /\ Len(policy.visits) < Dwells[mode]
    /\ \E late \in 0 .. MaxLate :
          worker' = [worker EXCEPT !.pc = "load", !.decision = worker.next + late, !.n = 0]
    /\ UNCHANGED <<mode, policy, session, glrt, capture, offer, history>>

\* choose: the head of the loop.
ChooseLoad ==
    /\ worker.pc = "load"
    /\ worker' = [worker EXCEPT !.pc =
                    IF worker.n < Drain /\ policy.read # policy.write THEN "copy" ELSE "tune"]
    /\ UNCHANGED <<mode, policy, session, glrt, capture, offer, history>>

\* choose: observation = p->feedback[r % FEEDBACK_CAPACITY]
ChooseCopy ==
    /\ worker.pc = "copy"
    /\ worker' = [worker EXCEPT !.pc = "bind",
                                !.seen = policy.feedback[policy.read % Capacity]]
    /\ UNCHANGED <<mode, policy, session, glrt, capture, offer, history>>

\* bind_observation
BindObservation(o) ==
    /\ o.visit < Len(policy.visits)
    /\ LET v == policy.visits[o.visit + 1]
           offset == o.start - v.start
       IN  /\ o.target = v.target /\ offset >= 0 /\ offset % Word = 0
           /\ o.end - v.end = offset
           /\ policy.epoch \in {-1, offset}

\* choose: publish r + 1, bind the observation and give it to the library, or
\* fall back.
ChooseBind ==
    /\ worker.pc = "bind"
    /\ \E bound \in {BindObservation(worker.seen)} :
          policy' = [policy EXCEPT !.read = @ + 1, !.fault = @ \/ ~bound,
                        !.epoch = IF bound
                                  THEN worker.seen.start
                                       - policy.visits[worker.seen.visit + 1].start
                                  ELSE @]
    /\ worker' = [worker EXCEPT !.pc = "load", !.n = @ + 1]
    /\ history' = [history EXCEPT !.taken = Append(@, worker.seen)]
    /\ UNCHANGED <<mode, session, glrt, capture, offer>>

\* The transition of the dwell: none when the profile stays.
Transition(profile) ==
    LET repeat == policy.visits # << >> /\ profile = worker.previous
        after == worker.decision + (IF repeat THEN 0 ELSE 1)
    IN  [no_recall |-> repeat, before |-> worker.decision, after |-> after, to |-> profile]

\* next_invalid_start
NextInvalidStart(t) == t.after + (IF t.no_recall THEN 0 ELSE Guard) + DwellSamples

\* commit: the samples the policy expects the dwell to cover.
CommittedVisit(t) ==
    [start |-> t.after + Guard, end |-> NextInvalidStart(t), target |-> t.to]

\* choose ends with a proposal; recall, commit and enqueue_event.
WorkerTune ==
    /\ worker.pc = "tune"
    /\ \E profile \in Profiles : \E t \in {Transition(profile)} :
          /\ policy' = [policy EXCEPT !.visits = Append(@, CommittedVisit(t)), !.visible = @ + 1]
          /\ session' = [session EXCEPT !.queue = Append(@, t)]
          /\ worker' = [worker EXCEPT !.pc = "wait", !.previous = profile,
                                      !.next = NextInvalidStart(t)]
          /\ history' = [history EXCEPT !.repeated = @ \/ t.no_recall]
    /\ UNCHANGED <<mode, glrt, capture, offer>>

-----------------------------------------------------------------------------
(* The ring: spf_hop_adaptive_policy_offer *)

\* What offer requires of an observation beyond its identity.
WellFormed(o) == o.end > o.start /\ o.end - o.start = DwellSamples /\ o.visit < Dwells[mode]

\* The caller is told whether the observation was queued.
OfferReturns(ok) ==
    IF mode = "glrt"
    THEN /\ capture' = [capture EXCEPT !.left = IF ok THEN @ - 1 ELSE 0]
         /\ offer' = [offer EXCEPT !.pc = "idle"]
    ELSE /\ offer' = [offer EXCEPT !.pc = IF ok /\ offer.o.visit < offer.until
                                          THEN "next" ELSE "idle"]
         /\ UNCHANGED capture

\* Mutant: one more than the ring holds.
FullLate(w, r) == w - r > Capacity

\* w - r >= FEEDBACK_CAPACITY
Full(w, r) == w - r >= Capacity

\* offer: the checks and the loads of both indices.
OfferCheck ==
    /\ offer.pc = "check"
    /\ \/ /\ WellFormed(offer.o) /\ ~Full(policy.write, policy.read)
          /\ offer' = [offer EXCEPT !.pc = "store", !.write = policy.write]
          /\ UNCHANGED <<policy, capture, history>>
       \/ /\ ~WellFormed(offer.o) \/ Full(policy.write, policy.read)
          /\ policy' = [policy EXCEPT !.fault = TRUE]
          /\ history' = [history EXCEPT !.overflow = @ \/ WellFormed(offer.o)]
          /\ OfferReturns(FALSE)
    /\ UNCHANGED <<mode, worker, session, glrt>>

\* offer: p->feedback[w % FEEDBACK_CAPACITY] = *o
OfferStore ==
    /\ offer.pc = "store"
    /\ policy' = [policy EXCEPT !.feedback[offer.write % Capacity] = offer.o]
    /\ offer' = [offer EXCEPT !.pc = "publish"]
    /\ UNCHANGED <<mode, worker, session, glrt, capture, history>>

\* offer: the release store of w + 1, and the caller's count.
OfferPublish ==
    /\ offer.pc = "publish"
    /\ policy' = [policy EXCEPT !.write = offer.write + 1,
                                !.next_host = IF mode = "host" THEN @ + 1 ELSE @]
    /\ history' = [history EXCEPT !.offered = Append(@, offer.o)]
    /\ OfferReturns(TRUE)
    /\ UNCHANGED <<mode, worker, session, glrt>>

-----------------------------------------------------------------------------
(* Feedback of the host: iiod_buffer_metadata_feedback, under hop_lock *)

\* Feedback on visit v as the host makes it: from the valid samples the
\* sidecars named, shifted when it did its sums wrong.
HostFeedback(v, shift) ==
    LET w == session.windows[v + 1]
    IN  Observation(v, w.start + Epoch + shift, w.end + Epoch + shift, w.target, TRUE)

\* spf_hop_adaptive_policy_offer_host, up to the loop.
HostAccepts(f) ==
    /\ session.state = "RUNNING"
    /\ f.visit >= policy.next_host /\ f.visit < policy.visible
    /\ LET v == policy.visits[f.visit + 1]
           offset == f.start - v.start
       IN  /\ f.target = v.target /\ offset >= 0 /\ f.end >= v.end
           /\ offset % Word = 0 /\ f.end - v.end = offset
    /\ session.block_end + Epoch >= f.end /\ session.block_end + Epoch - f.end <= Rate
    /\ f.visit - policy.next_host + 1 <= Capacity - (policy.write - policy.read)

\* The next observation of the batch: unavailable for the visits the host
\* left out, then the feedback itself.
BatchItem(f) ==
    LET v == policy.visits[policy.next_host + 1]
        offset == f.start - policy.visits[f.visit + 1].start
    IN  IF policy.next_host < f.visit
        THEN Observation(policy.next_host, v.start + offset, v.end + offset, v.target, FALSE)
        ELSE f

\* A feedback command.  One that is refused changes nothing.
HostOffer ==
    /\ mode = "host" /\ offer.pc = "idle"
    /\ \E v \in 0 .. Len(session.windows) - 1, shift \in {0, 1} :
          \E f \in {HostFeedback(v, shift)} :
              /\ HostAccepts(f)
              /\ offer' = [offer EXCEPT !.pc = "check", !.o = BatchItem(f), !.until = v, !.shift = shift]
    /\ UNCHANGED <<mode, worker, policy, session, glrt, capture, history>>

\* The loop of offer_host goes on to the next observation.
HostNext ==
    /\ offer.pc = "next"
    /\ \E f \in {HostFeedback(offer.until, offer.shift)} :
          offer' = [offer EXCEPT !.pc = "check", !.o = BatchItem(f)]
    /\ UNCHANGED <<mode, worker, policy, session, glrt, capture, history>>

-----------------------------------------------------------------------------
(* The acquisition thread *)

\* validate_device_event and accept_event: where the samples of the event i of
\* a queue begin that the session calls valid.  A recall and its guard end at
\* after + Guard; without a recall the dwell goes on where the one before ends.
ValidStart(windows, queue, i) ==
    LET Recalled(j) == ~queue[j].no_recall /\ \A k \in j + 1 .. i : queue[k].no_recall
        scheduled == IF windows = << >> THEN queue[1].before ELSE windows[Len(windows)].end
    IN  IF \E j \in 1 .. i : Recalled(j)
        THEN LET j == CHOOSE j \in 1 .. i : Recalled(j)
             IN  queue[j].after + Guard + (i - j) * DwellSamples
        ELSE scheduled + (i - 1) * DwellSamples

\* spf_hop_session_v2_on_block: every event adaptive_drain got is accepted.
Windows(windows, queue) ==
    windows \o [i \in 1 .. Len(queue) |->
                   [start |-> ValidStart(windows, queue, i),
                    end |-> ValidStart(windows, queue, i) + DwellSamples,
                    target |-> queue[i].to]]

\* maybe_complete
PlanComplete(windows, block_end) ==
    Len(windows) = Dwells[mode] /\ block_end >= windows[Dwells[mode]].end

\* restore: cancel_restore joined the scheduler.
StopWorker == worker.pc = "wait" /\ worker' = [worker EXCEPT !.pc = "done"]

\* iiod_buffer_metadata_get under hop_lock: on_block, and begin_frame when
\* there is a detector.
CaptureBlock ==
    /\ capture.pc = "idle" /\ capture.blocks < MaxBlocks
    /\ session.state = "RUNNING" /\ (mode = "host" => offer.pc = "idle")
    /\ session.block_end + BlockSamples <= worker.next + MaxLate + Guard + DwellSamples
    /\ \E windows \in {Windows(session.windows, session.queue)},
          block_end \in {session.block_end + BlockSamples} :
          /\ session' = [session EXCEPT !.queue = << >>, !.windows = windows,
                            !.block_end = block_end,
                            !.state = IF PlanComplete(windows, block_end)
                                      THEN "COMPLETED" ELSE "RUNNING"]
          /\ IF PlanComplete(windows, block_end) THEN StopWorker ELSE UNCHANGED worker
    /\ IF mode = "glrt"
       THEN /\ glrt' = [glrt EXCEPT !.frame_pending = TRUE, !.drain_ready = FALSE]
            /\ capture' = [capture EXCEPT !.pc = "feed", !.blocks = @ + 1]
       ELSE /\ capture' = [capture EXCEPT !.blocks = @ + 1]
            /\ UNCHANGED glrt
    /\ UNCHANGED <<mode, policy, offer, history>>

\* The visits whose samples the detector has had in full.
Complete == Cardinality({v \in 1 .. glrt.told : session.windows[v].end <= session.block_end})

\* spf_scanner_glrt_feed takes the lock: the visits and the block are given
\* to the detector unless it is finished; it has some results.
Feed ==
    /\ capture.pc = "feed"
    /\ glrt' = [glrt EXCEPT !.told = IF glrt.finished THEN @ ELSE Len(session.windows)]
    /\ \E k \in 0 .. Drain : capture' = [capture EXCEPT !.pc = "feeding", !.left = k]
    /\ UNCHANGED <<mode, worker, policy, session, offer, history>>

Publishing == capture.pc \in {"feeding", "framing", "charging"}

\* publish_observations: leo_scanner_glrt_observation has another result, of
\* the next visit, and it is offered.
PublishObservation ==
    /\ Publishing /\ offer.pc = "idle" /\ capture.left > 0
    /\ glrt.sent < Complete
    /\ \E w \in {session.windows[glrt.sent + 1]} :
          offer' = [offer EXCEPT !.pc = "check",
                       !.o = Observation(glrt.sent, w.start + Epoch, w.end + Epoch, w.target, TRUE)]
    /\ glrt' = [glrt EXCEPT !.sent = @ + 1]
    /\ UNCHANGED <<mode, worker, policy, session, capture, history>>

Published == offer.pc = "idle" /\ (capture.left = 0 \/ glrt.sent >= Complete)

\* spf_scanner_glrt_feed ends: a sidecar with a terminal state finishes the
\* detector.
FeedDone ==
    /\ capture.pc = "feeding" /\ Published
    /\ capture' = [capture EXCEPT !.pc = "frame"]
    /\ glrt' = [glrt EXCEPT !.finished = @ \/ session.state # "RUNNING"]
    /\ UNCHANGED <<mode, worker, policy, session, offer, history>>

\* spf_scanner_glrt_frame takes the lock: the envelope of the block.
Frame ==
    /\ capture.pc = "frame"
    /\ \E k \in 0 .. Drain : capture' = [capture EXCEPT !.pc = "framing", !.left = k]
    /\ UNCHANGED <<mode, worker, policy, session, glrt, offer, history>>

\* Mutant: only finish makes the FINAL record available.
FrameDoneKeeps ==
    /\ capture.pc = "framing" /\ Published
    /\ glrt' = [glrt EXCEPT !.frame_pending = FALSE]
    /\ capture' = [capture EXCEPT !.pc = "budget"]
    /\ history' = [history EXCEPT !.late = @ \/ history.final]
    /\ UNCHANGED <<mode, worker, policy, session, offer>>

\* spf_scanner_glrt_frame ends; a frame that cannot be built ends the capture
\* and leaves frame_pending set.
FrameDone ==
    /\ capture.pc = "framing" /\ Published
    /\ \/ /\ glrt' = [glrt EXCEPT !.frame_pending = FALSE, !.drain_ready = @ \/ glrt.finished]
          /\ capture' = [capture EXCEPT !.pc = "budget"]
          /\ history' = [history EXCEPT !.late = @ \/ history.final]
       \/ /\ capture' = [capture EXCEPT !.pc = "failed"] /\ UNCHANGED <<glrt, history>>
    /\ UNCHANGED <<mode, worker, policy, session, offer>>

\* spf_scanner_glrt_capture_budget
CaptureBudget ==
    /\ capture.pc = "budget"
    /\ IF glrt.finished
       THEN capture' = [capture EXCEPT !.pc = "idle"]
       ELSE \E k \in 0 .. Drain : capture' = [capture EXCEPT !.pc = "charging", !.left = k]
    /\ UNCHANGED <<mode, worker, policy, session, glrt, offer, history>>

BudgetDone ==
    /\ capture.pc = "charging" /\ Published
    /\ capture' = [capture EXCEPT !.pc = "idle"]
    /\ UNCHANGED <<mode, worker, policy, session, glrt, offer, history>>

-----------------------------------------------------------------------------
(* Other commands *)

\* iiod_buffer_metadata_cancel: hop_cancel under hop_lock, which stops a
\* running session ...
Cancel ==
    /\ session.cancel = "none" /\ (mode = "host" => offer.pc = "idle")
    /\ \/ /\ session.state = "RUNNING" /\ StopWorker
          /\ session' = [session EXCEPT !.state = "CANCELLED", !.cancel = "finish"]
       \/ /\ session.state # "RUNNING" /\ UNCHANGED worker
          /\ session' = [session EXCEPT !.cancel = "finish"]
    /\ UNCHANGED <<mode, policy, glrt, capture, offer, history>>

\* ... then spf_scanner_glrt_finish, which takes the detector's lock.
GlrtFinish ==
    /\ session.cancel = "finish" /\ ~Publishing
    /\ glrt' = [glrt EXCEPT !.finished = TRUE, !.drain_ready = @ \/ ~glrt.frame_pending]
    /\ session' = [session EXCEPT !.cancel = "done"]
    /\ UNCHANGED <<mode, worker, policy, capture, offer, history>>

\* spf_scanner_glrt_drain gets the lock: the FINAL record goes out.
GlrtDrain ==
    /\ mode = "glrt" /\ glrt.drain_ready /\ ~Publishing /\ ~history.final
    /\ history' = [history EXCEPT !.final = TRUE]
    /\ UNCHANGED <<mode, worker, policy, session, glrt, capture, offer>>

\* The capture is over.
Done ==
    /\ session.state # "RUNNING" /\ worker.pc = "done" /\ capture.pc \in {"idle", "failed"}
    /\ offer.pc = "idle" /\ session.cancel # "finish"
    /\ mode = "host" \/ history.final \/ (capture.pc = "failed" /\ glrt.finished)
    /\ UNCHANGED vars

WorkerStep == WorkerDecide \/ ChooseLoad \/ ChooseCopy \/ ChooseBind \/ WorkerTune
OfferStep == OfferCheck \/ OfferStore \/ OfferPublish
CaptureStep == CaptureBlock \/ Feed \/ PublishObservation \/ FeedDone \/ Frame \/ FrameDone
               \/ CaptureBudget \/ BudgetDone

Next ==
    \/ WorkerStep \/ OfferStep \/ HostOffer \/ HostNext \/ CaptureStep
    \/ Cancel \/ GlrtFinish \/ GlrtDrain \/ Done

Spec == Init /\ [][Next]_vars

\* The threads go on, and the locks are handed over.
Fairness ==
    /\ WF_vars(WorkerStep) /\ WF_vars(OfferStep) /\ WF_vars(HostNext)
    /\ WF_vars(CaptureStep) /\ WF_vars(GlrtFinish)

FairSpec == Spec /\ Fairness

-----------------------------------------------------------------------------
(* Properties *)

\* The ring as its reader sees it.
InRing == [i \in 1 .. policy.write - policy.read |->
              policy.feedback[(policy.read + i - 1) % Capacity]]

\* The ring of spf_hop_adaptive_policy_offer and choose gives the scheduler
\* every observation once, in the order offered and whole: what was taken and
\* what is queued is what was offered, and no slot is copied that may be
\* written meanwhile.
FeedbackIntact ==
    /\ policy.write - policy.read \in 0 .. Capacity
    /\ history.taken \o InRing = history.offered
    /\ offer.pc = "store" /\ worker.pc \in {"copy", "bind"} =>
          offer.write % Capacity # policy.read % Capacity

\* The policy gives up the feedback (fault, so that the hop falls back to the
\* uniform plan) only when the ring was full or a dwell was committed without
\* a recall: host and detector, session and scheduler agree about the samples
\* of all other dwells, in every epoch.
FaultExplained == policy.fault => history.overflow \/ history.repeated

\* Feedback of the host reaches the policy for consecutive visits, each
\* committed before: the batch of offer_host leaves no hole and advances
\* next_host_visit with the ring.
HostInOrder ==
    mode = "host" =>
        /\ policy.next_host = Len(history.offered)
        /\ \A i \in DOMAIN history.offered :
              history.offered[i].visit = i - 1 /\ i <= policy.visible

\* The feedback the scheduler adapts to is the one that was given.
FeedbackSound == FeedbackIntact /\ HostInOrder /\ FaultExplained

\* The FINAL record spf_scanner_glrt_drain hands out overtakes no envelope:
\* no block's metadata is framed after it.
FinalLast == ~history.late /\ (glrt.drain_ready => capture.pc \notin {"feed", "feeding", "frame"})

\* Once the session ended, by its plan or by a cancel at any point of a block,
\* the FINAL record can be drained, unless the last frame could not be built.
FinalReady ==
    mode = "glrt" /\ session.state # "RUNNING" ~> glrt.drain_ready \/ capture.pc = "failed"

\* The FINAL record comes, and comes last.
FinalDelivered == []FinalLast /\ FinalReady

=============================================================================
