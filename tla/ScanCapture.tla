----------------------------- MODULE ScanCapture -----------------------------
(***************************************************************************)
(* An adaptive scan of iiod: the scheduler thread of the metadata provider *)
(* (scan_scheduler), the thread that feeds DMA blocks (scan_producer_thd), *)
(* the thread of the device that sends visits (rw_thd), the control        *)
(* commands of other connections and the teardown when the client leaves,  *)
(* around one scan session.                                                *)
(*                                                                         *)
(* A step is one critical section of scan_lock, or one wait.  The thread   *)
(* of the device sends with thdlist_lock held, so that a client leaves     *)
(* between two sends only.  The counter of the receiver is Len(lo).        *)
(***************************************************************************)
EXTENDS ScanSession

CONSTANTS
    Deadline,       \* end of the scan; of a continuous one, bound: end of the counter
    MaxRecall,      \* bound: ticks a recall takes
    MaxClock,       \* bound: last counter
    MaxLost,        \* bound: blocks the DMA loses
    Faults          \* what may go wrong, of FaultKinds

FaultKinds == {"snapshot", "recall", "policy", "gain", "thread", "pool", "restore",
               "release", "acquire", "send", "stall"}

ASSUME CaptureAssumption ==
    /\ Token \subseteq Nat \ {0}
    /\ Targets = 1 .. Cardinality(Targets)
    /\ {Deadline, MaxRecall, MaxClock} \subseteq Nat \ {0}
    /\ MaxLost \in Nat
    /\ Faults \subseteq FaultKinds

VARIABLES
    s,              \* the session
    p,              \* scan fields of the provider's context
    boundary,       \* local of scan_scheduler: end of the active window
    sched,          \* scheduler: "none", "start", "loop", "done"
    prod,           \* producer: "none", "check", "acquire", "stuck", "feed", "fail", "exited"
    hand,           \* block the producer holds and its first sample; token 0 is none
    scan_cancelled, \* entry->scan.cancelled
    buf_cancelled,  \* iio_buffer_cancel was called
    rw,             \* device thread and its client, see Init
    lo,             \* history: target the radio was tuned to at each sample, 0 if none
    tuned,          \* target the radio is tuned to
    dma,            \* first sample of the next DMA block
    lost            \* blocks lost

provider == <<s, p, boundary, sched>>
producer == <<prod, hand, dma>>
radio == <<lo, tuned>>
vars == <<s, p, boundary, sched, prod, hand, scan_cancelled, buf_cancelled, rw, lo, tuned,
          dma, lost>>

clock == Len(lo)
NoBlock == [token |-> 0, first |-> 0]

\* scan_open.  rw is "open" until READSCAN, "poll" between two sends, "send" with
\* an output in flight, "idle" when READSCAN has returned; then the teardown:
\* "join", "wait", "drain", "closed".
Init ==
    /\ \E continuous \in BOOLEAN : s = SessionInit(continuous)
    /\ p = [started |-> FALSE, finished |-> FALSE, error |-> FALSE,
            cancel_requested |-> FALSE, stop_requested |-> FALSE, thread_live |-> FALSE,
            anchor |-> 0]
    /\ boundary = 0 /\ sched = "none"
    /\ prod = "none" /\ hand = NoBlock
    /\ scan_cancelled = FALSE /\ buf_cancelled = FALSE
    /\ rw = "open"
    /\ lo = << >> /\ tuned = 0
    /\ dma = 0 /\ lost = 0

\* May the named step go wrong?
Fine(kind) == IF kind \in Faults THEN BOOLEAN ELSE {TRUE}
\* When the radio is restored by a step that takes the ticks, if it is.
Restored(ticks) == {clock + ticks} \cup IF "restore" \in Faults THEN {Unrestored} ELSE {}
Unreturned(q) == IF "release" \in Faults THEN {{}, Token} ELSE {{}}

-----------------------------------------------------------------------------
(* The receiver and its DMA (external) *)

Tick ==
    /\ clock < MaxClock
    /\ lo' = Append(lo, IF s.released THEN 0 ELSE tuned)
    /\ UNCHANGED <<provider, producer, scan_cancelled, buf_cancelled, rw, tuned, lost>>

DmaLost ==
    /\ lost < MaxLost /\ dma + BlockSamples <= clock
    /\ dma' = dma + BlockSamples /\ lost' = lost + 1
    /\ UNCHANGED <<provider, prod, hand, scan_cancelled, buf_cancelled, rw, radio>>

Leased == s.q.owned \cup {hand.token}

\* No block comes any more, or none for want of a free one.
DmaStopped == prod = "stuck" \/ dma + BlockSamples > MaxClock \/ Token \subseteq Leased

-----------------------------------------------------------------------------
(* A selection and what comes of it, of scan_feed and scan_scheduler *)

SelectRet(now, timely) ==
    IF Deadline - now < Dwell + Transition THEN "ENODATA"
    ELSE IF timely THEN "OK" ELSE "ETIME"

\* The policy of a continuous scan takes the targets in turn.
Candidates ==
    IF s.continuous THEN {(Planned(s) % Cardinality(Targets)) + 1} ELSE Targets

\* What schedule did to the radio: the recall took the ticks, or broke it.
Retuned(before, after, recall, ticks) ==
    LET called == Planned(after) > Planned(before) \/ after.current_profile # before.current_profile
        t == IF Planned(after) > Planned(before)
             THEN after.ledger[Planned(after)].target ELSE after.current_profile
    IN  IF ~called \/ before.current_profile = t THEN UNCHANGED radio
        ELSE IF ~recall THEN tuned' = 0 /\ UNCHANGED lo
        ELSE tuned' = t /\ lo' = lo \o [i \in 1 .. ticks |-> 0]

-----------------------------------------------------------------------------
(* scan_scheduler.  An iteration that finds the window open takes no step: it *)
(* moves the counter anchor only, which stays before the end of the window.   *)

AtBoundary == clock >= boundary

Finished(error) ==
    /\ p' = [p EXCEPT !.finished = TRUE, !.error = error, !.anchor = clock]
    /\ sched' = "done" /\ UNCHANGED boundary

Elsewhere == UNCHANGED <<producer, scan_cancelled, buf_cancelled, rw, lost>>

SchedStart ==
    /\ sched = "start" /\ Elsewhere /\ UNCHANGED radio
    /\ \E restored \in Restored(0) :
         IF s.stopping \/ s.active = 0
         THEN /\ s' = Fail(s, p.anchor, restored)
              /\ p' = [p EXCEPT !.finished = TRUE, !.error = TRUE]
              /\ sched' = "done" /\ UNCHANGED boundary
         ELSE boundary' = s.ledger[s.active].valid_end /\ sched' = "loop" /\ UNCHANGED <<s, p>>

SchedSnapshotFails ==
    /\ sched = "loop" /\ ~p.finished /\ Elsewhere /\ UNCHANGED radio
    /\ s.faulted \/ s.released \/ "snapshot" \in Faults
    /\ \E restored \in Restored(0) :
         s' = Fail([s EXCEPT !.faulted = @ \/ ~s.released], p.anchor, restored)
    /\ p' = [p EXCEPT !.finished = TRUE, !.error = TRUE]
    /\ sched' = "done" /\ UNCHANGED boundary

Running == sched = "loop" /\ ~p.finished /\ ~s.faulted /\ ~s.released

SchedCancel ==
    /\ Running /\ p.cancel_requested /\ Elsewhere /\ UNCHANGED radio
    /\ \E restored \in Restored(0) : s' = CancelSession(s, clock, restored).s
    /\ Finished(TRUE)

SchedStop ==
    /\ Running /\ ~p.cancel_requested /\ p.stop_requested /\ AtBoundary
    /\ Elsewhere /\ UNCHANGED radio
    /\ \E restored \in Restored(0) :
       \E r \in {Stop(s, clock, restored)} :
         s' = r.s /\ Finished(r.ret # "OK")

\* The gain of the window that ends could not be read.
SchedGainFails ==
    /\ Running /\ ~p.cancel_requested /\ ~p.stop_requested /\ AtBoundary
    /\ "gain" \in Faults /\ ~s.continuous
    /\ Elsewhere /\ UNCHANGED radio
    /\ \E restored \in Restored(0) : s' = Fail(s, clock, restored)
    /\ Finished(TRUE)

SchedNext ==
    /\ Running /\ ~p.cancel_requested /\ ~p.stop_requested /\ AtBoundary
    /\ Elsewhere
    /\ \E t \in Candidates, ticks \in 1 .. MaxRecall, recall \in Fine("recall"),
          timely \in Fine("policy") :
       \E restored \in Restored(ticks) :
       \E r \in {Schedule(s, clock, SelectRet(clock, timely), t, recall, ticks, Deadline,
                          restored)} :
         LET stopped == Stop(r.s, clock, restored)
         IN  /\ Retuned(s, r.s, recall, ticks)
             /\ \/ /\ r.ret = "OK"
                   /\ s' = r.s /\ boundary' = r.s.ledger[r.s.active].valid_end
                   /\ p' = [p EXCEPT !.anchor = clock] /\ UNCHANGED sched
                \/ r.ret = "ENODATA" /\ s' = stopped.s /\ Finished(stopped.ret # "OK")
                \/ r.ret \notin {"OK", "ENODATA"} /\ s' = r.s /\ Finished(TRUE)

SchedEnd ==
    /\ sched = "loop" /\ p.finished
    /\ sched' = "done"
    /\ Elsewhere /\ UNCHANGED <<s, p, boundary, radio>>

Scheduler ==
    \/ SchedStart \/ SchedSnapshotFails \/ SchedCancel \/ SchedStop \/ SchedGainFails
    \/ SchedNext \/ SchedEnd

-----------------------------------------------------------------------------
(* scan_producer_thd *)

NotProducing == UNCHANGED <<scan_cancelled, buf_cancelled, rw, lost>>

ProdCheck ==
    /\ prod = "check"
    /\ prod' = IF scan_cancelled THEN "exited" ELSE "acquire"
    /\ NotProducing /\ UNCHANGED <<provider, hand, dma, radio>>

\* Blocks are named by no more than being free.
ProdAcquire ==
    /\ prod = "acquire" /\ ~buf_cancelled
    /\ dma + BlockSamples <= clock /\ Token \ Leased # {}
    /\ hand' = [token |-> CHOOSE t \in Token \ Leased : \A u \in Token \ Leased : t <= u,
                first |-> dma]
    /\ dma' = dma + BlockSamples
    /\ prod' = "feed"
    /\ NotProducing /\ UNCHANGED <<provider, radio>>

\* The DMA has stopped for good.
ProdStuck ==
    /\ prod = "acquire" /\ "stall" \in Faults
    /\ prod' = "stuck"
    /\ NotProducing /\ UNCHANGED <<provider, hand, dma, radio>>

ProdAcquireFails ==
    /\ prod \in {"acquire", "stuck"} /\ (buf_cancelled \/ "acquire" \in Faults)
    /\ prod' = "fail"
    /\ NotProducing /\ UNCHANGED <<provider, hand, dma, radio>>

\* What the producer makes of the answer of scan_feed: the block is the queue's,
\* or is given back (a second time when the queue had consumed it before a later
\* step of scan_feed failed; nothing is acquired after that).
Fed(ret) ==
    /\ hand' = NoBlock
    /\ prod' = IF ret = "OK" THEN "check" ELSE IF ret = "ESHUTDOWN" THEN "exited" ELSE "fail"
    /\ UNCHANGED dma /\ NotProducing

Feeding == prod = "feed"
Over == ~p.started \/ (p.finished /\ CaptureComplete(s.q))

FeedRefused == Feeding /\ Over /\ Fed("ESHUTDOWN") /\ UNCHANGED <<provider, radio>>

\* The first block tells the epoch of the counter: rebase, first visit, feed, and
\* the thread that schedules the others.
FeedFirst ==
    /\ Feeding /\ ~Over /\ ~p.thread_live /\ ~p.finished
    /\ \E t \in Candidates, ticks \in 1 .. MaxRecall, snapshot \in Fine("snapshot"),
          recall \in Fine("recall"), timely \in Fine("policy"), thread \in Fine("thread"),
          failed \in Unreturned(s.q) :
       \E restored \in Restored(ticks) :
       \E based \in {Rebase(s, clock, snapshot, restored)} :
       \E r \in {Schedule(based.s, clock, SelectRet(clock, timely), t, recall, ticks, Deadline,
                          restored)} :
       \E fed \in {FeedSession(r.s, hand.token, hand.first, failed, restored)} :
         LET reached == IF based.ret # "OK" THEN [based EXCEPT !.ret = "EBASE"]
                        ELSE IF r.ret # "OK" THEN r ELSE fed
             anchor == IF based.ret = "OK" THEN clock ELSE p.anchor
         IN  /\ IF based.ret = "OK" THEN Retuned(s, r.s, recall, ticks) ELSE UNCHANGED radio
             /\ IF reached.ret = "OK" /\ thread
                THEN /\ s' = reached.s
                     /\ p' = [p EXCEPT !.thread_live = TRUE, !.anchor = anchor,
                                       !.finished = s.continuous /\ reached.s.failed,
                                       !.error = s.continuous /\ reached.s.failed]
                     /\ sched' = "start"
                     /\ Fed("OK")
                ELSE /\ s' = Fail(reached.s, anchor, restored)
                     /\ p' = [p EXCEPT !.finished = TRUE, !.error = TRUE, !.anchor = anchor]
                     /\ UNCHANGED sched
                     /\ Fed("EFIRST")
             /\ UNCHANGED boundary

FeedNext ==
    /\ Feeding /\ ~Over /\ (p.thread_live \/ p.finished)
    /\ \E restored \in Restored(0), failed \in Unreturned(s.q) :
       \E fed \in {FeedSession(s, hand.token, hand.first, failed, restored)} :
         LET broken == fed.ret = "OK" /\ s.continuous /\ fed.s.failed
         IN  /\ s' = fed.s
             /\ p' = [p EXCEPT !.finished = @ \/ broken, !.error = @ \/ broken]
             /\ Fed(fed.ret)
    /\ UNCHANGED <<boundary, sched, radio>>

\* iiod_buffer_metadata_scan_fail, and the end of the thread
ProdFail ==
    /\ prod = "fail"
    /\ \E restored \in Restored(0) : s' = Fail(s, p.anchor, restored)
    /\ p' = [p EXCEPT !.finished = TRUE, !.error = TRUE, !.cancel_requested = TRUE]
    /\ prod' = "exited"
    /\ NotProducing /\ UNCHANGED <<boundary, sched, hand, dma, radio>>

Producer == ProdCheck \/ ProdAcquire \/ FeedRefused \/ FeedFirst \/ FeedNext \/ ProdFail

-----------------------------------------------------------------------------
(* READSCAN and the thread of the device *)

NotSending == UNCHANGED <<boundary, sched, hand, dma, buf_cancelled, radio, lost>>

\* iiod_buffer_metadata_scan_cancel, up to the join
ScanCancel(restored) ==
    LET at_once == ~p.started \/ (~p.thread_live /\ ~p.finished)
    IN  /\ s' = IF at_once THEN CancelSession(s, p.anchor, restored).s ELSE s
        /\ p' = [p EXCEPT !.cancel_requested = TRUE, !.thread_live = FALSE,
                          !.finished = @ \/ at_once]

\* read_adaptive_scan, scan_start_producer
ReadScan ==
    /\ rw = "open" /\ ~p.started
    /\ p' = [p EXCEPT !.started = TRUE]
    /\ prod' = "check" /\ rw' = "poll"
    /\ UNCHANGED <<s, scan_cancelled>> /\ NotSending

ReadScanFails ==
    /\ rw = "open" /\ ~p.started /\ "pool" \in Faults
    /\ \E restored \in Restored(0) :
         /\ s' = CancelSession(s, p.anchor, restored).s
         /\ p' = [p EXCEPT !.started = TRUE, !.cancel_requested = TRUE, !.finished = TRUE]
    /\ prod' = "exited" /\ rw' = "idle"
    /\ UNCHANGED scan_cancelled /\ NotSending

\* The watchdog of iiod_buffer_metadata_scan_take looks for the next block.
Watchful ==
    /\ p.started /\ ~p.cancel_requested
    /\ ~p.finished \/ ~CaptureComplete(s.q)

\* The scan as scan_take finds it, expired if no block came for too long.
Watched(expired, restored) == IF expired THEN Fail(s, p.anchor, restored) ELSE s
Expired(expired) ==
    IF expired THEN [p EXCEPT !.finished = TRUE, !.error = TRUE, !.cancel_requested = TRUE]
    ELSE p

\* send_scan_data takes an output.
SendTake ==
    /\ rw = "poll"
    /\ \E expired \in {e \in BOOLEAN : e => Watchful /\ DmaStopped}, restored \in Restored(0) :
       \E t \in {Watched(expired, restored)} :
         /\ TakeOutputRet(t) = "OK"
         /\ LET r == TakeOutput(t, restored)
            IN  s' = r.s /\ rw' = IF r.ret = "OK" THEN "send" ELSE "idle"
         /\ p' = Expired(expired)
    /\ UNCHANGED <<prod, scan_cancelled>> /\ NotSending

\* There is none: the terminal record, or an error in its place, ends READSCAN.
\* iiod_buffer_metadata_scan_terminal
TerminalAnswer(t, ctx) ==
    IF TerminalRet(t) = "EAGAIN" /\ ctx.finished /\ ctx.error /\ CaptureComplete(t.q)
    THEN "ERROR" ELSE TerminalRet(t)

SendTerminal ==
    /\ rw = "poll"
    /\ \E expired \in {e \in BOOLEAN : e => Watchful /\ DmaStopped}, restored \in Restored(0) :
       \E t \in {Watched(expired, restored)} :
         LET ctx == Expired(expired)
             ret == TerminalAnswer(t, ctx)
         IN  /\ TakeOutputRet(t) = "EAGAIN"
             /\ expired \/ ret # "EAGAIN"
             /\ s' = IF ret = "OK" THEN Terminal(t) ELSE t
             /\ p' = ctx
             /\ rw' = IF ret = "EAGAIN" THEN "poll" ELSE "idle"
    /\ UNCHANGED <<prod, scan_cancelled>> /\ NotSending

Sent ==
    /\ rw = "send" /\ EncodeOutput(s).ret = "OK"
    /\ \E restored \in Restored(0), failed \in Unreturned(s.q) :
       \E r \in {FinishOutput(s, TRUE, failed, restored)} :
         s' = r.s /\ rw' = IF r.ret = "OK" THEN "poll" ELSE "idle"
    /\ UNCHANGED <<p, prod, scan_cancelled>> /\ NotSending

Sender == SendTake \/ SendTerminal \/ Sent

\* iiod_buffer_metadata_scan_abort, after a write or the encoder has failed
SendFails ==
    /\ rw = "send" /\ ("send" \in Faults \/ EncodeOutput(s).ret # "OK")
    /\ \E restored \in Restored(0) : s' = FinishOutput(s, FALSE, {}, restored).s
    /\ p' = [p EXCEPT !.cancel_requested = TRUE]
    /\ rw' = "idle"
    /\ UNCHANGED <<prod, scan_cancelled>> /\ NotSending

-----------------------------------------------------------------------------
(* Control commands, iiod_buffer_metadata_scan_control *)

Controllable == s.continuous /\ rw \notin {"drain", "closed"}

ControlStop ==
    /\ Controllable /\ ~p.finished
    /\ p' = [p EXCEPT !.stop_requested = TRUE]
    /\ UNCHANGED <<s, rw, prod, scan_cancelled>> /\ NotSending

ControlCancel ==
    /\ Controllable /\ ~s.released
    /\ \E restored \in Restored(0) : s' = CancelSession(s, p.anchor, restored).s
    /\ p' = [p EXCEPT !.cancel_requested = TRUE, !.finished = TRUE, !.error = TRUE]
    /\ UNCHANGED <<rw, prod, scan_cancelled>> /\ NotSending

-----------------------------------------------------------------------------
(* Teardown: remove_thd_entry, the end of rw_thd, iiod_buffer_metadata_close *)

ClientLeaves ==
    /\ rw \in {"poll", "idle"}
    /\ scan_cancelled' = TRUE
    /\ \E restored \in Restored(0) : ScanCancel(restored)
    /\ rw' = "join"
    /\ UNCHANGED prod /\ NotSending

\* READSCAN was never called.
ClientLeavesUnread ==
    /\ rw = "open"
    /\ \E restored \in Restored(0) : ScanCancel(restored)
    /\ rw' = "drain"
    /\ UNCHANGED <<prod, scan_cancelled>> /\ NotSending

\* pthread_join, then iio_buffer_cancel wakes the producer
Joined ==
    /\ rw = "join" /\ sched \in {"none", "done"}
    /\ buf_cancelled' = TRUE /\ rw' = "wait"
    /\ UNCHANGED <<provider, producer, scan_cancelled, radio, lost>>

ProducerGone ==
    /\ rw = "wait" /\ prod = "exited"
    /\ \E restored \in Restored(0) : ScanCancel(restored)
    /\ rw' = "drain"
    /\ UNCHANGED <<prod, scan_cancelled>> /\ NotSending

CloseDrain ==
    /\ rw = "drain" /\ TakeOutputRet(s) = "OK"
    /\ \E restored \in Restored(0), failed \in Unreturned(s.q) :
         LET r == TakeOutput(s, restored)
         IN  s' = IF r.ret = "OK" THEN FinishOutput(r.s, TRUE, failed, restored).s ELSE r.s
    /\ UNCHANGED <<p, rw, prod, scan_cancelled>> /\ NotSending

\* A session that cannot be destroyed is left, the result being ignored; the
\* buffer is destroyed anyhow.
CloseDestroy ==
    /\ rw = "drain" /\ TakeOutputRet(s) # "OK"
    /\ s' = IF TerminalRet(s) = "OK" THEN Terminal(s) ELSE s
    /\ rw' = "closed"
    /\ UNCHANGED <<p, prod, scan_cancelled>> /\ NotSending

Teardown == Joined \/ ProducerGone \/ CloseDrain \/ CloseDestroy

\* The scan is over: nothing is left to do.
Done == rw = "closed" /\ UNCHANGED vars

Next ==
    \/ Tick \/ DmaLost
    \/ Scheduler
    \/ Producer \/ ProdStuck \/ ProdAcquireFails
    \/ ReadScan \/ ReadScanFails
    \/ Sender \/ SendFails
    \/ ControlStop \/ ControlCancel
    \/ ClientLeaves \/ ClientLeavesUnread \/ Teardown
    \/ Done

Spec == Init /\ [][Next]_vars

\* When a thread can take a step of its own (what ENABLED says of its actions).
CanSchedule ==
    \/ sched = "start"
    \/ /\ sched = "loop"
       /\ \/ p.finished \/ s.faulted \/ s.released \/ p.cancel_requested
          \/ AtBoundary

CanProduce ==
    \/ prod \in {"check", "feed", "fail"}
    \/ prod = "stuck" /\ buf_cancelled
    \/ /\ prod = "acquire"
       /\ \/ buf_cancelled
          \/ dma + BlockSamples <= clock /\ Token \ Leased # {}

CanSend ==
    \/ rw = "send"
    \/ /\ rw = "poll"
       /\ \/ TakeOutputRet(s) # "EAGAIN" \/ TerminalAnswer(s, p) # "EAGAIN"
          \/ Watchful /\ DmaStopped

CanTearDown ==
    \/ rw = "drain"
    \/ rw = "join" /\ sched \in {"none", "done"}
    \/ rw = "wait" /\ prod = "exited"

\* The counter runs, threads that can go on do, a send ends one way or another, and
\* a cancelled buffer wakes the producer.
Fairness ==
    /\ WF_vars(Tick)
    /\ <>[]CanSchedule => []<><<Scheduler>>_vars
    /\ <>[]CanProduce => []<><<Producer \/ ProdAcquireFails>>_vars
    /\ <>[]CanSend => []<><<Sender \/ SendFails>>_vars
    /\ <>[]CanTearDown => []<><<Teardown>>_vars

LiveSpec == Spec /\ Fairness

-----------------------------------------------------------------------------
\* The state has its type.
TypeOK ==
    /\ s \in Session
    /\ sched \in {"none", "start", "loop", "done"}
    /\ prod \in {"none", "check", "acquire", "stuck", "feed", "fail", "exited"}
    /\ rw \in {"open", "poll", "send", "idle", "join", "wait", "drain", "closed"}
    /\ tuned \in Targets \cup {0}

\* Every sample of a visit that is delivered as COMPLETE was captured while the
\* radio was tuned to the target of the visit, however late the scheduler, the
\* recall and the blocks were.
ValidTuned ==
    \A i \in DOMAIN s.q.visits :
        LET v == s.q.visits[i]
        IN  v.result = "COMPLETE" =>
              \A n \in v.start .. v.end - 1 : n < clock /\ lo[n + 1] = s.ledger[v.id].target

\* The radio is restored only when no visit is being captured, and what is in
\* the queue and the ledger then stays accounted for until it is output.
RestoredAfterCapture ==
    s.released =>
        /\ s.stopping /\ s.active = 0 /\ CaptureComplete(s.q)
        /\ \A i \in s.output_index + 1 .. Planned(s) : s.ledger[i].closed

\* The radio was where the records say, and is given back after the last capture.
RadioAttested == ValidTuned /\ RestoredAfterCapture

\* The visits of the queue are the queued entries of the ledger that are not
\* output yet, in the same order: take_output never finds another visit than
\* the one whose turn it is (-EILSEQ).
LedgerMatchesQueue ==
    LET open == {i \in s.output_index + 1 .. Planned(s) : s.ledger[i].queued}
    IN  /\ {s.q.visits[i].id : i \in DOMAIN s.q.visits} = open
        /\ \A i, j \in DOMAIN s.q.visits : i < j => s.q.visits[i].id < s.q.visits[j].id

\* What the scan sends can be read: however the scan ends (completed, stopped,
\* cancelled or failed, within a visit or before the first), the encoder of every
\* visit and of the terminal record accepts what the session made of it, the
\* decoder gets it back, and the terminal record accounts for every visit planned.
\* A record the encoder refuses would end READSCAN without the terminal record.
RecordsReadable ==
    /\ s.output_inflight =>
          LET w == EncodeOutput(s)
          IN  w.ret = "OK" /\ VisitDecode(w.value, Dwell) = Good(OutputRecord(s))
    /\ TerminalRet(s) \in {"OK", "EALREADY"} =>
          LET w == TerminalEncode(TerminalRecord(s))
          IN  w.ret = "OK" /\ TerminalDecode(w.value) = Good(TerminalRecord(s))

\* While the producer holds a block the buffer it comes from and the session it
\* is fed to exist.
HeldBlockHasBuffer == hand # NoBlock => rw \notin {"drain", "closed"}

\* The session the three threads share is sound: typed, its ledger and its queue
\* agree, its records can be sent, and nobody feeds it when it is gone.
SessionSound == TypeOK /\ LedgerMatchesQueue /\ RecordsReadable /\ HeldBlockHasBuffer

\* READSCAN ends: with the terminal record or with an error, whatever fails,
\* and also when the DMA stops for good.
ScanEnds == (rw \in {"poll", "send"}) ~> (rw \notin {"poll", "send"})

\* Once the client has left, scheduler, producer and device thread wait for each
\* other no longer than it takes: the device is closed.
TeardownEnds == (rw = "join") ~> (rw = "closed")

\* Nobody waits for ever, neither for the scan nor for its teardown.
CaptureEnds == ScanEnds /\ TeardownEnds
=============================================================================
