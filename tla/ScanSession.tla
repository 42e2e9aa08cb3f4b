----------------------------- MODULE ScanSession -----------------------------
(***************************************************************************)
(* The session of an adaptive scan (iiod/spf-scan-session.c) with the      *)
(* radio it owns (iiod/spf-scan-radio.c): it plans visits in a ledger,     *)
(* tunes the radio, reserves room in the visit queue, feeds it the DMA     *)
(* blocks, outputs the visits in order, and restores the radio once it is  *)
(* stopping and no visit is being captured.                                *)
(*                                                                         *)
(* A function F is an operator that yields [s |-> session afterwards,      *)
(* ret |-> what it returns].  The policy is external here (ScanPolicy      *)
(* models it): what it selects is a parameter.  A visit is named by its    *)
(* place in the ledger, from 1; gain and diagnostics are left out, and so  *)
(* is the 32 to 64 bit extension of counters.  A restoration of the radio  *)
(* is the counter it was made at, or Unrestored.                           *)
(***************************************************************************)
EXTENDS VisitQueue, ScanWire

CONSTANTS
    Targets,            \* setup.targets
    Dwell,              \* ticks of setup.dwell_ms
    Transition,         \* ticks of setup.transition_budget_ms
    LedgerCapacity      \* entries of the ledger that are not output yet

ASSUME SessionAssumption ==
    /\ 0 \notin Targets
    /\ Dwell \in 1 .. MaximumSamples
    /\ {Transition, LedgerCapacity} \subseteq Nat \ {0}

\* struct ledger_entry
Entry == [target : Targets, selection : Nat, before : Nat, after : Nat, valid_start : Nat, valid_end : Nat,
          admission : Result, closed : BOOLEAN, queued : BOOLEAN]

\* struct spf_scan_session and struct spf_scan_radio; 0 is no visit and no
\* target.  radio->released is session->released.
Session == [q                 : Queue,
            continuous        : BOOLEAN,
            ledger            : Seq(Entry),
            active            : Nat,
            output_index      : Nat,
            delivered         : Nat,
            skipped           : Nat,
            invalid           : Nat,
            cancelled         : Nat,
            output_inflight   : BOOLEAN,
            inflight_result   : Result,
            stopping          : BOOLEAN,
            failed            : BOOLEAN,
            cancelled_session : BOOLEAN,
            released          : BOOLEAN,
            terminal_taken    : BOOLEAN,
            current_profile   : Targets \cup {0},
            latest_counter    : Nat,
            final_counter     : Nat,
            restore_before    : Nat,
            error             : {-1, 0},
            faulted           : BOOLEAN]

SessionInit(continuous) ==
    [q |-> QueueInit(continuous), continuous |-> continuous, ledger |-> << >>,
     active |-> 0, output_index |-> 0, delivered |-> 0, skipped |-> 0, invalid |-> 0,
     cancelled |-> 0, output_inflight |-> FALSE, inflight_result |-> "ADMITTED",
     stopping |-> FALSE, failed |-> FALSE, cancelled_session |-> FALSE,
     released |-> FALSE, terminal_taken |-> FALSE, current_profile |-> 0,
     latest_counter |-> 0, final_counter |-> 0, restore_before |-> 0, error |-> 0,
     faulted |-> FALSE]

\* Op of the value of e: e is worked out once, wherever Op uses it.
Apply(Op(_), e) == CHOOSE r \in {Op(x) : x \in {e}} : TRUE

Unrestored == -1
Later(a, b) == IF a > b THEN a ELSE b
Did(s, ret) == [s |-> s, ret |-> ret]
Planned(s) == Len(s.ledger)
Oldest(s) == s.ledger[s.output_index + 1]

-----------------------------------------------------------------------------
(* Ends of a session *)

\* close_active: the retune or the end of the scan came at the counter.
CloseActive(s, counter) ==
    LET entry == s.ledger[s.active]
        closing == entry.queued /\ ~entry.closed
        ret == IF s.active = 0 THEN "OK"
               ELSE IF entry.closed THEN "EALREADY"
               ELSE IF closing THEN CloseWindowRet(s.q, s.active) ELSE "OK"
    IN  IF s.active = 0 \/ ret # "OK" THEN Did(s, ret)
        ELSE Did([s EXCEPT !.q = IF closing THEN CloseWindow(@, s.active, counter) ELSE @,
                           !.ledger[s.active].closed = TRUE,
                           !.active = 0], "OK")

\* What maybe_release makes of the answer of spf_scan_radio_release.
Release(s, restored) ==
    IF restored = Unrestored
    THEN Did([s EXCEPT !.failed = TRUE, !.faulted = TRUE, !.error = -1], "ERESTORE")
    ELSE Did([s EXCEPT !.released = TRUE, !.restore_before = restored,
                       !.latest_counter = Later(@, restored)], "OK")

\* maybe_release with spf_scan_radio_release, which may be tried again
MaybeRelease(s, restored) ==
    IF ~s.stopping \/ s.released \/ ~CaptureComplete(s.q) THEN Did(s, "OK")
    ELSE Release(s, restored)

\* Mutant: a session that is stopping already keeps what it waits for.
FailSessionGently(s, counter, restored) ==
    LET closed == CloseActive(s, counter).s
        halted ==
            IF s.stopping THEN s
            ELSE [closed EXCEPT
                    !.q = Cancel(@),
                    !.ledger = [i \in DOMAIN @ |->
                        IF i > s.output_index THEN [@[i] EXCEPT !.closed = TRUE] ELSE @[i]],
                    !.stopping = TRUE, !.final_counter = counter]
        failing == [halted EXCEPT !.failed = TRUE, !.error = -1, !.latest_counter = Later(@, counter)]
    IN  Apply(LAMBDA t : MaybeRelease(t, restored).s, failing)

\* fail_session_reason: a session that waits for its last block gives it up.
FailSession(s, counter, restored) ==
    LET closed == CloseActive(s, counter).s
        halted ==
            IF s.stopping THEN s
            ELSE [closed EXCEPT
                    !.ledger = [i \in DOMAIN @ |->
                        IF i > s.output_index THEN [@[i] EXCEPT !.closed = TRUE] ELSE @[i]],
                    !.stopping = TRUE, !.final_counter = counter]
        failing == [halted EXCEPT !.q = Cancel(@), !.failed = TRUE, !.error = -1,
                                  !.latest_counter = Later(@, counter)]
    IN  Apply(LAMBDA t : MaybeRelease(t, restored).s, failing)

Failed(s, counter, restored, ret) ==
    Did(Apply(LAMBDA t : FailSession(t, counter, restored), s), ret)

\* spf_scan_session_fail, spf_scan_session_fail_stage
Fail(s, counter, restored) ==
    IF s.released THEN s ELSE FailSession(s, counter, restored)

\* spf_scan_session_stop
Stop(s, counter, restored) ==
    LET final == Later(counter, s.latest_counter)
        closed == CloseActive(s, final)
    IN  IF s.stopping
        THEN IF s.continuous THEN MaybeRelease(s, restored) ELSE Did(s, "EINVAL")
        ELSE IF closed.ret # "OK" THEN Failed(s, final, restored, closed.ret)
        ELSE Apply(LAMBDA t : MaybeRelease(t, restored),
                   [closed.s EXCEPT !.stopping = TRUE, !.final_counter = final,
                                     !.latest_counter = final])

\* spf_scan_session_cancel
CancelSession(s, counter, restored) ==
    LET closed == CloseActive(s, counter)
        cancelled(t) == [t EXCEPT !.q = Cancel(@), !.cancelled_session = TRUE, !.error = -1]
    IN  IF s.stopping
        THEN IF ~s.continuous THEN Did(s, "EINVAL")
             ELSE IF s.released THEN Did(s, "OK")
             ELSE Apply(LAMBDA t : MaybeRelease(t, restored), cancelled(s))
        ELSE IF closed.ret # "OK" THEN Failed(s, counter, restored, closed.ret)
        ELSE Apply(LAMBDA t : MaybeRelease(t, restored),
                   [cancelled(closed.s) EXCEPT !.stopping = TRUE, !.final_counter = counter,
                                               !.latest_counter = Later(@, counter)])

-----------------------------------------------------------------------------
(* Planning *)

\* spf_scan_session_rebase, up to the new policy
Rebase(s, counter, snapshot, restored) ==
    IF s.stopping \/ s.released \/ s.ledger # << >> \/ s.active # 0 \/ s.output_inflight
    THEN Did(s, "EBUSY")
    ELSE IF ~snapshot \/ s.faulted
    THEN Failed([s EXCEPT !.faulted = TRUE], counter, restored, "ESNAPSHOT")
    ELSE Did([s EXCEPT !.latest_counter = counter], "OK")

NewEntry(t, now, after) ==
    [target |-> t, selection |-> now, before |-> now, after |-> after, valid_start |-> 0, valid_end |-> 0,
     admission |-> "ADMITTED", closed |-> FALSE, queued |-> FALSE]

\* make_failed_entry_coherent, of the entry just added
Coherent(s, counter, queued) ==
    [s EXCEPT !.ledger[Planned(s)] =
        [@ EXCEPT !.admission = IF queued THEN @ ELSE "CANCELLED", !.queued = queued,
                  !.before = counter, !.after = counter, !.valid_start = counter, !.valid_end = counter]]

\* Mutant: the window opens while the radio is still being tuned.
ValidStartAtOnce(s, now, before, after) == now

\* Where the window opens: the transition budget after the selection, or after
\* a recall that was late; a continuous scan waits for it after every recall.
ValidStart(s, now, before, after) ==
    LET transition == IF before = after /\ ~s.continuous THEN 0 ELSE Transition
        soonest == now + transition
    IN  IF s.continuous \/ after > soonest THEN Later(soonest, after + transition)
        ELSE soonest

\* spf_visit_queue_reserve and bind of the visit whose window is known.
Admit(s, now, start, after, restored) ==
    LET id == Planned(s)
        ret == ReserveRet(s.q, id, Dwell, now)
        admission == ReserveResult(s.q, Dwell, now)
        reserved ==
            [s EXCEPT !.q = Reserve(@, id, Dwell, now),
                      !.ledger[id] = [@ EXCEPT !.admission = admission,
                                               !.queued = admission = "ADMITTED",
                                               !.valid_start = start,
                                               !.valid_end = start + Dwell]]
        active(t) == [t EXCEPT !.active = id, !.latest_counter = Later(@, after)]
    IN  IF ret # "OK" THEN Failed(Coherent(s, now, FALSE), now, restored, ret)
        ELSE IF admission # "ADMITTED"
        THEN IF s.continuous
             THEN Failed([reserved EXCEPT !.ledger[id].closed = TRUE], after, restored,
                         "ENOSPC")
             ELSE Did(active(reserved), "OK")
        ELSE IF BindRet(reserved.q, id, start) # "OK"
        THEN Failed(Coherent(reserved, now, TRUE), after, restored, "EBIND")
        ELSE Did(active([reserved EXCEPT !.q = Bind(@, id, start)]), "OK")

\* spf_scan_session_schedule: select is the answer of the policy, t the target it
\* names; the recall, if it is needed, takes the given ticks or fails, and the
\* policy refuses (-ENODATA) a window that ends after the deadline.
Schedule(s, now, select, t, recall, ticks, deadline, restored) ==
    LET closed == CloseActive(s, now)
        tuned == s.current_profile = t
        after == IF tuned THEN now ELSE now + ticks
        planned == [closed.s EXCEPT !.ledger = Append(@, NewEntry(t, now, after))]
        recalled == [planned EXCEPT !.current_profile = t]
        start == ValidStart(s, now, now, after)
    IN  IF s.stopping \/ s.failed THEN Did(s, "EINVAL")
        ELSE IF closed.ret # "OK" THEN Failed(s, now, restored, closed.ret)
        ELSE IF select # "OK"
        THEN IF select = "ETIME" \/ s.continuous
             THEN Failed(closed.s, now, restored, select)
             ELSE Did(closed.s, select)
        ELSE IF Planned(s) - s.output_index >= LedgerCapacity
        THEN Failed(closed.s, now, restored, "EOVERFLOW")
        ELSE IF ~tuned /\ (~recall \/ s.faulted)
        THEN Failed([Coherent(planned, now, FALSE) EXCEPT !.faulted = TRUE], now, restored,
                    "ERECALL")
        ELSE IF start + Dwell > deadline
        THEN IF Planned(s) > 0 /\ ~s.continuous
             THEN Did([closed.s EXCEPT !.current_profile = t,
                                       !.latest_counter = Later(@, after)], "ENODATA")
             ELSE Failed(Coherent(recalled, now, FALSE), after, restored, "ETIME")
        ELSE Apply(LAMBDA u : Admit(u, now, start, after, restored), recalled)

-----------------------------------------------------------------------------
(* Blocks *)

\* spf_scan_session_feed: the block goes to the queue, and the session follows what
\* became of its visits.
FeedSession(s, token, first, failed, restored) ==
    LET ret == FeedRet(s.q, token, first)
        end == first + BlockSamples
        missing == s.q.last_source_end # 0 /\ first > s.q.last_source_end
        fed == [s EXCEPT !.q = Apply(LAMBDA q : Reap(q, failed), Feed(@, token, first)),
                         !.latest_counter = Later(@, end)]
        after(t) ==
            IF failed \cap t.q.owned # {} THEN Failed(t, end, restored, "ERELEASE")
            ELSE IF s.continuous /\ ~s.stopping /\ missing THEN Failed(t, end, restored, "OK")
            ELSE MaybeRelease(t, restored)
    IN  IF s.released THEN Did(s, "EINVAL")
        ELSE IF ret # "OK" THEN Failed(s, first, restored, ret)
        ELSE Apply(after, fed)

-----------------------------------------------------------------------------
(* Output *)

\* make_record; one sample of one receiver is four bytes.
MakeRecord(s, i, result) ==
    LET e == s.ledger[i]
    IN  [session |-> 1, visit |-> i, selection_counter |-> e.selection,
         transition_before |-> e.before, transition_after |-> e.after,
         valid_start |-> e.valid_start, valid_end |-> e.valid_end,
         iq_bytes |-> IF result = "COMPLETE" THEN (e.valid_end - e.valid_start) * 4 ELSE 0,
         target |-> e.target, result |-> result]

\* Mutant: a visit of a continuous scan that ended early has the planned end.
OutputRecordPlanned(s) == MakeRecord(s, s.output_index + 1, s.inflight_result)

\* The record of the output in flight: a continuous scan tells what was captured.
OutputRecord(s) ==
    LET record == MakeRecord(s, s.output_index + 1, s.inflight_result)
        view == s.q.visits[1]
    IN  IF ~s.continuous THEN record
        ELSE IF ~Oldest(s).queued THEN [record EXCEPT !.valid_end = record.valid_start]
        ELSE [record EXCEPT !.valid_end = view.end, !.iq_bytes = (view.end - view.start) * 4]

Version(s) == IF s.continuous THEN ContinuousVersion ELSE ProtocolVersion
EncodeOutput(s) == VisitEncode(OutputRecord(s), Version(s), Dwell)

\* spf_scan_session_take_output.  The result, as what the queue shows.
TakeOutputRet(s) ==
    IF s.output_inflight THEN "EBUSY"
    ELSE IF s.output_index >= Planned(s) THEN "EAGAIN"
    ELSE IF ~Oldest(s).closed THEN "EAGAIN"
    ELSE IF Oldest(s).queued THEN TakeRet(s.q) ELSE "OK"

TakeOutput(s, restored) ==
    IF ~Oldest(s).queued
    THEN Did([s EXCEPT !.output_inflight = TRUE, !.inflight_result = Oldest(s).admission], "OK")
    ELSE IF s.q.visits[1].id # s.output_index + 1
    THEN Failed([s EXCEPT !.q = Take(@)], s.latest_counter, restored, "EILSEQ")
    ELSE Did([s EXCEPT !.q = Take(@), !.output_inflight = TRUE,
                       !.inflight_result = s.q.visits[1].result], "OK")

\* finish_output: the output was transported, or not.
FinishOutput(s, transported, failed, restored) ==
    LET queued == Oldest(s).queued
        result == IF transported THEN s.inflight_result ELSE "CANCELLED"
        sent == [s EXCEPT !.q = IF queued
                                THEN Reap(CompleteSend(@, s.output_index + 1), failed)
                                ELSE @]
        one(b) == IF b THEN 1 ELSE 0
        counted(u) ==
            [u EXCEPT
                !.delivered = @ + one(result = "COMPLETE"),
                !.skipped = @ + one(result \in {"SKIP_CAPACITY", "SKIP_AGE"}),
                !.invalid = @ + one(result = "INVALID_GAP"),
                !.cancelled = @ + one(result \in {"ADMITTED", "CANCELLED"}),
                !.output_inflight = FALSE,
                !.output_index = @ + 1]
        after(u) ==
            IF queued /\ failed \cap u.q.owned # {}
            THEN Failed(u, s.latest_counter, restored, "ERELEASE")
            ELSE IF ~transported THEN Failed(counted(u), s.latest_counter, restored, "EIO")
            ELSE Apply(LAMBDA t : MaybeRelease(t, restored), counted(u))
    IN  Apply(after, sent)

\* spf_scan_session_terminal
TerminalRet(s) ==
    IF \/ ~s.stopping \/ ~s.released \/ s.output_inflight \/ s.output_index # Planned(s)
       \/ s.q.visits # << >> \/ s.q.leased_blocks # 0 \/ s.q.reserved_blocks # 0
       \/ s.q.reserved_bytes # 0
    THEN "EAGAIN"
    ELSE IF s.terminal_taken THEN "EALREADY" ELSE "OK"

TerminalRecord(s) ==
    [session |-> 1, final_counter |-> s.final_counter, restore_before |-> s.restore_before,
     restore_after |-> s.restore_before, planned |-> Planned(s), delivered |-> s.delivered,
     skipped |-> s.skipped, invalid |-> s.invalid, cancelled |-> s.cancelled,
     state |-> IF s.failed THEN "FAILED"
               ELSE IF s.cancelled_session THEN "CANCELLED" ELSE "COMPLETED",
     error |-> IF s.failed \/ s.cancelled_session THEN s.error ELSE 0]

Terminal(s) == [s EXCEPT !.terminal_taken = TRUE]
=============================================================================
