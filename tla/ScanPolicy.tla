----------------------------- MODULE ScanPolicy -----------------------------
(***************************************************************************)
(* The policy of a scan (iiod/spf-scan-policy.c): at the end of a visit it *)
(* selects the target to visit next, by lottery among the targets that     *)
(* leave every other one reachable before its revisit deadline (finite     *)
(* scans, of fixed or of random dwell) or in turn (continuous scans).      *)
(* Clients send feedback on finished visits; every accepted one waits for  *)
(* the next selection and is answered by exactly one terminal receipt.     *)
(*                                                                         *)
(* The calls are serialized by scan_lock, and the scan session makes a     *)
(* selection and its commit under one hold of it, so nothing but a stop    *)
(* comes between the two.  Counters are ticks from the start of the scan.  *)
(* The weights of the lottery are left out: every baseline is at least 1   *)
(* and a boost never falls below 1, so the draw can name every eligible    *)
(* target and no other.  Feedback comes in the record of ScanWire, as the  *)
(* client's library encodes it, and the receipt goes back in one.          *)
(***************************************************************************)
EXTENDS ScanWire, FiniteSets

CONSTANTS
    Modes,          \* kinds of scan: subset of {"fixed", "random", "continuous"}
    TargetCount,    \* config.targets
    Duration,       \* ticks of duration_ms
    Dwell,          \* ticks of dwell_ms
    ShortDwell,     \* ticks of 120 ms, the dwell on a quiet target
    Transition,     \* ticks of transition_budget_ms
    Revisit,        \* ticks of maximum_revisit_ms
    Age,            \* ticks of feedback_age_ms
    Delay,          \* ticks of application_delay_ms
    AckCapacity,    \* SPF_SCAN_ACK_CAPACITY
    Window,         \* 64: sequence numbers remembered below the highest
    History,        \* SPF_SCAN_CONTINUOUS_HISTORY
    MaxSequence,    \* bound: sequence numbers of feedback
    MaxLate,        \* bound: ticks by which a snapshot or a recall is late
    Horizon         \* bound: last counter of a continuous scan

\* What spf_scan_policy_validate demands of a configuration.
ValidConfig ==
    /\ Modes \subseteq {"fixed", "random", "continuous"}
    /\ {TargetCount, Duration, Dwell, ShortDwell, Transition, Revisit, Age,
        Delay, AckCapacity, Window, History, MaxSequence} \subseteq Nat \ {0}
    /\ {MaxLate, Horizon} \subseteq Nat
    /\ TargetCount <= WireTargets /\ ShortDwell <= Dwell
    /\ TargetCount * (Dwell + Transition) <= Revisit
    /\ Dwell + Transition <= Delay
    /\ Dwell + Transition <= Duration

ASSUME ConfigAssumption == ValidConfig

VARIABLES
    mode,               \* kind of scan
    visits,             \* table of visits, by visit % max_visits
    visit_count,
    last_start,         \* last_start[t]: start of the last visit to t
    last_now,
    active,             \* active[t]: the last feedback on t said ACTIVE
    channel_sequence,   \* highest sequence accepted for each target
    highest_sequence,
    seen,               \* remembered sequence numbers
    pending,            \* pending[t]: feedback waiting for a selection
    acks,               \* terminal receipts to be taken
    selection,          \* target, counter and dwell selected
    selected,
    stopped,
    output_index,       \* session: first visit not yet output
    accepted,           \* history: times each sequence number was accepted
    taken,              \* history: receipts taken for each sequence number
    ontime              \* history: no snapshot or recall was late so far

schedule == <<mode, visits, visit_count, last_start, selection, selected, ontime>>
mailbox == <<channel_sequence, highest_sequence, seen, accepted>>
vars == <<schedule, mailbox, last_now, active, pending, acks, stopped,
          output_index, taken>>

Targets == 0 .. TargetCount - 1
Sequence == 1 .. MaxSequence
Outcome == {"UNKNOWN", "ACTIVE", "QUIET"}
NoVisit == [start |-> 0, end |-> 0, target |-> 0,
            finished |-> FALSE, intact |-> FALSE]
NoFeedback == [sequence |-> 0, valid_end |-> 0, received |-> 0,
               outcome |-> "UNKNOWN"]
NoSelection == [target |-> 0, counter |-> 0, dwell |-> 0]

-----------------------------------------------------------------------------
(* Limits of a scan *)

ScanEnd == IF mode = "continuous" THEN Horizon ELSE Duration

MinDwell == IF mode = "random" THEN ShortDwell ELSE Dwell

\* Entries of the table of visits.
MaxVisits(kind) ==
    CASE kind = "continuous" -> History
      [] kind = "random"     -> Duration \div ShortDwell + 1
      [] kind = "fixed"      -> Duration \div Dwell + 1

Visit(v) == visits[v % MaxVisits(mode)]

\* The end of the last visit, at which the scheduler asks for the next one.
Boundary == IF visit_count = 0 THEN 0 ELSE Visit(visit_count - 1).end

Init ==
    /\ mode \in Modes
    /\ visits = [i \in 0 .. MaxVisits(mode) - 1 |-> NoVisit]
    /\ visit_count = 0
    /\ last_start = [t \in Targets |-> 0]
    /\ last_now = 0
    /\ active = [t \in Targets |-> FALSE]
    /\ channel_sequence = [t \in Targets |-> 0]
    /\ highest_sequence = 0
    /\ seen = {}
    /\ pending = [t \in Targets |-> NoFeedback]
    /\ acks = <<>>
    /\ selection = NoSelection
    /\ selected = FALSE
    /\ stopped = FALSE
    /\ output_index = 0
    /\ accepted = [s \in Sequence |-> 0]
    /\ taken = [s \in Sequence |-> 0]
    /\ ontime = TRUE

-----------------------------------------------------------------------------
(* Receipts *)

Occupied(t) == pending[t].sequence # 0

\* terminal_ack: applied feedback counts from the visit that is selected now.
Ack(t, result) ==
    [sequence |-> pending[t].sequence, target |-> t, result |-> result,
     first_visit |-> IF result = "APPLIED" THEN visit_count ELSE NoFirstVisit]

\* The i-th target of T in their order.
Nth(T, i) == CHOOSE t \in T : Cardinality({u \in T : u <= t}) = i

\* The receipts that answer the pending feedback of the targets in T, in the
\* order of the targets.
TerminalAcks(T, result) ==
    [i \in 1 .. Cardinality(T) |-> Ack(Nth(T, i), result[Nth(T, i)])]

PendingTargets == {t \in Targets : Occupied(t)}

-----------------------------------------------------------------------------
(* Selection *)

Deadline(t) == last_start[t] + Revisit

\* Mutant: the other targets' deadlines are not looked at.
FeasibleAlone(candidate, now) == now + Transition <= Deadline(candidate)

\* Visiting the candidate now leaves the other targets, visited by increasing
\* deadline at the worst-case dwell and transition, in time.
Feasible(candidate, now) ==
    LET begin == now + Transition
        others == Targets \ {candidate}
        upTo(t) == {o \in others : Deadline(o) <= Deadline(t)}
    IN  /\ begin <= Deadline(candidate)
        /\ \A t \in others :
              begin + Cardinality(upTo(t)) * (Dwell + Transition) <= Deadline(t)

Turn == visit_count % TargetCount

Eligible(now) ==
    IF mode = "continuous"
    THEN {t \in {Turn} : now + Transition <= Deadline(t)}
    ELSE {t \in Targets : Feasible(t, now)}

\* The answer of spf_scan_policy_select, up to its draw.  A continuous scan has
\* no end but that of the counter (-EOVERFLOW), here the Horizon.
SelectResult(now) ==
    IF stopped THEN "ESHUTDOWN"
    ELSE IF selected THEN "EBUSY"
    ELSE IF now < last_now \/ now < Boundary THEN "ERANGE"
    ELSE IF ScanEnd - now < MinDwell + Transition THEN "ENODATA"
    ELSE IF mode # "continuous" /\ visit_count >= MaxVisits(mode) THEN "EOVERFLOW"
    ELSE IF Eligible(now) = {} THEN "ETIME"
    ELSE "OK"

\* What a selection makes of the feedback pending on t.
Application(t, now) ==
    IF now - pending[t].received > Delay \/ now - pending[t].valid_end > Age
    THEN "EXPIRED" ELSE "APPLIED"

Activity(now) ==
    [t \in Targets |->
        IF /\ mode = "random" /\ Occupied(t)
           /\ Application(t, now) = "APPLIED"
           /\ pending[t].outcome # "UNKNOWN"
        THEN pending[t].outcome = "ACTIVE"
        ELSE active[t]]

\* A selection answers all pending feedback.
ConsumeFeedback(now) ==
    /\ active' = Activity(now)
    /\ pending' = [t \in Targets |-> NoFeedback]
    /\ acks' = acks \o TerminalAcks(PendingTargets,
                                    [t \in Targets |-> Application(t, now)])

SelectedDwell(t) == IF mode = "random" /\ ~active'[t] THEN ShortDwell ELSE Dwell

\* spf_scan_policy_select draws target t, which still fits the scan.
Select(now, t) ==
    /\ SelectResult(now) = "OK"
    /\ t \in Eligible(now)
    /\ ConsumeFeedback(now)
    /\ ScanEnd - now >= SelectedDwell(t) + Transition
    /\ selection' = [target |-> t, counter |-> now, dwell |-> SelectedDwell(t)]
    /\ selected' = TRUE
    /\ last_now' = now
    /\ ontime' = (ontime /\ now = Boundary)
    /\ UNCHANGED <<mailbox, mode, visits, visit_count, last_start, stopped,
                   output_index, taken>>

\* The dwell on the drawn target does not fit any more: -ENODATA, after the
\* feedback has been applied, and the scheduler stops the scan.
SelectExhausted(now, t) ==
    /\ SelectResult(now) = "OK"
    /\ t \in Eligible(now)
    /\ ConsumeFeedback(now)
    /\ ScanEnd - now < SelectedDwell(t) + Transition
    /\ stopped' = TRUE
    /\ UNCHANGED <<schedule, mailbox, last_now, output_index, taken>>

\* A refused commit changes nothing and the session stops the policy.  What
\* was selected is of no use once it is committed, and is cleared here.
Commit(start) ==
    LET t == selection.target
    IN  /\ selected /\ ~stopped
        /\ start >= selection.counter
        /\ ScanEnd - start >= selection.dwell
        /\ mode = "continuous" => start - last_start[t] <= Revisit
        /\ visits' = [visits EXCEPT ![visit_count % MaxVisits(mode)] =
                        [start |-> start, end |-> start + selection.dwell,
                         target |-> t, finished |-> FALSE, intact |-> FALSE]]
        /\ visit_count' = visit_count + 1
        /\ last_start' = [last_start EXCEPT ![t] = start]
        /\ selected' = FALSE
        /\ selection' = NoSelection
        /\ last_now' = start
        /\ ontime' = (ontime /\ start <= selection.counter + Transition)
        /\ UNCHANGED <<mailbox, mode, active, pending, acks, stopped,
                       output_index, taken>>

\* The starts the scan session commits: a target that is tuned already needs
\* no transition, any other starts a transition after the selection or after
\* a recall that completed late.
CommitStarts ==
    LET soonest == selection.counter + Transition
        tuned == /\ mode # "continuous" /\ visit_count > 0
                 /\ Visit(visit_count - 1).target = selection.target
    IN  soonest .. soonest + MaxLate
        \cup IF tuned THEN {selection.counter} ELSE {}

\* The session's ledger of visits not yet output, at most 66 of a continuous
\* scan, is shorter than the policy's table of 128; a full one fails the scan.
LedgerRoom == mode = "continuous" => visit_count - output_index < History

\* A visit whose output has ended.  Outputs are taken in order, and the last
\* visit's when the next selection or the stop has closed it.
FinishVisit(intact) ==
    LET v == output_index
    IN  /\ v < visit_count
        /\ stopped \/ (~selected /\ v + 1 < visit_count)
        /\ visit_count - v <= MaxVisits(mode)
        /\ ~Visit(v).finished
        /\ visits' = [visits EXCEPT ![v % MaxVisits(mode)].finished = TRUE,
                                    ![v % MaxVisits(mode)].intact = intact]
        /\ output_index' = v + 1
        /\ UNCHANGED <<mailbox, mode, visit_count, last_start, selection, selected,
                       ontime, last_now, active, pending, acks, stopped, taken>>

-----------------------------------------------------------------------------
(* Feedback *)

\* Mutant: a new highest number forgets the ones below it.
RememberedHighest(high, numbers) == {s \in numbers : s = high}

Remembered(high, numbers) == {s \in numbers : high - s < Window}

Session == 1                \* config.session and generation
Digest == 1                 \* config.analysis_digest

\* Mutant: the receipts of the pending feedback have no room reserved.
MailboxFullUnreserved == Len(acks) >= AckCapacity

\* Admission reserves the room of a terminal receipt.
MailboxFull == Len(acks) + Cardinality(PendingTargets) >= AckCapacity

FeedbackResult(f, now) ==
    IF stopped \/ mode = "continuous" THEN "REJECTED"
    ELSE IF f.session # Session THEN "WRONG_SESSION"
    ELSE IF f.target >= TargetCount \/ f.visit >= visit_count \/ f.digest # Digest
    THEN "REJECTED"
    ELSE LET v == visits[f.visit] IN
         IF \/ ~v.finished \/ ~v.intact \/ f.target # v.target
            \/ f.valid_start # v.start \/ f.valid_end # v.end
            \/ now < v.end \/ now < last_now
         THEN "REJECTED"
         ELSE IF now - v.end > Age THEN "EXPIRED"
         ELSE IF highest_sequence - f.sequence >= Window THEN "EXPIRED"
         ELSE IF f.sequence \in seen THEN "DUPLICATE"
         ELSE IF f.sequence <= channel_sequence[f.target] THEN "SUPERSEDED"
         ELSE IF MailboxFull THEN "MAILBOX_FULL"
         ELSE "ACCEPTED"

\* Any other answer leaves the policy as it is.  The lock keeps feedback from
\* between a selection and its commit (Next).
Feedback(f, now) ==
    LET t == f.target
        high == IF f.sequence > highest_sequence
                THEN f.sequence ELSE highest_sequence
    IN  /\ FeedbackResult(f, now) = "ACCEPTED"
        /\ acks' = IF Occupied(t) THEN Append(acks, Ack(t, "SUPERSEDED")) ELSE acks
        /\ highest_sequence' = high
        /\ seen' = Remembered(high, seen \cup {f.sequence})
        /\ channel_sequence' = [channel_sequence EXCEPT ![t] = f.sequence]
        /\ pending' = [pending EXCEPT ![t] =
                         [sequence |-> f.sequence, valid_end |-> visits[f.visit].end,
                          received |-> now, outcome |-> f.outcome]]
        /\ last_now' = now
        /\ accepted' = [accepted EXCEPT ![f.sequence] = @ + 1]
        /\ UNCHANGED <<schedule, active, stopped, output_index, taken>>

\* iiod_buffer_metadata_scan_feedback takes the time from the session's latest
\* counter, which is between the last call of the policy and the present.
ScanFeedback(f) == \E now \in last_now .. Boundary + MaxLate : Feedback(f, now)

\* submit_adaptive_scan_feedback
SubmitFeedback(w) ==
    \E r \in {FeedbackDecode(w)} : r.ret = "OK" /\ ScanFeedback(r.value)

\* spf_scan_policy_take_ack
OldestAck == Head(acks)

\* read_adaptive_scan_ack: the receipt has been taken when it is encoded, and one
\* that the encoder refused would be lost.
TakeAck ==
    /\ selected => stopped
    /\ acks # <<>>
    /\ acks' = Tail(acks)
    /\ LET w == AckEncode(OldestAck)
       IN  taken' = IF w.ret # "OK" THEN taken
                    ELSE [taken EXCEPT ![AckDecode(w.value).value.sequence] = @ + 1]
    /\ UNCHANGED <<schedule, mailbox, last_now, active, pending, stopped,
                   output_index>>

Stop ==
    /\ ~stopped
    /\ acks' = acks \o TerminalAcks(PendingTargets,
                                    [t \in Targets |-> "CANCELLED"])
    /\ pending' = [t \in Targets |-> NoFeedback]
    /\ stopped' = TRUE
    /\ UNCHANGED <<schedule, mailbox, last_now, active, output_index, taken>>

\* What clients send: feedback on a visit that was output to them, repeated or in
\* any order, naming any target.  Outside a scan of random dwell the outcome only
\* changes a weight; a continuous scan refuses all feedback.
FeedbackMessage(n, v, t, outcome) ==
    FeedbackEncode([session |-> Session, sequence |-> n, visit |-> v,
                    valid_start |-> visits[v].start, valid_end |-> visits[v].end,
                    target |-> t, outcome |-> outcome, digest |-> Digest]).value

Outcomes == IF mode = "random" THEN Outcome ELSE {"UNKNOWN"}

SnapshotTimes ==
    LET soonest == IF last_now > Boundary THEN last_now ELSE Boundary
    IN  soonest .. soonest + MaxLate

Next ==
    \/ \E now \in SnapshotTimes, t \in Targets : Select(now, t)
    \/ \E now \in SnapshotTimes, t \in Targets : SelectExhausted(now, t)
    \/ \E start \in CommitStarts : LedgerRoom /\ Commit(start)
    \/ \E intact \in BOOLEAN : FinishVisit(intact)
    \/ /\ ~selected /\ ~stopped
       /\ mode # "continuous"
       /\ \E n \in Sequence, v \in 0 .. output_index - 1, t \in Targets, o \in Outcomes :
             SubmitFeedback(FeedbackMessage(n, v, t, o))
    \/ TakeAck
    \/ Stop

Spec == Init /\ [][Next]_vars

-----------------------------------------------------------------------------
(* Properties *)

Counter == 0 .. Horizon + Duration + Dwell + MaxLate

\* Every field holds a value of its C type, within the bounds of the table.
TypeOK ==
    /\ mode \in Modes
    /\ visit_count \in Nat /\ output_index \in 0 .. visit_count
    /\ visits \in [0 .. MaxVisits(mode) - 1 ->
                    [start : Counter, end : Counter, target : Targets,
                     finished : BOOLEAN, intact : BOOLEAN]]
    /\ last_start \in [Targets -> Counter] /\ last_now \in Counter
    /\ active \in [Targets -> BOOLEAN]
    /\ channel_sequence \in [Targets -> 0 .. highest_sequence]
    /\ highest_sequence \in 0 .. MaxSequence
    /\ seen \subseteq {s \in Sequence : /\ s <= highest_sequence
                                        /\ highest_sequence - s < Window}
    /\ pending \in [Targets -> [sequence : 0 .. MaxSequence, valid_end : Counter,
                                 received : Counter, outcome : Outcome]]
    /\ selection \in [target : Targets, counter : Counter, dwell : 0 .. Dwell]
    /\ selected \in BOOLEAN /\ stopped \in BOOLEAN /\ ontime \in BOOLEAN
    /\ accepted \in [Sequence -> Nat] /\ taken \in [Sequence -> Nat]

\* While the scheduler asks at every boundary and every recall completes in its
\* budget, the lottery never paints itself into a corner: whatever it drew so
\* far, no deadline has been missed, and spf_scan_policy_select finds a target
\* that keeps all of them and has room in the table of visits, until the scan's
\* time is over.
FeasibleKept ==
    ontime /\ ~selected /\ ~stopped /\ last_now <= Boundary
        => /\ SelectResult(Boundary) \in {"OK", "ENODATA"}
           /\ \A t \in Targets : Boundary + Transition <= Deadline(t)

\* A feedback sequence number is accepted once, whichever target or visit a
\* repeated or delayed message names, though only the numbers in a window
\* below the highest are remembered.
NoReplay == \A s \in Sequence : accepted[s] <= 1

\* Every accepted feedback is pending, or waits in the receipts, or its receipt
\* was taken, exactly once, through supersession, expiry and stop; and the room
\* reserved on admission always holds the receipts that are still to come.
OneAckEach ==
    /\ \A s \in Sequence :
          accepted[s] = Cardinality({t \in Targets : pending[t].sequence = s})
                        + Cardinality({i \in DOMAIN acks : acks[i].sequence = s})
                        + taken[s]
    /\ Len(acks) + Cardinality(PendingTargets) <= AckCapacity
=============================================================================
