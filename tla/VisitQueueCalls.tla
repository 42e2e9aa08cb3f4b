-------------------------- MODULE VisitQueueCalls --------------------------
(***************************************************************************)
(* A visit queue under its owner: the acquisition owner serializes the     *)
(* calls with the session mutex, so that a behaviour is a sequence of      *)
(* calls, of the scheduler, the DMA producer and the transport in any      *)
(* order.  What a call that is refused leaves behind is not a step.        *)
(***************************************************************************)
EXTENDS VisitQueue

CONSTANT MaxVisits      \* bound: visits that are planned

VARIABLES
    q,                  \* the queue
    attested,           \* history: visits whose window was closed no earlier than its end
    destroyed           \* spf_visit_queue_destroy has freed it

vars == <<q, attested, destroyed>>

Init ==
    /\ \E partial \in BOOLEAN : q = QueueInit(partial)
    /\ attested = {}
    /\ destroyed = FALSE

Counter == 0 .. MaxCounter

\* The queue exists before and after the call.
Alive == ~destroyed /\ UNCHANGED destroyed

ReserveVisit(samples, now) ==
    LET id == q.last_reserved_id + 1
    IN  /\ Alive /\ id <= MaxVisits
        /\ ReserveRet(q, id, samples, now) = "OK"
        /\ q' = Reserve(q, id, samples, now) /\ UNCHANGED attested

BindVisit(start) ==
    /\ Alive /\ BindRet(q, q.last_reserved_id, start) = "OK"
    /\ q' = Bind(q, q.last_reserved_id, start) /\ UNCHANGED attested

FeedBlock(token, first) ==
    /\ Alive /\ FeedRet(q, token, first) = "OK"
    /\ q' = Feed(q, token, first) /\ UNCHANGED attested

CloseVisit(id, invalid) ==
    /\ Alive /\ CloseWindowRet(q, id) = "OK"
    /\ q' = CloseWindow(q, id, invalid)
    /\ LET v == q.visits[FirstNamed(q, id)]
       IN  attested' = IF ~v.closed /\ invalid >= v.end THEN attested \cup {id} ELSE attested

TakeVisit == Alive /\ TakeRet(q) = "OK" /\ q' = Take(q) /\ UNCHANGED attested

\* The transport sent the view, or gave up on it.
VisitSent(id) ==
    /\ Alive /\ CompleteSendRet(q, id) = "OK"
    /\ q' = CompleteSend(q, id) /\ UNCHANGED attested

ExpireVisits(now) ==
    /\ Alive /\ ExpireRet(q, now) \in {"OK", "ETIMEDOUT"}
    /\ q' = Expire(q, now) /\ UNCHANGED attested

CancelVisits == Alive /\ q' = Cancel(q) /\ UNCHANGED attested

ReapBlocks(failed) == Alive /\ q' = Reap(q, failed) /\ UNCHANGED attested

Destroy ==
    /\ ~destroyed /\ DestroyRet(q) = "OK"
    /\ destroyed' = TRUE
    /\ UNCHANGED <<q, attested>>

Next ==
    \/ \E samples \in 1 .. MaximumSamples, now \in Counter : ReserveVisit(samples, now)
    \/ \E start \in Counter : BindVisit(start)
    \/ \E token \in Token, first \in Counter : FeedBlock(token, first)
    \/ \E id \in 1 .. MaxVisits, invalid \in Counter : CloseVisit(id, invalid)
    \/ TakeVisit
    \/ \E id \in 1 .. MaxVisits : VisitSent(id)
    \/ \E now \in Counter : ExpireVisits(now)
    \/ CancelVisits
    \/ \E failed \in SUBSET Unreferenced(q) : ReapBlocks(failed)
    \/ Destroy

Spec == Init /\ [][Next]_vars

-----------------------------------------------------------------------------
\* The queue is a queue.
TypeOK == q \in Queue /\ attested \subseteq 1 .. MaxVisits /\ destroyed \in BOOLEAN

\* The counters of the queue are what its visits and blocks add up to: nothing
\* is released twice or forgotten, whichever way a visit ends.
Accounting ==
    LET I == DOMAIN q.visits
    IN  /\ q.reserved_blocks = Blocks(q, I)
        /\ q.reserved_bytes = Bytes(q, I)
        /\ q.leased_blocks = Cardinality(q.owned)
        /\ \A t \in Token :
             q.refs[t] = Slices(q, I, t) /\ (t \notin q.owned => q.refs[t] = 0)

\* The blocks visits hold and the ones they may still get leave the headroom to
\* the DMA, so that a block is never refused for want of a slot while the owner
\* reaps after every call.
HeadroomKept ==
    Cardinality(q.owned \ Unreferenced(q)) + q.reserved_blocks <= BlockCount - HeadroomBlocks

\* Whatever block comes next, the reservation of every visit accounts for it:
\* feed never meets what its comment calls explicit corruption.
ReservationSuffices ==
    \A token \in Token, first \in Counter :
        FeedRet(q, token, first) = "OK" => CorruptVisits(q, first) = {}

\* What the queue has promised of blocks and bytes is what it holds and can give.
BlocksAccounted == TypeOK /\ Accounting /\ HeadroomKept /\ ReservationSuffices

\* The slices tile the samples from .. to - 1, without a gap or an overlap.
Tiles(slices, from, to) ==
    IF slices = << >> THEN from = to
    ELSE /\ slices[1].from = from
         /\ slices[Len(slices)].to = to
         /\ \A s \in DOMAIN slices :
              /\ slices[s].from < slices[s].to
              /\ s > 1 => slices[s].from = slices[s - 1].to

\* A visit holds exactly the samples of the window it shows, without a gap: all
\* that were asked for if it is COMPLETE, the prefix that came before the gap or
\* the retune if partial visits are preserved; and the blocks the samples are in
\* are still leased.
WholeCapture ==
    \A i \in DOMAIN q.visits :
        LET v == q.visits[i]
            shown == IF v.result = "ADMITTED" THEN v.next ELSE v.end
        IN  /\ \A s \in DOMAIN v.slices : v.slices[s].token \in q.owned
            /\ v.bytes # 0 => Tiles(v.slices, v.start, shown)
            /\ v.result = "COMPLETE" => v.bytes # 0 /\ v.end = v.start + v.samples

\* A visit is COMPLETE only when the retune that followed is known not to have
\* come before the end of its window, in whichever order the retune and the
\* samples are reported.
RetuneAttested ==
    \A i \in DOMAIN q.visits : q.visits[i].result = "COMPLETE" => q.visits[i].id \in attested

\* A visit says no more of itself than was captured and attested.
VisitsWhole == WholeCapture /\ RetuneAttested

\* A view pins its slices until the send is completed: no call but
\* complete_send changes a visit that is being sent.
SentAsTaken ==
    [][q.visits # << >> /\ q.visits[1].sending =>
          \/ q'.visits = Tail(q.visits)
          \/ q'.visits # << >> /\ q'.visits[1] = q.visits[1]]_vars
=============================================================================
