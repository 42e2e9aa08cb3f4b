----------------------------- MODULE VisitQueue -----------------------------
(***************************************************************************)
(* The visit queue of the adaptive scanner (iiod/spf-visit-queue.c): every *)
(* visit of a frequency reserves room before the radio is tuned, is bound  *)
(* to a window of the sample counter, collects slices of the DMA blocks    *)
(* that are fed, and is taken by the transport in the order of             *)
(* reservation.  A block stays leased until no slice refers to it and its  *)
(* release succeeds.                                                       *)
(*                                                                         *)
(* Each function F is translated to FRet, what it returns on the queue q   *)
(* ("OK" for 0), and F, the queue it leaves behind.  A call that does not  *)
(* return "OK" leaves the queue as it was, except Expire and Cancel.       *)
(* One sample is one byte; a block is named by its token (a table slot is  *)
(* only where the token is kept); counters of the status report are out.   *)
(***************************************************************************)
EXTENDS Integers, Sequences, FiniteSets

CONSTANTS
    Token,              \* DMA blocks that can be fed
    BlockCount,         \* config.block_count
    HeadroomBlocks,     \* config.headroom_blocks
    MaximumVisits,      \* config.maximum_visits
    BlockSamples,       \* config.block_samples
    MaximumBytes,       \* config.maximum_bytes
    MaximumAgeTicks,    \* config.maximum_age_ticks
    MaximumSamples,     \* samples of a visit of maximum_visit_ms
    SourceRateHz,       \* config.source_rate_hz
    DrainRate,          \* config.drain_bytes_per_second
    MaxCounter          \* UINT64_MAX, the largest sample counter

\* spf_visit_queue_create
ASSUME ConfigAssumption ==
    /\ IsFiniteSet(Token)
    /\ BlockCount \in 4 .. 64
    /\ HeadroomBlocks \in 1 .. BlockCount - 1
    /\ MaximumVisits \in 1 .. 64
    /\ {BlockSamples, MaximumBytes, MaximumAgeTicks, MaximumSamples, SourceRateHz,
        DrainRate, MaxCounter} \subseteq Nat \ {0}

MaxBlocks == 64         \* SPF_VISIT_QUEUE_MAX_BLOCKS

\* enum spf_visit_result
Result == {"ADMITTED", "COMPLETE", "SKIP_CAPACITY", "SKIP_AGE", "INVALID_GAP", "CANCELLED"}

\* struct spf_visit_slice: the samples from .. to - 1, which the block holds
Slice == [token : Token, from : Nat, to : Nat]

\* struct visit
Visit == [id               : Nat,
          reserved_at      : Nat,
          start            : Nat,
          end              : Nat,
          next             : Nat,
          bytes            : Nat,
          samples          : Nat,
          remaining_blocks : Nat,
          slices           : Seq(Slice),
          result           : Result,
          bound            : BOOLEAN,
          closed           : BOOLEAN,
          sending          : BOOLEAN]

\* struct spf_visit_queue.  The visits are in order of their distance from
\* head; owned are the tokens of the owned blocks.  A counter is 0 as long as
\* there is none (have_source, have_id).
Queue == [visits           : Seq(Visit),
          owned            : SUBSET Token,
          refs             : [Token -> Nat],
          leased_blocks    : Nat,
          reserved_blocks  : Nat,
          reserved_bytes   : Nat,
          last_source_end  : Nat,
          last_reserved_id : Nat,
          last_valid_end   : Nat,
          cancelled        : BOOLEAN,
          preserve_partial : BOOLEAN]     \* config.preserve_partial

QueueInit(partial) ==
    [visits |-> << >>, owned |-> {}, refs |-> [t \in Token |-> 0],
     leased_blocks |-> 0, reserved_blocks |-> 0, reserved_bytes |-> 0, last_source_end |-> 0,
     last_reserved_id |-> 0, last_valid_end |-> 0, cancelled |-> FALSE,
     preserve_partial |-> partial]

Last(q) == q.visits[Len(q.visits)]
LastUnbound(q) == q.visits # << >> /\ ~Last(q).bound

\* How many elements the sets of[i], i \in I, have together.
Count(I, of) == Cardinality(UNION {{i} \X of[i] : i \in I})

\* Over the visits at the indices I: blocks still reserved, bytes reserved, and
\* slices of the block t.
Blocks(q, I) == Count(I, [i \in I |-> 1 .. q.visits[i].remaining_blocks])
Bytes(q, I) == Count(I, [i \in I |-> 1 .. q.visits[i].bytes])
SlicesOf(v, t) == {n \in DOMAIN v.slices : v.slices[n].token = t}
Slices(q, I, t) == Count(I, [i \in I |-> SlicesOf(q.visits[i], t)])

-----------------------------------------------------------------------------
(* Giving up what a visit holds. *)

\* discard, of the visits at the indices I
Discard(q, I, result) ==
    [q EXCEPT
        !.refs = [t \in Token |-> @[t] - Slices(q, I, t)],
        !.reserved_blocks = @ - Blocks(q, I),
        !.reserved_bytes = @ - Bytes(q, I),
        !.visits = [i \in DOMAIN @ |->
            IF i \notin I THEN @[i]
            ELSE [@[i] EXCEPT !.slices = << >>, !.remaining_blocks = 0, !.bytes = 0,
                              !.result = result[i], !.closed = TRUE]]]

\* terminate: only the contiguous prefix is kept, and only on demand.
Terminate(q, I, result) ==
    IF ~q.preserve_partial THEN Discard(q, I, [i \in I |-> result])
    ELSE [q EXCEPT
            !.reserved_blocks = @ - Blocks(q, I),
            !.visits = [i \in DOMAIN @ |->
                IF i \notin I THEN @[i]
                ELSE [@[i] EXCEPT !.remaining_blocks = 0, !.end = q.visits[i].next,
                                  !.result = result, !.closed = TRUE]]]

-----------------------------------------------------------------------------
(* Admission: spf_visit_queue_reserve, spf_visit_queue_bind. *)

\* Mutant: the phase of the block boundary is not accounted for.
BlocksForAligned(samples) == (samples + BlockSamples - 1) \div BlockSamples

\* Conservative count at any phase of the block boundary.
BlocksFor(samples) == (samples + BlockSamples - 1) \div BlockSamples + 1

OldestAge(q, now) == IF q.visits = << >> THEN 0 ELSE now - q.visits[1].reserved_at

TicksToDrain(q, samples) ==
    ((q.reserved_bytes + samples) * SourceRateHz + DrainRate - 1) \div DrainRate

ReserveRet(q, id, samples, now) ==
    IF samples \notin 1 .. MaximumSamples THEN "EINVAL"
    ELSE IF q.cancelled THEN "ESHUTDOWN"
    ELSE IF id <= q.last_reserved_id THEN "ERANGE"
    ELSE IF LastUnbound(q) THEN "EBUSY"
    ELSE IF now < q.last_source_end \/ OldestAge(q, now) < 0 THEN "ERANGE"
    ELSE "OK"

ReserveResult(q, samples, now) ==
    IF \/ Len(q.visits) = MaximumVisits
       \/ BlocksFor(samples) + q.leased_blocks + q.reserved_blocks
             > BlockCount - HeadroomBlocks
       \/ samples > MaximumBytes
       \/ q.reserved_bytes > MaximumBytes - samples
    THEN "SKIP_CAPACITY"
    ELSE IF \/ OldestAge(q, now) > MaximumAgeTicks
            \/ TicksToDrain(q, samples) + samples > MaximumAgeTicks - OldestAge(q, now)
    THEN "SKIP_AGE"
    ELSE "ADMITTED"

NewVisit(id, samples, now) ==
    [id |-> id, reserved_at |-> now, start |-> 0, end |-> 0, next |-> 0,
     bytes |-> samples, samples |-> samples, remaining_blocks |-> BlocksFor(samples),
     slices |-> << >>, result |-> "ADMITTED", bound |-> FALSE, closed |-> FALSE,
     sending |-> FALSE]

\* A visit that is skipped has no place in the queue.
Reserve(q, id, samples, now) ==
    IF ReserveResult(q, samples, now) # "ADMITTED" THEN q
    ELSE [q EXCEPT !.visits = Append(@, NewVisit(id, samples, now)),
                   !.reserved_blocks = @ + BlocksFor(samples),
                   !.reserved_bytes = @ + samples,
                   !.last_reserved_id = id]

BindRet(q, id, start) ==
    IF q.visits = << >> \/ q.cancelled THEN "EINVAL"
    ELSE IF Last(q).id # id \/ Last(q).bound \/ Last(q).result # "ADMITTED" THEN "EINVAL"
    ELSE IF \/ start < Last(q).reserved_at
            \/ start < q.last_valid_end
            \/ start > MaxCounter - Last(q).samples THEN "ERANGE"
    ELSE "OK"

Bind(q, id, start) ==
    [q EXCEPT !.visits[Len(q.visits)] =
                  [@ EXCEPT !.start = start, !.next = start, !.end = start + Last(q).samples,
                            !.bound = TRUE],
              !.last_valid_end = start + Last(q).samples]

-----------------------------------------------------------------------------
(* spf_visit_queue_feed: the block holds the samples from first on. *)

FeedRet(q, token, first) ==
    IF first > MaxCounter - BlockSamples THEN "EINVAL"
    ELSE IF q.cancelled THEN "ESHUTDOWN"
    ELSE IF first < q.last_source_end THEN "ERANGE"
    ELSE IF LastUnbound(q) THEN "EAGAIN"
    ELSE IF token \in q.owned THEN "EEXIST"
    ELSE IF Cardinality(q.owned) = BlockCount THEN "ENOSPC"
    ELSE "OK"

Admitted(q) == {i \in DOMAIN q.visits : q.visits[i].result = "ADMITTED"}

\* The samples a visit waits for are missing.
GapVisits(q, first) ==
    {i \in Admitted(q) : LET v == q.visits[i] IN first > v.next /\ v.next < v.end}

SliceFrom(v, first) == IF first > v.start THEN first ELSE v.start
SliceTo(v, first) == IF first + BlockSamples < v.end THEN first + BlockSamples ELSE v.end

\* The visits that want samples of the block.
HitVisits(q, first) ==
    {i \in Admitted(q) \ GapVisits(q, first) :
        SliceFrom(q.visits[i], first) < SliceTo(q.visits[i], first)}

\* Those the reservation did not account for.
CorruptVisits(q, first) ==
    {i \in HitVisits(q, first) :
        LET v == q.visits[i]
        IN  \/ SliceFrom(v, first) # v.next
            \/ v.remaining_blocks = 0
            \/ Len(v.slices) >= MaxBlocks}

AddSlice(v, token, first) ==
    LET to == SliceTo(v, first)
    IN  [v EXCEPT
            !.slices = Append(@, [token |-> token, from |-> SliceFrom(v, first), to |-> to]),
            !.remaining_blocks = IF to = v.end THEN 0 ELSE @ - 1,
            !.next = to,
            !.result = IF to = v.end /\ v.closed THEN "COMPLETE" ELSE @]

\* The blocks a visit gives back with its slice, the last of them in full.
Spent(v, first) == IF SliceTo(v, first) = v.end THEN v.remaining_blocks ELSE 1

Feed(q, token, first) ==
    LET bad == GapVisits(q, first) \cup CorruptVisits(q, first)
        hit == HitVisits(q, first) \ bad
        spent == Count(hit, [i \in hit |-> 1 .. Spent(q.visits[i], first)])
        fed == [q EXCEPT
                    !.owned = @ \cup {token},
                    !.refs[token] = Cardinality(hit),
                    !.leased_blocks = @ + 1,
                    !.last_source_end = first + BlockSamples,
                    !.reserved_blocks = @ - spent,
                    !.visits = [i \in DOMAIN @ |->
                        IF i \in hit THEN AddSlice(@[i], token, first) ELSE @[i]]]
    IN  Terminate(fed, bad, "INVALID_GAP")

-----------------------------------------------------------------------------
(* The end of a visit. *)

\* spf_visit_queue_close_window: the retune that ends the window came at the
\* counter invalid.
Named(q, id) == {i \in DOMAIN q.visits : q.visits[i].id = id}
FirstNamed(q, id) == CHOOSE i \in Named(q, id) : \A j \in Named(q, id) : i <= j

CloseWindowRet(q, id) ==
    IF Named(q, id) = {} THEN "ENOENT"
    ELSE LET v == q.visits[FirstNamed(q, id)]
         IN  IF ~v.bound THEN "EINVAL"
             ELSE IF ~v.closed /\ v.sending THEN "EINVAL" ELSE "OK"

\* Mutant: the retune is not compared with the end of the window.
CloseWindowAnyRetune(q, id, invalid) ==
    LET i == FirstNamed(q, id)
        v == q.visits[i]
        closed == [q EXCEPT !.visits[i].closed = TRUE]
    IN  IF v.closed THEN q
        ELSE IF v.next = v.end THEN [closed EXCEPT !.visits[i].result = "COMPLETE"]
        ELSE closed

CloseWindow(q, id, invalid) ==
    LET i == FirstNamed(q, id)
        v == q.visits[i]
        closed == [q EXCEPT !.visits[i].closed = TRUE]
    IN  IF v.closed THEN q
        ELSE IF invalid < v.end THEN Terminate(closed, {i}, "INVALID_GAP")
        ELSE IF v.next = v.end THEN [closed EXCEPT !.visits[i].result = "COMPLETE"]
        ELSE closed

\* spf_visit_queue_take: the transport sees the oldest visit.
TakeRet(q) ==
    IF q.visits = << >> THEN "EAGAIN"
    ELSE IF q.visits[1].sending THEN "EBUSY"
    ELSE IF q.visits[1].result = "ADMITTED" THEN "EAGAIN" ELSE "OK"

Take(q) == [q EXCEPT !.visits[1].sending = TRUE]

\* spf_visit_queue_complete_send
CompleteSendRet(q, id) ==
    IF q.visits = << >> THEN "EINVAL"
    ELSE IF ~q.visits[1].sending \/ q.visits[1].id # id THEN "EINVAL" ELSE "OK"

CompleteSend(q, id) ==
    [Discard(q, {1}, [i \in {1} |-> q.visits[i].result]) EXCEPT !.visits = Tail(@)]

\* spf_visit_queue_expire: a visit that is too old and not being sent is dropped.
Aged(q, now) == {i \in DOMAIN q.visits : now - q.visits[i].reserved_at > MaximumAgeTicks}
Sending(q) == {i \in DOMAIN q.visits : q.visits[i].sending}

ExpireRet(q, now) ==
    IF \E i \in DOMAIN q.visits : now < q.visits[i].reserved_at THEN "ERANGE"
    ELSE IF Aged(q, now) \cap Sending(q) # {} THEN "ETIMEDOUT" ELSE "OK"

\* Mutant: a visit that is being sent is dropped as well.
ExpireSending(q, now) ==
    Terminate(q, {i \in Aged(q, now) : q.visits[i].bytes # 0}, "SKIP_AGE")

Expire(q, now) ==
    Terminate(q, {i \in Aged(q, now) \ Sending(q) : q.visits[i].bytes # 0}, "SKIP_AGE")

\* spf_visit_queue_cancel
CancelRet(q) == IF Sending(q) # {} THEN "EBUSY" ELSE "OK"

Cancel(q) ==
    Terminate([q EXCEPT !.cancelled = TRUE],
              {i \in DOMAIN q.visits \ Sending(q) :
                  ~q.preserve_partial \/ q.visits[i].result = "ADMITTED"},
              "CANCELLED")

\* spf_visit_queue_reap: blocks nobody refers to go back; failed are those whose
\* release fails.
Unreferenced(q) == {t \in q.owned : q.refs[t] = 0}

Reap(q, failed) ==
    LET back == Unreferenced(q) \ failed
    IN  [q EXCEPT !.owned = @ \ back, !.leased_blocks = @ - Cardinality(back)]

\* spf_visit_queue_capture_complete, spf_visit_queue_destroy
CaptureComplete(q) == Admitted(q) = {}
DestroyRet(q) == IF q.visits # << >> \/ q.leased_blocks # 0 THEN "EBUSY" ELSE "OK"
=============================================================================
