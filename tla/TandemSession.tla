--------------------------- MODULE TandemSession ---------------------------
(***************************************************************************)
(* The gain transitions of the radio on their way into the frames'         *)
(* metadata (spf-tandem-session.c).  The automatic gain control steps both *)
(* receivers and records every step: step i happens at sample at[i], its   *)
(* record goes to a FIFO of the kernel device, or is lost when that is     *)
(* full.  The session moves records from the FIFO to a queue of its own    *)
(* and gives each frame the steps of its samples.  A status snapshot with  *)
(* a narrow counter tells the session how many steps there were; it may    *)
(* trail the records by Latency samples.  A step's number stands for the   *)
(* gain it leads to, so a wrong gain is a wrong number.                    *)
(***************************************************************************)
EXTENDS Integers, Sequences, FiniteSets, SequencesExt

CONSTANTS S,           \* samples of a frame
          Spacing,     \* fewest samples between two steps: measurement * (cooldown + 1)
          EventCaps,   \* the event_capacity a request may ask for
          QueueCap,    \* SPF_TANDEM_EVENT_QUEUE_CAPACITY
          FifoDepths,  \* depths the device's FIFO may have
          Modulus,     \* values of the status counter
          Latency,     \* samples by which a status snapshot may trail the records
          MaxSample,   \* bound on the sample counter
          MaxEvents    \* bound on the steps

ASSUME SizeAssumption == S > 0 /\ Spacing > 0 /\ Latency >= 0
ASSUME CapacityAssumption == \A c \in EventCaps : c \in 1 .. QueueCap
ASSUME ModulusAssumption == Modulus % 2 = 0 /\ \A d \in FifoDepths : QueueCap + d <= Modulus \div 2

RetentionFrames == 2

\* spf_tandem_request_validate_event_window: the steps of a window of
\* RetentionFrames frames fit.
EventWindowValid(cap) == 1 + (S * RetentionFrames - 1) \div Spacing <= cap

VARIABLES now,   \* the sample counter
          agc,   \* the gain control and its kernel device
          ses    \* struct spf_tandem_session

tvars == <<now, agc, ses>>

\* at: the sample of every step; lost: the steps whose record found the FIFO
\* full; fifo: records to read; snap: steps the status snapshot shows;
\* depth: fifo_depth of its capabilities; leased: a session holds the device; fault: fault_flags; hang: the device
\* file gives end of file
NoAgc == [at |-> <<>>, lost |-> {}, fifo |-> <<>>, depth |-> 0, snap |-> 0,
          leased |-> FALSE, fault |-> FALSE, hang |-> FALSE]
\* fd: the device file is open; queue: records read and not consumed;
\* expected: event_sequence of the next record, 0 before the first;
\* count: frame_transition_count, also the gain it stands for
NoSession == [fd |-> FALSE, acquired |-> FALSE, queue |-> <<>>, expected |-> 0, count |-> 0]

Steps == 1 .. MaxEvents
AgcType == [at : Seq(0 .. MaxSample), lost : SUBSET Steps, fifo : Seq(Steps),
            depth : FifoDepths \cup {0}, snap : 0 .. MaxEvents, leased : BOOLEAN, fault : BOOLEAN, hang : BOOLEAN]
SessionType == [fd : BOOLEAN, acquired : BOOLEAN, queue : Seq(Steps),
                expected : 0 .. MaxEvents + 1, count : 0 .. MaxEvents]

TandemTypeOK ==
    /\ now \in 0 .. MaxSample
    /\ agc \in AgcType /\ Len(agc.fifo) <= agc.depth
    /\ ses \in SessionType /\ Len(ses.queue) <= QueueCap
    /\ ses.acquired => ses.fd

TandemInit == now = 0 /\ agc = NoAgc /\ ses = NoSession

-----------------------------------------------------------------------------
(* The gain control and its device: external, as spf-tandem-session.c uses *)
(* them.                                                                   *)

\* One step of the gain, at sample t.
Step(g, t) ==
    LET n == Len(g.at) + 1
        full == Len(g.fifo) = g.depth
    IN  [g EXCEPT !.at = Append(@, t),
                  !.lost = IF full THEN @ \cup {n} ELSE @,
                  !.fifo = IF full THEN @ ELSE Append(@, n)]

CanStep(g, t) ==
    /\ g.leased /\ Len(g.at) < MaxEvents
    /\ g.at # <<>> => t - Last(g.at) >= Spacing

\* What a status snapshot taken now may show: all steps older than Latency.
Snapshots(g) ==
    {n \in g.snap .. Len(g.at) : \A i \in 1 .. Len(g.at) : g.at[i] + Latency < now => i <= n}

-----------------------------------------------------------------------------
(* spf_tandem_session: operators on the session and the device, applied by *)
(* the actions of the metadata provider.                                   *)

\* Mutant: the losses of the snapshot are not looked at.
RefreshStatusNoOverflow(g, n) == IF g.fault THEN "EIO" ELSE "ok"

\* refresh_status: overflow_count and fault_flags of the snapshot that shows
\* n steps.
RefreshStatus(g, n) ==
    CASE g.fault -> "EIO"
      [] g.lost \cap 1 .. n # {} -> "EOVERFLOW"
      [] OTHER -> "ok"

\* The counter's distance from the steps consumed, modulo its width.
Delta(n, count) == (n - count) % Modulus

\* refresh_status_at_least: the attempts see snapshots that only grow, so the
\* last one decides; a snapshot one step behind is tolerated.
RefreshStatusAtLeast(g, n, count) ==
    CASE RefreshStatus(g, n) # "ok" -> RefreshStatus(g, n)
      [] Delta(n, count) < Modulus \div 2 -> "ok"
      [] Delta(n, count) = Modulus - 1 -> "ok"
      [] OTHER -> "EILSEQ"

\* acquire: the device is opened, asked for its capabilities (a FIFO that
\* holds cap events, the capacity of the request) and leased; a failure after
\* the open closes it again.
Acquire(s) == [s EXCEPT !.fd = TRUE, !.acquired = TRUE, !.count = 0]
Acquired(g, depth) == [NoAgc EXCEPT !.leased = TRUE, !.depth = depth]
FifoSuffices(cap, depth) == cap <= depth
AcquireFailed(s) == [s EXCEPT !.fd = FALSE]

\* fill_queue reads what fits; -ENOSPC when nothing fits, -EPIPE when the file
\* ends before the queue is full.
Fill(s, g) ==
    LET n == IF Len(g.fifo) < QueueCap - Len(s.queue) THEN Len(g.fifo)
                                                     ELSE QueueCap - Len(s.queue)
    IN  [ret |-> CASE Len(s.queue) = QueueCap -> "ENOSPC"
                   [] g.hang /\ Len(s.queue) + Len(g.fifo) < QueueCap -> "EPIPE"
                   [] OTHER -> "ok",
         queue |-> s.queue \o SubSeq(g.fifo, 1, n),
         fifo |-> SubSeq(g.fifo, n + 1, Len(g.fifo))]

\* The records consumed for a frame that ends before sample end: fill, take
\* the records before end, and again as long as the queue runs empty.  The
\* batches are QueueCap records each, so the last one read ends at the next
\* multiple of QueueCap after the first record that is left.
Due(all, g, end) == Len(SelectSeq(all, LAMBDA i : g.at[i] < end))

SequenceGap(s, taken) ==
    \E k \in DOMAIN taken :
        \/ k = 1 /\ s.expected # 0 /\ taken[1] # s.expected
        \/ k > 1 /\ taken[k] # taken[k - 1] + 1

\* Those of them in the frame that begins at sample first.
InFrame(taken, g, first) == SelectSeq(taken, LAMBDA i : g.at[i] >= first)

\* collect, up to the status: the session, the device and the frame's events.
Collect(s, g, first, cap) ==
    LET all == s.queue \o g.fifo
        c == Due(all, g, first + S)
        taken == SubSeq(all, 1, c)
        events == InFrame(taken, g, first)
        batch == QueueCap * (c \div QueueCap + 1)
        left == IF batch < Len(all) THEN batch ELSE Len(all)
        fill == Fill(s, g)
        ret == CASE fill.ret # "ok" -> fill.ret
                 [] SequenceGap(s, taken) -> "EILSEQ"
                 [] Len(events) > cap -> "ENOSPC"
                 [] g.hang /\ batch > Len(all) -> "EPIPE"
                 [] OTHER -> "ok"
    IN  [ret |-> ret,
         events |-> events,
         ses |-> IF ret # "ok" THEN [s EXCEPT !.queue = fill.queue]
                 ELSE [s EXCEPT !.queue = SubSeq(all, c + 1, left),
                                !.expected = IF c = 0 THEN @ ELSE all[c] + 1,
                                !.count = @ + c],
         agc |-> [g EXCEPT !.fifo = IF ret # "ok" THEN fill.fifo
                                    ELSE SubSeq(all, left + 1, Len(all))]]

\* close: the lease is released before the file is closed.
CloseSession(s) == NoSession
Released(g) == NoAgc
=============================================================================
