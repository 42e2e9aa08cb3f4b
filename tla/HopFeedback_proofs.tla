-------------------------- MODULE HopFeedback_proofs --------------------------
(***************************************************************************)
(* Proofs about the feedback loop of an adaptive hop: the ring without a   *)
(* lock between its writer and its reader gives the scheduler what it was  *)
(* given, once and in order; the batches of the host leave no hole; and    *)
(* the policy falls back only for the two reasons FaultExplained names.    *)
(* For every number of dwells, every size of ring, block, dwell and guard, *)
(* every epoch and every lateness of the scheduler.                        *)
(***************************************************************************)
EXTENDS HopFeedback, FiniteSetTheorems, TLAPS

Observations == [visit : Nat, start : Int, end : Int, target : Profiles, healthy : BOOLEAN]
Samples == [start : Int, end : Int, target : Profiles]
Transitions == [no_recall : BOOLEAN, before : Int, after : Int, to : Profiles]

Workers == [pc : {"wait", "load", "copy", "bind", "tune", "done"}, next : Nat,
            previous : Profiles \cup {-1}, decision : Nat, n : Nat, seen : Observations]
Policies == [write : Nat, read : Nat, fault : BOOLEAN, visible : Nat,
             feedback : [0 .. Capacity - 1 -> Observations], visits : Seq(Samples),
             epoch : Int, next_host : Nat]
Sessions == [state : {"RUNNING", "COMPLETED", "CANCELLED"}, queue : Seq(Transitions),
             windows : Seq(Samples), block_end : Nat, cancel : {"none", "finish", "done"}]
Detectors == [told : Nat, sent : Nat, finished : BOOLEAN, frame_pending : BOOLEAN,
              drain_ready : BOOLEAN]
Captures == [pc : {"idle", "feed", "feeding", "frame", "framing", "budget", "charging",
                   "failed"}, left : Int, blocks : Nat]
Offers == [pc : {"idle", "check", "store", "publish", "next"}, o : Observations,
           until : Nat, shift : {0, 1}, write : Nat]
Histories == [offered : Seq(Observations), taken : Seq(Observations), overflow : BOOLEAN,
              repeated : BOOLEAN, final : BOOLEAN, late : BOOLEAN]

TypeOK ==
    /\ mode \in Modes /\ worker \in Workers /\ policy \in Policies /\ session \in Sessions
    /\ glrt \in Detectors /\ capture \in Captures /\ offer \in Offers
    /\ history \in Histories

\* An observation is on its way into the ring.
Offering == offer.pc \in {"check", "store", "publish"}

\* The ring: indices count what was offered and taken, the slots between them
\* hold what was offered, and writer and reader stay out of each other's slot.
RingInv ==
    /\ Len(history.offered) = policy.write /\ Len(history.taken) = policy.read
    /\ policy.read <= policy.write /\ policy.write - policy.read <= Capacity
    /\ \A i \in 1 .. policy.read : history.taken[i] = history.offered[i]
    /\ \A i \in policy.read .. policy.write - 1 :
          policy.feedback[i % Capacity] = history.offered[i + 1]
    /\ offer.pc \in {"store", "publish"} =>
          offer.write = policy.write /\ policy.write - policy.read < Capacity
    /\ offer.pc = "publish" => policy.feedback[policy.write % Capacity] = offer.o
    /\ worker.pc \in {"copy", "bind"} => policy.read < policy.write
    /\ worker.pc = "bind" => worker.seen = history.offered[policy.read + 1]

\* The batches of the host.
HostInv ==
    /\ mode = "glrt" => offer.pc # "next"
    /\ mode = "host" =>
        /\ capture.pc = "idle"
        /\ policy.next_host = policy.write /\ policy.next_host <= Len(policy.visits)
        /\ \A i \in DOMAIN history.offered : history.offered[i].visit = i - 1
        /\ Offering => offer.o.visit = policy.next_host
        /\ offer.pc # "idle" => policy.next_host <= offer.until
                                /\ offer.until < Len(session.windows)

\* What the scheduler committed and what the session accepted of it.
PlanInv ==
    /\ policy.visible = Len(policy.visits)
    /\ Len(policy.visits) = Len(session.windows) + Len(session.queue)
    /\ Len(policy.visits) <= Dwells[mode]
    /\ worker.pc \notin {"wait", "done"} => Len(policy.visits) < Dwells[mode]
    /\ glrt.told <= Len(session.windows)

\* A dwell that was recalled has the same samples for policy and session.
AgreeInv ==
    ~history.repeated =>
        /\ \A k \in 1 .. Len(policy.visits) :
              policy.visits[k].end = policy.visits[k].start + DwellSamples
        /\ \A k \in 1 .. Len(session.windows) : session.windows[k] = policy.visits[k]
        /\ \A k \in 1 .. Len(session.queue) :
              /\ ~session.queue[k].no_recall
              /\ policy.visits[Len(session.windows) + k].start = session.queue[k].after + Guard
              /\ policy.visits[Len(session.windows) + k].target = session.queue[k].to

\* The observation is of a committed dwell, in the epoch of the blocks.
Matches(o) ==
    /\ o.visit < Len(policy.visits)
    /\ o.start = policy.visits[o.visit + 1].start + Epoch
    /\ o.end = policy.visits[o.visit + 1].end + Epoch
    /\ o.target = policy.visits[o.visit + 1].target

MatchInv ==
    ~history.repeated =>
        /\ \A i \in DOMAIN history.offered : Matches(history.offered[i])
        /\ Offering => Matches(offer.o)
        /\ offer.pc = "next" => offer.shift = 0
        /\ mode = "host" /\ Offering => offer.shift = 0
        /\ policy.epoch \in {-1, Epoch}
        /\ policy.fault => history.overflow

\* The detector's FINAL record: a frame is pending while a block is worked on,
\* and nothing is drained before the session and the last frame are over.
DrainInv ==
    /\ capture.pc \in {"feed", "feeding", "frame", "framing"} =>
          glrt.frame_pending /\ ~glrt.drain_ready
    /\ glrt.finished \/ session.cancel # "none" => session.state # "RUNNING"
    /\ glrt.drain_ready => glrt.finished
    /\ history.final => glrt.drain_ready
    /\ ~history.late

IndInv == TypeOK /\ RingInv /\ HostInv /\ PlanInv /\ AgreeInv /\ MatchInv /\ DrainInv

-----------------------------------------------------------------------------
(* Arithmetic of the ring *)

\* Division with remainder.
LEMMA DivMod ==
    ASSUME NEW n \in Nat \ {0}, NEW k \in Nat
    PROVE  /\ k \div n \in Nat /\ k % n \in 0 .. n - 1
           /\ k = (k \div n) * n + (k % n)
  BY SMT

\* Two indices less than a ring apart have different slots.
LEMMA SlotsDiffer ==
    ASSUME NEW n \in Nat \ {0}, NEW a \in Nat, NEW b \in Nat, a < b, b - a < n
    PROVE  a % n # b % n
  <1> DEFINE p == a \div n
             q == b \div n
             r == a % n
             s == b % n
  <1>1. p \in Nat /\ r \in 0 .. n - 1 /\ a = p * n + r
    BY DivMod
  <1>2. q \in Nat /\ s \in 0 .. n - 1 /\ b = q * n + s
    BY DivMod
  <1> HIDE DEF p, q, r, s
  <1>3. SUFFICES ASSUME r = s PROVE FALSE
    BY DEF r, s
  <1>4. b - a = (q - p) * n
    BY <1>1, <1>2, <1>3
  <1>5. CASE q - p <= 0
    <2>1. (q - p) * n <= 0
      BY <1>1, <1>2, <1>5
    <2> QED
      BY <2>1, <1>4
  <1>6. CASE q - p >= 1
    <2>1. (q - p) * n >= n
      BY <1>1, <1>2, <1>6
    <2> QED
      BY <2>1, <1>4
  <1> QED
    BY <1>1, <1>2, <1>5, <1>6

\* Only a multiple of the register's range passes for an epoch.
LEMMA NoShift ==
    ASSUME NEW x \in {0, 1}, (Epoch + x) % Word = 0
    PROVE  x = 0
  <1>1. Word \in Nat \ {0, 1} /\ Epoch \in Nat /\ Epoch % Word = 0
    BY FeedbackAssumption
  <1>2. SUFFICES ASSUME x = 1 PROVE FALSE
    OBVIOUS
  <1>3. Epoch % Word # (Epoch + 1) % Word
    <2>1. Epoch + 1 \in Nat /\ Epoch < Epoch + 1 /\ (Epoch + 1) - Epoch < Word
      BY <1>1
    <2>2. Word \in Nat \ {0}
      BY <1>1
    <2> QED
      BY <1>1, <2>1, <2>2, SlotsDiffer
  <1> QED
    BY <1>1, <1>2, <1>3

-----------------------------------------------------------------------------
(* Steps of one actor *)

\* A step of the scheduler's thread that leaves the policy alone.
LEMMA WorkerOnly ==
    ASSUME IndInv, worker' \in Workers,
           UNCHANGED <<mode, policy, session, glrt, capture, offer, history>>,
           worker'.pc \in {"copy", "bind"} => policy.read < policy.write,
           worker'.pc = "bind" => worker'.seen = history.offered[policy.read + 1],
           worker'.pc \notin {"wait", "done"} => Len(policy.visits) < Dwells[mode]
    PROVE  IndInv'
  <1>1. TypeOK'
    BY DEF IndInv, TypeOK
  <1>2. RingInv'
    BY DEF IndInv, RingInv
  <1>3. HostInv' /\ PlanInv'
    BY DEF IndInv, HostInv, PlanInv, Offering
  <1>4. AgreeInv' /\ DrainInv'
    BY DEF IndInv, AgreeInv, DrainInv
  <1>5. MatchInv'
    BY DEF IndInv, MatchInv, Matches, Offering
  <1> QED
    BY <1>1, <1>2, <1>3, <1>4, <1>5 DEF IndInv

LEMMA WorkerDecideInd == ASSUME IndInv, WorkerDecide PROVE IndInv'
  <1>1. PICK late \in 0 .. MaxLate :
          worker' = [worker EXCEPT !.pc = "load", !.decision = worker.next + late, !.n = 0]
    BY DEF WorkerDecide
  <1>2. MaxLate \in Nat
    BY FeedbackAssumption
  <1> DEFINE d == worker.next + late
  <1>0. d \in Nat
    BY <1>2 DEF IndInv, TypeOK, Workers
  <1> HIDE DEF d
  <1>3. worker' \in Workers /\ worker'.pc = "load"
    <2>1. worker' = [worker EXCEPT !.pc = "load", !.decision = d, !.n = 0]
      BY <1>1 DEF d
    <2> QED
      BY <2>1, <1>0 DEF IndInv, TypeOK, Workers
  <1> QED
    BY <1>3, WorkerOnly DEF WorkerDecide

LEMMA ChooseLoadInd == ASSUME IndInv, ChooseLoad PROVE IndInv'
  <1>1. worker' \in Workers /\ worker'.pc \in {"copy", "tune"}
        /\ (worker'.pc = "copy" => policy.read # policy.write)
    BY DEF IndInv, TypeOK, Workers, ChooseLoad
  <1>2. policy.read \in Nat /\ policy.write \in Nat /\ policy.read <= policy.write
    BY DEF IndInv, TypeOK, Policies, RingInv
  <1>3. Len(policy.visits) < Dwells[mode]
    BY DEF IndInv, PlanInv, ChooseLoad
  <1> QED
    BY <1>1, <1>2, <1>3, WorkerOnly DEF ChooseLoad

LEMMA ChooseCopyInd == ASSUME IndInv, ChooseCopy PROVE IndInv'
  <1>1. policy.read \in Nat /\ policy.write \in Nat /\ policy.read < policy.write
        /\ Capacity \in Nat \ {0}
    BY FeedbackAssumption DEF IndInv, TypeOK, Policies, RingInv, ChooseCopy
  <1>2. policy.read % Capacity \in 0 .. Capacity - 1
    BY <1>1, DivMod
  <1>3. policy.feedback[policy.read % Capacity] \in Observations
        /\ policy.feedback[policy.read % Capacity] = history.offered[policy.read + 1]
    BY <1>1, <1>2 DEF IndInv, TypeOK, Policies, RingInv
  <1>4. worker' \in Workers /\ worker'.pc = "bind"
        /\ worker'.seen = policy.feedback[policy.read % Capacity]
    BY <1>3 DEF IndInv, TypeOK, Workers, ChooseCopy
  <1>5. Len(policy.visits) < Dwells[mode]
    BY DEF IndInv, PlanInv, ChooseCopy
  <1> QED
    BY <1>1, <1>3, <1>4, <1>5, WorkerOnly DEF ChooseCopy

\* What the scheduler read out of the ring fits the dwell it was offered for.
LEMMA SeenBinds ==
    ASSUME IndInv, worker.pc = "bind", ~history.repeated
    PROVE  /\ BindObservation(worker.seen)
           /\ worker.seen.start - policy.visits[worker.seen.visit + 1].start = Epoch
  <1> DEFINE o == worker.seen
             v == policy.visits[o.visit + 1]
  <1>1. o \in Observations /\ Matches(o) /\ policy.epoch \in {-1, Epoch}
    <2>1. policy.read \in Nat /\ policy.write \in Nat /\ policy.read < policy.write
          /\ Len(history.offered) = policy.write /\ history.offered \in Seq(Observations)
          /\ o = history.offered[policy.read + 1]
      BY DEF IndInv, TypeOK, Policies, Histories, RingInv
    <2>2. policy.read + 1 \in DOMAIN history.offered
      BY <2>1
    <2> QED
      BY <2>1, <2>2 DEF IndInv, MatchInv
  <1>2. o.visit < Len(policy.visits) /\ v \in Samples
    BY <1>1 DEF Matches, IndInv, TypeOK, Policies, Observations
  <1>3. Epoch \in Nat /\ Epoch % Word = 0
    BY FeedbackAssumption
  <1>4. v.start \in Int /\ v.end \in Int
    BY <1>2 DEF Samples
  <1>5. o.start = v.start + Epoch /\ o.end = v.end + Epoch /\ o.target = v.target
    BY <1>1 DEF Matches
  <1>6. o.start - v.start = Epoch /\ o.end - v.end = Epoch
    BY <1>3, <1>4, <1>5
  <1> HIDE DEF o, v
  <1>7. o.visit < Len(policy.visits) /\ o.target = v.target /\ o.start - v.start >= 0
        /\ (o.start - v.start) % Word = 0 /\ o.end - v.end = o.start - v.start
        /\ policy.epoch \in {-1, o.start - v.start}
    BY <1>1, <1>2, <1>3, <1>5, <1>6
  <1> QED
    BY <1>6, <1>7 DEF o, v, BindObservation

LEMMA ChooseBindInd == ASSUME IndInv, ChooseBind PROVE IndInv'
  <1> DEFINE o == worker.seen
             offset == o.start - policy.visits[o.visit + 1].start
             bound == BindObservation(o)
             epoch == IF bound THEN offset ELSE policy.epoch
  <1>1. policy' = [policy EXCEPT !.read = policy.read + 1, !.fault = policy.fault \/ ~bound,
                                 !.epoch = epoch]
    BY DEF ChooseBind
  <1>2. worker' = [worker EXCEPT !.pc = "load", !.n = worker.n + 1]
        /\ history' = [history EXCEPT !.taken = Append(history.taken, o)]
        /\ UNCHANGED <<mode, session, glrt, capture, offer>> /\ worker.pc = "bind"
    BY DEF ChooseBind
  <1>3. worker \in Workers /\ policy \in Policies /\ history \in Histories
    BY DEF IndInv, TypeOK
  <1>4. o \in Observations
    BY <1>3 DEF Workers
  <1>5. epoch \in Int
    <2>1. policy.epoch \in Int
      BY <1>3 DEF Policies
    <2>2. CASE bound
      <3>1. o.visit < Len(policy.visits) /\ o.visit \in Nat /\ policy.visits \in Seq(Samples)
        BY <2>2, <1>3, <1>4 DEF BindObservation, Policies, Observations
      <3>2. policy.visits[o.visit + 1] \in Samples
        BY <3>1
      <3>3. offset \in Int
        BY <3>2, <1>4 DEF Samples, Observations
      <3> QED
        BY <2>2, <3>3
    <2> QED
      BY <2>1, <2>2
  <1>6. ~history.repeated => bound /\ offset = Epoch
    BY <1>2, SeenBinds
  <1>7. bound \in BOOLEAN
    BY DEF BindObservation
  <1>15. policy.read \in Nat /\ worker.n \in Nat /\ policy.fault \in BOOLEAN
         /\ policy.read < policy.write /\ policy.write \in Nat
    BY <1>2, <1>3 DEF Policies, Workers, IndInv, RingInv
  <1> HIDE DEF offset, bound, epoch, o
  <1>8. /\ policy'.read = policy.read + 1 /\ policy'.epoch = epoch
        /\ policy'.write = policy.write /\ policy'.visible = policy.visible
        /\ policy'.feedback = policy.feedback /\ policy'.visits = policy.visits
        /\ policy'.next_host = policy.next_host
    BY <1>1, <1>3 DEF Policies
  <1>9. policy'.fault = (policy.fault \/ ~bound)
    BY <1>1, <1>3 DEF Policies
  <1>10. policy' \in Policies
    <2> DEFINE f == policy.fault \/ ~bound
               r == policy.read + 1
    <2>1. f \in BOOLEAN /\ r \in Nat
      BY <1>7, <1>15
    <2>2. policy' = [policy EXCEPT !.read = r, !.fault = f, !.epoch = epoch]
      BY <1>1
    <2> HIDE DEF f, r
    <2> QED
      BY <2>1, <2>2, <1>3, <1>5 DEF Policies
  <1>11. worker' \in Workers /\ worker'.pc = "load"
    <2> DEFINE n == worker.n + 1
    <2>1. n \in Nat
      BY <1>15
    <2>2. worker' = [worker EXCEPT !.pc = "load", !.n = n]
      BY <1>2
    <2> HIDE DEF n
    <2> QED
      BY <2>1, <2>2, <1>3 DEF Workers
  <1>12. history' \in Histories
    <2> DEFINE s == Append(history.taken, o)
    <2>1. s \in Seq(Observations)
      BY <1>3, <1>4 DEF Histories
    <2>2. history' = [history EXCEPT !.taken = s]
      BY <1>2
    <2> HIDE DEF s
    <2> QED
      BY <2>1, <2>2, <1>3 DEF Histories
  <1>13. /\ history'.taken = Append(history.taken, o) /\ history'.offered = history.offered
         /\ history'.overflow = history.overflow /\ history'.repeated = history.repeated
         /\ history'.final = history.final /\ history'.late = history.late
    BY <1>2, <1>3 DEF Histories
  <1>14. TypeOK'
    BY <1>2, <1>10, <1>11, <1>12 DEF IndInv, TypeOK
  <1>16. RingInv'
    <2>1. history.taken \in Seq(Observations) /\ Len(history.taken) = policy.read
          /\ o = history.offered[policy.read + 1]
      BY <1>2, <1>3 DEF Histories, IndInv, RingInv, o
    <2>2. Len(history'.taken) = policy.read + 1
          /\ \A i \in 1 .. policy.read + 1 : history'.taken[i] = history.offered[i]
      BY <2>1, <1>13, <1>15, <1>4 DEF IndInv, RingInv
    <2>3. (offer.pc \in {"store", "publish"})' =>
             offer'.write = policy.write /\ policy.write - (policy.read + 1) < Capacity
      BY <1>2, <1>15, FeedbackAssumption DEF IndInv, RingInv
    <2>4. \A i \in policy.read + 1 .. policy.write - 1 :
             policy'.feedback[i % Capacity] = history'.offered[i + 1]
      BY <1>8, <1>13, <1>15 DEF IndInv, RingInv
    <2>5. offer'.pc = "publish" => policy'.feedback[policy.write % Capacity] = offer'.o
      BY <1>2, <1>8 DEF IndInv, RingInv
    <2>6. /\ Len(history'.offered) = policy'.write /\ policy'.read <= policy'.write
          /\ policy'.write - policy'.read <= Capacity
      BY <1>8, <1>13, <1>15, FeedbackAssumption DEF IndInv, RingInv
    <2> QED
      BY <2>2, <2>3, <2>4, <2>5, <2>6, <1>8, <1>11, <1>13 DEF RingInv
  <1>17. HostInv' /\ PlanInv'
    BY <1>2, <1>8, <1>11, <1>13 DEF IndInv, HostInv, PlanInv, Offering
  <1>18. AgreeInv' /\ DrainInv'
    BY <1>2, <1>8, <1>13 DEF IndInv, AgreeInv, DrainInv
  <1>19. MatchInv'
    <2> SUFFICES ASSUME ~history.repeated PROVE MatchInv'
      BY <1>13 DEF MatchInv
    <2>1. policy'.epoch = Epoch
      BY <1>6, <1>8 DEF epoch
    <2>2. policy'.fault = policy.fault
      BY <1>6, <1>9, <1>15
    <2> QED
      BY <2>1, <2>2, <1>2, <1>8, <1>13 DEF IndInv, MatchInv, Matches, Offering
  <1> QED
    BY <1>14, <1>16, <1>17, <1>18, <1>19 DEF IndInv

LEMMA WorkerTuneInd == ASSUME IndInv, WorkerTune PROVE IndInv'
  <1> DEFINE Body(profile, t) ==
               /\ policy' = [policy EXCEPT !.visits = Append(policy.visits, CommittedVisit(t)),
                                           !.visible = policy.visible + 1]
               /\ session' = [session EXCEPT !.queue = Append(session.queue, t)]
               /\ worker' = [worker EXCEPT !.pc = "wait", !.previous = profile,
                                           !.next = NextInvalidStart(t)]
               /\ history' = [history EXCEPT !.repeated = history.repeated \/ t.no_recall]
  <1>1. PICK profile \in Profiles : Body(profile, Transition(profile))
    BY DEF WorkerTune
  <1> DEFINE t == Transition(profile)
             visit == CommittedVisit(t)
             next == NextInvalidStart(t)
             repeated == history.repeated \/ t.no_recall
             n == policy.visible + 1
  <1>2. UNCHANGED <<mode, glrt, capture, offer>> /\ worker.pc = "tune"
    BY DEF WorkerTune
  <1>3. worker \in Workers /\ policy \in Policies /\ history \in Histories
        /\ session \in Sessions
    BY DEF IndInv, TypeOK
  <1>4. Guard \in Nat /\ DwellSamples \in Nat \ {0}
    BY FeedbackAssumption
  <1>5. t.no_recall \in BOOLEAN /\ t.before \in Nat /\ t.after \in Nat /\ t.to = profile
        /\ t \in Transitions
    <2>1. worker.decision \in Nat
      BY <1>3 DEF Workers
    <2> QED
      BY <2>1 DEF Transition, Transitions
  <1>6. next \in Nat /\ visit \in Samples /\ visit.start = t.after + Guard
        /\ visit.target = profile /\ (~t.no_recall => visit.end = visit.start + DwellSamples)
    <2>1. next = t.after + (IF t.no_recall THEN 0 ELSE Guard) + DwellSamples
      BY DEF NextInvalidStart
    <2>2. visit = [start |-> t.after + Guard, end |-> next, target |-> t.to]
      BY DEF CommittedVisit
    <2> HIDE DEF t, next, visit
    <2>3. next \in Nat /\ (~t.no_recall => next = t.after + Guard + DwellSamples)
      BY <2>1, <1>4, <1>5
    <2> QED
      BY <2>2, <2>3, <1>4, <1>5 DEF Samples
  <1>7. repeated \in BOOLEAN /\ (~repeated => ~history.repeated /\ ~t.no_recall)
    BY <1>3, <1>5 DEF Histories
  <1>8. n \in Nat /\ policy.visits \in Seq(Samples) /\ session.queue \in Seq(Transitions)
        /\ session.windows \in Seq(Samples) /\ policy.visible \in Nat
    BY <1>3 DEF Policies, Sessions
  <1>9. /\ policy' = [policy EXCEPT !.visits = Append(policy.visits, visit), !.visible = n]
        /\ session' = [session EXCEPT !.queue = Append(session.queue, t)]
        /\ worker' = [worker EXCEPT !.pc = "wait", !.previous = profile, !.next = next]
        /\ history' = [history EXCEPT !.repeated = repeated]
    BY <1>1
  <1> HIDE DEF t, visit, next, repeated, n, Body
  <1>10. policy' \in Policies /\ policy'.visits = Append(policy.visits, visit)
         /\ policy'.visible = n
    <2> DEFINE vs == Append(policy.visits, visit)
    <2>1. vs \in Seq(Samples)
      BY <1>6, <1>8
    <2>2. policy' = [policy EXCEPT !.visits = vs, !.visible = n]
      BY <1>9
    <2> HIDE DEF vs
    <2>3. policy' \in Policies /\ policy'.visits = vs /\ policy'.visible = n
      BY <2>1, <2>2, <1>3, <1>8 DEF Policies
    <2> QED
      BY <2>3 DEF vs
  <1>11. /\ policy'.read = policy.read /\ policy'.write = policy.write
         /\ policy'.feedback = policy.feedback /\ policy'.fault = policy.fault
         /\ policy'.epoch = policy.epoch /\ policy'.next_host = policy.next_host
    BY <1>9, <1>3 DEF Policies
  <1>12. session' \in Sessions /\ session'.queue = Append(session.queue, t)
         /\ session'.windows = session.windows /\ session'.state = session.state
         /\ session'.cancel = session.cancel
    <2> DEFINE q == Append(session.queue, t)
    <2>1. q \in Seq(Transitions)
      BY <1>5, <1>8
    <2>2. session' = [session EXCEPT !.queue = q]
      BY <1>9
    <2> HIDE DEF q
    <2>3. session' \in Sessions /\ session'.queue = q
         /\ session'.windows = session.windows /\ session'.state = session.state
         /\ session'.cancel = session.cancel
      BY <2>1, <2>2, <1>3 DEF Sessions
    <2> QED
      BY <2>3 DEF q
  <1>13. worker' \in Workers /\ worker'.pc = "wait"
    BY <1>9, <1>3, <1>6 DEF Workers
  <1>14. history' \in Histories /\ history'.repeated = repeated
         /\ history'.taken = history.taken /\ history'.offered = history.offered
         /\ history'.overflow = history.overflow
         /\ history'.final = history.final /\ history'.late = history.late
    BY <1>9, <1>3, <1>7 DEF Histories
  <1>15. TypeOK'
    BY <1>2, <1>10, <1>12, <1>13, <1>14 DEF IndInv, TypeOK
  <1>16. RingInv'
    BY <1>2, <1>11, <1>13, <1>14 DEF IndInv, RingInv
  <1>17. /\ Len(policy'.visits) = Len(policy.visits) + 1
         /\ Len(session'.queue) = Len(session.queue) + 1
         /\ Len(policy.visits) \in Nat /\ Len(session.queue) \in Nat
         /\ Len(session.windows) \in Nat
    BY <1>5, <1>6, <1>8, <1>10, <1>12
  <1>23. /\ \A k \in 1 .. Len(policy.visits) : policy'.visits[k] = policy.visits[k]
         /\ policy'.visits[Len(policy.visits) + 1] = visit
         /\ \A k \in 1 .. Len(session.queue) : session'.queue[k] = session.queue[k]
         /\ session'.queue[Len(session.queue) + 1] = t
    BY <1>5, <1>6, <1>8, <1>10, <1>12
  <1> DEFINE V == Len(policy.visits)
             W == Len(session.windows)
             Q == Len(session.queue)
             D == Dwells[mode]
  <1>24. V \in Nat /\ W \in Nat /\ Q \in Nat
    BY <1>8
  <1>25. V = W + Q /\ V < D /\ glrt.told <= W
    BY <1>2 DEF IndInv, PlanInv
  <1>26. D \in Nat
    BY FeedbackAssumption DEF IndInv, TypeOK
  <1> HIDE DEF V, W, Q, D
  <1>18. HostInv'
    <2>1. policy.next_host \in Nat
      BY <1>3 DEF Policies
    <2>2. mode = "host" => policy'.next_host <= Len(policy'.visits)
      BY <2>1, <1>11, <1>17 DEF IndInv, HostInv
    <2> QED
      BY <2>2, <1>2, <1>11, <1>12, <1>14 DEF IndInv, HostInv, Offering
  <1>19. PlanInv'
    <2>1. V + 1 = W + (Q + 1) /\ V + 1 <= D
      BY <1>24, <1>25, <1>26
    <2>2. Len(policy'.visits) = V + 1 /\ Len(session'.queue) = Q + 1
          /\ Len(session'.windows) = W /\ n = V + 1
      BY <1>12, <1>17 DEF V, W, Q, n, IndInv, PlanInv
    <2>3. Dwells[mode'] = D
      BY <1>2 DEF D
    <2> QED
      BY <2>1, <2>2, <2>3, <1>2, <1>10, <1>13, <1>25 DEF PlanInv
  <1>20. AgreeInv'
    <2> SUFFICES ASSUME ~repeated PROVE AgreeInv'
      BY <1>14 DEF AgreeInv
    <2>1. ~history.repeated /\ ~t.no_recall
      BY <1>7
    <2>2. /\ \A k \in 1 .. Len(policy.visits) :
                policy.visits[k].end = policy.visits[k].start + DwellSamples
          /\ \A k \in 1 .. Len(session.windows) : session.windows[k] = policy.visits[k]
          /\ \A k \in 1 .. Len(session.queue) :
                /\ ~session.queue[k].no_recall
                /\ policy.visits[Len(session.windows) + k].start
                      = session.queue[k].after + Guard
                /\ policy.visits[Len(session.windows) + k].target = session.queue[k].to
      BY <2>1 DEF IndInv, AgreeInv
    <2>3. \A k \in 1 .. W : k \in 1 .. V
      BY <1>24, <1>25
    <2>4. \A k \in 1 .. Len(policy'.visits) :
             policy'.visits[k].end = policy'.visits[k].start + DwellSamples
      BY <2>1, <2>2, <1>6, <1>17, <1>23, <1>8
    <2>5. \A k \in 1 .. Len(session'.windows) : session'.windows[k] = policy'.visits[k]
      BY <2>2, <2>3, <1>12, <1>23 DEF V, W
    <2>6. ASSUME NEW k \in 1 .. Len(session'.queue)
          PROVE  /\ ~session'.queue[k].no_recall
                 /\ policy'.visits[Len(session'.windows) + k].start
                       = session'.queue[k].after + Guard
                 /\ policy'.visits[Len(session'.windows) + k].target = session'.queue[k].to
      <3>1. CASE k \in 1 .. Len(session.queue)
        <4>1. Len(session.windows) + k \in 1 .. Len(policy.visits)
          <5>1. k \in 1 .. Q
            BY <3>1 DEF Q
          <5>2. W + k \in 1 .. V
            BY <5>1, <1>24, <1>25
          <5> QED
            BY <5>2 DEF V, W
        <4> QED
          BY <4>1, <3>1, <2>2, <1>12, <1>23
      <3>2. CASE k = Len(session.queue) + 1
        <4>1. Len(session.windows) + k = Len(policy.visits) + 1
          <5>1. k = Q + 1
            BY <3>2 DEF Q
          <5>2. W + k = V + 1
            BY <5>1, <1>24, <1>25
          <5> QED
            BY <5>2 DEF V, W
        <4> QED
          BY <4>1, <3>2, <2>1, <1>5, <1>6, <1>12, <1>23
      <3> QED
        BY <3>1, <3>2, <1>17
    <2> QED
      BY <2>4, <2>5, <2>6 DEF AgreeInv
  <1>21. MatchInv'
    <2> SUFFICES ASSUME ~repeated PROVE MatchInv'
      BY <1>14 DEF MatchInv
    <2>1. ~history.repeated
      BY <1>7
    <2>2. ASSUME NEW o \in Observations, Matches(o)
          PROVE  /\ o.visit < Len(policy'.visits)
                 /\ o.start = policy'.visits[o.visit + 1].start + Epoch
                 /\ o.end = policy'.visits[o.visit + 1].end + Epoch
                 /\ o.target = policy'.visits[o.visit + 1].target
      <3>1. o.visit \in Nat /\ o.visit < Len(policy.visits)
        BY <2>2 DEF Observations, Matches
      <3>2. o.visit + 1 \in 1 .. Len(policy.visits)
        BY <3>1, <1>17
      <3> QED
        BY <2>2, <3>1, <3>2, <1>17, <1>23 DEF Matches
    <2>3. history.offered \in Seq(Observations) /\ offer.o \in Observations
      BY DEF IndInv, TypeOK, Histories, Offers
    <2>4. \A i \in DOMAIN history.offered : history.offered[i] \in Observations
      BY <2>3
    <2>5. /\ \A i \in DOMAIN history.offered : Matches(history.offered[i])
          /\ Offering => Matches(offer.o)
      BY <2>1 DEF IndInv, MatchInv
    <2>6. /\ \A i \in DOMAIN history'.offered : Matches(history.offered[i])'
          /\ Offering' => Matches(offer.o)'
      BY <2>2, <2>3, <2>4, <2>5, <1>2, <1>14 DEF Matches, Offering
    <2> QED
      BY <2>1, <2>6, <1>2, <1>11, <1>14 DEF IndInv, MatchInv, Offering
  <1>22. DrainInv'
    BY <1>2, <1>12, <1>14 DEF IndInv, DrainInv
  <1> QED
    BY <1>15, <1>16, <1>18, <1>19, <1>20, <1>21, <1>22 DEF IndInv

-----------------------------------------------------------------------------
(* The writer of the ring *)

\* The caller of offer goes on with its state, or is through.
LEMMA Returned ==
    ASSUME IndInv, NEW ok \in BOOLEAN, OfferReturns(ok)
    PROVE  /\ capture' \in Captures /\ capture'.pc = capture.pc
           /\ offer' \in Offers /\ offer'.pc \in {"idle", "next"}
           /\ offer'.until = offer.until /\ offer'.shift = offer.shift
           /\ offer'.pc = "next" => mode # "glrt" /\ ok /\ offer.o.visit < offer.until
  <1>1. capture \in Captures /\ offer \in Offers
    BY DEF IndInv, TypeOK
  <1>2. CASE mode = "glrt"
    <2> DEFINE left == IF ok THEN capture.left - 1 ELSE 0
    <2>1. left \in Int
      BY <1>1 DEF Captures
    <2>2. capture' = [capture EXCEPT !.left = left] /\ offer' = [offer EXCEPT !.pc = "idle"]
      BY <1>2 DEF OfferReturns
    <2> HIDE DEF left
    <2>3. capture' \in Captures /\ capture'.pc = capture.pc
      BY <2>1, <2>2, <1>1 DEF Captures
    <2>4. offer' \in Offers /\ offer'.pc = "idle" /\ offer'.until = offer.until
          /\ offer'.shift = offer.shift
      BY <2>2, <1>1 DEF Offers
    <2> QED
      BY <2>3, <2>4
  <1>3. CASE mode # "glrt"
    <2> DEFINE pc == IF ok /\ offer.o.visit < offer.until THEN "next" ELSE "idle"
    <2>1. pc \in {"idle", "next"} /\ (pc = "next" => ok /\ offer.o.visit < offer.until)
      OBVIOUS
    <2>2. capture' = capture /\ offer' = [offer EXCEPT !.pc = pc]
      BY <1>3 DEF OfferReturns
    <2> HIDE DEF pc
    <2>3. offer' \in Offers /\ offer'.pc = pc /\ offer'.until = offer.until
          /\ offer'.shift = offer.shift
      BY <2>1, <2>2, <1>1 DEF Offers
    <2> QED
      BY <2>1, <2>2, <2>3, <1>1, <1>3
  <1> QED
    BY <1>2, <1>3

\* What is offered has the form offer asks for, unless a dwell was repeated.
LEMMA OfferedWellFormed ==
    ASSUME IndInv, Offering, ~history.repeated
    PROVE  WellFormed(offer.o)
  <1> DEFINE o == offer.o
             v == policy.visits[o.visit + 1]
             d == Dwells[mode]
             n == Len(policy.visits)
  <1>1. o \in Observations /\ Matches(o)
    BY DEF IndInv, TypeOK, Offers, MatchInv
  <1>2. policy.visits \in Seq(Samples) /\ n \in Nat /\ n <= d /\ d \in Nat
    BY FeedbackAssumption DEF IndInv, TypeOK, Policies, PlanInv
  <1>3. o.visit \in Nat /\ o.visit < n /\ o.visit + 1 \in 1 .. n
    BY <1>1, <1>2 DEF Matches, Observations
  <1>4. v.start \in Int /\ v.end = v.start + DwellSamples
    <2>1. v \in Samples
      BY <1>2, <1>3
    <2> QED
      BY <2>1, <1>3 DEF Samples, IndInv, AgreeInv
  <1>5. o.start = v.start + Epoch /\ o.end = v.end + Epoch
    BY <1>1 DEF Matches
  <1>6. Epoch \in Nat /\ DwellSamples \in Nat \ {0}
    BY FeedbackAssumption
  <1> HIDE DEF o, v, d, n
  <1>7. o.end > o.start /\ o.end - o.start = DwellSamples /\ o.visit < d
    BY <1>2, <1>3, <1>4, <1>5, <1>6
  <1> QED
    BY <1>7 DEF WellFormed, o, d

LEMMA OfferCheckInd == ASSUME IndInv, OfferCheck PROVE IndInv'
  <1>1. UNCHANGED <<mode, worker, session, glrt>> /\ offer.pc = "check"
    BY DEF OfferCheck
  <1>2. policy \in Policies /\ offer \in Offers /\ history \in Histories
    BY DEF IndInv, TypeOK
  <1>3. ASSUME WellFormed(offer.o), ~Full(policy.write, policy.read),
               offer' = [offer EXCEPT !.pc = "store", !.write = policy.write],
               UNCHANGED <<policy, capture, history>>
        PROVE  IndInv'
    <2>1. offer' \in Offers /\ offer'.pc = "store" /\ offer'.write = policy.write
          /\ offer'.o = offer.o /\ offer'.until = offer.until /\ offer'.shift = offer.shift
      BY <1>2, <1>3 DEF Offers, Policies
    <2>2. policy.write - policy.read < Capacity
      BY <1>2, <1>3, FeedbackAssumption DEF Full, Policies
    <2>3. TypeOK'
      BY <2>1, <1>1, <1>3 DEF IndInv, TypeOK
    <2>4. RingInv'
      BY <2>1, <2>2, <1>1, <1>3 DEF IndInv, RingInv
    <2>5. HostInv' /\ PlanInv'
      BY <2>1, <1>1, <1>3 DEF IndInv, HostInv, PlanInv, Offering
    <2>6. AgreeInv' /\ DrainInv'
      BY <1>1, <1>3 DEF IndInv, AgreeInv, DrainInv
    <2>7. MatchInv'
      BY <2>1, <1>1, <1>3 DEF IndInv, MatchInv, Matches, Offering
    <2> QED
      BY <2>3, <2>4, <2>5, <2>6, <2>7 DEF IndInv
  <1>4. ASSUME ~WellFormed(offer.o) \/ Full(policy.write, policy.read),
               policy' = [policy EXCEPT !.fault = TRUE],
               history' = [history EXCEPT !.overflow = history.overflow \/ WellFormed(offer.o)],
               OfferReturns(FALSE)
        PROVE  IndInv'
    <2> DEFINE overflow == history.overflow \/ WellFormed(offer.o)
    <2>1. overflow \in BOOLEAN
      BY <1>2 DEF Histories, WellFormed
    <2>2. ~history.repeated => overflow
      BY <1>1, OfferedWellFormed DEF Offering
    <2>3. history' = [history EXCEPT !.overflow = overflow]
      BY <1>4
    <2> HIDE DEF overflow
    <2>4. policy' \in Policies
          /\ policy'.read = policy.read /\ policy'.write = policy.write
          /\ policy'.feedback = policy.feedback /\ policy'.visible = policy.visible
          /\ policy'.visits = policy.visits
          /\ policy'.epoch = policy.epoch /\ policy'.next_host = policy.next_host
      BY <1>2, <1>4 DEF Policies
    <2>5. history' \in Histories /\ history'.overflow = overflow
          /\ history'.taken = history.taken /\ history'.offered = history.offered
          /\ history'.repeated = history.repeated
          /\ history'.final = history.final /\ history'.late = history.late
      BY <2>1, <2>3, <1>2 DEF Histories
    <2>6. capture' \in Captures /\ capture'.pc = capture.pc
          /\ offer' \in Offers /\ offer'.pc = "idle"
      BY <1>4, Returned
    <2>7. TypeOK'
      BY <2>4, <2>5, <2>6, <1>1 DEF IndInv, TypeOK
    <2>8. RingInv'
      BY <2>4, <2>5, <2>6, <1>1 DEF IndInv, RingInv
    <2>9. HostInv' /\ PlanInv'
      BY <2>4, <2>5, <2>6, <1>1 DEF IndInv, HostInv, PlanInv, Offering
    <2>10. AgreeInv' /\ DrainInv'
      BY <2>4, <2>5, <2>6, <1>1 DEF IndInv, AgreeInv, DrainInv
    <2>11. MatchInv'
      BY <2>2, <2>4, <2>5, <2>6, <1>1 DEF IndInv, MatchInv, Matches, Offering
    <2> QED
      BY <2>7, <2>8, <2>9, <2>10, <2>11 DEF IndInv
  <1> QED
    BY <1>3, <1>4 DEF OfferCheck

LEMMA OfferStoreInd == ASSUME IndInv, OfferStore PROVE IndInv'
  <1> DEFINE slot == policy.write % Capacity
  <1>1. UNCHANGED <<mode, worker, session, glrt, capture, history>> /\ offer.pc = "store"
        /\ offer' = [offer EXCEPT !.pc = "publish"]
    BY DEF OfferStore
  <1>2. policy \in Policies /\ offer \in Offers
    BY DEF IndInv, TypeOK
  <1>3. offer.write = policy.write /\ policy.write \in Nat /\ policy.read \in Nat
        /\ policy.read <= policy.write /\ policy.write - policy.read < Capacity
        /\ Capacity \in Nat \ {0}
    BY <1>1, <1>2, FeedbackAssumption DEF IndInv, RingInv, Policies
  <1>4. slot \in 0 .. Capacity - 1
    BY <1>3, DivMod
  <1>5. \A i \in policy.read .. policy.write - 1 : i % Capacity # slot
    BY <1>3, SlotsDiffer
  <1>6. \A i \in policy.read .. policy.write - 1 : i % Capacity \in 0 .. Capacity - 1
    BY <1>3, DivMod
  <1> DEFINE ring == [policy.feedback EXCEPT ![slot] = offer.o]
  <1>7. policy' = [policy EXCEPT !.feedback = ring]
    BY <1>3 DEF OfferStore
  <1>13. policy.feedback \in [0 .. Capacity - 1 -> Observations] /\ offer.o \in Observations
    BY <1>2 DEF Policies, Offers
  <1> HIDE DEF slot
  <1>8. ring \in [0 .. Capacity - 1 -> Observations] /\ ring[slot] = offer.o
        /\ \A j \in 0 .. Capacity - 1 : j # slot => ring[j] = policy.feedback[j]
    BY <1>4, <1>13
  <1> HIDE DEF ring
  <1>9. policy' \in Policies /\ policy'.feedback = ring
        /\ policy'.read = policy.read /\ policy'.write = policy.write
        /\ policy'.fault = policy.fault /\ policy'.visible = policy.visible
        /\ policy'.visits = policy.visits
        /\ policy'.epoch = policy.epoch /\ policy'.next_host = policy.next_host
    BY <1>2, <1>7, <1>8 DEF Policies
  <1>10. offer' \in Offers /\ offer'.pc = "publish" /\ offer'.write = offer.write
         /\ offer'.o = offer.o /\ offer'.until = offer.until /\ offer'.shift = offer.shift
    BY <1>1, <1>2 DEF Offers
  <1>11. TypeOK'
    BY <1>1, <1>9, <1>10 DEF IndInv, TypeOK
  <1>12. RingInv'
    <2>1. \A i \in policy.read .. policy.write - 1 :
             policy'.feedback[i % Capacity] = history.offered[i + 1]
      BY <1>5, <1>6, <1>8, <1>9 DEF IndInv, RingInv
    <2>2. policy'.feedback[policy'.write % Capacity] = offer.o
      BY <1>8, <1>9 DEF slot
    <2> QED
      BY <2>1, <2>2, <1>1, <1>3, <1>9, <1>10 DEF IndInv, RingInv
  <1>14. HostInv' /\ PlanInv'
    BY <1>1, <1>9, <1>10 DEF IndInv, HostInv, PlanInv, Offering
  <1>15. AgreeInv' /\ DrainInv'
    BY <1>1, <1>9 DEF IndInv, AgreeInv, DrainInv
  <1>16. MatchInv'
    BY <1>1, <1>9, <1>10 DEF IndInv, MatchInv, Matches, Offering
  <1> QED
    BY <1>11, <1>12, <1>14, <1>15, <1>16 DEF IndInv

\* The session has no event that the policy did not commit.
LEMMA WindowsCommitted ==
    ASSUME IndInv
    PROVE  /\ Len(session.windows) \in Nat /\ Len(policy.visits) \in Nat
           /\ Len(session.windows) <= Len(policy.visits)
  <1>1. policy.visits \in Seq(Samples) /\ session.windows \in Seq(Samples)
        /\ session.queue \in Seq(Transitions)
    BY DEF IndInv, TypeOK, Policies, Sessions
  <1> DEFINE V == Len(policy.visits)
             W == Len(session.windows)
             Q == Len(session.queue)
  <1>2. V \in Nat /\ W \in Nat /\ Q \in Nat
    BY <1>1
  <1>3. V = W + Q
    BY DEF IndInv, PlanInv
  <1> HIDE DEF V, W, Q
  <1>4. W <= V
    BY <1>2, <1>3
  <1> QED
    BY <1>2, <1>4 DEF V, W

LEMMA OfferPublishInd == ASSUME IndInv, OfferPublish PROVE IndInv'
  <1> DEFINE w == policy.write + 1
             nh == IF mode = "host" THEN policy.next_host + 1 ELSE policy.next_host
             all == Append(history.offered, offer.o)
  <1>1. UNCHANGED <<mode, worker, session, glrt>> /\ offer.pc = "publish"
        /\ OfferReturns(TRUE)
    BY DEF OfferPublish
  <1>2. policy \in Policies /\ offer \in Offers /\ history \in Histories
    BY DEF IndInv, TypeOK
  <1>3. offer.write = policy.write /\ policy.write \in Nat /\ policy.read \in Nat
        /\ policy.read <= policy.write /\ policy.write - policy.read < Capacity
        /\ Capacity \in Nat \ {0} /\ policy.next_host \in Nat
        /\ offer.o \in Observations /\ history.offered \in Seq(Observations)
        /\ Len(history.offered) = policy.write
    BY <1>1, <1>2, FeedbackAssumption DEF IndInv, RingInv, Policies, Offers, Histories
  <1>4. policy' = [policy EXCEPT !.write = w, !.next_host = nh]
        /\ history' = [history EXCEPT !.offered = all]
    BY <1>3 DEF OfferPublish
  <1>5. w \in Nat /\ nh \in Nat /\ all \in Seq(Observations) /\ Len(all) = w
        /\ (\A i \in 1 .. policy.write : all[i] = history.offered[i])
        /\ all[policy.write + 1] = offer.o
    BY <1>3
  <1> HIDE DEF w, nh, all
  <1>6. policy' \in Policies /\ policy'.write = w /\ policy'.next_host = nh
        /\ policy'.read = policy.read /\ policy'.feedback = policy.feedback
        /\ policy'.fault = policy.fault /\ policy'.visible = policy.visible
        /\ policy'.visits = policy.visits /\ policy'.epoch = policy.epoch
    BY <1>2, <1>4, <1>5 DEF Policies
  <1>7. history' \in Histories /\ history'.offered = all
        /\ history'.taken = history.taken /\ history'.overflow = history.overflow
        /\ history'.repeated = history.repeated
        /\ history'.final = history.final /\ history'.late = history.late
    BY <1>2, <1>4, <1>5 DEF Histories
  <1>8. capture' \in Captures /\ capture'.pc = capture.pc
        /\ offer' \in Offers /\ offer'.pc \in {"idle", "next"}
        /\ offer'.until = offer.until /\ offer'.shift = offer.shift
        /\ (offer'.pc = "next" => mode # "glrt" /\ offer.o.visit < offer.until)
    BY <1>1, Returned
  <1>9. TypeOK'
    BY <1>1, <1>6, <1>7, <1>8 DEF IndInv, TypeOK
  <1>10. RingInv'
    <2>1. \A i \in 1 .. policy.read : history.taken[i] = all[i]
      BY <1>3, <1>5 DEF IndInv, RingInv
    <2>2. \A i \in policy.read .. w - 1 : policy.feedback[i % Capacity] = all[i + 1]
      <3> SUFFICES ASSUME NEW i \in policy.read .. w - 1
                   PROVE  policy.feedback[i % Capacity] = all[i + 1]
        OBVIOUS
      <3>1. CASE i = policy.write
        BY <3>1, <1>1, <1>3, <1>5 DEF IndInv, RingInv
      <3>2. CASE i \in policy.read .. policy.write - 1
        <4>1. i + 1 \in 1 .. policy.write
          BY <3>2, <1>3
        <4> QED
          BY <4>1, <3>2, <1>5 DEF IndInv, RingInv
      <3> QED
        BY <3>1, <3>2, <1>3 DEF w
    <2>3. worker.pc = "bind" => worker.seen = all[policy.read + 1]
      <3> HAVE worker.pc = "bind"
      <3>1. policy.read < policy.write /\ worker.seen = history.offered[policy.read + 1]
        BY DEF IndInv, RingInv
      <3>2. policy.read + 1 \in 1 .. policy.write
        BY <3>1, <1>3
      <3> QED
        BY <3>1, <3>2, <1>5
    <2>4. policy.read <= w /\ w - policy.read <= Capacity
          /\ (worker.pc \in {"copy", "bind"} => policy.read < w)
          /\ Len(history.taken) = policy.read
      BY <1>3 DEF IndInv, RingInv, w
    <2> QED
      BY <2>1, <2>2, <2>3, <2>4, <1>1, <1>5, <1>6, <1>7, <1>8 DEF RingInv
  <1>11. HostInv'
    <2>1. CASE mode = "host"
      <3>1. /\ capture.pc = "idle" /\ policy.next_host = policy.write
            /\ \A i \in DOMAIN history.offered : history.offered[i].visit = i - 1
            /\ offer.o.visit = policy.next_host /\ policy.next_host <= offer.until
            /\ offer.until < Len(session.windows)
        BY <2>1, <1>1 DEF IndInv, HostInv, Offering
      <3>2. Len(session.windows) \in Nat /\ Len(session.windows) <= Len(policy.visits)
            /\ Len(policy.visits) \in Nat /\ offer.until \in Nat
        BY WindowsCommitted DEF IndInv, TypeOK, Offers
      <3>3. nh = w /\ nh = policy.next_host + 1
        BY <2>1, <3>1 DEF nh, w
      <3>4. nh <= Len(policy.visits)
        BY <3>1, <3>2, <3>3, <1>3
      <3>5. \A i \in DOMAIN all : all[i].visit = i - 1
        <4>1. \A i \in 1 .. policy.write : all[i].visit = i - 1
          BY <3>1, <1>3, <1>5
        <4>2. all[policy.write + 1].visit = policy.write
          BY <3>1, <1>5
        <4>3. DOMAIN all = 1 .. policy.write + 1
          BY <1>3, <1>5 DEF w
        <4> QED
          BY <4>1, <4>2, <4>3, <1>3
      <3>6. offer'.pc # "idle" => nh <= offer.until
        BY <3>1, <3>2, <3>3, <1>3, <1>8
      <3>7. ~Offering'
        BY <1>8 DEF Offering
      <3>8. mode # "glrt"
        BY <2>1
      <3> QED
        BY <3>1, <3>3, <3>4, <3>5, <3>6, <3>7, <3>8, <1>1, <1>6, <1>7, <1>8 DEF HostInv
    <2>2. CASE mode # "host"
      BY <2>2, <1>1, <1>8 DEF HostInv
    <2> QED
      BY <2>1, <2>2
  <1>12. PlanInv'
    BY <1>1, <1>6 DEF IndInv, PlanInv
  <1>13. AgreeInv' /\ DrainInv'
    BY <1>1, <1>6, <1>7, <1>8 DEF IndInv, AgreeInv, DrainInv
  <1>14. MatchInv'
    <2> SUFFICES ASSUME ~history.repeated PROVE MatchInv'
      BY <1>7 DEF MatchInv
    <2>1. /\ \A i \in DOMAIN history.offered : Matches(history.offered[i])
          /\ Matches(offer.o)
          /\ mode = "host" => offer.shift = 0
          /\ policy.epoch \in {-1, Epoch} /\ (policy.fault => history.overflow)
      BY <1>1 DEF IndInv, MatchInv, Offering
    <2>2. \A i \in DOMAIN all : Matches(all[i])
      <3>1. DOMAIN history.offered = 1 .. policy.write /\ DOMAIN all = 1 .. policy.write + 1
        BY <1>3, <1>5 DEF w
      <3> QED
        BY <3>1, <2>1, <1>3, <1>5
    <2>4. \A i \in DOMAIN history'.offered : Matches(history.offered[i])'
      BY <2>2, <1>6, <1>7 DEF Matches
    <2>5. offer'.pc = "next" => offer'.shift = 0
      BY <2>1, <1>8, FeedbackAssumption DEF IndInv, TypeOK
    <2> QED
      BY <2>1, <2>4, <2>5, <1>6, <1>7, <1>8 DEF MatchInv, Offering
  <1> QED
    BY <1>9, <1>10, <1>11, <1>12, <1>13, <1>14 DEF IndInv

-----------------------------------------------------------------------------
(* The host *)

\* The next observation of a batch is of the next visit the host owes, and
\* fits the dwell committed for it when the host's sums are right.
LEMMA BatchItemSound ==
    ASSUME IndInv, NEW v \in Nat, v < Len(session.windows), NEW shift \in {0, 1},
           policy.next_host <= v
    PROVE  /\ BatchItem(HostFeedback(v, shift)) \in Observations
           /\ BatchItem(HostFeedback(v, shift)).visit = policy.next_host
           /\ ~history.repeated /\ shift = 0 => Matches(BatchItem(HostFeedback(v, shift)))
           /\ ~history.repeated => HostFeedback(v, shift).start - policy.visits[v + 1].start
                                      = Epoch + shift
           /\ HostFeedback(v, shift).visit = v
  <1> DEFINE w == session.windows[v + 1]
             f == HostFeedback(v, shift)
             h == policy.next_host
             p == policy.visits[h + 1]
             c == policy.visits[v + 1]
             offset == f.start - c.start
             V == Len(policy.visits)
             W == Len(session.windows)
  <1>1. V \in Nat /\ W \in Nat /\ W <= V
    BY WindowsCommitted
  <1>2. h \in Nat /\ policy.visits \in Seq(Samples) /\ session.windows \in Seq(Samples)
    BY DEF IndInv, TypeOK, Policies, Sessions
  <1>3. v + 1 \in 1 .. W /\ v + 1 \in 1 .. V /\ h + 1 \in 1 .. V /\ h < V
    BY <1>1, <1>2
  <1>4. w \in Samples /\ p \in Samples /\ c \in Samples
    BY <1>2, <1>3
  <1>5. Epoch \in Nat
    BY FeedbackAssumption
  <1>6. f = Observation(v, w.start + Epoch + shift, w.end + Epoch + shift, w.target, TRUE)
    BY DEF HostFeedback
  <1>7. w.start \in Int /\ w.end \in Int /\ w.target \in Profiles
        /\ p.start \in Int /\ p.end \in Int /\ p.target \in Profiles /\ c.start \in Int
    BY <1>4 DEF Samples
  <1>8. ~history.repeated => w = c
    BY <1>3 DEF IndInv, AgreeInv
  <1>9. BatchItem(f) = IF h < f.visit
                       THEN Observation(h, p.start + (f.start - policy.visits[f.visit + 1].start),
                                        p.end + (f.start - policy.visits[f.visit + 1].start),
                                        p.target, FALSE)
                       ELSE f
    BY DEF BatchItem
  <1>17. h <= v
    OBVIOUS
  <1> HIDE DEF w, f, h, p, c, V, W
  <1>10. /\ f.visit = v /\ f.start = w.start + Epoch + shift /\ f.end = w.end + Epoch + shift
         /\ f.target = w.target
    BY <1>6 DEF Observation
  <1>11. f \in Observations /\ f.start \in Int /\ f.end \in Int /\ offset \in Int
    <2>1. w.start + Epoch + shift \in Int /\ w.end + Epoch + shift \in Int
      BY <1>5, <1>7
    <2> QED
      BY <2>1, <1>6, <1>7, <1>10 DEF Observation, Observations
  <1>12. ~history.repeated => offset = Epoch + shift
    BY <1>5, <1>7, <1>8, <1>10
  <1>13. policy.visits[f.visit + 1] = c
    BY <1>10 DEF c
  <1> HIDE DEF offset
  <1>14. CASE h < v
    <2> DEFINE o == Observation(h, p.start + offset, p.end + offset, p.target, FALSE)
    <2>1. BatchItem(f) = o
      BY <1>9, <1>10, <1>13, <1>14 DEF offset
    <2>2. o.visit = h /\ o.start = p.start + offset /\ o.end = p.end + offset
          /\ o.target = p.target
      BY DEF Observation
    <2>3. o \in Observations
      <3>1. p.start + offset \in Int /\ p.end + offset \in Int
        BY <1>7, <1>11
      <3> QED
        BY <3>1, <1>2, <1>7 DEF Observation, Observations, h
    <2> HIDE DEF o
    <2>4. ~history.repeated /\ shift = 0 => offset = Epoch
      BY <1>5, <1>12
    <2>5. ~history.repeated /\ shift = 0 => Matches(o)
      BY <2>2, <2>4, <1>3 DEF Matches, p, V
    <2> QED
      BY <2>1, <2>2, <2>3, <2>5, <1>10, <1>12 DEF h, f, c, offset
  <1>15. CASE h = v
    <2>1. BatchItem(f) = f
      <3>1. ~(h < f.visit)
        BY <1>10, <1>15
      <3> QED
        BY <3>1, <1>9, Zenon
    <2>2. ~history.repeated /\ shift = 0 =>
             f.start = c.start + Epoch /\ f.end = c.end + Epoch /\ f.target = c.target
      BY <1>5, <1>7, <1>8, <1>10
    <2>3. ~history.repeated /\ shift = 0 => Matches(f)
      BY <2>2, <1>3, <1>10, <1>15 DEF Matches, c, V
    <2> QED
      BY <2>1, <2>3, <1>10, <1>11, <1>12, <1>15 DEF h, f, c, offset
  <1> QED
    BY <1>2, <1>14, <1>15, <1>17

\* A step of the host that puts the next observation of its batch forward.
LEMMA HostForward ==
    ASSUME IndInv, mode = "host", UNCHANGED <<mode, worker, policy, session, glrt, capture, history>>,
           offer' \in Offers, offer'.pc = "check", offer'.o.visit = policy.next_host,
           policy.next_host <= offer'.until, offer'.until < Len(session.windows),
           ~history.repeated => Matches(offer'.o) /\ offer'.shift = 0
    PROVE  IndInv'
  <1>1. TypeOK'
    BY DEF IndInv, TypeOK
  <1>2. RingInv'
    BY DEF IndInv, RingInv
  <1>3. HostInv'
    BY DEF IndInv, HostInv, Offering
  <1>4. PlanInv' /\ AgreeInv' /\ DrainInv'
    BY DEF IndInv, PlanInv, AgreeInv, DrainInv
  <1>5. MatchInv'
    BY DEF IndInv, MatchInv, Matches, Offering
  <1> QED
    BY <1>1, <1>2, <1>3, <1>4, <1>5 DEF IndInv

LEMMA HostOfferInd == ASSUME IndInv, HostOffer PROVE IndInv'
  <1> DEFINE Body(v, shift) ==
               /\ HostAccepts(HostFeedback(v, shift))
               /\ offer' = [offer EXCEPT !.pc = "check",
                               !.o = BatchItem(HostFeedback(v, shift)),
                               !.until = v, !.shift = shift]
  <1>1. PICK v \in 0 .. Len(session.windows) - 1, shift \in {0, 1} : Body(v, shift)
    BY DEF HostOffer
  <1> DEFINE f == HostFeedback(v, shift)
             o == BatchItem(f)
  <1>2. mode = "host" /\ UNCHANGED <<mode, worker, policy, session, glrt, capture, history>>
    BY DEF HostOffer
  <1>3. Len(session.windows) \in Nat
    BY WindowsCommitted
  <1>4. v \in Nat /\ v < Len(session.windows)
    BY <1>3
  <1>5. f.visit = v
    BY DEF HostFeedback, Observation
  <1>6. f.visit >= policy.next_host /\ (f.start - policy.visits[f.visit + 1].start) % Word = 0
    BY <1>1 DEF HostAccepts
  <1>7. policy.next_host <= v
    BY <1>5, <1>6 DEF IndInv, TypeOK, Policies
  <1>8. /\ o \in Observations /\ o.visit = policy.next_host
        /\ ~history.repeated /\ shift = 0 => Matches(o)
        /\ ~history.repeated => f.start - policy.visits[v + 1].start = Epoch + shift
    BY <1>4, <1>7, BatchItemSound
  <1>9. offer' = [offer EXCEPT !.pc = "check", !.o = o, !.until = v, !.shift = shift]
    BY <1>1
  <1> HIDE DEF f, o, Body
  <1>10. ~history.repeated => shift = 0
    <2> HAVE ~history.repeated
    <2>1. (Epoch + shift) % Word = 0
      BY <1>5, <1>6, <1>8
    <2> QED
      BY <2>1, NoShift
  <1>11. offer' \in Offers /\ offer'.pc = "check" /\ offer'.o = o /\ offer'.until = v
         /\ offer'.shift = shift
    BY <1>4, <1>8, <1>9 DEF IndInv, TypeOK, Offers
  <1> QED
    BY <1>2, <1>4, <1>7, <1>8, <1>10, <1>11, HostForward

LEMMA HostNextInd == ASSUME IndInv, HostNext PROVE IndInv'
  <1> DEFINE f == HostFeedback(offer.until, offer.shift)
             o == BatchItem(f)
  <1>1. UNCHANGED <<mode, worker, policy, session, glrt, capture, history>>
        /\ offer.pc = "next" /\ offer' = [offer EXCEPT !.pc = "check", !.o = o]
    BY DEF HostNext
  <1>2. mode = "host"
    BY <1>1, FeedbackAssumption DEF IndInv, TypeOK, HostInv
  <1>3. offer \in Offers /\ offer.until \in Nat /\ offer.shift \in {0, 1}
    BY DEF IndInv, TypeOK, Offers
  <1>4. policy.next_host <= offer.until /\ offer.until < Len(session.windows)
    BY <1>1, <1>2 DEF IndInv, HostInv
  <1>5. ~history.repeated => offer.shift = 0
    BY <1>1 DEF IndInv, MatchInv
  <1>6. /\ o \in Observations /\ o.visit = policy.next_host
        /\ ~history.repeated /\ offer.shift = 0 => Matches(o)
    BY <1>3, <1>4, BatchItemSound
  <1> HIDE DEF f, o
  <1>7. offer' \in Offers /\ offer'.pc = "check" /\ offer'.o = o
        /\ offer'.until = offer.until /\ offer'.shift = offer.shift
    BY <1>1, <1>3, <1>6 DEF Offers
  <1> QED
    BY <1>1, <1>2, <1>4, <1>5, <1>6, <1>7, HostForward

-----------------------------------------------------------------------------
(* The acquisition thread *)

\* The valid samples of an event have a beginning; it is the end of the guard
\* after a recall when every event of the queue has one.
LEMMA ValidStartSound ==
    ASSUME NEW ws \in Seq(Samples), NEW q \in Seq(Transitions), NEW i \in 1 .. Len(q)
    PROVE  /\ ValidStart(ws, q, i) \in Int
           /\ (\A k \in 1 .. Len(q) : ~q[k].no_recall) =>
                 ValidStart(ws, q, i) = q[i].after + Guard
  <1> DEFINE R(j) == ~q[j].no_recall /\ \A k \in j + 1 .. i : q[k].no_recall
             scheduled == IF ws = << >> THEN q[1].before ELSE ws[Len(ws)].end
             j == CHOOSE j \in 1 .. i : R(j)
             first == q[j].after + Guard + (i - j) * DwellSamples
             on == scheduled + (i - 1) * DwellSamples
  <1>1. Guard \in Nat /\ DwellSamples \in Nat
    BY FeedbackAssumption
  <1>2. ValidStart(ws, q, i) = IF \E l \in 1 .. i : R(l) THEN first ELSE on
    BY DEF ValidStart
  <1>3. i \in Nat \ {0} /\ i <= Len(q) /\ Len(q) \in Nat
    OBVIOUS
  <1>4. \A l \in 1 .. i : q[l] \in Transitions
    BY <1>3
  <1>5. on \in Int
    <2>1. q[1].before \in Int
      BY <1>3, <1>4 DEF Transitions
    <2>2. CASE ws # << >>
      <3>1. Len(ws) \in 1 .. Len(ws)
        BY <2>2
      <3>2. ws[Len(ws)] \in Samples
        BY <3>1
      <3>3. ws[Len(ws)].end \in Int
        BY <3>2 DEF Samples
      <3>4. scheduled \in Int
        BY <3>3, <2>2
      <3> HIDE DEF scheduled
      <3> QED
        BY <3>4, <1>1, <1>3
    <2>3. CASE ws = << >>
      <3>1. scheduled \in Int
        BY <2>1, <2>3
      <3> HIDE DEF scheduled
      <3> QED
        BY <3>1, <1>1, <1>3
    <2> QED
      BY <2>2, <2>3
  <1>6. ASSUME NEW l \in 1 .. i, R(l) PROVE j \in 1 .. i /\ R(j)
    BY <1>6, Zenon
  <1> HIDE DEF j, R, on, scheduled
  <1>7. ASSUME j \in 1 .. i PROVE first \in Int
    <2>1. q[j].after \in Int /\ j \in Int
      <3>1. q[j] \in Transitions
        BY <1>4, <1>7
      <3> QED
        BY <3>1, <1>3, <1>7 DEF Transitions
    <2> QED
      BY <2>1, <1>1, <1>3
  <1>8. ValidStart(ws, q, i) \in Int
    <2>1. CASE \E l \in 1 .. i : R(l)
      <3>1. first \in Int
        BY <2>1, <1>6, <1>7
      <3> HIDE DEF first
      <3> QED
        BY <3>1, <2>1, <1>2
    <2>2. CASE ~\E l \in 1 .. i : R(l)
      <3> HIDE DEF first
      <3> QED
        BY <2>2, <1>2, <1>5
    <2> QED
      BY <2>1, <2>2
  <1>9. ASSUME \A k \in 1 .. Len(q) : ~q[k].no_recall
        PROVE  ValidStart(ws, q, i) = q[i].after + Guard
    <2>1. i \in 1 .. i /\ R(i)
      BY <1>3, <1>9 DEF R
    <2>2. j \in 1 .. i /\ R(j)
      BY <2>1, <1>6
    <2>3. j = i
      <3> SUFFICES ASSUME j # i PROVE FALSE
        OBVIOUS
      <3>1. i \in j + 1 .. i
        BY <2>2, <1>3
      <3>2. q[i].no_recall
        BY <3>1, <2>2 DEF R
      <3> QED
        BY <3>2, <1>9, <1>3
    <2>4. ValidStart(ws, q, i) = first
      <3> HIDE DEF first
      <3> QED
        BY <2>1, <1>2
    <2>5. q[i].after \in Int
      BY <1>3, <1>4 DEF Transitions
    <2>6. first = q[i].after + Guard
      BY <2>3, <2>5, <1>1, <1>3
    <2> QED
      BY <2>4, <2>6
  <1> QED
    BY <1>8, <1>9

\* Accepting the events of a queue adds a window for each.
LEMMA WindowsSound ==
    ASSUME NEW ws \in Seq(Samples), NEW q \in Seq(Transitions)
    PROVE  /\ Windows(ws, q) \in Seq(Samples)
           /\ Len(Windows(ws, q)) = Len(ws) + Len(q)
           /\ \A k \in 1 .. Len(ws) : Windows(ws, q)[k] = ws[k]
           /\ \A k \in 1 .. Len(q) :
                 Windows(ws, q)[Len(ws) + k] = [start |-> ValidStart(ws, q, k),
                                                end |-> ValidStart(ws, q, k) + DwellSamples,
                                                target |-> q[k].to]
  <1> DEFINE W(i) == [start |-> ValidStart(ws, q, i),
                      end |-> ValidStart(ws, q, i) + DwellSamples, target |-> q[i].to]
             new == [i \in 1 .. Len(q) |-> W(i)]
  <1>1. DwellSamples \in Nat
    BY FeedbackAssumption
  <1>2. ASSUME NEW i \in 1 .. Len(q) PROVE W(i) \in Samples
    <2> DEFINE s == ValidStart(ws, q, i)
    <2>1. s \in Int
      BY ValidStartSound
    <2>2. q[i].to \in Profiles
      <3>1. q[i] \in Transitions
        OBVIOUS
      <3> QED
        BY <3>1 DEF Transitions
    <2> HIDE DEF s
    <2>3. [start |-> s, end |-> s + DwellSamples, target |-> q[i].to] \in Samples
      BY <2>1, <2>2, <1>1 DEF Samples
    <2> QED
      BY <2>3 DEF s
  <1>3. Windows(ws, q) = ws \o new
    BY DEF Windows
  <1> HIDE DEF W
  <1>4. new \in Seq(Samples) /\ Len(new) = Len(q) /\ \A k \in 1 .. Len(q) : new[k] = W(k)
    BY <1>2
  <1> HIDE DEF new
  <1>5. ws \o new \in Seq(Samples) /\ Len(ws \o new) = Len(ws) + Len(q)
        /\ (\A k \in 1 .. Len(ws) : (ws \o new)[k] = ws[k])
        /\ \A k \in 1 .. Len(q) : (ws \o new)[Len(ws) + k] = new[k]
    BY <1>4
  <1> QED
    BY <1>3, <1>4, <1>5 DEF W

LEMMA CaptureBlockInd == ASSUME IndInv, CaptureBlock PROVE IndInv'
  <1> DEFINE ws == Windows(session.windows, session.queue)
             be == session.block_end + BlockSamples
             st == IF PlanComplete(ws, be) THEN "COMPLETED" ELSE "RUNNING"
             nb == capture.blocks + 1
             V == Len(policy.visits)
             W == Len(session.windows)
             Q == Len(session.queue)
  <1>1. UNCHANGED <<mode, policy, offer, history>> /\ session.state = "RUNNING"
        /\ capture.pc = "idle" /\ (mode = "host" => offer.pc = "idle")
    BY DEF CaptureBlock
  <1>2. session' = [session EXCEPT !.queue = << >>, !.windows = ws, !.block_end = be,
                                   !.state = st]
        /\ (worker' = worker \/ StopWorker)
    BY DEF CaptureBlock
  <1>3. \/ /\ mode = "glrt"
           /\ glrt' = [glrt EXCEPT !.frame_pending = TRUE, !.drain_ready = FALSE]
           /\ capture' = [capture EXCEPT !.pc = "feed", !.blocks = nb]
        \/ /\ mode # "glrt"
           /\ capture' = [capture EXCEPT !.blocks = nb] /\ UNCHANGED glrt
    BY DEF CaptureBlock
  <1>4. worker \in Workers /\ policy \in Policies /\ session \in Sessions
        /\ glrt \in Detectors /\ capture \in Captures
    BY DEF IndInv, TypeOK
  <1>5. /\ session.windows \in Seq(Samples) /\ session.queue \in Seq(Transitions)
        /\ policy.visits \in Seq(Samples)
        /\ session.block_end \in Nat /\ BlockSamples \in Nat /\ capture.blocks \in Nat
        /\ DwellSamples \in Nat
    BY <1>4, FeedbackAssumption DEF Sessions, Policies, Captures
  <1>6. /\ ws \in Seq(Samples) /\ Len(ws) = W + Q
        /\ \A k \in 1 .. W : ws[k] = session.windows[k]
        /\ \A k \in 1 .. Q : ws[W + k] = [start |-> ValidStart(session.windows, session.queue, k),
                                 end |-> ValidStart(session.windows, session.queue, k)
                                            + DwellSamples,
                                 target |-> session.queue[k].to]
    BY <1>5, WindowsSound
  <1>7. V \in Nat /\ W \in Nat /\ Q \in Nat
    BY <1>5
  <1>8. V = W + Q
    BY DEF IndInv, PlanInv
  <1>9. ~history.repeated => \A k \in 1 .. V : ws[k] = policy.visits[k]
    <2> SUFFICES ASSUME ~history.repeated, NEW k \in 1 .. V PROVE ws[k] = policy.visits[k]
      OBVIOUS
    <2>1. /\ \A i \in 1 .. V : policy.visits[i].end = policy.visits[i].start + DwellSamples
          /\ \A i \in 1 .. W : session.windows[i] = policy.visits[i]
          /\ \A i \in 1 .. Q : /\ ~session.queue[i].no_recall
                               /\ policy.visits[W + i].start = session.queue[i].after + Guard
                               /\ policy.visits[W + i].target = session.queue[i].to
      BY DEF IndInv, AgreeInv
    <2>2. \A i \in 1 .. Q : ValidStart(session.windows, session.queue, i)
                               = session.queue[i].after + Guard
      BY <2>1, <1>5, ValidStartSound
    <2> HIDE DEF ws, V, W, Q
    <2>3. CASE k \in 1 .. W
      BY <2>1, <2>3, <1>6
    <2>4. CASE k \notin 1 .. W
      <3>1. PICK i \in 1 .. Q : k = W + i
        <4>1. k - W \in 1 .. Q /\ k = W + (k - W)
          BY <2>4, <1>7, <1>8
        <4> QED
          BY <4>1
      <3> DEFINE v == policy.visits[k]
      <3>2. v \in Samples
        BY <1>5 DEF V
      <3>3. v.start = session.queue[i].after + Guard /\ v.end = v.start + DwellSamples
            /\ v.target = session.queue[i].to
        BY <3>1, <2>1
      <3>4. ws[k] = [start |-> v.start, end |-> v.end, target |-> v.target]
        BY <3>1, <3>3, <2>2, <1>6
      <3> HIDE DEF v
      <3>5. v = [start |-> v.start, end |-> v.end, target |-> v.target]
        BY <3>2 DEF Samples
      <3> QED
        BY <3>4, <3>5 DEF v
    <2> QED
      BY <2>3, <2>4
  <1>10. be \in Nat /\ st \in {"RUNNING", "COMPLETED"} /\ nb \in Nat
    BY <1>5
  <1> HIDE DEF ws, be, st, nb
  <1>11. session' \in Sessions /\ session'.windows = ws /\ session'.queue = << >>
         /\ session'.cancel = session.cancel
    <2> DEFINE e == << >>
    <2>1. e \in Seq(Transitions)
      OBVIOUS
    <2>2. session' = [session EXCEPT !.queue = e, !.windows = ws, !.block_end = be,
                                     !.state = st]
      BY <1>2
    <2> HIDE DEF e
    <2>3. session' \in Sessions /\ session'.windows = ws /\ session'.queue = e
          /\ session'.cancel = session.cancel
      BY <2>1, <2>2, <1>4, <1>6, <1>10 DEF Sessions
    <2> QED
      BY <2>3 DEF e
  <1>12. worker' \in Workers /\ (worker'.pc = worker.pc \/ worker'.pc = "done")
         /\ (worker'.pc = "bind" => worker'.seen = worker.seen)
    BY <1>2, <1>4 DEF StopWorker, Workers
  <1>13. glrt' \in Detectors /\ glrt'.told = glrt.told /\ glrt'.finished = glrt.finished
         /\ (mode = "glrt" => glrt'.frame_pending /\ ~glrt'.drain_ready)
         /\ (mode # "glrt" => glrt' = glrt)
    BY <1>3, <1>4 DEF Detectors
  <1>14. capture' \in Captures /\ (mode = "glrt" => capture'.pc = "feed")
         /\ (mode # "glrt" => capture'.pc = "idle")
    BY <1>1, <1>3, <1>4, <1>10 DEF Captures
  <1>15. TypeOK'
    BY <1>1, <1>11, <1>12, <1>13, <1>14 DEF IndInv, TypeOK
  <1>16. RingInv'
    BY <1>1, <1>12 DEF IndInv, RingInv
  <1>17. HostInv'
    <2>1. CASE mode = "host"
      <3>1. ~Offering' /\ offer'.pc = "idle" /\ mode # "glrt" /\ capture'.pc = "idle"
        BY <2>1, <1>1, <1>14 DEF Offering
      <3> QED
        BY <3>1, <2>1, <1>1 DEF IndInv, HostInv
    <2>2. CASE mode # "host"
      BY <2>2, <1>1 DEF IndInv, HostInv
    <2> QED
      BY <2>1, <2>2
  <1>18. PlanInv'
    <2>1. Len(session'.windows) = V /\ Len(session'.queue) = 0
      BY <1>6, <1>8, <1>11
    <2>2. V = V + 0 /\ (glrt.told <= W => glrt.told <= V)
      <3>1. glrt.told \in Nat
        BY <1>4 DEF Detectors
      <3> HIDE DEF V, W, Q
      <3> QED
        BY <3>1, <1>7, <1>8
    <2>3. Len(policy'.visits) = Len(session'.windows) + Len(session'.queue)
          /\ glrt'.told <= Len(session'.windows)
      BY <2>1, <2>2, <1>1, <1>13 DEF IndInv, PlanInv
    <2> QED
      BY <2>3, <1>1, <1>12 DEF IndInv, PlanInv
  <1>19. AgreeInv'
    <2> SUFFICES ASSUME ~history.repeated PROVE AgreeInv'
      BY <1>1 DEF AgreeInv
    <2>1. \A k \in 1 .. Len(session'.windows) : session'.windows[k] = policy'.visits[k]
      BY <1>1, <1>6, <1>8, <1>9, <1>11
    <2>2. 1 .. Len(session'.queue) = {}
      BY <1>11
    <2> QED
      BY <2>1, <2>2, <1>1 DEF IndInv, AgreeInv
  <1>20. MatchInv'
    BY <1>1 DEF IndInv, MatchInv, Matches, Offering
  <1>21. DrainInv'
    <2>1. ~glrt.finished /\ session.cancel = "none" /\ ~glrt.drain_ready /\ ~history.final
          /\ ~history.late
      BY <1>1 DEF IndInv, DrainInv
    <2>2. ~glrt'.drain_ready /\ ~glrt'.finished /\ session'.cancel = "none"
      BY <2>1, <1>11, <1>13
    <2>3. mode # "glrt" => capture'.pc \notin {"feed", "feeding", "frame", "framing"}
      BY <1>14
    <2>4. capture'.pc \in {"feed", "feeding", "frame", "framing"} => glrt'.frame_pending
      BY <2>3, <1>13
    <2> QED
      BY <2>1, <2>2, <2>4, <1>1 DEF DrainInv
  <1> QED
    BY <1>15, <1>16, <1>17, <1>18, <1>19, <1>20, <1>21 DEF IndInv

\* A step of the detector's wrapper that leaves ring and session alone.
LEMMA DetectorOnly ==
    ASSUME IndInv, UNCHANGED <<mode, worker, policy, session, offer>>,
           capture' \in Captures, glrt' \in Detectors, history' \in Histories,
           history'.offered = history.offered, history'.taken = history.taken,
           history'.overflow = history.overflow, history'.repeated = history.repeated,
           glrt'.told = glrt.told \/ glrt'.told = Len(session.windows),
           capture.pc # "idle" \/ capture'.pc = "idle",
           DrainInv'
    PROVE  IndInv'
  <1>1. TypeOK'
    BY DEF IndInv, TypeOK
  <1>2. RingInv'
    BY DEF IndInv, RingInv
  <1>3. HostInv'
    BY DEF IndInv, HostInv, Offering
  <1>4. PlanInv'
    <2>1. Len(session.windows) \in Nat
      BY WindowsCommitted
    <2>2. glrt'.told <= Len(session.windows)
      BY <2>1 DEF IndInv, PlanInv
    <2> QED
      BY <2>2 DEF IndInv, PlanInv
  <1>5. AgreeInv'
    BY DEF IndInv, AgreeInv
  <1>6. MatchInv'
    BY DEF IndInv, MatchInv, Matches, Offering
  <1> QED
    BY <1>1, <1>2, <1>3, <1>4, <1>5, <1>6 DEF IndInv

LEMMA FeedInd == ASSUME IndInv, Feed PROVE IndInv'
  <1> DEFINE told == IF glrt.finished THEN glrt.told ELSE Len(session.windows)
  <1>1. PICK k \in 0 .. Drain : capture' = [capture EXCEPT !.pc = "feeding", !.left = k]
    BY DEF Feed
  <1>2. capture \in Captures /\ glrt \in Detectors /\ history \in Histories /\ k \in Int
    BY FeedbackAssumption DEF IndInv, TypeOK
  <1>3. glrt' = [glrt EXCEPT !.told = told] /\ capture.pc = "feed"
        /\ UNCHANGED <<mode, worker, policy, session, offer, history>>
    BY DEF Feed
  <1>4. told \in Nat /\ told \in {glrt.told, Len(session.windows)}
    BY <1>2, WindowsCommitted DEF Detectors
  <1> HIDE DEF told
  <1>5. capture' \in Captures /\ capture'.pc = "feeding"
    BY <1>1, <1>2 DEF Captures
  <1>6. glrt' \in Detectors /\ glrt'.told = told /\ glrt'.finished = glrt.finished
        /\ glrt'.frame_pending = glrt.frame_pending /\ glrt'.drain_ready = glrt.drain_ready
    BY <1>2, <1>3, <1>4 DEF Detectors
  <1>7. DrainInv'
    BY <1>3, <1>5, <1>6 DEF IndInv, DrainInv
  <1> QED
    BY <1>2, <1>3, <1>4, <1>5, <1>6, <1>7, DetectorOnly

LEMMA FeedDoneInd == ASSUME IndInv, FeedDone PROVE IndInv'
  <1> DEFINE fin == glrt.finished \/ session.state # "RUNNING"
  <1>1. capture' = [capture EXCEPT !.pc = "frame"] /\ capture.pc = "feeding"
        /\ glrt' = [glrt EXCEPT !.finished = fin]
        /\ UNCHANGED <<mode, worker, policy, session, offer, history>>
    BY DEF FeedDone
  <1>2. capture \in Captures /\ glrt \in Detectors /\ history \in Histories
    BY DEF IndInv, TypeOK
  <1>3. fin \in BOOLEAN /\ (glrt.finished => fin) /\ (fin => session.state # "RUNNING")
    BY <1>2 DEF Detectors, IndInv, DrainInv
  <1> HIDE DEF fin
  <1>4. capture' \in Captures /\ capture'.pc = "frame"
    BY <1>1, <1>2 DEF Captures
  <1>5. glrt' \in Detectors /\ glrt'.told = glrt.told /\ glrt'.finished = fin
        /\ glrt'.frame_pending = glrt.frame_pending /\ glrt'.drain_ready = glrt.drain_ready
    BY <1>1, <1>2, <1>3 DEF Detectors
  <1>6. DrainInv'
    BY <1>1, <1>3, <1>4, <1>5 DEF IndInv, DrainInv
  <1> QED
    BY <1>1, <1>2, <1>4, <1>5, <1>6, DetectorOnly

LEMMA FrameInd == ASSUME IndInv, Frame PROVE IndInv'
  <1>1. PICK k \in 0 .. Drain : capture' = [capture EXCEPT !.pc = "framing", !.left = k]
    BY DEF Frame
  <1>2. capture \in Captures /\ glrt \in Detectors /\ history \in Histories /\ k \in Int
    BY FeedbackAssumption DEF IndInv, TypeOK
  <1>3. UNCHANGED <<mode, worker, policy, session, glrt, offer, history>>
        /\ capture.pc = "frame"
    BY DEF Frame
  <1>4. capture' \in Captures /\ capture'.pc = "framing"
    BY <1>1, <1>2 DEF Captures
  <1>5. DrainInv'
    BY <1>3, <1>4 DEF IndInv, DrainInv
  <1> QED
    BY <1>2, <1>3, <1>4, <1>5, DetectorOnly

LEMMA FrameDoneInd == ASSUME IndInv, FrameDone PROVE IndInv'
  <1> DEFINE ready == glrt.drain_ready \/ glrt.finished
             late == history.late \/ history.final
  <1>1. UNCHANGED <<mode, worker, policy, session, offer>> /\ capture.pc = "framing"
    BY DEF FrameDone
  <1>2. capture \in Captures /\ glrt \in Detectors /\ history \in Histories
    BY DEF IndInv, TypeOK
  <1>3. ASSUME glrt' = [glrt EXCEPT !.frame_pending = FALSE, !.drain_ready = ready],
               capture' = [capture EXCEPT !.pc = "budget"],
               history' = [history EXCEPT !.late = late]
        PROVE  IndInv'
    <2>1. ready \in BOOLEAN /\ late \in BOOLEAN
      BY <1>2 DEF Detectors, Histories
    <2>2. ~late
      BY <1>1 DEF IndInv, DrainInv
    <2>3. ready => glrt.finished
      BY DEF IndInv, DrainInv
    <2>4. ~history.final
      BY <1>1 DEF IndInv, DrainInv
    <2> HIDE DEF ready, late
    <2>5. capture' \in Captures /\ capture'.pc = "budget"
      BY <1>2, <1>3 DEF Captures
    <2>6. glrt' \in Detectors /\ glrt'.told = glrt.told /\ glrt'.finished = glrt.finished
          /\ glrt'.drain_ready = ready
      BY <2>1, <1>2, <1>3 DEF Detectors
    <2>7. history' \in Histories /\ history'.late = late /\ history'.final = history.final
          /\ history'.offered = history.offered /\ history'.taken = history.taken
          /\ history'.overflow = history.overflow /\ history'.repeated = history.repeated
      BY <2>1, <1>2, <1>3 DEF Histories
    <2>8. DrainInv'
      BY <2>2, <2>3, <2>4, <2>5, <2>6, <2>7, <1>1 DEF IndInv, DrainInv
    <2> QED
      BY <2>5, <2>6, <2>7, <2>8, <1>1, DetectorOnly
  <1>4. ASSUME capture' = [capture EXCEPT !.pc = "failed"], UNCHANGED <<glrt, history>>
        PROVE  IndInv'
    <2>1. capture' \in Captures /\ capture'.pc = "failed"
      BY <1>2, <1>4 DEF Captures
    <2>2. DrainInv'
      BY <2>1, <1>1, <1>4 DEF IndInv, DrainInv
    <2> QED
      BY <2>1, <2>2, <1>1, <1>2, <1>4, DetectorOnly
  <1> QED
    BY <1>3, <1>4 DEF FrameDone

LEMMA BudgetInd == ASSUME IndInv, CaptureBudget \/ BudgetDone PROVE IndInv'
  <1>1. UNCHANGED <<mode, worker, policy, session, glrt, offer, history>>
        /\ capture.pc \in {"budget", "charging"}
    BY DEF CaptureBudget, BudgetDone
  <1>2. capture \in Captures /\ glrt \in Detectors /\ history \in Histories
    BY DEF IndInv, TypeOK
  <1>3. capture' \in Captures /\ capture'.pc \in {"idle", "charging"}
    <2>1. CASE capture' = [capture EXCEPT !.pc = "idle"]
      BY <2>1, <1>2 DEF Captures
    <2>2. CASE \E k \in 0 .. Drain : capture' = [capture EXCEPT !.pc = "charging", !.left = k]
      <3>1. PICK k \in 0 .. Drain : capture' = [capture EXCEPT !.pc = "charging", !.left = k]
        BY <2>2
      <3>2. k \in Int
        BY FeedbackAssumption
      <3> QED
        BY <3>1, <3>2, <1>2 DEF Captures
    <2> QED
      BY <2>1, <2>2 DEF CaptureBudget, BudgetDone
  <1>4. DrainInv'
    BY <1>1, <1>3 DEF IndInv, DrainInv
  <1> QED
    BY <1>1, <1>2, <1>3, <1>4, DetectorOnly

LEMMA GlrtDrainInd == ASSUME IndInv, GlrtDrain PROVE IndInv'
  <1>1. UNCHANGED <<mode, worker, policy, session, glrt, capture, offer>>
        /\ glrt.drain_ready /\ history' = [history EXCEPT !.final = TRUE]
    BY DEF GlrtDrain
  <1>2. capture \in Captures /\ glrt \in Detectors /\ history \in Histories
    BY DEF IndInv, TypeOK
  <1>3. history' \in Histories /\ history'.late = history.late /\ history'.final
        /\ history'.offered = history.offered /\ history'.taken = history.taken
        /\ history'.overflow = history.overflow /\ history'.repeated = history.repeated
    BY <1>1, <1>2 DEF Histories
  <1>4. DrainInv'
    BY <1>1, <1>3 DEF IndInv, DrainInv
  <1> QED
    BY <1>1, <1>2, <1>3, <1>4, DetectorOnly

\* The detector has results of visits it was told of only.
LEMMA CompleteTold == ASSUME IndInv PROVE Complete \in Nat /\ Complete <= glrt.told
  <1> DEFINE T == 1 .. glrt.told
             S == {v \in T : session.windows[v].end <= session.block_end}
  <1>1. glrt.told \in Nat
    BY DEF IndInv, TypeOK, Detectors
  <1>2. IsFiniteSet(T) /\ Cardinality(T) = glrt.told
    BY <1>1, FS_Interval
  <1>3. S \subseteq T
    OBVIOUS
  <1>4. IsFiniteSet(S) /\ Cardinality(S) <= Cardinality(T)
    BY <1>2, <1>3, FS_Subset
  <1>5. Cardinality(S) \in Nat
    BY <1>4, FS_CardinalityType
  <1>6. Complete = Cardinality(S)
    BY DEF Complete
  <1> HIDE DEF S, T
  <1> QED
    BY <1>2, <1>4, <1>5, <1>6

LEMMA PublishInd == ASSUME IndInv, PublishObservation PROVE IndInv'
  <1> DEFINE w == session.windows[glrt.sent + 1]
             o == Observation(glrt.sent, w.start + Epoch, w.end + Epoch, w.target, TRUE)
             n == glrt.sent + 1
             v == policy.visits[glrt.sent + 1]
  <1>1. UNCHANGED <<mode, worker, policy, session, capture, history>> /\ Publishing
        /\ glrt.sent < Complete /\ offer' = [offer EXCEPT !.pc = "check", !.o = o]
        /\ glrt' = [glrt EXCEPT !.sent = n]
    BY DEF PublishObservation
  <1>2. mode # "host"
    BY <1>1 DEF Publishing, IndInv, HostInv
  <1>3. offer \in Offers /\ glrt \in Detectors /\ glrt.sent \in Nat /\ glrt.told \in Nat
        /\ session.windows \in Seq(Samples) /\ Epoch \in Nat /\ n \in Nat
    BY FeedbackAssumption DEF IndInv, TypeOK, Detectors, Sessions
  <1>4. glrt.sent + 1 \in 1 .. Len(session.windows) /\ glrt.sent < Len(policy.visits)
    <2> DEFINE W == Len(session.windows)
               V == Len(policy.visits)
               c == Complete
    <2>1. c \in Nat /\ c <= glrt.told /\ glrt.sent < c
      BY <1>1, CompleteTold
    <2>2. W \in Nat /\ V \in Nat /\ W <= V /\ glrt.told <= W
      BY WindowsCommitted DEF IndInv, PlanInv
    <2> HIDE DEF W, V, c
    <2>3. glrt.sent + 1 \in 1 .. W /\ glrt.sent < V
      BY <2>1, <2>2, <1>3
    <2> QED
      BY <2>3 DEF W, V
  <1>5. w \in Samples
    BY <1>3, <1>4
  <1>6. w.start \in Int /\ w.end \in Int /\ w.target \in Profiles
    BY <1>5 DEF Samples
  <1>7. ~history.repeated => w = v
    BY <1>4 DEF IndInv, AgreeInv
  <1> HIDE DEF w
  <1>8. o.visit = glrt.sent /\ o.start = w.start + Epoch /\ o.end = w.end + Epoch
        /\ o.target = w.target
    BY DEF Observation
  <1>9. o \in Observations
    <2>1. w.start + Epoch \in Int /\ w.end + Epoch \in Int
      BY <1>3, <1>6
    <2> QED
      BY <2>1, <1>3, <1>6 DEF Observation, Observations
  <1> HIDE DEF o, n
  <1>10. ~history.repeated => Matches(o)
    BY <1>4, <1>7, <1>8 DEF Matches
  <1>11. offer' \in Offers /\ offer'.pc = "check" /\ offer'.o = o
    BY <1>1, <1>3, <1>9 DEF Offers
  <1>12. glrt' \in Detectors /\ glrt'.told = glrt.told /\ glrt'.finished = glrt.finished
         /\ glrt'.frame_pending = glrt.frame_pending /\ glrt'.drain_ready = glrt.drain_ready
    BY <1>1, <1>3 DEF Detectors
  <1>13. TypeOK'
    BY <1>1, <1>11, <1>12 DEF IndInv, TypeOK
  <1>14. RingInv'
    BY <1>1, <1>11 DEF IndInv, RingInv
  <1>15. HostInv'
    BY <1>1, <1>2, <1>11 DEF HostInv
  <1>16. PlanInv' /\ AgreeInv'
    BY <1>1, <1>12 DEF IndInv, PlanInv, AgreeInv
  <1>17. DrainInv'
    BY <1>1, <1>12 DEF IndInv, DrainInv
  <1>18. MatchInv'
    <2> SUFFICES ASSUME ~history.repeated PROVE MatchInv'
      BY <1>1 DEF MatchInv
    <2>1. Matches(offer.o)'
      BY <1>1, <1>10, <1>11 DEF Matches
    <2>2. \A i \in DOMAIN history'.offered : Matches(history.offered[i])'
      BY <1>1 DEF IndInv, MatchInv, Matches
    <2> QED
      BY <2>1, <2>2, <1>1, <1>2, <1>11 DEF IndInv, MatchInv, Offering
  <1> QED
    BY <1>13, <1>14, <1>15, <1>16, <1>17, <1>18 DEF IndInv

-----------------------------------------------------------------------------
(* Other commands *)

LEMMA CancelInd == ASSUME IndInv, Cancel PROVE IndInv'
  <1>1. UNCHANGED <<mode, policy, glrt, capture, offer, history>>
    BY DEF Cancel
  <1>2. session \in Sessions /\ worker \in Workers
    BY DEF IndInv, TypeOK
  <1>3. worker' \in Workers /\ (worker' = worker \/ worker'.pc = "done")
    BY <1>2 DEF Cancel, StopWorker, Workers
  <1>4. session' \in Sessions /\ session'.windows = session.windows
        /\ session'.queue = session.queue /\ session'.state # "RUNNING"
    <2>1. CASE session' = [session EXCEPT !.state = "CANCELLED", !.cancel = "finish"]
      BY <2>1, <1>2 DEF Sessions
    <2>2. CASE session.state # "RUNNING" /\ session' = [session EXCEPT !.cancel = "finish"]
      BY <2>2, <1>2 DEF Sessions
    <2> QED
      BY <2>1, <2>2 DEF Cancel
  <1>5. TypeOK'
    BY <1>1, <1>3, <1>4 DEF IndInv, TypeOK
  <1>6. RingInv'
    BY <1>1, <1>3 DEF IndInv, RingInv
  <1>7. HostInv'
    BY <1>1, <1>4 DEF IndInv, HostInv, Offering
  <1>8. PlanInv'
    BY <1>1, <1>3, <1>4 DEF IndInv, PlanInv
  <1>9. AgreeInv'
    BY <1>1, <1>4 DEF IndInv, AgreeInv
  <1>10. MatchInv' /\ DrainInv'
    BY <1>1, <1>4 DEF IndInv, MatchInv, Matches, Offering, DrainInv
  <1> QED
    BY <1>5, <1>6, <1>7, <1>8, <1>9, <1>10 DEF IndInv

LEMMA GlrtFinishInd == ASSUME IndInv, GlrtFinish PROVE IndInv'
  <1> DEFINE ready == glrt.drain_ready \/ ~glrt.frame_pending
  <1>1. UNCHANGED <<mode, worker, policy, capture, offer, history>>
        /\ session.cancel = "finish" /\ session' = [session EXCEPT !.cancel = "done"]
        /\ glrt' = [glrt EXCEPT !.finished = TRUE, !.drain_ready = ready]
    BY DEF GlrtFinish
  <1>2. session \in Sessions /\ glrt \in Detectors
    BY DEF IndInv, TypeOK
  <1>3. ready \in BOOLEAN /\ (glrt.drain_ready => ready)
        /\ (capture.pc \in {"feed", "feeding", "frame", "framing"} => ~ready)
        /\ session.state # "RUNNING"
    BY <1>1, <1>2 DEF Detectors, IndInv, DrainInv
  <1> HIDE DEF ready
  <1>4. session' \in Sessions /\ session'.windows = session.windows
        /\ session'.queue = session.queue /\ session'.state = session.state
    BY <1>1, <1>2 DEF Sessions
  <1>5. glrt' \in Detectors /\ glrt'.finished /\ glrt'.drain_ready = ready
        /\ glrt'.told = glrt.told /\ glrt'.frame_pending = glrt.frame_pending
    BY <1>1, <1>2, <1>3 DEF Detectors
  <1>6. TypeOK'
    BY <1>1, <1>4, <1>5 DEF IndInv, TypeOK
  <1>7. RingInv'
    BY <1>1 DEF IndInv, RingInv
  <1>8. HostInv'
    BY <1>1, <1>4 DEF IndInv, HostInv, Offering
  <1>9. PlanInv'
    BY <1>1, <1>4, <1>5 DEF IndInv, PlanInv
  <1>12. AgreeInv'
    BY <1>1, <1>4 DEF IndInv, AgreeInv
  <1>10. MatchInv'
    BY <1>1 DEF IndInv, MatchInv, Matches, Offering
  <1>11. DrainInv'
    BY <1>1, <1>3, <1>4, <1>5 DEF IndInv, DrainInv
  <1> QED
    BY <1>6, <1>7, <1>8, <1>9, <1>10, <1>11, <1>12 DEF IndInv

LEMMA StutterInd == ASSUME IndInv, UNCHANGED vars PROVE IndInv'
  <1>1. UNCHANGED <<mode, worker, policy, session, glrt, capture, offer, history>>
    BY DEF vars
  <1>2. worker' \in Workers
    BY <1>1 DEF IndInv, TypeOK
  <1> QED
    BY <1>1, <1>2, WorkerOnly DEF IndInv, RingInv, PlanInv

-----------------------------------------------------------------------------
(* The invariant *)

LEMMA InitInd == ASSUME Init PROVE IndInv
  <1>1. Capacity \in Nat \ {0} /\ Profiles # {} /\ Dwells[mode] \in Nat \ {0}
        /\ mode \in Modes
    BY FeedbackAssumption DEF Init
  <1>2. NoObservation \in Observations
    BY <1>1 DEF NoObservation, Observation, Observations
  <1>3. << >> \in Seq(Samples) /\ << >> \in Seq(Transitions) /\ << >> \in Seq(Observations)
    OBVIOUS
  <1> HIDE DEF NoObservation
  <1>4. worker \in Workers /\ worker.pc = "wait"
    BY <1>2 DEF Init, Workers
  <1>5. policy \in Policies /\ policy.write = 0 /\ policy.read = 0 /\ policy.visible = 0
        /\ ~policy.fault /\ policy.visits = << >> /\ policy.epoch = -1
        /\ policy.next_host = 0
    BY <1>1, <1>2, <1>3 DEF Init, NewPolicy, Policies
  <1>6. session \in Sessions /\ session.windows = << >> /\ session.queue = << >>
        /\ session.cancel = "none"
    BY <1>3 DEF Init, Sessions
  <1>7. glrt \in Detectors /\ glrt.told = 0 /\ ~glrt.finished /\ ~glrt.drain_ready
    BY DEF Init, Detectors
  <1>8. capture \in Captures /\ capture.pc = "idle"
    BY DEF Init, Captures
  <1>9. offer \in Offers /\ offer.pc = "idle"
    BY <1>2 DEF Init, Offers
  <1>10. history \in Histories /\ history.offered = << >> /\ history.taken = << >>
         /\ ~history.final /\ ~history.late
    BY <1>3 DEF Init, Histories
  <1>11. TypeOK
    BY <1>1, <1>4, <1>5, <1>6, <1>7, <1>8, <1>9, <1>10 DEF TypeOK
  <1>12. RingInv
    BY <1>1, <1>4, <1>5, <1>9, <1>10 DEF RingInv
  <1>13. HostInv
    BY <1>5, <1>8, <1>9, <1>10 DEF HostInv, Offering
  <1>14. PlanInv
    BY <1>1, <1>4, <1>5, <1>6, <1>7 DEF PlanInv
  <1>15. AgreeInv
    BY <1>5, <1>6 DEF AgreeInv
  <1>16. MatchInv
    BY <1>5, <1>9, <1>10 DEF MatchInv, Offering
  <1>17. DrainInv
    BY <1>6, <1>7, <1>8, <1>10 DEF DrainInv
  <1> QED
    BY <1>11, <1>12, <1>13, <1>14, <1>15, <1>16, <1>17 DEF IndInv

LEMMA StepInd == ASSUME IndInv, [Next]_vars PROVE IndInv'
  <1>1. CASE WorkerStep
    BY <1>1, WorkerDecideInd, ChooseLoadInd, ChooseCopyInd, ChooseBindInd, WorkerTuneInd
       DEF WorkerStep
  <1>2. CASE OfferStep
    BY <1>2, OfferCheckInd, OfferStoreInd, OfferPublishInd DEF OfferStep
  <1>3. CASE HostOffer
    BY <1>3, HostOfferInd
  <1>4. CASE HostNext
    BY <1>4, HostNextInd
  <1>5. CASE CaptureStep
    BY <1>5, CaptureBlockInd, FeedInd, PublishInd, FeedDoneInd, FrameInd, FrameDoneInd,
       BudgetInd DEF CaptureStep
  <1>6. CASE Cancel
    BY <1>6, CancelInd
  <1>7. CASE GlrtFinish
    BY <1>7, GlrtFinishInd
  <1>8. CASE GlrtDrain
    BY <1>8, GlrtDrainInd
  <1>9. CASE Done \/ UNCHANGED vars
    BY <1>9, StutterInd DEF Done
  <1> QED
    BY <1>1, <1>2, <1>3, <1>4, <1>5, <1>6, <1>7, <1>8, <1>9 DEF Next

\* The invariant from which the properties of the feedback loop follow: what
\* offer, offer_host, choose, commit, on_block and the detector's wrapper
\* maintain between them.
THEOREM FeedbackInvariant == Spec => []IndInv
  BY InitInd, StepInd, PTL DEF Spec

\* What is in the ring, behind what was taken, is what was offered.
LEMMA RingIntact == ASSUME IndInv PROVE FeedbackIntact
  <1> DEFINE t == history.taken
             a == history.offered
             r == policy.read
             w == policy.write
             ring == InRing
  <1>1. r \in Nat /\ w \in Nat /\ r <= w /\ w - r <= Capacity /\ Capacity \in Nat \ {0}
        /\ t \in Seq(Observations) /\ a \in Seq(Observations) /\ Len(t) = r /\ Len(a) = w
    BY FeedbackAssumption DEF IndInv, TypeOK, Policies, Histories, RingInv
  <1>2. (\A i \in 1 .. r : t[i] = a[i])
        /\ \A i \in r .. w - 1 : policy.feedback[i % Capacity] = a[i + 1]
    BY DEF IndInv, RingInv
  <1>3. ring = [i \in 1 .. w - r |-> policy.feedback[(r + i - 1) % Capacity]]
    BY DEF InRing
  <1>9. offer.pc = "store" => offer.write = w /\ w - r < Capacity
    BY DEF IndInv, RingInv
  <1>10. worker.pc \in {"copy", "bind"} => r < w
    BY DEF IndInv, RingInv
  <1> HIDE DEF ring, t, a, r, w
  <1>4. \A i \in 1 .. w - r : ring[i] = a[r + i]
    <2> SUFFICES ASSUME NEW i \in 1 .. w - r PROVE ring[i] = a[r + i]
      OBVIOUS
    <2>1. r + i - 1 \in r .. w - 1 /\ (r + i - 1) + 1 = r + i
      BY <1>1
    <2> QED
      BY <2>1, <1>2, <1>3
  <1>5. ring \in Seq(Observations) /\ Len(ring) = w - r
    <2>1. \A i \in 1 .. w - r : a[r + i] \in Observations
      <3> SUFFICES ASSUME NEW i \in 1 .. w - r PROVE a[r + i] \in Observations
        OBVIOUS
      <3>1. r + i \in 1 .. Len(a)
        BY <1>1
      <3> QED
        BY <3>1, <1>1
    <2>2. w - r \in Nat
      BY <1>1
    <2>3. ring = [i \in 1 .. w - r |-> ring[i]]
      BY <1>3
    <2>4. \A i \in 1 .. w - r : ring[i] \in Observations
      BY <2>1, <1>4
    <2> QED
      BY <2>2, <2>3, <2>4
  <1>6. t \o ring \in Seq(Observations) /\ Len(t \o ring) = w
        /\ \A i \in 1 .. w : (t \o ring)[i] = IF i <= r THEN t[i] ELSE ring[i - r]
    BY <1>1, <1>5
  <1>7. \A i \in 1 .. w : (t \o ring)[i] = a[i]
    <2> SUFFICES ASSUME NEW i \in 1 .. w PROVE (t \o ring)[i] = a[i]
      OBVIOUS
    <2>1. CASE i <= r
      BY <2>1, <1>1, <1>2, <1>6
    <2>2. CASE ~(i <= r)
      <3>1. i - r \in 1 .. w - r /\ r + (i - r) = i
        BY <2>2, <1>1
      <3> QED
        BY <3>1, <2>2, <1>4, <1>6
    <2> QED
      BY <2>1, <2>2
  <1>8. t \o ring = a
    <2> DEFINE c == t \o ring
    <2>1. c \in Seq(Observations) /\ Len(c) = Len(a)
          /\ \A i \in 1 .. Len(c) : c[i] = a[i]
      BY <1>1, <1>6, <1>7
    <2> HIDE DEF c
    <2>2. c = a
      BY <2>1, <1>1
    <2> QED
      BY <2>2 DEF c
  <1>11. offer.pc = "store" /\ worker.pc \in {"copy", "bind"} =>
            offer.write % Capacity # r % Capacity
    BY <1>1, <1>9, <1>10, SlotsDiffer
  <1> QED
    BY <1>1, <1>8, <1>11 DEF FeedbackIntact, t, a, r, w, ring

\* The ring of spf_hop_adaptive_policy_offer and choose, which no lock guards,
\* gives the scheduler every observation once, in order and whole; offer_host
\* leaves no visit out; and the policy faults only for a full ring or after a
\* dwell without a recall.
THEOREM FeedbackIsSound == Spec => []FeedbackSound
  <1>1. ASSUME IndInv PROVE FeedbackSound
    <2>1. FeedbackIntact
      BY <1>1, RingIntact
    <2>2. HostInOrder
      <3> SUFFICES ASSUME mode = "host"
                   PROVE  /\ policy.next_host = Len(history.offered)
                          /\ \A i \in DOMAIN history.offered :
                                history.offered[i].visit = i - 1 /\ i <= policy.visible
        BY DEF HostInOrder
      <3>1. /\ policy.next_host = policy.write /\ policy.next_host <= Len(policy.visits)
            /\ \A i \in DOMAIN history.offered : history.offered[i].visit = i - 1
        BY <1>1 DEF IndInv, HostInv
      <3>2. Len(history.offered) = policy.write /\ policy.write \in Nat
            /\ policy.visible \in Nat /\ policy.visible = Len(policy.visits)
            /\ history.offered \in Seq(Observations)
        BY <1>1 DEF IndInv, TypeOK, RingInv, PlanInv, Policies, Histories
      <3>3. DOMAIN history.offered = 1 .. policy.write /\ policy.write <= policy.visible
        BY <3>1, <3>2
      <3>4. \A i \in DOMAIN history.offered : i <= policy.visible
        BY <3>2, <3>3
      <3> QED
        BY <3>1, <3>2, <3>4
    <2>3. FaultExplained
      BY <1>1 DEF IndInv, MatchInv, FaultExplained
    <2> QED
      BY <2>1, <2>2, <2>3 DEF FeedbackSound
  <1> QED
    BY <1>1, FeedbackInvariant, PTL

\* The FINAL record that spf_scanner_glrt_drain hands out is the last one: no
\* block's metadata is framed after it, wherever a cancel meets the block.
THEOREM FinalComesLast == Spec => []FinalLast
  <1>1. IndInv => FinalLast
    BY DEF IndInv, DrainInv, FinalLast
  <1> QED
    BY <1>1, FeedbackInvariant, PTL
=============================================================================
