--------------------------- MODULE DdrRing_proofs ---------------------------
(***************************************************************************)
(* Proofs about DdrRing, for every ring size, target and set of refill     *)
(* errors.  The invariants the runs check are not inductive: IndInv adds   *)
(* what ties the threads' positions to the ring.                           *)
(***************************************************************************)
EXTENDS DdrRing, TLAPS

-----------------------------------------------------------------------------
(* What the functions of ddr-ring-core.c preserve, for every ring size and *)
(* target: the type of the ring and the ownership of its slots.            *)

\* Positions stay in the ring, and the wrap is the one of At.
LEMMA NextSlotType ==
    /\ \A s \in Slots : NextSlot(s) \in Slots
    /\ \A c \in Slots, i \in 0 .. SlotCount - 1 :
         /\ NextSlot(At(c, i)) = At(c, i + 1)
         /\ At(c, i + 1) = At(NextSlot(c), i)
         /\ At(c, i) \in Slots
  BY SlotCountAssumption DEF Slots, NextSlot, At

\* The fields a ring's arithmetic needs.
LEMMA RingFields ==
    ASSUME NEW r \in Ring
    PROVE  /\ r.slots \in [Slots -> SlotState]
           /\ r.producer_position \in Slots /\ r.consumer_position \in Slots
           /\ r.occupied \in 0 .. SlotCount
           /\ r.produced_frames \in Nat /\ r.consumed_frames \in Nat
           /\ r.state \in RingState /\ r.terminal_reason \in Reason
           /\ r.producer_reserved \in BOOLEAN /\ r.consumer_reserved \in BOOLEAN
  BY DEF Ring

\* iiod_ddr_ring_core_init makes a well-typed ring whose slots are all free.
LEMMA CoreInitOwned == CoreInit \in Ring /\ Owned(CoreInit)
  BY SlotCountAssumption, TargetFramesAssumption
     DEF CoreInit, Ring, Owned, Window, At, Slots, SlotState, RingState, Reason

\* iiod_ddr_ring_core_start changes no slot.
LEMMA StartOwned ==
    ASSUME NEW r \in Ring, Owned(r)
    PROVE  Start(r) \in Ring /\ Owned(Start(r))
  BY SlotCountAssumption DEF Start, Ring, Owned, Window, RingState

\* A slot given to the producer is the free one after the occupied slots.
LEMMA ProducerReserveOwned ==
    ASSUME NEW r \in Ring, Owned(r), ProducerReserveRet(r) = "OK"
    PROVE  ProducerReserve(r) \in Ring /\ Owned(ProducerReserve(r))
  <1> DEFINE q == ProducerReserve(r)
  <1>1. q \in Ring
    BY SlotCountAssumption DEF ProducerReserve, Ring, Slots, SlotState
  <1>2. /\ q.slots = [r.slots EXCEPT ![r.producer_position] = "PRODUCER"]
        /\ q.producer_reserved = TRUE /\ q.producer_position = r.producer_position
        /\ q.consumer_position = r.consumer_position /\ q.occupied = r.occupied
        /\ q.consumer_reserved = r.consumer_reserved
    BY DEF ProducerReserve, Ring
  <1>3. r.slots[r.producer_position] = "FREE" /\ ~r.producer_reserved
    BY DEF ProducerReserveRet
  <1>4. r.occupied < SlotCount
    BY <1>3, SlotCountAssumption DEF Owned, Window, At, Slots, Ring
  <1>5. r.producer_position \notin Window(r)
    BY <1>3, SlotCountAssumption DEF Owned, Ring
  <1>6. Window(q) = Window(r)
    BY <1>2 DEF Window
  <1>7. Owned(q)
    BY <1>1, <1>2, <1>3, <1>4, <1>5, <1>6, SlotCountAssumption DEF Owned, Slots, Ring
  <1> QED BY <1>1, <1>7

\* A committed slot extends the occupied slots by one.
LEMMA ProducerCommitOwned ==
    ASSUME NEW r \in Ring, Owned(r), ProducerCommitRet(r) = "OK"
    PROVE  ProducerCommit(r) \in Ring /\ Owned(ProducerCommit(r))
  <1> DEFINE q == ProducerCommit(r)
  <1>1. r.producer_reserved /\ r.occupied < SlotCount
    BY DEF ProducerCommitRet, Owned
  <1>2. q \in Ring
    <2>1. /\ NextSlot(r.producer_position) \in Slots
          /\ r.occupied + 1 \in 0 .. SlotCount /\ r.produced_frames + 1 \in Nat
          /\ [r.slots EXCEPT ![r.producer_position] = "COMMITTED"] \in [Slots -> SlotState]
      BY <1>1, NextSlotType, RingFields, SlotCountAssumption DEF SlotState
    <2> QED BY <2>1 DEF ProducerCommit, Ring, RingState
  <1>3. /\ q.slots = [r.slots EXCEPT ![r.producer_position] = "COMMITTED"]
        /\ q.producer_reserved = FALSE
        /\ q.producer_position = NextSlot(r.producer_position)
        /\ q.consumer_position = r.consumer_position /\ q.occupied = r.occupied + 1
        /\ q.consumer_reserved = r.consumer_reserved
    BY DEF ProducerCommit, Ring
  <1>4. r.producer_position \notin Window(r) /\ r.producer_position \in Slots
    BY <1>1, SlotCountAssumption DEF Owned, Ring, Window, At, Slots
  <1>5. Window(q) = Window(r) \cup {r.producer_position}
    <2>1. r.consumer_position \in Slots /\ r.occupied \in 0 .. SlotCount - 1
          /\ r.producer_position = At(r.consumer_position, r.occupied)
      BY <1>1, RingFields, SlotCountAssumption DEF Owned
    <2> HIDE DEF q
    <2> QED BY <1>3, <2>1, SlotCountAssumption DEF Window, At, Slots
  <1>6. q.producer_position = At(q.consumer_position, q.occupied)
    <2>1. r.consumer_position \in Slots /\ r.occupied \in 0 .. SlotCount - 1
          /\ r.producer_position = At(r.consumer_position, r.occupied)
      BY <1>1, RingFields, SlotCountAssumption DEF Owned
    <2> HIDE DEF q
    <2> QED BY <1>3, <2>1, NextSlotType
  <1>7. r.consumer_reserved => r.consumer_position # r.producer_position
    BY <1>1, SlotCountAssumption DEF Owned, Ring, At, Slots
  <1>8. Owned(q)
    BY <1>1, <1>2, <1>3, <1>4, <1>5, <1>6, <1>7, SlotCountAssumption DEF Owned, Slots, Ring
  <1> QED BY <1>2, <1>8

\* An aborted reservation leaves the slot free again.
LEMMA TryProducerAbortOwned ==
    ASSUME NEW r \in Ring, Owned(r)
    PROVE  TryProducerAbort(r) \in Ring /\ Owned(TryProducerAbort(r))
  <1>1. CASE ProducerAbortRet(r) = "OK"
    <2> DEFINE q == ProducerAbort(r)
    <2>1. r.producer_reserved /\ r.occupied < SlotCount
      BY <1>1 DEF ProducerAbortRet, ProducerCommitRet, Owned
    <2>2. q \in Ring
      BY SlotCountAssumption DEF ProducerAbort, Ring, Slots, SlotState
    <2>3. /\ q.slots = [r.slots EXCEPT ![r.producer_position] = "FREE"]
          /\ q.producer_reserved = FALSE /\ q.producer_position = r.producer_position
          /\ q.consumer_position = r.consumer_position /\ q.occupied = r.occupied
          /\ q.consumer_reserved = r.consumer_reserved
      BY DEF ProducerAbort, Ring
    <2>4. r.producer_position \notin Window(r)
      BY <2>1, SlotCountAssumption DEF Owned, Ring, Window, At, Slots
    <2>5. Window(q) = Window(r)
      BY <2>3 DEF Window
    <2>6. Owned(q)
      BY <2>1, <2>2, <2>3, <2>4, <2>5, SlotCountAssumption DEF Owned, Slots, Ring
    <2> QED BY <1>1, <2>2, <2>6 DEF TryProducerAbort
  <1>2. CASE ProducerAbortRet(r) # "OK"
    BY <1>2 DEF TryProducerAbort
  <1> QED BY <1>1, <1>2

\* A slot given to the consumer is the oldest committed one.
LEMMA ConsumerReserveOwned ==
    ASSUME NEW r \in Ring, Owned(r), ConsumerReserveRet(r) = "OK"
    PROVE  ConsumerReserve(r) \in Ring /\ Owned(ConsumerReserve(r))
  <1> DEFINE q == ConsumerReserve(r)
  <1>1. r.occupied > 0 /\ ~r.consumer_reserved
    BY DEF ConsumerReserveRet, Ring
  <1>2. q \in Ring
    BY SlotCountAssumption DEF ConsumerReserve, Ring, Slots, SlotState
  <1>3. /\ q.slots = [r.slots EXCEPT ![r.consumer_position] = "CONSUMER"]
        /\ q.consumer_reserved = TRUE /\ q.producer_position = r.producer_position
        /\ q.consumer_position = r.consumer_position /\ q.occupied = r.occupied
        /\ q.producer_reserved = r.producer_reserved
    BY DEF ConsumerReserve, Ring
  <1>4. r.consumer_position \in Window(r)
    BY <1>1, SlotCountAssumption DEF Ring, Window, Slots
  <1>5. Window(q) = Window(r)
    BY <1>3 DEF Window
  <1>6. Owned(q)
    BY <1>1, <1>2, <1>3, <1>4, <1>5, SlotCountAssumption DEF Owned, Slots, Ring
  <1> QED BY <1>2, <1>6

\* A released slot is free, and the next occupied slot is the oldest.
LEMMA ConsumerReleaseOwned ==
    ASSUME NEW r \in Ring, Owned(r), ConsumerReleaseRet(r) = "OK"
    PROVE  ConsumerRelease(r) \in Ring /\ Owned(ConsumerRelease(r))
  <1> DEFINE q == ConsumerRelease(r)
  <1>1. r.occupied > 0 /\ r.consumer_reserved
    BY DEF ConsumerReleaseRet, Ring
  <1>2. q \in Ring
    <2>1. /\ NextSlot(r.consumer_position) \in Slots
          /\ r.occupied - 1 \in 0 .. SlotCount /\ r.consumed_frames + 1 \in Nat
          /\ [r.slots EXCEPT ![r.consumer_position] = "FREE"] \in [Slots -> SlotState]
      BY <1>1, NextSlotType, RingFields, SlotCountAssumption DEF SlotState
    <2> QED BY <2>1 DEF ConsumerRelease, Ring, RingState, Reason
  <1>3. /\ q.slots = [r.slots EXCEPT ![r.consumer_position] = "FREE"]
        /\ q.consumer_reserved = FALSE /\ q.producer_position = r.producer_position
        /\ q.consumer_position = NextSlot(r.consumer_position)
        /\ q.occupied = r.occupied - 1
        /\ q.producer_reserved = r.producer_reserved
    BY DEF ConsumerRelease, Ring
  <1>4. Window(q) = Window(r) \ {r.consumer_position}
    <2>1. r.consumer_position \in Slots /\ r.occupied \in 1 .. SlotCount
      BY <1>1, RingFields, SlotCountAssumption
    <2> HIDE DEF q
    <2> QED BY <1>3, <2>1, SlotCountAssumption DEF Window, NextSlot, Slots
  <1>5. q.producer_position = At(q.consumer_position, q.occupied)
    BY <1>1, <1>3, SlotCountAssumption DEF Owned, Ring, NextSlot, At, Slots
  <1>6. r.producer_reserved => r.consumer_position # r.producer_position
    BY <1>1, SlotCountAssumption DEF Owned, Ring, At, Slots
  <1>7. Owned(q)
    BY <1>1, <1>2, <1>3, <1>4, <1>5, <1>6, SlotCountAssumption DEF Owned, Slots, Ring
  <1> QED BY <1>2, <1>7

\* Failing and cancelling change no slot but the one the producer holds.
LEMMA EndOwned ==
    ASSUME NEW r \in Ring, Owned(r), NEW reason
    PROVE  /\ TryFail(r, reason) \in Ring /\ Owned(TryFail(r, reason))
           /\ TryCancel(r, reason) \in Ring /\ Owned(TryCancel(r, reason))
  <1> DEFINE a == TryProducerAbort(r)
  <1>1. a \in Ring /\ Owned(a)
    BY TryProducerAbortOwned
  <1>2. ASSUME NEW st \in RingState, NEW rs \in Reason
        PROVE  LET q == [a EXCEPT !.state = st, !.terminal_reason = rs]
               IN  q \in Ring /\ Owned(q)
    <2> DEFINE q == [a EXCEPT !.state = st, !.terminal_reason = rs]
    <2> HIDE DEF a
    <2>1. q \in Ring
      BY <1>1 DEF Ring
    <2>2. /\ q.slots = a.slots /\ q.producer_position = a.producer_position
          /\ q.consumer_position = a.consumer_position /\ q.occupied = a.occupied
          /\ q.producer_reserved = a.producer_reserved
          /\ q.consumer_reserved = a.consumer_reserved
      BY <1>1 DEF Ring
    <2>3. Window(q) = Window(a)
      BY <2>2 DEF Window
    <2>4. Owned(q)
      BY <1>1, <2>2, <2>3 DEF Owned
    <2> QED BY <2>1, <2>4
  <1>3. TryFail(r, reason) \in Ring /\ Owned(TryFail(r, reason))
    <2>1. CASE FailRet(r, reason) = "OK"
      <3>1. reason \in Reason /\ "FAILED" \in RingState
        BY <2>1 DEF FailRet, Reason, RingState
      <3> QED BY <2>1, <3>1, <1>2 DEF TryFail, Fail
    <2>2. CASE FailRet(r, reason) # "OK"
      BY <2>2 DEF TryFail
    <2> QED BY <2>1, <2>2
  <1>4. TryCancel(r, reason) \in Ring /\ Owned(TryCancel(r, reason))
    <2>1. CASE CancelRet(r, reason) = "OK"
      <3>1. reason \in Reason /\ "CANCELLED" \in RingState
        BY <2>1 DEF CancelRet, Reason, RingState
      <3> QED BY <2>1, <3>1, <1>2 DEF TryCancel, Cancel
    <2>2. CASE CancelRet(r, reason) # "OK"
      BY <2>2 DEF TryCancel
    <2> QED BY <2>1, <2>2
  <1> QED BY <1>3, <1>4

\* The continuity fields stay well typed.
LEMMA ContinuityType ==
    ASSUME NEW c \in Continuity, NEW first \in Nat
    PROVE  MarkUnavailable(c, first) \in Continuity /\ ObserveSamples(c, first) \in Continuity
  <1>1. MarkUnavailable(c, first) \in Continuity
    BY DEF MarkUnavailable, Continuity
  <1>2. ASSUME NEW d \in Continuity, NEW l \in Nat, NEW n \in Nat,
               NEW v \in BOOLEAN
        PROVE  [d EXCEPT !.last_contiguous_sample_sequence = l,
                         !.last_contiguous_valid = v,
                         !.expected_sample_sequence = n,
                         !.expected_sample_valid = TRUE] \in Continuity
    BY DEF Continuity
  <1>3. ASSUME NEW d \in Continuity
        PROVE  /\ (IF d.first_unavailable_valid THEN d.last_contiguous_sample_sequence
                                               ELSE first + 1) \in Nat
               /\ (d.last_contiguous_valid \/ ~d.first_unavailable_valid) \in BOOLEAN
    BY DEF Continuity
  <1>4. first + 1 \in Nat
    OBVIOUS
  <1> QED BY <1>1, <1>2, <1>3, <1>4 DEF ObserveSamples

\* An abort takes the reservation and nothing else.
LEMMA TryProducerAbortEffect ==
    ASSUME NEW r \in Ring, Owned(r)
    PROVE  LET q == TryProducerAbort(r)
           IN  /\ ~q.producer_reserved
               /\ q.producer_position = r.producer_position
               /\ q.consumer_position = r.consumer_position
               /\ q.occupied = r.occupied
               /\ q.produced_frames = r.produced_frames
               /\ q.consumed_frames = r.consumed_frames
               /\ q.state = r.state
               /\ q.terminal_reason = r.terminal_reason
               /\ q.consumer_reserved = r.consumer_reserved
  <1>1. CASE r.producer_reserved
    <2>1. r.producer_position \notin Window(r) /\ r.producer_position \in Slots
      <3>1. r.consumer_position \in Slots /\ r.occupied \in 0 .. SlotCount - 1
            /\ r.producer_position = At(r.consumer_position, r.occupied)
        BY <1>1, RingFields, SlotCountAssumption DEF Owned
      <3> QED BY <3>1, SlotCountAssumption DEF Window, At, Slots
    <2>2. r.slots[r.producer_position] = "PRODUCER"
      BY <1>1, <2>1 DEF Owned
    <2>3. TryProducerAbort(r) = ProducerAbort(r)
      BY <1>1, <2>2 DEF TryProducerAbort, ProducerAbortRet, ProducerCommitRet
    <2> QED BY <2>3 DEF ProducerAbort, Ring
  <1>2. CASE ~r.producer_reserved
    BY <1>2 DEF TryProducerAbort, ProducerAbortRet, ProducerCommitRet
  <1> QED BY <1>1, <1>2

\* Failing and cancelling keep the frames and leave a terminal ring alone.
LEMMA EndEffect ==
    ASSUME NEW r \in Ring, Owned(r), NEW reason,
           NEW q \in {TryFail(r, reason), TryCancel(r, reason)}
    PROVE  /\ q.producer_position = r.producer_position
           /\ q.consumer_position = r.consumer_position
           /\ q.occupied = r.occupied
           /\ q.produced_frames = r.produced_frames
           /\ q.consumed_frames = r.consumed_frames
           /\ q.producer_reserved => q = r
           /\ q.state \in {r.state, "FAILED", "CANCELLED"}
           /\ IsTerminal(r) => q = r
  <1> DEFINE a == TryProducerAbort(r)
  <1>1. a \in Ring
    BY TryProducerAbortOwned
  <1>2. CASE FailRet(r, reason) = "OK" /\ q = TryFail(r, reason)
    <2>1. q = [a EXCEPT !.state = "FAILED", !.terminal_reason = reason]
      BY <1>2 DEF TryFail, Fail
    <2>2. ~IsTerminal(r)
      BY <1>2 DEF FailRet
    <2> QED BY <1>1, <2>1, <2>2, TryProducerAbortEffect DEF Ring
  <1>3. CASE CancelRet(r, reason) = "OK" /\ q = TryCancel(r, reason)
    <2>1. q = [a EXCEPT !.state = "CANCELLED", !.terminal_reason = reason]
      BY <1>3 DEF TryCancel, Cancel
    <2>2. ~IsTerminal(r)
      BY <1>3 DEF CancelRet
    <2> QED BY <1>1, <2>1, <2>2, TryProducerAbortEffect DEF Ring
  <1> QED BY <1>2, <1>3 DEF TryFail, TryCancel

-----------------------------------------------------------------------------
(* The ring between its threads.                                           *)

\* While the producer fills a slot there is one outside the occupied ones,
\* even if a cancel took its reservation away; only a running ring with
\* frames to go has a reservation; a draining ring has its target.
RingInv ==
    /\ Owned(ring)
    /\ producer \in {"refill", "commit", "abort"} => ring.occupied < SlotCount
    /\ producer = "commit" => frames[ring.producer_position] # NoFrame
    /\ ring.producer_reserved =>
         /\ ring.state = "RUNNING"
         /\ TargetFrames # 0 => ring.produced_frames < TargetFrames
    /\ ring.state \in {"DRAINING", "COMPLETE"} =>
         TargetFrames # 0 /\ ring.produced_frames = TargetFrames
    /\ ring.state = "COMPLETE" => ring.occupied = 0

\* Where the threads are, and what the entry says of them.
ControlInv ==
    /\ producer = "off" <=> ~entry.producer_started
    /\ producer \notin {"off", "notify", "done"} => ~entry.producer_exited
    /\ producer \in {"loop", "reserve", "refill", "commit", "abort", "exit", "take"}
         => entry.buf
    /\ entry.producer_started =>
         /\ thd.opened
         /\ rw \in {"final", "put", "done"} => entry.producer_exited /\ ~thd.linked
         /\ rw \notin {"put", "done"} => entry.mapped
    /\ thd.opened => entry.producer_started \/ (thd.err /\ ~thd.linked)
    /\ ~entry.producer_started => /\ ~thd.active
                                  /\ rw \in {"top", "final", "put", "done"}
                                  /\ client \notin {"idle", "reading", "hungup"}
    /\ rw = "drain" => ~thd.linked

IndInv == TypeOK /\ RingInv /\ ControlInv /\ FramesInOrder

USE SlotCountAssumption, TargetFramesAssumption, MaxSampleAssumption,
    RefillErrorsAssumption, CounterMetadataAssumption, MaxStartupDiscardsAssumption

-----------------------------------------------------------------------------
\* The initial state satisfies the inductive invariant.
LEMMA InitInd == Init => IndInv
  <1> SUFFICES ASSUME Init PROVE IndInv
    OBVIOUS
  <1>1. ring \in Ring /\ Owned(ring)
    BY CoreInitOwned DEF Init
  <1>2. cont \in Continuity
    BY DEF Init, Continuity, ContinuityInit
  <1>3. TypeOK
    <2>1. captured \in Seq(0 .. MaxSample)
      BY DEF Init
    <2>2. frames \in [Slots -> 0 .. MaxSample \cup {NoFrame}]
      BY DEF Init
    <2>3. discards \in Nat /\ seq \in Nat
      BY DEF Init
    <2>4. thd \in ThdEntry
      BY DEF Init, ThdEntry
    <2>5. entry \in DevEntry
      BY DEF Init, DevEntry
    <2> QED BY <1>1, <1>2, <2>1, <2>2, <2>3, <2>4, <2>5 DEF Init, TypeOK, ProducerPc, RwPc, ClientPc, Errno, NoFrame
  <1>4. RingInv
    BY <1>1 DEF Init, RingInv, CoreInit
  <1>5. ControlInv
    BY DEF Init, ControlInv
  <1>6. FramesInOrder
    BY DEF Init, FramesInOrder, CoreInit
  <1> QED BY <1>3, <1>4, <1>5, <1>6 DEF IndInv

\* The control part, and the types it rests on, over every step.
LEMMA ControlStep == ASSUME IndInv, [Next]_vars PROVE ControlInv'
  <1> USE DEF IndInv
  <1>1. CASE Producer
    BY <1>1 DEF TypeOK, ThdEntry, DevEntry, ControlInv, Producer, ProducerLoop, ProducerReserveSlot,
       ProducerFill, ProducerDiscard, ProducerRefillError, ProducerAbortSlot,
       ProducerCommitSlot, ProducerExit, ProducerTakeBuffer, ProducerExited, ProducerPut,
       DevEntryPut, clientVars, ProducerPc, Locked
  <1>2. CASE Rw
    <2>1. CASE RwOpen
      BY <2>1 DEF TypeOK, ThdEntry, DevEntry, ControlInv, RwOpen, DevEntryPut, Signalled, clientVars, prodVars, RwPc
    <2>2. CASE RwTop
      BY <2>2 DEF TypeOK, ThdEntry, DevEntry, ControlInv, RwTop, DevEntryPut, Signalled, clientVars, prodVars, RwPc
    <2>3. CASE RwWake
      BY <2>3 DEF TypeOK, ThdEntry, DevEntry, ControlInv, RwWake, DevEntryPut, Signalled, clientVars, prodVars, RwPc
    <2>4. CASE RwWait
      BY <2>4 DEF TypeOK, ThdEntry, DevEntry, ControlInv, RwWait, DevEntryPut, Signalled, clientVars, prodVars, RwPc
    <2>5. CASE RwReserve
      BY <2>5 DEF TypeOK, ThdEntry, DevEntry, ControlInv, RwReserve, DevEntryPut, Signalled, clientVars, prodVars, RwPc
    <2>6. CASE RwSent
      BY <2>6 DEF TypeOK, ThdEntry, DevEntry, ControlInv, RwSent, DevEntryPut, Signalled, clientVars, prodVars, RwPc
    <2>7. CASE RwSendFail
      BY <2>7 DEF TypeOK, ThdEntry, DevEntry, ControlInv, RwSendFail, DevEntryPut, Signalled, clientVars, prodVars, RwPc
    <2>8. CASE RwDrainWait
      BY <2>8 DEF TypeOK, ThdEntry, DevEntry, ControlInv, RwDrainWait, DevEntryPut, Signalled, clientVars, prodVars, RwPc
    <2>9. CASE RwDrained
      BY <2>9 DEF TypeOK, ThdEntry, DevEntry, ControlInv, RwDrained, DevEntryPut, Signalled, clientVars, prodVars, RwPc
    <2>10. CASE RwFinal
      BY <2>10 DEF TypeOK, ThdEntry, DevEntry, ControlInv, RwFinal, DevEntryPut, Signalled, clientVars, prodVars, RwPc
    <2>11. CASE RwPut
      BY <2>11 DEF TypeOK, ThdEntry, DevEntry, ControlInv, RwPut, DevEntryPut, Signalled, clientVars, prodVars, RwPc
    <2>12. ASSUME NEW mapped \in BOOLEAN, NEW buf \in BOOLEAN, RwOpenFail(mapped, buf)
           PROVE  ControlInv'
      BY <2>12 DEF TypeOK, ThdEntry, DevEntry, ControlInv, RwOpenFail, clientVars, prodVars
    <2> QED BY <1>2, <2>1, <2>2, <2>3, <2>4, <2>5, <2>6, <2>7, <2>8, <2>9, <2>10, <2>11, <2>12 DEF Rw
  <1>3. CASE Client
    BY <1>3 DEF TypeOK, ThdEntry, DevEntry, ControlInv, Client, ClientOpened, ClientRead, ClientReadDone,
       ClientHangUp, ClientClose, ClientRemove, ClientCloseWait, ClientClosed,
       DevEntryPut, prodVars, clientVars, ClientPc, Locked
  <1>4. CASE PoolStop \/ Terminated \/ UNCHANGED vars
    BY <1>4 DEF ControlInv, PoolStop, Terminated, vars, prodVars, clientVars
  <1> QED BY <1>1, <1>2, <1>3, <1>4 DEF Next

\* The ring stays well typed and its slots well owned: every step leaves the
\* ring alone or is one of the calls the core lemmas are about.
LEMMA OwnedStep == ASSUME IndInv, [Next]_vars PROVE ring' \in Ring /\ Owned(ring')
  <1>1. ring \in Ring /\ Owned(ring)
    BY DEF IndInv, TypeOK, RingInv
  <1>2. CASE UNCHANGED ring
    BY <1>1, <1>2
  <1>3. CASE ProducerReserveSlot
    BY <1>1, <1>3, ProducerReserveOwned DEF ProducerReserveSlot
  <1>4. CASE ProducerDiscard \/ ProducerAbortSlot
    BY <1>1, <1>4, TryProducerAbortOwned DEF ProducerDiscard, ProducerAbortSlot
  <1>5. CASE ProducerCommitSlot
    BY <1>1, <1>5, ProducerCommitOwned DEF ProducerCommitSlot
  <1>6. CASE ProducerExit
    BY <1>1, <1>6, EndOwned DEF ProducerExit
  <1>7. CASE RwOpen
    BY <1>1, <1>7, StartOwned DEF RwOpen
  <1>8. ASSUME NEW mapped, NEW buf, RwOpenFail(mapped, buf)
        PROVE  ring' \in Ring /\ Owned(ring')
    <2>1. Start(ring) \in Ring /\ Owned(Start(ring))
      BY <1>1, StartOwned
    <2> QED BY <1>1, <1>8, <2>1, EndOwned DEF RwOpenFail
  <1>9. CASE RwReserve
    <2> DEFINE c == ConsumerReserve(ring)
    <2>1. CASE ConsumerReserveRet(ring) = "OK"
      <3>1. c \in Ring /\ Owned(c)
        BY <1>1, <2>1, ConsumerReserveOwned
      <3>2. TryCancel(c, "CLIENT_CANCELLED") \in Ring /\ Owned(TryCancel(c, "CLIENT_CANCELLED"))
        BY <3>1, EndOwned
      <3> QED BY <1>1, <1>9, <3>1, <3>2 DEF RwReserve
    <2>2. CASE ConsumerReserveRet(ring) # "OK"
      BY <1>1, <1>9, <2>2 DEF RwReserve
    <2> QED BY <2>1, <2>2
  <1>10. CASE RwSent
    BY <1>1, <1>10, ConsumerReleaseOwned DEF RwSent
  <1>11. CASE RwSendFail \/ RwDrained
    BY <1>1, <1>11, EndOwned DEF RwSendFail, RwDrained
  <1>12. CASE ClientRemove
    BY <1>1, <1>12, EndOwned DEF ClientRemove
  <1>13. CASE Producer
    BY <1>13, <1>2, <1>3, <1>4, <1>5, <1>6
       DEF Producer, ProducerLoop, ProducerFill, ProducerRefillError, ProducerTakeBuffer,
           ProducerExited, ProducerPut
  <1>14. CASE Rw
    BY <1>14, <1>2, <1>7, <1>8, <1>9, <1>10, <1>11
       DEF Rw, RwTop, RwWake, RwWait, RwDrainWait, RwFinal, RwPut
  <1>15. CASE Client
    BY <1>15, <1>2, <1>12
       DEF Client, ClientOpened, ClientRead, ClientReadDone, ClientHangUp, ClientClose,
           ClientCloseWait, ClientClosed
  <1>16. CASE PoolStop \/ Terminated \/ UNCHANGED vars
    BY <1>16, <1>2 DEF PoolStop, Terminated, vars
  <1> QED BY <1>13, <1>14, <1>15, <1>16 DEF Next

\* The client's and the device's entry stay well typed.
LEMMA EntryStep == ASSUME IndInv, [Next]_vars PROVE thd' \in ThdEntry /\ entry' \in DevEntry
  <1> USE DEF IndInv, TypeOK
  <1>1. CASE UNCHANGED <<thd, entry>>
    BY <1>1
  <1>a. ASSUME NEW b \in BOOLEAN, NEW n \in Int
        PROVE  /\ [entry EXCEPT !.ref_count = n] \in DevEntry
               /\ [entry EXCEPT !.buf = b] \in DevEntry
               /\ [entry EXCEPT !.producer_exited = b] \in DevEntry
               /\ [entry EXCEPT !.buf = TRUE, !.mapped = TRUE, !.producer_started = TRUE,
                               !.producer_exited = FALSE, !.ref_count = n] \in DevEntry
               /\ [thd EXCEPT !.linked = b] \in ThdEntry
               /\ Signalled(b) \in ThdEntry
    BY DEF DevEntry, ThdEntry, Signalled
  <1>b. entry.ref_count - 1 \in Int /\ entry.ref_count + 1 \in Int
    BY DEF DevEntry
  <1>2. CASE UNCHANGED thd /\ (DevEntryPut \/ ProducerTakeBuffer \/ ProducerExited)
    BY <1>2, <1>a, <1>b DEF DevEntryPut, ProducerTakeBuffer, ProducerExited
  <1>3. CASE RwOpen
    BY <1>3, <1>a, <1>b DEF RwOpen
  <1>4. ASSUME NEW mapped \in BOOLEAN, NEW buf \in BOOLEAN, RwOpenFail(mapped, buf)
        PROVE  thd' \in ThdEntry /\ entry' \in DevEntry
    BY <1>4 DEF RwOpenFail, DevEntry
  <1>5. CASE UNCHANGED entry /\ \E b \in BOOLEAN : thd' \in {thd, Signalled(b)}
    BY <1>5 DEF Signalled, ThdEntry
  <1>6. CASE RwFinal
    BY <1>6 DEF RwFinal, Signalled, ThdEntry, DevEntry
  <1>7. ASSUME NEW fits \in BOOLEAN, ClientRead(fits)
        PROVE  thd' \in ThdEntry /\ entry' \in DevEntry
    BY <1>7 DEF ClientRead, ThdEntry
  <1>8. CASE ClientClose
    BY <1>8, <1>a, <1>b DEF ClientClose
  <1>9. CASE ClientRemove
    BY <1>9, <1>a, <1>b DEF ClientRemove, DevEntryPut
  <1>10. CASE RwReserve \/ RwSent \/ RwSendFail
    BY <1>5, <1>10 DEF RwReserve, RwSent, RwSendFail
  <1> USE DEF clientVars, prodVars
  <1>11. CASE Producer
    BY <1>11, <1>1, <1>2 DEF Producer, ProducerLoop, ProducerReserveSlot, ProducerFill,
       ProducerDiscard, ProducerRefillError, ProducerAbortSlot, ProducerCommitSlot,
       ProducerExit, ProducerTakeBuffer, ProducerExited, ProducerPut
  <1>12. CASE Rw
    BY <1>12, <1>1, <1>2, <1>3, <1>4, <1>6, <1>10
       DEF Rw, RwTop, RwWake, RwWait, RwDrainWait, RwDrained, RwPut
  <1>13. CASE Client
    BY <1>13, <1>1, <1>2, <1>7, <1>8, <1>9
       DEF Client, ClientOpened, ClientReadDone, ClientHangUp, ClientCloseWait, ClientClosed
  <1>14. CASE PoolStop \/ Terminated \/ UNCHANGED vars
    BY <1>14, <1>1 DEF PoolStop, Terminated, vars
  <1> QED BY <1>11, <1>12, <1>13, <1>14 DEF Next

\* Types over every step.
LEMMA TypeStep == ASSUME IndInv, [Next]_vars PROVE TypeOK'
  <1>1. TypeOK /\ ring' \in Ring /\ thd' \in ThdEntry /\ entry' \in DevEntry
    BY OwnedStep, EntryStep DEF IndInv
  <1>2. CASE Producer
    <2>1. CASE ProducerLoop
      BY <1>1, <2>1 DEF ProducerLoop, TypeOK, ProducerPc, clientVars
    <2>2. CASE ProducerReserveSlot
      BY <1>1, <2>2 DEF ProducerReserveSlot, TypeOK, ProducerPc, clientVars, Errno
    <2>3. ASSUME NEW first \in 0 .. MaxSample, ProducerFill(first) PROVE TypeOK'
      <3>1. frames' \in [Slots -> 0 .. MaxSample \cup {NoFrame}]
        BY <1>1, <2>3, RingFields DEF ProducerFill, TypeOK
      <3>2. seq' \in Nat
        BY <2>3 DEF ProducerFill
      <3> QED BY <1>1, <2>3, <3>1, <3>2 DEF ProducerFill, TypeOK, ProducerPc, clientVars
    <2>4. CASE ProducerDiscard
      BY <1>1, <2>4 DEF ProducerDiscard, TypeOK, ProducerPc, clientVars, Errno
    <2>5. ASSUME NEW e \in RefillErrors, NEW describing \in BOOLEAN,
                 ProducerRefillError(e, describing)
          PROVE  TypeOK'
      <3>1. cont' \in Continuity
        BY <1>1, <2>5, ContinuityType DEF ProducerRefillError, TypeOK
      <3> QED BY <1>1, <2>5, <3>1 DEF ProducerRefillError, TypeOK, ProducerPc, clientVars
    <2>6. CASE ProducerAbortSlot
      BY <1>1, <2>6 DEF ProducerAbortSlot, TypeOK, ProducerPc, clientVars
    <2>7. CASE ProducerCommitSlot
      <3>1. frames[ring.producer_position] \in 0 .. MaxSample
        BY <2>7, RingFields DEF IndInv, TypeOK, RingInv, ProducerCommitSlot
      <3>2. cont' \in Continuity
        BY <1>1, <2>7, <3>1, ContinuityType DEF ProducerCommitSlot, TypeOK
      <3>3. captured' \in Seq(0 .. MaxSample)
        <4>1. captured \in Seq(0 .. MaxSample)
          BY <1>1 DEF TypeOK
        <4>2. \/ captured' = captured
              \/ captured' = Append(captured, frames[ring.producer_position])
          BY <2>7 DEF ProducerCommitSlot
        <4> QED BY <3>1, <4>1, <4>2
      <3>4. error' \in Errno \cup {"none"}
        BY <1>1, <2>7 DEF ProducerCommitSlot, TypeOK, Errno, ObserveSamplesRet
      <3>5. producer' \in ProducerPc
        BY <2>7 DEF ProducerCommitSlot, ProducerPc
      <3> QED BY <1>1, <2>7, <3>2, <3>3, <3>4, <3>5 DEF ProducerCommitSlot, TypeOK, clientVars
    <2>8. CASE ProducerExit
      BY <1>1, <2>8 DEF ProducerExit, TypeOK, ProducerPc, clientVars
    <2>9. CASE ProducerTakeBuffer
      BY <1>1, <2>9 DEF ProducerTakeBuffer, TypeOK, ProducerPc, clientVars
    <2>10. CASE ProducerExited
      BY <1>1, <2>10 DEF ProducerExited, TypeOK, ProducerPc, clientVars
    <2>11. CASE ProducerPut
      BY <1>1, <2>11 DEF ProducerPut, TypeOK, ProducerPc, clientVars
    <2> QED BY <1>2, <2>1, <2>2, <2>3, <2>4, <2>5, <2>6, <2>7, <2>8, <2>9, <2>10, <2>11
            DEF Producer
  <1>3. CASE Rw
    <2>1. CASE RwOpen
      BY <1>1, <2>1 DEF RwOpen, TypeOK, ProducerPc, RwPc, clientVars
    <2>2. ASSUME NEW mapped \in BOOLEAN, NEW buf \in BOOLEAN, RwOpenFail(mapped, buf)
          PROVE  TypeOK'
      BY <1>1, <2>2 DEF RwOpenFail, TypeOK, RwPc, clientVars, prodVars
    <2>3. CASE RwTop \/ RwWake \/ RwWait
      BY <1>1, <2>3 DEF RwTop, RwWake, RwWait, TypeOK, RwPc, clientVars, prodVars
    <2>4. CASE RwReserve
      BY <1>1, <2>4 DEF RwReserve, TypeOK, RwPc, clientVars, prodVars
    <2>5. CASE RwSent
      BY <1>1, <2>5 DEF RwSent, TypeOK, RwPc, clientVars, prodVars
    <2>6. CASE RwSendFail
      BY <1>1, <2>6 DEF RwSendFail, TypeOK, RwPc, clientVars, prodVars
    <2>7. CASE RwDrainWait \/ RwDrained
      BY <1>1, <2>7 DEF RwDrainWait, RwDrained, TypeOK, RwPc, clientVars, prodVars
    <2>8. CASE RwFinal
      BY <1>1, <2>8 DEF RwFinal, TypeOK, RwPc, clientVars, prodVars
    <2>9. CASE RwPut
      BY <1>1, <2>9 DEF RwPut, TypeOK, RwPc, clientVars, prodVars
    <2> QED BY <1>3, <2>1, <2>2, <2>3, <2>4, <2>5, <2>6, <2>7, <2>8, <2>9 DEF Rw
  <1>4. CASE Client
    <2>1. CASE ClientOpened \/ ClientReadDone \/ ClientHangUp \/ ClientCloseWait
      BY <1>1, <2>1 DEF ClientOpened, ClientReadDone, ClientHangUp, ClientCloseWait, TypeOK,
         ClientPc, clientVars, prodVars
    <2>2. ASSUME NEW fits \in BOOLEAN, ClientRead(fits) PROVE TypeOK'
      BY <1>1, <2>2 DEF ClientRead, TypeOK, ClientPc, prodVars
    <2>3. CASE ClientClose
      <3>1. waitClose' \in BOOLEAN
        BY <1>1, <2>3 DEF ClientClose, TypeOK, ThdEntry
      <3> QED BY <1>1, <2>3, <3>1 DEF ClientClose, TypeOK, ClientPc, prodVars
    <2>4. CASE ClientRemove
      BY <1>1, <2>4 DEF ClientRemove, TypeOK, ClientPc, prodVars
    <2>5. CASE ClientClosed
      BY <1>1, <2>5 DEF ClientClosed, TypeOK, ClientPc, prodVars
    <2> QED BY <1>4, <2>1, <2>2, <2>3, <2>4, <2>5 DEF Client
  <1>5. CASE PoolStop \/ Terminated \/ UNCHANGED vars
    BY <1>1, <1>5 DEF PoolStop, Terminated, vars, TypeOK, prodVars, clientVars
  <1> QED BY <1>2, <1>3, <1>4, <1>5 DEF Next

-----------------------------------------------------------------------------
(* The ring and its frames.  KeepsFrames(r, q): q has the frames of r. *)

KeepsFrames(r, q) ==
    /\ q.producer_position = r.producer_position
    /\ q.consumer_position = r.consumer_position
    /\ q.occupied = r.occupied
    /\ q.produced_frames = r.produced_frames
    /\ q.consumed_frames = r.consumed_frames
    /\ q.producer_reserved => r.producer_reserved /\ q.state = r.state
    /\ q.state \in {r.state, "FAILED", "CANCELLED"}

RingPart == RingInv /\ FramesInOrder

\* A step that keeps the frames, and does not put the producer to work,
\* preserves the ring's part of the invariant.
LEMMA KeepsFramesStep ==
    ASSUME IndInv, [Next]_vars, KeepsFrames(ring, ring'), UNCHANGED <<frames, captured>>,
           \/ producer' = producer
           \/ producer' \notin {"refill", "commit", "abort"}
           \/ producer = "refill" /\ producer' = "abort"
    PROVE  RingPart'
  BY OwnedStep DEF KeepsFrames, RingPart, RingInv, FramesInOrder, IndInv

\* The ring's part over the producer's steps.
LEMMA ProducerRingStep == ASSUME IndInv, Producer PROVE RingPart'
  <1>1. ring \in Ring /\ Owned(ring) /\ RingPart /\ [Next]_vars
    BY DEF IndInv, TypeOK, RingInv, RingPart, Next
  <1>2. ring' \in Ring /\ Owned(ring')
    BY <1>1, OwnedStep
  <1>3. CASE UNCHANGED <<ring, frames, captured>> /\ producer' \notin {"refill", "commit", "abort"}
    BY <1>1, <1>3, KeepsFramesStep DEF KeepsFrames
  <1>4. CASE ProducerReserveSlot
    <2>1. CASE ProducerReserveRet(ring) = "OK"
      <3>1. ring' = ProducerReserve(ring) /\ producer' = "refill"
            /\ UNCHANGED <<frames, captured>>
        BY <1>4, <2>1 DEF ProducerReserveSlot
      <3>2. /\ ring'.consumer_position = ring.consumer_position
            /\ ring'.occupied = ring.occupied /\ ring'.producer_reserved
            /\ ring'.produced_frames = ring.produced_frames
            /\ ring'.consumed_frames = ring.consumed_frames
            /\ ring'.state = ring.state
        BY <1>1, <3>1 DEF ProducerReserve, Ring
      <3>3. ring.state = "RUNNING" /\ (TargetFrames # 0 => ring.produced_frames < TargetFrames)
        BY <1>1, <2>1, RingFields DEF ProducerReserveRet
      <3> QED BY <1>1, <1>2, <3>1, <3>2, <3>3 DEF RingPart, RingInv, FramesInOrder, Owned
    <2>2. CASE ProducerReserveRet(ring) # "OK"
      <3>1. UNCHANGED <<ring, frames, captured>> /\ producer' \in {"reserve", "exit"}
        BY <1>4, <2>2 DEF ProducerReserveSlot
      <3> QED BY <1>3, <3>1
    <2> QED BY <2>1, <2>2
  <1>5. ASSUME NEW first \in 0 .. MaxSample, ProducerFill(first) PROVE RingPart'
    <2>1. UNCHANGED <<ring, captured>> /\ ring.occupied < SlotCount
          /\ frames' = [frames EXCEPT ![ring.producer_position] = first]
      BY <1>1, <1>5 DEF ProducerFill, RingPart, RingInv
    <2>2. frames'[ring.producer_position] = first /\ first # NoFrame
      BY <1>1, <2>1, RingFields DEF NoFrame, IndInv, TypeOK
    <2>3. ASSUME NEW i \in 0 .. ring.occupied - 1
          PROVE  frames'[At(ring.consumer_position, i)] = frames[At(ring.consumer_position, i)]
      <3>1. ring.producer_position = At(ring.consumer_position, ring.occupied)
        BY <1>1 DEF Owned
      <3>2. At(ring.consumer_position, i) # At(ring.consumer_position, ring.occupied)
        BY <1>1, <2>1, RingFields DEF At, Slots
      <3>3. At(ring.consumer_position, i) \in Slots /\ frames \in [Slots -> 0 .. MaxSample \cup {NoFrame}]
        BY <1>1, <2>1, RingFields, NextSlotType DEF IndInv, TypeOK
      <3> QED BY <2>1, <3>1, <3>2, <3>3
    <2> QED BY <1>1, <1>5, <2>1, <2>2, <2>3 DEF RingPart, RingInv, FramesInOrder, ProducerFill
  <1>6. CASE ProducerDiscard \/ ProducerAbortSlot
    <2>1. KeepsFrames(ring, ring')
      BY <1>1, <1>6, TryProducerAbortEffect
         DEF ProducerDiscard, ProducerAbortSlot, KeepsFrames
    <2> QED BY <1>1, <1>6, <2>1, KeepsFramesStep DEF ProducerDiscard, ProducerAbortSlot
  <1>7. ASSUME NEW e, NEW describing, ProducerRefillError(e, describing) PROVE RingPart'
    BY <1>1, <1>7, KeepsFramesStep DEF ProducerRefillError, KeepsFrames
  <1>8. CASE ProducerCommitSlot
    <2>1. CASE ProducerCommitRet(ring) # "OK"
      BY <1>3, <1>8, <2>1 DEF ProducerCommitSlot
    <2>2. CASE ProducerCommitRet(ring) = "OK"
      <3>1. /\ ring' = ProducerCommit(ring) /\ UNCHANGED frames
            /\ captured' = Append(captured, frames[ring.producer_position])
            /\ producer' \in {"loop", "exit"}
        BY <1>8, <2>2 DEF ProducerCommitSlot
      <3>2. ring.producer_reserved /\ ring.occupied < SlotCount /\ ring.state = "RUNNING"
            /\ (TargetFrames # 0 => ring.produced_frames < TargetFrames)
        BY <1>1, <2>2 DEF ProducerCommitRet, RingPart, RingInv, Owned
      <3>3. /\ ring'.consumer_position = ring.consumer_position
            /\ ring'.occupied = ring.occupied + 1 /\ ~ring'.producer_reserved
            /\ ring'.produced_frames = ring.produced_frames + 1
            /\ ring'.consumed_frames = ring.consumed_frames
            /\ ring'.state = IF TargetFrames # 0 /\ ring.produced_frames + 1 = TargetFrames
                             THEN "DRAINING" ELSE ring.state
        BY <1>1, <3>1 DEF ProducerCommit, Ring
      <3>4. RingInv'
        BY <1>1, <1>2, <3>1, <3>2, <3>3, RingFields DEF RingInv
      <3>5. captured \in Seq(0 .. MaxSample) /\ Len(captured) = ring.produced_frames
            /\ ring.produced_frames = ring.consumed_frames + ring.occupied
        BY <1>1 DEF IndInv, TypeOK, RingPart, FramesInOrder
      <3>6. /\ Len(captured') = ring.produced_frames + 1
            /\ captured'[ring.produced_frames + 1] = frames[ring.producer_position]
            /\ \A k \in 1 .. ring.produced_frames : captured'[k] = captured[k]
        BY <3>1, <3>5
      <3>7. ASSUME NEW i \in 0 .. ring.occupied
            PROVE  frames[At(ring.consumer_position, i)] =
                     captured'[ring.consumed_frames + i + 1]
        <4>1. CASE i = ring.occupied
          BY <1>1, <3>5, <3>6, <4>1 DEF Owned
        <4>2. CASE i # ring.occupied
          <5>1. i \in 0 .. ring.occupied - 1
            BY <1>1, <4>2, RingFields
          <5>2. ring.consumed_frames + i + 1 \in 1 .. ring.produced_frames
            BY <1>1, <3>5, <5>1, RingFields
          <5> QED BY <1>1, <3>6, <5>1, <5>2 DEF RingPart, FramesInOrder
        <4> QED BY <4>1, <4>2
      <3>8. FramesInOrder'
        <4>1. Len(captured)' = ring'.produced_frames
          BY <3>3, <3>6
        <4>2. ring'.produced_frames = ring'.consumed_frames + ring'.occupied
          BY <1>1, <3>3, <3>5, RingFields
        <4>3. ring'.state # "COMPLETE"
          BY <3>2, <3>3
        <4>4. \A i \in 0 .. ring'.occupied - 1 :
                frames'[At(ring'.consumer_position, i)] = captured'[ring'.consumed_frames + i + 1]
          <5>1. ring'.occupied - 1 = ring.occupied
            BY <1>1, <3>3, RingFields
          <5> QED BY <3>1, <3>3, <3>7, <5>1
        <4> QED BY <4>1, <4>2, <4>3, <4>4 DEF FramesInOrder
      <3> QED BY <3>4, <3>8 DEF RingPart
    <2> QED BY <2>1, <2>2
  <1>9. CASE ProducerExit
    <2>1. KeepsFrames(ring, ring')
      BY <1>1, <1>9, EndEffect DEF ProducerExit, KeepsFrames
    <2> QED BY <1>1, <1>9, <2>1, KeepsFramesStep DEF ProducerExit
  <1> QED BY <1>3, <1>4, <1>5, <1>6, <1>7, <1>8, <1>9
          DEF Producer, ProducerLoop, ProducerTakeBuffer, ProducerExited, ProducerPut

\* The ring's part over the worker's steps.
LEMMA RwRingStep == ASSUME IndInv, Rw PROVE RingPart'
  <1>1. ring \in Ring /\ Owned(ring) /\ RingPart /\ [Next]_vars
    BY DEF IndInv, TypeOK, RingInv, RingPart, Next
  <1>2. ring' \in Ring /\ Owned(ring')
    BY <1>1, OwnedStep
  <1>3. CASE KeepsFrames(ring, ring') /\ UNCHANGED <<frames, captured, producer>>
    BY <1>1, <1>3, KeepsFramesStep
  <1>4. CASE RwTop \/ RwWake \/ RwWait \/ RwDrainWait \/ RwFinal \/ RwPut
    BY <1>1, <1>3, <1>4
       DEF RwTop, RwWake, RwWait, RwDrainWait, RwFinal, RwPut, KeepsFrames, prodVars
  <1>5. CASE RwSendFail \/ RwDrained
    <2>1. ring' = TryCancel(ring, "CLIENT_DISCONNECTED")
      BY <1>5 DEF RwSendFail, RwDrained
    <2>2. KeepsFrames(ring, ring')
      BY <1>1, <2>1, EndEffect DEF KeepsFrames
    <2> QED BY <1>3, <1>5, <2>2 DEF RwSendFail, RwDrained, prodVars
  <1>6. CASE RwOpen
    <2>1. ring' = Start(ring) /\ ring.state = "RESERVED" /\ producer' = "loop"
          /\ UNCHANGED <<frames, captured>>
      BY <1>6 DEF RwOpen, StartRet
    <2>2. /\ ring'.consumer_position = ring.consumer_position
          /\ ring'.occupied = ring.occupied
          /\ ring'.producer_reserved = ring.producer_reserved
          /\ ring'.produced_frames = ring.produced_frames
          /\ ring'.consumed_frames = ring.consumed_frames
          /\ ring'.state = "RUNNING"
      BY <1>1, <2>1 DEF Start, Ring
    <2> QED BY <1>1, <1>2, <2>1, <2>2 DEF RingPart, RingInv, FramesInOrder
  <1>7. ASSUME NEW mapped, NEW buf, RwOpenFail(mapped, buf) PROVE RingPart'
    <2> DEFINE q == Start(ring)
    <2>1. UNCHANGED <<frames, captured, producer>>
      BY <1>7 DEF RwOpenFail, prodVars
    <2>2. CASE buf
      <3>1. ring' = TryFail(q, "INTERNAL_ERROR") /\ ring.state = "RESERVED"
        BY <1>7, <2>2 DEF RwOpenFail, StartRet
      <3>2. q \in Ring /\ Owned(q)
        BY <1>1, StartOwned
      <3>3. ~ring.producer_reserved
        BY <1>1, <3>1 DEF RingPart, RingInv
      <3>4. /\ q.producer_position = ring.producer_position
            /\ q.consumer_position = ring.consumer_position
            /\ q.occupied = ring.occupied
            /\ q.producer_reserved = ring.producer_reserved
            /\ q.produced_frames = ring.produced_frames
            /\ q.consumed_frames = ring.consumed_frames
            /\ q.state = "RUNNING"
        BY <1>1 DEF Start, Ring
      <3>5. TryFail(q, "INTERNAL_ERROR").state = "FAILED"
        <4>1. FailRet(q, "INTERNAL_ERROR") = "OK"
          BY <3>4 DEF FailRet, FailReason, IsTerminal
        <4>2. TryProducerAbort(q) \in Ring
          BY <3>2, TryProducerAbortOwned
        <4> QED BY <4>1, <4>2 DEF TryFail, Fail, Ring
      <3> HIDE DEF q
      <3>6. KeepsFrames(ring, ring')
        BY <3>1, <3>2, <3>3, <3>4, <3>5, EndEffect DEF KeepsFrames
      <3> QED BY <1>3, <2>1, <3>6
    <2>3. CASE ~buf
      BY <1>3, <1>7, <2>1, <2>3 DEF RwOpenFail, KeepsFrames
    <2> QED BY <2>2, <2>3
  <1>8. CASE RwReserve
    <2> DEFINE q == ConsumerReserve(ring)
    <2>1. KeepsFrames(ring, q)
      BY <1>1 DEF ConsumerReserve, KeepsFrames, Ring
    <2>2. CASE ConsumerReserveRet(ring) = "OK"
      <3>1. q \in Ring /\ Owned(q)
        BY <1>1, <2>2, ConsumerReserveOwned
      <3>2. ring' \in {ring, q, TryCancel(q, "CLIENT_CANCELLED")}
        BY <1>8 DEF RwReserve
      <3> HIDE DEF q
      <3>3. KeepsFrames(ring, ring')
        BY <2>1, <3>1, <3>2, EndEffect DEF KeepsFrames
      <3> QED BY <1>3, <1>8, <3>3 DEF RwReserve, prodVars
    <2>3. CASE ConsumerReserveRet(ring) # "OK"
      BY <1>3, <1>8, <2>3 DEF RwReserve, KeepsFrames, prodVars
    <2> QED BY <2>2, <2>3
  <1>9. CASE RwSent
    <2>1. CASE ConsumerReleaseRet(ring) # "OK"
      BY <1>3, <1>9, <2>1 DEF RwSent, KeepsFrames, prodVars
    <2>2. CASE ConsumerReleaseRet(ring) = "OK"
      <3>1. ring' = ConsumerRelease(ring) /\ UNCHANGED <<frames, captured, producer>>
        BY <1>9, <2>2 DEF RwSent, prodVars
      <3>2. ring.occupied > 0 /\ ring.consumer_reserved
        BY <1>1, <2>2, RingFields DEF ConsumerReleaseRet
      <3>3. /\ ring'.consumer_position = NextSlot(ring.consumer_position)
            /\ ring'.producer_position = ring.producer_position
            /\ ring'.occupied = ring.occupied - 1
            /\ ring'.producer_reserved = ring.producer_reserved
            /\ ring'.produced_frames = ring.produced_frames
            /\ ring'.consumed_frames = ring.consumed_frames + 1
            /\ ring'.state = IF ring.state = "DRAINING" /\ ring.occupied = 1
                             THEN "COMPLETE" ELSE ring.state
        BY <1>1, <3>1 DEF ConsumerRelease, Ring
      <3>4. RingInv'
        BY <1>1, <1>2, <3>1, <3>2, <3>3, RingFields DEF RingPart, RingInv
      <3>5. ASSUME NEW i \in 0 .. ring.occupied - 2
            PROVE  frames[At(NextSlot(ring.consumer_position), i)] =
                     captured[ring.consumed_frames + 1 + i + 1]
        <4>1. At(NextSlot(ring.consumer_position), i) = At(ring.consumer_position, i + 1)
          BY <1>1, NextSlotType, RingFields
        <4>2. i + 1 \in 0 .. ring.occupied - 1
          BY <1>1, RingFields
        <4>3. frames[At(ring.consumer_position, i + 1)] =
                captured[ring.consumed_frames + (i + 1) + 1]
          BY <1>1, <4>2 DEF RingPart, FramesInOrder
        <4>4. ring.consumed_frames + (i + 1) + 1 = ring.consumed_frames + 1 + i + 1
          BY <1>1, RingFields
        <4> QED BY <4>1, <4>3, <4>4
      <3>6. FramesInOrder'
        <4>1. ring'.produced_frames = ring'.consumed_frames + ring'.occupied
          BY <1>1, <3>2, <3>3, RingFields DEF RingPart, FramesInOrder
        <4>2. Len(captured') = ring'.produced_frames
          BY <1>1, <3>1, <3>3 DEF RingPart, FramesInOrder
        <4>3. ring'.state = "COMPLETE" =>
                TargetFrames # 0 /\ ring'.consumed_frames = TargetFrames /\ ring'.occupied = 0
          BY <1>1, <3>2, <3>3, <4>1, RingFields DEF RingPart, RingInv, FramesInOrder
        <4>4. ring'.occupied - 1 = ring.occupied - 2
          BY <1>1, <3>3, RingFields
        <4>5. \A i \in 0 .. ring'.occupied - 1 :
                frames'[At(ring'.consumer_position, i)] = captured'[ring'.consumed_frames + i + 1]
          BY <3>1, <3>3, <3>5, <4>4
        <4> QED BY <4>1, <4>2, <4>3, <4>5 DEF FramesInOrder
      <3> QED BY <3>4, <3>6 DEF RingPart
    <2> QED BY <2>1, <2>2
  <1> QED BY <1>4, <1>5, <1>6, <1>7, <1>8, <1>9 DEF Rw

\* The ring's part over the client's steps.
LEMMA ClientRingStep == ASSUME IndInv, Client PROVE RingPart'
  <1>1. ring \in Ring /\ Owned(ring) /\ [Next]_vars
    BY DEF IndInv, TypeOK, RingInv, Next
  <1>2. UNCHANGED <<frames, captured, producer>>
    BY DEF Client, ClientOpened, ClientRead, ClientReadDone, ClientHangUp, ClientClose,
       ClientRemove, ClientCloseWait, ClientClosed, prodVars
  <1>3. ring' \in {ring, TryCancel(ring, "CLIENT_DISCONNECTED")}
    BY DEF Client, ClientOpened, ClientRead, ClientReadDone, ClientHangUp, ClientClose,
       ClientRemove, ClientCloseWait, ClientClosed
  <1>4. KeepsFrames(ring, ring')
    BY <1>1, <1>3, EndEffect DEF KeepsFrames
  <1> QED BY <1>1, <1>2, <1>4, KeepsFramesStep

-----------------------------------------------------------------------------
\* The inductive invariant holds in every reachable state.
THEOREM IndInvHolds == Spec => []IndInv
  <1>1. IndInv /\ [Next]_vars => IndInv'
    <2> SUFFICES ASSUME IndInv, [Next]_vars PROVE IndInv'
      OBVIOUS
    <2>1. TypeOK' /\ ControlInv'
      BY TypeStep, ControlStep
    <2>2. RingPart'
      <3>1. CASE PoolStop \/ Terminated \/ UNCHANGED vars
        <4>1. UNCHANGED <<ring, frames, captured, producer>>
          BY <3>1 DEF PoolStop, Terminated, vars, prodVars
        <4> QED BY <4>1, KeepsFramesStep DEF KeepsFrames
      <3> QED BY <3>1, ProducerRingStep, RwRingStep, ClientRingStep DEF Next
    <2> QED BY <2>1, <2>2 DEF IndInv, RingPart
  <1> QED BY <1>1, InitInd, PTL DEF Spec

\* Every variable keeps its type, for every size of ring.
THEOREM TypeCorrect == Spec => []TypeOK
  <1>1. IndInv => TypeOK
    BY DEF IndInv
  <1> QED BY <1>1, IndInvHolds, PTL

\* The slot states agree with the counters in every interleaving of the
\* producer, the worker and the client, for every size of ring.
THEOREM SlotsAreOwned == Spec => []SlotOwnership
  <1>1. IndInv => SlotOwnership
    BY DEF IndInv, RingInv, SlotOwnership
  <1> QED BY <1>1, IndInvHolds, PTL

\* The client is sent the captured frames, each once and in order, for every
\* size of ring and every target.
THEOREM FramesStayInOrder == Spec => []FramesInOrder
  <1>1. IndInv => FramesInOrder
    BY DEF IndInv
  <1> QED BY <1>1, IndInvHolds, PTL

\* Neither thread touches the ring's memory or the buffer after its release.
THEOREM StorageOutlivesUse == Spec => []StorageInUse
  <1>1. IndInv => StorageInUse
    BY DEF IndInv, ControlInv, StorageInUse, TypeOK, ProducerPc, RwPc, DevEntry
  <1> QED BY <1>1, IndInvHolds, PTL

-----------------------------------------------------------------------------
(* The reported outcome.  GapFreePrefix alone is not inductive: which sample *)
(* is expected next decides what the next frame does to the report.          *)

\* The producer may still commit a frame: every frame so far was observed.
Observing == producer \in {"off", "loop", "reserve", "refill", "commit"}

\* The gap-free run reported ends with frame n: at the first gap, or so far at
\* the last frame.
PrefixEnd(n) ==
    /\ \A i \in 2 .. n : captured[i] = captured[i - 1] + 1
    /\ cont.last_contiguous_sample_sequence = captured[n] + 1
    /\ IF cont.first_unavailable_valid
       THEN /\ n < Len(captured) /\ captured[n + 1] # captured[n] + 1
            /\ cont.first_unavailable_sample_sequence = captured[n] + 1
       ELSE n = Len(captured)

\* While frames are observed the report starts with the first of them, and the
\* sample expected next follows the last.
ContinuityInv ==
    CounterMetadata =>
      /\ GapFreePrefix
      /\ Observing =>
           IF captured = << >>
           THEN /\ ~cont.expected_sample_valid /\ ~cont.last_contiguous_valid
                /\ ~cont.first_unavailable_valid
           ELSE /\ cont.expected_sample_valid
                /\ cont.expected_sample_sequence = captured[Len(captured)] + 1
                /\ \E n \in 1 .. Len(captured) : PrefixEnd(n)

\* A step that leaves the frames and the report alone keeps the invariant, as
\* long as it does not put the producer back to work.
LEMMA ContinuityStays ==
    ASSUME ContinuityInv, UNCHANGED <<captured, cont>>, Observing' => Observing
    PROVE  ContinuityInv'
  BY DEF ContinuityInv, GapFreePrefix, PrefixEnd

\* observe_samples on the frame after a gap-free run, after a gap, or first of
\* all: the run grows by the frame, ends before it, or starts with it.
LEMMA ContinuityCommit == ASSUME IndInv, ContinuityInv, ProducerCommitSlot PROVE ContinuityInv'
  <1> SUFFICES ASSUME CounterMetadata PROVE ContinuityInv'
    BY DEF ContinuityInv
  <1> DEFINE first == frames[ring.producer_position]
             len == Len(captured)
  <1>1. captured \in Seq(0 .. MaxSample) /\ len \in Nat /\ cont \in Continuity
    BY DEF IndInv, TypeOK
  <1>a. \A k \in 1 .. len : captured[k] \in 0 .. MaxSample
    BY <1>1
  <1>2. Observing /\ producer = "commit"
    BY DEF ProducerCommitSlot, Observing
  <1>3. first \in 0 .. MaxSample
    BY RingFields DEF IndInv, TypeOK, RingInv, ProducerCommitSlot
  <1>4. CASE ProducerCommitRet(ring) # "OK"
    BY <1>2, <1>4, ContinuityStays DEF ProducerCommitSlot, Observing
  <1>5. CASE ProducerCommitRet(ring) = "OK"
    <2>1. captured' = Append(captured, first)
      BY <1>5 DEF ProducerCommitSlot
    <2>2. /\ Len(captured') = len + 1 /\ captured'[len + 1] = first
          /\ \A k \in 1 .. len : captured'[k] = captured[k]
          /\ captured' # << >>
      BY <1>1, <1>3, <2>1
    <2>3. captured = << >> <=> len = 0
      BY <1>1
    <2> HIDE DEF first, len
    <2>4. CASE ObserveSamplesRet(first) # "OK"
      <3>1. cont' = cont /\ ~Observing' /\ first = MaxSample
        BY <1>3, <1>5, <2>4 DEF ProducerCommitSlot, Observing, ObserveSamplesRet, first
      <3>2. CASE captured = << >>
        BY <1>2, <3>1, <3>2 DEF ContinuityInv, GapFreePrefix
      <3>3. CASE captured # << >>
        <4>1. PICK n \in 1 .. len : PrefixEnd(n)
          BY <1>2, <3>3 DEF ContinuityInv, len
        <4>2. \A i \in 2 .. n : captured'[i] = captured'[i - 1] + 1
          <5>1. \A i \in 2 .. n : i \in 1 .. len /\ i - 1 \in 1 .. len
            BY <1>1, <4>1
          <5>2. \A i \in 2 .. n : captured[i] = captured[i - 1] + 1
            BY <4>1 DEF PrefixEnd
          <5> QED BY <2>2, <5>1, <5>2
        <4>3. /\ n \in 1 .. Len(captured')
              /\ cont'.last_contiguous_sample_sequence = captured'[n] + 1
          BY <1>1, <2>2, <3>1, <4>1 DEF PrefixEnd
        <4>4. captured'[n + 1] # captured'[n] + 1 \/ captured'[n + 1] = MaxSample
          <5>1. n = len \/ (n + 1 \in 1 .. len /\ captured[n + 1] # captured[n] + 1)
            BY <1>1, <4>1 DEF PrefixEnd, len
          <5> QED BY <2>2, <3>1, <4>1, <5>1
        <4>5. cont'.first_unavailable_valid =>
                cont'.first_unavailable_sample_sequence = cont'.last_contiguous_sample_sequence
          BY <3>1, <4>1 DEF PrefixEnd
        <4> QED BY <3>1, <4>2, <4>3, <4>4, <4>5 DEF ContinuityInv, GapFreePrefix
      <3> QED BY <3>2, <3>3
    <2>5. CASE ObserveSamplesRet(first) = "OK"
      <3>1. cont' = ObserveSamples(cont, first)
        BY <1>5, <2>5 DEF ProducerCommitSlot, first
      <3> DEFINE gap == cont.expected_sample_valid /\ first # cont.expected_sample_sequence
                 missing == gap \/ cont.first_unavailable_valid
      <3>2. /\ cont'.expected_sample_valid
            /\ cont'.expected_sample_sequence = first + 1
            /\ cont'.first_unavailable_valid = missing
            /\ cont'.first_unavailable_sample_sequence =
                 IF gap /\ ~cont.first_unavailable_valid
                 THEN cont.expected_sample_sequence
                 ELSE cont.first_unavailable_sample_sequence
            /\ cont'.last_contiguous_sample_sequence =
                 IF missing THEN cont.last_contiguous_sample_sequence ELSE first + 1
            /\ cont'.last_contiguous_valid = (cont.last_contiguous_valid \/ ~missing)
        BY <1>1, <3>1 DEF ObserveSamples, MarkUnavailable, Continuity
      <3>3. \E n \in 1 .. Len(captured') : PrefixEnd(n)'
        <4>1. CASE captured = << >>
          <5>1. ~missing
            BY <1>2, <4>1 DEF ContinuityInv
          <5> HIDE DEF missing
          <5>2. cont'.last_contiguous_sample_sequence = first + 1
                /\ ~cont'.first_unavailable_valid
            BY <3>2, <5>1
          <5>3. Len(captured') = 1 /\ captured'[1] = first
            BY <2>2, <2>3, <4>1
          <5>4. PrefixEnd(1)'
            BY <5>2, <5>3 DEF PrefixEnd
          <5> QED BY <5>3, <5>4
        <4>2. CASE captured # << >>
          <5>1. PICK n \in 1 .. len : PrefixEnd(n)
            BY <1>2, <4>2 DEF ContinuityInv, len
          <5>2. cont.expected_sample_valid /\ cont.expected_sample_sequence = captured[len] + 1
            BY <1>2, <4>2 DEF ContinuityInv, len
          <5>3. \A i \in 2 .. n : captured'[i] = captured'[i - 1] + 1
            <6>1. \A i \in 2 .. n : i \in 1 .. len /\ i - 1 \in 1 .. len
              BY <1>1, <5>1
            <6>2. \A i \in 2 .. n : captured[i] = captured[i - 1] + 1
              BY <5>1 DEF PrefixEnd
            <6> QED BY <2>2, <6>1, <6>2
          <5>4. CASE ~missing
            <6>1. n = len /\ first = captured[len] + 1
              BY <5>1, <5>2, <5>4 DEF PrefixEnd, len
            <6>2. \A i \in 2 .. len + 1 : captured'[i] = captured'[i - 1] + 1
              BY <1>1, <2>2, <5>1, <5>3, <6>1
            <6>3. PICK m \in Nat : m = len + 1
              BY <1>1
            <6> HIDE DEF missing
            <6>4. /\ cont'.last_contiguous_sample_sequence = captured'[m] + 1
                  /\ ~cont'.first_unavailable_valid
              BY <2>2, <3>2, <5>4, <6>3
            <6>5. PrefixEnd(m)'
              BY <2>2, <6>2, <6>3, <6>4 DEF PrefixEnd
            <6>6. m \in 1 .. Len(captured')
              BY <1>1, <2>2, <6>3
            <6> QED BY <6>5, <6>6
          <5>5. CASE missing
            <6>1. n < len + 1 /\ captured'[n] = captured[n]
              BY <1>1, <2>2, <5>1
            <6>2. captured'[n + 1] # captured'[n] + 1
              <7>1. CASE n = len
                <8>1. first # captured[len] + 1
                  BY <5>1, <5>2, <5>5, <7>1 DEF PrefixEnd, len
                <8> QED BY <2>2, <6>1, <7>1, <8>1
              <7>2. CASE n # len
                <8>1. n + 1 \in 1 .. len /\ captured[n + 1] # captured[n] + 1
                  BY <1>1, <5>1, <7>2 DEF PrefixEnd, len
                <8> QED BY <2>2, <6>1, <8>1
              <7> QED BY <7>1, <7>2
            <6>3. cont'.first_unavailable_sample_sequence = captured[n] + 1
              BY <3>2, <5>1, <5>2, <5>5 DEF PrefixEnd, len
            <6>4. cont'.last_contiguous_sample_sequence = captured[n] + 1
              BY <3>2, <5>1, <5>5 DEF PrefixEnd
            <6>5. PrefixEnd(n)'
              BY <2>2, <3>2, <5>3, <5>5, <6>1, <6>2, <6>3, <6>4 DEF PrefixEnd
            <6> QED BY <1>1, <2>2, <5>1, <6>5
          <5> QED BY <5>4, <5>5
        <4> QED BY <4>1, <4>2
      <3>4. GapFreePrefix'
        BY <3>3 DEF GapFreePrefix, PrefixEnd
      <3> QED BY <2>2, <3>2, <3>3, <3>4 DEF ContinuityInv
    <2> QED BY <2>4, <2>5
  <1> QED BY <1>4, <1>5

\* mark_unavailable for a frame the provider rejects: the sample expected next
\* is the first one missing, and no frame follows.
LEMMA ContinuityRefillError ==
    ASSUME IndInv, ContinuityInv, NEW e, NEW describing, ProducerRefillError(e, describing)
    PROVE  ContinuityInv'
  <1> SUFFICES ASSUME CounterMetadata PROVE ContinuityInv'
    BY DEF ContinuityInv
  <1>1. cont \in Continuity /\ captured \in Seq(0 .. MaxSample)
    BY DEF IndInv, TypeOK
  <1>2. /\ Observing /\ ~Observing' /\ UNCHANGED captured
        /\ cont' \in {cont, MarkUnavailable(cont, seq)}
    BY DEF ProducerRefillError, Observing
  <1>3. CASE captured = << >>
    <2>1. ~cont'.last_contiguous_valid
      BY <1>1, <1>2, <1>3 DEF ContinuityInv, MarkUnavailable, Continuity
    <2> QED BY <1>2, <2>1 DEF ContinuityInv, GapFreePrefix
  <1>4. CASE captured # << >>
    <2>1. PICK n \in 1 .. Len(captured) : PrefixEnd(n)
      BY <1>2, <1>4 DEF ContinuityInv
    <2>2. /\ cont'.last_contiguous_sample_sequence = captured[n] + 1
          /\ cont'.first_unavailable_valid =>
               cont'.first_unavailable_sample_sequence = captured[n] + 1
      <3>1. cont.expected_sample_valid
            /\ cont.expected_sample_sequence = captured[Len(captured)] + 1
        BY <1>2, <1>4 DEF ContinuityInv
      <3> QED BY <1>1, <1>2, <2>1, <3>1 DEF PrefixEnd, MarkUnavailable, Continuity
    <2>3. n = Len(captured) \/ captured[n + 1] # captured[n] + 1
      BY <2>1 DEF PrefixEnd
    <2> QED BY <1>2, <2>1, <2>2, <2>3 DEF ContinuityInv, GapFreePrefix, PrefixEnd
  <1> QED BY <1>3, <1>4

\* Only the producer's commit and its failed refill touch the frames or the
\* report; the worker starts a producer that never ran.
LEMMA ContinuityStep == ASSUME IndInv, ContinuityInv, [Next]_vars PROVE ContinuityInv'
  <1>1. CASE Producer
    <2>1. CASE ProducerLoop \/ ProducerReserveSlot \/ ProducerDiscard
               \/ (\E first \in 0 .. MaxSample : ProducerFill(first))
      BY <2>1, ContinuityStays
         DEF ProducerLoop, ProducerReserveSlot, ProducerDiscard, ProducerFill, Observing
    <2>2. CASE ProducerAbortSlot \/ ProducerExit \/ ProducerTakeBuffer \/ ProducerExited
               \/ ProducerPut
      BY <2>2, ContinuityStays
         DEF ProducerAbortSlot, ProducerExit, ProducerTakeBuffer, ProducerExited,
             ProducerPut, Observing
    <2> QED BY <1>1, <2>1, <2>2, ContinuityCommit, ContinuityRefillError DEF Producer
  <1>2. CASE Rw
    <2>1. CASE RwOpen
      <3>1. producer = "off"
        BY <2>1 DEF RwOpen, IndInv, ControlInv, TypeOK
      <3> QED BY <2>1, <3>1, ContinuityStays DEF RwOpen, Observing
    <2>2. CASE ~RwOpen
      <3>1. UNCHANGED <<captured, cont, producer>>
        BY <1>2, <2>2 DEF Rw, RwOpenFail, RwTop, RwWake, RwWait, RwReserve, RwSent,
           RwSendFail, RwDrainWait, RwDrained, RwFinal, RwPut, prodVars
      <3> QED BY <3>1, ContinuityStays DEF Observing
    <2> QED BY <2>1, <2>2
  <1>3. CASE Client
    <2>1. UNCHANGED <<captured, cont, producer>>
      BY <1>3 DEF Client, ClientOpened, ClientRead, ClientReadDone, ClientHangUp,
         ClientClose, ClientRemove, ClientCloseWait, ClientClosed, prodVars
    <2> QED BY <2>1, ContinuityStays DEF Observing
  <1>4. CASE PoolStop \/ Terminated \/ UNCHANGED vars
    BY <1>4, ContinuityStays DEF PoolStop, Terminated, vars, prodVars, Observing
  <1> QED BY <1>1, <1>2, <1>3, <1>4 DEF Next

\* A terminal ring keeps its state and reason in a step.
Final == IsTerminal(ring) => /\ ring'.state = ring.state
                             /\ ring'.terminal_reason = ring.terminal_reason

\* Every call of the three threads leaves a terminal ring's outcome alone: an
\* end is refused, and a commit or a release needs a ring that is not terminal.
LEMMA FinalStep == ASSUME IndInv, [Next]_vars PROVE Final
  <1>1. ring \in Ring /\ Owned(ring)
    BY DEF IndInv, TypeOK, RingInv
  <1>2. CASE UNCHANGED ring
    BY <1>2 DEF Final
  <1>3. CASE ProducerReserveSlot
    <2>1. /\ ProducerReserve(ring).state = ring.state
          /\ ProducerReserve(ring).terminal_reason = ring.terminal_reason
      BY <1>1 DEF ProducerReserve, Ring
    <2> QED BY <1>3, <2>1 DEF ProducerReserveSlot, Final
  <1>4. CASE ProducerDiscard \/ ProducerAbortSlot
    BY <1>1, <1>4, TryProducerAbortEffect DEF ProducerDiscard, ProducerAbortSlot, Final
  <1>5. CASE ProducerCommitSlot
    <2>1. CASE ProducerCommitRet(ring) # "OK"
      BY <1>2, <1>5, <2>1 DEF ProducerCommitSlot
    <2>2. CASE ProducerCommitRet(ring) = "OK"
      <3>1. ring.state = "RUNNING"
        BY <2>2 DEF ProducerCommitRet, IndInv, RingInv
      <3> QED BY <3>1 DEF Final, IsTerminal
    <2> QED BY <2>1, <2>2
  <1>6. CASE \E reason : ring' \in {TryFail(ring, reason), TryCancel(ring, reason)}
    BY <1>1, <1>6, EndEffect DEF Final
  <1>7. CASE RwOpen
    <2>1. ring.state = "RESERVED"
      BY <1>7 DEF RwOpen, StartRet
    <2> QED BY <2>1 DEF Final, IsTerminal
  <1>a. ASSUME NEW mapped \in BOOLEAN, NEW buf \in BOOLEAN, RwOpenFail(mapped, buf)
        PROVE  Final
    <2>1. CASE buf
      <3>1. ring.state = "RESERVED"
        BY <1>a, <2>1 DEF RwOpenFail, StartRet
      <3> QED BY <3>1 DEF Final, IsTerminal
    <2>2. CASE ~buf
      BY <1>2, <1>a, <2>2 DEF RwOpenFail
    <2> QED BY <2>1, <2>2
  <1>8. CASE RwReserve
    <2>1. CASE ConsumerReserveRet(ring) = "OK"
      <3>1. ~IsTerminal(ring)
        BY <2>1 DEF ConsumerReserveRet, StateAllowsDrain, IsTerminal
      <3> QED BY <3>1 DEF Final
    <2>2. CASE ConsumerReserveRet(ring) # "OK"
      BY <1>2, <1>8, <2>2 DEF RwReserve
    <2> QED BY <2>1, <2>2
  <1>9. CASE RwSent
    <2>1. CASE ConsumerReleaseRet(ring) # "OK"
      BY <1>2, <1>9, <2>1 DEF RwSent
    <2>2. CASE ConsumerReleaseRet(ring) = "OK"
      <3>1. ring' = ConsumerRelease(ring) /\ ring.consumer_reserved
        BY <1>9, <2>2 DEF RwSent, ConsumerReleaseRet
      <3>2. IsTerminal(ring) => ring.state \in {"COMPLETE", "CANCELLED"}
        BY <3>1 DEF IsTerminal
      <3>3. ring.state # "DRAINING" =>
              ring'.state = ring.state /\ ring'.terminal_reason = ring.terminal_reason
        BY <1>1, <3>1 DEF ConsumerRelease, Ring
      <3> QED BY <3>2, <3>3 DEF Final
    <2> QED BY <2>1, <2>2
  <1>10. CASE Producer
    BY <1>10, <1>2, <1>3, <1>4, <1>5, <1>6
       DEF Producer, ProducerLoop, ProducerFill, ProducerRefillError, ProducerExit,
           ProducerTakeBuffer, ProducerExited, ProducerPut
  <1>11. CASE Rw
    BY <1>11, <1>2, <1>6, <1>7, <1>a, <1>8, <1>9
       DEF Rw, RwTop, RwWake, RwWait, RwSendFail, RwDrainWait, RwDrained, RwFinal, RwPut
  <1>12. CASE Client
    BY <1>12, <1>2, <1>6
       DEF Client, ClientOpened, ClientRead, ClientReadDone, ClientHangUp, ClientClose,
           ClientRemove, ClientCloseWait, ClientClosed
  <1>13. CASE PoolStop \/ Terminated \/ UNCHANGED vars
    BY <1>13, <1>2 DEF PoolStop, Terminated, vars
  <1> QED BY <1>10, <1>11, <1>12, <1>13 DEF Next

\* The status of a capture is right about its gap-free start, whatever the
\* order of gaps, overflows and rejected frames, and a terminal state is never
\* rewritten, for every size of ring, target and counter width.
THEOREM OutcomeIsSound == Spec => OutcomeSound
  <1>1. Init => ContinuityInv
    BY DEF Init, ContinuityInit, ContinuityInv, GapFreePrefix
  <1>2. IndInv /\ ContinuityInv /\ [Next]_vars => ContinuityInv'
    BY ContinuityStep
  <1>3. ContinuityInv => GapFreePrefix
    BY DEF ContinuityInv, GapFreePrefix
  <1>4. Spec => []GapFreePrefix
    BY <1>1, <1>2, <1>3, IndInvHolds, PTL DEF Spec
  <1>5. IndInv /\ [Next]_vars => [Final]_vars
    BY FinalStep
  <1>6. Spec => [][Final]_vars
    BY <1>5, IndInvHolds, PTL DEF Spec
  <1> QED BY <1>4, <1>6, PTL DEF OutcomeSound, TerminalIsFinal, Final
=============================================================================
