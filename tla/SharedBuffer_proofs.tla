------------------------ MODULE SharedBuffer_proofs ------------------------
(***************************************************************************)
(* Proofs about SharedBuffer, for any finite set of clients and any number *)
(* of entries: one entry at most is live, every entry is freed exactly     *)
(* with its last user, and the close of an exclusive buffer is answered    *)
(* only when the kernel buffer is gone.                                    *)
(***************************************************************************)
EXTENDS SharedBuffer, FiniteSetTheorems, TLAPS

\* The clients whose own reference to the entry counts, and the ones whose
\* close holds a second one.
Holders(e) == {c \in Client : client[c].entry = e /\ client[c].pc # "closing"}
Waiters(e) == {c \in Client : client[c].entry = e /\ client[c].wait}

\* The references to an entry are those of its worker and its clients.
RefsInv ==
    \A e \in Id :
        entry[e].ref_count = (IF rw[e] = "free" THEN 0 ELSE 1)
                             + Cardinality(Holders(e)) + Cardinality(Waiters(e))

\* The entry that clients find has a worker that has not withdrawn it, and a
\* live entry is the one they find.
DevInv ==
    /\ dev # NoEntry => rw[dev] \notin {"put", "free"}
    /\ \A e \in Id : ~entry[e].closed => dev = e

\* An entry is closed from the moment its worker leaves its loop; no client is
\* on its list then and no answered close comes before.
EntryInv ==
    \A e \in Id :
        /\ entry[e].closed <=> rw[e] \in {"unpublish", "put", "free"}
        /\ entry[e].closed => entry[e].list = {} /\ ~entry[e].buf
        /\ entry[e].acked => entry[e].closed

\* What a client knows of its entry: it is on the list until it is removed or
\* the worker closes the entry, and only a waiting close goes on after that.
ClientInv ==
    \A c \in Client :
        LET e == client[c].entry
        IN  /\ e = NoEntry <=> client[c].pc \in {"closed", "open"}
            /\ client[c].wait => client[c].pc \in {"leaving", "closing"}
            /\ client[c].pc = "closing" => client[c].wait
            /\ client[c].close => client[c].pc \in {"leaving", "closing"}
            /\ e # NoEntry /\ ~entry[e].closed /\ client[c].pc # "closing"
                 => c \in entry[e].list
            /\ \A f \in Id : c \in entry[f].list => e = f /\ client[c].pc # "closing"

\* An exclusive entry has one client, and a close that does not wait for its
\* worker finds it closed.
ExclusiveInv ==
    \A c \in Client :
        LET e == client[c].entry
        IN  e # NoEntry /\ entry[e].cyclic =>
               /\ client[c].pc = "leaving" /\ client[c].close /\ ~client[c].wait
                    => entry[e].closed
               /\ \A d \in Client : client[d].entry = e => d = c

IndInv == TypeOK /\ RefsInv /\ DevInv /\ EntryInv /\ ClientInv /\ ExclusiveInv

-----------------------------------------------------------------------------
(* Counting references *)

\* A set of clients is finite and has a cardinality.
LEMMA ClientsFinite ==
    ASSUME NEW S \in SUBSET Client
    PROVE  IsFiniteSet(S) /\ Cardinality(S) \in Nat /\ (Cardinality(S) = 0 <=> S = {})
  BY ClientAssumption, FS_Subset, FS_CardinalityType, FS_EmptySet

\* A set of clients after a step that can only have changed whether c is in it.
LEMMA CountMember ==
    ASSUME NEW S \in SUBSET Client, NEW T \in SUBSET Client, NEW c \in Client,
           \A d \in Client \ {c} : d \in S <=> d \in T
    PROVE  Cardinality(T) = Cardinality(S) - (IF c \in S THEN 1 ELSE 0)
                                           + (IF c \in T THEN 1 ELSE 0)
  <1>1. Cardinality(S \ {c}) = Cardinality(S) - (IF c \in S THEN 1 ELSE 0)
    BY ClientsFinite, FS_RemoveElement
  <1>2. Cardinality(T \ {c}) = Cardinality(T) - (IF c \in T THEN 1 ELSE 0)
    BY ClientsFinite, FS_RemoveElement
  <1>3. S \ {c} = T \ {c}
    OBVIOUS
  <1>4. Cardinality(S) \in Nat /\ Cardinality(T) \in Nat
    BY ClientsFinite
  <1>5. Cardinality(S \ {c}) = Cardinality(T \ {c})
    BY <1>3
  <1> QED
    BY <1>1, <1>2, <1>4, <1>5

\* Holders and waiters are sets of clients.
LEMMA Counts ==
    \A e : /\ Cardinality(Holders(e)) \in Nat /\ Cardinality(Waiters(e)) \in Nat
           /\ \A c \in Client : c \in Holders(e) => Cardinality(Holders(e)) > 0
           /\ \A c \in Client : c \in Waiters(e) => Cardinality(Waiters(e)) > 0
  <1> TAKE e
  <1>1. Holders(e) \in SUBSET Client /\ Waiters(e) \in SUBSET Client
    BY DEF Holders, Waiters
  <1> QED
    BY <1>1, ClientsFinite

\* The references that a client in state x counts for with entry e.
Own(x, e) == IF x.entry = e /\ x.pc # "closing" THEN 1 ELSE 0
Second(x, e) == IF x.entry = e /\ x.wait THEN 1 ELSE 0

\* The references after client c has gone to state x.
Recount(c, x) ==
    \A e \in Id :
        /\ Cardinality(Holders(e)) \in Nat /\ Cardinality(Waiters(e)) \in Nat
        /\ Cardinality(Holders(e)') = Cardinality(Holders(e)) - Own(client[c], e) + Own(x, e)
        /\ Cardinality(Waiters(e)') = Cardinality(Waiters(e)) - Second(client[c], e) + Second(x, e)

\* What a step of client c does to the references it counts for.
LEMMA CountStep ==
    ASSUME TypeOK, NEW c \in Client, NEW x, client' = [client EXCEPT ![c] = x]
    PROVE  Recount(c, x)
  <1> SUFFICES ASSUME NEW e \in Id
               PROVE  /\ Cardinality(Holders(e)) \in Nat /\ Cardinality(Waiters(e)) \in Nat
                      /\ Cardinality(Holders(e)') =
                            Cardinality(Holders(e)) - Own(client[c], e) + Own(x, e)
                      /\ Cardinality(Waiters(e)') =
                            Cardinality(Waiters(e)) - Second(client[c], e) + Second(x, e)
    BY DEF Recount
  <1>1. client'[c] = x /\ \A d \in Client \ {c} : client'[d] = client[d]
    BY DEF TypeOK
  <1>2. Holders(e) \in SUBSET Client /\ Holders(e)' \in SUBSET Client
        /\ Waiters(e) \in SUBSET Client /\ Waiters(e)' \in SUBSET Client
    BY DEF Holders, Waiters
  <1>3. /\ \A d \in Client \ {c} : d \in Holders(e) <=> d \in Holders(e)'
        /\ \A d \in Client \ {c} : d \in Waiters(e) <=> d \in Waiters(e)'
    BY <1>1 DEF Holders, Waiters
  <1>4. /\ c \in Holders(e) <=> client[c].entry = e /\ client[c].pc # "closing"
        /\ c \in Waiters(e) <=> client[c].entry = e /\ client[c].wait
        /\ c \in Holders(e)' <=> x.entry = e /\ x.pc # "closing"
        /\ c \in Waiters(e)' <=> x.entry = e /\ x.wait
    BY <1>1 DEF Holders, Waiters
  <1>5. Cardinality(Holders(e)') = Cardinality(Holders(e))
            - (IF c \in Holders(e) THEN 1 ELSE 0) + (IF c \in Holders(e)' THEN 1 ELSE 0)
    BY <1>2, <1>3, CountMember
  <1>6. Cardinality(Waiters(e)') = Cardinality(Waiters(e))
            - (IF c \in Waiters(e) THEN 1 ELSE 0) + (IF c \in Waiters(e)' THEN 1 ELSE 0)
    BY <1>2, <1>3, CountMember
  <1> QED
    BY <1>4, <1>5, <1>6, Counts DEF Own, Second

\* The bytes of the channels of some clients are at most those of the device.
LEMMA SampleSizeBound ==
    ASSUME NEW S \in SUBSET Client
    PROVE  SampleSize(S) \in 0 .. Cardinality(Channel)
  <1>1. UNION {Mask[c] : c \in S} \in SUBSET Channel
    BY MaskAssumption
  <1>2. IsFiniteSet(Channel) /\ Cardinality(Channel) \in Nat
    BY ClientAssumption, FS_CardinalityType
  <1>3. /\ IsFiniteSet(UNION {Mask[c] : c \in S})
        /\ Cardinality(UNION {Mask[c] : c \in S}) <= Cardinality(Channel)
    BY <1>1, <1>2, FS_Subset
  <1> QED
    BY <1>2, <1>3, FS_CardinalityType DEF SampleSize

-----------------------------------------------------------------------------
(* The steps *)

\* Initially no entry is allocated and no client is connected.
LEMMA InitInd == Init => IndInv
  <1> SUFFICES ASSUME Init PROVE IndInv
    OBVIOUS
  <1>1. Cardinality(Channel) \in Nat
    BY ClientAssumption, FS_CardinalityType
  <1>2. TypeOK
    BY <1>1, BoundsAssumption
    DEF Init, TypeOK, DevEntry, ThdEntry, RwPc, ParserPdata, Disconnected, NewThd,
        Unallocated, Id, NoEntry
  <1>3. \A e \in Id : Holders(e) = {} /\ Waiters(e) = {}
    BY DEF Init, Holders, Waiters, Disconnected, Id, NoEntry
  <1>4. RefsInv
    <2>1. \A e \in Id : entry[e].ref_count = 0 /\ rw[e] = "free"
      BY DEF Init, Unallocated
    <2>2. \A e \in Id : Cardinality(Holders(e)) = 0 /\ Cardinality(Waiters(e)) = 0
      BY <1>3, FS_EmptySet
    <2> QED
      BY <2>1, <2>2 DEF RefsInv
  <1>5. DevInv /\ EntryInv /\ ClientInv /\ ExclusiveInv
    BY DEF Init, DevInv, EntryInv, ClientInv, ExclusiveInv, Unallocated, Disconnected, NoEntry
  <1> QED
    BY <1>2, <1>4, <1>5 DEF IndInv

\* A step that changes no client counts no reference.
LEMMA CountUnchanged ==
    ASSUME UNCHANGED client, NEW e
    PROVE  Holders(e)' = Holders(e) /\ Waiters(e)' = Waiters(e)
  BY DEF Holders, Waiters

\* The fields of an entry by which clients and worker find their way.
Same(d, e) ==
    /\ d.cyclic = entry[e].cyclic /\ d.ref_count = entry[e].ref_count
    /\ d.list = entry[e].list /\ d.closed = entry[e].closed /\ d.acked = entry[e].acked

\* What the answers of the worker make of a client is of its type.
LEMMA AnswerType ==
    ASSUME NEW t \in ThdEntry
    PROVE  /\ \A b \in BOOLEAN : Signalled(t, b) \in ThdEntry
           /\ \A b \in BOOLEAN : [t EXCEPT !.active = b] \in ThdEntry
           /\ \A b \in BOOLEAN : [Signalled(t, b) EXCEPT !.wait_for_open = FALSE] \in ThdEntry
           /\ \A n \in 0 .. t.nb : [t EXCEPT !.nb = @ - n] \in ThdEntry
           /\ \A size : Reopened(t, size) \in ThdEntry
  <1>1. /\ \A b \in BOOLEAN : Signalled(t, b) \in ThdEntry
        /\ \A b \in BOOLEAN : [t EXCEPT !.active = b] \in ThdEntry
    <2>1. 0 \in 0 .. MaxBytes
      BY BoundsAssumption
    <2> QED
      BY <2>1 DEF ThdEntry, Signalled
  <1>2. \A u \in ThdEntry : [u EXCEPT !.wait_for_open = FALSE] \in ThdEntry
    BY DEF ThdEntry
  <1>3. \A n \in 0 .. t.nb : [t EXCEPT !.nb = @ - n] \in ThdEntry
    <2> TAKE n \in 0 .. t.nb
    <2>1. t.nb \in 0 .. MaxBytes /\ t.nb - n \in 0 .. MaxBytes
      BY BoundsAssumption DEF ThdEntry
    <2> QED
      BY <2>1 DEF ThdEntry
  <1> QED
    BY <1>1, <1>2, <1>3 DEF Reopened

\* A client that was served some of its bytes is of its type.
LEMMA ServedType ==
    ASSUME NEW t \in ThdEntry, NEW n \in 0 .. t.nb, NEW e
    PROVE  Served(e, t, n) \in ThdEntry
  BY AnswerType DEF Served

\* The share of a client is no more than it asked for.
LEMMA ShareBound ==
    ASSUME NEW c \in Client, thd[c] \in ThdEntry
    PROVE  Share(c) \in 0 .. thd[c].nb
  <1>1. SampleSize({c}) \in 0 .. Cardinality(Channel) /\ Cardinality(Channel) \in Nat
    BY SampleSizeBound, ClientAssumption, FS_CardinalityType
  <1>2. thd[c].nb \in Nat
    BY BoundsAssumption DEF ThdEntry
  <1> QED
    BY <1>1, <1>2 DEF Share

\* A step that leaves the clients alone and an entry in the state of its worker.
LEMMA LoopFrame ==
    ASSUME IndInv, NEW e \in Id, NEW d \in DevEntry, Same(d, e),
           NEW r \in RwPc, entry' = [entry EXCEPT ![e] = d], rw' = [rw EXCEPT ![e] = r],
           ~entry[e].closed, r \in {"top", "waiting", "refill", "push"},
           UNCHANGED <<output, dev, client>>, thd' \in [Client -> ThdEntry]
    PROVE  IndInv'
  <1> USE DEF IndInv
  <1>1. TypeOK'
    BY DEF TypeOK
  <1>2. /\ entry'[e] = d /\ rw'[e] = r
        /\ \A f \in Id \ {e} : entry'[f] = entry[f] /\ rw'[f] = rw[f]
    BY DEF TypeOK
  <1>3. rw[e] \notin {"unpublish", "put", "free"}
    BY DEF EntryInv
  <1>4. RefsInv'
    BY <1>2, <1>3, CountUnchanged DEF RefsInv, Same
  <1>5. DevInv'
    BY <1>2, <1>3 DEF DevInv, Same, TypeOK
  <1>6. EntryInv'
    BY <1>2, <1>3 DEF EntryInv, Same
  <1>7. /\ \A f \in Id : /\ entry'[f].closed = entry[f].closed
                         /\ entry'[f].list = entry[f].list
                         /\ entry'[f].cyclic = entry[f].cyclic
        /\ \A c \in Client : client[c].entry \in Id \cup {NoEntry}
    BY <1>2 DEF Same, TypeOK, ParserPdata
  <1>8. ClientInv'
    BY <1>7 DEF ClientInv
  <1>9. ExclusiveInv'
    BY <1>7 DEF ExclusiveInv
  <1> QED
    BY <1>1, <1>4, <1>5, <1>6, <1>8, <1>9

\* The steps of the worker of e in its loop: the buffer is recreated, refilled
\* or pushed.  Only the answers to the clients and the buffer change.
LEMMA RwLoopInd ==
    ASSUME IndInv, NEW e \in Id,
           \/ RwReopen(e) \/ RwTop(e)
           \/ \E ok \in BOOLEAN, gone \in SUBSET Active(e) : RwRefilled(e, ok, gone)
           \/ \E ok \in BOOLEAN, gone \in SUBSET Active(e) : RwPushed(e, ok, gone)
    PROVE  IndInv'
  <1> USE DEF IndInv
  <1>1. /\ rw[e] \in {"top", "refill", "push"} /\ ~entry[e].closed
        /\ entry[e] \in DevEntry /\ entry = [entry EXCEPT ![e] = entry[e]]
        /\ \A c \in Client : thd[c] \in ThdEntry /\ Share(c) \in 0 .. thd[c].nb
    BY ShareBound DEF RwReopen, RwTop, RwRefilled, RwPushed, EntryInv, TypeOK
  <1>2. CASE RwReopen(e)
    <2> DEFINE size == SampleSize(entry[e].list)
               d == [entry[e] EXCEPT !.update_mask = FALSE, !.buf = TRUE,
                                     !.cancelled = FALSE, !.sample_size = size]
    <2>1. size \in 0 .. Cardinality(Channel)
      BY <1>1, SampleSizeBound DEF DevEntry
    <2> HIDE DEF size
    <2>2. d \in DevEntry /\ Same(d, e)
      BY <1>1, <2>1 DEF DevEntry, Same
    <2>3. entry' = [entry EXCEPT ![e] = d]
      BY <1>1, <1>2 DEF RwReopen, size, TypeOK
    <2> HIDE DEF d
    <2>4. thd' \in [Client -> ThdEntry]
      <3>1. \A c \in Client : Reopened(thd[c], SampleSize(entry[e].list)) \in ThdEntry
        BY <1>1, AnswerType
      <3> QED
        BY <1>1, <1>2, <3>1 DEF RwReopen
    <2> QED
      BY <1>1, <1>2, <2>2, <2>3, <2>4, LoopFrame DEF RwReopen, RwPc
  <1>3. CASE RwTop(e)
    <2>1. thd' \in [Client -> ThdEntry]
      <3> DEFINE serve == {c \in entry[e].list : thd[c].nb >= entry[e].sample_size}
      <3>1. \A c \in Client : (c \in serve) \in BOOLEAN
        OBVIOUS
      <3>2. thd' = [c \in Client |->
                      IF c \in entry[e].list THEN [thd[c] EXCEPT !.active = c \in serve]
                      ELSE thd[c]]
        BY <1>3 DEF RwTop
      <3> HIDE DEF serve
      <3>3. \A c \in Client : [thd[c] EXCEPT !.active = c \in serve] \in ThdEntry
        BY <1>1, <3>1, AnswerType
      <3> QED
        BY <1>1, <3>2, <3>3
    <2>2. \E r \in {"waiting", "refill", "push"} : rw' = [rw EXCEPT ![e] = r]
      BY <1>3 DEF RwTop
    <2> QED
      BY <1>1, <1>3, <2>1, <2>2, LoopFrame DEF RwTop, RwPc, Same
  <1>4. ASSUME NEW ok \in BOOLEAN, NEW gone \in SUBSET Active(e), RwRefilled(e, ok, gone)
        PROVE  IndInv'
    <2>1. thd' \in [Client -> ThdEntry]
      BY <1>1, <1>4, AnswerType, ServedType DEF RwRefilled
    <2> QED
      BY <1>1, <1>4, <2>1, LoopFrame DEF RwRefilled, RwPc, Same
  <1>5. ASSUME NEW ok \in BOOLEAN, NEW gone \in SUBSET Active(e), RwPushed(e, ok, gone)
        PROVE  IndInv'
    <2>1. thd' \in [Client -> ThdEntry]
      BY <1>1, <1>5, AnswerType, ServedType DEF RwPushed
    <2> QED
      BY <1>1, <1>5, <2>1, LoopFrame DEF RwPushed, RwPc, Same
  <1> QED
    BY <1>2, <1>3, <1>4, <1>5

\* The worker closes its entry: nobody is on the list any more, the buffer is gone.
LEMMA RwExitInd ==
    ASSUME IndInv, NEW e \in Id, RwExit(e)
    PROVE  IndInv'
  <1> USE DEF IndInv
  <1> DEFINE d == TornDown(entry[e])
  <1>1. entry[e] \in DevEntry /\ ~entry[e].closed /\ rw[e] = "top"
    BY DEF RwExit, EntryInv, TypeOK
  <1>2. /\ d \in DevEntry /\ d.list = {} /\ ~d.buf /\ d.closed
        /\ d.ref_count = entry[e].ref_count /\ d.cyclic = entry[e].cyclic
    BY <1>1 DEF TornDown, DevEntry
  <1>3. entry' = [entry EXCEPT ![e] = d] /\ rw' = [rw EXCEPT ![e] = "unpublish"]
        /\ UNCHANGED <<output, dev, client>>
    BY DEF RwExit
  <1> HIDE DEF d
  <1>4. thd' \in [Client -> ThdEntry]
    <2>1. \A c \in Client : thd[c] \in ThdEntry
      BY DEF TypeOK
    <2>2. \A c \in Client :
            [Signalled(thd[c], TRUE) EXCEPT !.wait_for_open = FALSE] \in ThdEntry
      BY <2>1, AnswerType
    <2> QED
      BY <2>1, <2>2 DEF RwExit
  <1>5. TypeOK'
    BY <1>2, <1>3, <1>4 DEF TypeOK, RwPc
  <1>6. /\ entry'[e] = d /\ rw'[e] = "unpublish"
        /\ \A f \in Id \ {e} : entry'[f] = entry[f] /\ rw'[f] = rw[f]
    BY <1>3 DEF TypeOK
  <1>7. RefsInv'
    BY <1>1, <1>2, <1>3, <1>6, CountUnchanged DEF RefsInv
  <1>8. DevInv'
    BY <1>2, <1>3, <1>6 DEF DevInv, TypeOK
  <1>9. EntryInv'
    BY <1>2, <1>6 DEF EntryInv
  <1>10. /\ \A f \in Id : /\ entry[f].closed => entry'[f].closed
                          /\ \A c \in entry'[f].list : c \in entry[f].list
                          /\ ~entry'[f].closed => entry'[f] = entry[f]
                          /\ entry'[f].cyclic = entry[f].cyclic
         /\ \A c \in Client : client[c].entry \in Id \cup {NoEntry}
    BY <1>2, <1>6 DEF TypeOK, ParserPdata
  <1>11. ClientInv'
    BY <1>3, <1>10 DEF ClientInv
  <1>12. ExclusiveInv'
    BY <1>3, <1>10 DEF ExclusiveInv
  <1> QED
    BY <1>5, <1>7, <1>8, <1>9, <1>11, <1>12

\* The worker withdraws the entry from the device.
LEMMA RwUnpublishInd ==
    ASSUME IndInv, NEW e \in Id, RwUnpublish(e)
    PROVE  IndInv'
  <1> USE DEF IndInv
  <1>1. /\ rw[e] = "unpublish" /\ entry[e].closed
        /\ dev' = (IF dev = e THEN NoEntry ELSE dev)
        /\ rw' = [rw EXCEPT ![e] = "put"] /\ UNCHANGED <<output, entry, thd, client>>
    BY DEF RwUnpublish, EntryInv
  <1>2. rw'[e] = "put" /\ \A f \in Id \ {e} : rw'[f] = rw[f]
    BY <1>1 DEF TypeOK
  <1>3. TypeOK'
    BY <1>1 DEF TypeOK, RwPc
  <1>4. RefsInv'
    BY <1>1, <1>2, CountUnchanged DEF RefsInv
  <1>5. DevInv'
    BY <1>1, <1>2 DEF DevInv, TypeOK, NoEntry, Id
  <1>6. EntryInv'
    BY <1>1, <1>2 DEF EntryInv
  <1>7. ClientInv' /\ ExclusiveInv'
    BY <1>1 DEF ClientInv, ExclusiveInv
  <1> QED
    BY <1>3, <1>4, <1>5, <1>6, <1>7

\* What is left of an entry whose reference is put: one less, or nothing.
LEMMA PutEntry ==
    ASSUME NEW d \in DevEntry, d.ref_count > 0
    PROVE  /\ Put(d) \in DevEntry
           /\ Put(d).ref_count = d.ref_count - 1
           /\ d.closed => Put(d).closed
           /\ d.ref_count > 1 => /\ Put(d).closed = d.closed /\ Put(d).list = d.list
                                 /\ Put(d).buf = d.buf /\ Put(d).cyclic = d.cyclic
                                 /\ Put(d).acked = d.acked
           /\ d.ref_count = 1 => Put(d) = Unallocated
  <1>1. Cardinality(Channel) \in Nat
    BY ClientAssumption, FS_CardinalityType
  <1>2. Unallocated \in DevEntry /\ Unallocated.ref_count = 0 /\ Unallocated.closed
    BY <1>1 DEF Unallocated, DevEntry
  <1>3. CASE d.ref_count = 1
    BY <1>2, <1>3 DEF Put
  <1>4. CASE d.ref_count # 1
    <2>1. d.ref_count - 1 \in Nat
      BY DEF DevEntry
    <2> QED
      BY <1>4, <2>1 DEF Put, DevEntry
  <1> QED
    BY <1>3, <1>4

\* The worker puts its reference; the clients of a closed entry keep it.
LEMMA RwPutInd ==
    ASSUME IndInv, NEW e \in Id, RwPut(e)
    PROVE  IndInv'
  <1> USE DEF IndInv
  <1> DEFINE d == Put(entry[e])
  <1>1. entry[e] \in DevEntry /\ entry[e].closed /\ rw[e] = "put"
    BY DEF RwPut, EntryInv, TypeOK
  <1>2. entry[e].ref_count = 1 + Cardinality(Holders(e)) + Cardinality(Waiters(e))
    BY <1>1 DEF RefsInv
  <1>3. Cardinality(Holders(e)) \in Nat /\ Cardinality(Waiters(e)) \in Nat
    BY Counts
  <1>4. /\ d \in DevEntry /\ d.closed /\ d.ref_count = entry[e].ref_count - 1
        /\ entry[e].ref_count > 1 => /\ d.list = entry[e].list /\ d.buf = entry[e].buf
                                     /\ d.cyclic = entry[e].cyclic
        /\ entry[e].ref_count = 1 => d = Unallocated
    BY <1>1, <1>2, <1>3, PutEntry
  <1>5. entry' = [entry EXCEPT ![e] = d] /\ rw' = [rw EXCEPT ![e] = "free"]
        /\ UNCHANGED <<output, dev, thd, client>>
    BY DEF RwPut
  <1> HIDE DEF d
  <1>6. TypeOK'
    BY <1>4, <1>5 DEF TypeOK, RwPc
  <1>7. /\ entry'[e] = d /\ rw'[e] = "free"
        /\ \A f \in Id \ {e} : entry'[f] = entry[f] /\ rw'[f] = rw[f]
    BY <1>5 DEF TypeOK
  <1>8. RefsInv'
    BY <1>2, <1>3, <1>4, <1>5, <1>7, CountUnchanged DEF RefsInv
  <1>9. DevInv'
    BY <1>1, <1>4, <1>5, <1>7 DEF DevInv
  <1>10. d.list = {} /\ ~d.buf
    BY <1>1, <1>2, <1>3, <1>4 DEF EntryInv, Unallocated
  <1>11. EntryInv'
    BY <1>1, <1>4, <1>7, <1>10 DEF EntryInv
  <1>12. d.cyclic => entry[e].cyclic
    <2>1. entry[e].ref_count = 1 \/ entry[e].ref_count > 1
      BY <1>2, <1>3
    <2>2. ~Unallocated.cyclic
      BY DEF Unallocated
    <2> QED
      BY <1>4, <2>1, <2>2
  <1>13. /\ \A f \in Id : /\ entry'[f].closed <=> entry[f].closed
                          /\ \A c \in entry'[f].list : c \in entry[f].list
                          /\ ~entry'[f].closed => entry'[f] = entry[f]
                          /\ entry'[f].cyclic => entry[f].cyclic
         /\ \A c \in Client : client[c].entry \in Id \cup {NoEntry}
    BY <1>1, <1>4, <1>7, <1>10, <1>12 DEF TypeOK, ParserPdata
  <1>14. ClientInv'
    BY <1>5, <1>13 DEF ClientInv
  <1>15. ExclusiveInv'
    BY <1>5, <1>13 DEF ExclusiveInv
  <1> QED
    BY <1>6, <1>8, <1>9, <1>11, <1>14, <1>15

\* A client's signal wakes a worker that waits, and does nothing to any other.
Woken == \A f \in Id : rw'[f] = rw[f] \/ (rw[f] = "waiting" /\ rw'[f] = "top")

LEMMA WakeRwWakes ==
    ASSUME TypeOK, NEW e \in Id, rw' = WakeRw(e)
    PROVE  rw' \in [Id -> RwPc] /\ Woken
  BY DEF TypeOK, WakeRw, RwPc, Woken

\* Where a client is that has an entry and has not begun to close it.
Attached == {"created", "opening", "idle", "busy", "hungup", "leaving"}

\* A client that has no entry before and after a step.
LEMMA OutsideFrame ==
    ASSUME IndInv, NEW c \in Client, NEW x \in ParserPdata,
           client' = [client EXCEPT ![c] = x], client[c].pc \in {"closed", "open"},
           x.pc \in {"closed", "open"}, x.entry = NoEntry, ~x.wait, ~x.close,
           UNCHANGED <<output, dev, entry, rw, thd>>
    PROVE  IndInv'
  <1> USE DEF IndInv
  <1>1. TypeOK'
    BY DEF TypeOK
  <1>2. client'[c] = x /\ \A d \in Client \ {c} : client'[d] = client[d]
    BY DEF TypeOK
  <1>3. client[c].entry = NoEntry /\ \A e \in Id : e # NoEntry
    BY DEF ClientInv, Id, NoEntry
  <1>4. \A e \in Id : /\ Cardinality(Holders(e)') = Cardinality(Holders(e))
                      /\ Cardinality(Waiters(e)') = Cardinality(Waiters(e))
    <2> TAKE e \in Id
    <2>1. /\ client[c].entry # e /\ x.entry # e
      BY <1>3
    <2>2. Own(client[c], e) = 0 /\ Own(x, e) = 0 /\ Second(client[c], e) = 0 /\ Second(x, e) = 0
      BY <2>1 DEF Own, Second
    <2>3. Recount(c, x)
      BY CountStep
    <2> QED
      BY <2>2, <2>3 DEF Recount
  <1>5. RefsInv'
    BY <1>4 DEF RefsInv
  <1>6. DevInv' /\ EntryInv'
    BY DEF DevInv, EntryInv
  <1>7. ClientInv'
    BY <1>2, <1>3 DEF ClientInv
  <1>8. ExclusiveInv'
    BY <1>2, <1>3 DEF ExclusiveInv
  <1> QED
    BY <1>1, <1>5, <1>6, <1>7, <1>8

\* A client that keeps its entry and has no close under way.
LEMMA InsideFrame ==
    ASSUME IndInv, NEW c \in Client, NEW pc \in Attached,
           client' = [client EXCEPT ![c].pc = pc], client[c].pc \in Attached \ {"leaving"},
           Woken, rw' \in [Id -> RwPc], thd' \in [Client -> ThdEntry],
           UNCHANGED <<output, dev, entry>>
    PROVE  IndInv'
  <1> USE DEF IndInv
  <1> DEFINE x == [client[c] EXCEPT !.pc = pc]
  <1>1. client[c] \in ParserPdata
    BY DEF TypeOK
  <1>2. x \in ParserPdata
    BY <1>1 DEF ParserPdata, Attached
  <1>3. client' = [client EXCEPT ![c] = x]
    OBVIOUS
  <1>4. x.pc = pc /\ x.entry = client[c].entry /\ x.wait = client[c].wait
        /\ x.close = client[c].close
    BY <1>1 DEF ParserPdata
  <1> HIDE DEF x
  <1>5. TypeOK'
    BY <1>2, <1>3 DEF TypeOK
  <1>6. client'[c] = x /\ \A d \in Client \ {c} : client'[d] = client[d]
    BY <1>3 DEF TypeOK
  <1>7. ~client[c].wait /\ ~client[c].close
    BY DEF ClientInv, Attached
  <1>8. \A e \in Id : /\ Cardinality(Holders(e)') = Cardinality(Holders(e))
                      /\ Cardinality(Waiters(e)') = Cardinality(Waiters(e))
    <2> TAKE e \in Id
    <2>1. pc # "closing" /\ client[c].pc # "closing"
      BY DEF Attached
    <2>2. Own(x, e) = Own(client[c], e) /\ Second(client[c], e) = 0 /\ Second(x, e) = 0
          /\ Own(x, e) \in {0, 1}
      BY <1>4, <1>7, <2>1 DEF Own, Second
    <2>3. Recount(c, x)
      BY <1>3, CountStep
    <2> QED
      BY <2>2, <2>3 DEF Recount
  <1>9. RefsInv'
    BY <1>8 DEF RefsInv, Woken
  <1>10. DevInv'
    BY DEF DevInv, Woken, TypeOK
  <1>11. EntryInv'
    BY DEF EntryInv, Woken
  <1>12. ClientInv'
    BY <1>4, <1>6, <1>7 DEF ClientInv, Attached
  <1>13. ExclusiveInv'
    BY <1>4, <1>6, <1>7 DEF ExclusiveInv
  <1> QED
    BY <1>5, <1>9, <1>10, <1>11, <1>12, <1>13

\* A client that gives up one reference to its entry, which stays as it is but for
\* the client or is freed.
LEMMA LeaveFrame ==
    ASSUME IndInv, NEW c \in Client, NEW e \in Id, client[c].entry = e,
           NEW x \in ParserPdata, client' = [client EXCEPT ![c] = x],
           NEW d \in DevEntry, entry' = [entry EXCEPT ![e] = d],
           Woken, rw' \in [Id -> RwPc], thd' \in [Client -> ThdEntry], UNCHANGED <<output, dev>>,
           \/ x = Disconnected
           \/ x.pc = "closing" /\ x.wait /\ x.entry = e,
           Own(x, e) + Second(x, e) = Own(client[c], e) + Second(client[c], e) - 1,
           d.ref_count = entry[e].ref_count - 1,
           d.closed <=> entry[e].closed, d.closed => d.list = {} /\ ~d.buf,
           d.acked => d.closed, d.cyclic => entry[e].cyclic,
           ~d.closed => d.list = entry[e].list \ {c}
    PROVE  IndInv'
  <1> USE DEF IndInv
  <1>1. TypeOK'
    BY DEF TypeOK
  <1>2. /\ client'[c] = x /\ \A b \in Client \ {c} : client'[b] = client[b]
        /\ entry'[e] = d /\ \A f \in Id \ {e} : entry'[f] = entry[f]
    BY DEF TypeOK
  <1>3. /\ \A f \in Id : f # NoEntry
        /\ x.entry \in {e, NoEntry} /\ Disconnected.pc = "closed" /\ Disconnected.entry = NoEntry
        /\ ~Disconnected.wait /\ ~Disconnected.close
    BY DEF Id, NoEntry, Disconnected
  <1>4. RefsInv'
    <2> SUFFICES ASSUME NEW f \in Id
                 PROVE  entry'[f].ref_count = (IF rw'[f] = "free" THEN 0 ELSE 1)
                            + Cardinality(Holders(f)') + Cardinality(Waiters(f)')
      BY DEF RefsInv
    <2>1. Recount(c, x)
      BY CountStep
    <2>2. entry[f].ref_count = (IF rw'[f] = "free" THEN 0 ELSE 1)
                               + Cardinality(Holders(f)) + Cardinality(Waiters(f))
      BY DEF RefsInv, Woken
    <2>3. CASE f = e
      <3>1. /\ Own(x, e) \in {0, 1} /\ Second(x, e) \in {0, 1}
            /\ Own(client[c], e) \in {0, 1} /\ Second(client[c], e) \in {0, 1}
        BY DEF Own, Second
      <3> QED
        BY <1>2, <2>1, <2>2, <2>3, <3>1 DEF Recount
    <2>4. CASE f # e
      <3>1. Own(x, f) = 0 /\ Second(x, f) = 0
            /\ Own(client[c], f) = 0 /\ Second(client[c], f) = 0
        BY <1>3, <2>4 DEF Own, Second
      <3> QED
        BY <1>2, <2>1, <2>2, <2>4, <3>1 DEF Recount
    <2> QED
      BY <2>3, <2>4
  <1>5. DevInv'
    BY <1>2 DEF DevInv, Woken, TypeOK
  <1>6. EntryInv'
    BY <1>2 DEF EntryInv, Woken
  <1>7. ClientInv'
    <2>1. /\ \A f \in Id : \A b \in entry'[f].list : b # c /\ b \in entry[f].list
          /\ \A f \in Id : entry'[f].closed <=> entry[f].closed
          /\ \A f \in Id : ~entry'[f].closed =>
                \A b \in Client \ {c} : b \in entry'[f].list <=> b \in entry[f].list
      <3>1. \A f \in Id \ {e} : c \notin entry[f].list
        BY DEF ClientInv
      <3> QED
        BY <1>2, <3>1
    <2>2. \A b \in Client : client[b].entry \in Id \cup {NoEntry}
      BY DEF TypeOK, ParserPdata
    <2> QED
      BY <1>2, <1>3, <2>1, <2>2 DEF ClientInv
  <1>8. ExclusiveInv'
    BY <1>2, <1>3 DEF ExclusiveInv, TypeOK, ParserPdata
  <1> QED
    BY <1>1, <1>4, <1>5, <1>6, <1>7, <1>8

\* A client that opens the device, finds it busy or cannot make an entry.
LEMMA ClientOutsideInd ==
    ASSUME IndInv, NEW c \in Client,
           \/ \E cyclic \in BOOLEAN : ClientOpen(c, cyclic)
           \/ ClientBusy(c) \/ ClientCreateFail(c)
    PROVE  IndInv'
  <1> USE DEF IndInv
  <1>1. /\ client[c] \in ParserPdata /\ client[c].pc \in {"closed", "open"}
        /\ client[c].retries \in 0 .. Retries
    BY DEF TypeOK, ParserPdata, ClientOpen, ClientBusy, ClientCreateFail, MayCreate
  <1>2. client[c].entry = NoEntry /\ ~client[c].wait /\ ~client[c].close
    BY <1>1 DEF ClientInv
  <1>3. /\ Disconnected \in ParserPdata /\ Disconnected.pc = "closed"
        /\ Disconnected.entry = NoEntry /\ ~Disconnected.wait /\ ~Disconnected.close
    BY BoundsAssumption DEF Disconnected, ParserPdata
  <1>4. ASSUME NEW cyclic \in BOOLEAN, ClientOpen(c, cyclic)
        PROVE  IndInv'
    <2> DEFINE x == [client[c] EXCEPT !.pc = "open", !.cyclic = cyclic, !.retries = Retries]
    <2>1. x \in ParserPdata /\ x.pc = "open" /\ x.entry = NoEntry /\ ~x.wait /\ ~x.close
      <3>1. Retries \in 0 .. Retries
        BY BoundsAssumption
      <3> QED
        BY <1>1, <1>2, <3>1 DEF ParserPdata
    <2>2. client' = [client EXCEPT ![c] = x] /\ UNCHANGED <<output, dev, entry, rw, thd>>
      BY <1>4 DEF ClientOpen
    <2> HIDE DEF x
    <2> QED
      BY <1>1, <2>1, <2>2, OutsideFrame
  <1>5. CASE ClientBusy(c)
    <2>1. client' = [client EXCEPT ![c] = Retried(client[c])]
          /\ UNCHANGED <<output, dev, entry, rw, thd>>
      BY <1>5 DEF ClientBusy
    <2>2. /\ Retried(client[c]) \in ParserPdata /\ Retried(client[c]).pc \in {"closed", "open"}
          /\ Retried(client[c]).entry = NoEntry
          /\ ~Retried(client[c]).wait /\ ~Retried(client[c]).close
      <3>1. client[c].retries # 0 => client[c].retries - 1 \in 0 .. Retries
        BY <1>1, BoundsAssumption
      <3> QED
        BY <1>1, <1>2, <1>3, <3>1 DEF Retried, ParserPdata
    <2> QED
      BY <1>1, <2>1, <2>2, OutsideFrame
  <1>6. CASE ClientCreateFail(c)
    BY <1>1, <1>3, <1>6, OutsideFrame DEF ClientCreateFail
  <1> QED
    BY <1>4, <1>5, <1>6

\* A client that goes on with an open, a READBUF or a WRITEBUF.
LEMMA ClientInsideInd ==
    ASSUME IndInv, NEW c \in Client,
           \/ ClientLook(c) \/ ClientEvent(c) \/ ClientHangUp(c)
           \/ \E nb \in 1 .. MaxBytes : ClientRw(c, nb)
    PROVE  IndInv'
  <1> USE DEF IndInv
  <1>1. /\ client[c] \in ParserPdata /\ client[c].pc \in Attached \ {"leaving"}
        /\ thd[c] \in ThdEntry /\ rw \in [Id -> RwPc]
    BY DEF TypeOK, ClientLook, ClientEvent, ClientHangUp, ClientRw, Attached
  <1>2. AfterOpen(c) \in Attached
    BY DEF AfterOpen, Attached
  <1>3. UNCHANGED rw => Woken
    BY DEF Woken
  <1>4. CASE ClientLook(c)
    <2>1. \E pc \in Attached : client' = [client EXCEPT ![c].pc = pc]
      BY <1>2, <1>4 DEF ClientLook, Attached
    <2> QED
      BY <1>1, <1>3, <1>4, <2>1, InsideFrame DEF ClientLook, TypeOK
  <1>5. CASE ClientEvent(c)
    <2> DEFINE pc == IF client[c].pc = "opening" /\ ~thd[c].wait_for_open THEN AfterOpen(c)
                     ELSE IF client[c].pc = "busy" /\ ~thd[c].active THEN "idle"
                     ELSE client[c].pc
    <2>1. pc \in Attached
      BY <1>1, <1>2 DEF Attached
    <2>2. client' = [client EXCEPT ![c].pc = pc]
      BY <1>1, <1>5 DEF ClientEvent, TypeOK, ParserPdata
    <2>3. [thd[c] EXCEPT !.event = FALSE] \in ThdEntry
      BY <1>1 DEF ThdEntry
    <2>4. thd' \in [Client -> ThdEntry]
      BY <1>5, <2>3 DEF ClientEvent, TypeOK
    <2> HIDE DEF pc
    <2> QED
      BY <1>1, <1>3, <1>5, <2>1, <2>2, <2>4, InsideFrame DEF ClientEvent
  <1>6. CASE ClientHangUp(c)
    <2>1. \E pc \in Attached : client' = [client EXCEPT ![c].pc = pc]
      BY <1>6 DEF ClientHangUp, Attached
    <2> QED
      BY <1>1, <1>3, <1>6, <2>1, InsideFrame DEF ClientHangUp, TypeOK
  <1>7. ASSUME NEW nb \in 1 .. MaxBytes, ClientRw(c, nb)
        PROVE  IndInv'
    <2>1. [thd[c] EXCEPT !.nb = nb, !.failed = FALSE, !.active = TRUE] \in ThdEntry
      <3>1. nb \in 0 .. MaxBytes
        BY BoundsAssumption
      <3> QED
        BY <1>1, <3>1 DEF ThdEntry
    <2>2. thd' \in [Client -> ThdEntry]
      BY <1>7, <2>1 DEF ClientRw, TypeOK
    <2>3. client[c].entry \in Id
      BY <1>1 DEF ClientInv, ParserPdata, Attached
    <2>4. rw' \in [Id -> RwPc] /\ Woken
      BY <1>7, <2>3, WakeRwWakes DEF ClientRw
    <2>5. "busy" \in Attached /\ client' = [client EXCEPT ![c].pc = "busy"]
          /\ UNCHANGED <<output, dev, entry>>
      BY <1>7 DEF ClientRw, Attached
    <2> QED
      BY <1>1, <2>2, <2>4, <2>5, InsideFrame
  <1> QED
    BY <1>4, <1>5, <1>6, <1>7

\* A client begins to close: of an exclusive entry that the worker has not closed
\* it takes a second reference, which its close waits with.
LEMMA ClientCloseInd ==
    ASSUME IndInv, NEW c \in Client, ClientClose(c)
    PROVE  IndInv'
  <1> USE DEF IndInv
  <1> DEFINE e == client[c].entry
             wait == entry[e].cyclic /\ entry[e].list = {c}
             x == [client[c] EXCEPT !.pc = "leaving", !.close = TRUE, !.wait = wait]
             d == [entry[e] EXCEPT !.ref_count = @ + 1]
  <1>1. /\ client[c] \in ParserPdata /\ client[c].pc \in {"idle", "hungup"}
        /\ client' = [client EXCEPT ![c] = x] /\ UNCHANGED <<output, dev, rw, thd>>
        /\ entry' = IF wait THEN [entry EXCEPT ![e] = d] ELSE entry
    BY DEF ClientClose, TypeOK
  <1>2. e \in Id /\ e # NoEntry /\ ~client[c].wait
    BY <1>1 DEF ClientInv, ParserPdata
  <1>3. /\ x \in ParserPdata /\ x.pc = "leaving" /\ x.close /\ x.entry = e
        /\ x.wait <=> wait
    BY <1>1 DEF ParserPdata
  <1>4. entry[e] \in DevEntry /\ entry[e].ref_count \in Nat
    BY <1>2 DEF TypeOK, DevEntry
  <1>5. d \in DevEntry /\ d.ref_count = entry[e].ref_count + 1
        /\ d.cyclic = entry[e].cyclic /\ d.list = entry[e].list /\ d.closed = entry[e].closed
        /\ d.acked = entry[e].acked /\ d.buf = entry[e].buf
    BY <1>4 DEF DevEntry
  <1> HIDE DEF x, d, e
  <1>6. TypeOK'
    BY <1>1, <1>2, <1>3, <1>5 DEF TypeOK
  <1>7. /\ client'[c] = x /\ \A b \in Client \ {c} : client'[b] = client[b]
        /\ \A f \in Id \ {e} : entry'[f] = entry[f]
        /\ \A f \in Id : /\ entry'[f].cyclic = entry[f].cyclic /\ entry'[f].list = entry[f].list
                         /\ entry'[f].closed = entry[f].closed
                         /\ entry'[f].acked = entry[f].acked /\ entry'[f].buf = entry[f].buf
        /\ entry'[e].ref_count = entry[e].ref_count + (IF wait THEN 1 ELSE 0)
    <2>1. CASE wait
      <3> HIDE DEF wait
      <3>1. entry'[e] = d /\ \A f \in Id \ {e} : entry'[f] = entry[f]
        BY <1>1, <1>2, <2>1 DEF TypeOK
      <3> QED
        BY <1>1, <1>5, <2>1, <3>1 DEF TypeOK
    <2>2. CASE ~wait
      <3> HIDE DEF wait
      <3> QED
        BY <1>1, <1>4, <2>2 DEF TypeOK
    <2> QED
      BY <2>1, <2>2
  <1>8. RefsInv'
    <2>1. Recount(c, x)
      BY <1>1, CountStep
    <2>2. /\ Own(client[c], e) = 1 /\ Own(x, e) = 1
          /\ Second(client[c], e) = 0 /\ Second(x, e) = (IF wait THEN 1 ELSE 0)
      BY <1>1, <1>2, <1>3 DEF Own, Second, e
    <2>3. \A f \in Id \ {e} : /\ Own(client[c], f) = 0 /\ Own(x, f) = 0
                              /\ Second(client[c], f) = 0 /\ Second(x, f) = 0
      BY <1>3 DEF Own, Second, e
    <2>4. \A f \in Id : entry[f].ref_count = (IF rw'[f] = "free" THEN 0 ELSE 1)
                                       + Cardinality(Holders(f)) + Cardinality(Waiters(f))
      BY <1>1 DEF RefsInv
    <2> HIDE DEF wait
    <2> SUFFICES ASSUME NEW f \in Id
                 PROVE  entry'[f].ref_count = (IF rw'[f] = "free" THEN 0 ELSE 1)
                            + Cardinality(Holders(f)') + Cardinality(Waiters(f)')
      BY DEF RefsInv
    <2>5. CASE f = e
      BY <1>7, <2>1, <2>2, <2>4, <2>5 DEF Recount
    <2>6. CASE f # e
      BY <1>7, <2>1, <2>3, <2>4, <2>6 DEF Recount
    <2> QED
      BY <2>5, <2>6
  <1>9. DevInv' /\ EntryInv'
    BY <1>1, <1>7 DEF DevInv, EntryInv
  <1>10. ClientInv'
    BY <1>1, <1>2, <1>3, <1>7 DEF ClientInv, TypeOK, ParserPdata, e
  <1>11. ExclusiveInv'
    <2>1. entry[e].cyclic /\ ~entry[e].closed => wait
      <3> SUFFICES ASSUME entry[e].cyclic, ~entry[e].closed PROVE entry[e].list = {c}
        OBVIOUS
      <3>1. c \in entry[e].list
        BY <1>1, <1>2 DEF ClientInv, e
      <3>2. entry[e].list \subseteq Client /\ \A b \in entry[e].list : client[b].entry = e
        BY <1>2, <1>4 DEF ClientInv, DevEntry
      <3>3. \A b \in Client : client[b].entry = e => b = c
        BY <1>2 DEF ExclusiveInv, e
      <3> QED
        BY <3>1, <3>2, <3>3
    <2>2. \A b \in Client : client'[b].entry = client[b].entry
      BY <1>3, <1>7 DEF e
    <2>3. \A b \in Client : client[b].entry \in Id \cup {NoEntry}
      BY DEF TypeOK, ParserPdata
    <2>4. ~wait /\ entry'[e].cyclic => entry'[e].closed
      BY <1>2, <1>7, <2>1
    <2> HIDE DEF wait
    <2> QED
      BY <1>2, <1>3, <1>7, <2>2, <2>3, <2>4 DEF ExclusiveInv, e
  <1> QED
    BY <1>6, <1>8, <1>9, <1>10, <1>11

\* A client joins the live entry.
LEMMA ClientJoinInd ==
    ASSUME IndInv, NEW c \in Client, ClientJoin(c)
    PROVE  IndInv'
  <1> USE DEF IndInv
  <1> DEFINE x == [Disconnected EXCEPT !.pc = "opening", !.entry = dev]
             d == Joined(entry[dev], c)
  <1>1. /\ client[c].pc = "open" /\ dev \in Id /\ dev # NoEntry
        /\ ~entry[dev].closed /\ ~entry[dev].cyclic
        /\ entry' = [entry EXCEPT ![dev] = d] /\ rw' = WakeRw(dev)
        /\ client' = [client EXCEPT ![c] = x] /\ UNCHANGED <<output, dev, thd>>
    BY DEF ClientJoin, TypeOK
  <1>2. entry[dev] \in DevEntry /\ client[c].entry = NoEntry /\ \A f \in Id : f # NoEntry
    BY <1>1 DEF TypeOK, ClientInv, Id, NoEntry
  <1>3. /\ d \in DevEntry /\ d.ref_count = entry[dev].ref_count + 1
        /\ d.list = entry[dev].list \cup {c} /\ ~d.cyclic /\ ~d.closed
        /\ d.acked = entry[dev].acked
    <2>1. entry[dev].ref_count + 1 \in Nat /\ entry[dev].list \cup {c} \in SUBSET Client
      BY <1>2 DEF DevEntry
    <2> QED
      BY <1>1, <1>2, <2>1 DEF Joined, DevEntry
  <1>4. x \in ParserPdata /\ x.pc = "opening" /\ x.entry = dev /\ ~x.wait /\ ~x.close
    <2>1. 0 \in 0 .. Retries
      BY BoundsAssumption
    <2> QED
      BY <1>1, <2>1 DEF Disconnected, ParserPdata
  <1>5. rw' \in [Id -> RwPc] /\ Woken
    BY <1>1, WakeRwWakes
  <1> HIDE DEF x, d
  <1>6. TypeOK'
    BY <1>1, <1>3, <1>4, <1>5 DEF TypeOK
  <1>7. /\ client'[c] = x /\ \A b \in Client \ {c} : client'[b] = client[b]
        /\ entry'[dev] = d /\ \A f \in Id \ {dev} : entry'[f] = entry[f]
    BY <1>1 DEF TypeOK
  <1>8. RefsInv'
    <2>1. Recount(c, x)
      BY <1>1, CountStep
    <2>2. /\ Own(x, dev) = 1 /\ Second(x, dev) = 0
          /\ \A f \in Id \ {dev} : Own(x, f) = 0 /\ Second(x, f) = 0
          /\ \A f \in Id : Own(client[c], f) = 0 /\ Second(client[c], f) = 0
      BY <1>1, <1>2, <1>4 DEF Own, Second
    <2>3. \A f \in Id : entry[f].ref_count = (IF rw'[f] = "free" THEN 0 ELSE 1)
                                       + Cardinality(Holders(f)) + Cardinality(Waiters(f))
      BY <1>5 DEF RefsInv, Woken
    <2> SUFFICES ASSUME NEW f \in Id
                 PROVE  entry'[f].ref_count = (IF rw'[f] = "free" THEN 0 ELSE 1)
                            + Cardinality(Holders(f)') + Cardinality(Waiters(f)')
      BY DEF RefsInv
    <2>4. CASE f = dev
      BY <1>3, <1>7, <2>1, <2>2, <2>3, <2>4 DEF Recount
    <2>5. CASE f # dev
      BY <1>7, <2>1, <2>2, <2>3, <2>5 DEF Recount
    <2> QED
      BY <2>4, <2>5
  <1>9. DevInv'
    BY <1>1, <1>5, <1>7 DEF DevInv, Woken
  <1>10. EntryInv'
    BY <1>1, <1>3, <1>5, <1>7 DEF EntryInv, Woken
  <1>11. ClientInv'
    <2>1. /\ \A f \in Id : entry'[f].closed <=> entry[f].closed
          /\ \A f \in Id : \A b \in Client \ {c} : b \in entry'[f].list <=> b \in entry[f].list
          /\ \A f \in Id : c \in entry'[f].list <=> f = dev
      <3>1. \A f \in Id : c \notin entry[f].list
        BY <1>2 DEF ClientInv
      <3> QED
        BY <1>1, <1>3, <1>7, <3>1
    <2>2. \A b \in Client : client[b].entry \in Id \cup {NoEntry}
      BY DEF TypeOK, ParserPdata
    <2> QED
      BY <1>1, <1>2, <1>4, <1>7, <2>1, <2>2 DEF ClientInv
  <1>12. ExclusiveInv'
    BY <1>2, <1>3, <1>4, <1>7 DEF ExclusiveInv, TypeOK, ParserPdata
  <1> QED
    BY <1>6, <1>8, <1>9, <1>10, <1>11, <1>12

\* A client makes an entry: nobody knew the memory it takes, and all the other
\* entries are closed.
LEMMA ClientCreateInd ==
    ASSUME IndInv, NEW c \in Client, NEW e \in Id, ClientCreate(c, e)
    PROVE  IndInv'
  <1> USE DEF IndInv
  <1> DEFINE x == [Disconnected EXCEPT !.pc = "created", !.entry = e]
             d == NewEntry(c, client[c].cyclic)
  <1>1. /\ client[c].pc = "open" /\ MayCreate(c) /\ rw[e] = "free" /\ entry[e].ref_count = 0
        /\ entry' = [entry EXCEPT ![e] = d] /\ rw' = [rw EXCEPT ![e] = "top"] /\ dev' = e
        /\ client' = [client EXCEPT ![c] = x] /\ UNCHANGED <<output, thd>>
    BY DEF ClientCreate, MayCreate, Unused
  <1>2. client[c].entry = NoEntry /\ \A f \in Id : f # NoEntry
    BY <1>1 DEF ClientInv, Id, NoEntry
  <1>3. \A f \in Id : entry[f].closed
    BY <1>1, <1>2 DEF DevInv, MayCreate
  <1>4. \A f \in Id : entry[f].list = {}
    BY <1>3 DEF EntryInv
  <1>5. /\ Cardinality(Holders(e)) = 0 /\ Cardinality(Waiters(e)) = 0
        /\ \A b \in Client : client[b].entry # e
    <2>1. Cardinality(Holders(e)) + Cardinality(Waiters(e)) = 0
          /\ Cardinality(Holders(e)) \in Nat /\ Cardinality(Waiters(e)) \in Nat
      BY <1>1, Counts DEF RefsInv
    <2>2. Cardinality(Holders(e)) = 0 /\ Cardinality(Waiters(e)) = 0
      BY <2>1
    <2>3. Holders(e) \in SUBSET Client /\ Waiters(e) \in SUBSET Client
      BY DEF Holders, Waiters
    <2>4. Holders(e) = {} /\ Waiters(e) = {}
      BY <2>2, <2>3, ClientsFinite
    <2> QED
      BY <2>2, <2>4 DEF Holders, Waiters, ClientInv
  <1>6. /\ d \in DevEntry /\ d.ref_count = 2 /\ d.list = {c} /\ ~d.closed /\ ~d.acked
    <2>1. client[c].cyclic \in BOOLEAN /\ 0 \in 0 .. Cardinality(Channel)
      BY ClientAssumption, FS_CardinalityType DEF TypeOK, ParserPdata
    <2> QED
      BY <2>1 DEF NewEntry, DevEntry
  <1>7. x \in ParserPdata /\ x.pc = "created" /\ x.entry = e /\ ~x.wait /\ ~x.close
    <2>1. 0 \in 0 .. Retries
      BY BoundsAssumption
    <2> QED
      BY <2>1 DEF Disconnected, ParserPdata
  <1> HIDE DEF x, d
  <1>8. TypeOK'
    BY <1>1, <1>6, <1>7 DEF TypeOK, RwPc
  <1>9. /\ client'[c] = x /\ \A b \in Client \ {c} : client'[b] = client[b]
        /\ entry'[e] = d /\ rw'[e] = "top"
        /\ \A f \in Id \ {e} : entry'[f] = entry[f] /\ rw'[f] = rw[f]
    BY <1>1 DEF TypeOK
  <1>10. RefsInv'
    <2>1. Recount(c, x)
      BY <1>1, CountStep
    <2>2. /\ Own(x, e) = 1 /\ Second(x, e) = 0
          /\ \A f \in Id \ {e} : Own(x, f) = 0 /\ Second(x, f) = 0
          /\ \A f \in Id : Own(client[c], f) = 0 /\ Second(client[c], f) = 0
      BY <1>2, <1>7 DEF Own, Second
    <2> SUFFICES ASSUME NEW f \in Id
                 PROVE  entry'[f].ref_count = (IF rw'[f] = "free" THEN 0 ELSE 1)
                            + Cardinality(Holders(f)') + Cardinality(Waiters(f)')
      BY DEF RefsInv
    <2>3. CASE f = e
      <3>1. Cardinality(Holders(e)') = 1 /\ Cardinality(Waiters(e)') = 0
        <4>1. Own(client[c], e) = 0 /\ Second(client[c], e) = 0
          BY <2>2
        <4> QED
          BY <1>5, <2>1, <2>2, <4>1 DEF Recount
      <3>2. entry'[e].ref_count = 2 /\ rw'[e] = "top"
        BY <1>6, <1>9
      <3> QED
        BY <2>3, <3>1, <3>2
    <2>4. CASE f # e
      BY <1>9, <2>1, <2>2, <2>4 DEF Recount, RefsInv
    <2> QED
      BY <2>3, <2>4
  <1>11. DevInv'
    BY <1>1, <1>3, <1>9 DEF DevInv
  <1>12. EntryInv'
    BY <1>6, <1>9 DEF EntryInv
  <1>13. \A b \in Client : client[b].entry \in Id \cup {NoEntry}
    BY DEF TypeOK, ParserPdata
  <1>14. ClientInv'
    BY <1>2, <1>3, <1>4, <1>5, <1>6, <1>7, <1>9, <1>13 DEF ClientInv
  <1>15. ExclusiveInv'
    BY <1>2, <1>5, <1>7, <1>9, <1>13 DEF ExclusiveInv
  <1> QED
    BY <1>8, <1>10, <1>11, <1>12, <1>14, <1>15

\* What a client leaves behind when it puts its reference to its entry, of which it
\* has made g: the entry without it or, closed, none.
LEMMA PutFrame ==
    ASSUME IndInv, NEW c \in Client, NEW e \in Id, c \in Holders(e) \/ c \in Waiters(e),
           NEW g \in DevEntry, g.ref_count = entry[e].ref_count, g.cyclic = entry[e].cyclic,
           g.closed <=> entry[e].closed, g.closed => g.list = {} /\ ~g.buf,
           g.acked => g.closed, ~g.closed => g.list = entry[e].list \ {c}
    PROVE  /\ Put(g) \in DevEntry /\ Put(g).ref_count = entry[e].ref_count - 1
           /\ Put(g).closed <=> entry[e].closed
           /\ Put(g).closed => Put(g).list = {} /\ ~Put(g).buf
           /\ Put(g).acked => Put(g).closed
           /\ Put(g).cyclic => entry[e].cyclic
           /\ ~Put(g).closed => Put(g).list = entry[e].list \ {c}
  <1> USE DEF IndInv
  <1>1. /\ Cardinality(Holders(e)) \in Nat /\ Cardinality(Waiters(e)) \in Nat
        /\ Cardinality(Holders(e)) + Cardinality(Waiters(e)) > 0
    BY Counts
  <1>2. entry[e].ref_count > 0 /\ (entry[e].ref_count = 1 => rw[e] = "free")
    BY <1>1 DEF RefsInv
  <1>3. entry[e].ref_count = 1 \/ entry[e].ref_count > 1
    BY <1>1 DEF RefsInv
  <1>4. CASE entry[e].ref_count = 1
    <2>1. entry[e].closed
      BY <1>2, <1>4 DEF EntryInv
    <2>2. Put(g) \in DevEntry /\ Put(g).ref_count = entry[e].ref_count - 1 /\ Put(g) = Unallocated
      BY <1>2, <1>4, PutEntry
    <2>3. /\ Unallocated.closed /\ Unallocated.list = {} /\ ~Unallocated.buf
          /\ ~Unallocated.cyclic
      BY DEF Unallocated
    <2> QED
      BY <2>1, <2>2, <2>3
  <1>5. CASE entry[e].ref_count > 1
    BY <1>2, <1>5, PutEntry
  <1> QED
    BY <1>3, <1>4, <1>5

\* A client is taken from its entry; only the closing of an exclusive one goes on.
LEMMA ClientRemoveInd ==
    ASSUME IndInv, NEW c \in Client, ClientRemove(c)
    PROVE  IndInv'
  <1> USE DEF IndInv
  <1> DEFINE e == client[c].entry
             d == IF entry[e].closed THEN entry[e] ELSE Removed(entry[e], c)
             g == IF client[c].wait THEN d
                  ELSE [d EXCEPT !.acked = @ \/ (client[c].close /\ d.cyclic)]
             x == IF client[c].wait THEN [client[c] EXCEPT !.pc = "closing"] ELSE Disconnected
  <1>1. /\ client[c] \in ParserPdata /\ client[c].pc = "leaving"
        /\ entry' = [entry EXCEPT ![e] = IF client[c].wait THEN Put(d) ELSE Leave(d, client[c])]
        /\ client' = [client EXCEPT ![c] = x] /\ UNCHANGED <<output, dev>>
        /\ thd' = [thd EXCEPT ![c] = NewThd]
        /\ rw' = IF entry[e].closed THEN rw ELSE WakeRw(e)
    BY DEF ClientRemove, TypeOK
  <1>2. entry' = [entry EXCEPT ![e] = Put(g)]
    BY <1>1 DEF Leave
  <1>3. e \in Id /\ e # NoEntry /\ c \in Holders(e)
    BY <1>1 DEF ClientInv, ParserPdata, Holders
  <1>4. entry[e] \in DevEntry
    BY <1>3 DEF TypeOK
  <1>5. /\ d \in DevEntry /\ d.ref_count = entry[e].ref_count /\ d.cyclic = entry[e].cyclic
        /\ d.closed = entry[e].closed /\ d.acked = entry[e].acked
        /\ d.closed => d.list = {} /\ ~d.buf
        /\ ~d.closed => d.list = entry[e].list \ {c}
    <2>1. Removed(entry[e], c) \in DevEntry
          /\ Removed(entry[e], c).ref_count = entry[e].ref_count
          /\ Removed(entry[e], c).cyclic = entry[e].cyclic
          /\ Removed(entry[e], c).closed = entry[e].closed
          /\ Removed(entry[e], c).acked = entry[e].acked
          /\ Removed(entry[e], c).list = entry[e].list \ {c}
      <3>1. entry[e].list \ {c} \in SUBSET Client
        BY <1>4 DEF DevEntry
      <3>2. (entry[e].cancelled \/ (entry[e].list \ {c} = {} /\ entry[e].buf)) \in BOOLEAN
        OBVIOUS
      <3> QED
        BY <1>4, <3>1, <3>2 DEF Removed, DevEntry
    <2> HIDE DEF e
    <2> QED
      BY <1>3, <1>4, <2>1 DEF EntryInv
  <1> HIDE DEF d
  <1>6. /\ g \in DevEntry /\ g.ref_count = entry[e].ref_count /\ g.cyclic = entry[e].cyclic
        /\ g.closed = entry[e].closed
        /\ g.closed => g.list = {} /\ ~g.buf
        /\ ~g.closed => g.list = entry[e].list \ {c}
        /\ g.acked => entry[e].acked \/ (~client[c].wait /\ client[c].close /\ entry[e].cyclic)
    <2>1. (d.acked \/ (client[c].close /\ d.cyclic)) \in BOOLEAN
      OBVIOUS
    <2> HIDE DEF e
    <2> QED
      BY <1>5, <2>1 DEF DevEntry
  <1> HIDE DEF g
  <1>7. g.acked => g.closed
    BY <1>1, <1>3, <1>6 DEF EntryInv, ExclusiveInv
  <1>8. /\ x \in ParserPdata /\ (x = Disconnected \/ (x.pc = "closing" /\ x.wait /\ x.entry = e))
        /\ Own(x, e) + Second(x, e) = Own(client[c], e) + Second(client[c], e) - 1
    <2>1. Disconnected \in ParserPdata /\ Disconnected.entry = NoEntry
      BY BoundsAssumption DEF Disconnected, ParserPdata
    <2>2. CASE client[c].wait
      <3>1. x \in ParserPdata /\ x.pc = "closing" /\ x.wait /\ x.entry = e
        BY <1>1, <2>2 DEF ParserPdata
      <3> HIDE DEF x
      <3>2. Own(x, e) = 0 /\ Second(x, e) = 1 /\ Own(client[c], e) = 1 /\ Second(client[c], e) = 1
        BY <1>1, <2>2, <3>1 DEF Own, Second
      <3> QED
        BY <3>1, <3>2
    <2>3. CASE ~client[c].wait
      <3>1. x = Disconnected
        BY <2>3
      <3> HIDE DEF x
      <3>2. Own(x, e) = 0 /\ Second(x, e) = 0 /\ Own(client[c], e) = 1 /\ Second(client[c], e) = 0
        BY <1>1, <1>3, <2>1, <2>3, <3>1 DEF Own, Second
      <3> QED
        BY <2>1, <3>1, <3>2
    <2> QED
      BY <2>2, <2>3
  <1>9. rw' \in [Id -> RwPc] /\ Woken
    <2>1. CASE entry[e].closed
      BY <1>1, <2>1 DEF TypeOK, Woken
    <2>2. CASE ~entry[e].closed
      BY <1>1, <1>3, <2>2, WakeRwWakes
    <2> QED
      BY <2>1, <2>2
  <1>10. thd' \in [Client -> ThdEntry]
    <2>1. NewThd \in ThdEntry
      BY BoundsAssumption DEF NewThd, ThdEntry
    <2> QED
      BY <1>1, <2>1 DEF TypeOK
  <1>11. /\ Put(g) \in DevEntry /\ Put(g).ref_count = entry[e].ref_count - 1
         /\ Put(g).closed <=> entry[e].closed
         /\ Put(g).closed => Put(g).list = {} /\ ~Put(g).buf
         /\ Put(g).acked => Put(g).closed
         /\ Put(g).cyclic => entry[e].cyclic
         /\ ~Put(g).closed => Put(g).list = entry[e].list \ {c}
    <2> HIDE DEF e
    <2> QED
      BY <1>3, <1>6, <1>7, PutFrame
  <1> HIDE DEF x
  <1> QED
    BY <1>1, <1>2, <1>3, <1>8, <1>9, <1>10, <1>11, LeaveFrame

\* The close of an exclusive entry that the worker has closed is answered.
LEMMA ClientClosedInd ==
    ASSUME IndInv, NEW c \in Client, ClientClosed(c)
    PROVE  IndInv'
  <1> USE DEF IndInv
  <1> DEFINE e == client[c].entry
             g == [entry[e] EXCEPT !.acked = @ \/ (client[c].close /\ entry[e].cyclic)]
  <1>1. /\ client[c] \in ParserPdata /\ client[c].pc = "closing" /\ entry[e].closed
        /\ entry' = [entry EXCEPT ![e] = Put(g)]
        /\ client' = [client EXCEPT ![c] = Disconnected] /\ UNCHANGED <<output, dev, rw, thd>>
    BY DEF ClientClosed, TypeOK, Leave
  <1>2. e \in Id /\ e # NoEntry /\ client[c].wait /\ c \in Waiters(e)
    BY <1>1 DEF ClientInv, ParserPdata, Waiters
  <1>3. entry[e] \in DevEntry /\ entry[e].list = {} /\ ~entry[e].buf
    BY <1>1, <1>2 DEF TypeOK, EntryInv
  <1>4. /\ g \in DevEntry /\ g.ref_count = entry[e].ref_count /\ g.cyclic = entry[e].cyclic
        /\ g.closed = entry[e].closed /\ g.list = entry[e].list /\ g.buf = entry[e].buf
    <2>1. (entry[e].acked \/ (client[c].close /\ entry[e].cyclic)) \in BOOLEAN
      OBVIOUS
    <2> HIDE DEF e
    <2> QED
      BY <1>3, <2>1 DEF DevEntry
  <1> HIDE DEF g
  <1>5. /\ Put(g) \in DevEntry /\ Put(g).ref_count = entry[e].ref_count - 1
        /\ Put(g).closed <=> entry[e].closed
        /\ Put(g).closed => Put(g).list = {} /\ ~Put(g).buf
        /\ Put(g).acked => Put(g).closed
        /\ Put(g).cyclic => entry[e].cyclic
        /\ ~Put(g).closed => Put(g).list = entry[e].list \ {c}
    <2> HIDE DEF e
    <2> QED
      BY <1>1, <1>2, <1>3, <1>4, PutFrame
  <1>6. /\ Disconnected \in ParserPdata
        /\ Own(Disconnected, e) + Second(Disconnected, e)
             = Own(client[c], e) + Second(client[c], e) - 1
    <2>1. Disconnected \in ParserPdata /\ Disconnected.entry = NoEntry
      BY BoundsAssumption DEF Disconnected, ParserPdata
    <2>2. Own(client[c], e) = 0 /\ Second(client[c], e) = 1
          /\ Own(Disconnected, e) = 0 /\ Second(Disconnected, e) = 0
      BY <1>1, <1>2, <2>1 DEF Own, Second
    <2> QED
      BY <2>1, <2>2
  <1>7. Woken /\ rw' \in [Id -> RwPc] /\ thd' \in [Client -> ThdEntry]
    BY <1>1 DEF Woken, TypeOK
  <1> QED
    BY <1>1, <1>2, <1>5, <1>6, <1>7, LeaveFrame

-----------------------------------------------------------------------------
(* The theorems *)

\* No step of a worker or a client breaks the invariant.
LEMMA StepInd == IndInv /\ [Next]_vars => IndInv'
  <1> SUFFICES ASSUME IndInv, [Next]_vars PROVE IndInv'
    OBVIOUS
  <1>1. ASSUME NEW e \in Id, Rw(e) PROVE IndInv'
    BY <1>1, RwLoopInd, RwExitInd, RwUnpublishInd, RwPutInd DEF Rw
  <1>2. ASSUME NEW c \in Client, Parser(c) PROVE IndInv'
    BY <1>2, ClientOutsideInd, ClientInsideInd, ClientCloseInd, ClientJoinInd, ClientCreateInd,
       ClientRemoveInd, ClientClosedInd DEF Parser
  <1>3. CASE UNCHANGED vars
    BY <1>3 DEF vars, IndInv, TypeOK, RefsInv, DevInv, EntryInv, ClientInv, ExclusiveInv,
                Holders, Waiters
  <1> QED
    BY <1>1, <1>2, <1>3 DEF Next

\* The invariant that the properties of the entries follow from: what open_dev_helper,
\* rw_thd, close_dev_helper and remove_thd_entry maintain between them.
THEOREM EntriesInvariant == Spec => []IndInv
  BY InitInd, StepInd, PTL DEF Spec

\* However clients open, use, close and lose the device while its worker comes and
\* goes, at most one entry is live, it is the one that is found, and every entry
\* is freed exactly with its last user (open_dev_helper, dev_entry_put, rw_thd).
THEOREM EntriesAreSound == Spec => []EntriesSound
  <1>1. IndInv => EntriesSound
    <2> SUFFICES ASSUME IndInv PROVE EntriesSound
      OBVIOUS
    <2> USE DEF IndInv
    <2>1. OneLiveEntry
      BY DEF OneLiveEntry, DevInv, EntryInv
    <2>2. RefsExact
      <3>1. \A e \in Id : entry[e].list \subseteq Client
        BY DEF TypeOK, DevEntry
      <3>2. \A e \in Id : \A c \in entry[e].list : client[c].entry = e
        BY <3>1 DEF ClientInv
      <3> QED
        BY <3>2 DEF RefsExact, RefsInv, DevInv, Holders, Waiters
    <2> QED
      BY <2>1, <2>2 DEF EntriesSound
  <1> QED
    BY <1>1, EntriesInvariant, PTL

\* The close of an exclusive buffer is answered only when the worker has destroyed
\* the kernel buffer, whichever of the two gets to the entry first
\* (close_dev_helper, wait_for_exclusive_close).
THEOREM ExclusiveIsReleased == Spec => []ExclusiveReleased
  <1>1. IndInv => ExclusiveReleased
    BY DEF IndInv, EntryInv, ExclusiveReleased
  <1> QED
    BY <1>1, EntriesInvariant, PTL
=============================================================================
