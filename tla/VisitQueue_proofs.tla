-------------------------- MODULE VisitQueue_proofs --------------------------
(***************************************************************************)
(* Proofs about VisitQueueCalls, for every configuration the constructor   *)
(* admits, any set of blocks and any sequence of calls: the counters of    *)
(* the queue are the sums over its visits, the reservation of a visit      *)
(* suffices at any phase of its blocks, a visit shows exactly what was     *)
(* captured, and nothing but complete_send touches what is being sent.     *)
(***************************************************************************)
EXTENDS VisitQueueCalls, FiniteSetTheorems, TLAPS

\* What a visit is on its own.  A window that is bound is the one that was
\* asked for until it is cut; only a visit that is still admitted has blocks
\* reserved.
VisitInv(v) ==
    /\ v.samples \in 1 .. MaximumSamples
    /\ v.bytes \in {0, v.samples}
    /\ v.start <= v.next
    /\ v.bytes # 0 => Tiles(v.slices, v.start, v.next)
    /\ ~v.bound => v.slices = << >> /\ v.start = 0 /\ v.next = 0 /\ v.end = 0
    /\ v.sending => v.result # "ADMITTED"
    /\ v.result # "ADMITTED" => v.closed
    /\ v.result \in {"ADMITTED", "COMPLETE"} =>
         v.bytes = v.samples /\ (v.bound => v.end = v.start + v.samples)
    /\ v.result # "ADMITTED" => v.remaining_blocks = 0 /\ (v.bytes # 0 => v.end = v.next)
    /\ v.result = "COMPLETE" => v.bound

\* The reservation of an admitted visit: the whole of it until the first slice,
\* which may be short; from then on the visit waits for whole blocks, and what
\* it still needs was not fed before (the source has got to last_source_end).
ReservationInv(v, source_end) ==
    v.result = "ADMITTED" =>
        /\ v.slices = << >> => v.remaining_blocks = BlocksFor(v.samples) /\ v.next = v.start
        /\ v.slices # << >> =>
             /\ v.next <= source_end
             /\ v.end - v.next <= v.remaining_blocks * BlockSamples
        /\ v.remaining_blocks + Len(v.slices) <= BlocksFor(v.samples)
        /\ BlocksFor(v.samples) < MaxBlocks
        /\ v.next <= v.end
        /\ v.bound /\ v.next = v.end => v.remaining_blocks = 0

\* The visits of the queue: only the newest may wait for its window, and they
\* are named in the order of their reservation.
VisitsInv(s) ==
    /\ \A i \in DOMAIN s.visits :
         /\ VisitInv(s.visits[i])
         /\ ReservationInv(s.visits[i], s.last_source_end)
         /\ i < Len(s.visits) => s.visits[i].bound
         /\ s.visits[i].id <= s.last_reserved_id
    /\ \A i, j \in DOMAIN s.visits : i < j => s.visits[i].id < s.visits[j].id

\* The window of a visit was attested if the visit is closed but not cut.
AttestedInv(s, att) ==
    \A i \in DOMAIN s.visits :
        LET v == s.visits[i]
        IN  v.result = "COMPLETE" \/ (v.result = "ADMITTED" /\ v.closed) => v.id \in att

\* Accounting and HeadroomKept, of the queue s.
SumsInv(s) ==
    LET I == DOMAIN s.visits
    IN  /\ s.reserved_blocks = Blocks(s, I)
        /\ s.reserved_bytes = Bytes(s, I)
        /\ s.leased_blocks = Cardinality(s.owned)
        /\ \A t \in Token :
             s.refs[t] = Slices(s, I, t) /\ (t \notin s.owned => s.refs[t] = 0)

Referenced(s) == s.owned \ Unreferenced(s)

HeadroomInv(s) ==
    Cardinality(Referenced(s)) + s.reserved_blocks <= BlockCount - HeadroomBlocks

QueueInv(s) == s \in Queue /\ VisitsInv(s) /\ SumsInv(s) /\ HeadroomInv(s)

IndInv == TypeOK /\ QueueInv(q) /\ AttestedInv(q, attested)

-----------------------------------------------------------------------------
(* Sums over the visits, as numbers of pairs.                              *)

Pairs(I, of) == UNION {{i} \X of[i] : i \in I}

\* Finitely many finite sets have finitely many elements together.
LEMMA CountType ==
    ASSUME NEW I, IsFiniteSet(I), NEW of, \A i \in I : IsFiniteSet(of[i])
    PROVE  IsFiniteSet(Pairs(I, of)) /\ Count(I, of) \in Nat /\ Count(I, of) = Cardinality(Pairs(I, of))
  <1> DEFINE g == [i \in I |-> {i} \X of[i]]
             G == {{i} \X of[i] : i \in I}
  <1>1. g \in Surjection(I, G)
    BY DEF Surjection
  <1>2. IsFiniteSet(G)
    BY <1>1, FS_Surjection
  <1>3. \A i \in I : IsFiniteSet({i} \X of[i])
    BY FS_Singleton, FS_Product
  <1>4. \A T \in G : IsFiniteSet(T)
    BY <1>3
  <1>5. IsFiniteSet(UNION G)
    BY <1>2, <1>4, FS_UNION
  <1> QED
    BY <1>5, FS_CardinalityType DEF Count, Pairs

\* Sums that agree at every index are equal.
LEMMA CountEqual ==
    ASSUME NEW I, NEW of, NEW to, \A i \in I : of[i] = to[i]
    PROVE  Count(I, of) = Count(I, to)
  <1>1. {{i} \X of[i] : i \in I} = {{i} \X to[i] : i \in I}
    OBVIOUS
  <1> QED
    BY <1>1 DEF Count

\* The sum over two disjoint sets of indices.
LEMMA CountSplit ==
    ASSUME NEW I, IsFiniteSet(I), NEW J \in SUBSET I, NEW of, \A i \in I : IsFiniteSet(of[i])
    PROVE  Count(I, of) = Count(J, of) + Count(I \ J, of)
  <1>1. IsFiniteSet(J) /\ IsFiniteSet(I \ J)
    BY FS_Subset, FS_Difference
  <1>2. /\ IsFiniteSet(Pairs(J, of)) /\ Count(J, of) \in Nat
        /\ Count(J, of) = Cardinality(Pairs(J, of))
    BY <1>1, CountType
  <1>3. /\ IsFiniteSet(Pairs(I \ J, of)) /\ Count(I \ J, of) \in Nat
        /\ Count(I \ J, of) = Cardinality(Pairs(I \ J, of))
    BY <1>1, CountType
  <1>4. Pairs(I, of) = Pairs(J, of) \cup Pairs(I \ J, of)
    BY DEF Pairs
  <1>5. Pairs(J, of) \cap Pairs(I \ J, of) = {}
    BY DEF Pairs
  <1>6. Cardinality(Pairs(I, of)) = Cardinality(Pairs(J, of)) + Cardinality(Pairs(I \ J, of)) - 0
    BY <1>2, <1>3, <1>4, <1>5, FS_Union, FS_EmptySet
  <1> QED
    BY <1>2, <1>3, <1>6, CountType

\* A sum has equal addends replaced.
LEMMA CountSame ==
    ASSUME NEW I, IsFiniteSet(I), NEW of, NEW to,
           \A i \in I : IsFiniteSet(of[i]) /\ IsFiniteSet(to[i])
                        /\ Cardinality(of[i]) = Cardinality(to[i])
    PROVE  Count(I, of) = Count(I, to)
  <1> DEFINE b == [i \in I |-> CHOOSE f : f \in Bijection(of[i], to[i])]
             h == [p \in Pairs(I, of) |-> <<p[1], b[p[1]][p[2]]>>]
  <1>1. \A i \in I : b[i] \in Bijection(of[i], to[i])
    BY FS_SameCardinalityBij DEF ExistsBijection
  <1> HIDE DEF b
  <1>2. \A p : p \in Pairs(I, of) <=>
          \E i \in I : \E k \in of[i] : p = <<i, k>>
    BY DEF Pairs
  <1>3. \A p : p \in Pairs(I, to) <=>
          \E i \in I : \E k \in to[i] : p = <<i, k>>
    BY DEF Pairs
  <1>4. \A i \in I : \A k \in of[i] : h[<<i, k>>] = <<i, b[i][k]>> /\ b[i][k] \in to[i]
    BY <1>1, <1>2 DEF Bijection, Injection
  <1>5. h = [p \in Pairs(I, of) |-> h[p]]
    OBVIOUS
  <1> HIDE DEF h
  <1>6. \A p \in Pairs(I, of) : h[p] \in Pairs(I, to)
    BY <1>2, <1>3, <1>4
  <1>7. \A i, j \in I : \A k \in of[i] : \A l \in of[j] :
            h[<<i, k>>] = h[<<j, l>>] => i = j /\ k = l
    <2> TAKE i, j \in I
    <2> TAKE k \in of[i]
    <2> TAKE l \in of[j]
    <2> HAVE h[<<i, k>>] = h[<<j, l>>]
    <2>1. i = j /\ b[i][k] = b[j][l]
      BY <1>4
    <2> QED
      BY <2>1, <1>1 DEF Bijection, Injection, IsInjective
  <1>8. \A i \in I : \A l \in to[i] : \E k \in of[i] : h[<<i, k>>] = <<i, l>>
    <2> TAKE i \in I
    <2> TAKE l \in to[i]
    <2>1. PICK k \in of[i] : b[i][k] = l
      BY <1>1 DEF Bijection, Surjection
    <2> QED
      BY <2>1, <1>4
  <1>9. h \in [Pairs(I, of) -> Pairs(I, to)]
    BY <1>5, <1>6
  <1>10. h \in Injection(Pairs(I, of), Pairs(I, to))
    BY <1>2, <1>7, <1>9 DEF Injection, IsInjective
  <1>11. h \in Surjection(Pairs(I, of), Pairs(I, to))
    <2>1. ASSUME NEW r \in Pairs(I, to) PROVE \E p \in Pairs(I, of) : h[p] = r
      <3>1. PICK i \in I : \E l \in to[i] : r = <<i, l>>
        BY <1>3
      <3>2. PICK l \in to[i] : r = <<i, l>>
        BY <3>1
      <3>3. PICK k \in of[i] : h[<<i, k>>] = <<i, l>>
        BY <1>8
      <3> QED
        BY <3>2, <3>3, <1>2
    <2> QED
      BY <2>1, <1>9 DEF Surjection
  <1>12. Cardinality(Pairs(I, of)) = Cardinality(Pairs(I, to))
    BY <1>10, <1>11, CountType, FS_Bijection DEF ExistsBijection, Bijection
  <1> QED
    BY <1>12 DEF Count, Pairs

\* Indices that move: the sum over J is the sum over I at the indices m[i].
LEMMA CountMoved ==
    ASSUME NEW I, IsFiniteSet(I), NEW J, NEW m \in Bijection(I, J), NEW of, NEW to,
           \A i \in I : IsFiniteSet(of[i]) /\ of[i] = to[m[i]]
    PROVE  Count(I, of) = Count(J, to)
  <1> DEFINE h == [p \in Pairs(I, of) |-> <<m[p[1]], p[2]>>]
  <1>1. \A i \in I : m[i] \in J
    BY DEF Bijection, Injection
  <1>2. \A p : p \in Pairs(I, of) <=>
          \E i \in I : \E k \in of[i] : p = <<i, k>>
    BY DEF Pairs
  <1>3. \A p : p \in Pairs(J, to) <=>
          \E j \in J : \E k \in to[j] : p = <<j, k>>
    BY DEF Pairs
  <1>4. \A i \in I : \A k \in of[i] : h[<<i, k>>] = <<m[i], k>>
    BY <1>2
  <1>5. h = [p \in Pairs(I, of) |-> h[p]]
    OBVIOUS
  <1> HIDE DEF h
  <1>6. \A p \in Pairs(I, of) : h[p] \in Pairs(J, to)
    BY <1>1, <1>2, <1>3, <1>4
  <1>7. \A i, j \in I : \A k \in of[i] : \A l \in of[j] :
            h[<<i, k>>] = h[<<j, l>>] => i = j /\ k = l
    BY <1>4 DEF Bijection, Injection, IsInjective
  <1>9. h \in [Pairs(I, of) -> Pairs(J, to)]
    BY <1>5, <1>6
  <1>10. h \in Injection(Pairs(I, of), Pairs(J, to))
    BY <1>2, <1>7, <1>9 DEF Injection, IsInjective
  <1>11. h \in Surjection(Pairs(I, of), Pairs(J, to))
    <2>1. ASSUME NEW r \in Pairs(J, to) PROVE \E p \in Pairs(I, of) : h[p] = r
      <3>1. PICK j \in J : \E k \in to[j] : r = <<j, k>>
        BY <1>3
      <3>2. PICK k \in to[j] : r = <<j, k>>
        BY <3>1
      <3>3. PICK i \in I : m[i] = j
        BY DEF Bijection, Surjection
      <3> QED
        BY <3>2, <3>3, <1>2, <1>4
    <2> QED
      BY <2>1, <1>9 DEF Surjection
  <1>12. Cardinality(Pairs(I, of)) = Cardinality(Pairs(J, to))
    BY <1>10, <1>11, CountType, FS_Bijection DEF ExistsBijection, Bijection
  <1> QED
    BY <1>12 DEF Count, Pairs

\* The sum over one index, over none, of nothing, and of one each.
LEMMA CountOne ==
    ASSUME NEW i, NEW of, IsFiniteSet(of[i])
    PROVE  Count({i}, of) = Cardinality(of[i])
  <1>1. Pairs({i}, of) = {i} \X of[i]
    BY DEF Pairs
  <1>2. IsFiniteSet({i}) /\ Cardinality({i}) = 1 /\ Cardinality(of[i]) \in Nat
    BY FS_Singleton, FS_CardinalityType
  <1>3. Cardinality({i} \X of[i]) = Cardinality({i}) * Cardinality(of[i])
    BY <1>2, FS_Product
  <1>4. Cardinality({i} \X of[i]) = Cardinality(of[i])
    BY <1>2, <1>3
  <1> QED
    BY <1>1, <1>4 DEF Count, Pairs

LEMMA CountNothing ==
    ASSUME NEW I, NEW of, \A i \in I : of[i] = {}
    PROVE  Count(I, of) = 0
  <1>1. Pairs(I, of) = {}
    BY DEF Pairs
  <1> QED
    BY <1>1, FS_EmptySet DEF Count, Pairs

LEMMA CountEach ==
    ASSUME NEW I, IsFiniteSet(I), NEW of, \A i \in I : IsFiniteSet(of[i]) /\ Cardinality(of[i]) = 1
    PROVE  Count(I, of) = Cardinality(I)
  <1> DEFINE one == [i \in I |-> {0}]
  <1>1. Count(I, of) = Count(I, one)
    BY CountSame, FS_Singleton
  <1>2. Pairs(I, one) = I \X {0}
    BY DEF Pairs
  <1>3. IsFiniteSet({0}) /\ Cardinality({0}) = 1 /\ Cardinality(I) \in Nat
    BY FS_Singleton, FS_CardinalityType
  <1>4. Cardinality(I \X {0}) = Cardinality(I) * Cardinality({0})
    BY <1>3, FS_Product
  <1>5. Cardinality(I \X {0}) = Cardinality(I)
    BY <1>3, <1>4
  <1>6. Count(I, one) = Cardinality(I)
    BY <1>2, <1>5 DEF Count, Pairs
  <1> QED
    BY <1>1, <1>6

\* A sum of numbers, addend by addend.
LEMMA CountAdd ==
    ASSUME NEW I, IsFiniteSet(I), NEW a \in [I -> Nat], NEW b \in [I -> Nat]
    PROVE  Count(I, [i \in I |-> 1 .. a[i] + b[i]])
             = Count(I, [i \in I |-> 1 .. a[i]]) + Count(I, [i \in I |-> 1 .. b[i]])
  <1> DEFINE S == [i \in I |-> 1 .. a[i] + b[i]]
             A == [i \in I |-> 1 .. a[i]]
             B == [i \in I |-> 1 .. b[i]]
             C == [i \in I |-> a[i] + 1 .. a[i] + b[i]]
  <1>1. \A i \in I : /\ IsFiniteSet(S[i]) /\ IsFiniteSet(A[i]) /\ IsFiniteSet(B[i]) /\ IsFiniteSet(C[i])
                     /\ Cardinality(B[i]) = b[i] /\ Cardinality(C[i]) = b[i]
    <2> TAKE i \in I
    <2>1. a[i] \in Nat /\ b[i] \in Nat
      OBVIOUS
    <2>2. IsFiniteSet(1 .. a[i] + b[i]) /\ IsFiniteSet(1 .. a[i])
      BY <2>1, FS_Interval
    <2>3. IsFiniteSet(1 .. b[i]) /\ Cardinality(1 .. b[i]) = b[i]
      BY <2>1, FS_Interval
    <2>4. IsFiniteSet(a[i] + 1 .. a[i] + b[i]) /\ Cardinality(a[i] + 1 .. a[i] + b[i]) = b[i]
      <3>1. \A x, y \in Nat : /\ IsFiniteSet(x + 1 .. x + y)
                              /\ Cardinality(x + 1 .. x + y)
                                   = IF x + 1 > x + y THEN 0 ELSE x + y - (x + 1) + 1
        <4> TAKE x, y \in Nat
        <4>1. x + 1 \in Int /\ x + y \in Int
          OBVIOUS
        <4> QED
          BY <4>1, FS_Interval
      <3>2. \A x, y \in Nat : (IF x + 1 > x + y THEN 0 ELSE x + y - (x + 1) + 1) = y
        OBVIOUS
      <3> QED
        BY <3>1, <3>2, <2>1
    <2> QED
      BY <2>2, <2>3, <2>4
  <1>2. Count(I, B) = Count(I, C)
    <2> HIDE DEF B, C
    <2> QED
      BY <1>1, CountSame
  <1>3. /\ IsFiniteSet(Pairs(I, A)) /\ Count(I, A) = Cardinality(Pairs(I, A)) /\ Count(I, A) \in Nat
        /\ IsFiniteSet(Pairs(I, C)) /\ Count(I, C) = Cardinality(Pairs(I, C)) /\ Count(I, C) \in Nat
        /\ Count(I, S) = Cardinality(Pairs(I, S))
    BY <1>1, CountType
  <1>4. \A i \in I : A[i] \cup C[i] = S[i] /\ A[i] \cap C[i] = {}
    OBVIOUS
  <1> HIDE DEF A, B, C, S
  <1>5. Pairs(I, S) = Pairs(I, A) \cup Pairs(I, C) /\ Pairs(I, A) \cap Pairs(I, C) = {}
    BY <1>4 DEF Pairs
  <1>6. Cardinality(Pairs(I, S)) = Cardinality(Pairs(I, A)) + Cardinality(Pairs(I, C)) - 0
    BY <1>3, <1>5, FS_Union, FS_EmptySet
  <1>7. Count(I, S) = Count(I, A) + Count(I, B)
    BY <1>2, <1>3, <1>6
  <1> QED
    BY <1>7 DEF A, B, S

-----------------------------------------------------------------------------
(* Queues and their sums.                                                  *)

\* A function on 1 .. n is a sequence.
LEMMA MapIsSeq ==
    ASSUME NEW S, NEW n \in Nat, NEW f, f = [i \in 1 .. n |-> f[i]], \A i \in 1 .. n : f[i] \in S
    PROVE  f \in Seq(S) /\ Len(f) = n /\ DOMAIN f = 1 .. n
  OBVIOUS

LEMMA VisitFields ==
    ASSUME NEW v \in Visit
    PROVE  /\ v.id \in Nat /\ v.reserved_at \in Nat /\ v.start \in Nat /\ v.end \in Nat
           /\ v.next \in Nat /\ v.bytes \in Nat /\ v.samples \in Nat
           /\ v.remaining_blocks \in Nat /\ v.slices \in Seq(Slice) /\ v.result \in Result
           /\ v.bound \in BOOLEAN /\ v.closed \in BOOLEAN /\ v.sending \in BOOLEAN
  BY DEF Visit

LEMMA QueueFields ==
    ASSUME NEW s \in Queue
    PROVE  /\ s.visits \in Seq(Visit) /\ s.owned \in SUBSET Token
           /\ s.refs \in [Token -> Nat] /\ s.leased_blocks \in Nat
           /\ s.reserved_blocks \in Nat /\ s.reserved_bytes \in Nat
           /\ s.last_source_end \in Nat /\ s.last_reserved_id \in Nat
           /\ s.last_valid_end \in Nat /\ s.cancelled \in BOOLEAN /\ s.preserve_partial \in BOOLEAN
  BY DEF Queue

LEMMA VisitsOf ==
    ASSUME NEW s \in Queue
    PROVE  /\ Len(s.visits) \in Nat /\ DOMAIN s.visits = 1 .. Len(s.visits)
           /\ IsFiniteSet(DOMAIN s.visits)
           /\ \A i \in DOMAIN s.visits : s.visits[i] \in Visit
  <1>1. s.visits \in Seq(Visit)
    BY QueueFields
  <1>2. Len(s.visits) \in Nat /\ DOMAIN s.visits = 1 .. Len(s.visits)
    BY <1>1
  <1>3. \A i \in 1 .. Len(s.visits) : s.visits[i] \in Visit
    BY <1>1
  <1>4. IsFiniteSet(1 .. Len(s.visits))
    BY <1>2, FS_Interval
  <1> QED
    BY <1>2, <1>3, <1>4

\* The addends are finite.
LEMMA SlicesOfFinite ==
    ASSUME NEW v \in Visit, NEW t
    PROVE  IsFiniteSet(SlicesOf(v, t)) /\ SlicesOf(v, t) \subseteq 1 .. Len(v.slices)
  <1>1. v.slices \in Seq(Slice)
    BY VisitFields
  <1>2. Len(v.slices) \in Nat /\ DOMAIN v.slices = 1 .. Len(v.slices)
    BY <1>1
  <1>3. IsFiniteSet(1 .. Len(v.slices))
    BY <1>2, FS_Interval
  <1> QED
    BY <1>2, <1>3, FS_Subset DEF SlicesOf

\* What the indices J hold, and the others.
LEMMA SumsSplit ==
    ASSUME NEW s \in Queue, NEW I \in SUBSET DOMAIN s.visits, NEW J \in SUBSET I
    PROVE  /\ Blocks(s, I) \in Nat /\ Blocks(s, J) \in Nat
           /\ Blocks(s, I) = Blocks(s, J) + Blocks(s, I \ J)
           /\ Bytes(s, I) \in Nat /\ Bytes(s, J) \in Nat
           /\ Bytes(s, I) = Bytes(s, J) + Bytes(s, I \ J)
           /\ \A t \in Token :
                /\ Slices(s, I, t) \in Nat /\ Slices(s, J, t) \in Nat
                /\ Slices(s, I, t) = Slices(s, J, t) + Slices(s, I \ J, t)
  <1>1. IsFiniteSet(I) /\ IsFiniteSet(J) /\ IsFiniteSet(I \ J) /\ \A i \in I : s.visits[i] \in Visit
    BY VisitsOf, FS_Subset, FS_Difference
  <1>2. ASSUME NEW of, \A i \in I : IsFiniteSet(of[i])
        PROVE  /\ Count(I, of) \in Nat /\ Count(J, of) \in Nat
               /\ Count(I, of) = Count(J, of) + Count(I \ J, of)
    BY <1>1, <1>2, CountType, CountSplit
  <1>3. \A n \in Nat : IsFiniteSet(1 .. n)
    BY FS_Interval
  <1>4. /\ Blocks(s, I) \in Nat /\ Blocks(s, J) \in Nat
        /\ Blocks(s, I) = Blocks(s, J) + Blocks(s, I \ J)
    <2> DEFINE of == [i \in I |-> 1 .. s.visits[i].remaining_blocks]
    <2>1. \A i \in I : IsFiniteSet(of[i])
      BY <1>1, <1>3, VisitFields
    <2>2. /\ Count(J, of) = Count(J, [i \in J |-> 1 .. s.visits[i].remaining_blocks])
          /\ Count(I \ J, of) = Count(I \ J, [i \in I \ J |-> 1 .. s.visits[i].remaining_blocks])
      BY CountEqual
    <2> HIDE DEF of
    <2>3. /\ Count(I, of) \in Nat /\ Count(J, of) \in Nat
          /\ Count(I, of) = Count(J, of) + Count(I \ J, of)
      BY <1>2, <2>1
    <2> QED
      BY <2>2, <2>3 DEF Blocks, of
  <1>5. /\ Bytes(s, I) \in Nat /\ Bytes(s, J) \in Nat
        /\ Bytes(s, I) = Bytes(s, J) + Bytes(s, I \ J)
    <2> DEFINE of == [i \in I |-> 1 .. s.visits[i].bytes]
    <2>1. \A i \in I : IsFiniteSet(of[i])
      BY <1>1, <1>3, VisitFields
    <2>2. /\ Count(J, of) = Count(J, [i \in J |-> 1 .. s.visits[i].bytes])
          /\ Count(I \ J, of) = Count(I \ J, [i \in I \ J |-> 1 .. s.visits[i].bytes])
      BY CountEqual
    <2> HIDE DEF of
    <2>3. /\ Count(I, of) \in Nat /\ Count(J, of) \in Nat
          /\ Count(I, of) = Count(J, of) + Count(I \ J, of)
      BY <1>2, <2>1
    <2> QED
      BY <2>2, <2>3 DEF Bytes, of
  <1>6. ASSUME NEW t \in Token
        PROVE  /\ Slices(s, I, t) \in Nat /\ Slices(s, J, t) \in Nat
               /\ Slices(s, I, t) = Slices(s, J, t) + Slices(s, I \ J, t)
    <2> DEFINE of == [i \in I |-> SlicesOf(s.visits[i], t)]
    <2>1. \A i \in I : IsFiniteSet(of[i])
      BY <1>1, SlicesOfFinite
    <2>2. /\ Count(J, of) = Count(J, [i \in J |-> SlicesOf(s.visits[i], t)])
          /\ Count(I \ J, of) = Count(I \ J, [i \in I \ J |-> SlicesOf(s.visits[i], t)])
      BY CountEqual
    <2> HIDE DEF of
    <2>3. /\ Count(I, of) \in Nat /\ Count(J, of) \in Nat
          /\ Count(I, of) = Count(J, of) + Count(I \ J, of)
      BY <1>2, <2>1
    <2> QED
      BY <2>2, <2>3 DEF Slices, of
  <1> QED
    BY <1>4, <1>5, <1>6

\* The same for the whole queue, with the types of the addends.
LEMMA QueueSplit ==
    ASSUME NEW s \in Queue, NEW J \in SUBSET DOMAIN s.visits
    PROVE  LET D == DOMAIN s.visits
           IN  /\ Blocks(s, J) \in Nat /\ Blocks(s, D \ J) \in Nat
               /\ Blocks(s, D) = Blocks(s, J) + Blocks(s, D \ J)
               /\ Bytes(s, J) \in Nat /\ Bytes(s, D \ J) \in Nat
               /\ Bytes(s, D) = Bytes(s, J) + Bytes(s, D \ J)
               /\ \A t \in Token :
                    /\ Slices(s, J, t) \in Nat /\ Slices(s, D \ J, t) \in Nat
                    /\ Slices(s, D, t) = Slices(s, J, t) + Slices(s, D \ J, t)
  <1> DEFINE D == DOMAIN s.visits
  <1>1. D \in SUBSET DOMAIN s.visits /\ J \in SUBSET D /\ (D \ J) \in SUBSET D
    OBVIOUS
  <1> HIDE DEF D
  <1>2. /\ Blocks(s, J) \in Nat
        /\ Blocks(s, D) = Blocks(s, J) + Blocks(s, D \ J)
        /\ Bytes(s, J) \in Nat
        /\ Bytes(s, D) = Bytes(s, J) + Bytes(s, D \ J)
        /\ \A t \in Token :
             /\ Slices(s, J, t) \in Nat
             /\ Slices(s, D, t) = Slices(s, J, t) + Slices(s, D \ J, t)
    BY <1>1, SumsSplit
  <1>3. /\ Blocks(s, D \ J) \in Nat /\ Bytes(s, D \ J) \in Nat
        /\ \A t \in Token : Slices(s, D \ J, t) \in Nat
    BY <1>1, SumsSplit
  <1> QED
    BY <1>2, <1>3 DEF D

\* Visits that hold the same have the same sums; visits that hold nothing have none.
LEMMA SumsEqual ==
    ASSUME NEW r, NEW s, NEW I,
           \A i \in I : /\ r.visits[i].remaining_blocks = s.visits[i].remaining_blocks
                        /\ r.visits[i].bytes = s.visits[i].bytes
                        /\ r.visits[i].slices = s.visits[i].slices
    PROVE  /\ Blocks(r, I) = Blocks(s, I)
           /\ Bytes(r, I) = Bytes(s, I)
           /\ \A t : Slices(r, I, t) = Slices(s, I, t)
  BY DEF Blocks, Bytes, Slices, SlicesOf

LEMMA SumsNothing ==
    ASSUME NEW s, NEW I
    PROVE  /\ (\A i \in I : s.visits[i].remaining_blocks = 0) => Blocks(s, I) = 0
           /\ (\A i \in I : s.visits[i].bytes = 0) => Bytes(s, I) = 0
           /\ (\A i \in I : s.visits[i].slices = << >>) => \A t : Slices(s, I, t) = 0
  <1>1. 1 .. 0 = {}
    OBVIOUS
  <1>2. (\A i \in I : s.visits[i].remaining_blocks = 0) => Blocks(s, I) = 0
    BY <1>1, CountNothing DEF Blocks
  <1>3. (\A i \in I : s.visits[i].bytes = 0) => Bytes(s, I) = 0
    BY <1>1, CountNothing DEF Bytes
  <1>4. ASSUME \A i \in I : s.visits[i].slices = << >>, NEW t PROVE Slices(s, I, t) = 0
    BY <1>4, CountNothing DEF Slices, SlicesOf
  <1> QED
    BY <1>2, <1>3, <1>4

-----------------------------------------------------------------------------
(* Giving up: discard and terminate.                                       *)

\* What is left of a visit that is discarded.
Discarded(v, result) ==
    [v EXCEPT !.slices = << >>, !.remaining_blocks = 0, !.bytes = 0,
              !.result = result, !.closed = TRUE]

LEMMA DiscardedVisit ==
    ASSUME NEW v \in Visit, NEW result \in Result
    PROVE  LET w == Discarded(v, result)
           IN  /\ w \in Visit
               /\ w.slices = << >> /\ w.remaining_blocks = 0 /\ w.bytes = 0
               /\ w.result = result /\ w.closed = TRUE
               /\ w.id = v.id /\ w.samples = v.samples /\ w.bound = v.bound
               /\ w.start = v.start /\ w.next = v.next /\ w.end = v.end
               /\ w.sending = v.sending /\ w.reserved_at = v.reserved_at
  <1>1. << >> \in Seq(Slice)
    OBVIOUS
  <1> QED
    BY <1>1 DEF Visit, Discarded

\* discard, of some visits: what they hold is taken off the sums.
LEMMA DiscardSums ==
    ASSUME NEW s \in Queue, SumsInv(s), NEW I \in SUBSET DOMAIN s.visits,
           NEW result \in [I -> Result]
    PROVE  LET r == Discard(s, I, result)
           IN  /\ r \in Queue /\ SumsInv(r)
               /\ r.owned = s.owned /\ r.last_source_end = s.last_source_end
               /\ r.last_reserved_id = s.last_reserved_id
               /\ r.reserved_blocks <= s.reserved_blocks
               /\ \A t \in Token : r.refs[t] <= s.refs[t]
               /\ DOMAIN r.visits = DOMAIN s.visits /\ Len(r.visits) = Len(s.visits)
               /\ \A i \in DOMAIN s.visits :
                    r.visits[i] = IF i \notin I THEN s.visits[i]
                                  ELSE Discarded(s.visits[i], result[i])
  <1> DEFINE r == Discard(s, I, result)
             D == DOMAIN s.visits
             cut(i) == Discarded(s.visits[i], result[i])
             kept == [i \in D |-> IF i \notin I THEN s.visits[i] ELSE cut(i)]
  <1>1. /\ r.refs = [t \in Token |-> s.refs[t] - Slices(s, I, t)]
        /\ r.reserved_blocks = s.reserved_blocks - Blocks(s, I)
        /\ r.reserved_bytes = s.reserved_bytes - Bytes(s, I)
        /\ r.visits = kept
        /\ r.owned = s.owned /\ r.leased_blocks = s.leased_blocks
        /\ r.last_source_end = s.last_source_end /\ r.last_reserved_id = s.last_reserved_id
    BY DEF Discard, Queue, Discarded
  <1>0. \A i \in D : kept[i] = IF i \notin I THEN s.visits[i] ELSE cut(i)
    OBVIOUS
  <1>2. \A i \in D : s.visits[i] \in Visit
    BY VisitsOf
  <1>3. \A i \in I : cut(i) \in Visit
    BY <1>2, DiscardedVisit
  <1>4. kept \in Seq(Visit) /\ Len(kept) = Len(s.visits) /\ DOMAIN kept = D
    <2>1. D = 1 .. Len(s.visits) /\ Len(s.visits) \in Nat
      BY VisitsOf
    <2>2. kept = [i \in D |-> kept[i]]
      OBVIOUS
    <2> HIDE DEF kept, D
    <2> HIDE DEF cut
    <2>3. \A i \in D : kept[i] \in Visit
      BY <1>0, <1>2, <1>3
    <2> QED
      BY <2>1, <2>2, <2>3, MapIsSeq
  <1>5. \A i \in I : /\ r.visits[i].remaining_blocks = 0 /\ r.visits[i].bytes = 0
                     /\ r.visits[i].slices = << >>
    <2>1. ASSUME NEW i \in I
          PROVE  cut(i).remaining_blocks = 0 /\ cut(i).bytes = 0 /\ cut(i).slices = << >>
      <3>1. s.visits[i] \in Visit /\ result[i] \in Result
        BY <1>2
      <3> QED
        BY <3>1, DiscardedVisit
    <2> HIDE DEF cut, kept
    <2> QED
      BY <2>1, <1>0, <1>1
  <1>7. \A i \in D \ I : r.visits[i] = s.visits[i]
    BY <1>1
  <1>18. \A i \in D : r.visits[i] = IF i \notin I THEN s.visits[i] ELSE cut(i)
    BY <1>1
  <1>19. s.refs \in [Token -> Nat]
    BY QueueFields
  <1>13a. r \in Queue <=> /\ r.refs \in [Token -> Nat]
                          /\ r.reserved_blocks \in Nat /\ r.reserved_bytes \in Nat
                          /\ r.visits \in Seq(Visit)
    BY DEF Discard, Queue
  <1> HIDE DEF r, kept, cut
  <1>6. /\ Blocks(r, I) = 0 /\ Bytes(r, I) = 0 /\ \A t \in Token : Slices(r, I, t) = 0
    BY <1>5, SumsNothing
  <1>8. /\ Blocks(r, D \ I) = Blocks(s, D \ I) /\ Bytes(r, D \ I) = Bytes(s, D \ I)
        /\ \A t \in Token : Slices(r, D \ I, t) = Slices(s, D \ I, t)
    BY <1>7, SumsEqual
  <1>9. /\ Blocks(s, I) \in Nat /\ Blocks(s, D \ I) \in Nat
        /\ Blocks(s, D) = Blocks(s, I) + Blocks(s, D \ I)
        /\ Bytes(s, I) \in Nat /\ Bytes(s, D \ I) \in Nat
        /\ Bytes(s, D) = Bytes(s, I) + Bytes(s, D \ I)
    BY QueueSplit
  <1>10. \A t \in Token :
             /\ Slices(s, I, t) \in Nat /\ Slices(s, D \ I, t) \in Nat
             /\ Slices(s, D, t) = Slices(s, I, t) + Slices(s, D \ I, t)
    BY QueueSplit
  <1>11. /\ s.reserved_blocks = Blocks(s, D) /\ s.reserved_bytes = Bytes(s, D)
         /\ \A t \in Token : s.refs[t] = Slices(s, D, t)
    BY DEF SumsInv
  <1>12. /\ r.reserved_blocks = Blocks(s, D \ I) /\ r.reserved_bytes = Bytes(s, D \ I)
         /\ \A t \in Token : r.refs[t] = Slices(s, D \ I, t)
    <2>1. r.reserved_blocks = Blocks(s, D \ I)
      BY <1>1, <1>9, <1>11
    <2>2. r.reserved_bytes = Bytes(s, D \ I)
      BY <1>1, <1>9, <1>11
    <2>3. ASSUME NEW t \in Token PROVE r.refs[t] = Slices(s, D \ I, t)
      <3>1. r.refs[t] = s.refs[t] - Slices(s, I, t)
        BY <1>1
      <3>2. s.refs[t] = Slices(s, D, t)
        BY <1>11
      <3>3. /\ Slices(s, I, t) \in Nat /\ Slices(s, D \ I, t) \in Nat
            /\ Slices(s, D, t) = Slices(s, I, t) + Slices(s, D \ I, t)
        BY <1>10
      <3> QED
        BY <3>1, <3>2, <3>3
    <2> QED
      BY <2>1, <2>2, <2>3
  <1>13. r \in Queue
    <2>1. r.refs \in [Token -> Nat]
      <3>1. \A t \in Token : r.refs[t] \in Nat
        BY <1>10, <1>12
      <3> QED
        BY <1>1, <3>1
    <2>2. r.reserved_blocks \in Nat /\ r.reserved_bytes \in Nat /\ r.visits \in Seq(Visit)
      BY <1>1, <1>4, <1>9, <1>12
    <2> QED
      BY <2>1, <2>2, <1>13a
  <1>14. DOMAIN r.visits = D /\ Len(r.visits) = Len(s.visits)
    BY <1>1, <1>4
  <1>15. /\ Blocks(r, D) = Blocks(r, I) + Blocks(r, D \ I)
         /\ Bytes(r, D) = Bytes(r, I) + Bytes(r, D \ I)
         /\ \A t \in Token : Slices(r, D, t) = Slices(r, I, t) + Slices(r, D \ I, t)
    <2>1. I \in SUBSET DOMAIN r.visits
      BY <1>14
    <2> HIDE DEF D
    <2> QED
      BY <1>13, <1>14, <2>1, QueueSplit
  <1>16. SumsInv(r)
    <2>1. r.reserved_blocks = Blocks(r, D) /\ r.reserved_bytes = Bytes(r, D)
      BY <1>6, <1>8, <1>9, <1>12, <1>15
    <2>2. ASSUME NEW t \in Token PROVE r.refs[t] = Slices(r, D, t)
      <3>1. Slices(r, D, t) = Slices(r, I, t) + Slices(r, D \ I, t)
        BY <1>15
      <3>2. Slices(r, I, t) = 0 /\ Slices(r, D \ I, t) = Slices(s, D \ I, t)
            /\ Slices(s, D \ I, t) \in Nat
        BY <1>6, <1>8, <1>10
      <3> QED
        BY <3>1, <3>2, <1>12
    <2>3. r.leased_blocks = Cardinality(r.owned)
      BY <1>1 DEF SumsInv
    <2>4. \A t \in Token : t \notin r.owned => r.refs[t] = 0
      BY <1>1, <1>9, <1>10, <1>11, <1>12 DEF SumsInv
    <2> QED
      BY <2>1, <2>2, <2>3, <2>4, <1>14 DEF SumsInv
  <1>17. r.reserved_blocks <= s.reserved_blocks /\ \A t \in Token : r.refs[t] <= s.refs[t]
    <2>1. r.reserved_blocks <= s.reserved_blocks
      BY <1>9, <1>11, <1>12
    <2>2. ASSUME NEW t \in Token PROVE r.refs[t] <= s.refs[t]
      <3>1. r.refs[t] = Slices(s, D \ I, t) /\ s.refs[t] = Slices(s, D, t)
        BY <1>11, <1>12
      <3>2. /\ Slices(s, I, t) \in Nat /\ Slices(s, D \ I, t) \in Nat
            /\ Slices(s, D, t) = Slices(s, I, t) + Slices(s, D \ I, t)
        BY <1>10
      <3> QED
        BY <3>1, <3>2
    <2> QED
      BY <2>1, <2>2
  <1> QED
    BY <1>1, <1>13, <1>14, <1>16, <1>17, <1>18 DEF r, cut

\* The headroom only grows when blocks are given up.
LEMMA HeadroomGrows ==
    ASSUME NEW s \in Queue, NEW r \in Queue, HeadroomInv(s), r.owned \subseteq s.owned,
           r.reserved_blocks <= s.reserved_blocks, \A t \in Token : r.refs[t] <= s.refs[t]
    PROVE  HeadroomInv(r)
  <1>1. /\ r.owned \subseteq Token /\ s.owned \subseteq Token
        /\ r.refs \in [Token -> Nat] /\ s.refs \in [Token -> Nat]
        /\ r.reserved_blocks \in Nat /\ s.reserved_blocks \in Nat
    BY QueueFields
  <1>2. Referenced(r) \subseteq Referenced(s)
    <2> SUFFICES ASSUME NEW t \in Token, t \in Referenced(r) PROVE t \in Referenced(s)
      BY <1>1 DEF Referenced
    <2>1. r.refs[t] \in Nat /\ s.refs[t] \in Nat /\ r.refs[t] <= s.refs[t]
      BY <1>1
    <2> QED
      BY <2>1 DEF Referenced, Unreferenced
  <1>3. IsFiniteSet(Referenced(s))
    BY <1>1, ConfigAssumption, FS_Subset DEF Referenced
  <1>4. /\ Cardinality(Referenced(r)) \in Nat /\ Cardinality(Referenced(s)) \in Nat
        /\ Cardinality(Referenced(r)) <= Cardinality(Referenced(s))
    BY <1>2, <1>3, FS_Subset, FS_CardinalityType
  <1>5. BlockCount \in Nat /\ HeadroomBlocks \in Nat
    BY ConfigAssumption
  <1> QED
    BY <1>1, <1>4, <1>5 DEF HeadroomInv

\* A visit that is cut keeps its prefix and gives back its blocks.
Cut(v, result) ==
    [v EXCEPT !.remaining_blocks = 0, !.end = v.next, !.result = result, !.closed = TRUE]

LEMMA CutVisit ==
    ASSUME NEW v \in Visit, NEW result \in Result
    PROVE  LET w == Cut(v, result)
           IN  /\ w \in Visit
               /\ w.slices = v.slices /\ w.remaining_blocks = 0 /\ w.bytes = v.bytes
               /\ w.result = result /\ w.closed = TRUE
               /\ w.id = v.id /\ w.samples = v.samples /\ w.bound = v.bound
               /\ w.start = v.start /\ w.next = v.next /\ w.end = v.next
               /\ w.sending = v.sending /\ w.reserved_at = v.reserved_at
  BY DEF Visit, Cut

Ended == Result \ {"ADMITTED", "COMPLETE"}

\* However it is given up, a visit stays well formed.
LEMMA GivenUpInv ==
    ASSUME NEW v \in Visit, VisitInv(v), NEW result \in Ended, NEW end
    PROVE  /\ VisitInv(Discarded(v, result)) /\ ReservationInv(Discarded(v, result), end)
           /\ VisitInv(Cut(v, result)) /\ ReservationInv(Cut(v, result), end)
  <1> DEFINE w == Discarded(v, result)
             c == Cut(v, result)
  <1>0. result \in Result /\ result # "ADMITTED" /\ result # "COMPLETE"
    BY DEF Ended
  <1>1. /\ w.slices = << >> /\ w.remaining_blocks = 0 /\ w.bytes = 0
        /\ w.result = result /\ w.samples = v.samples /\ w.bound = v.bound
        /\ w.start = v.start /\ w.next = v.next /\ w.end = v.end /\ w.sending = v.sending
        /\ w.closed = TRUE
    BY <1>0, DiscardedVisit
  <1>2. /\ c.slices = v.slices /\ c.remaining_blocks = 0 /\ c.bytes = v.bytes
        /\ c.result = result /\ c.samples = v.samples /\ c.bound = v.bound
        /\ c.start = v.start /\ c.next = v.next /\ c.end = v.next /\ c.sending = v.sending
        /\ c.closed = TRUE /\ v.start \in Nat /\ v.next \in Nat
    BY <1>0, CutVisit, VisitFields
  <1> HIDE DEF w, c
  <1>3. VisitInv(w) /\ ReservationInv(w, end)
    BY <1>0, <1>1 DEF VisitInv, ReservationInv
  <1>4. VisitInv(c) /\ ReservationInv(c, end)
    BY <1>0, <1>2 DEF VisitInv, ReservationInv
  <1> QED
    BY <1>3, <1>4 DEF w, c

\* terminate of a queue that preserves partial visits.
LEMMA CutSums ==
    ASSUME NEW s \in Queue, SumsInv(s), s.preserve_partial, NEW I \in SUBSET DOMAIN s.visits,
           NEW result \in Result
    PROVE  LET r == Terminate(s, I, result)
           IN  /\ r \in Queue /\ SumsInv(r)
               /\ r.owned = s.owned /\ r.last_source_end = s.last_source_end
               /\ r.last_reserved_id = s.last_reserved_id
               /\ r.reserved_blocks <= s.reserved_blocks
               /\ \A t \in Token : r.refs[t] <= s.refs[t]
               /\ DOMAIN r.visits = DOMAIN s.visits /\ Len(r.visits) = Len(s.visits)
               /\ \A i \in DOMAIN s.visits :
                    r.visits[i] = IF i \notin I THEN s.visits[i] ELSE Cut(s.visits[i], result)
  <1> DEFINE r == Terminate(s, I, result)
             D == DOMAIN s.visits
             cut(i) == Cut(s.visits[i], result)
             kept == [i \in D |-> IF i \notin I THEN s.visits[i] ELSE cut(i)]
  <1>1. /\ r.reserved_blocks = s.reserved_blocks - Blocks(s, I)
        /\ r.visits = kept
        /\ r.refs = s.refs /\ r.reserved_bytes = s.reserved_bytes
        /\ r.owned = s.owned /\ r.leased_blocks = s.leased_blocks
        /\ r.last_source_end = s.last_source_end /\ r.last_reserved_id = s.last_reserved_id
    BY DEF Terminate, Queue, Cut
  <1>2. r \in Queue <=> r.reserved_blocks \in Nat /\ r.visits \in Seq(Visit)
    BY DEF Terminate, Queue
  <1>3. \A i \in D : kept[i] = IF i \notin I THEN s.visits[i] ELSE cut(i)
    OBVIOUS
  <1>4. kept = [i \in D |-> kept[i]]
    OBVIOUS
  <1>5. \A i \in D : s.visits[i] \in Visit
    BY VisitsOf
  <1>6. \A i \in D : cut(i) \in Visit
    BY <1>5, CutVisit
  <1>7. \A i \in D : /\ cut(i).remaining_blocks = 0 /\ cut(i).bytes = s.visits[i].bytes
                     /\ cut(i).slices = s.visits[i].slices
    <2> TAKE i \in D
    <2>1. s.visits[i] \in Visit
      BY <1>5
    <2> QED
      BY <2>1, CutVisit
  <1>8. D = 1 .. Len(s.visits) /\ Len(s.visits) \in Nat
    BY VisitsOf
  <1> HIDE DEF r, cut, kept
  <1>9. kept \in Seq(Visit) /\ Len(kept) = Len(s.visits) /\ DOMAIN kept = D
    <2>1. \A i \in D : kept[i] \in Visit
      BY <1>3, <1>5, <1>6
    <2> HIDE DEF D
    <2> QED
      BY <1>4, <1>8, <2>1, MapIsSeq
  <1>10. /\ Blocks(s, I) \in Nat /\ Blocks(s, D \ I) \in Nat
         /\ Blocks(s, D) = Blocks(s, I) + Blocks(s, D \ I)
    BY QueueSplit
  <1>11. s.reserved_blocks = Blocks(s, D)
    BY DEF SumsInv
  <1>12. r.reserved_blocks = Blocks(s, D \ I)
    BY <1>1, <1>10, <1>11
  <1>13. r \in Queue /\ DOMAIN r.visits = D /\ Len(r.visits) = Len(s.visits)
    BY <1>1, <1>2, <1>9, <1>10, <1>12
  <1>14. Blocks(r, D) = Blocks(r, I) + Blocks(r, D \ I)
    <2>1. I \in SUBSET DOMAIN r.visits
      BY <1>13
    <2> HIDE DEF D
    <2> QED
      BY <1>13, <2>1, QueueSplit
  <1>15. \A i \in I : r.visits[i].remaining_blocks = 0
    BY <1>1, <1>3, <1>7
  <1>16. \A i \in D \ I : r.visits[i] = s.visits[i]
    BY <1>1, <1>3
  <1>17. \A i \in D : r.visits[i].bytes = s.visits[i].bytes /\ r.visits[i].slices = s.visits[i].slices
    BY <1>1, <1>3, <1>7
  <1>18. Blocks(r, I) = 0 /\ Blocks(r, D \ I) = Blocks(s, D \ I)
    BY <1>15, <1>16, SumsNothing, SumsEqual
  <1>19. Bytes(r, D) = Bytes(s, D) /\ \A t \in Token : Slices(r, D, t) = Slices(s, D, t)
    <2> HIDE DEF D
    <2>1. [i \in D |-> 1 .. r.visits[i].bytes] = [i \in D |-> 1 .. s.visits[i].bytes]
      BY <1>17
    <2>2. ASSUME NEW t PROVE Slices(r, D, t) = Slices(s, D, t)
      <3>1. [i \in D |-> SlicesOf(r.visits[i], t)] = [i \in D |-> SlicesOf(s.visits[i], t)]
        BY <1>17 DEF SlicesOf
      <3> QED
        BY <3>1 DEF Slices
    <2> QED
      BY <2>1, <2>2 DEF Bytes
  <1>20. SumsInv(r)
    <2>1. r.reserved_blocks = Blocks(r, D)
      BY <1>10, <1>12, <1>14, <1>18
    <2> QED
      BY <1>1, <1>13, <1>19, <2>1 DEF SumsInv
  <1>21. r.reserved_blocks <= s.reserved_blocks
    BY <1>10, <1>11, <1>12
  <1>22. \A t \in Token : r.refs[t] <= s.refs[t]
    <2>1. \A t \in Token : s.refs[t] \in Nat
      BY QueueFields
    <2> QED
      BY <1>1, <2>1
  <1>23. \A i \in D : r.visits[i] = IF i \notin I THEN s.visits[i] ELSE cut(i)
    BY <1>1, <1>3
  <1> QED
    BY <1>1, <1>13, <1>20, <1>21, <1>22, <1>23 DEF r, cut

\* terminate keeps the queue sound, whether it preserves or discards.
LEMMA TerminateInv ==
    ASSUME NEW s, QueueInv(s), NEW I \in SUBSET DOMAIN s.visits, NEW result \in Ended
    PROVE  LET r == Terminate(s, I, result)
           IN  /\ QueueInv(r)
               /\ r.owned = s.owned /\ r.last_source_end = s.last_source_end
               /\ r.last_reserved_id = s.last_reserved_id
               /\ DOMAIN r.visits = DOMAIN s.visits /\ Len(r.visits) = Len(s.visits)
               /\ \A i \in DOMAIN s.visits :
                    /\ i \notin I => r.visits[i] = s.visits[i]
                    /\ i \in I => r.visits[i].result = result
  <1> DEFINE r == Terminate(s, I, result)
             D == DOMAIN s.visits
  <1>1. s \in Queue /\ VisitsInv(s) /\ SumsInv(s) /\ HeadroomInv(s)
    BY DEF QueueInv
  <1>2. result \in Result
    BY DEF Ended
  <1>3. \A i \in D : s.visits[i] \in Visit
    BY <1>1, VisitsOf
  <1>4. /\ r \in Queue /\ SumsInv(r)
        /\ r.owned = s.owned /\ r.last_source_end = s.last_source_end
        /\ r.last_reserved_id = s.last_reserved_id
        /\ r.reserved_blocks <= s.reserved_blocks
        /\ \A t \in Token : r.refs[t] <= s.refs[t]
        /\ DOMAIN r.visits = D /\ Len(r.visits) = Len(s.visits)
        /\ \A i \in D :
             \/ i \notin I /\ r.visits[i] = s.visits[i]
             \/ i \in I /\ r.visits[i] = Discarded(s.visits[i], result)
             \/ i \in I /\ r.visits[i] = Cut(s.visits[i], result)
    <2>1. CASE s.preserve_partial
      <3> HIDE DEF r
      <3>1. r = Terminate(s, I, result)
        BY DEF r
      <3> QED
        BY <1>1, <1>2, <2>1, <3>1, CutSums
    <2>2. CASE ~s.preserve_partial
      <3> DEFINE results == [i \in I |-> result]
      <3>1. r = Discard(s, I, results)
        BY <2>2 DEF Terminate
      <3>2. results \in [I -> Result] /\ \A i \in I : results[i] = result
        BY <1>2
      <3> HIDE DEF r, results
      <3>3. LET x == Discard(s, I, results)
            IN  /\ x \in Queue /\ SumsInv(x)
                /\ x.owned = s.owned /\ x.last_source_end = s.last_source_end
                /\ x.last_reserved_id = s.last_reserved_id
                /\ x.reserved_blocks <= s.reserved_blocks
                /\ \A t \in Token : x.refs[t] <= s.refs[t]
                /\ DOMAIN x.visits = D /\ Len(x.visits) = Len(s.visits)
                /\ \A i \in D : x.visits[i] = IF i \notin I THEN s.visits[i]
                                              ELSE Discarded(s.visits[i], results[i])
        BY <1>1, <3>2, DiscardSums
      <3> QED
        BY <3>1, <3>2, <3>3
    <2> QED
      BY <2>1, <2>2
  <1> HIDE DEF r
  <1>5. HeadroomInv(r)
    BY <1>1, <1>4, HeadroomGrows
  <1>6. ASSUME NEW i \in D
        PROVE  /\ VisitInv(r.visits[i]) /\ ReservationInv(r.visits[i], r.last_source_end)
               /\ r.visits[i].bound = s.visits[i].bound /\ r.visits[i].id = s.visits[i].id
               /\ i \in I => r.visits[i].result = result
    <2>1. s.visits[i] \in Visit /\ VisitInv(s.visits[i])
          /\ ReservationInv(s.visits[i], s.last_source_end)
      BY <1>1, <1>3 DEF VisitsInv
    <2>2. CASE i \notin I /\ r.visits[i] = s.visits[i]
      BY <1>4, <2>1, <2>2
    <2>3. CASE i \in I /\ r.visits[i] = Discarded(s.visits[i], result)
      <3>1. VisitInv(r.visits[i]) /\ ReservationInv(r.visits[i], r.last_source_end)
        BY <2>1, <2>3, GivenUpInv
      <3>2. LET w == Discarded(s.visits[i], result)
            IN  w.bound = s.visits[i].bound /\ w.id = s.visits[i].id /\ w.result = result
        BY <1>2, <2>1, DiscardedVisit
      <3> QED
        BY <2>3, <3>1, <3>2
    <2>4. CASE i \in I /\ r.visits[i] = Cut(s.visits[i], result)
      <3>1. VisitInv(r.visits[i]) /\ ReservationInv(r.visits[i], r.last_source_end)
        BY <2>1, <2>4, GivenUpInv
      <3>2. LET w == Cut(s.visits[i], result)
            IN  w.bound = s.visits[i].bound /\ w.id = s.visits[i].id /\ w.result = result
        BY <1>2, <2>1, CutVisit
      <3> QED
        BY <2>4, <3>1, <3>2
    <2> QED
      BY <1>4, <2>2, <2>3, <2>4
  <1>7. VisitsInv(r)
    <2>1. \A i \in D : (i < Len(s.visits) => s.visits[i].bound)
                       /\ s.visits[i].id <= s.last_reserved_id
      BY <1>1 DEF VisitsInv
    <2>2. \A i, j \in D : i < j => s.visits[i].id < s.visits[j].id
      BY <1>1 DEF VisitsInv
    <2> HIDE DEF D
    <2> QED
      BY <1>4, <1>6, <2>1, <2>2 DEF VisitsInv
  <1> QED
    BY <1>4, <1>5, <1>6, <1>7 DEF r, QueueInv

-----------------------------------------------------------------------------
(* Feeding a block.                                                        *)

\* The blocks of a reservation after the first one hold the whole window.
LEMMA BlocksForBounds ==
    ASSUME NEW n \in 1 .. MaximumSamples
    PROVE  /\ BlocksFor(n) \in Nat /\ BlocksFor(n) >= 2
           /\ n <= (BlocksFor(n) - 1) * BlockSamples
  <1> DEFINE m == n + BlockSamples - 1
             d == m \div BlockSamples
  <1>1. BlockSamples \in Nat /\ BlockSamples >= 1 /\ MaximumSamples \in Nat
    BY ConfigAssumption
  <1>2. m \in Nat /\ m >= BlockSamples /\ n \in Nat
    BY <1>1
  <1>3. d \in Int /\ m = BlockSamples * d + (m % BlockSamples) /\ m % BlockSamples \in 0 .. BlockSamples - 1
    BY <1>1, <1>2
  <1> HIDE DEF m
  <1>4. d >= 1
    BY <1>1, <1>2, <1>3
  <1> HIDE DEF d
  <1>5. BlocksFor(n) = d + 1
    BY DEF BlocksFor, m, d
  <1>6. n <= BlockSamples * d
    BY <1>1, <1>2, <1>3 DEF m
  <1>7. BlockSamples * d = d * BlockSamples
    BY <1>1, <1>3
  <1>8. BlocksFor(n) - 1 = d
    BY <1>3, <1>5
  <1>9. BlocksFor(n) \in Nat /\ BlocksFor(n) >= 2
    BY <1>3, <1>4, <1>5
  <1> QED
    BY <1>6, <1>7, <1>8, <1>9

\* A slice that begins where the tiling ends extends it.
LEMMA TilesAppend ==
    ASSUME NEW slices \in Seq(Slice), NEW from \in Nat, NEW next \in Nat, NEW sl \in Slice,
           Tiles(slices, from, next), sl.from = next, sl.from < sl.to
    PROVE  Tiles(Append(slices, sl), from, sl.to)
  <1> DEFINE n == Len(slices)
             more == Append(slices, sl)
  <1>1. n \in Nat /\ DOMAIN slices = 1 .. n
    OBVIOUS
  <1>2. /\ more # << >> /\ Len(more) = n + 1 /\ DOMAIN more = 1 .. n + 1
        /\ more[n + 1] = sl /\ \A i \in 1 .. n : more[i] = slices[i]
    BY <1>1
  <1> HIDE DEF more
  <1>3. CASE slices = << >>
    <2>1. n = 0 /\ from = next
      BY <1>3 DEF Tiles
    <2>2. more[1] = sl /\ Len(more) = 1 /\ DOMAIN more = 1 .. 1
      BY <1>2, <2>1
    <2> QED
      BY <1>2, <2>1, <2>2 DEF Tiles, more
  <1>4. CASE slices # << >>
    <2>1. n >= 1
      BY <1>1, <1>4
    <2>2. /\ slices[1].from = from /\ slices[n].to = next
          /\ \A i \in 1 .. n : /\ slices[i].from < slices[i].to
                               /\ i > 1 => slices[i].from = slices[i - 1].to
      BY <1>1, <1>4 DEF Tiles
    <2>3. more[1].from = from /\ more[Len(more)].to = sl.to
      BY <1>1, <1>2, <2>1, <2>2
    <2>4. ASSUME NEW i \in 1 .. n + 1
          PROVE  more[i].from < more[i].to /\ (i > 1 => more[i].from = more[i - 1].to)
      <3>1. CASE i = n + 1
        <4>1. more[i] = sl /\ more[i - 1] = slices[n]
          BY <1>1, <1>2, <2>1, <3>1
        <4> QED
          BY <4>1, <2>2
      <3>2. CASE i # n + 1
        <4>1. i \in 1 .. n /\ more[i] = slices[i]
          BY <1>1, <1>2, <3>2
        <4>2. ASSUME i > 1 PROVE more[i - 1] = slices[i - 1]
          <5>1. i - 1 \in 1 .. n
            BY <1>1, <4>1, <4>2
          <5> QED
            BY <1>2, <5>1
        <4> QED
          BY <4>1, <4>2, <2>2
      <3> QED
        BY <3>1, <3>2
    <2> QED
      BY <1>2, <2>3, <2>4 DEF Tiles, more
  <1> QED
    BY <1>3, <1>4

\* The slice of a block in a visit lies in both.
LEMMA SliceBounds ==
    ASSUME NEW v \in Visit, NEW first \in Nat
    PROVE  /\ SliceFrom(v, first) \in Nat /\ SliceTo(v, first) \in Nat
           /\ SliceTo(v, first) = IF first + BlockSamples < v.end THEN first + BlockSamples ELSE v.end
           /\ SliceFrom(v, first) = IF first > v.start THEN first ELSE v.start
           /\ SliceTo(v, first) <= v.end /\ SliceTo(v, first) <= first + BlockSamples
  <1>1. v.start \in Nat /\ v.end \in Nat /\ BlockSamples \in Nat
    BY VisitFields, ConfigAssumption
  <1> QED
    BY <1>1 DEF SliceFrom, SliceTo

\* A visit with its next slice.
LEMMA AddedVisit ==
    ASSUME NEW v \in Visit, NEW token \in Token, NEW first \in Nat,
           v.remaining_blocks >= 1
    PROVE  LET w == AddSlice(v, token, first)
               sl == [token |-> token, from |-> SliceFrom(v, first), to |-> SliceTo(v, first)]
               whole == SliceTo(v, first) = v.end
           IN  /\ w \in Visit /\ sl \in Slice
               /\ w.slices = Append(v.slices, sl) /\ w.next = SliceTo(v, first)
               /\ w.remaining_blocks = IF whole THEN 0 ELSE v.remaining_blocks - 1
               /\ w.result = IF whole /\ v.closed THEN "COMPLETE" ELSE v.result
               /\ w.id = v.id /\ w.samples = v.samples /\ w.bound = v.bound /\ w.bytes = v.bytes
               /\ w.start = v.start /\ w.end = v.end /\ w.closed = v.closed
               /\ w.sending = v.sending /\ w.reserved_at = v.reserved_at
  <1> DEFINE sl == [token |-> token, from |-> SliceFrom(v, first), to |-> SliceTo(v, first)]
             left == IF SliceTo(v, first) = v.end THEN 0 ELSE v.remaining_blocks - 1
             result == IF SliceTo(v, first) = v.end /\ v.closed THEN "COMPLETE" ELSE v.result
  <1>1. SliceFrom(v, first) \in Nat /\ SliceTo(v, first) \in Nat
    BY SliceBounds
  <1>2. sl \in Slice
    BY <1>1 DEF Slice
  <1>3. left \in Nat /\ result \in Result
    BY VisitFields DEF Result
  <1>4. v.slices \in Seq(Slice)
    BY VisitFields
  <1> HIDE DEF sl, left, result
  <1>5. Append(v.slices, sl) \in Seq(Slice)
    BY <1>2, <1>4
  <1>6. AddSlice(v, token, first) =
            [v EXCEPT !.slices = Append(v.slices, sl), !.remaining_blocks = left,
                      !.next = SliceTo(v, first), !.result = result]
    BY DEF AddSlice, Visit, sl, left, result
  <1>7. LET w == [v EXCEPT !.slices = Append(v.slices, sl), !.remaining_blocks = left,
                           !.next = SliceTo(v, first), !.result = result]
        IN  /\ w \in Visit
            /\ w.slices = Append(v.slices, sl) /\ w.next = SliceTo(v, first)
            /\ w.remaining_blocks = left /\ w.result = result
            /\ w.id = v.id /\ w.samples = v.samples /\ w.bound = v.bound /\ w.bytes = v.bytes
            /\ w.start = v.start /\ w.end = v.end /\ w.closed = v.closed
            /\ w.sending = v.sending /\ w.reserved_at = v.reserved_at
    BY <1>1, <1>3, <1>5 DEF Visit
  <1> QED
    BY <1>2, <1>6, <1>7 DEF sl, left, result

\* A block that reaches an admitted visit without a gap continues it where it
\* stopped, and within its reservation.
LEMMA HitVisit ==
    ASSUME NEW v \in Visit, NEW token \in Token, NEW first \in Nat, NEW source_end \in Nat,
           VisitInv(v), ReservationInv(v, source_end), v.bound, v.result = "ADMITTED",
           source_end <= first, ~(first > v.next /\ v.next < v.end),
           SliceFrom(v, first) < SliceTo(v, first)
    PROVE  /\ SliceFrom(v, first) = v.next /\ v.next < v.end
           /\ v.remaining_blocks >= 1 /\ Len(v.slices) < MaxBlocks
           /\ Spent(v, first) \in 1 .. v.remaining_blocks
           /\ VisitInv(AddSlice(v, token, first))
           /\ ReservationInv(AddSlice(v, token, first), first + BlockSamples)
           /\ AddSlice(v, token, first).remaining_blocks = v.remaining_blocks - Spent(v, first)
  <1> DEFINE from == SliceFrom(v, first)
             to == SliceTo(v, first)
             w == AddSlice(v, token, first)
             sl == [token |-> token, from |-> from, to |-> to]
             n == Len(v.slices)
             c == BlocksFor(v.samples)
             r == v.remaining_blocks
             B == BlockSamples
  <1>1. /\ v.start \in Nat /\ v.end \in Nat /\ v.next \in Nat /\ v.samples \in Nat /\ v.bytes \in Nat
        /\ r \in Nat /\ v.slices \in Seq(Slice) /\ n \in Nat
    BY VisitFields
  <1>2. B \in Nat /\ B >= 1
    BY ConfigAssumption
  <1>3. /\ from \in Nat /\ to \in Nat
        /\ to = IF first + B < v.end THEN first + B ELSE v.end
        /\ from = IF first > v.start THEN first ELSE v.start
    BY SliceBounds
  <1>4. c \in Nat /\ c >= 2 /\ v.samples <= (c - 1) * B
    BY BlocksForBounds DEF VisitInv
  <1>5. /\ v.end = v.start + v.samples /\ v.samples >= 1 /\ v.bytes = v.samples /\ v.next <= v.end
        /\ r + n <= c /\ c < MaxBlocks
        /\ v.slices = << >> => r = c /\ v.next = v.start
        /\ v.slices # << >> => v.next <= source_end /\ v.end - v.next <= r * B
        /\ Tiles(v.slices, v.start, v.next) /\ v.start <= v.next
    BY <1>1, ConfigAssumption DEF VisitInv, ReservationInv
  <1> HIDE DEF from, to, n, c, r, B
  <1>6. n = 0 <=> v.slices = << >>
    BY <1>1 DEF n
  <1>7. v.next < v.end
    <2>1. CASE v.slices = << >>
      BY <2>1, <1>1, <1>5
    <2>2. CASE v.slices # << >>
      <3>1. v.next <= first
        BY <2>2, <1>1, <1>5
      <3>2. from < v.end
        BY <1>1, <1>2, <1>3 DEF from, to
      <3> QED
        BY <3>1, <3>2, <1>1, <1>3, <1>5
    <2> QED
      BY <2>1, <2>2
  <1>8. first <= v.next
    BY <1>1, <1>7
  <1>9. from = v.next
    <2>1. CASE v.slices = << >>
      BY <2>1, <1>1, <1>3, <1>5, <1>8
    <2>2. CASE v.slices # << >>
      <3>1. v.next <= first
        BY <2>2, <1>1, <1>5
      <3>2. first = v.next
        BY <3>1, <1>1, <1>8
      <3> QED
        BY <3>2, <1>1, <1>3, <1>5
    <2> QED
      BY <2>1, <2>2
  <1>10. from < to /\ to <= v.end /\ to <= first + B
    BY <1>1, <1>2, <1>3 DEF from, to
  <1>11. r >= 1 /\ n < MaxBlocks
    <2>1. CASE v.slices = << >>
      BY <2>1, <1>1, <1>4, <1>5, <1>6 DEF MaxBlocks
    <2>2. CASE v.slices # << >>
      <3>1. v.end - v.next <= r * B /\ v.end - v.next >= 1
        BY <2>2, <1>1, <1>5, <1>7
      <3>2. r # 0
        BY <3>1, <1>1, <1>2
      <3> QED
        BY <3>2, <1>1, <1>4, <1>5 DEF MaxBlocks
    <2> QED
      BY <2>1, <2>2
  <1>12. /\ w \in Visit /\ sl \in Slice
         /\ w.slices = Append(v.slices, sl) /\ w.next = to
         /\ w.remaining_blocks = IF to = v.end THEN 0 ELSE r - 1
         /\ w.result = IF to = v.end /\ v.closed THEN "COMPLETE" ELSE v.result
         /\ w.id = v.id /\ w.samples = v.samples /\ w.bound = v.bound /\ w.bytes = v.bytes
         /\ w.start = v.start /\ w.end = v.end /\ w.closed = v.closed
         /\ w.sending = v.sending /\ w.reserved_at = v.reserved_at
    BY <1>11, AddedVisit DEF from, to, r
  <1>13. sl.from = from /\ sl.to = to
    OBVIOUS
  <1> HIDE DEF w, sl
  <1>14. Spent(v, first) \in 1 .. r /\ w.remaining_blocks = r - Spent(v, first)
    <2>1. Spent(v, first) = IF to = v.end THEN r ELSE 1
      BY DEF Spent, to, r
    <2> QED
      BY <2>1, <1>1, <1>11, <1>12
  <1>15. ~v.sending /\ v.bound
    BY DEF VisitInv
  <1>16. Tiles(w.slices, w.start, w.next)
    BY <1>1, <1>5, <1>9, <1>10, <1>12, <1>13, TilesAppend
  <1>17. VisitInv(w)
    <2>1. v.samples \in 1 .. MaximumSamples
      BY DEF VisitInv
    <2>2. w.start <= w.next
      BY <1>1, <1>3, <1>5, <1>9, <1>10, <1>12
    <2> QED
      BY <2>1, <2>2, <1>1, <1>5, <1>12, <1>15, <1>16 DEF VisitInv
  <1>18. ReservationInv(w, first + B)
    <2> SUFFICES ASSUME w.result = "ADMITTED" PROVE ReservationInv(w, first + B)
      BY DEF ReservationInv
    <2>1. Len(w.slices) = n + 1 /\ w.slices # << >>
      BY <1>1, <1>12 DEF n
    <2>2. w.remaining_blocks + Len(w.slices) <= BlocksFor(w.samples)
      BY <2>1, <1>1, <1>4, <1>5, <1>11, <1>12 DEF c
    <2>3. w.next <= first + B /\ w.next <= w.end
      BY <1>10, <1>12
    <2>4. w.end - w.next <= w.remaining_blocks * B
      <3>1. CASE to = v.end
        <4>1. w.end - w.next = 0 /\ w.remaining_blocks = 0
          BY <3>1, <1>1, <1>12
        <4> QED
          BY <4>1, <1>2
      <3>2. CASE to # v.end
        <4>1. to = first + B /\ w.remaining_blocks = r - 1
          BY <3>2, <1>1, <1>2, <1>3, <1>12
        <4>2. (r - 1) * B = r * B - B /\ r * B \in Nat
          BY <1>1, <1>2
        <4>3. CASE v.slices = << >>
          <5>1. r = c /\ v.next = v.start
            BY <4>3, <1>5
          <5>2. from < first + B
            BY <1>3, <1>2, <1>10, <4>1
          <5>3. w.end - w.next <= v.samples
            BY <5>1, <5>2, <4>1, <1>1, <1>2, <1>5, <1>9, <1>12
          <5>4. v.samples <= w.remaining_blocks * B
            BY <5>1, <4>1, <1>4
          <5>5. w.remaining_blocks * B \in Int /\ w.end - w.next \in Int
            BY <4>1, <4>2, <1>1, <1>2, <1>3, <1>12
          <5> QED
            BY <5>3, <5>4, <5>5, <1>1
        <4>4. CASE v.slices # << >>
          <5>1. v.next = first /\ v.end - v.next <= r * B
            BY <4>4, <1>1, <1>5, <1>8
          <5>2. w.end - w.next = v.end - v.next - B
            BY <5>1, <4>1, <1>1, <1>2, <1>12
          <5> QED
            BY <5>1, <5>2, <4>1, <4>2, <1>1, <1>2
        <4> QED
          BY <4>3, <4>4
      <3> QED
        BY <3>1, <3>2
    <2>5. BlocksFor(w.samples) < MaxBlocks
      BY <1>5, <1>12 DEF c
    <2>6. w.next = w.end => w.remaining_blocks = 0
      BY <1>12
    <2> QED
      BY <2>1, <2>2, <2>3, <2>4, <2>5, <2>6 DEF ReservationInv, B
  <1> QED
    BY <1>7, <1>9, <1>11, <1>14, <1>17, <1>18 DEF from, n, r, w, B

\* A sum with an addend is positive.
LEMMA CountPositive ==
    ASSUME NEW I, IsFiniteSet(I), NEW of, \A i \in I : IsFiniteSet(of[i]),
           NEW i \in I, of[i] # {}
    PROVE  Count(I, of) \in Nat /\ Count(I, of) >= 1
  <1>1. IsFiniteSet(Pairs(I, of)) /\ Count(I, of) \in Nat /\ Count(I, of) = Cardinality(Pairs(I, of))
    BY CountType
  <1>2. PICK k : k \in of[i]
    OBVIOUS
  <1>3. <<i, k>> \in Pairs(I, of)
    BY <1>2 DEF Pairs
  <1>4. Cardinality(Pairs(I, of)) # 0
    BY <1>1, <1>3, FS_EmptySet
  <1> QED
    BY <1>1, <1>4

\* A block some visit has a slice of is referred to, and therefore leased.
LEMMA SliceCounted ==
    ASSUME NEW s \in Queue, SumsInv(s), NEW i \in DOMAIN s.visits,
           NEW n \in DOMAIN s.visits[i].slices
    PROVE  /\ s.visits[i].slices[n].token \in Token
           /\ s.refs[s.visits[i].slices[n].token] >= 1
           /\ s.visits[i].slices[n].token \in s.owned
  <1> DEFINE D == DOMAIN s.visits
             t == s.visits[i].slices[n].token
             of == [j \in D |-> SlicesOf(s.visits[j], t)]
  <1>1. IsFiniteSet(D) /\ \A j \in D : s.visits[j] \in Visit
    BY VisitsOf
  <1>2. s.visits[i].slices \in Seq(Slice)
    BY <1>1, VisitFields
  <1>3. s.visits[i].slices[n] \in Slice
    BY <1>2
  <1>4. t \in Token
    BY <1>3 DEF Slice
  <1>5. n \in SlicesOf(s.visits[i], t)
    BY DEF SlicesOf
  <1> HIDE DEF D, t
  <1>6. \A j \in D : IsFiniteSet(of[j])
    BY <1>1, SlicesOfFinite
  <1>7. i \in D /\ of[i] # {}
    BY <1>5 DEF D
  <1>8. Slices(s, D, t) = Count(D, of)
    BY DEF Slices
  <1> HIDE DEF of
  <1>9. Slices(s, D, t) \in Nat /\ Slices(s, D, t) >= 1
    BY <1>1, <1>6, <1>7, <1>8, CountPositive
  <1>10. s.refs[t] = Slices(s, D, t) /\ (t \notin s.owned => s.refs[t] = 0)
    BY <1>4 DEF SumsInv, D
  <1> QED
    BY <1>4, <1>9, <1>10 DEF t

\* The queue after a block was fed to the visits hit, before those it came too
\* late for are terminated.
Fed(s, token, first, hit) ==
    [s EXCEPT
        !.owned = @ \cup {token},
        !.refs[token] = Cardinality(hit),
        !.leased_blocks = @ + 1,
        !.last_source_end = first + BlockSamples,
        !.reserved_blocks = @ - Count(hit, [i \in hit |-> 1 .. Spent(s.visits[i], first)]),
        !.visits = [i \in DOMAIN @ |->
            IF i \in hit THEN AddSlice(@[i], token, first) ELSE @[i]]]

\* Every visit a block reaches can take it.
LEMMA HitsFit ==
    ASSUME NEW s, QueueInv(s), ~LastUnbound(s), NEW first \in Nat, s.last_source_end <= first,
           NEW token \in Token
    PROVE  /\ CorruptVisits(s, first) = {}
           /\ HitVisits(s, first) \in SUBSET DOMAIN s.visits
           /\ \A i \in HitVisits(s, first) :
                LET v == s.visits[i]
                    w == AddSlice(v, token, first)
                IN  /\ v \in Visit /\ v.result = "ADMITTED"
                    /\ v.remaining_blocks \in Nat /\ v.remaining_blocks >= 1
                    /\ Spent(v, first) \in 1 .. v.remaining_blocks
                    /\ VisitInv(w) /\ ReservationInv(w, first + BlockSamples)
                    /\ w.remaining_blocks = v.remaining_blocks - Spent(v, first)
  <1>1. s \in Queue /\ VisitsInv(s) /\ \A i \in DOMAIN s.visits : s.visits[i] \in Visit
    BY VisitsOf DEF QueueInv
  <1>2. DOMAIN s.visits = 1 .. Len(s.visits) /\ Len(s.visits) \in Nat
    BY <1>1, VisitsOf
  <1>3. s.last_source_end \in Nat
    BY <1>1, QueueFields
  <1>4. \A i \in DOMAIN s.visits : s.visits[i].bound
    <2> TAKE i \in DOMAIN s.visits
    <2>1. CASE i < Len(s.visits)
      BY <1>1, <2>1 DEF VisitsInv
    <2>2. CASE i = Len(s.visits)
      <3>1. s.visits # << >>
        BY <1>2, <2>2
      <3> QED
        BY <3>1, <2>2 DEF LastUnbound, Last
    <2> QED
      BY <1>2, <2>1, <2>2
  <1>5. ASSUME NEW i \in HitVisits(s, first)
        PROVE  /\ i \in DOMAIN s.visits
               /\ s.visits[i].result = "ADMITTED"
               /\ ~(first > s.visits[i].next /\ s.visits[i].next < s.visits[i].end)
               /\ SliceFrom(s.visits[i], first) < SliceTo(s.visits[i], first)
               /\ VisitInv(s.visits[i]) /\ ReservationInv(s.visits[i], s.last_source_end)
    BY <1>1 DEF HitVisits, GapVisits, Admitted, VisitsInv
  <1>6. HitVisits(s, first) \in SUBSET DOMAIN s.visits
    BY <1>5
  <1>7. ASSUME NEW i \in HitVisits(s, first)
        PROVE  LET v == s.visits[i]
                   w == AddSlice(v, token, first)
               IN  /\ SliceFrom(v, first) = v.next /\ v.remaining_blocks >= 1
                   /\ Len(v.slices) < MaxBlocks
                   /\ Spent(v, first) \in 1 .. v.remaining_blocks
                   /\ VisitInv(w) /\ ReservationInv(w, first + BlockSamples)
                   /\ w.remaining_blocks = v.remaining_blocks - Spent(v, first)
    <2>1. s.visits[i] \in Visit /\ s.visits[i].bound
      BY <1>1, <1>4, <1>5
    <2> QED
      BY <2>1, <1>3, <1>5, HitVisit
  <1>8. CorruptVisits(s, first) = {}
    <2> SUFFICES ASSUME NEW i \in CorruptVisits(s, first) PROVE FALSE
      OBVIOUS
    <2>1. i \in HitVisits(s, first) /\ s.visits[i] \in Visit
      BY <1>1, <1>5 DEF CorruptVisits
    <2>2. s.visits[i].slices \in Seq(Slice) /\ s.visits[i].remaining_blocks \in Nat
      BY <2>1, VisitFields
    <2>3. Len(s.visits[i].slices) \in Nat
      BY <2>2
    <2> QED
      BY <2>1, <2>2, <2>3, <1>7 DEF CorruptVisits, MaxBlocks
  <1>9. ASSUME NEW i \in HitVisits(s, first)
        PROVE  s.visits[i] \in Visit /\ s.visits[i].remaining_blocks \in Nat
    BY <1>1, <1>5, VisitFields
  <1> QED
    BY <1>5, <1>6, <1>7, <1>8, <1>9

\* What feeding does to the queue before anything is terminated.
LEMMA FedInv ==
    ASSUME NEW s, QueueInv(s), ~LastUnbound(s), NEW first \in Nat, s.last_source_end <= first,
           NEW token \in Token, token \notin s.owned
    PROVE  LET hit == HitVisits(s, first)
               r == Fed(s, token, first, hit)
           IN  /\ QueueInv(r)
               /\ DOMAIN r.visits = DOMAIN s.visits
               /\ \A i \in DOMAIN s.visits :
                    r.visits[i] = IF i \in hit THEN AddSlice(s.visits[i], token, first)
                                  ELSE s.visits[i]
  <1> DEFINE hit == HitVisits(s, first)
             r == Fed(s, token, first, hit)
             D == DOMAIN s.visits
             add(i) == AddSlice(s.visits[i], token, first)
             fed == [i \in D |-> IF i \in hit THEN add(i) ELSE s.visits[i]]
             spent == [i \in hit |-> Spent(s.visits[i], first)]
             left == [i \in hit |-> s.visits[i].remaining_blocks - Spent(s.visits[i], first)]
  <1>1. s \in Queue /\ VisitsInv(s) /\ SumsInv(s) /\ HeadroomInv(s)
    BY DEF QueueInv
  <1>2. /\ s.refs \in [Token -> Nat] /\ s.owned \in SUBSET Token /\ s.leased_blocks \in Nat
        /\ s.last_source_end \in Nat /\ s.reserved_blocks \in Nat
    BY <1>1, QueueFields
  <1>3. /\ r.owned = s.owned \cup {token}
        /\ r.refs = [s.refs EXCEPT ![token] = Cardinality(hit)]
        /\ r.leased_blocks = s.leased_blocks + 1
        /\ r.last_source_end = first + BlockSamples
        /\ r.reserved_blocks =
              s.reserved_blocks - Count(hit, [i \in hit |-> 1 .. Spent(s.visits[i], first)])
        /\ r.visits = fed
        /\ r.reserved_bytes = s.reserved_bytes /\ r.last_reserved_id = s.last_reserved_id
    BY <1>1 DEF Fed, Queue
  <1>4. r \in Queue <=>
           /\ r.owned \in SUBSET Token /\ r.refs \in [Token -> Nat] /\ r.leased_blocks \in Nat
           /\ r.last_source_end \in Nat /\ r.reserved_blocks \in Nat /\ r.visits \in Seq(Visit)
    BY <1>1 DEF Fed, Queue
  <1>5. /\ CorruptVisits(s, first) = {} /\ hit \in SUBSET D
        /\ \A i \in hit :
             LET v == s.visits[i]
                 w == AddSlice(v, token, first)
             IN  /\ v \in Visit /\ v.result = "ADMITTED"
                 /\ v.remaining_blocks \in Nat /\ v.remaining_blocks >= 1
                 /\ Spent(v, first) \in 1 .. v.remaining_blocks
                 /\ VisitInv(w) /\ ReservationInv(w, first + BlockSamples)
                 /\ w.remaining_blocks = v.remaining_blocks - Spent(v, first)
    BY HitsFit
  <1>6. IsFiniteSet(D) /\ IsFiniteSet(hit) /\ \A i \in D : s.visits[i] \in Visit
    <2>1. IsFiniteSet(D) /\ \A i \in D : s.visits[i] \in Visit
      BY <1>1, VisitsOf
    <2> QED
      BY <1>5, <2>1, FS_Subset
  <1>7. D = 1 .. Len(s.visits) /\ Len(s.visits) \in Nat
    BY <1>1, VisitsOf
  <1>8. fed = [i \in D |-> fed[i]] /\ \A i \in D : fed[i] = IF i \in hit THEN add(i) ELSE s.visits[i]
    OBVIOUS
  <1> HIDE DEF r, hit, fed
  <1>9. ASSUME NEW i \in hit
        PROVE  LET v == s.visits[i]
                   w == add(i)
                   sl == [token |-> token, from |-> SliceFrom(v, first), to |-> SliceTo(v, first)]
               IN  /\ w \in Visit /\ sl \in Slice
                   /\ w.slices = Append(v.slices, sl)
                   /\ w.id = v.id /\ w.bound = v.bound /\ w.bytes = v.bytes
    <2>1. s.visits[i] \in Visit /\ s.visits[i].remaining_blocks >= 1
      BY <1>5
    <2> QED
      BY <2>1, AddedVisit
  <1>10. fed \in Seq(Visit) /\ Len(fed) = Len(s.visits) /\ DOMAIN fed = D
    <2> HIDE DEF add
    <2>1. \A i \in D : fed[i] \in Visit
      BY <1>6, <1>8, <1>9
    <2> HIDE DEF D
    <2> QED
      BY <1>7, <1>8, <2>1, MapIsSeq
  <1>11. \A i \in D : r.visits[i] = IF i \in hit THEN add(i) ELSE s.visits[i]
    BY <1>3, <1>8
  \* The reserved blocks.
  <1>12. spent \in [hit -> Nat] /\ left \in [hit -> Nat]
         /\ \A i \in hit : /\ spent[i] \in Nat /\ spent[i] >= 1 /\ left[i] \in Nat
                           /\ s.visits[i].remaining_blocks = left[i] + spent[i]
                           /\ add(i).remaining_blocks = left[i]
    <2>1. ASSUME NEW i \in hit
          PROVE  /\ Spent(s.visits[i], first) \in Nat /\ Spent(s.visits[i], first) >= 1
                 /\ s.visits[i].remaining_blocks - Spent(s.visits[i], first) \in Nat
                 /\ s.visits[i].remaining_blocks = s.visits[i].remaining_blocks
                      - Spent(s.visits[i], first) + Spent(s.visits[i], first)
      BY <1>5
    <2> QED
      BY <2>1, <1>5
  <1>13. Count(hit, [i \in hit |-> 1 .. Spent(s.visits[i], first)])
           = Count(hit, [i \in hit |-> 1 .. spent[i]])
    BY CountEqual
  <1> HIDE DEF spent, left
  <1>14. Blocks(s, hit) = Blocks(r, hit) + Count(hit, [i \in hit |-> 1 .. spent[i]])
    <2>1. Blocks(s, hit) = Count(hit, [i \in hit |-> 1 .. left[i] + spent[i]])
      BY <1>12, CountEqual DEF Blocks
    <2>2. \A i \in hit : r.visits[i].remaining_blocks = left[i]
      BY <1>5, <1>11, <1>12
    <2>3. Blocks(r, hit) = Count(hit, [i \in hit |-> 1 .. left[i]])
      BY <2>2, CountEqual DEF Blocks
    <2>4. left \in [hit -> Nat] /\ spent \in [hit -> Nat]
      BY <1>12
    <2>5. Count(hit, [i \in hit |-> 1 .. left[i] + spent[i]])
            = Count(hit, [i \in hit |-> 1 .. left[i]]) + Count(hit, [i \in hit |-> 1 .. spent[i]])
      BY <2>4, <1>6, CountAdd
    <2> QED
      BY <2>1, <2>3, <2>5
  <1>15. \A i \in D \ hit : r.visits[i] = s.visits[i]
    BY <1>11
  <1>16. Blocks(r, D \ hit) = Blocks(s, D \ hit)
    BY <1>15, SumsEqual
  <1>17. /\ Count(hit, [i \in hit |-> 1 .. spent[i]]) \in Nat
         /\ hit # {} => Count(hit, [i \in hit |-> 1 .. spent[i]]) >= 1
         /\ Blocks(r, hit) \in Nat
    <2> DEFINE of == [i \in hit |-> 1 .. spent[i]]
               rest == [i \in hit |-> 1 .. left[i]]
    <2>1. \A i \in hit : IsFiniteSet(of[i]) /\ IsFiniteSet(rest[i]) /\ of[i] # {}
      <3> TAKE i \in hit
      <3>1. spent[i] \in Nat /\ spent[i] >= 1 /\ left[i] \in Nat
        BY <1>12
      <3>2. IsFiniteSet(1 .. spent[i]) /\ IsFiniteSet(1 .. left[i])
        <4>1. \A n \in Nat : IsFiniteSet(1 .. n)
          BY FS_Interval
        <4> QED
          BY <3>1, <4>1
      <3>3. 1 \in 1 .. spent[i]
        BY <3>1
      <3> QED
        BY <3>2, <3>3
    <2>2. Blocks(r, hit) = Count(hit, rest)
      <3>1. \A i \in hit : r.visits[i].remaining_blocks = left[i]
        BY <1>5, <1>11, <1>12
      <3> QED
        BY <3>1, CountEqual DEF Blocks
    <2> HIDE DEF of, rest
    <2>3. Count(hit, of) \in Nat /\ Count(hit, rest) \in Nat
      BY <1>6, <2>1, CountType
    <2>4. hit # {} => Count(hit, of) >= 1
      BY <1>6, <2>1, CountPositive
    <2> QED
      BY <2>2, <2>3, <2>4 DEF of
  <1>18. /\ Blocks(s, hit) \in Nat /\ Blocks(s, D \ hit) \in Nat
         /\ Blocks(s, D) = Blocks(s, hit) + Blocks(s, D \ hit)
    BY <1>1, <1>5, QueueSplit
  <1>19. s.reserved_blocks = Blocks(s, D) /\ s.leased_blocks = Cardinality(s.owned)
         /\ s.reserved_bytes = Bytes(s, D)
    BY <1>1 DEF SumsInv
  <1>20. /\ r.reserved_blocks = Blocks(r, hit) + Blocks(s, D \ hit) /\ r.reserved_blocks \in Nat
         /\ r.reserved_blocks <= s.reserved_blocks
         /\ hit # {} => r.reserved_blocks + 1 <= s.reserved_blocks
    BY <1>3, <1>13, <1>14, <1>17, <1>18, <1>19
  <1>21. r \in Queue /\ DOMAIN r.visits = D /\ Len(r.visits) = Len(s.visits)
    <2>1. Cardinality(hit) \in Nat
      BY <1>6, FS_CardinalityType
    <2>2. r.refs \in [Token -> Nat]
      BY <2>1, <1>2, <1>3
    <2>3. r.last_source_end \in Nat
      BY <1>3, ConfigAssumption
    <2>4. r.owned \in SUBSET Token /\ r.leased_blocks \in Nat
      BY <1>2, <1>3
    <2> QED
      BY <2>2, <2>3, <2>4, <1>3, <1>4, <1>10, <1>20
  <1>22. /\ Blocks(r, D) = Blocks(r, hit) + Blocks(r, D \ hit)
         /\ \A t \in Token :
              /\ Slices(r, D, t) = Slices(r, hit, t) + Slices(r, D \ hit, t)
              /\ Slices(r, hit, t) \in Nat /\ Slices(r, D \ hit, t) \in Nat
    <2>1. hit \in SUBSET DOMAIN r.visits
      BY <1>5, <1>21
    <2> HIDE DEF D
    <2> QED
      BY <1>21, <2>1, QueueSplit
  <1>23. r.reserved_blocks = Blocks(r, D)
    BY <1>16, <1>20, <1>22
  <1>24. r.reserved_bytes = Bytes(r, D)
    <2>1. \A i \in D : r.visits[i].bytes = s.visits[i].bytes
      BY <1>9, <1>11
    <2>2. Bytes(r, D) = Bytes(s, D)
      BY <2>1, CountEqual DEF Bytes
    <2> QED
      BY <2>2, <1>3, <1>19
  \* The references.
  <1>25. ASSUME NEW i \in hit, NEW t \in Token
         PROVE  SlicesOf(r.visits[i], t) =
                  SlicesOf(s.visits[i], t) \cup (IF t = token THEN {Len(s.visits[i].slices) + 1} ELSE {})
    <2> DEFINE v == s.visits[i]
               sl == [token |-> token, from |-> SliceFrom(v, first), to |-> SliceTo(v, first)]
               n == Len(v.slices)
               more == Append(v.slices, sl)
    <2>1. v.slices \in Seq(Slice) /\ sl \in Slice /\ r.visits[i].slices = more
      BY <1>5, <1>9, <1>11, VisitFields
    <2>2. sl.token = token
      OBVIOUS
    <2> HIDE DEF sl, v
    <2>3. n \in Nat /\ DOMAIN v.slices = 1 .. n
      BY <2>1
    <2>4. DOMAIN more = 1 .. n + 1 /\ more[n + 1] = sl /\ \A k \in 1 .. n : more[k] = v.slices[k]
      BY <2>1, <2>3
    <2> HIDE DEF more, n
    <2>5. SlicesOf(r.visits[i], t) = {k \in 1 .. n + 1 : more[k].token = t}
      BY <2>1, <2>4 DEF SlicesOf
    <2>6. SlicesOf(v, t) = {k \in 1 .. n : v.slices[k].token = t}
      BY <2>3 DEF SlicesOf
    <2>7. SlicesOf(r.visits[i], t) = SlicesOf(v, t) \cup (IF t = token THEN {n + 1} ELSE {})
      BY <2>2, <2>3, <2>4, <2>5, <2>6
    <2> QED
      BY <2>7 DEF v, n
  <1>26. ASSUME NEW t \in Token, t # token PROVE r.refs[t] = Slices(r, D, t)
    <2>1. \A i \in D : SlicesOf(r.visits[i], t) = SlicesOf(s.visits[i], t)
      <3> TAKE i \in D
      <3>1. CASE i \in hit
        <4>1. SlicesOf(s.visits[i], t) \cup {} = SlicesOf(s.visits[i], t)
          OBVIOUS
        <4> QED
          BY <3>1, <4>1, <1>25, <1>26
      <3>2. CASE i \notin hit
        BY <3>2, <1>15
      <3> QED
        BY <3>1, <3>2
    <2>2. Slices(r, D, t) = Slices(s, D, t)
      BY <2>1, CountEqual DEF Slices
    <2> QED
      BY <2>2, <1>1, <1>2, <1>3, <1>26 DEF SumsInv
  <1>27. r.refs[token] = Slices(r, D, token)
    <2>1. \A i \in D : SlicesOf(s.visits[i], token) = {}
      BY <1>1, SliceCounted DEF SlicesOf
    <2>2. Slices(r, D \ hit, token) = 0
      <3>1. \A i \in D \ hit : SlicesOf(r.visits[i], token) = {}
        BY <1>15, <2>1
      <3> QED
        BY <3>1, CountNothing DEF Slices
    <2>3. Slices(r, hit, token) = Cardinality(hit)
      <3> DEFINE of == [i \in hit |-> SlicesOf(r.visits[i], token)]
      <3>1. \A i \in hit : of[i] = {Len(s.visits[i].slices) + 1}
        BY <1>5, <1>25, <2>1
      <3>2. \A i \in hit : IsFiniteSet(of[i]) /\ Cardinality(of[i]) = 1
        <4>1. \A x : IsFiniteSet({x}) /\ Cardinality({x}) = 1
          BY FS_Singleton
        <4> HIDE DEF of
        <4>2. ASSUME NEW i \in hit PROVE IsFiniteSet(of[i]) /\ Cardinality(of[i]) = 1
          <5>1. PICK x : of[i] = {x}
            BY <3>1
          <5> QED
            BY <4>1, <5>1
        <4> QED
          BY <4>2
      <3>3. Slices(r, hit, token) = Count(hit, of)
        BY DEF Slices
      <3> HIDE DEF of
      <3> QED
        BY <1>6, <3>2, <3>3, CountEach
    <2>4. Cardinality(hit) \in Nat
      BY <1>6, FS_CardinalityType
    <2>5. r.refs[token] = Cardinality(hit)
      BY <1>2, <1>3
    <2>6. Slices(r, D, token) = Slices(r, hit, token) + Slices(r, D \ hit, token)
      BY <1>22
    <2> QED
      BY <2>2, <2>3, <2>4, <2>5, <2>6
  <1>28. SumsInv(r)
    <2>1. r.leased_blocks = Cardinality(r.owned)
      <3>1. IsFiniteSet(s.owned)
        BY <1>2, ConfigAssumption, FS_Subset
      <3> QED
        BY <3>1, <1>3, <1>19, FS_AddElement
    <2>2. \A t \in Token : r.refs[t] = Slices(r, D, t)
      BY <1>26, <1>27
    <2>3. \A t \in Token : t \notin r.owned => r.refs[t] = 0
      BY <1>1, <1>2, <1>3 DEF SumsInv
    <2> QED
      BY <2>1, <2>2, <2>3, <1>21, <1>23, <1>24 DEF SumsInv
  \* The headroom: a block that is referred to was promised.
  <1>29. HeadroomInv(r)
    <2>1. /\ BlockCount \in Nat /\ HeadroomBlocks \in Nat
          /\ IsFiniteSet(Referenced(s)) /\ IsFiniteSet(Referenced(r))
      BY <1>2, <1>3, ConfigAssumption, FS_Subset DEF Referenced
    <2>2. Cardinality(Referenced(s)) \in Nat /\ Cardinality(Referenced(r)) \in Nat
      BY <2>1, FS_CardinalityType
    <2>3. Cardinality(Referenced(s)) + s.reserved_blocks <= BlockCount - HeadroomBlocks
      BY <1>1 DEF HeadroomInv
    <2>4. \A t \in Token : t # token => (t \in Referenced(r) <=> t \in Referenced(s))
      BY <1>2, <1>3 DEF Referenced, Unreferenced
    <2>5. CASE hit = {}
      <3>1. r.refs[token] = 0
        BY <2>5, <1>2, <1>3, FS_EmptySet
      <3>2. Referenced(r) \subseteq Referenced(s)
        BY <2>4, <3>1, <1>2, <1>3 DEF Referenced, Unreferenced
      <3>3. Cardinality(Referenced(r)) <= Cardinality(Referenced(s))
        BY <3>2, <2>1, FS_Subset
      <3> QED
        BY <3>3, <2>1, <2>2, <2>3, <1>2, <1>20 DEF HeadroomInv
    <2>6. CASE hit # {}
      <3>1. Referenced(r) \subseteq Referenced(s) \cup {token}
        BY <2>4, <1>2, <1>3 DEF Referenced
      <3>2. /\ IsFiniteSet(Referenced(s) \cup {token})
            /\ Cardinality(Referenced(s) \cup {token}) <= Cardinality(Referenced(s)) + 1
            /\ Cardinality(Referenced(s) \cup {token}) \in Nat
        <4>1. /\ IsFiniteSet(Referenced(s) \cup {token})
              /\ Cardinality(Referenced(s) \cup {token}) =
                   IF token \in Referenced(s) THEN Cardinality(Referenced(s))
                   ELSE Cardinality(Referenced(s)) + 1
          BY <2>1, FS_AddElement
        <4> QED
          BY <4>1, <2>2
      <3>3. Cardinality(Referenced(r)) <= Cardinality(Referenced(s) \cup {token})
        BY <3>1, <3>2, FS_Subset
      <3> QED
        BY <3>2, <3>3, <2>1, <2>2, <2>3, <2>6, <1>2, <1>20 DEF HeadroomInv
    <2> QED
      BY <2>5, <2>6
  \* The visits.
  <1>30. VisitsInv(r)
    <2>1. ASSUME NEW i \in D
          PROVE  /\ VisitInv(r.visits[i]) /\ ReservationInv(r.visits[i], r.last_source_end)
                 /\ r.visits[i].id = s.visits[i].id /\ r.visits[i].bound = s.visits[i].bound
      <3>1. CASE i \in hit
        BY <3>1, <1>3, <1>5, <1>9, <1>11
      <3>2. CASE i \notin hit
        <4>1. r.visits[i] = s.visits[i] /\ s.visits[i] \in Visit
          BY <3>2, <1>6, <1>11
        <4>2. VisitInv(s.visits[i]) /\ ReservationInv(s.visits[i], s.last_source_end)
          BY <1>1 DEF VisitsInv
        <4>3. s.last_source_end <= first + BlockSamples /\ s.visits[i].next \in Nat
          BY <1>2, <4>1, VisitFields, ConfigAssumption
        <4>4. ReservationInv(s.visits[i], first + BlockSamples)
          BY <1>2, <4>2, <4>3, ConfigAssumption DEF ReservationInv
        <4> QED
          BY <4>1, <4>2, <4>4, <1>3
      <3> QED
        BY <3>1, <3>2
    <2>2. \A i \in D : (i < Len(s.visits) => s.visits[i].bound)
                       /\ s.visits[i].id <= s.last_reserved_id
      BY <1>1 DEF VisitsInv
    <2>3. \A i, j \in D : i < j => s.visits[i].id < s.visits[j].id
      BY <1>1 DEF VisitsInv
    <2> HIDE DEF D
    <2> QED
      BY <2>1, <2>2, <2>3, <1>3, <1>21 DEF VisitsInv
  <1> QED
    BY <1>11, <1>21, <1>28, <1>29, <1>30 DEF QueueInv, r, hit

\* A visit that is being sent is untouched until complete_send removes it.
SentKept(s, r) ==
    s.visits # << >> /\ s.visits[1].sending =>
        \/ r.visits = Tail(s.visits)
        \/ r.visits # << >> /\ r.visits[1] = s.visits[1]

\* Visits that stay where they are, but for those at the indices I.
LEMMA KeptButSome ==
    ASSUME NEW s \in Queue, NEW r \in Queue, NEW I,
           Len(r.visits) >= Len(s.visits),
           \A i \in DOMAIN s.visits : i \notin I => r.visits[i] = s.visits[i],
           \A i \in I : i \in DOMAIN s.visits => ~s.visits[i].sending
    PROVE  SentKept(s, r)
  <1> SUFFICES ASSUME s.visits # << >>, s.visits[1].sending
               PROVE  r.visits # << >> /\ r.visits[1] = s.visits[1]
    BY DEF SentKept
  <1>1. s.visits \in Seq(Visit) /\ r.visits \in Seq(Visit)
    BY QueueFields
  <1>2. 1 \in DOMAIN s.visits /\ Len(r.visits) >= 1
    BY <1>1
  <1>3. r.visits # << >>
    BY <1>1, <1>2
  <1> QED
    BY <1>2, <1>3

\* spf_visit_queue_feed
LEMMA FeedInv ==
    ASSUME NEW s, QueueInv(s), NEW att, AttestedInv(s, att), NEW first \in Nat,
           NEW token \in Token, FeedRet(s, token, first) = "OK"
    PROVE  LET r == Feed(s, token, first)
           IN  QueueInv(r) /\ AttestedInv(r, att) /\ SentKept(s, r)
  <1> DEFINE gap == GapVisits(s, first)
             hit == HitVisits(s, first)
             f == Fed(s, token, first, hit)
             r == Feed(s, token, first)
             D == DOMAIN s.visits
  <1>1. s \in Queue /\ VisitsInv(s) /\ \A i \in D : s.visits[i] \in Visit
    BY VisitsOf DEF QueueInv
  <1>2. ~LastUnbound(s) /\ s.last_source_end <= first /\ token \notin s.owned
    <2>1. ~(first < s.last_source_end) /\ ~LastUnbound(s) /\ token \notin s.owned
      BY DEF FeedRet
    <2> QED
      BY <2>1, <1>1, QueueFields
  <1>3. CorruptVisits(s, first) = {} /\ hit \in SUBSET D
    BY <1>2, HitsFit
  <1>4. gap \in SUBSET D /\ \A i \in gap \cup hit : s.visits[i].result = "ADMITTED"
    BY DEF GapVisits, HitVisits, Admitted
  <1>5. hit \cap gap = {}
    BY DEF HitVisits
  <1>6. r = Terminate(f, gap, "INVALID_GAP")
    <2>1. gap \cup CorruptVisits(s, first) = gap /\ hit \ gap = hit
      BY <1>3, <1>5
    <2> QED
      BY <2>1 DEF Feed, Fed
  <1>7. /\ QueueInv(f) /\ DOMAIN f.visits = D
        /\ \A i \in D : f.visits[i] = IF i \in hit THEN AddSlice(s.visits[i], token, first)
                                      ELSE s.visits[i]
    BY <1>2, FedInv
  <1>8. "INVALID_GAP" \in Ended
    BY DEF Ended, Result
  <1> HIDE DEF gap, hit, f, r
  <1>9. /\ QueueInv(r) /\ DOMAIN r.visits = D
        /\ \A i \in D : /\ i \notin gap => r.visits[i] = f.visits[i]
                        /\ i \in gap => r.visits[i].result = "INVALID_GAP"
    <2>1. gap \in SUBSET DOMAIN f.visits
      BY <1>4, <1>7
    <2> HIDE DEF D
    <2> QED
      BY <1>6, <1>7, <1>8, <2>1, TerminateInv
  <1>10. ASSUME NEW i \in D
         PROVE  LET v == r.visits[i]
                IN  v.result = "COMPLETE" \/ (v.result = "ADMITTED" /\ v.closed) => v.id \in att
    <2>1. CASE i \in gap
      BY <2>1, <1>9
    <2>2. CASE i \in hit
      <3>1. r.visits[i] = AddSlice(s.visits[i], token, first) /\ s.visits[i].result = "ADMITTED"
        BY <2>2, <1>3, <1>4, <1>5, <1>7, <1>9
      <3>2. s.visits[i].remaining_blocks >= 1 /\ s.visits[i] \in Visit
        BY <2>2, <1>2, HitsFit DEF hit
      <3>3. LET w == AddSlice(s.visits[i], token, first)
            IN  /\ w.id = s.visits[i].id /\ w.closed = s.visits[i].closed
                /\ w.result = "COMPLETE" => s.visits[i].closed
        <4>1. LET w == AddSlice(s.visits[i], token, first)
                  whole == SliceTo(s.visits[i], first) = s.visits[i].end
              IN  /\ w.id = s.visits[i].id /\ w.closed = s.visits[i].closed
                  /\ w.result = IF whole /\ s.visits[i].closed THEN "COMPLETE"
                                ELSE s.visits[i].result
          BY <3>2, AddedVisit
        <4> QED
          BY <4>1, <3>1
      <3>4. s.visits[i].closed => s.visits[i].id \in att
        BY <3>1 DEF AttestedInv
      <3> QED
        BY <3>1, <3>3, <3>4
    <2>3. CASE i \notin gap /\ i \notin hit
      <3>1. r.visits[i] = s.visits[i]
        BY <2>3, <1>7, <1>9
      <3> QED
        BY <3>1 DEF AttestedInv
    <2> QED
      BY <2>1, <2>2, <2>3
  <1>11. AttestedInv(r, att)
    BY <1>9, <1>10 DEF AttestedInv
  <1>12. r \in Queue /\ Len(r.visits) = Len(s.visits)
    <2>1. r \in Queue
      BY <1>9 DEF QueueInv
    <2>2. Len(r.visits) \in Nat /\ DOMAIN r.visits = 1 .. Len(r.visits)
          /\ Len(s.visits) \in Nat /\ DOMAIN s.visits = 1 .. Len(s.visits)
      BY <2>1, <1>1, VisitsOf
    <2> QED
      BY <2>1, <2>2, <1>9
  <1>13. SentKept(s, r)
    <2>1. \A i \in D : i \notin gap \cup hit => r.visits[i] = s.visits[i]
      BY <1>7, <1>9
    <2>2. \A i \in gap \cup hit : i \in D => ~s.visits[i].sending
      BY <1>1, <1>4 DEF VisitsInv, VisitInv
    <2>3. Len(r.visits) >= Len(s.visits)
      BY <1>12, <1>1, VisitsOf
    <2> QED
      BY <1>1, <1>12, <2>1, <2>2, <2>3, KeptButSome
  <1> QED
    BY <1>9, <1>11, <1>13 DEF r

-----------------------------------------------------------------------------
(* Admission.                                                              *)

LEMMA NewVisitInv ==
    ASSUME NEW id \in Nat, NEW samples \in 1 .. MaximumSamples, NEW now \in Nat,
           NEW end \in Nat, BlocksFor(samples) < MaxBlocks, NEW v, v = NewVisit(id, samples, now)
    PROVE  /\ v \in Visit /\ VisitInv(v) /\ ReservationInv(v, end)
           /\ v.id = id /\ v.bytes = samples /\ v.remaining_blocks = BlocksFor(samples)
           /\ v.slices = << >> /\ v.result = "ADMITTED" /\ ~v.closed
  <1>1. samples \in Nat /\ BlocksFor(samples) \in Nat
    BY BlocksForBounds, ConfigAssumption
  <1>2. /\ v.id = id /\ v.bytes = samples /\ v.remaining_blocks = BlocksFor(samples)
        /\ v.slices = << >> /\ v.result = "ADMITTED" /\ ~v.closed
        /\ v.samples = samples /\ v.start = 0 /\ v.next = 0 /\ v.end = 0
        /\ ~v.bound /\ ~v.sending
    BY DEF NewVisit
  <1>3. << >> \in Seq(Slice)
    OBVIOUS
  <1>4. v \in Visit
    BY <1>1, <1>3 DEF NewVisit, Visit, Result
  <1>5. Tiles(v.slices, v.start, v.next)
    BY <1>2 DEF Tiles
  <1>6. VisitInv(v)
    BY <1>2, <1>5 DEF VisitInv
  <1>7. Len(v.slices) = 0
    BY <1>2
  <1>8. ReservationInv(v, end)
    BY <1>1, <1>2, <1>7 DEF ReservationInv
  <1> QED
    BY <1>2, <1>4, <1>6, <1>8

\* spf_visit_queue_reserve
LEMMA ReserveInv ==
    ASSUME NEW s, QueueInv(s), NEW att, AttestedInv(s, att),
           NEW samples \in 1 .. MaximumSamples, NEW now \in Nat,
           ReserveRet(s, s.last_reserved_id + 1, samples, now) = "OK"
    PROVE  LET r == Reserve(s, s.last_reserved_id + 1, samples, now)
           IN  QueueInv(r) /\ AttestedInv(r, att) /\ SentKept(s, r)
  <1> DEFINE id == s.last_reserved_id + 1
             c == BlocksFor(samples)
             v == NewVisit(id, samples, now)
             r == [s EXCEPT !.visits = Append(@, v), !.reserved_blocks = @ + c,
                            !.reserved_bytes = @ + samples, !.last_reserved_id = id]
             D == DOMAIN s.visits
             n == Len(s.visits)
  <1>1. s \in Queue /\ VisitsInv(s) /\ SumsInv(s) /\ HeadroomInv(s)
    BY DEF QueueInv
  <1>2. CASE ReserveResult(s, samples, now) # "ADMITTED"
    <2>1. Reserve(s, id, samples, now) = s
      BY <1>2 DEF Reserve
    <2> QED
      BY <2>1 DEF SentKept
  <1>3. CASE ReserveResult(s, samples, now) = "ADMITTED"
    <2>1. Reserve(s, id, samples, now) = r
      BY <1>3 DEF Reserve
    <2>2. /\ s.visits \in Seq(Visit) /\ s.reserved_blocks \in Nat /\ s.reserved_bytes \in Nat
          /\ s.leased_blocks \in Nat /\ s.last_reserved_id \in Nat /\ s.last_source_end \in Nat
          /\ s.owned \in SUBSET Token /\ s.refs \in [Token -> Nat]
      BY <1>1, QueueFields
    <2>3. D = 1 .. n /\ n \in Nat /\ IsFiniteSet(D) /\ \A i \in D : s.visits[i] \in Visit
      BY <1>1, VisitsOf
    <2>4. ~(c + s.leased_blocks + s.reserved_blocks > BlockCount - HeadroomBlocks)
      BY <1>3 DEF ReserveResult
    <2>5. c \in Nat /\ samples \in Nat
      BY BlocksForBounds, ConfigAssumption
    <2>6. BlockCount \in 4 .. 64 /\ HeadroomBlocks \in 1 .. BlockCount - 1
      BY ConfigAssumption
    <2>7. c < MaxBlocks /\ c + s.leased_blocks + s.reserved_blocks <= BlockCount - HeadroomBlocks
      BY <2>2, <2>4, <2>5, <2>6 DEF MaxBlocks
    <2>8. ~LastUnbound(s)
      BY DEF ReserveRet
    <2>9. /\ v \in Visit /\ VisitInv(v) /\ ReservationInv(v, s.last_source_end)
          /\ v.id = id /\ v.bytes = samples /\ v.remaining_blocks = c
          /\ v.slices = << >> /\ v.result = "ADMITTED" /\ ~v.closed
      <3>1. id \in Nat
        BY <2>2
      <3>2. BlocksFor(samples) < MaxBlocks /\ s.last_source_end \in Nat
        BY <2>2, <2>7
      <3> HIDE DEF id
      <3>3. v = NewVisit(id, samples, now)
        OBVIOUS
      <3> HIDE DEF v
      <3> QED
        BY <3>1, <3>2, <3>3, NewVisitInv
    <2> HIDE DEF v, c
    <2>10. Append(s.visits, v) \in Seq(Visit)
      BY <2>2, <2>9
    <2>11. /\ r \in Queue /\ r.visits = Append(s.visits, v)
           /\ r.reserved_blocks = s.reserved_blocks + c
           /\ r.reserved_bytes = s.reserved_bytes + samples
           /\ r.last_reserved_id = id /\ r.owned = s.owned /\ r.refs = s.refs
           /\ r.leased_blocks = s.leased_blocks /\ r.last_source_end = s.last_source_end
      <3>1. id \in Nat /\ s.reserved_blocks + c \in Nat /\ s.reserved_bytes + samples \in Nat
        BY <2>2, <2>5
      <3> HIDE DEF id
      <3> QED
        BY <1>1, <2>10, <3>1 DEF Queue
    <2> HIDE DEF r
    <2>12. /\ DOMAIN r.visits = 1 .. n + 1 /\ Len(r.visits) = n + 1
           /\ r.visits[n + 1] = v /\ \A i \in D : r.visits[i] = s.visits[i]
      BY <2>2, <2>3, <2>9, <2>11
    <2>13. (DOMAIN r.visits) \ {n + 1} = D /\ {n + 1} \in SUBSET DOMAIN r.visits
           /\ n + 1 \in DOMAIN r.visits
      BY <2>3, <2>12
    <2> DEFINE E == DOMAIN r.visits
    <2>14. /\ Blocks(r, E) = Blocks(r, {n + 1}) + Blocks(r, E \ {n + 1})
           /\ Bytes(r, E) = Bytes(r, {n + 1}) + Bytes(r, E \ {n + 1})
           /\ \A t \in Token : /\ Slices(r, E, t) = Slices(r, {n + 1}, t) + Slices(r, E \ {n + 1}, t)
                               /\ Slices(r, E \ {n + 1}, t) \in Nat
      BY <2>11, <2>13, QueueSplit
    <2> HIDE DEF E
    <2>15. Blocks(r, {n + 1}) = c /\ Bytes(r, {n + 1}) = samples
           /\ \A t \in Token : Slices(r, {n + 1}, t) = 0
      <3>1. \A k \in Nat : IsFiniteSet(1 .. k) /\ Cardinality(1 .. k) = k
        BY FS_Interval
      <3>2. Count({n + 1}, [i \in {n + 1} |-> 1 .. r.visits[i].remaining_blocks]) = c
        <4> DEFINE of == [i \in {n + 1} |-> 1 .. r.visits[i].remaining_blocks]
        <4>1. of[n + 1] = 1 .. c
          BY <2>9, <2>12
        <4> HIDE DEF of
        <4>2. Count({n + 1}, of) = c
          BY <3>1, <4>1, <2>5, CountOne
        <4> QED
          BY <4>2 DEF of
      <3>3. Count({n + 1}, [i \in {n + 1} |-> 1 .. r.visits[i].bytes]) = samples
        <4> DEFINE of == [i \in {n + 1} |-> 1 .. r.visits[i].bytes]
        <4>1. of[n + 1] = 1 .. samples
          BY <2>9, <2>12
        <4> HIDE DEF of
        <4>2. Count({n + 1}, of) = samples
          BY <3>1, <4>1, <2>5, CountOne
        <4> QED
          BY <4>2 DEF of
      <3>4. \A i \in {n + 1} : r.visits[i].slices = << >>
        BY <2>9, <2>12
      <3> QED
        BY <3>2, <3>3, <3>4, SumsNothing DEF Blocks, Bytes
    <2>16. /\ Blocks(r, D) = Blocks(s, D) /\ Bytes(r, D) = Bytes(s, D)
           /\ \A t \in Token : Slices(r, D, t) = Slices(s, D, t)
      BY <2>12, SumsEqual
    <2>17. /\ s.reserved_blocks = Blocks(s, D) /\ s.reserved_bytes = Bytes(s, D)
           /\ s.leased_blocks = Cardinality(s.owned)
           /\ \A t \in Token : s.refs[t] = Slices(s, D, t) /\ (t \notin s.owned => s.refs[t] = 0)
      BY <1>1 DEF SumsInv
    <2>18. E \ {n + 1} = D
      BY <2>13 DEF E
    <2>19. r.reserved_blocks = Blocks(r, E) /\ r.reserved_bytes = Bytes(r, E)
      <3>1. Blocks(r, E) = c + s.reserved_blocks
        BY <2>14, <2>15, <2>16, <2>17, <2>18
      <3>2. Bytes(r, E) = samples + s.reserved_bytes
        BY <2>14, <2>15, <2>16, <2>17, <2>18
      <3> QED
        BY <3>1, <3>2, <2>2, <2>5, <2>11
    <2>20. ASSUME NEW t \in Token PROVE r.refs[t] = Slices(r, E, t) /\ (t \notin r.owned => r.refs[t] = 0)
      <3>1. Slices(r, E, t) = 0 + Slices(s, D, t) /\ Slices(s, D, t) \in Nat
        BY <2>14, <2>15, <2>16, <2>18
      <3> QED
        BY <3>1, <2>11, <2>17
    <2>21. SumsInv(r)
      BY <2>11, <2>17, <2>19, <2>20 DEF SumsInv, E
    <2>22. HeadroomInv(r)
      <3>1. Referenced(r) \subseteq r.owned /\ IsFiniteSet(r.owned)
        BY <2>2, <2>11, ConfigAssumption, FS_Subset DEF Referenced
      <3>2. Cardinality(Referenced(r)) <= Cardinality(r.owned)
            /\ Cardinality(Referenced(r)) \in Nat
        BY <3>1, FS_Subset, FS_CardinalityType
      <3>3. Cardinality(r.owned) = s.leased_blocks
        BY <2>11, <2>17
      <3> QED
        BY <3>2, <3>3, <2>2, <2>5, <2>6, <2>7, <2>11 DEF HeadroomInv
    <2>23. ASSUME NEW i \in D
           PROVE  /\ VisitInv(s.visits[i]) /\ ReservationInv(s.visits[i], s.last_source_end)
                  /\ s.visits[i].bound /\ s.visits[i].id <= s.last_reserved_id /\ s.visits[i].id \in Nat
      <3>1. s.visits[i].bound
        <4>1. CASE i < n
          BY <4>1, <1>1 DEF VisitsInv
        <4>2. CASE i = n
          <5>1. s.visits # << >>
            BY <2>3, <4>2
          <5> QED
            BY <5>1, <4>2, <2>8 DEF LastUnbound, Last
        <4> QED
          BY <2>3, <4>1, <4>2
      <3> QED
        BY <3>1, <1>1, <2>3, VisitFields DEF VisitsInv
    <2>24. VisitsInv(r)
      <3>1. ASSUME NEW i \in 1 .. n + 1
            PROVE  /\ VisitInv(r.visits[i]) /\ ReservationInv(r.visits[i], r.last_source_end)
                   /\ i < n + 1 => r.visits[i].bound
                   /\ r.visits[i].id <= r.last_reserved_id
        <4>1. CASE i \in D
          BY <4>1, <2>2, <2>11, <2>12, <2>23
        <4>2. CASE i = n + 1
          BY <4>2, <2>2, <2>9, <2>11, <2>12
        <4> QED
          BY <2>3, <4>1, <4>2
      <3>2. ASSUME NEW i \in 1 .. n + 1, NEW j \in 1 .. n + 1, i < j
            PROVE  r.visits[i].id < r.visits[j].id
        <4>1. i \in D /\ r.visits[i] = s.visits[i]
          BY <2>3, <2>12, <3>2
        <4>2. CASE j \in D
          BY <4>1, <4>2, <2>12, <3>2, <1>1 DEF VisitsInv
        <4>3. CASE j = n + 1
          BY <4>1, <4>3, <2>2, <2>9, <2>12, <2>23
        <4> QED
          BY <2>3, <4>2, <4>3
      <3> QED
        BY <3>1, <3>2, <2>12 DEF VisitsInv
    <2>25. AttestedInv(r, att)
      <3>1. ASSUME NEW i \in 1 .. n + 1
            PROVE  LET w == r.visits[i]
                   IN  w.result = "COMPLETE" \/ (w.result = "ADMITTED" /\ w.closed) => w.id \in att
        <4>1. CASE i \in D
          BY <4>1, <2>12 DEF AttestedInv
        <4>2. CASE i = n + 1
          BY <4>2, <2>9, <2>12
        <4> QED
          BY <2>3, <4>1, <4>2
      <3> QED
        BY <3>1, <2>12 DEF AttestedInv
    <2>26. SentKept(s, r)
      <3>1. Len(r.visits) >= Len(s.visits) /\ r \in Queue
        BY <2>3, <2>11, <2>12
      <3> DEFINE none == {}
      <3>2. /\ \A i \in DOMAIN s.visits : i \notin none => r.visits[i] = s.visits[i]
            /\ \A i \in none : i \in DOMAIN s.visits => ~s.visits[i].sending
        BY <2>12
      <3> HIDE DEF none
      <3> QED
        BY <1>1, <3>1, <3>2, KeptButSome
    <2> QED
      BY <2>1, <2>11, <2>21, <2>22, <2>24, <2>25, <2>26 DEF QueueInv
  <1> QED
    BY <1>2, <1>3

-----------------------------------------------------------------------------
(* Changes that leave what the visits hold.                                *)

\* One visit changes, but not its name nor what it holds.
LEMMA OneVisitInv ==
    ASSUME NEW s, QueueInv(s), NEW i \in DOMAIN s.visits, NEW w \in Visit,
           w.remaining_blocks = s.visits[i].remaining_blocks, w.bytes = s.visits[i].bytes,
           w.slices = s.visits[i].slices, w.id = s.visits[i].id,
           s.visits[i].bound => w.bound, VisitInv(w), ReservationInv(w, s.last_source_end),
           NEW r \in Queue, r.visits = [s.visits EXCEPT ![i] = w], r.owned = s.owned,
           r.refs = s.refs, r.leased_blocks = s.leased_blocks,
           r.reserved_blocks = s.reserved_blocks, r.reserved_bytes = s.reserved_bytes,
           r.last_source_end = s.last_source_end, r.last_reserved_id = s.last_reserved_id
    PROVE  /\ QueueInv(r)
           /\ DOMAIN r.visits = DOMAIN s.visits /\ Len(r.visits) = Len(s.visits)
           /\ r.visits[i] = w /\ \A j \in DOMAIN s.visits : j # i => r.visits[j] = s.visits[j]
  <1> DEFINE D == DOMAIN s.visits
  <1>1. s \in Queue /\ VisitsInv(s) /\ SumsInv(s) /\ HeadroomInv(s)
    BY DEF QueueInv
  <1>2. s.visits \in Seq(Visit)
    BY <1>1, QueueFields
  <1>3. /\ DOMAIN r.visits = D /\ Len(r.visits) = Len(s.visits)
        /\ r.visits[i] = w /\ \A j \in D : j # i => r.visits[j] = s.visits[j]
    BY <1>2
  <1>4. \A j \in D : /\ r.visits[j].remaining_blocks = s.visits[j].remaining_blocks
                     /\ r.visits[j].bytes = s.visits[j].bytes
                     /\ r.visits[j].slices = s.visits[j].slices
                     /\ r.visits[j].id = s.visits[j].id
                     /\ s.visits[j].bound => r.visits[j].bound
                     /\ VisitInv(r.visits[j]) /\ ReservationInv(r.visits[j], r.last_source_end)
    <2> TAKE j \in D
    <2>1. CASE j = i
      BY <2>1, <1>3
    <2>2. CASE j # i
      BY <2>2, <1>1, <1>3 DEF VisitsInv
    <2> QED
      BY <2>1, <2>2
  <1>5. /\ Blocks(r, D) = Blocks(s, D) /\ Bytes(r, D) = Bytes(s, D)
        /\ \A t \in Token : Slices(r, D, t) = Slices(s, D, t)
    BY <1>4, SumsEqual
  <1>6. SumsInv(r)
    BY <1>1, <1>3, <1>5 DEF SumsInv
  <1>7. HeadroomInv(r)
    BY <1>1 DEF HeadroomInv, Referenced, Unreferenced
  <1>8. VisitsInv(r)
    <2>1. \A j \in D : (j < Len(s.visits) => s.visits[j].bound)
                       /\ s.visits[j].id <= s.last_reserved_id
      BY <1>1 DEF VisitsInv
    <2>2. \A j, k \in D : j < k => s.visits[j].id < s.visits[k].id
      BY <1>1 DEF VisitsInv
    <2> HIDE DEF D
    <2> QED
      BY <2>1, <2>2, <1>3, <1>4 DEF VisitsInv
  <1> QED
    BY <1>3, <1>6, <1>7, <1>8 DEF QueueInv

\* The ids of the visits differ.
LEMMA NamedOnce ==
    ASSUME NEW s, QueueInv(s), NEW id, Named(s, id) # {}
    PROVE  /\ FirstNamed(s, id) \in DOMAIN s.visits
           /\ s.visits[FirstNamed(s, id)].id = id
  <1>1. s \in Queue /\ VisitsInv(s)
    BY DEF QueueInv
  <1>2. DOMAIN s.visits = 1 .. Len(s.visits) /\ Len(s.visits) \in Nat
        /\ \A i \in DOMAIN s.visits : s.visits[i].id \in Nat
    BY <1>1, VisitsOf, VisitFields
  <1>3. PICK i : i \in Named(s, id)
    OBVIOUS
  <1>4. \A j \in Named(s, id) : j = i
    <2> TAKE j \in Named(s, id)
    <2>1. /\ i \in DOMAIN s.visits /\ j \in DOMAIN s.visits
          /\ s.visits[i].id = id /\ s.visits[j].id = id /\ i \in Nat /\ j \in Nat /\ id \in Nat
      BY <1>2, <1>3 DEF Named
    <2>2. ~(i < j) /\ ~(j < i)
      BY <2>1, <1>1 DEF VisitsInv
    <2> QED
      BY <2>1, <2>2
  <1>5. i \in Named(s, id) /\ \A j \in Named(s, id) : i <= j
    BY <1>2, <1>3, <1>4 DEF Named
  <1>6. FirstNamed(s, id) \in Named(s, id)
    BY <1>5 DEF FirstNamed
  <1> QED
    BY <1>6 DEF Named

\* terminate of visits that are not being sent.
LEMMA TerminateStep ==
    ASSUME NEW s, QueueInv(s), NEW I \in SUBSET DOMAIN s.visits, NEW result \in Ended, NEW att,
           \A i \in DOMAIN s.visits : i \notin I =>
               LET v == s.visits[i]
               IN  v.result = "COMPLETE" \/ (v.result = "ADMITTED" /\ v.closed) => v.id \in att,
           \A i \in I : ~s.visits[i].sending
    PROVE  LET r == Terminate(s, I, result)
           IN  QueueInv(r) /\ AttestedInv(r, att) /\ SentKept(s, r)
  <1> DEFINE r == Terminate(s, I, result)
  <1>1. /\ QueueInv(r)
        /\ DOMAIN r.visits = DOMAIN s.visits /\ Len(r.visits) = Len(s.visits)
        /\ \A i \in DOMAIN s.visits :
             /\ i \notin I => r.visits[i] = s.visits[i]
             /\ i \in I => r.visits[i].result = result
    BY TerminateInv
  <1> HIDE DEF r
  <1>2. s \in Queue /\ r \in Queue /\ Len(s.visits) \in Nat
    BY <1>1, VisitsOf DEF QueueInv
  <1>3. SentKept(s, r)
    <2>1. Len(r.visits) >= Len(s.visits)
      BY <1>1, <1>2
    <2>2. /\ \A i \in DOMAIN s.visits : i \notin I => r.visits[i] = s.visits[i]
          /\ \A i \in I : i \in DOMAIN s.visits => ~s.visits[i].sending
      BY <1>1
    <2> QED
      BY <1>2, <2>1, <2>2, KeptButSome
  <1>4. AttestedInv(r, att)
    BY <1>1 DEF AttestedInv, Ended
  <1> QED
    BY <1>1, <1>3, <1>4 DEF r

\* spf_visit_queue_bind
LEMMA BindInv ==
    ASSUME NEW s, QueueInv(s), NEW att, AttestedInv(s, att), NEW start \in Nat,
           BindRet(s, s.last_reserved_id, start) = "OK"
    PROVE  LET r == Bind(s, s.last_reserved_id, start)
           IN  QueueInv(r) /\ AttestedInv(r, att) /\ SentKept(s, r)
  <1> DEFINE n == Len(s.visits)
             v == s.visits[n]
             w == [v EXCEPT !.start = start, !.next = start, !.end = start + v.samples, !.bound = TRUE]
             r == [s EXCEPT !.visits = [s.visits EXCEPT ![n] = w],
                            !.last_valid_end = start + v.samples]
  <1>1. s \in Queue /\ VisitsInv(s)
    BY DEF QueueInv
  <1>2. DOMAIN s.visits = 1 .. n /\ n \in Nat /\ s.visits \in Seq(Visit)
    BY <1>1, VisitsOf, QueueFields
  <1>3. s.visits # << >> /\ ~v.bound /\ v.result = "ADMITTED"
    BY DEF BindRet, Last
  <1>4. n \in DOMAIN s.visits /\ v \in Visit
    BY <1>1, <1>2, <1>3, VisitsOf
  <1>5. VisitInv(v) /\ ReservationInv(v, s.last_source_end)
    BY <1>1, <1>4 DEF VisitsInv
  <1>6. Bind(s, s.last_reserved_id, start) = r
    BY <1>1, <1>2, <1>4 DEF Bind, Last, Queue
  <1>7. v.samples \in Nat /\ v.samples >= 1 /\ start + v.samples \in Nat
    BY <1>4, <1>5, VisitFields, ConfigAssumption DEF VisitInv
  <1>8. /\ w \in Visit
        /\ w.start = start /\ w.next = start /\ w.end = start + v.samples /\ w.bound
        /\ w.id = v.id /\ w.bytes = v.bytes /\ w.samples = v.samples /\ w.slices = v.slices
        /\ w.remaining_blocks = v.remaining_blocks /\ w.result = v.result
        /\ w.closed = v.closed /\ w.sending = v.sending
    BY <1>4, <1>7 DEF Visit
  <1> HIDE DEF w
  <1>9. v.slices = << >> /\ Tiles(w.slices, w.start, w.next)
    BY <1>3, <1>5, <1>8 DEF VisitInv, Tiles
  <1>10. VisitInv(w)
    BY <1>3, <1>5, <1>7, <1>8, <1>9 DEF VisitInv
  <1>11. ReservationInv(w, s.last_source_end)
    BY <1>3, <1>5, <1>7, <1>8, <1>9 DEF ReservationInv
  <1>12. [s.visits EXCEPT ![n] = w] \in Seq(Visit)
    BY <1>2, <1>4, <1>8
  <1>13. /\ r \in Queue /\ r.visits = [s.visits EXCEPT ![n] = w] /\ r.owned = s.owned
         /\ r.refs = s.refs /\ r.leased_blocks = s.leased_blocks
         /\ r.reserved_blocks = s.reserved_blocks /\ r.reserved_bytes = s.reserved_bytes
         /\ r.last_source_end = s.last_source_end /\ r.last_reserved_id = s.last_reserved_id
    BY <1>1, <1>7, <1>12 DEF Queue
  <1> HIDE DEF r
  <1>14. /\ QueueInv(r)
         /\ DOMAIN r.visits = DOMAIN s.visits /\ Len(r.visits) = Len(s.visits)
         /\ r.visits[n] = w /\ \A j \in DOMAIN s.visits : j # n => r.visits[j] = s.visits[j]
    <2> HIDE DEF n
    <2> QED
      BY <1>3, <1>4, <1>8, <1>10, <1>11, <1>13, OneVisitInv
  <1>15. AttestedInv(r, att)
    BY <1>8, <1>14 DEF AttestedInv
  <1>16. SentKept(s, r)
    <2>1. ~v.sending
      BY <1>3, <1>5 DEF VisitInv
    <2>2. Len(r.visits) >= Len(s.visits)
      BY <1>2, <1>14
    <2> DEFINE I == {n}
    <2>3. /\ \A i \in DOMAIN s.visits : i \notin I => r.visits[i] = s.visits[i]
          /\ \A i \in I : i \in DOMAIN s.visits => ~s.visits[i].sending
      BY <1>14, <2>1
    <2> HIDE DEF I, n
    <2> QED
      BY <1>1, <1>13, <2>2, <2>3, KeptButSome
  <1> QED
    BY <1>6, <1>14, <1>15, <1>16

\* spf_visit_queue_take
LEMMA TakeInv ==
    ASSUME NEW s, QueueInv(s), NEW att, AttestedInv(s, att), TakeRet(s) = "OK"
    PROVE  QueueInv(Take(s)) /\ AttestedInv(Take(s), att) /\ SentKept(s, Take(s))
  <1> DEFINE v == s.visits[1]
             w == [v EXCEPT !.sending = TRUE]
             r == [s EXCEPT !.visits = [s.visits EXCEPT ![1] = w]]
  <1>1. s \in Queue /\ VisitsInv(s)
    BY DEF QueueInv
  <1>2. DOMAIN s.visits = 1 .. Len(s.visits) /\ Len(s.visits) \in Nat /\ s.visits \in Seq(Visit)
    BY <1>1, VisitsOf, QueueFields
  <1>3. s.visits # << >> /\ ~v.sending /\ v.result # "ADMITTED"
    BY DEF TakeRet
  <1>4. 1 \in DOMAIN s.visits /\ v \in Visit
    BY <1>1, <1>2, <1>3, VisitsOf
  <1>5. VisitInv(v) /\ ReservationInv(v, s.last_source_end)
    BY <1>1, <1>4 DEF VisitsInv
  <1>6. Take(s) = r
    BY <1>1, <1>4 DEF Take, Queue
  <1>7. /\ w \in Visit
        /\ w.start = v.start /\ w.next = v.next /\ w.end = v.end /\ w.bound = v.bound
        /\ w.id = v.id /\ w.bytes = v.bytes /\ w.samples = v.samples /\ w.slices = v.slices
        /\ w.remaining_blocks = v.remaining_blocks /\ w.result = v.result
        /\ w.closed = v.closed
    BY <1>4 DEF Visit
  <1> HIDE DEF w
  <1>8. VisitInv(w) /\ ReservationInv(w, s.last_source_end)
    BY <1>3, <1>5, <1>7 DEF VisitInv, ReservationInv
  <1>9. [s.visits EXCEPT ![1] = w] \in Seq(Visit)
    BY <1>2, <1>4, <1>7
  <1>10. /\ r \in Queue /\ r.visits = [s.visits EXCEPT ![1] = w] /\ r.owned = s.owned
         /\ r.refs = s.refs /\ r.leased_blocks = s.leased_blocks
         /\ r.reserved_blocks = s.reserved_blocks /\ r.reserved_bytes = s.reserved_bytes
         /\ r.last_source_end = s.last_source_end /\ r.last_reserved_id = s.last_reserved_id
    BY <1>1, <1>9 DEF Queue
  <1> HIDE DEF r
  <1>11. /\ QueueInv(r)
         /\ DOMAIN r.visits = DOMAIN s.visits /\ Len(r.visits) = Len(s.visits)
         /\ r.visits[1] = w /\ \A j \in DOMAIN s.visits : j # 1 => r.visits[j] = s.visits[j]
    BY <1>4, <1>7, <1>8, <1>10, OneVisitInv
  <1>12. AttestedInv(r, att)
    BY <1>7, <1>11 DEF AttestedInv
  <1>13. SentKept(s, r)
    BY <1>3 DEF SentKept
  <1> QED
    BY <1>6, <1>11, <1>12, <1>13

\* spf_visit_queue_close_window: the window is closed, and then either cut, or
\* complete, or still waiting for its samples.
LEMMA CloseInv ==
    ASSUME NEW s, QueueInv(s), NEW att, AttestedInv(s, att), NEW id, NEW invalid \in Nat,
           CloseWindowRet(s, id) = "OK"
    PROVE  LET r == CloseWindow(s, id, invalid)
               v == s.visits[FirstNamed(s, id)]
               more == IF ~v.closed /\ invalid >= v.end THEN att \cup {id} ELSE att
           IN  QueueInv(r) /\ AttestedInv(r, more) /\ SentKept(s, r)
  <1> DEFINE i == FirstNamed(s, id)
             v == s.visits[i]
             w == [v EXCEPT !.closed = TRUE]
             c == [s EXCEPT !.visits = [s.visits EXCEPT ![i] = w]]
             r == CloseWindow(s, id, invalid)
             more == IF ~v.closed /\ invalid >= v.end THEN att \cup {id} ELSE att
  <1>1. s \in Queue /\ VisitsInv(s)
    BY DEF QueueInv
  <1>2. /\ DOMAIN s.visits = 1 .. Len(s.visits) /\ Len(s.visits) \in Nat /\ s.visits \in Seq(Visit)
    BY <1>1, VisitsOf, QueueFields
  <1>3. i \in DOMAIN s.visits /\ v.id = id /\ v.bound /\ (~v.closed => ~v.sending)
    <2>1. Named(s, id) # {} /\ v.bound /\ ~(~v.closed /\ v.sending)
      BY DEF CloseWindowRet
    <2> QED
      BY <2>1, NamedOnce
  <1>4. v \in Visit /\ VisitInv(v) /\ ReservationInv(v, s.last_source_end)
    BY <1>1, <1>3, VisitsOf DEF VisitsInv
  <1>5. CASE v.closed
    <2>1. r = s /\ more = att
      BY <1>5 DEF CloseWindow
    <2>2. SentKept(s, s)
      BY DEF SentKept
    <2> QED
      BY <2>1, <2>2
  <1>6. CASE ~v.closed
    <2>1. v.result = "ADMITTED" /\ ~v.sending
      BY <1>3, <1>4, <1>6 DEF VisitInv
    <2>2. /\ v.end \in Nat /\ v.next \in Nat /\ v.start \in Nat /\ v.samples \in Nat
          /\ v.remaining_blocks \in Nat
      BY <1>4, VisitFields
    <2>3. /\ w \in Visit
          /\ w.start = v.start /\ w.next = v.next /\ w.end = v.end /\ w.bound = v.bound
          /\ w.id = v.id /\ w.bytes = v.bytes /\ w.samples = v.samples /\ w.slices = v.slices
          /\ w.remaining_blocks = v.remaining_blocks /\ w.result = v.result
          /\ w.sending = v.sending /\ w.closed = TRUE
      BY <1>4 DEF Visit
    <2>4. [s EXCEPT !.visits[i].closed = TRUE] = c
      BY <1>1, <1>3 DEF Queue
    <2>5. c \in Queue /\ c.visits = [s.visits EXCEPT ![i] = w] /\ c.owned = s.owned
          /\ c.refs = s.refs /\ c.leased_blocks = s.leased_blocks
          /\ c.reserved_blocks = s.reserved_blocks /\ c.reserved_bytes = s.reserved_bytes
          /\ c.last_source_end = s.last_source_end /\ c.last_reserved_id = s.last_reserved_id
      <3> HIDE DEF w
      <3>1. [s.visits EXCEPT ![i] = w] \in Seq(Visit)
        BY <1>2, <1>3, <2>3
      <3> HIDE DEF i
      <3> QED
        BY <1>1, <3>1 DEF Queue
    <2> DEFINE z == [w EXCEPT !.result = "COMPLETE"]
               d == [s EXCEPT !.visits = [s.visits EXCEPT ![i] = z]]
    <2>6. [c EXCEPT !.visits[i].result = "COMPLETE"] = d
      <3> HIDE DEF w, i
      <3>1. [[s.visits EXCEPT ![i] = w] EXCEPT ![i] = z] = [s.visits EXCEPT ![i] = z]
        BY <1>2, <1>3
      <3>2. [c EXCEPT !.visits[i].result = "COMPLETE"]
              = [c EXCEPT !.visits = [c.visits EXCEPT ![i] = [c.visits[i] EXCEPT !.result = "COMPLETE"]]]
        BY <1>1 DEF Queue
      <3>3. c.visits = [s.visits EXCEPT ![i] = w] /\ c.visits[i] = w
        BY <1>2, <1>3, <2>5
      <3>4. [c EXCEPT !.visits = [s.visits EXCEPT ![i] = z]] = d
        BY <1>1 DEF Queue
      <3> HIDE DEF z, c, d
      <3> QED
        BY <3>1, <3>2, <3>3, <3>4 DEF z
    <2>7. r = IF invalid < v.end THEN Terminate(c, {i}, "INVALID_GAP")
              ELSE IF v.next = v.end THEN d ELSE c
      <3> HIDE DEF c, d, w
      <3> QED
        BY <1>6, <2>4, <2>6 DEF CloseWindow
    <2>8. VisitInv(w) /\ ReservationInv(w, s.last_source_end)
      <3> HIDE DEF w
      <3> QED
        BY <1>4, <2>1, <2>3 DEF VisitInv, ReservationInv
    <2>9. /\ QueueInv(c)
          /\ DOMAIN c.visits = DOMAIN s.visits /\ Len(c.visits) = Len(s.visits)
          /\ c.visits[i] = w /\ \A j \in DOMAIN s.visits : j # i => c.visits[j] = s.visits[j]
      <3> HIDE DEF c, w, i
      <3> QED
        BY <1>3, <2>3, <2>5, <2>8, OneVisitInv
    <2> DEFINE I == {i}
    <2>10. \A j \in I : j \in DOMAIN s.visits => ~s.visits[j].sending
      BY <2>1
    <2>11. \A j \in DOMAIN s.visits : j # i =>
             LET x == s.visits[j]
             IN  x.result = "COMPLETE" \/ (x.result = "ADMITTED" /\ x.closed) => x.id \in att
      BY DEF AttestedInv
    <2>12. CASE invalid < v.end
      <3>1. r = Terminate(c, I, "INVALID_GAP") /\ more = att
        BY <2>2, <2>7, <2>12
      <3>2. I \in SUBSET DOMAIN c.visits /\ "INVALID_GAP" \in Ended
        BY <1>3, <2>9 DEF Ended, Result
      <3> HIDE DEF c, r, I, w, i
      <3>3. LET x == Terminate(c, I, "INVALID_GAP")
            IN  /\ QueueInv(x)
                /\ DOMAIN x.visits = DOMAIN c.visits /\ Len(x.visits) = Len(c.visits)
                /\ \A j \in DOMAIN c.visits :
                     /\ j \notin I => x.visits[j] = c.visits[j]
                     /\ j \in I => x.visits[j].result = "INVALID_GAP"
        BY <2>9, <3>2, TerminateInv
      <3>4. /\ QueueInv(r) /\ DOMAIN r.visits = DOMAIN s.visits /\ Len(r.visits) = Len(s.visits)
            /\ \A j \in DOMAIN s.visits :
                 /\ j \notin I => r.visits[j] = s.visits[j]
                 /\ j \in I => r.visits[j].result = "INVALID_GAP"
        BY <3>1, <3>3, <2>9 DEF I
      <3>5. AttestedInv(r, att)
        BY <3>4, <2>11 DEF AttestedInv, I
      <3>6. r \in Queue /\ Len(r.visits) >= Len(s.visits)
        BY <1>2, <3>4 DEF QueueInv
      <3>7. SentKept(s, r)
        BY <1>1, <3>4, <3>6, <2>10, KeptButSome
      <3> HIDE DEF more
      <3> QED
        BY <3>1, <3>4, <3>5, <3>7 DEF r, more, i
    <2>13. CASE ~(invalid < v.end) /\ v.next = v.end
      <3>1. r = d /\ more = att \cup {id}
        BY <1>6, <2>2, <2>7, <2>13
      <3>2. /\ z \in Visit
            /\ z.start = v.start /\ z.next = v.next /\ z.end = v.end /\ z.bound = v.bound
            /\ z.id = v.id /\ z.bytes = v.bytes /\ z.samples = v.samples /\ z.slices = v.slices
            /\ z.remaining_blocks = v.remaining_blocks /\ z.result = "COMPLETE"
            /\ z.sending = v.sending /\ z.closed = TRUE
        BY <2>3 DEF Visit, Result
      <3> HIDE DEF z
      <3>3. v.remaining_blocks = 0
        BY <1>3, <1>4, <2>1, <2>13 DEF ReservationInv
      <3>4. VisitInv(z) /\ ReservationInv(z, s.last_source_end)
        BY <1>3, <1>4, <2>1, <2>13, <3>2, <3>3 DEF VisitInv, ReservationInv
      <3>5. d \in Queue /\ d.visits = [s.visits EXCEPT ![i] = z] /\ d.owned = s.owned
            /\ d.refs = s.refs /\ d.leased_blocks = s.leased_blocks
            /\ d.reserved_blocks = s.reserved_blocks /\ d.reserved_bytes = s.reserved_bytes
            /\ d.last_source_end = s.last_source_end /\ d.last_reserved_id = s.last_reserved_id
        <4>1. [s.visits EXCEPT ![i] = z] \in Seq(Visit)
          BY <1>2, <1>3, <3>2
        <4> HIDE DEF i
        <4> QED
          BY <1>1, <4>1 DEF Queue
      <3> HIDE DEF d, i, r, more
      <3>6. /\ QueueInv(d)
            /\ DOMAIN d.visits = DOMAIN s.visits /\ Len(d.visits) = Len(s.visits)
            /\ d.visits[i] = z /\ \A j \in DOMAIN s.visits : j # i => d.visits[j] = s.visits[j]
        BY <1>3, <3>2, <3>4, <3>5, OneVisitInv
      <3>7. AttestedInv(d, att \cup {id})
        BY <1>3, <3>2, <3>6, <2>11 DEF AttestedInv
      <3>8. Len(d.visits) >= Len(s.visits)
        BY <1>2, <3>6
      <3>9. \A j \in DOMAIN s.visits : j \notin I => d.visits[j] = s.visits[j]
        BY <3>6
      <3> HIDE DEF I
      <3>10. SentKept(s, d)
        BY <1>1, <3>5, <3>8, <3>9, <2>10, KeptButSome
      <3> QED
        BY <3>1, <3>6, <3>7, <3>10 DEF r, more, i
    <2>14. CASE ~(invalid < v.end) /\ v.next # v.end
      <3>1. r = c /\ more = att \cup {id}
        BY <1>6, <2>2, <2>7, <2>14
      <3> HIDE DEF c, i, r, more, w
      <3>7. AttestedInv(c, att \cup {id})
        BY <1>3, <2>3, <2>9, <2>11 DEF AttestedInv
      <3>8. Len(c.visits) >= Len(s.visits)
        BY <1>2, <2>9
      <3>9. \A j \in DOMAIN s.visits : j \notin I => c.visits[j] = s.visits[j]
        BY <2>9
      <3> HIDE DEF I
      <3>10. SentKept(s, c)
        BY <1>1, <2>5, <3>8, <3>9, <2>10, KeptButSome
      <3> QED
        BY <3>1, <3>7, <3>10, <2>9 DEF r, more, i
    <2> QED
      BY <2>12, <2>13, <2>14
  <1> QED
    BY <1>5, <1>6

\* spf_visit_queue_complete_send: the oldest visit gives up what it holds and
\* the others move up.
LEMMA SendInv ==
    ASSUME NEW s, QueueInv(s), NEW att, AttestedInv(s, att), NEW id,
           CompleteSendRet(s, id) = "OK"
    PROVE  LET r == CompleteSend(s, id)
           IN  QueueInv(r) /\ AttestedInv(r, att) /\ SentKept(s, r)
  <1> DEFINE result == [i \in {1} |-> s.visits[i].result]
             d == Discard(s, {1}, result)
             r == [d EXCEPT !.visits = Tail(d.visits)]
             D == DOMAIN s.visits
             n == Len(s.visits)
             E == 1 .. n - 1
  <1>1. s \in Queue /\ VisitsInv(s) /\ SumsInv(s) /\ HeadroomInv(s)
    BY DEF QueueInv
  <1>2. D = 1 .. n /\ n \in Nat /\ s.visits \in Seq(Visit) /\ s.visits # << >>
    BY <1>1, VisitsOf, QueueFields DEF CompleteSendRet
  <1>3. n >= 1 /\ {1} \in SUBSET D /\ \A i \in E : i \in D /\ i + 1 \in D
    BY <1>2
  <1>4. result \in [{1} -> Result]
    <2>1. s.visits[1] \in Visit
      BY <1>2, <1>3
    <2> QED
      BY <2>1, VisitFields
  <1> HIDE DEF result
  <1>5. /\ d \in Queue /\ SumsInv(d)
        /\ d.owned = s.owned /\ d.last_source_end = s.last_source_end
        /\ d.last_reserved_id = s.last_reserved_id
        /\ d.reserved_blocks <= s.reserved_blocks
        /\ \A t \in Token : d.refs[t] <= s.refs[t]
        /\ DOMAIN d.visits = D /\ Len(d.visits) = n
        /\ \A i \in D : d.visits[i] = IF i \notin {1} THEN s.visits[i]
                                      ELSE Discarded(s.visits[i], result[i])
    <2> HIDE DEF D, n, d
    <2>1. LET x == Discard(s, {1}, result)
          IN  /\ x \in Queue /\ SumsInv(x)
              /\ x.owned = s.owned /\ x.last_source_end = s.last_source_end
              /\ x.last_reserved_id = s.last_reserved_id
              /\ x.reserved_blocks <= s.reserved_blocks
              /\ \A t \in Token : x.refs[t] <= s.refs[t]
              /\ DOMAIN x.visits = DOMAIN s.visits /\ Len(x.visits) = Len(s.visits)
              /\ \A i \in DOMAIN s.visits :
                    x.visits[i] = IF i \notin {1} THEN s.visits[i]
                                  ELSE Discarded(s.visits[i], result[i])
      BY <1>1, <1>3, <1>4, DiscardSums DEF D
    <2> QED
      BY <2>1 DEF d, D, n
  <1>6. CompleteSend(s, id) = r
    <2> HIDE DEF d
    <2>1. CompleteSend(s, id) = [d EXCEPT !.visits = Tail(@)]
      BY DEF CompleteSend, result, d
    <2> QED
      BY <2>1, <1>5 DEF Queue
  <1> HIDE DEF d
  <1>7. d.visits \in Seq(Visit)
    BY <1>5, QueueFields
  <1>8. Tail(d.visits) \in Seq(Visit)
    BY <1>3, <1>5, <1>7
  <1>9. /\ r \in Queue /\ r.visits = Tail(d.visits)
        /\ r.owned = d.owned /\ r.refs = d.refs /\ r.leased_blocks = d.leased_blocks
        /\ r.reserved_blocks = d.reserved_blocks /\ r.reserved_bytes = d.reserved_bytes
        /\ r.last_source_end = d.last_source_end /\ r.last_reserved_id = d.last_reserved_id
    BY <1>5, <1>8 DEF Queue
  <1> HIDE DEF r
  <1>10. Len(r.visits) = n - 1 /\ DOMAIN r.visits = E
         /\ \A i \in E : r.visits[i] = d.visits[i + 1]
    <2>1. Len(d.visits) = n /\ n \in Nat /\ n >= 1 /\ r.visits = Tail(d.visits)
      BY <1>2, <1>3, <1>5, <1>9
    <2> HIDE DEF n
    <2> QED
      BY <2>1, <1>7
  <1>11. \A i \in E : d.visits[i + 1] = s.visits[i + 1]
    BY <1>2, <1>3, <1>5
  <1>12. r.visits = Tail(s.visits)
    <2>1. Tail(s.visits) \in Seq(Visit) /\ Len(Tail(s.visits)) = n - 1
          /\ \A i \in E : Tail(s.visits)[i] = s.visits[i + 1]
      BY <1>2, <1>3
    <2>2. r.visits \in Seq(Visit)
      BY <1>8, <1>9
    <2>3. \A x \in Seq(Visit) : x = [i \in 1 .. Len(x) |-> x[i]]
      OBVIOUS
    <2>4. r.visits = [i \in E |-> r.visits[i]]
      BY <2>2, <2>3, <1>10
    <2>5. Tail(s.visits) = [i \in E |-> Tail(s.visits)[i]]
      BY <2>1, <2>3
    <2>6. \A i \in E : r.visits[i] = Tail(s.visits)[i]
      BY <2>1, <1>10, <1>11
    <2> HIDE DEF E
    <2> QED
      BY <2>4, <2>5, <2>6
  <1>13. SentKept(s, r)
    BY <1>12 DEF SentKept
  \* The sums: the first visit has nothing left, the others moved.
  <1> DEFINE J == D \ {1}
             m == [i \in E |-> i + 1]
  <1>14. m \in Bijection(E, J)
    <2>1. \A i \in E : m[i] \in J
      BY <1>2
    <2>2. \A i, j \in E : m[i] = m[j] => i = j
      BY <1>2
    <2>3. \A j \in J : j - 1 \in E /\ m[j - 1] = j
      BY <1>2
    <2>4. m \in [E -> J]
      BY <2>1
    <2> HIDE DEF m, E, J
    <2> QED
      BY <2>2, <2>3, <2>4 DEF Bijection, Injection, Surjection, IsInjective
  <1>15. IsFiniteSet(E) /\ \A i \in E : m[i] \in J /\ r.visits[i] = d.visits[m[i]]
         /\ r.visits[i] \in Visit
    <2>1. IsFiniteSet(E)
      BY <1>9, <1>10, VisitsOf
    <2>2. \A i \in E : r.visits[i] \in Visit
      BY <1>9, <1>10, VisitsOf
    <2> QED
      BY <2>1, <2>2, <1>2, <1>10
  <1> HIDE DEF m
  <1>16. \A k \in Nat : IsFiniteSet(1 .. k)
    BY FS_Interval
  <1>17. Blocks(r, E) = Blocks(d, J)
    <2> DEFINE of == [i \in E |-> 1 .. r.visits[i].remaining_blocks]
               to == [j \in J |-> 1 .. d.visits[j].remaining_blocks]
    <2>1. \A i \in E : IsFiniteSet(of[i]) /\ of[i] = to[m[i]]
      BY <1>15, <1>16, VisitFields
    <2>2. Blocks(r, E) = Count(E, of) /\ Blocks(d, J) = Count(J, to)
      BY DEF Blocks
    <2> HIDE DEF of, to, E, J
    <2> QED
      BY <1>14, <1>15, <2>1, <2>2, CountMoved
  <1>18. Bytes(r, E) = Bytes(d, J)
    <2> DEFINE of == [i \in E |-> 1 .. r.visits[i].bytes]
               to == [j \in J |-> 1 .. d.visits[j].bytes]
    <2>1. \A i \in E : IsFiniteSet(of[i]) /\ of[i] = to[m[i]]
      BY <1>15, <1>16, VisitFields
    <2>2. Bytes(r, E) = Count(E, of) /\ Bytes(d, J) = Count(J, to)
      BY DEF Bytes
    <2> HIDE DEF of, to, E, J
    <2> QED
      BY <1>14, <1>15, <2>1, <2>2, CountMoved
  <1>19. ASSUME NEW t \in Token PROVE Slices(r, E, t) = Slices(d, J, t)
    <2> DEFINE of == [i \in E |-> SlicesOf(r.visits[i], t)]
               to == [j \in J |-> SlicesOf(d.visits[j], t)]
    <2>1. \A i \in E : IsFiniteSet(of[i]) /\ of[i] = to[m[i]]
      BY <1>15, SlicesOfFinite
    <2>2. Slices(r, E, t) = Count(E, of) /\ Slices(d, J, t) = Count(J, to)
      BY DEF Slices
    <2> HIDE DEF of, to, E, J
    <2> QED
      BY <1>14, <1>15, <2>1, <2>2, CountMoved
  <1>20. Blocks(d, {1}) = 0 /\ Bytes(d, {1}) = 0 /\ \A t \in Token : Slices(d, {1}, t) = 0
    <2>1. \A i \in {1} : /\ d.visits[i].remaining_blocks = 0 /\ d.visits[i].bytes = 0
                         /\ d.visits[i].slices = << >>
      <3>1. s.visits[1] \in Visit /\ result[1] \in Result
        BY <1>2, <1>3, <1>4
      <3>2. d.visits[1] = Discarded(s.visits[1], result[1])
        BY <1>3, <1>5
      <3>3. LET w == Discarded(s.visits[1], result[1])
            IN  w.slices = << >> /\ w.remaining_blocks = 0 /\ w.bytes = 0
        BY <3>1, DiscardedVisit
      <3> QED
        BY <3>2, <3>3
    <2> QED
      BY <2>1, SumsNothing
  <1>21. /\ Blocks(d, D) = Blocks(d, {1}) + Blocks(d, J) /\ Blocks(d, J) \in Nat
         /\ Bytes(d, D) = Bytes(d, {1}) + Bytes(d, J) /\ Bytes(d, J) \in Nat
         /\ \A t \in Token : /\ Slices(d, D, t) = Slices(d, {1}, t) + Slices(d, J, t)
                             /\ Slices(d, J, t) \in Nat
    <2>1. {1} \in SUBSET DOMAIN d.visits /\ DOMAIN d.visits = D
      BY <1>3, <1>5
    <2> HIDE DEF D
    <2> QED
      BY <2>1, <1>5, QueueSplit
  <1>22. SumsInv(r)
    <2>1. d.reserved_blocks = Blocks(d, D) /\ d.reserved_bytes = Bytes(d, D)
          /\ d.leased_blocks = Cardinality(d.owned)
          /\ \A t \in Token : d.refs[t] = Slices(d, D, t) /\ (t \notin d.owned => d.refs[t] = 0)
      BY <1>5 DEF SumsInv
    <2>2. r.reserved_blocks = Blocks(r, E) /\ r.reserved_bytes = Bytes(r, E)
      BY <2>1, <1>9, <1>17, <1>18, <1>20, <1>21
    <2>3. ASSUME NEW t \in Token PROVE r.refs[t] = Slices(r, E, t)
      <3>1. Slices(d, D, t) = 0 + Slices(d, J, t) /\ Slices(d, J, t) \in Nat
        BY <1>20, <1>21
      <3>2. Slices(r, E, t) = Slices(d, J, t)
        BY <1>19
      <3>3. r.refs[t] = Slices(d, D, t)
        BY <2>1, <1>9
      <3> HIDE DEF D, E, J
      <3> QED
        BY <3>1, <3>2, <3>3
    <2> HIDE DEF E
    <2> QED
      BY <2>1, <2>2, <2>3, <1>9, <1>10 DEF SumsInv
  <1>23. HeadroomInv(r)
    <2>1. r.owned \subseteq s.owned /\ r.reserved_blocks <= s.reserved_blocks
          /\ \A t \in Token : r.refs[t] <= s.refs[t]
      BY <1>5, <1>9
    <2> QED
      BY <2>1, <1>1, <1>9, HeadroomGrows
  \* The visits.
  <1>24. \A i \in E : r.visits[i] = s.visits[i + 1] /\ i + 1 \in D
    BY <1>3, <1>10, <1>11
  <1>25. VisitsInv(r)
    <2>1. ASSUME NEW i \in E
          PROVE  /\ VisitInv(r.visits[i]) /\ ReservationInv(r.visits[i], r.last_source_end)
                 /\ i < Len(r.visits) => r.visits[i].bound
                 /\ r.visits[i].id <= r.last_reserved_id
      <3>1. i < n - 1 => i + 1 < n
        BY <1>2
      <3> QED
        BY <3>1, <1>1, <1>5, <1>9, <1>10, <1>24 DEF VisitsInv
    <2>2. ASSUME NEW i \in E, NEW j \in E, i < j PROVE r.visits[i].id < r.visits[j].id
      <3>1. i + 1 < j + 1
        BY <1>2, <2>2
      <3> QED
        BY <3>1, <1>1, <1>24 DEF VisitsInv
    <2> HIDE DEF E
    <2> QED
      BY <2>1, <2>2, <1>10 DEF VisitsInv
  <1>26. AttestedInv(r, att)
    <2> HIDE DEF E
    <2> QED
      BY <1>10, <1>24 DEF AttestedInv
  <1> QED
    BY <1>6, <1>9, <1>13, <1>22, <1>23, <1>25, <1>26 DEF QueueInv

\* spf_visit_queue_expire
LEMMA ExpireInv ==
    ASSUME NEW s, QueueInv(s), NEW att, AttestedInv(s, att), NEW now
    PROVE  LET r == Expire(s, now)
           IN  QueueInv(r) /\ AttestedInv(r, att) /\ SentKept(s, r)
  <1> DEFINE I == {i \in Aged(s, now) \ Sending(s) : s.visits[i].bytes # 0}
  <1>1. I \in SUBSET DOMAIN s.visits /\ \A i \in I : ~s.visits[i].sending
    BY DEF Aged, Sending
  <1>2. "SKIP_AGE" \in Ended
    BY DEF Ended, Result
  <1>3. Expire(s, now) = Terminate(s, I, "SKIP_AGE")
    BY DEF Expire
  <1>4. \A i \in DOMAIN s.visits : i \notin I =>
            LET v == s.visits[i]
            IN  v.result = "COMPLETE" \/ (v.result = "ADMITTED" /\ v.closed) => v.id \in att
    BY DEF AttestedInv
  <1> HIDE DEF I
  <1> QED
    BY <1>1, <1>2, <1>3, <1>4, TerminateStep

\* spf_visit_queue_cancel
LEMMA CancelInv ==
    ASSUME NEW s, QueueInv(s), NEW att, AttestedInv(s, att)
    PROVE  LET r == Cancel(s)
           IN  QueueInv(r) /\ AttestedInv(r, att) /\ SentKept(s, r)
  <1> DEFINE c == [s EXCEPT !.cancelled = TRUE]
             I == {i \in DOMAIN s.visits \ Sending(s) :
                     ~s.preserve_partial \/ s.visits[i].result = "ADMITTED"}
             r == Terminate(c, I, "CANCELLED")
  <1>1. s \in Queue
    BY DEF QueueInv
  <1>2. /\ c \in Queue /\ c.visits = s.visits /\ c.owned = s.owned /\ c.refs = s.refs
        /\ c.leased_blocks = s.leased_blocks /\ c.reserved_blocks = s.reserved_blocks
        /\ c.reserved_bytes = s.reserved_bytes /\ c.last_source_end = s.last_source_end
        /\ c.last_reserved_id = s.last_reserved_id
    BY <1>1 DEF Queue
  <1>3. Cancel(s) = r
    BY DEF Cancel
  <1>4. I \in SUBSET DOMAIN s.visits /\ \A i \in I : ~s.visits[i].sending
    BY DEF Sending
  <1>5. "CANCELLED" \in Ended
    BY DEF Ended, Result
  <1> HIDE DEF c, I
  <1>6. QueueInv(c)
    BY <1>2 DEF QueueInv, VisitsInv, SumsInv, HeadroomInv, Referenced, Unreferenced,
                Blocks, Bytes, Slices
  <1>7. \A i \in DOMAIN c.visits : i \notin I =>
            LET v == c.visits[i]
            IN  v.result = "COMPLETE" \/ (v.result = "ADMITTED" /\ v.closed) => v.id \in att
    BY <1>2 DEF AttestedInv
  <1>8. I \in SUBSET DOMAIN c.visits /\ \A i \in I : ~c.visits[i].sending
    BY <1>2, <1>4
  <1>9. QueueInv(r) /\ AttestedInv(r, att) /\ SentKept(c, r)
    BY <1>5, <1>6, <1>7, <1>8, TerminateStep
  <1>10. SentKept(s, r)
    BY <1>2, <1>9 DEF SentKept
  <1> QED
    BY <1>3, <1>9, <1>10

\* spf_visit_queue_reap: what goes back is not referred to, so that neither the
\* references nor the headroom change.
LEMMA ReapInv ==
    ASSUME NEW s, QueueInv(s), NEW att, AttestedInv(s, att), NEW failed
    PROVE  LET r == Reap(s, failed)
           IN  QueueInv(r) /\ AttestedInv(r, att) /\ SentKept(s, r)
  <1> DEFINE back == Unreferenced(s) \ failed
             owned == s.owned \ back
             left == s.leased_blocks - Cardinality(back)
             r == [s EXCEPT !.owned = owned, !.leased_blocks = left]
  <1>1. s \in Queue /\ VisitsInv(s) /\ SumsInv(s) /\ HeadroomInv(s)
    BY DEF QueueInv
  <1>2. Reap(s, failed) = r
    BY <1>1 DEF Reap, Queue
  <1>3. back \subseteq s.owned /\ s.owned \in SUBSET Token /\ IsFiniteSet(s.owned)
        /\ \A t \in back : s.refs[t] = 0
    BY <1>1, QueueFields, ConfigAssumption, FS_Subset DEF Unreferenced
  <1>4. left = Cardinality(owned) /\ left \in Nat
    <2> HIDE DEF back
    <2>1. s.leased_blocks = Cardinality(s.owned)
      BY <1>1 DEF SumsInv
    <2>2. IsFiniteSet(back) /\ IsFiniteSet(owned)
      BY <1>3, FS_Subset
    <2>3. Cardinality(back) \in Nat /\ Cardinality(owned) \in Nat /\ Cardinality(s.owned) \in Nat
      BY <1>3, <2>2, FS_CardinalityType
    <2>4. Cardinality(owned) = Cardinality(s.owned) - Cardinality(s.owned \cap back)
      BY <1>3, FS_Difference
    <2>5. s.owned \cap back = back
      BY <1>3
    <2> QED
      BY <2>1, <2>3, <2>4, <2>5
  <1> HIDE DEF back, left
  <1>5. /\ r \in Queue /\ r.visits = s.visits /\ r.owned = owned /\ r.refs = s.refs
        /\ r.leased_blocks = left /\ r.reserved_blocks = s.reserved_blocks
        /\ r.reserved_bytes = s.reserved_bytes /\ r.last_source_end = s.last_source_end
        /\ r.last_reserved_id = s.last_reserved_id
    <2>1. owned \in SUBSET Token
      BY <1>3
    <2> HIDE DEF owned
    <2> QED
      BY <1>1, <1>4, <2>1 DEF Queue
  <1> HIDE DEF r
  <1>6. VisitsInv(r)
    BY <1>1, <1>5 DEF VisitsInv
  <1>7. SumsInv(r)
    <2>1. /\ \A t \in Token : t \notin r.owned => r.refs[t] = 0
      BY <1>1, <1>3, <1>5 DEF SumsInv
    <2>2. \A I : Blocks(r, I) = Blocks(s, I) /\ Bytes(r, I) = Bytes(s, I)
                 /\ \A t : Slices(r, I, t) = Slices(s, I, t)
      BY <1>5 DEF Blocks, Bytes, Slices
    <2> QED
      BY <2>1, <2>2, <1>1, <1>4, <1>5 DEF SumsInv
  <1>8. HeadroomInv(r)
    <2>1. r.owned \subseteq s.owned /\ s.reserved_blocks \in Nat
          /\ \A t \in Token : s.refs[t] \in Nat
      BY <1>1, <1>5, QueueFields
    <2> QED
      BY <2>1, <1>1, <1>5, HeadroomGrows
  <1>9. AttestedInv(r, att) /\ SentKept(s, r)
    BY <1>5 DEF AttestedInv, SentKept
  <1> QED
    BY <1>2, <1>5, <1>6, <1>7, <1>8, <1>9 DEF QueueInv

\* A queue that was just created.
LEMMA InitInv ==
    ASSUME NEW partial \in BOOLEAN
    PROVE  QueueInv(QueueInit(partial)) /\ \A att : AttestedInv(QueueInit(partial), att)
  <1> DEFINE s == QueueInit(partial)
  <1>1. << >> \in Seq(Visit) /\ DOMAIN << >> = {} /\ Len(<< >>) = 0
    OBVIOUS
  <1>2. /\ s.visits = << >> /\ s.owned = {} /\ s.refs = [t \in Token |-> 0]
        /\ s.leased_blocks = 0 /\ s.reserved_blocks = 0 /\ s.reserved_bytes = 0
    BY DEF QueueInit
  <1>3. s \in Queue
    BY <1>1 DEF QueueInit, Queue
  <1> HIDE DEF s
  <1>4. VisitsInv(s) /\ \A att : AttestedInv(s, att)
    BY <1>1, <1>2 DEF VisitsInv, AttestedInv
  <1>5. SumsInv(s)
    <2>1. Blocks(s, {}) = 0 /\ Bytes(s, {}) = 0 /\ \A t : Slices(s, {}, t) = 0
      BY SumsNothing
    <2>2. Cardinality(s.owned) = 0
      BY <1>2, FS_EmptySet
    <2>3. DOMAIN s.visits = {}
      BY <1>1, <1>2
    <2> QED
      BY <1>2, <2>1, <2>2, <2>3 DEF SumsInv
  <1>6. HeadroomInv(s)
    <2>1. Referenced(s) = {}
      BY <1>2 DEF Referenced
    <2> QED
      BY <1>2, <2>1, FS_EmptySet, ConfigAssumption DEF HeadroomInv
  <1> QED
    BY <1>3, <1>4, <1>5, <1>6 DEF QueueInv, s

-----------------------------------------------------------------------------
(* The theorems.                                                           *)

\* Every call keeps the invariant, and what is being sent.
LEMMA CallsKeep ==
    ASSUME IndInv, [Next]_vars
    PROVE  IndInv' /\ (SentKept(q, q') \/ UNCHANGED vars)
  <1>1. /\ QueueInv(q) /\ AttestedInv(q, attested) /\ q \in Queue
        /\ attested \subseteq 1 .. MaxVisits /\ destroyed \in BOOLEAN
    BY DEF IndInv, TypeOK
  <1>2. Counter \subseteq Nat
    BY ConfigAssumption DEF Counter
  <1>3. ASSUME QueueInv(q'), AttestedInv(q', attested'), attested' \subseteq 1 .. MaxVisits,
               destroyed' \in BOOLEAN
        PROVE  IndInv'
    BY <1>3 DEF IndInv, TypeOK, QueueInv, VisitsInv, SumsInv, HeadroomInv, AttestedInv,
                VisitInv, ReservationInv, Referenced, Unreferenced, Blocks, Bytes, Slices,
                SlicesOf, Tiles
  <1>4. ASSUME NEW samples \in 1 .. MaximumSamples, NEW now \in Counter, ReserveVisit(samples, now)
        PROVE  IndInv' /\ SentKept(q, q')
    <2>1. LET r == Reserve(q, q.last_reserved_id + 1, samples, now)
          IN  QueueInv(r) /\ AttestedInv(r, attested) /\ SentKept(q, r)
      BY <1>1, <1>2, <1>4, ReserveInv DEF ReserveVisit
    <2>2. q' = Reserve(q, q.last_reserved_id + 1, samples, now)
          /\ attested' = attested /\ destroyed' = destroyed
      BY <1>4 DEF ReserveVisit, Alive
    <2> QED
      BY <2>1, <2>2, <1>1, <1>3
  <1>5. ASSUME NEW start \in Counter, BindVisit(start)
        PROVE  IndInv' /\ SentKept(q, q')
    <2>1. LET r == Bind(q, q.last_reserved_id, start)
          IN  QueueInv(r) /\ AttestedInv(r, attested) /\ SentKept(q, r)
      BY <1>1, <1>2, <1>5, BindInv DEF BindVisit
    <2>2. q' = Bind(q, q.last_reserved_id, start)
          /\ attested' = attested /\ destroyed' = destroyed
      BY <1>5 DEF BindVisit, Alive
    <2> QED
      BY <2>1, <2>2, <1>1, <1>3
  <1>6. ASSUME NEW token \in Token, NEW first \in Counter, FeedBlock(token, first)
        PROVE  IndInv' /\ SentKept(q, q')
    <2>1. LET r == Feed(q, token, first)
          IN  QueueInv(r) /\ AttestedInv(r, attested) /\ SentKept(q, r)
      BY <1>1, <1>2, <1>6, FeedInv DEF FeedBlock
    <2>2. q' = Feed(q, token, first) /\ attested' = attested /\ destroyed' = destroyed
      BY <1>6 DEF FeedBlock, Alive
    <2> QED
      BY <2>1, <2>2, <1>1, <1>3
  <1>7. ASSUME NEW id \in 1 .. MaxVisits, NEW invalid \in Counter, CloseVisit(id, invalid)
        PROVE  IndInv' /\ SentKept(q, q')
    <2> DEFINE v == q.visits[FirstNamed(q, id)]
               more == IF ~v.closed /\ invalid >= v.end THEN attested \cup {id} ELSE attested
    <2>1. LET r == CloseWindow(q, id, invalid)
          IN  QueueInv(r) /\ AttestedInv(r, more) /\ SentKept(q, r)
      BY <1>1, <1>2, <1>7, CloseInv DEF CloseVisit
    <2>2. q' = CloseWindow(q, id, invalid) /\ attested' = more /\ destroyed' = destroyed
      BY <1>7 DEF CloseVisit, Alive
    <2>3. more \subseteq 1 .. MaxVisits
      BY <1>1
    <2> HIDE DEF more
    <2> QED
      BY <2>1, <2>2, <2>3, <1>1, <1>3
  <1>8. ASSUME TakeVisit PROVE IndInv' /\ SentKept(q, q')
    <2>1. QueueInv(Take(q)) /\ AttestedInv(Take(q), attested) /\ SentKept(q, Take(q))
      BY <1>1, <1>8, TakeInv DEF TakeVisit
    <2>2. q' = Take(q) /\ attested' = attested /\ destroyed' = destroyed
      BY <1>8 DEF TakeVisit, Alive
    <2> QED
      BY <2>1, <2>2, <1>1, <1>3
  <1>9. ASSUME NEW id \in 1 .. MaxVisits, VisitSent(id) PROVE IndInv' /\ SentKept(q, q')
    <2>1. LET r == CompleteSend(q, id)
          IN  QueueInv(r) /\ AttestedInv(r, attested) /\ SentKept(q, r)
      BY <1>1, <1>9, SendInv DEF VisitSent
    <2>2. q' = CompleteSend(q, id) /\ attested' = attested /\ destroyed' = destroyed
      BY <1>9 DEF VisitSent, Alive
    <2> QED
      BY <2>1, <2>2, <1>1, <1>3
  <1>10. ASSUME NEW now \in Counter, ExpireVisits(now) PROVE IndInv' /\ SentKept(q, q')
    <2>1. LET r == Expire(q, now)
          IN  QueueInv(r) /\ AttestedInv(r, attested) /\ SentKept(q, r)
      BY <1>1, ExpireInv
    <2>2. q' = Expire(q, now) /\ attested' = attested /\ destroyed' = destroyed
      BY <1>10 DEF ExpireVisits, Alive
    <2> QED
      BY <2>1, <2>2, <1>1, <1>3
  <1>11. ASSUME CancelVisits PROVE IndInv' /\ SentKept(q, q')
    <2>1. QueueInv(Cancel(q)) /\ AttestedInv(Cancel(q), attested) /\ SentKept(q, Cancel(q))
      BY <1>1, CancelInv
    <2>2. q' = Cancel(q) /\ attested' = attested /\ destroyed' = destroyed
      BY <1>11 DEF CancelVisits, Alive
    <2> QED
      BY <2>1, <2>2, <1>1, <1>3
  <1>12. ASSUME NEW failed \in SUBSET Unreferenced(q), ReapBlocks(failed)
         PROVE  IndInv' /\ SentKept(q, q')
    <2>1. LET r == Reap(q, failed)
          IN  QueueInv(r) /\ AttestedInv(r, attested) /\ SentKept(q, r)
      BY <1>1, ReapInv
    <2>2. q' = Reap(q, failed) /\ attested' = attested /\ destroyed' = destroyed
      BY <1>12 DEF ReapBlocks, Alive
    <2> QED
      BY <2>1, <2>2, <1>1, <1>3
  <1>13. ASSUME Destroy PROVE IndInv' /\ SentKept(q, q')
    <2>1. q' = q /\ attested' = attested /\ destroyed' \in BOOLEAN
      BY <1>13 DEF Destroy
    <2>2. SentKept(q, q')
      BY <2>1 DEF SentKept
    <2> QED
      BY <2>1, <2>2, <1>1, <1>3
  <1>14. CASE UNCHANGED vars
    BY <1>14, <1>1, <1>3 DEF vars
  <1> QED
    BY <1>4, <1>5, <1>6, <1>7, <1>8, <1>9, <1>10, <1>11, <1>12, <1>13, <1>14 DEF Next

LEMMA InitSound ==
    ASSUME Init
    PROVE  IndInv
  <1>1. PICK partial \in BOOLEAN : q = QueueInit(partial)
    BY DEF Init
  <1>2. QueueInv(q) /\ AttestedInv(q, attested)
    BY <1>1, InitInv
  <1> QED
    BY <1>2 DEF Init, IndInv, TypeOK, QueueInv

\* What the calls rely on holds between any two of them, of a queue that is
\* alone behind the session mutex of the acquisition owner.
THEOREM IndInvHolds == Spec => []IndInv
  <1>1. Init => IndInv
    BY InitSound
  <1>2. IndInv /\ [Next]_vars => IndInv'
    BY CallsKeep
  <1> QED
    BY <1>1, <1>2, PTL DEF Spec

\* The counters of the queue are the sums over its visits whichever way visits
\* end, the headroom of the DMA is kept, and a reservation suffices at every
\* phase of the block boundary: the branch of spf_visit_queue_feed for a visit
\* that got more than it reserved is dead code.
THEOREM BlocksAreAccounted == Spec => []BlocksAccounted
  <1>1. ASSUME IndInv PROVE BlocksAccounted
    <2>1. TypeOK /\ QueueInv(q)
      BY <1>1 DEF IndInv
    <2>2. Accounting /\ HeadroomKept
      BY <2>1 DEF QueueInv, SumsInv, HeadroomInv, Accounting, HeadroomKept, Referenced
    <2>3. ASSUME NEW token \in Token, NEW first \in Counter, FeedRet(q, token, first) = "OK"
          PROVE  CorruptVisits(q, first) = {}
      <3>1. ~(first < q.last_source_end) /\ ~LastUnbound(q)
        BY <2>3 DEF FeedRet
      <3>2. first \in Nat /\ q.last_source_end \in Nat
        BY <2>1, QueueFields, ConfigAssumption DEF Counter, QueueInv
      <3>3. q.last_source_end <= first
        BY <3>1, <3>2
      <3> QED
        BY <2>1, <3>1, <3>2, <3>3, HitsFit
    <2> QED
      BY <2>1, <2>2, <2>3 DEF BlocksAccounted, ReservationSuffices
  <1> QED
    BY <1>1, IndInvHolds, PTL

\* A visit that feed, close_window and the calls that cut or drop visits left
\* behind holds exactly the samples of the window it shows, in blocks that are
\* still leased, and is COMPLETE only when the retune is known not to have come
\* before the end of its window.
THEOREM VisitsAreWhole == Spec => []VisitsWhole
  <1>1. ASSUME IndInv PROVE VisitsWhole
    <2>1. q \in Queue /\ VisitsInv(q) /\ SumsInv(q) /\ AttestedInv(q, attested)
      BY <1>1 DEF IndInv, QueueInv
    <2>2. ASSUME NEW i \in DOMAIN q.visits
          PROVE  LET v == q.visits[i]
                     shown == IF v.result = "ADMITTED" THEN v.next ELSE v.end
                 IN  /\ \A s \in DOMAIN v.slices : v.slices[s].token \in q.owned
                     /\ v.bytes # 0 => Tiles(v.slices, v.start, shown)
                     /\ v.result = "COMPLETE" => v.bytes # 0 /\ v.end = v.start + v.samples
      <3> DEFINE v == q.visits[i]
      <3>1. v \in Visit /\ VisitInv(v)
        BY <2>1, VisitsOf DEF VisitsInv
      <3>2. \A s \in DOMAIN v.slices : v.slices[s].token \in q.owned
        BY <2>1, SliceCounted
      <3>3. v.samples # 0
        BY <3>1, ConfigAssumption DEF VisitInv
      <3> QED
        BY <3>1, <3>2, <3>3 DEF VisitInv
    <2>3. WholeCapture
      BY <2>2 DEF WholeCapture
    <2>4. RetuneAttested
      BY <2>1 DEF RetuneAttested, AttestedInv
    <2> QED
      BY <2>3, <2>4 DEF VisitsWhole
  <1> QED
    BY <1>1, IndInvHolds, PTL

\* A view that spf_visit_queue_take handed to the transport stays as it was
\* until spf_visit_queue_complete_send: expire, cancel, feed and close_window
\* pass over a visit that is being sent.
THEOREM SentIsAsTaken == Spec => SentAsTaken
  <1>1. IndInv /\ [Next]_vars => [q.visits # << >> /\ q.visits[1].sending =>
                                    \/ q'.visits = Tail(q.visits)
                                    \/ q'.visits # << >> /\ q'.visits[1] = q.visits[1]]_vars
    BY CallsKeep DEF SentKept
  <1> QED
    BY <1>1, IndInvHolds, PTL DEF Spec, SentAsTaken
=============================================================================
