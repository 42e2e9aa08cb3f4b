------------------------- MODULE ScanPolicy_proofs -------------------------
(***************************************************************************)
(* Proofs about ScanPolicy, for every configuration that the code admits:  *)
(* the lottery never leaves a target out of reach of its deadline, no      *)
(* feedback is accepted twice, and every accepted one has its one receipt, *)
(* for which there is room.                                                *)
(***************************************************************************)
EXTENDS ScanPolicy, FiniteSetTheorems, WellFoundedInduction, TLAPS

Slot == Dwell + Transition

\* The receipts: each one is what the encoder accepts.
Receipt == {a \in [sequence : Sequence, target : Targets,
                   result : {"APPLIED", "EXPIRED", "SUPERSEDED", "CANCELLED"},
                   first_visit : Nat \cup {NoFirstVisit}] : AckValidate(a)}

AcksInv == acks \in Seq(Receipt)

\* A number that is neither remembered nor below the window was never accepted.
WindowInv ==
    \A s \in Sequence :
        /\ accepted[s] <= 1
        /\ s \notin seen /\ highest_sequence - s < Window => accepted[s] = 0

\* The table of visits: no visit ends after the scan, and a finite scan has room
\* for as many of the shortest as have been and for the one selected.
TableInv ==
    /\ \A i \in DOMAIN visits : visits[i].end <= ScanEnd
    /\ mode # "continuous" =>
         /\ visit_count + (IF selected THEN 1 ELSE 0) <= MaxVisits(mode)
         /\ visit_count * MinDwell <= Boundary
         /\ \A v \in 0 .. visit_count - 1 : visits[v].start < visits[v].end

\* What is selected comes after the last visit, fits the scan and, as long as
\* nothing was late, was eligible at the boundary.
SelectionInv ==
    selected =>
        /\ selection.dwell \in MinDwell .. Dwell
        /\ selection.counter >= Boundary
        /\ selection.counter + selection.dwell + Transition <= ScanEnd
        /\ ontime => /\ selection.counter = Boundary
                     /\ selection.target \in Eligible(Boundary)

\* Targets to be visited no later than t, by deadline or by turn.
Before(t) == {o \in Targets : Deadline(o) <= Deadline(t)}
Turns(t) == IF t >= Turn THEN t - Turn ELSE t - Turn + TargetCount

\* If the targets are visited by increasing deadline, or in turn, from now on,
\* with dwell and transition at their longest, each one is visited in time.
DeadlineInv ==
    ontime => \A t \in Targets :
                 Boundary + Transition
                    + (IF mode = "continuous" THEN Turns(t) ELSE Cardinality(Before(t)) - 1) * Slot
                 <= Deadline(t)

IndInv ==
    /\ TypeOK /\ AcksInv /\ WindowInv /\ TableInv /\ SelectionInv /\ DeadlineInv
    /\ OneAckEach

-----------------------------------------------------------------------------
(* Records that are encoded and decoded again *)

\* A sealed record is read as it was before, and its checksum is right.
LEMMA SealedRecord ==
    ASSUME NEW bytes \in Nat, NEW p, p = [o \in DOMAIN p |-> p[o]], bytes - 4 \notin DOMAIN p
    PROVE  /\ Sealed(bytes, p).bytes = bytes
           /\ Get(Sealed(bytes, p).at, bytes - 4) = Crc32(Unsealed(Sealed(bytes, p)))
           /\ \A o \in DOMAIN p : Get(Sealed(bytes, p).at, o) = p[o]
           /\ \A o : o \notin DOMAIN p /\ o # bytes - 4 => Get(Sealed(bytes, p).at, o) = 0
  <1> DEFINE w == Sealed(bytes, p)
             at == [o \in DOMAIN p \cup {bytes - 4} |-> IF o \in {bytes - 4} THEN p ELSE p[o]]
  <1>1. w.bytes = bytes /\ w.at = at
    BY DEF Sealed, Put, Field, Crc32
  <1>2. DOMAIN at = DOMAIN p \cup {bytes - 4} /\ at[bytes - 4] = p
        /\ \A o \in DOMAIN p : at[o] = p[o]
    OBVIOUS
  <1>3. Unsealed(w) = [o \in DOMAIN at \ {bytes - 4} |-> at[o]]
    BY <1>1 DEF Unsealed
  <1> HIDE DEF at, w
  <1>4. Unsealed(w) = p
    <2>1. DOMAIN at \ {bytes - 4} = DOMAIN p
      BY <1>2
    <2> QED
      BY <1>2, <1>3, <2>1
  <1> QED
    BY <1>1, <1>2, <1>4 DEF Get, Crc32, w

\* What the encoder of a receipt wrote, the client's decoder reads.
LEMMA AckRoundTrip ==
    ASSUME NEW a \in Receipt
    PROVE  /\ AckEncode(a).ret = "OK"
           /\ AckDecode(AckEncode(a).value).value.sequence = a.sequence
  <1> DEFINE p == Put(Fill(AckLayout, a), Header("ACK", ProtocolVersion, AckBytes, 0))
             w == Sealed(AckBytes, p)
  <1>1. AckValidate(a) /\ a \in [sequence : Sequence, target : Targets,
                   result : {"APPLIED", "EXPIRED", "SUPERSEDED", "CANCELLED"},
                   first_visit : Nat \cup {NoFirstVisit}]
    BY DEF Receipt
  <1>2. AckEncode(a).ret = "OK" /\ AckEncode(a).value = w
    BY <1>1 DEF AckEncode, Good
  <1>3. /\ DOMAIN AckLayout = {"sequence", "first_visit", "target", "result"}
        /\ AckLayout["sequence"] = 16 /\ AckLayout["first_visit"] = 32
        /\ AckLayout["target"] = 56 /\ AckLayout["result"] = 60
    BY DEF AckLayout
  <1>4. /\ DOMAIN Fill(AckLayout, a) = {16, 32, 56, 60}
        /\ Fill(AckLayout, a)[16] = a.sequence /\ Fill(AckLayout, a)[32] = a.first_visit
        /\ Fill(AckLayout, a)[56] = a.target /\ Fill(AckLayout, a)[60] = a.result
    <2>1. {AckLayout[f] : f \in DOMAIN AckLayout} = {16, 32, 56, 60}
      BY <1>3
    <2>2. /\ (CHOOSE f \in DOMAIN AckLayout : AckLayout[f] = 16) = "sequence"
          /\ (CHOOSE f \in DOMAIN AckLayout : AckLayout[f] = 32) = "first_visit"
          /\ (CHOOSE f \in DOMAIN AckLayout : AckLayout[f] = 56) = "target"
          /\ (CHOOSE f \in DOMAIN AckLayout : AckLayout[f] = 60) = "result"
      BY <1>3
    <2> QED
      BY <2>1, <2>2 DEF Fill
  <1>5. /\ DOMAIN p = {0, 4, 6, 12, 16, 32, 56, 60} /\ p = [o \in DOMAIN p |-> p[o]]
        /\ p[0] = "ACK" /\ p[4] = ProtocolVersion /\ p[6] = AckBytes /\ p[12] = 0
        /\ p[16] = a.sequence /\ p[32] = a.first_visit /\ p[56] = a.target /\ p[60] = a.result
    BY <1>4 DEF Put, Header
  <1> HIDE DEF p
  <1>6. AckBytes \in Nat /\ AckBytes - 4 = 92
    BY DEF AckBytes
  <1>7. /\ w.bytes = AckBytes
        /\ Get(w.at, AckBytes - 4) = Crc32(Unsealed(w))
        /\ \A o \in DOMAIN p : Get(w.at, o) = p[o]
    BY <1>5, <1>6, SealedRecord
  <1> HIDE DEF w
  <1>8. Check(w, AckBytes, "ACK", 0) = "OK"
    BY <1>5, <1>7 DEF Check
  <1>9. Read(AckLayout, w.at) = a
    <2>1. /\ Get(w.at, 16) = a.sequence /\ Get(w.at, 32) = a.first_visit
          /\ Get(w.at, 56) = a.target /\ Get(w.at, 60) = a.result
      BY <1>5, <1>7
    <2>2. /\ DOMAIN Read(AckLayout, w.at) = {"sequence", "first_visit", "target", "result"}
          /\ \A f \in DOMAIN AckLayout : Read(AckLayout, w.at)[f] = Get(w.at, AckLayout[f])
      BY <1>3 DEF Read
    <2> QED
      BY <1>1, <1>3, <2>1, <2>2 DEF Read
  <1> QED
    BY <1>1, <1>2, <1>8, <1>9 DEF AckDecode, Good

\* Feedback, of which the values do not matter here, but for the type of its fields.
Message == [session : Nat, sequence : Sequence, visit : Nat, valid_start : Nat, valid_end : Nat,
            target : Targets, outcome : Outcome, digest : Nat]

\* What the client's library encodes, iiod decodes.
LEMMA FeedbackRoundTrip ==
    ASSUME NEW f \in Message, FeedbackValidate(f)
    PROVE  FeedbackDecode(FeedbackEncode(f).value) = Good(f)
  <1> DEFINE p == Put(Fill(FeedbackLayout, f),
                      Header("FEEDBACK", ProtocolVersion, FeedbackBytes, 0))
             w == Sealed(FeedbackBytes, p)
             L == FeedbackLayout
             Names == {"session", "sequence", "visit", "valid_start", "valid_end", "target",
                       "outcome", "digest"}
             Offsets == {16, 32, 40, 48, 56, 64, 68, 72}
  <1>1. FeedbackEncode(f).value = w
    BY DEF FeedbackEncode, Good
  <1>2. /\ DOMAIN L = Names
        /\ L["session"] = 16 /\ L["sequence"] = 32 /\ L["visit"] = 40 /\ L["valid_start"] = 48
        /\ L["valid_end"] = 56 /\ L["target"] = 64 /\ L["outcome"] = 68 /\ L["digest"] = 72
    BY DEF FeedbackLayout
  <1> HIDE DEF L
  <1>3. /\ DOMAIN Fill(L, f) = Offsets
        /\ \A n \in Names : Fill(L, f)[L[n]] = f[n]
    <2>1. {L[n] : n \in DOMAIN L} = Offsets
      BY <1>2
    <2>2. \A n \in Names : (CHOOSE m \in DOMAIN L : L[m] = L[n]) = n
      BY <1>2
    <2>3. \A n \in Names : L[n] \in Offsets
      BY <1>2
    <2> QED
      BY <2>1, <2>2, <2>3 DEF Fill
  <1>4. /\ DOMAIN p = Offsets \cup {0, 4, 6, 12} /\ p = [o \in DOMAIN p |-> p[o]]
        /\ p[0] = "FEEDBACK" /\ p[4] = ProtocolVersion /\ p[6] = FeedbackBytes /\ p[12] = 0
        /\ \A n \in Names : p[L[n]] = f[n] /\ L[n] \in DOMAIN p
    <2> DEFINE q == Header("FEEDBACK", ProtocolVersion, FeedbackBytes, 0)
    <2>1. /\ DOMAIN q = {0, 4, 6, 12} /\ q[0] = "FEEDBACK" /\ q[4] = ProtocolVersion
          /\ q[6] = FeedbackBytes /\ q[12] = 0
      BY DEF Header
    <2>2. \A n \in Names : L[n] \in Offsets /\ L[n] \notin {0, 4, 6, 12}
      BY <1>2
    <2>3. p = [o \in DOMAIN Fill(L, f) \cup DOMAIN q |->
                  IF o \in DOMAIN q THEN q[o] ELSE Fill(L, f)[o]]
      BY DEF Put, L
    <2> HIDE DEF q, p
    <2> QED
      BY <1>3, <2>1, <2>2, <2>3
  <1> HIDE DEF p
  <1>5. FeedbackBytes \in Nat /\ FeedbackBytes - 4 = 108
    BY DEF FeedbackBytes
  <1>6. /\ w.bytes = FeedbackBytes
        /\ Get(w.at, FeedbackBytes - 4) = Crc32(Unsealed(w))
        /\ \A o \in DOMAIN p : Get(w.at, o) = p[o]
        /\ Get(w.at, 104) = 0
    <2>1. FeedbackBytes - 4 \notin DOMAIN p /\ 104 \notin DOMAIN p /\ 104 # FeedbackBytes - 4
      BY <1>4, <1>5
    <2>2. p = [o \in DOMAIN p |-> p[o]]
      BY <1>4
    <2> HIDE DEF Offsets
    <2> QED
      BY <1>5, <2>1, <2>2, SealedRecord
  <1> HIDE DEF w
  <1>7. Check(w, FeedbackBytes, "FEEDBACK", 0) = "OK"
    BY <1>4, <1>6 DEF Check
  <1>8. Read(L, w.at) = f
    <2>1. \A n \in Names : Get(w.at, L[n]) = f[n]
      BY <1>4, <1>6
    <2>2. Read(L, w.at) = [n \in Names |-> Get(w.at, L[n])]
      BY <1>2 DEF Read
    <2>3. f = [n \in Names |-> f[n]]
      BY DEF Message
    <2> HIDE DEF Names
    <2> QED
      BY <2>1, <2>2, <2>3
  <1>9. FeedbackDecode(w) = Good(f)
    <2>1. Read(FeedbackLayout, w.at) = f
      BY <1>8 DEF L
    <2>2. FeedbackDecode(w) = Good(Read(FeedbackLayout, w.at))
      BY <1>6, <1>7, <2>1 DEF FeedbackDecode
    <2> QED
      BY <2>1, <2>2
  <1> QED
    BY <1>1, <1>9

-----------------------------------------------------------------------------
(* Arithmetic of the configuration *)

\* What spf_scan_policy_validate says of the numbers.
LEMMA Config ==
    /\ TargetCount \in Nat \ {0} /\ Dwell \in Nat \ {0} /\ ShortDwell \in Nat \ {0}
    /\ Transition \in Nat \ {0} /\ Revisit \in Nat \ {0} /\ Duration \in Nat \ {0}
    /\ History \in Nat \ {0} /\ MaxSequence \in Nat \ {0} /\ Window \in Nat \ {0}
    /\ AckCapacity \in Nat \ {0} /\ MaxLate \in Nat /\ Horizon \in Nat
    /\ Slot \in Nat \ {0} /\ Slot = Dwell + Transition /\ ShortDwell <= Dwell
    /\ TargetCount <= WireTargets /\ TargetCount * Slot <= Revisit
    /\ Targets \subseteq Nat /\ IsFiniteSet(Targets) /\ Cardinality(Targets) = TargetCount
    /\ 0 \in Targets
  <1>1. /\ TargetCount \in Nat \ {0} /\ Dwell \in Nat \ {0} /\ ShortDwell \in Nat \ {0}
        /\ Transition \in Nat \ {0} /\ Revisit \in Nat \ {0} /\ Duration \in Nat \ {0}
        /\ History \in Nat \ {0} /\ MaxSequence \in Nat \ {0} /\ Window \in Nat \ {0}
        /\ AckCapacity \in Nat \ {0} /\ MaxLate \in Nat /\ Horizon \in Nat
        /\ ShortDwell <= Dwell /\ TargetCount <= WireTargets
        /\ TargetCount * (Dwell + Transition) <= Revisit
    BY ConfigAssumption DEF ValidConfig
  <1>2. Slot \in Nat \ {0} /\ Slot = Dwell + Transition
    BY <1>1 DEF Slot
  <1>3. IsFiniteSet(0 .. TargetCount - 1) /\ Cardinality(0 .. TargetCount - 1) = TargetCount
    BY <1>1, FS_Interval
  <1> QED
    BY <1>1, <1>2, <1>3 DEF Targets, Slot

\* More of the same is no less.
LEMMA TimesMonotonic ==
    ASSUME NEW a \in Int, NEW b \in Int, a <= b, NEW n \in Nat
    PROVE  a * n <= b * n /\ (b - a) * n = b * n - a * n /\ (b + 1) * n = b * n + n
  OBVIOUS

\* Division with remainder.
LEMMA Division ==
    ASSUME NEW k \in Nat, NEW n \in Nat \ {0}
    PROVE  /\ k \div n \in Nat /\ k % n \in 0 .. n - 1
           /\ k = (k \div n) * n + (k % n)
           /\ k % n \in Int
  OBVIOUS

\* The quotient and the remainder are determined by what they are.
LEMMA Remainder ==
    ASSUME NEW n \in Nat \ {0}, NEW q \in Int, NEW r \in 0 .. n - 1,
           NEW p \in Int, NEW s \in 0 .. n - 1, q * n + r = p * n + s
    PROVE  q = p /\ r = s
  <1>1. ~(q < p)
    <2> SUFFICES ASSUME q + 1 <= p PROVE FALSE
      OBVIOUS
    <2>1. (q + 1) * n <= p * n /\ (q + 1) * n = q * n + n
      BY TimesMonotonic
    <2>2. q * n \in Int /\ p * n \in Int
      OBVIOUS
    <2> QED
      BY <2>1, <2>2
  <1>2. ~(p < q)
    <2> SUFFICES ASSUME p + 1 <= q PROVE FALSE
      OBVIOUS
    <2>1. (p + 1) * n <= q * n /\ (p + 1) * n = p * n + n
      BY TimesMonotonic
    <2>2. q * n \in Int /\ p * n \in Int
      OBVIOUS
    <2> QED
      BY <2>1, <2>2
  <1>3. q = p
    BY <1>1, <1>2
  <1> QED
    BY <1>3

\* The turn goes to the next target, and after the last one to the first.
LEMMA NextTurn ==
    ASSUME NEW k \in Nat, NEW n \in Nat \ {0}
    PROVE  (k + 1) % n = IF k % n = n - 1 THEN 0 ELSE (k % n) + 1
  <1> DEFINE q == k \div n
             r == k % n
             p == (k + 1) \div n
             s == (k + 1) % n
  <1>1. q \in Int /\ r \in 0 .. n - 1 /\ k = q * n + r
        /\ p \in Int /\ s \in 0 .. n - 1 /\ k + 1 = p * n + s
    BY Division
  <1> HIDE DEF q, r, p, s
  <1>2. CASE r = n - 1
    <2>1. (q + 1) * n = q * n + n
      BY <1>1, TimesMonotonic
    <2>2. (q + 1) * n + 0 = p * n + s
      <3>1. q * n \in Int /\ p * n \in Int
        BY <1>1
      <3> QED
        BY <1>1, <1>2, <2>1, <3>1
    <2>3. 0 = s
      BY <1>1, <2>2, Remainder
    <2> QED
      BY <1>2, <2>3 DEF r, s
  <1>3. CASE r # n - 1
    <2>1. q * n + (r + 1) = p * n + s /\ r + 1 \in 0 .. n - 1
      <3>1. q * n \in Int /\ p * n \in Int
        BY <1>1
      <3> QED
        BY <1>1, <1>3, <3>1
    <2>2. r + 1 = s
      BY <1>1, <2>1, Remainder
    <2> QED
      BY <1>3, <2>2 DEF r, s
  <1> QED
    BY <1>2, <1>3

\* The table of visits of each kind of scan.
LEMMA TableSize ==
    ASSUME mode \in Modes
    PROVE  /\ MaxVisits(mode) \in Nat \ {0}
           /\ mode = "continuous" => ScanEnd = Horizon
           /\ mode # "continuous" => /\ ScanEnd = Duration
                                     /\ MaxVisits(mode) = Duration \div MinDwell + 1
           /\ MinDwell \in Nat \ {0} /\ MinDwell <= Dwell /\ ScanEnd \in Nat
           /\ \A v \in Nat : v % MaxVisits(mode) \in 0 .. MaxVisits(mode) - 1
           /\ \A v \in Nat : v < MaxVisits(mode) => v % MaxVisits(mode) = v
  <1>1. mode \in {"fixed", "random", "continuous"}
    BY ConfigAssumption DEF ValidConfig
  <1>2. MinDwell \in Nat \ {0} /\ MinDwell <= Dwell
    BY Config DEF MinDwell
  <1>3. Duration \div Dwell \in Nat /\ Duration \div ShortDwell \in Nat
    BY Config, Division
  <1>4. MaxVisits(mode) \in Nat \ {0}
    BY <1>1, <1>3, Config DEF MaxVisits
  <1>5. /\ mode = "continuous" => ScanEnd = Horizon
        /\ mode # "continuous" => ScanEnd = Duration /\ MaxVisits(mode) = Duration \div MinDwell + 1
        /\ ScanEnd \in Nat
    BY <1>1, Config DEF ScanEnd, MaxVisits, MinDwell
  <1>6. ASSUME NEW v \in Nat
        PROVE  /\ v % MaxVisits(mode) \in 0 .. MaxVisits(mode) - 1
               /\ v < MaxVisits(mode) => v % MaxVisits(mode) = v
    <2> DEFINE n == MaxVisits(mode)
    <2> HIDE DEF n
    <2>1. n \in Nat \ {0}
      BY <1>4 DEF n
    <2>2. v \div n \in Nat /\ v % n \in 0 .. n - 1 /\ v = (v \div n) * n + (v % n)
      BY <2>1, Division
    <2>3. ASSUME v < n PROVE v % n = v
      <3> DEFINE q == v \div n
                 s == v % n
      <3>1. v \in 0 .. n - 1 /\ 0 * n + v = q * n + s /\ q \in Int /\ s \in 0 .. n - 1
        BY <2>1, <2>2, <2>3
      <3> HIDE DEF q, s
      <3>2. v = s
        BY <2>1, <3>1, Remainder
      <3> QED
        BY <3>2 DEF s
    <2> QED
      BY <2>2, <2>3 DEF n
  <1> QED
    BY <1>2, <1>4, <1>5, <1>6

-----------------------------------------------------------------------------
(* Counting receipts *)

Rank(T, t) == Cardinality({u \in T : u <= t})

\* The receipts of a queue that answer the number s.
Receipts(q, s) == {i \in DOMAIN q : q[i].sequence = s}

\* The targets of a set have different ranks, and every rank is taken: Nth finds them all.
LEMMA Ranks ==
    ASSUME NEW T \in SUBSET Targets
    PROVE  /\ IsFiniteSet(T) /\ Cardinality(T) \in Nat
           /\ \A t \in T : Rank(T, t) \in 1 .. Cardinality(T) /\ Nth(T, Rank(T, t)) = t
           /\ \A i \in 1 .. Cardinality(T) : Nth(T, i) \in T /\ Rank(T, Nth(T, i)) = i
  <1>1. /\ T \subseteq Nat /\ IsFiniteSet(T) /\ Cardinality(T) \in Nat
    BY Config, FS_Subset, FS_CardinalityType
  <1> DEFINE n == Cardinality(T)
             upTo(t) == {u \in T : u <= t}
             rank == [t \in T |-> Rank(T, t)]
  <1>2. ASSUME NEW t \in T
        PROVE  /\ IsFiniteSet(upTo(t)) /\ Cardinality(upTo(t)) \in 1 .. n
    <2>1. upTo(t) \in SUBSET T /\ t \in upTo(t)
      BY <1>1
    <2>2. IsFiniteSet(upTo(t)) /\ Cardinality(upTo(t)) <= n /\ Cardinality(upTo(t)) \in Nat
      BY <1>1, <2>1, FS_Subset, FS_CardinalityType
    <2>3. Cardinality(upTo(t)) # 0
      BY <2>1, <2>2, FS_EmptySet
    <2> QED
      BY <1>1, <2>2, <2>3
  <1>3. ASSUME NEW t \in T, NEW v \in T, t < v
        PROVE  Rank(T, t) # Rank(T, v)
    <2>1. upTo(t) \in SUBSET upTo(v) /\ v \in upTo(v) /\ v \notin upTo(t)
      <3>1. \A u \in Nat : u <= t => u <= v
        BY <1>1, <1>3
      <3>2. v <= v /\ ~(v <= t)
        BY <1>1, <1>3
      <3> QED
        BY <1>1, <3>1, <3>2
    <2>2. Cardinality(upTo(v)) # Cardinality(upTo(t))
      BY <1>2, <2>1, FS_Subset
    <2> QED
      BY <2>2 DEF Rank
  <1>4. \A t, v \in T : Rank(T, t) = Rank(T, v) => t = v
    BY <1>1, <1>3
  <1>5. \A t \in T : Rank(T, t) \in 1 .. n
    BY <1>2 DEF Rank
  <1>6. rank \in Injection(T, 1 .. n)
    BY <1>4, <1>5 DEF Injection, IsInjective
  <1>7. IsFiniteSet(1 .. n) /\ Cardinality(1 .. n) = n
    BY <1>1, FS_Interval
  <1>8. rank \in Surjection(T, 1 .. n)
    BY <1>6, <1>7, FS_Injection
  <1>9. \A i \in 1 .. n : \E t \in T : Rank(T, t) = i
    BY <1>8 DEF Surjection
  <1>10. \A i \in 1 .. n : Nth(T, i) \in T /\ Rank(T, Nth(T, i)) = i
    BY <1>9 DEF Nth, Rank
  <1> HIDE DEF n
  <1>11. \A t \in T : Nth(T, Rank(T, t)) = t
    BY <1>4, <1>5, <1>10
  <1> QED
    BY <1>1, <1>5, <1>10, <1>11 DEF n

\* In the order of Nth, as many places are taken by members of U as it has.
LEMMA PlacesOf ==
    ASSUME NEW T \in SUBSET Targets, NEW U \in SUBSET T
    PROVE  Cardinality({i \in 1 .. Cardinality(T) : Nth(T, i) \in U}) = Cardinality(U)
  <1> DEFINE I == {i \in 1 .. Cardinality(T) : Nth(T, i) \in U}
             f == [i \in I |-> Nth(T, i)]
  <1>1. IsFiniteSet(I)
    <2>1. IsFiniteSet(1 .. Cardinality(T)) /\ I \in SUBSET (1 .. Cardinality(T))
      BY Ranks, FS_Interval
    <2> HIDE DEF I
    <2> QED
      BY <2>1, FS_Subset
  <1>2. f \in [I -> U]
    OBVIOUS
  <1>3. \A i, j \in I : f[i] = f[j] => i = j
    BY Ranks
  <1>4. \A u \in U : \E i \in I : f[i] = u
    <2> TAKE u \in U
    <2>1. Rank(T, u) \in I /\ Nth(T, Rank(T, u)) = u
      BY Ranks
    <2> QED
      BY <2>1
  <1> HIDE DEF I
  <1>5. f \in Bijection(I, U)
    BY <1>2, <1>3, <1>4 DEF Bijection, Injection, Surjection, IsInjective
  <1>6. ExistsBijection(I, U)
    BY <1>5 DEF ExistsBijection
  <1> QED
    BY <1>1, <1>6, FS_Bijection DEF I

\* The receipts of two queues, one after the other.
LEMMA ReceiptsOfBoth ==
    ASSUME NEW a \in Seq(Receipt), NEW b \in Seq(Receipt), NEW s
    PROVE  /\ Cardinality(Receipts(a, s)) \in Nat /\ Cardinality(Receipts(b, s)) \in Nat
           /\ Cardinality(Receipts(a \o b, s)) = Cardinality(Receipts(a, s)) + Cardinality(Receipts(b, s))
  <1> DEFINE A == Receipts(a, s)
             B == Receipts(b, s)
             C == {i \in 1 .. Len(a) + Len(b) : i > Len(a) /\ i - Len(a) \in B}
             f == [i \in B |-> Len(a) + i]
  <1>1. /\ Len(a) \in Nat /\ Len(b) \in Nat /\ DOMAIN a = 1 .. Len(a) /\ DOMAIN b = 1 .. Len(b)
        /\ a \o b \in Seq(Receipt) /\ Len(a \o b) = Len(a) + Len(b)
        /\ DOMAIN (a \o b) = 1 .. Len(a) + Len(b)
    OBVIOUS
  <1>2. /\ \A i \in 1 .. Len(a) : (a \o b)[i] = a[i]
        /\ \A i \in 1 .. Len(a) + Len(b) : i > Len(a) => (a \o b)[i] = b[i - Len(a)]
    BY <1>1
  <1>3. A \in SUBSET (1 .. Len(a)) /\ B \in SUBSET (1 .. Len(b))
    BY <1>1 DEF Receipts
  <1>4. IsFiniteSet(A) /\ IsFiniteSet(B) /\ Cardinality(A) \in Nat /\ Cardinality(B) \in Nat
    <2>1. IsFiniteSet(1 .. Len(a)) /\ IsFiniteSet(1 .. Len(b))
      BY <1>1, FS_Interval
    <2> HIDE DEF A, B
    <2> QED
      BY <1>3, <2>1, FS_Subset, FS_CardinalityType
  <1>5. Receipts(a \o b, s) = A \cup C /\ A \cap C = {}
    <2>1. \A i \in 1 .. Len(a) + Len(b) : i > Len(a) => i - Len(a) \in 1 .. Len(b)
      BY <1>1
    <2>2. \A i \in 1 .. Len(a) : i \in 1 .. Len(a) + Len(b) /\ ~(i > Len(a))
      BY <1>1
    <2>3. \A i \in 1 .. Len(a) + Len(b) : ~(i > Len(a)) => i \in 1 .. Len(a)
      BY <1>1
    <2> QED
      BY <1>1, <1>2, <2>1, <2>2, <2>3 DEF Receipts
  <1>6. f \in Bijection(B, C)
    <2>1. f \in [B -> C]
      BY <1>1, <1>3
    <2>2. \A i, j \in B : f[i] = f[j] => i = j
      BY <1>1, <1>3
    <2>3. \A k \in C : k - Len(a) \in B /\ f[k - Len(a)] = k
      BY <1>1
    <2> HIDE DEF f, C, B
    <2> QED
      BY <2>1, <2>2, <2>3 DEF Bijection, Injection, Surjection, IsInjective
  <1> HIDE DEF A, B, C, f
  <1>7. IsFiniteSet(C) /\ Cardinality(C) = Cardinality(B)
    BY <1>4, <1>6, FS_Bijection DEF ExistsBijection
  <1>8. Cardinality(A \cup C) = Cardinality(A) + Cardinality(C) - Cardinality(A \cap C)
    BY <1>4, <1>7, FS_Union
  <1>9. Cardinality(A \cap C) = 0
    BY <1>5, FS_EmptySet
  <1> QED
    BY <1>4, <1>5, <1>7, <1>8, <1>9 DEF A, B

Results == {"APPLIED", "EXPIRED", "SUPERSEDED", "CANCELLED"}

\* The targets whose pending feedback has the number s.
Waiting(s) == {t \in Targets : pending[t].sequence = s}

\* A receipt for pending feedback can be encoded.
LEMMA AckIsReceipt ==
    ASSUME TypeOK, NEW t \in Targets, Occupied(t), NEW result \in Results
    PROVE  Ack(t, result) \in Receipt /\ Ack(t, result).sequence = pending[t].sequence
  <1>1. pending[t].sequence \in 0 .. MaxSequence /\ pending[t].sequence # 0
    BY DEF TypeOK, Occupied
  <1>2. pending[t].sequence \in Sequence /\ pending[t].sequence > 0
    BY <1>1, Config DEF Sequence
  <1>3. t < WireTargets
    BY Config DEF Targets, WireTargets
  <1>4. visit_count \in Nat /\ visit_count # NoFirstVisit
    BY DEF TypeOK, NoFirstVisit
  <1> QED
    BY <1>2, <1>3, <1>4 DEF Ack, Receipt, AckValidate, Results

\* The receipts of all pending feedback: one for each.
LEMMA TerminalReceipts ==
    ASSUME TypeOK, NEW result \in [Targets -> Results]
    PROVE  /\ TerminalAcks(PendingTargets, result) \in Seq(Receipt)
           /\ Len(TerminalAcks(PendingTargets, result)) = Cardinality(PendingTargets)
           /\ Cardinality(PendingTargets) \in Nat
           /\ \A s \in Sequence : Cardinality(Receipts(TerminalAcks(PendingTargets, result), s))
                                    = Cardinality(Waiting(s))
  <1> DEFINE T == PendingTargets
             n == Cardinality(T)
             q == TerminalAcks(T, result)
  <1>1. T \in SUBSET Targets /\ \A t \in T : Occupied(t)
    BY DEF PendingTargets
  <1>2. n \in Nat /\ \A i \in 1 .. n : Nth(T, i) \in T
    BY <1>1, Ranks
  <1>3. q = [i \in 1 .. n |-> Ack(Nth(T, i), result[Nth(T, i)])]
    BY DEF TerminalAcks
  <1> HIDE DEF T, n, q
  <1>4. \A i \in 1 .. n : /\ q[i] \in Receipt
                          /\ q[i].sequence = pending[Nth(T, i)].sequence
    <2> TAKE i \in 1 .. n
    <2>1. Nth(T, i) \in Targets /\ Occupied(Nth(T, i)) /\ result[Nth(T, i)] \in Results
      BY <1>1, <1>2
    <2> QED
      BY <1>3, <2>1, AckIsReceipt
  <1>5. q \in Seq(Receipt) /\ Len(q) = n /\ DOMAIN q = 1 .. n
    BY <1>2, <1>3, <1>4
  <1>6. ASSUME NEW s \in Sequence
        PROVE  Cardinality(Receipts(q, s)) = Cardinality(Waiting(s))
    <2>1. Waiting(s) \in SUBSET T
      BY Config DEF Waiting, T, PendingTargets, Occupied, Sequence
    <2>2. Receipts(q, s) = {i \in 1 .. n : Nth(T, i) \in Waiting(s)}
      BY <1>1, <1>2, <1>4, <1>5 DEF Receipts, Waiting
    <2> QED
      BY <1>1, <2>1, <2>2, PlacesOf DEF n
  <1> QED
    BY <1>2, <1>5, <1>6 DEF q, n, T

\* A step that answers all pending feedback keeps account of it.
LEMMA AnsweredAll ==
    ASSUME IndInv, NEW result \in [Targets -> Results],
           acks' = acks \o TerminalAcks(PendingTargets, result),
           pending' = [t \in Targets |-> NoFeedback], UNCHANGED <<accepted, taken>>
    PROVE  AcksInv' /\ OneAckEach'
  <1> DEFINE q == TerminalAcks(PendingTargets, result)
  <1> USE DEF IndInv
  <1>1. /\ acks \in Seq(Receipt) /\ q \in Seq(Receipt)
        /\ Len(q) = Cardinality(PendingTargets) /\ Cardinality(PendingTargets) \in Nat
        /\ \A s \in Sequence : Cardinality(Receipts(q, s)) = Cardinality(Waiting(s))
    BY TerminalReceipts DEF AcksInv
  <1>2. acks' = acks \o q
    OBVIOUS
  <1> HIDE DEF q
  <1>3. AcksInv'
    BY <1>1, <1>2 DEF AcksInv
  <1>4. PendingTargets' = {}
    BY DEF PendingTargets, Occupied, NoFeedback
  <1>5. Len(acks') + Cardinality(PendingTargets') <= AckCapacity
    <2>1. Cardinality(PendingTargets') = 0
      BY <1>4, FS_EmptySet
    <2>2. Len(acks') = Len(acks) + Len(q) /\ Len(acks) \in Nat /\ Len(q) \in Nat
      <3>1. acks \in Seq(Receipt) /\ q \in Seq(Receipt)
        BY <1>1
      <3>2. Len(acks \o q) = Len(acks) + Len(q) /\ Len(acks) \in Nat /\ Len(q) \in Nat
        BY <3>1
      <3> QED
        BY <1>2, <3>2
    <2> QED
      BY <1>1, <2>1, <2>2 DEF OneAckEach
  <1>6. ASSUME NEW s \in Sequence
        PROVE  accepted'[s] = Cardinality(Waiting(s)') + Cardinality(Receipts(acks', s)) + taken'[s]
    <2>1. accepted[s] = Cardinality(Waiting(s)) + Cardinality(Receipts(acks, s)) + taken[s]
      BY DEF OneAckEach, Waiting, Receipts
    <2>2. Waiting(s)' = {}
      BY Config DEF Waiting, NoFeedback, Sequence
    <2>3. Cardinality(Waiting(s)') = 0
      BY <2>2, FS_EmptySet
    <2>4. /\ Cardinality(Receipts(acks', s)) = Cardinality(Receipts(acks, s)) + Cardinality(Waiting(s))
          /\ Cardinality(Receipts(acks, s)) \in Nat /\ Cardinality(Waiting(s)) \in Nat
      <3>1. /\ Cardinality(Receipts(acks, s)) \in Nat /\ Cardinality(Receipts(q, s)) \in Nat
            /\ Cardinality(Receipts(acks \o q, s))
                 = Cardinality(Receipts(acks, s)) + Cardinality(Receipts(q, s))
        BY <1>1, ReceiptsOfBoth
      <3>2. Cardinality(Receipts(q, s)) = Cardinality(Waiting(s))
        BY <1>1
      <3> QED
        BY <1>2, <3>1, <3>2
    <2>5. taken[s] \in Nat
      BY DEF TypeOK
    <2> QED
      BY <2>1, <2>3, <2>4, <2>5
  <1> QED
    BY <1>3, <1>5, <1>6 DEF OneAckEach, Waiting, Receipts

-----------------------------------------------------------------------------
(* The steps *)

\* Every target fits a revisit interval once.
LEMMA RoundFits ==
    ASSUME NEW k \in Nat, k <= TargetCount - 1
    PROVE  k * Slot \in Nat /\ Slot + k * Slot <= Revisit /\ Dwell + Transition + k * Slot <= Revisit
  <1>1. (k + 1) * Slot <= TargetCount * Slot
    BY Config, TimesMonotonic
  <1>2. (k + 1) * Slot = k * Slot + Slot /\ k * Slot \in Nat /\ TargetCount * Slot \in Nat
    BY Config, TimesMonotonic
  <1> QED
    BY <1>1, <1>2, Config

\* A target is among those to be visited before it.
LEMMA BeforeCounts ==
    ASSUME TypeOK, NEW t \in Targets
    PROVE  /\ Deadline(t) \in Nat /\ Before(t) \in SUBSET Targets /\ t \in Before(t)
           /\ IsFiniteSet(Before(t)) /\ Cardinality(Before(t)) \in 1 .. TargetCount
           /\ Turns(t) \in 0 .. TargetCount - 1
  <1>1. \A o \in Targets : Deadline(o) \in Nat
    <2>1. \A o \in Targets : last_start[o] \in Nat
      BY Config DEF TypeOK, Counter
    <2> QED
      BY <2>1, Config DEF Deadline
  <1>2. Before(t) \in SUBSET Targets /\ t \in Before(t)
    <2>1. Deadline(t) <= Deadline(t)
      BY <1>1
    <2> QED
      BY <2>1 DEF Before
  <1>3. IsFiniteSet(Before(t)) /\ Cardinality(Before(t)) <= TargetCount
        /\ Cardinality(Before(t)) \in Nat
    BY <1>2, Config, FS_Subset, FS_CardinalityType
  <1>4. Cardinality(Before(t)) # 0
    BY <1>2, <1>3, FS_EmptySet
  <1>5. Turn \in 0 .. TargetCount - 1 /\ t \in 0 .. TargetCount - 1
    BY Config, Division DEF TypeOK, Turn, Targets
  <1>6. Turns(t) \in 0 .. TargetCount - 1
    BY <1>5, Config DEF Turns
  <1> QED
    BY <1>1, <1>2, <1>3, <1>4, <1>6, Config

\* The last visit is in the table and ends with the scan at the latest.
LEMMA BoundaryType ==
    ASSUME TypeOK, TableInv
    PROVE  Boundary \in Nat /\ Boundary <= ScanEnd /\ Boundary \in Counter
  <1>1. CASE visit_count = 0
    BY <1>1, TableSize, Config DEF Boundary, TypeOK, Counter
  <1>2. CASE visit_count # 0
    <2>1. visit_count - 1 \in Nat
      BY <1>2 DEF TypeOK
    <2>2. (visit_count - 1) % MaxVisits(mode) \in DOMAIN visits
      BY <2>1, TableSize DEF TypeOK
    <2> DEFINE i == (visit_count - 1) % MaxVisits(mode)
    <2>3. visits[i].end \in Counter /\ visits[i].end <= ScanEnd
      BY <2>2 DEF TypeOK, TableInv
    <2> HIDE DEF i
    <2>4. Boundary = visits[i].end
      BY <1>2 DEF Boundary, Visit, i
    <2> QED
      BY <2>3, <2>4, Config DEF Counter
  <1> QED
    BY <1>1, <1>2

\* A scan begins with nothing to answer and time for every target.
LEMMA InitInd == Init => IndInv
  <1> SUFFICES ASSUME Init PROVE IndInv
    OBVIOUS
  <1>1. mode \in Modes /\ MaxVisits(mode) \in Nat \ {0} /\ ScanEnd \in Nat
    BY TableSize DEF Init
  <1>2. 0 \in Counter /\ 0 \in Targets /\ 0 \in 0 .. Dwell /\ 0 \in 0 .. MaxSequence
    BY Config DEF Counter
  <1>3. TypeOK
    <2>1. NoVisit \in [start : Counter, end : Counter, target : Targets,
                       finished : BOOLEAN, intact : BOOLEAN]
      BY <1>2 DEF NoVisit
    <2>2. NoFeedback \in [sequence : 0 .. MaxSequence, valid_end : Counter,
                          received : Counter, outcome : Outcome]
      BY <1>2 DEF NoFeedback, Outcome
    <2>3. NoSelection \in [target : Targets, counter : Counter, dwell : 0 .. Dwell]
      BY <1>2 DEF NoSelection
    <2>4. /\ visits \in [0 .. MaxVisits(mode) - 1 ->
                    [start : Counter, end : Counter, target : Targets,
                     finished : BOOLEAN, intact : BOOLEAN]]
          /\ pending \in [Targets -> [sequence : 0 .. MaxSequence, valid_end : Counter,
                                      received : Counter, outcome : Outcome]]
          /\ selection \in [target : Targets, counter : Counter, dwell : 0 .. Dwell]
      BY <2>1, <2>2, <2>3 DEF Init
    <2>5. /\ mode \in Modes /\ visit_count \in Nat /\ output_index \in 0 .. visit_count
          /\ last_start \in [Targets -> Counter] /\ last_now \in Counter
      BY <1>2 DEF Init
    <2>6. selected \in BOOLEAN /\ stopped \in BOOLEAN /\ ontime \in BOOLEAN
      BY DEF Init
    <2>7. active \in [Targets -> BOOLEAN]
      BY DEF Init
    <2>8. /\ channel_sequence \in [Targets -> 0 .. highest_sequence]
          /\ highest_sequence \in 0 .. MaxSequence /\ seen = {}
          /\ accepted \in [Sequence -> Nat] /\ taken \in [Sequence -> Nat]
      BY <1>2 DEF Init
    <2> QED
      BY <2>4, <2>5, <2>6, <2>7, <2>8 DEF TypeOK
  <1>4. AcksInv
    BY DEF Init, AcksInv
  <1>5. WindowInv
    BY DEF Init, WindowInv
  <1>6. Boundary = 0
    BY DEF Init, Boundary
  <1>7. TableInv
    <2>1. \A i \in DOMAIN visits : visits[i].end <= ScanEnd
      BY <1>1 DEF Init, NoVisit
    <2>2. visit_count * MinDwell <= Boundary /\ visit_count + 0 <= MaxVisits(mode)
      BY <1>1, <1>6, TableSize DEF Init
    <2> QED
      BY <2>1, <2>2 DEF TableInv, Init
  <1>8. SelectionInv
    BY DEF Init, SelectionInv
  <1>9. DeadlineInv
    <2> SUFFICES ASSUME NEW t \in Targets
                 PROVE  Boundary + Transition + (IF mode = "continuous" THEN Turns(t)
                                                 ELSE Cardinality(Before(t)) - 1) * Slot
                          <= Deadline(t)
      BY DEF DeadlineInv
    <2> DEFINE k == IF mode = "continuous" THEN Turns(t) ELSE Cardinality(Before(t)) - 1
    <2>1. k \in Nat /\ k <= TargetCount - 1
      BY <1>3, BeforeCounts, Config
    <2>2. Deadline(t) = Revisit
      BY Config DEF Init, Deadline
    <2> HIDE DEF k
    <2>3. k * Slot \in Nat /\ Dwell + Transition + k * Slot <= Revisit
      BY <2>1, RoundFits
    <2>4. Boundary + Transition + k * Slot <= Deadline(t)
      BY <1>6, <2>2, <2>3, Config
    <2> QED
      BY <2>4 DEF k
  <1>10. OneAckEach
    <2>1. PendingTargets = {} /\ Cardinality({}) = 0
      BY FS_EmptySet DEF Init, PendingTargets, Occupied, NoFeedback
    <2>2. \A s \in Sequence : {t \in Targets : pending[t].sequence = s} = {}
      BY Config DEF Init, NoFeedback, Sequence
    <2>3. \A s \in Sequence : {i \in DOMAIN acks : acks[i].sequence = s} = {}
      BY DEF Init
    <2>4. Len(acks) = 0 /\ \A s \in Sequence : accepted[s] = 0 /\ taken[s] = 0
      BY DEF Init
    <2>5. ASSUME NEW s \in Sequence
          PROVE  accepted[s] = Cardinality({t \in Targets : pending[t].sequence = s})
                               + Cardinality({i \in DOMAIN acks : acks[i].sequence = s}) + taken[s]
      <3>1. Cardinality({t \in Targets : pending[t].sequence = s}) = 0
        BY <2>1, <2>2
      <3>2. Cardinality({i \in DOMAIN acks : acks[i].sequence = s}) = 0
        BY <2>1, <2>3
      <3> QED
        BY <2>4, <3>1, <3>2
    <2>6. Len(acks) + Cardinality(PendingTargets) <= AckCapacity
      BY <2>1, <2>4, Config
    <2> QED
      BY <2>5, <2>6 DEF OneAckEach
  <1> QED
    BY <1>3, <1>4, <1>5, <1>7, <1>8, <1>9, <1>10 DEF IndInv

\* What depends on the schedule alone.
LEMMA ScheduleFrame ==
    ASSUME IndInv, UNCHANGED schedule
    PROVE  TableInv' /\ SelectionInv' /\ DeadlineInv'
  BY DEF IndInv, schedule, TableInv, SelectionInv, DeadlineInv, ScanEnd, MaxVisits, MinDwell,
         Boundary, Visit, Eligible, Feasible, Deadline, Turn, Turns, Before

\* The policy is stopped: all pending feedback is answered.
LEMMA StopInd ==
    ASSUME IndInv, Stop
    PROVE  IndInv'
  <1> USE DEF IndInv
  <1>1. /\ acks' = acks \o TerminalAcks(PendingTargets, [t \in Targets |-> "CANCELLED"])
        /\ pending' = [t \in Targets |-> NoFeedback] /\ stopped' = TRUE
        /\ UNCHANGED <<schedule, mailbox, last_now, active, output_index, taken>>
    BY DEF Stop
  <1>2. [t \in Targets |-> "CANCELLED"] \in [Targets -> Results]
    BY DEF Results
  <1>3. AcksInv' /\ OneAckEach'
    BY <1>1, <1>2, AnsweredAll DEF mailbox
  <1>4. TableInv' /\ SelectionInv' /\ DeadlineInv'
    BY <1>1, ScheduleFrame
  <1>5. WindowInv'
    BY <1>1 DEF WindowInv, mailbox
  <1>6. TypeOK'
    <2>1. NoFeedback \in [sequence : 0 .. MaxSequence, valid_end : Counter,
                          received : Counter, outcome : Outcome]
      BY Config DEF NoFeedback, Outcome, Counter
    <2>2. pending' \in [Targets -> [sequence : 0 .. MaxSequence, valid_end : Counter,
                                    received : Counter, outcome : Outcome]]
      BY <1>1, <2>1
    <2>3. stopped' \in BOOLEAN
      BY <1>1
    <2> QED
      BY <1>1, <2>2, <2>3 DEF TypeOK, schedule, mailbox, MaxVisits
  <1> QED
    BY <1>3, <1>4, <1>5, <1>6

\* A queue of one receipt.
LEMMA ReceiptsOfOne ==
    ASSUME NEW x \in Receipt, NEW s
    PROVE  <<x>> \in Seq(Receipt)
           /\ Cardinality(Receipts(<<x>>, s)) = IF x.sequence = s THEN 1 ELSE 0
  <1>1. DOMAIN <<x>> = {1} /\ <<x>>[1] = x /\ <<x>> \in Seq(Receipt)
    OBVIOUS
  <1>2. CASE x.sequence = s
    <2>1. Receipts(<<x>>, s) = {1}
      BY <1>1, <1>2 DEF Receipts
    <2> QED
      BY <1>1, <1>2, <2>1, FS_Singleton
  <1>3. CASE x.sequence # s
    <2>1. Receipts(<<x>>, s) = {}
      BY <1>1, <1>3 DEF Receipts
    <2> QED
      BY <1>1, <1>3, <2>1, FS_EmptySet
  <1> QED
    BY <1>2, <1>3

\* A client takes the oldest receipt: it gets the one that was queued.
LEMMA TakeAckInd ==
    ASSUME IndInv, TakeAck
    PROVE  IndInv'
  <1> USE DEF IndInv
  <1> DEFINE h == Head(acks)
  <1>1. /\ acks \in Seq(Receipt) /\ acks # <<>> /\ acks' = Tail(acks)
        /\ UNCHANGED <<schedule, mailbox, last_now, active, pending, stopped, output_index>>
    BY DEF TakeAck, AcksInv
  <1>2. /\ h \in Receipt /\ Tail(acks) \in Seq(Receipt) /\ acks = <<h>> \o Tail(acks)
        /\ Len(acks) \in Nat /\ Len(Tail(acks)) = Len(acks) - 1
    BY <1>1
  <1>3. taken' = [taken EXCEPT ![h.sequence] = @ + 1]
    BY <1>2, AckRoundTrip DEF TakeAck, OldestAck
  <1>4. h.sequence \in Sequence
    BY <1>2 DEF Receipt
  <1> HIDE DEF h
  <1>5. /\ taken' \in [Sequence -> Nat]
        /\ \A s \in Sequence : taken'[s] = taken[s] + (IF h.sequence = s THEN 1 ELSE 0)
    BY <1>3, <1>4 DEF TypeOK
  <1>6. AcksInv'
    BY <1>1, <1>2 DEF AcksInv
  <1>7. OneAckEach'
    <2>1. PendingTargets' = PendingTargets
      BY <1>1 DEF PendingTargets, Occupied
    <2>2. Len(acks') + Cardinality(PendingTargets') <= AckCapacity
      <3>1. Cardinality(PendingTargets) \in Nat
        BY Config, FS_Subset, FS_CardinalityType DEF PendingTargets
      <3>2. Len(acks) + Cardinality(PendingTargets) <= AckCapacity
        BY DEF OneAckEach
      <3> QED
        BY <1>1, <1>2, <2>1, <3>1, <3>2, Config
    <2>3. ASSUME NEW s \in Sequence
          PROVE  accepted'[s] = Cardinality(Waiting(s)') + Cardinality(Receipts(acks', s)) + taken'[s]
      <3>1. accepted[s] = Cardinality(Waiting(s)) + Cardinality(Receipts(acks, s)) + taken[s]
        BY DEF OneAckEach, Waiting, Receipts
      <3>2. Waiting(s)' = Waiting(s) /\ accepted' = accepted
        BY <1>1 DEF Waiting, mailbox
      <3>3. Cardinality(Waiting(s)) \in Nat
        BY Config, FS_Subset, FS_CardinalityType DEF Waiting
      <3>4. /\ <<h>> \in Seq(Receipt)
            /\ Cardinality(Receipts(<<h>>, s)) = IF h.sequence = s THEN 1 ELSE 0
        BY <1>2, ReceiptsOfOne
      <3>5. /\ Cardinality(Receipts(Tail(acks), s)) \in Nat
            /\ Cardinality(Receipts(<<h>> \o Tail(acks), s))
                 = Cardinality(Receipts(<<h>>, s)) + Cardinality(Receipts(Tail(acks), s))
        BY <1>2, <3>4, ReceiptsOfBoth
      <3>6. Cardinality(Receipts(acks, s))
              = (IF h.sequence = s THEN 1 ELSE 0) + Cardinality(Receipts(Tail(acks), s))
        BY <1>2, <3>4, <3>5
      <3>7. taken[s] \in Nat /\ taken'[s] = taken[s] + (IF h.sequence = s THEN 1 ELSE 0)
        BY <1>5 DEF TypeOK
      <3> QED
        BY <1>1, <3>1, <3>2, <3>3, <3>5, <3>6, <3>7
    <2> QED
      BY <2>2, <2>3 DEF OneAckEach, Waiting, Receipts
  <1>8. TableInv' /\ SelectionInv' /\ DeadlineInv'
    BY <1>1, ScheduleFrame
  <1>9. WindowInv'
    BY <1>1 DEF WindowInv, mailbox
  <1>10. TypeOK'
    BY <1>1, <1>5 DEF TypeOK, schedule, mailbox, MaxVisits
  <1> QED
    BY <1>6, <1>7, <1>8, <1>9, <1>10

\* A visit is finished: the schedule stays.
LEMMA FinishVisitInd ==
    ASSUME IndInv, NEW intact \in BOOLEAN, FinishVisit(intact)
    PROVE  IndInv'
  <1> USE DEF IndInv
  <1> DEFINE i == output_index % MaxVisits(mode)
             x == [visits[i] EXCEPT !.finished = TRUE, !.intact = intact]
  <1>1. /\ output_index < visit_count /\ output_index' = output_index + 1
        /\ visits' = [visits EXCEPT ![i] = x]
        /\ UNCHANGED <<mailbox, mode, visit_count, last_start, selection, selected,
                       ontime, last_now, active, pending, acks, stopped, taken>>
    BY DEF FinishVisit
  <1>2. i \in 0 .. MaxVisits(mode) - 1
    <2>1. output_index \in Nat /\ mode \in Modes
      BY DEF TypeOK
    <2> QED
      BY <2>1, TableSize
  <1> HIDE DEF i
  <1>3. visits[i] \in [start : Counter, end : Counter, target : Targets,
                       finished : BOOLEAN, intact : BOOLEAN]
    BY <1>2 DEF TypeOK
  <1>4. /\ x \in [start : Counter, end : Counter, target : Targets,
                  finished : BOOLEAN, intact : BOOLEAN]
        /\ x.end = visits[i].end /\ x.start = visits[i].start
    BY <1>3
  <1> HIDE DEF x
  <1>5. TypeOK'
    <2>1. visits' \in [0 .. MaxVisits(mode) - 1 ->
                         [start : Counter, end : Counter, target : Targets,
                          finished : BOOLEAN, intact : BOOLEAN]]
      BY <1>1, <1>4 DEF TypeOK
    <2>2. output_index' \in 0 .. visit_count'
      BY <1>1 DEF TypeOK
    <2> QED
      BY <1>1, <2>1, <2>2 DEF TypeOK, mailbox, MaxVisits
  <1>6. DOMAIN visits = 0 .. MaxVisits(mode) - 1 /\ DOMAIN visits' = DOMAIN visits
        /\ \A j \in DOMAIN visits : visits'[j].end = visits[j].end /\ visits'[j].start = visits[j].start
    BY <1>1, <1>2, <1>4 DEF TypeOK
  <1>7. Boundary' = Boundary /\ MaxVisits(mode)' = MaxVisits(mode)
        /\ ScanEnd' = ScanEnd /\ MinDwell' = MinDwell
    <2>1. MaxVisits(mode)' = MaxVisits(mode) /\ ScanEnd' = ScanEnd /\ MinDwell' = MinDwell
      BY <1>1 DEF MaxVisits, ScanEnd, MinDwell
    <2>2. visit_count # 0 => visit_count - 1 \in Nat
      BY DEF TypeOK
    <2>3. visit_count # 0 => (visit_count - 1) % MaxVisits(mode) \in DOMAIN visits
      BY <1>6, <2>2, TableSize DEF TypeOK
    <2> QED
      BY <1>1, <1>6, <2>1, <2>3 DEF Boundary, Visit
  <1>8. TableInv'
    <2>1. mode # "continuous" => \A v \in 0 .. visit_count - 1 : v \in DOMAIN visits
      <3>1. mode # "continuous" => visit_count <= MaxVisits(mode)
        BY TableSize DEF TableInv, TypeOK
      <3> QED
        BY <1>6, <3>1, TableSize DEF TypeOK
    <2> QED
      BY <1>1, <1>6, <1>7, <2>1 DEF TableInv
  <1>9. \A now : Eligible(now)' = Eligible(now)
    BY <1>1 DEF Eligible, Feasible, Deadline, Turn
  <1>10. SelectionInv'
    BY <1>1, <1>7, <1>9 DEF SelectionInv
  <1>11. DeadlineInv'
    BY <1>1, <1>7 DEF DeadlineInv, Turns, Turn, Before, Deadline
  <1>12. WindowInv' /\ AcksInv' /\ OneAckEach'
    BY <1>1 DEF WindowInv, AcksInv, OneAckEach, mailbox, PendingTargets, Occupied
  <1> QED
    BY <1>5, <1>8, <1>10, <1>11, <1>12

\* Feedback is accepted: it waits for a selection and what waited before is answered.
LEMMA FeedbackInd ==
    ASSUME IndInv, mode # "continuous", NEW f \in Message, f.visit < visit_count,
           NEW now \in last_now .. Boundary + MaxLate, Feedback(f, now)
    PROVE  IndInv'
  <1> USE DEF IndInv
  <1> DEFINE t == f.target
             n == f.sequence
             high == IF n > highest_sequence THEN n ELSE highest_sequence
             x == [sequence |-> n, valid_end |-> visits[f.visit].end,
                   received |-> now, outcome |-> f.outcome]
  <1>1. /\ FeedbackResult(f, now) = "ACCEPTED"
        /\ acks' = IF Occupied(t) THEN Append(acks, Ack(t, "SUPERSEDED")) ELSE acks
        /\ highest_sequence' = high
        /\ seen' = Remembered(high, seen \cup {n})
        /\ channel_sequence' = [channel_sequence EXCEPT ![t] = n]
        /\ pending' = [pending EXCEPT ![t] = x]
        /\ last_now' = now
        /\ accepted' = [accepted EXCEPT ![n] = @ + 1]
        /\ UNCHANGED <<schedule, active, stopped, output_index, taken>>
    BY DEF Feedback
  <1>2. /\ t \in Targets /\ n \in Sequence /\ f.visit \in Nat /\ f.outcome \in Outcome
    BY DEF Message
  <1>3. n \in Nat \ {0} /\ n <= MaxSequence /\ highest_sequence \in Nat
        /\ highest_sequence <= MaxSequence
    BY <1>2, Config DEF Sequence, TypeOK
  <1>4. highest_sequence - n < Window /\ n \notin seen /\ ~MailboxFull
    <2> DEFINE v == visits[f.visit]
    <2>1. /\ ~(highest_sequence - n >= Window) /\ n \notin seen /\ ~MailboxFull
      BY <1>1 DEF FeedbackResult
    <2> QED
      BY <1>3, <2>1, Config
  <1>5. high \in Nat /\ high <= MaxSequence /\ highest_sequence <= high /\ n <= high
    BY <1>3
  <1> HIDE DEF high, t, n
  <1>6. WindowInv'
    <2> SUFFICES ASSUME NEW s \in Sequence
                 PROVE  /\ accepted'[s] <= 1
                        /\ s \notin seen' /\ high - s < Window => accepted'[s] = 0
      BY <1>1 DEF WindowInv
    <2>1. s \in Nat /\ accepted[s] \in Nat /\ accepted[s] <= 1
      BY Config DEF Sequence, TypeOK, WindowInv
    <2>2. accepted'[s] = IF s = n THEN accepted[n] + 1 ELSE accepted[s]
      BY <1>1, <1>2 DEF TypeOK
    <2>3. accepted[n] = 0
      BY <1>2, <1>4 DEF WindowInv
    <2>4. accepted'[s] <= 1
      BY <2>1, <2>2, <2>3
    <2>5. ASSUME s \notin seen', high - s < Window PROVE accepted'[s] = 0
      <3>1. s \notin seen \cup {n}
        BY <1>1, <2>5 DEF Remembered
      <3>2. highest_sequence - s < Window
        BY <1>3, <1>5, <2>1, <2>5, Config
      <3>3. accepted[s] = 0
        BY <3>1, <3>2 DEF WindowInv
      <3> QED
        BY <2>2, <3>1, <3>3
    <2> QED
      BY <2>4, <2>5
  <1>7. TableInv' /\ SelectionInv' /\ DeadlineInv'
    BY <1>1, ScheduleFrame
  <1>8. x \in [sequence : 0 .. MaxSequence, valid_end : Counter, received : Counter,
               outcome : Outcome]
        /\ x.sequence = n /\ now \in Counter
    <2>1. n \in 0 .. MaxSequence
      BY <1>3, Config
    <2>2. visits[f.visit].end \in Counter
      <3>1. visit_count <= MaxVisits(mode)
        BY TableSize DEF TableInv, TypeOK
      <3>2. f.visit \in 0 .. MaxVisits(mode) - 1
        <4>1. visit_count \in Nat /\ MaxVisits(mode) \in Nat
          BY TableSize DEF TypeOK
        <4> QED
          BY <1>2, <3>1, <4>1
      <3> QED
        BY <3>2 DEF TypeOK
    <2>3. now \in Counter
      <3>1. Boundary \in Nat /\ Boundary <= Horizon + Duration
        <4>1. mode \in Modes
          BY DEF TypeOK
        <4>2. ScanEnd \in {Horizon, Duration}
          BY <4>1, TableSize
        <4> QED
          BY <4>2, BoundaryType, Config
      <3>2. last_now \in Nat
        BY Config DEF TypeOK, Counter
      <3> QED
        BY <3>1, <3>2, Config DEF Counter
    <2> QED
      BY <1>2, <2>1, <2>2, <2>3
  <1> HIDE DEF x
  <1>9. TypeOK'
    <2>1. pending' \in [Targets -> [sequence : 0 .. MaxSequence, valid_end : Counter,
                                    received : Counter, outcome : Outcome]]
      BY <1>1, <1>8 DEF TypeOK
    <2>2. channel_sequence' \in [Targets -> 0 .. highest_sequence']
      <3>1. \A k \in 0 .. highest_sequence : k \in 0 .. high
        BY <1>3, <1>5
      <3>2. n \in 0 .. high
        BY <1>3, <1>5
      <3> QED
        BY <1>1, <3>1, <3>2 DEF TypeOK
    <2>3. seen' \subseteq {s \in Sequence : /\ s <= highest_sequence'
                                            /\ highest_sequence' - s < Window}
      <3>1. \A s \in seen \cup {n} : s \in Sequence /\ s <= high
        BY <1>2, <1>3, <1>5, Config DEF TypeOK, Sequence
      <3> QED
        BY <1>1, <3>1 DEF Remembered
    <2>4. highest_sequence' \in 0 .. MaxSequence /\ last_now' \in Counter
      BY <1>1, <1>3, <1>5, <1>8
    <2>5. accepted' \in [Sequence -> Nat]
      BY <1>1, <1>2 DEF TypeOK
    <2> QED
      BY <1>1, <2>1, <2>2, <2>3, <2>4, <2>5 DEF TypeOK, schedule, MaxVisits
  <1>10. AcksInv'
    <2>1. ASSUME Occupied(t) PROVE acks' \in Seq(Receipt)
      <3>1. Ack(t, "SUPERSEDED") \in Receipt
        BY <1>2, <2>1, AckIsReceipt DEF Results
      <3> QED
        BY <1>1, <2>1, <3>1 DEF AcksInv
    <2> QED
      BY <1>1, <2>1 DEF AcksInv
  <1>11. OneAckEach'
    <2>1. /\ pending'[t] = x /\ \A u \in Targets \ {t} : pending'[u] = pending[u]
          /\ pending[t].sequence \in Nat
      BY <1>1, <1>2 DEF TypeOK
    <2>2. Len(acks') + Cardinality(PendingTargets') <= AckCapacity
      <3>1. PendingTargets' = PendingTargets \cup {t}
        BY <1>2, <1>3, <1>8, <2>1 DEF PendingTargets, Occupied
      <3>2. IsFiniteSet(PendingTargets) /\ Cardinality(PendingTargets) \in Nat
        BY Config, FS_Subset, FS_CardinalityType DEF PendingTargets
      <3>3. Cardinality(PendingTargets')
              = IF t \in PendingTargets THEN Cardinality(PendingTargets)
                ELSE Cardinality(PendingTargets) + 1
        BY <3>1, <3>2, FS_AddElement
      <3>4. t \in PendingTargets <=> Occupied(t)
        BY <1>2 DEF PendingTargets
      <3>5. Len(acks) \in Nat /\ Len(acks') = IF Occupied(t) THEN Len(acks) + 1 ELSE Len(acks)
        BY <1>1 DEF AcksInv
      <3>6. Len(acks) + Cardinality(PendingTargets) < AckCapacity
        BY <1>4, <3>2, <3>5, Config DEF MailboxFull
      <3> QED
        BY <3>2, <3>3, <3>4, <3>5, <3>6, Config
    <2>3. ASSUME NEW s \in Sequence
          PROVE  accepted'[s] = Cardinality(Waiting(s)') + Cardinality(Receipts(acks', s)) + taken'[s]
      <3> DEFINE w == Cardinality(Waiting(s))
                 r == Cardinality(Receipts(acks, s))
                 old == IF pending[t].sequence = s THEN 1 ELSE 0
                 new == IF n = s THEN 1 ELSE 0
      <3>1. accepted[s] = w + r + taken[s] /\ taken[s] \in Nat /\ taken' = taken
        BY <1>1 DEF OneAckEach, Waiting, Receipts, TypeOK
      <3>2. accepted'[s] = accepted[s] + new
        BY <1>1, <1>2 DEF TypeOK
      <3>3. /\ IsFiniteSet(Waiting(s)) /\ IsFiniteSet(Waiting(s)') /\ w \in Nat
            /\ Cardinality(Waiting(s)') \in Nat
        BY Config, FS_Subset, FS_CardinalityType DEF Waiting
      <3>4. Cardinality(Waiting(s)') = w - old + new
        <4>1. /\ t \in Waiting(s) <=> pending[t].sequence = s
              /\ t \in Waiting(s)' <=> n = s
          BY <1>2, <1>8, <2>1 DEF Waiting
        <4>2. Waiting(s) \ {t} = Waiting(s)' \ {t}
          BY <2>1 DEF Waiting
        <4>3. Cardinality(Waiting(s) \ {t}) = w - old
          <5>1. Cardinality(Waiting(s) \ {t})
                  = IF t \in Waiting(s) THEN Cardinality(Waiting(s)) - 1 ELSE Cardinality(Waiting(s))
            BY <3>3, FS_RemoveElement
          <5> QED
            BY <3>3, <4>1, <5>1
        <4>4. Cardinality(Waiting(s)' \ {t}) = Cardinality(Waiting(s)') - new
          <5>1. Cardinality(Waiting(s)' \ {t})
                  = IF t \in Waiting(s)' THEN Cardinality(Waiting(s)') - 1
                    ELSE Cardinality(Waiting(s)')
            BY <3>3, FS_RemoveElement
          <5> QED
            BY <3>3, <4>1, <5>1
        <4>5. w - old = Cardinality(Waiting(s)') - new
          BY <4>2, <4>3, <4>4
        <4> QED
          BY <3>3, <4>5
      <3>5. r \in Nat /\ Cardinality(Receipts(acks', s)) = r + old
        <4>1. CASE Occupied(t)
          <5> DEFINE a == Ack(t, "SUPERSEDED")
          <5>1. a \in Receipt /\ a.sequence = pending[t].sequence
            BY <1>2, <4>1, AckIsReceipt DEF Results
          <5>2. acks \in Seq(Receipt) /\ acks' = Append(acks, a)
            BY <1>1, <4>1 DEF AcksInv
          <5> HIDE DEF a
          <5>3. acks' = acks \o <<a>>
            BY <5>1, <5>2
          <5>4. <<a>> \in Seq(Receipt) /\ Cardinality(Receipts(<<a>>, s)) = old
            BY <5>1, ReceiptsOfOne
          <5>5. /\ r \in Nat /\ Cardinality(Receipts(<<a>>, s)) \in Nat
                /\ Cardinality(Receipts(acks \o <<a>>, s)) = r + Cardinality(Receipts(<<a>>, s))
            BY <5>2, <5>4, ReceiptsOfBoth
          <5> HIDE DEF old, r
          <5> QED
            BY <5>3, <5>4, <5>5
        <4>2. CASE ~Occupied(t)
          <5>1. acks' = acks /\ acks \in Seq(Receipt) /\ <<>> \in Seq(Receipt)
            BY <1>1, <4>2 DEF AcksInv
          <5>2. old = 0
            BY <4>2, Config DEF Occupied, Sequence
          <5>3. r \in Nat
            BY <5>1, ReceiptsOfBoth
          <5> QED
            BY <5>1, <5>2, <5>3
        <4> QED
          BY <4>1, <4>2
      <3> HIDE DEF w, r
      <3> QED
        BY <3>1, <3>2, <3>3, <3>4, <3>5
    <2> QED
      BY <2>2, <2>3 DEF OneAckEach, Waiting, Receipts
  <1> QED
    BY <1>6, <1>7, <1>9, <1>10, <1>11

\* A client's feedback reaches the policy as it was sent.
LEMMA SubmitInd ==
    ASSUME IndInv, mode # "continuous", NEW n \in Sequence, NEW v \in 0 .. output_index - 1,
           NEW t \in Targets, NEW o \in Outcomes, SubmitFeedback(FeedbackMessage(n, v, t, o))
    PROVE  IndInv'
  <1> USE DEF IndInv
  <1> DEFINE f == [session |-> Session, sequence |-> n, visit |-> v,
                   valid_start |-> visits[v].start, valid_end |-> visits[v].end,
                   target |-> t, outcome |-> o, digest |-> Digest]
  <1>1. v \in Nat /\ v < visit_count /\ v \in 0 .. visit_count - 1
    BY DEF TypeOK
  <1>2. v \in 0 .. MaxVisits(mode) - 1
    <2>1. visit_count \in Nat /\ MaxVisits(mode) \in Nat
      BY TableSize DEF TypeOK
    <2>2. visit_count <= MaxVisits(mode)
      BY <2>1 DEF TableInv
    <2> QED
      BY <1>1, <2>1, <2>2
  <1>3. visits[v].start \in Nat /\ visits[v].end \in Nat /\ visits[v].start < visits[v].end
    <2>1. visits[v].start \in Counter /\ visits[v].end \in Counter
      BY <1>2 DEF TypeOK
    <2>2. visits[v].start < visits[v].end
      BY <1>1 DEF TableInv
    <2> QED
      BY <2>1, <2>2 DEF Counter
  <1>4. o \in Outcome
    BY DEF Outcomes, Outcome
  <1>5. f \in Message /\ f.visit = v
    BY <1>1, <1>3, <1>4 DEF Message, Session, Digest
  <1>6. FeedbackValidate(f)
    <2>1. t < WireTargets /\ n > 0
      BY Config DEF Targets, Sequence, WireTargets
    <2> QED
      BY <1>3, <1>4, <2>1 DEF FeedbackValidate, Session, Digest, Outcome
  <1>7. FeedbackMessage(n, v, t, o) = FeedbackEncode(f).value
    BY DEF FeedbackMessage
  <1> HIDE DEF f
  <1>8. FeedbackDecode(FeedbackMessage(n, v, t, o)) = Good(f)
    BY <1>5, <1>6, <1>7, FeedbackRoundTrip
  <1>9. ScanFeedback(f)
    BY <1>8 DEF SubmitFeedback, Good
  <1>10. PICK now \in last_now .. Boundary + MaxLate : Feedback(f, now)
    BY <1>9 DEF ScanFeedback
  <1> QED
    BY <1>1, <1>5, <1>10, FeedbackInd

\* Feedback is applied or expires; activity stays a flag of each target.
LEMMA Consumed ==
    ASSUME IndInv, NEW now, ConsumeFeedback(now), UNCHANGED <<accepted, taken>>
    PROVE  /\ AcksInv' /\ OneAckEach' /\ active' \in [Targets -> BOOLEAN]
           /\ pending' \in [Targets -> [sequence : 0 .. MaxSequence, valid_end : Counter,
                                        received : Counter, outcome : Outcome]]
  <1>1. [t \in Targets |-> Application(t, now)] \in [Targets -> Results]
    BY DEF Application, Results
  <1>2. AcksInv' /\ OneAckEach'
    BY <1>1, AnsweredAll DEF ConsumeFeedback
  <1>3. active' \in [Targets -> BOOLEAN]
    BY DEF ConsumeFeedback, Activity, IndInv, TypeOK
  <1>4. NoFeedback \in [sequence : 0 .. MaxSequence, valid_end : Counter,
                        received : Counter, outcome : Outcome]
    BY Config DEF NoFeedback, Outcome, Counter
  <1> QED
    BY <1>2, <1>3, <1>4 DEF ConsumeFeedback

\* What an answer of spf_scan_policy_select says.
LEMMA SelectOK ==
    ASSUME IndInv, NEW now \in SnapshotTimes, SelectResult(now) = "OK"
    PROVE  /\ now \in Nat /\ now >= Boundary /\ now \in Counter /\ ~selected
           /\ now + MinDwell + Transition <= ScanEnd
           /\ mode # "continuous" => visit_count + 1 <= MaxVisits(mode)
           /\ Eligible(now) \subseteq Targets
  <1> USE DEF IndInv
  <1>1. /\ ~selected /\ ~(now < last_now) /\ ~(now < Boundary)
        /\ ~(ScanEnd - now < MinDwell + Transition)
        /\ ~(mode # "continuous" /\ visit_count >= MaxVisits(mode))
    BY DEF SelectResult
  <1>2. /\ Boundary \in Nat /\ last_now \in Nat /\ ScanEnd \in Nat /\ MinDwell \in Nat
        /\ Transition \in Nat /\ MaxLate \in Nat /\ ScanEnd \in {Horizon, Duration}
    <2>1. mode \in Modes /\ last_now \in Counter
      BY DEF TypeOK
    <2>2. last_now \in Nat
      BY <2>1 DEF Counter
    <2>3. ScanEnd \in Nat /\ MinDwell \in Nat /\ ScanEnd \in {Horizon, Duration}
      BY <2>1, TableSize
    <2> QED
      BY <2>2, <2>3, BoundaryType, Config
  <1>3. now \in Nat
    BY <1>2 DEF SnapshotTimes
  <1>4. now + MinDwell + Transition <= ScanEnd /\ now >= Boundary
    BY <1>1, <1>2, <1>3
  <1>5. now \in Counter
    BY <1>2, <1>3, <1>4, Config DEF Counter
  <1>6. mode # "continuous" => visit_count + 1 <= MaxVisits(mode)
    <2>1. visit_count \in Nat /\ MaxVisits(mode) \in Nat
      BY TableSize DEF TypeOK
    <2> QED
      BY <1>1, <2>1
  <1>7. Turn \in Targets
    BY Config, Division DEF TypeOK, Turn, Targets
  <1> QED
    BY <1>1, <1>3, <1>4, <1>5, <1>6, <1>7 DEF Eligible

\* The draw does not fit the scan any more.
LEMMA SelectExhaustedInd ==
    ASSUME IndInv, NEW now \in SnapshotTimes, NEW t \in Targets, SelectExhausted(now, t)
    PROVE  IndInv'
  <1> USE DEF IndInv
  <1>1. /\ ConsumeFeedback(now) /\ stopped' = TRUE
        /\ UNCHANGED <<schedule, mailbox, last_now, output_index, taken>>
    BY DEF SelectExhausted
  <1>2. /\ AcksInv' /\ OneAckEach' /\ active' \in [Targets -> BOOLEAN]
        /\ pending' \in [Targets -> [sequence : 0 .. MaxSequence, valid_end : Counter,
                                     received : Counter, outcome : Outcome]]
    BY <1>1, Consumed DEF mailbox
  <1>3. TableInv' /\ SelectionInv' /\ DeadlineInv'
    BY <1>1, ScheduleFrame
  <1>4. WindowInv'
    BY <1>1 DEF WindowInv, mailbox
  <1>5. stopped' \in BOOLEAN
    BY <1>1
  <1>6. TypeOK'
    BY <1>1, <1>2, <1>5 DEF TypeOK, schedule, mailbox, MaxVisits
  <1> QED
    BY <1>2, <1>3, <1>4, <1>6

\* A target is selected.
LEMMA SelectInd ==
    ASSUME IndInv, NEW now \in SnapshotTimes, NEW t \in Targets, Select(now, t)
    PROVE  IndInv'
  <1> USE DEF IndInv
  <1> DEFINE dwell == SelectedDwell(t)
             x == [target |-> t, counter |-> now, dwell |-> dwell]
  <1>1. /\ SelectResult(now) = "OK" /\ t \in Eligible(now) /\ ConsumeFeedback(now)
        /\ ScanEnd - now >= dwell + Transition
        /\ selection' = x /\ selected' = TRUE /\ last_now' = now
        /\ ontime' = (ontime /\ now = Boundary)
        /\ UNCHANGED <<mailbox, mode, visits, visit_count, last_start, stopped,
                       output_index, taken>>
    BY DEF Select
  <1>2. /\ now \in Nat /\ now >= Boundary /\ now \in Counter /\ ~selected
        /\ mode # "continuous" => visit_count + 1 <= MaxVisits(mode)
    BY <1>1, SelectOK
  <1>3. /\ AcksInv' /\ OneAckEach' /\ active' \in [Targets -> BOOLEAN]
        /\ pending' \in [Targets -> [sequence : 0 .. MaxSequence, valid_end : Counter,
                                     received : Counter, outcome : Outcome]]
    BY <1>1, Consumed DEF mailbox
  <1>4. dwell \in Nat /\ MinDwell <= dwell /\ dwell <= Dwell /\ MinDwell \in Nat /\ ScanEnd \in Nat
    <2>1. dwell \in {MinDwell, Dwell}
      BY DEF SelectedDwell, MinDwell
    <2>2. MinDwell \in Nat /\ MinDwell <= Dwell /\ ScanEnd \in Nat
      BY TableSize DEF TypeOK
    <2> HIDE DEF dwell
    <2> QED
      BY <2>1, <2>2, Config
  <1> HIDE DEF dwell
  <1>5. x \in [target : Targets, counter : Counter, dwell : 0 .. Dwell]
        /\ x.target = t /\ x.counter = now /\ x.dwell = dwell
    <2>1. dwell \in 0 .. Dwell
      BY <1>4, Config
    <2> QED
      BY <1>2, <2>1
  <1> HIDE DEF x
  <1>6. TypeOK'
    <2>1. selected' \in BOOLEAN /\ ontime' \in BOOLEAN
      BY <1>1
    <2>2. selection' \in [target : Targets, counter : Counter, dwell : 0 .. Dwell]
          /\ last_now' \in Counter
      BY <1>1, <1>2, <1>5
    <2> QED
      BY <1>1, <1>3, <2>1, <2>2 DEF TypeOK, mailbox, MaxVisits
  <1>7. /\ Boundary' = Boundary /\ MaxVisits(mode)' = MaxVisits(mode)
        /\ ScanEnd' = ScanEnd /\ MinDwell' = MinDwell /\ \A b : Eligible(b)' = Eligible(b)
    BY <1>1 DEF MaxVisits, ScanEnd, MinDwell, Boundary, Visit, Eligible, Feasible, Deadline, Turn
  <1>8. TableInv'
    BY <1>1, <1>2, <1>7 DEF TableInv
  <1>9. SelectionInv'
    <2>1. dwell \in MinDwell .. Dwell /\ now + dwell + Transition <= ScanEnd
      BY <1>1, <1>2, <1>4, Config
    <2>2. ontime' => now = Boundary /\ t \in Eligible(Boundary)
      BY <1>1
    <2> QED
      BY <1>1, <1>2, <1>5, <1>7, <2>1, <2>2 DEF SelectionInv
  <1>10. DeadlineInv'
    BY <1>1, <1>7 DEF DeadlineInv, Turns, Turn, Before, Deadline
  <1>11. WindowInv'
    BY <1>1 DEF WindowInv, mailbox
  <1> QED
    BY <1>3, <1>6, <1>8, <1>9, <1>10, <1>11

-----------------------------------------------------------------------------
(* A visit is committed *)

\* A finite scan: after a visit to a feasible target, within a transition of the
\* boundary, the others are still in time by their deadlines, and so is the target
\* itself, whose deadline is a full round away.
LEMMA LotteryKeepsDeadlines ==
    ASSUME TypeOK, NEW c \in Targets, NEW now \in Nat, Feasible(c, now),
           NEW start \in Nat, start <= now + Transition,
           NEW end \in Nat, end <= start + Dwell,
           last_start' = [last_start EXCEPT ![c] = start], NEW t \in Targets
    PROVE  end + Transition + (Cardinality(Before(t)') - 1) * Slot <= Deadline(t)'
  <1> DEFINE n == Cardinality(Before(t)')
             upTo == {o \in Targets \ {c} : Deadline(o) <= Deadline(t)}
  <1>1. /\ Deadline(c)' = start + Revisit /\ start + Revisit \in Nat
        /\ \A o \in Targets : o # c => Deadline(o)' = Deadline(o)
        /\ \A o \in Targets : Deadline(o) \in Nat
    <2>1. \A o \in Targets : Deadline(o) \in Nat
      BY BeforeCounts
    <2>2. /\ last_start'[c] = start /\ \A o \in Targets : o # c => last_start'[o] = last_start[o]
      BY DEF TypeOK
    <2>3. Deadline(c)' = start + Revisit /\ \A o \in Targets : o # c => Deadline(o)' = Deadline(o)
      BY <2>2 DEF Deadline
    <2> QED
      BY <2>1, <2>3, Config
  <1>2. n \in 1 .. TargetCount
    <2>1. Before(t)' \in SUBSET Targets /\ t \in Before(t)'
      <3>1. Deadline(t)' \in Nat
        BY <1>1
      <3> QED
        BY <3>1 DEF Before
    <2> DEFINE B == Before(t)'
    <2>2. B \in SUBSET Targets /\ t \in B
      BY <2>1
    <2> HIDE DEF B
    <2>3. IsFiniteSet(B) /\ Cardinality(B) <= TargetCount
      BY <2>2, Config, FS_Subset
    <2>4. Cardinality(B) \in Nat /\ Cardinality(B) # 0
      BY <2>2, <2>3, FS_CardinalityType, FS_EmptySet
    <2> QED
      BY <2>3, <2>4, Config DEF B
  <1>3. n - 1 \in Nat /\ (n - 1) * Slot \in Nat /\ n * Slot \in Nat
        /\ n * Slot = (n - 1) * Slot + Slot /\ Slot + (n - 1) * Slot <= Revisit
    <2>1. n \in Nat /\ n - 1 \in Nat /\ n - 1 <= TargetCount - 1
      BY <1>2, Config
    <2> HIDE DEF n
    <2>2. (n - 1) * Slot \in Nat /\ Slot + (n - 1) * Slot <= Revisit
      BY <2>1, RoundFits
    <2>3. (n - 1 + 1) * Slot = (n - 1) * Slot + Slot /\ n - 1 + 1 = n
      BY <2>1, Config, TimesMonotonic
    <2> QED
      BY <2>1, <2>2, <2>3, Config
  <1>4. end + Transition <= start + Slot
    BY Config
  <1>5. CASE t # c /\ ~(start + Revisit <= Deadline(t))
    <2>1. Before(t)' = upTo
      BY <1>1, <1>5 DEF Before
    <2>2. now + Transition + Cardinality(upTo) * Slot <= Deadline(t)
      BY <1>5 DEF Feasible, Slot
    <2>3. now + Transition + n * Slot <= Deadline(t)
      BY <2>1, <2>2
    <2>4. Deadline(t)' = Deadline(t) /\ Deadline(t) \in Nat
      BY <1>1, <1>5
    <2> HIDE DEF n, upTo
    <2>5. end + Transition + (n - 1) * Slot <= Deadline(t)'
      BY <1>3, <1>4, <2>3, <2>4, Config
    <2> QED
      BY <2>5 DEF n
  <1>6. CASE t = c \/ start + Revisit <= Deadline(t)
    <2>1. Deadline(t)' \in Nat /\ start + Revisit <= Deadline(t)'
      BY <1>1, <1>6
    <2> HIDE DEF n
    <2>2. end + Transition + (n - 1) * Slot <= Deadline(t)'
      BY <1>3, <1>4, <2>1, Config
    <2> QED
      BY <2>2 DEF n
  <1> QED
    BY <1>5, <1>6

\* A continuous scan: the turn passes on, and the target visited comes last.
LEMMA TurnKeepsDeadlines ==
    ASSUME TypeOK, NEW now \in Nat,
           \A u \in Targets : now + Transition + Turns(u) * Slot <= Deadline(u),
           NEW start \in Nat, start <= now + Transition,
           NEW end \in Nat, end <= start + Dwell, visit_count' = visit_count + 1,
           last_start' = [last_start EXCEPT ![Turn] = start], NEW t \in Targets
    PROVE  end + Transition + Turns(t)' * Slot <= Deadline(t)'
  <1>1. Turn \in 0 .. TargetCount - 1 /\ Turn' = IF Turn = TargetCount - 1 THEN 0 ELSE Turn + 1
    <2>1. visit_count \in Nat /\ TargetCount \in Nat \ {0}
      BY Config DEF TypeOK
    <2>2. visit_count % TargetCount \in 0 .. TargetCount - 1
      BY <2>1, Division
    <2>3. (visit_count + 1) % TargetCount = IF visit_count % TargetCount = TargetCount - 1
                                            THEN 0 ELSE (visit_count % TargetCount) + 1
      BY <2>1, NextTurn
    <2> QED
      BY <2>2, <2>3 DEF Turn
  <1>2. t \in 0 .. TargetCount - 1 /\ TargetCount \in Nat
    BY Config DEF Targets
  <1>3. end + Transition <= start + Slot /\ end + Transition \in Nat
    BY Config
  <1>4. CASE t = Turn
    <2>1. Turns(t)' = TargetCount - 1
      BY <1>1, <1>2, <1>4 DEF Turns
    <2>2. Deadline(t)' = start + Revisit
      BY <1>4 DEF TypeOK, Deadline
    <2>3. (TargetCount - 1) * Slot \in Nat /\ Slot + (TargetCount - 1) * Slot <= Revisit
      BY Config, RoundFits
    <2> DEFINE m == (TargetCount - 1) * Slot
    <2>4. m \in Nat /\ Slot + m <= Revisit /\ Turns(t)' * Slot = m
      BY <2>1, <2>3
    <2> HIDE DEF m
    <2>5. end + Transition + m <= start + Revisit
      BY <1>3, <2>4, Config
    <2> QED
      BY <2>2, <2>4, <2>5
  <1>5. CASE t # Turn
    <2>1. Turns(t)' = Turns(t) - 1 /\ Turns(t) \in Nat \ {0}
      BY <1>1, <1>2, <1>5 DEF Turns
    <2>2. Deadline(t)' = Deadline(t)
      BY <1>5 DEF TypeOK, Deadline
    <2>3. Deadline(t) \in Nat /\ now + Transition + Turns(t) * Slot <= Deadline(t)
      BY BeforeCounts
    <2> DEFINE k == Turns(t) - 1
    <2>4. k \in Nat /\ Turns(t) = k + 1 /\ Turns(t)' = k
      BY <2>1
    <2> HIDE DEF k
    <2>5. (k + 1) * Slot = k * Slot + Slot /\ k * Slot \in Nat
      BY <2>4, Config, TimesMonotonic
    <2> QED
      BY <1>3, <2>2, <2>3, <2>4, <2>5, Config
  <1> QED
    BY <1>4, <1>5

\* The start of a visit is within the scan, and the next boundary is its end.
LEMMA CommitStart ==
    ASSUME IndInv, NEW start \in CommitStarts, Commit(start)
    PROVE  /\ start \in Nat /\ selection.counter \in Nat /\ selection.dwell \in Nat
           /\ Boundary \in Nat /\ ScanEnd \in Nat /\ MinDwell \in Nat \ {0}
           /\ selection.target \in Targets /\ selection.counter >= Boundary
           /\ MinDwell <= selection.dwell /\ selection.dwell <= Dwell
           /\ start >= selection.counter /\ start + selection.dwell <= ScanEnd
           /\ start \in Counter /\ start + selection.dwell \in Counter
           /\ ontime => /\ selection.counter = Boundary
                        /\ selection.target \in Eligible(Boundary)
  <1> USE DEF IndInv
  <1>1. selection.counter \in Counter /\ selection.target \in Targets
        /\ selection.dwell \in 0 .. Dwell /\ mode \in Modes
    BY DEF TypeOK
  <1>2. selection.counter \in Nat /\ selection.dwell \in Nat /\ selection.dwell <= Dwell
    BY <1>1, Config DEF Counter
  <1>3. /\ selected /\ start >= selection.counter /\ ScanEnd - start >= selection.dwell
    BY DEF Commit
  <1>4. start \in Nat
    BY <1>2, Config DEF CommitStarts
  <1>5. /\ ScanEnd \in Nat /\ MinDwell \in Nat \ {0} /\ ScanEnd \in {Horizon, Duration}
    BY <1>1, TableSize
  <1>6. /\ selection.dwell \in MinDwell .. Dwell /\ selection.counter >= Boundary
        /\ ontime => /\ selection.counter = Boundary
                     /\ selection.target \in Eligible(Boundary)
    BY <1>3 DEF SelectionInv
  <1>7. MinDwell <= selection.dwell
    BY <1>5, <1>6, Config
  <1>8. start + selection.dwell <= ScanEnd
    BY <1>2, <1>3, <1>4, <1>5
  <1>9. start \in Counter /\ start + selection.dwell \in Counter
    BY <1>2, <1>4, <1>5, <1>8, Config DEF Counter
  <1>10. Boundary \in Nat
    BY BoundaryType
  <1> QED
    BY <1>1, <1>2, <1>3, <1>4, <1>5, <1>6, <1>7, <1>8, <1>9, <1>10

\* The selected visit is committed.
LEMMA CommitInd ==
    ASSUME IndInv, NEW start \in CommitStarts, Commit(start)
    PROVE  IndInv'
  <1> USE DEF IndInv
  <1> DEFINE c == selection.target
             dwell == selection.dwell
             i == visit_count % MaxVisits(mode)
             x == [start |-> start, end |-> start + dwell, target |-> c,
                   finished |-> FALSE, intact |-> FALSE]
  <1>1. /\ selected /\ visits' = [visits EXCEPT ![i] = x] /\ visit_count' = visit_count + 1
        /\ last_start' = [last_start EXCEPT ![c] = start]
        /\ selected' = FALSE /\ selection' = NoSelection /\ last_now' = start
        /\ UNCHANGED <<mailbox, mode, active, pending, acks, stopped, output_index, taken>>
    BY DEF Commit
  <1>2. ontime' => ontime /\ start <= selection.counter + Transition
    BY DEF Commit
  <1>3. ontime' \in BOOLEAN /\ selected' \in BOOLEAN
    BY DEF Commit
  <1>4. /\ start \in Nat /\ selection.counter \in Nat /\ dwell \in Nat
        /\ Boundary \in Nat /\ ScanEnd \in Nat /\ MinDwell \in Nat \ {0}
        /\ c \in Targets /\ selection.counter >= Boundary
        /\ MinDwell <= dwell /\ dwell <= Dwell
        /\ start >= selection.counter /\ start + dwell <= ScanEnd
        /\ start \in Counter /\ start + dwell \in Counter
        /\ ontime => selection.counter = Boundary /\ c \in Eligible(Boundary)
    BY CommitStart
  <1> HIDE DEF c, dwell
  <1>5. /\ x \in [start : Counter, end : Counter, target : Targets,
                  finished : BOOLEAN, intact : BOOLEAN]
        /\ x.start = start /\ x.end = start + dwell
    BY <1>4
  <1> HIDE DEF x
  <1>6. /\ i \in 0 .. MaxVisits(mode) - 1 /\ visit_count \in Nat /\ mode \in Modes
        /\ MaxVisits(mode) \in Nat \ {0}
        /\ visit_count < MaxVisits(mode) => i = visit_count
    <2>1. visit_count \in Nat /\ mode \in Modes
      BY DEF TypeOK
    <2> QED
      BY <2>1, TableSize
  <1> HIDE DEF i
  <1>7. /\ visits'[i] = x /\ \A j \in DOMAIN visits : j # i => visits'[j] = visits[j]
        /\ DOMAIN visits' = 0 .. MaxVisits(mode) - 1 /\ DOMAIN visits = DOMAIN visits'
    BY <1>1, <1>6 DEF TypeOK
  <1>8. /\ MaxVisits(mode)' = MaxVisits(mode) /\ ScanEnd' = ScanEnd /\ MinDwell' = MinDwell
    BY <1>1 DEF MaxVisits, ScanEnd, MinDwell
  <1>9. Boundary' = start + dwell
    <2>1. visit_count' # 0 /\ visit_count' - 1 = visit_count
      BY <1>1, <1>6
    <2>2. Boundary' = visits'[visit_count % MaxVisits(mode)].end
      BY <1>1, <1>8, <2>1 DEF Boundary, Visit
    <2> QED
      BY <1>5, <1>7, <2>2 DEF i
  <1>10. TypeOK'
    <2>1. visits' \in [0 .. MaxVisits(mode) - 1 ->
                        [start : Counter, end : Counter, target : Targets,
                         finished : BOOLEAN, intact : BOOLEAN]]
      BY <1>1, <1>5, <1>6 DEF TypeOK
    <2>2. last_start' \in [Targets -> Counter]
      BY <1>1, <1>4 DEF TypeOK
    <2>3. visit_count' \in Nat /\ output_index' \in 0 .. visit_count'
      BY <1>1, <1>6 DEF TypeOK
    <2>4. NoSelection \in [target : Targets, counter : Counter, dwell : 0 .. Dwell]
      <3>1. 0 \in Counter /\ 0 \in Targets /\ 0 \in 0 .. Dwell
        BY Config DEF Counter
      <3> QED
        BY <3>1 DEF NoSelection
    <2>5. selection' \in [target : Targets, counter : Counter, dwell : 0 .. Dwell]
          /\ last_now' \in Counter
      BY <1>1, <1>4, <2>4
    <2> QED
      BY <1>1, <1>3, <1>8, <2>1, <2>2, <2>3, <2>5 DEF TypeOK, mailbox
  <1>11. TableInv'
    <2>1. ASSUME NEW j \in DOMAIN visits' PROVE visits'[j].end <= ScanEnd'
      <3>1. CASE j = i
        BY <1>4, <1>5, <1>7, <1>8, <3>1
      <3>2. CASE j # i
        <4>1. j \in DOMAIN visits /\ visits'[j] = visits[j]
          BY <1>7, <3>2
        <4> QED
          BY <1>8, <4>1 DEF TableInv
      <3> QED
        BY <3>1, <3>2
    <2>2. ASSUME mode # "continuous"
          PROVE  /\ visit_count' <= MaxVisits(mode) /\ visit_count' * MinDwell <= Boundary'
                 /\ \A v \in 0 .. visit_count' - 1 : visits'[v].start < visits'[v].end
      <3>1. /\ visit_count + 1 <= MaxVisits(mode) /\ visit_count * MinDwell <= Boundary
            /\ \A v \in 0 .. visit_count - 1 : visits[v].start < visits[v].end
        BY <1>1, <2>2 DEF TableInv
      <3>2. i = visit_count
        BY <1>6, <3>1
      <3>3. visit_count' * MinDwell <= Boundary'
        <4>1. (visit_count + 1) * MinDwell = visit_count * MinDwell + MinDwell
              /\ visit_count * MinDwell \in Nat
          BY <1>4, <1>6, TimesMonotonic
        <4> QED
          BY <1>1, <1>4, <1>9, <3>1, <4>1
      <3>4. ASSUME NEW v \in 0 .. visit_count' - 1 PROVE visits'[v].start < visits'[v].end
        <4>1. CASE v = i
          BY <1>4, <1>5, <1>7, <4>1
        <4>2. CASE v # i
          <5>1. v \in 0 .. visit_count - 1 /\ v \in DOMAIN visits
            BY <1>1, <1>6, <1>7, <3>1, <3>2, <4>2
          <5> QED
            BY <1>7, <3>1, <4>2, <5>1
        <4> QED
          BY <4>1, <4>2
      <3> QED
        BY <1>1, <3>1, <3>3, <3>4
    <2>3. visit_count' + 0 = visit_count'
      BY <1>1, <1>6
    <2> QED
      BY <1>1, <1>8, <2>1, <2>2, <2>3 DEF TableInv
  <1>12. SelectionInv'
    BY <1>1 DEF SelectionInv
  <1>13. DeadlineInv'
    <2> SUFFICES ASSUME ontime', NEW t \in Targets
                 PROVE  Boundary' + Transition
                          + (IF mode = "continuous" THEN Turns(t)'
                             ELSE Cardinality(Before(t)') - 1) * Slot
                        <= Deadline(t)'
      BY <1>1 DEF DeadlineInv
    <2>1. ontime /\ start <= Boundary + Transition /\ c \in Eligible(Boundary)
      BY <1>2, <1>4
    <2>2. start + dwell \in Nat /\ start + dwell <= start + Dwell
      BY <1>4, Config
    <2>3. CASE mode # "continuous"
      <3>1. Feasible(c, Boundary)
        BY <2>1, <2>3 DEF Eligible
      <3>2. start + dwell + Transition + (Cardinality(Before(t)') - 1) * Slot <= Deadline(t)'
        BY <1>1, <1>4, <2>1, <2>2, <3>1, LotteryKeepsDeadlines
      <3> QED
        BY <1>9, <2>3, <3>2
    <2>4. CASE mode = "continuous"
      <3>1. c = Turn
        BY <2>1, <2>4 DEF Eligible
      <3>2. \A u \in Targets : Boundary + Transition + Turns(u) * Slot <= Deadline(u)
        BY <2>1, <2>4 DEF DeadlineInv
      <3>3. start + dwell + Transition + Turns(t)' * Slot <= Deadline(t)'
        BY <1>1, <1>4, <2>1, <2>2, <3>1, <3>2, TurnKeepsDeadlines
      <3> QED
        BY <1>9, <2>4, <3>3
    <2> QED
      BY <2>3, <2>4
  <1>14. WindowInv' /\ AcksInv'
    BY <1>1 DEF WindowInv, AcksInv, mailbox
  <1>15. OneAckEach'
    BY <1>1 DEF OneAckEach, mailbox, PendingTargets, Occupied
  <1> QED
    BY <1>10, <1>11, <1>12, <1>13, <1>14, <1>15

-----------------------------------------------------------------------------
(* There is always a target to select *)

\* Every set of natural numbers has a least one.
LEMMA LeastNatural ==
    ASSUME NEW T \in SUBSET Nat, T # {}
    PROVE  \E x \in T : \A y \in T : x <= y
  <1> DEFINE R == OpToRel(<, Nat)
  <1>1. IsWellFoundedOn(R, Nat)
    BY NatLessThanWellFounded
  <1>2. \A x, y \in Nat : x < y => <<x, y>> \in R
    BY DEF OpToRel
  <1> HIDE DEF R
  <1>3. PICK x \in T : \A y \in T : ~(<<y, x>> \in R)
    BY <1>1, WFMin
  <1>4. ASSUME NEW y \in T PROVE x <= y
    <2>1. x \in Nat /\ y \in Nat
      OBVIOUS
    <2>2. ~(y < x)
      BY <1>2, <1>3, <2>1
    <2> QED
      BY <2>1, <2>2
  <1> QED
    BY <1>4

\* No deadline has been missed at the boundary, and one of the targets, that of
\* the least deadline or the one whose turn it is, can be visited next.
LEMMA SomeTargetEligible ==
    ASSUME IndInv, ontime
    PROVE  /\ Eligible(Boundary) # {}
           /\ \A t \in Targets : Boundary + Transition <= Deadline(t)
  <1> USE DEF IndInv
  <1>1. Boundary \in Nat /\ Transition \in Nat /\ Slot \in Nat
    BY BoundaryType, Config
  <1> DEFINE K(t) == IF mode = "continuous" THEN Turns(t) ELSE Cardinality(Before(t)) - 1
  <1>2. ASSUME NEW t \in Targets
        PROVE  /\ K(t) \in Nat /\ K(t) * Slot \in Nat /\ Deadline(t) \in Nat
               /\ Boundary + Transition + K(t) * Slot <= Deadline(t)
    <2>1. /\ Turns(t) \in 0 .. TargetCount - 1 /\ Cardinality(Before(t)) \in 1 .. TargetCount
          /\ Deadline(t) \in Nat
      BY BeforeCounts
    <2>2. K(t) \in Nat
      BY <2>1, Config
    <2>3. Boundary + Transition + K(t) * Slot <= Deadline(t)
      BY DEF DeadlineInv
    <2> HIDE DEF K
    <2> QED
      BY <1>1, <2>1, <2>2, <2>3
  <1>3. ASSUME NEW t \in Targets PROVE Boundary + Transition <= Deadline(t)
    <2> DEFINE m == K(t) * Slot
    <2>1. m \in Nat /\ Deadline(t) \in Nat /\ Boundary + Transition + m <= Deadline(t)
      BY <1>2
    <2> HIDE DEF m
    <2> QED
      BY <1>1, <2>1
  <1>4. CASE mode = "continuous"
    <2>1. Turn \in Targets
      BY Config, Division DEF TypeOK, Turn, Targets
    <2>2. Turn \in {t \in {Turn} : Boundary + Transition <= Deadline(t)}
      BY <1>3, <2>1
    <2> QED
      BY <1>3, <1>4, <2>2 DEF Eligible
  <1>5. CASE mode # "continuous"
    <2> DEFINE DD == {Deadline(t) : t \in Targets}
    <2>1. DD \in SUBSET Nat /\ DD # {}
      BY <1>2, Config
    <2>2. PICK d \in DD : \A e \in DD : d <= e
      BY <2>1, LeastNatural
    <2>3. PICK m \in Targets : Deadline(m) = d
      OBVIOUS
    <2>4. \A t \in Targets : Deadline(m) <= Deadline(t)
      BY <2>2, <2>3
    <2>5. ASSUME NEW t \in Targets \ {m}
          PROVE  Boundary + Transition
                   + Cardinality({o \in Targets \ {m} : Deadline(o) <= Deadline(t)}) * Slot
                 <= Deadline(t)
      <3>1. {o \in Targets \ {m} : Deadline(o) <= Deadline(t)} = Before(t) \ {m}
            /\ m \in Before(t)
        BY <2>4 DEF Before
      <3>2. IsFiniteSet(Before(t))
        BY BeforeCounts
      <3>3. Cardinality(Before(t) \ {m}) = Cardinality(Before(t)) - 1
        BY <3>1, <3>2, FS_RemoveElement
      <3>4. Boundary + Transition + (Cardinality(Before(t)) - 1) * Slot <= Deadline(t)
        BY <1>2, <1>5
      <3> QED
        BY <3>1, <3>3, <3>4
    <2>6. Feasible(m, Boundary)
      BY <1>3, <2>5 DEF Feasible, Slot
    <2> QED
      BY <1>3, <1>5, <2>6 DEF Eligible
  <1> QED
    BY <1>4, <1>5

\* While there is time for the shortest visit, the table has room for it.
LEMMA RoomInTable ==
    ASSUME IndInv, mode # "continuous", Boundary + MinDwell + Transition <= ScanEnd
    PROVE  visit_count < MaxVisits(mode)
  <1> USE DEF IndInv
  <1> DEFINE q == Duration \div MinDwell
             m == MinDwell
             k == visit_count
  <1>1. mode \in Modes /\ k \in Nat /\ k * m <= Boundary
    BY DEF TypeOK, TableInv
  <1>2. m \in Nat \ {0} /\ ScanEnd = Duration /\ MaxVisits(mode) = q + 1
    BY <1>1, TableSize
  <1>3. Boundary \in Nat /\ Transition \in Nat /\ Duration \in Nat
    BY BoundaryType, Config
  <1>4. Boundary + m + Transition <= Duration
    BY <1>2
  <1>5. q \in Nat /\ Duration < q * m + m
    <2> DEFINE r == Duration % m
    <2> HIDE DEF m
    <2>1. q \in Nat /\ r \in 0 .. m - 1 /\ Duration = q * m + r
      BY <1>2, <1>3, Division DEF m
    <2> HIDE DEF q, r
    <2>2. q * m \in Nat
      BY <1>2, <2>1
    <2> QED
      BY <1>2, <2>1, <2>2
  <1> HIDE DEF q, m, k
  <1>6. ASSUME q + 1 <= k PROVE FALSE
    <2>1. (q + 1) * m <= k * m /\ (q + 1) * m = q * m + m
      BY <1>1, <1>2, <1>5, <1>6, TimesMonotonic
    <2>2. q * m \in Nat /\ k * m \in Nat
      BY <1>1, <1>2, <1>5
    <2> QED
      BY <1>1, <1>2, <1>3, <1>4, <1>5, <2>1, <2>2
  <1>7. k < q + 1
    BY <1>1, <1>5, <1>6
  <1> QED
    BY <1>2, <1>7 DEF k

\* The invariant says that the lottery never paints itself into a corner.
LEMMA NeverCornered == IndInv => FeasibleKept
  <1> SUFFICES ASSUME IndInv, ontime, ~selected, ~stopped, last_now <= Boundary
               PROVE  /\ SelectResult(Boundary) \in {"OK", "ENODATA"}
                      /\ \A t \in Targets : Boundary + Transition <= Deadline(t)
    BY DEF FeasibleKept
  <1>1. /\ Boundary \in Nat /\ last_now \in Nat /\ ScanEnd \in Nat /\ MinDwell \in Nat
        /\ Transition \in Nat
    <2>1. mode \in Modes /\ last_now \in Counter
      BY DEF IndInv, TypeOK
    <2>2. last_now \in Nat
      BY <2>1 DEF Counter
    <2> QED
      BY <2>1, <2>2, BoundaryType, TableSize, Config DEF IndInv
  <1>2. /\ Eligible(Boundary) # {}
        /\ \A t \in Targets : Boundary + Transition <= Deadline(t)
    BY SomeTargetEligible
  <1>3. ~(Boundary < last_now) /\ ~(Boundary < Boundary)
    BY <1>1
  <1>4. CASE ScanEnd - Boundary < MinDwell + Transition
    BY <1>2, <1>3, <1>4 DEF SelectResult
  <1>5. CASE ~(ScanEnd - Boundary < MinDwell + Transition)
    <2>1. Boundary + MinDwell + Transition <= ScanEnd
      BY <1>1, <1>5
    <2>2. ~(mode # "continuous" /\ visit_count >= MaxVisits(mode))
      <3>1. visit_count \in Nat /\ MaxVisits(mode) \in Nat
        BY TableSize DEF IndInv, TypeOK
      <3>2. mode # "continuous" => visit_count < MaxVisits(mode)
        BY <2>1, RoomInTable
      <3> QED
        BY <3>1, <3>2
    <2> QED
      BY <1>2, <1>3, <1>5, <2>2 DEF SelectResult
  <1> QED
    BY <1>4, <1>5

-----------------------------------------------------------------------------
(* The specification *)

\* Every step of the policy keeps the invariant.
LEMMA StepInd == IndInv /\ [Next]_vars => IndInv'
  <1> SUFFICES ASSUME IndInv, [Next]_vars PROVE IndInv'
    OBVIOUS
  <1>1. ASSUME NEW now \in SnapshotTimes, NEW t \in Targets, Select(now, t) PROVE IndInv'
    BY <1>1, SelectInd
  <1>2. ASSUME NEW now \in SnapshotTimes, NEW t \in Targets, SelectExhausted(now, t) PROVE IndInv'
    BY <1>2, SelectExhaustedInd
  <1>3. ASSUME NEW start \in CommitStarts, LedgerRoom, Commit(start) PROVE IndInv'
    BY <1>3, CommitInd
  <1>4. ASSUME NEW intact \in BOOLEAN, FinishVisit(intact) PROVE IndInv'
    BY <1>4, FinishVisitInd
  <1>5. ASSUME mode # "continuous", NEW n \in Sequence, NEW v \in 0 .. output_index - 1,
               NEW t \in Targets, NEW o \in Outcomes, SubmitFeedback(FeedbackMessage(n, v, t, o))
        PROVE  IndInv'
    BY <1>5, SubmitInd
  <1>6. CASE TakeAck
    BY <1>6, TakeAckInd
  <1>7. CASE Stop
    BY <1>7, StopInd
  <1>8. CASE UNCHANGED vars
    <2>1. UNCHANGED <<schedule, mailbox, last_now, active, pending, acks, stopped,
                      output_index, taken>>
      BY <1>8 DEF vars
    <2>2. TableInv' /\ SelectionInv' /\ DeadlineInv'
      BY <2>1, ScheduleFrame
    <2>3. WindowInv' /\ AcksInv'
      BY <2>1 DEF IndInv, WindowInv, AcksInv, mailbox
    <2>4. OneAckEach'
      BY <2>1 DEF IndInv, OneAckEach, mailbox, PendingTargets, Occupied
    <2>5. TypeOK'
      BY <2>1 DEF IndInv, TypeOK, schedule, mailbox, MaxVisits
    <2> QED
      BY <2>2, <2>3, <2>4, <2>5 DEF IndInv
  <1> QED
    BY <1>1, <1>2, <1>3, <1>4, <1>5, <1>6, <1>7, <1>8 DEF Next

\* The inductive invariant holds in every state of every admitted configuration.
THEOREM PolicyInvariant == Spec => []IndInv
  BY InitInd, StepInd, PTL DEF Spec

\* Every field of struct spf_scan_policy stays in the range of its C type, and the
\* table of visits in its bounds.
THEOREM TypesAreKept == Spec => []TypeOK
  <1>1. IndInv => TypeOK
    BY DEF IndInv
  <1> QED
    BY <1>1, PolicyInvariant, PTL

\* While every selection is made at the boundary and every recall keeps its
\* budget, no revisit deadline is missed and spf_scan_policy_select answers with
\* a target until the scan is over, whatever the lottery drew.
THEOREM DeadlinesAreKept == Spec => []FeasibleKept
  BY PolicyInvariant, NeverCornered, PTL

\* spf_scan_policy_feedback accepts each sequence number at most once.
THEOREM NoFeedbackReplayed == Spec => []NoReplay
  <1>1. IndInv => NoReplay
    BY DEF IndInv, WindowInv, NoReplay
  <1> QED
    BY <1>1, PolicyInvariant, PTL

\* Every accepted feedback is pending, in the receipts, or its receipt was taken,
\* exactly once, and the receipts never exceed SPF_SCAN_ACK_CAPACITY.
THEOREM ReceiptsAreExact == Spec => []OneAckEach
  <1>1. IndInv => OneAckEach
    BY DEF IndInv
  <1> QED
    BY <1>1, PolicyInvariant, PTL
=============================================================================
