------------------------- MODULE LocalBlocks_proofs -------------------------
(***************************************************************************)
(* Proofs about LocalBlocks, for every number of blocks and of failing     *)
(* system calls: the driver's blocks are neither lost nor doubled while    *)
(* the owner of the buffer, a releasing thread and the hardware pass them  *)
(* on, and a cancelled buffer delivers nothing to a later call.            *)
(***************************************************************************)
EXTENDS LocalBlocks, FiniteSetTheorems, TLAPS

Driver == [blocks : SUBSET Ids, in : Seq(Ids), out : Seq(Ids), enabled : BOOLEAN]

\* Nothing is left of the blocks of device data p and driver k.
Clean(p, k) ==
    /\ k.blocks = {} /\ k.in = <<>> /\ k.out = <<>> /\ p.n = 0 /\ p.lease = NoLease

\* The device has blocks while it is open in high-speed mode, and only then.
SessionInv ==
    /\ drv \in Driver
    /\ pd.open <=> buf.live
    /\ ~pd.open => rd = Idle
    /\ ~(pd.open /\ pd.high_speed) => Clean(pd, drv)
    /\ pd.open /\ pd.high_speed /\ pd.last # None => pd.last \in drv.blocks

QueueInv ==
    /\ \A i \in DOMAIN drv.in : drv.in[i] \in drv.blocks
    /\ \A i \in DOMAIN drv.out : drv.out[i] \in drv.blocks

\* The mark of a lease is off only while the lease is being given back.
LeaseInv ==
    /\ held \subseteq drv.blocks
    /\ rl.pc # "idle" => rl.blk \in held
    /\ \A b \in Ids : pd.lease[b] <=> b \in held /\ ~(rl.pc # "idle" /\ rl.blk = b)

\* Where the owner is in its call.
CallInv ==
    /\ rd.pc = "idle" => rd = Idle
    /\ rd.pc \in {"enqueue", "dequeue", "mark"} \/ (rd.pc = "wait" /\ rd.op # "raw") =>
          pd.open /\ pd.high_speed
    /\ rd.pc \in {"dequeue", "mark"} \/ (rd.pc = "wait" /\ rd.op # "raw") => pd.last = None
    /\ rd.pc = "enqueue" => pd.last # None /\ (pd.cyclic => pd.enqueued)
    /\ rd.pc = "mark" => rd.blk \in drv.blocks
    /\ rd.pc = "transfer" => rd.op = "raw"
    /\ rd.op = "first" => held = {} /\ pd.high_speed

Queued(b) == Copies(drv.in, b) + Copies(drv.out, b)

Marking(b) == rd.pc = "mark" /\ rd.blk = b

\* Every block is in one place, except that the program keeps the block of a
\* cyclic buffer when the driver has it for good.
PlaceInv ==
    \A b \in drv.blocks :
        /\ Queued(b) \in {0, 1}
        /\ b \in held \/ Marking(b) \/ (pd.last = b /\ ~pd.cyclic) => Queued(b) = 0
        /\ b \notin held /\ ~Marking(b) /\ pd.last # b => Queued(b) = 1
        /\ ~(pd.last = b /\ b \in held) /\ ~(b \in held /\ Marking(b))
        /\ pd.cyclic /\ pd.last = b /\ Queued(b) # 0 => pd.enqueued /\ rd.pc # "enqueue"

\* A call that began after the cancellation passes the poll only in the
\* non-blocking mode.
CancelInv ==
    /\ rd.after => event
    /\ rd.after /\ rd.pc \in {"dequeue", "mark", "transfer"} => ~pd.blocking

IndInv ==
    TypeOK /\ SessionInv /\ QueueInv /\ LeaseInv /\ CallInv /\ PlaceInv /\ CancelInv

-----------------------------------------------------------------------------
(* Counting the copies of a block in a queue *)

\* Places of b in a queue.
Places(s, b) == {i \in DOMAIN s : s[i] = b}

\* A queue has finitely many places.
LEMMA CopiesFinite ==
    ASSUME NEW s \in Seq(Ids), NEW b
    PROVE  /\ IsFiniteSet(Places(s, b)) /\ Copies(s, b) = Cardinality(Places(s, b))
           /\ Copies(s, b) \in Nat
           /\ Copies(s, b) = 0 <=> \A i \in DOMAIN s : s[i] # b
  <1>1. Len(s) \in Nat /\ DOMAIN s = 1 .. Len(s)
    OBVIOUS
  <1>2. IsFiniteSet(1 .. Len(s)) /\ Places(s, b) \in SUBSET (1 .. Len(s))
    BY <1>1, FS_Interval DEF Places
  <1>3. IsFiniteSet(Places(s, b)) /\ Cardinality(Places(s, b)) \in Nat
    BY <1>2, FS_Subset, FS_CardinalityType
  <1>4. Cardinality(Places(s, b)) = 0 <=> Places(s, b) = {}
    BY <1>3, FS_EmptySet
  <1>5. Places(s, b) = {} <=> \A i \in DOMAIN s : s[i] # b
    BY DEF Places
  <1>6. Copies(s, b) = Cardinality(Places(s, b))
    BY DEF Copies, Places
  <1> QED
    BY <1>3, <1>4, <1>5, <1>6

\* A block is put at the end.
LEMMA CopiesAppend ==
    ASSUME NEW s \in Seq(Ids), NEW x \in Ids, NEW b
    PROVE  /\ Append(s, x) \in Seq(Ids)
           /\ Copies(Append(s, x), b) = Copies(s, b) + IF x = b THEN 1 ELSE 0
  <1> DEFINE e == Append(s, x)
             n == Len(s) + 1
  <1>1. /\ e \in Seq(Ids) /\ Len(s) \in Nat /\ DOMAIN s = 1 .. Len(s) /\ DOMAIN e = 1 .. n
        /\ e[n] = x /\ \A i \in 1 .. Len(s) : e[i] = s[i]
    OBVIOUS
  <1>2. /\ n \notin DOMAIN s /\ n \in DOMAIN e
        /\ \A i \in DOMAIN e : i # n => i \in DOMAIN s
        /\ \A i \in DOMAIN s : i \in DOMAIN e
    BY <1>1
  <1> HIDE DEF e, n
  <1>3. Copies(s, b) \in Nat /\ Copies(s, b) = Cardinality(Places(s, b)) /\ IsFiniteSet(Places(s, b))
        /\ Copies(e, b) = Cardinality(Places(e, b))
    BY <1>1, CopiesFinite
  <1>4. CASE x = b
    <2>1. Places(e, b) = Places(s, b) \cup {n} /\ n \notin Places(s, b)
      BY <1>1, <1>2, <1>4 DEF Places
    <2>2. Cardinality(Places(s, b) \cup {n}) = Cardinality(Places(s, b)) + 1
      BY <1>3, <2>1, FS_AddElement
    <2> QED
      BY <1>1, <1>3, <1>4, <2>1, <2>2 DEF e
  <1>5. CASE x # b
    <2>1. Places(e, b) = Places(s, b)
      BY <1>1, <1>2, <1>5 DEF Places
    <2> QED
      BY <1>1, <1>3, <1>5, <2>1 DEF e
  <1> QED
    BY <1>4, <1>5

\* A block is taken from the front.
LEMMA CopiesTail ==
    ASSUME NEW s \in Seq(Ids), s # <<>>, NEW b
    PROVE  /\ Tail(s) \in Seq(Ids) /\ Head(s) \in Ids
           /\ Copies(Tail(s), b) = Copies(s, b) - IF Head(s) = b THEN 1 ELSE 0
  <1> DEFINE e == Tail(s)
             P == Places(e, b)
             Q == Places(s, b) \ {1}
             f == [i \in P |-> i + 1]
  <1>1. /\ e \in Seq(Ids) /\ Head(s) \in Ids /\ Head(s) = s[1]
        /\ Len(s) \in Nat \ {0} /\ DOMAIN s = 1 .. Len(s) /\ DOMAIN e = 1 .. Len(s) - 1
        /\ \A i \in 1 .. Len(s) - 1 : e[i] = s[i + 1]
    OBVIOUS
  <1>2. \A i \in DOMAIN e : i \in Nat /\ i + 1 \in DOMAIN s /\ i + 1 # 1
    BY <1>1
  <1>3. \A k \in DOMAIN s : k # 1 => k - 1 \in DOMAIN e /\ (k - 1) + 1 = k
    BY <1>1
  <1> HIDE DEF e
  <1>4. f \in Bijection(P, Q)
    <2>1. f \in [P -> Q]
      BY <1>1, <1>2 DEF Places
    <2>2. \A i, j \in P : f[i] = f[j] => i = j
      BY <1>2 DEF Places
    <2>3. \A k \in Q : k - 1 \in P /\ f[k - 1] = k
      BY <1>1, <1>3 DEF Places
    <2> HIDE DEF f, P, Q
    <2> QED
      BY <2>1, <2>2, <2>3 DEF Bijection, Injection, Surjection, IsInjective
  <1>5. /\ IsFiniteSet(Places(s, b)) /\ Copies(s, b) = Cardinality(Places(s, b))
        /\ IsFiniteSet(P) /\ Copies(e, b) = Cardinality(P) /\ Copies(s, b) \in Nat
    BY <1>1, CopiesFinite
  <1> HIDE DEF f, P
  <1>6. Cardinality(P) = Cardinality(Q)
    BY <1>4, <1>5, FS_Bijection DEF ExistsBijection
  <1>7. Cardinality(Q) = IF 1 \in Places(s, b) THEN Cardinality(Places(s, b)) - 1
                         ELSE Cardinality(Places(s, b))
    BY <1>5, FS_RemoveElement
  <1>8. 1 \in Places(s, b) <=> Head(s) = b
    BY <1>1 DEF Places
  <1> HIDE DEF Q
  <1> QED
    BY <1>1, <1>5, <1>6, <1>7, <1>8 DEF e

\* The driver's queue after n blocks were granted holds each one once.
LEMMA CopiesGranted ==
    ASSUME NEW n \in 1 .. MaxBlocks, NEW b \in 0 .. n - 1
    PROVE  /\ [i \in 1 .. n |-> i - 1] \in Seq(Ids)
           /\ Copies([i \in 1 .. n |-> i - 1], b) = 1
           /\ Copies(<<>>, b) = 0
  <1> DEFINE s == [i \in 1 .. n |-> i - 1]
  <1>1. n \in Nat /\ n >= 1 /\ n <= MaxBlocks /\ MaxBlocks \in Nat
    BY MaxBlocksAssumption
  <1>2. \A i \in 1 .. n : i - 1 \in Ids
    BY <1>1 DEF Ids
  <1>3. s \in Seq(Ids)
    BY <1>1, <1>2
  <1>4. DOMAIN s = 1 .. n /\ \A i \in 1 .. n : s[i] = i - 1
    OBVIOUS
  <1> HIDE DEF s
  <1>5. Places(s, b) = {b + 1}
    <2>1. b + 1 \in 1 .. n /\ (b + 1) - 1 = b /\ \A i \in 1 .. n : i - 1 = b => i = b + 1
      BY <1>1
    <2> QED
      BY <1>4, <2>1 DEF Places
  <1>6. Cardinality(Places(s, b)) = 1
    BY <1>5, FS_Singleton
  <1>7. <<>> \in Seq(Ids) /\ DOMAIN <<>> = {}
    OBVIOUS
  <1>8. Copies(<<>>, b) = 0
    BY <1>7, CopiesFinite
  <1> QED
    BY <1>3, <1>6, <1>8, CopiesFinite DEF s

\* A queue of no blocks is empty.
LEMMA NoBlocksNoQueue ==
    ASSUME NEW s \in Seq(Ids), \A i \in DOMAIN s : s[i] \in {}
    PROVE  s = <<>>
  OBVIOUS

-----------------------------------------------------------------------------
(* The driver's queues *)

\* The program gives block x to the driver.
LEMMA Enqueued ==
    ASSUME drv \in Driver, QueueInv, NEW x \in drv.blocks,
           drv' = [drv EXCEPT !.in = Append(@, x)]
    PROVE  /\ drv' \in Driver /\ QueueInv' /\ drv'.blocks = drv.blocks
           /\ \A b : Queued(b)' = Queued(b) + IF x = b THEN 1 ELSE 0
           /\ \A b : Queued(b) \in Nat
  <1>1. /\ drv.in \in Seq(Ids) /\ drv.out \in Seq(Ids) /\ drv.blocks \in SUBSET Ids
        /\ drv'.in = Append(drv.in, x) /\ drv'.out = drv.out /\ drv'.blocks = drv.blocks
        /\ x \in Ids
    BY DEF Driver
  <1>2. Append(drv.in, x) \in Seq(Ids)
    BY <1>1, CopiesAppend
  <1>3. drv' \in Driver
    BY <1>2 DEF Driver
  <1>4. \A b : /\ Queued(b)' = Queued(b) + IF x = b THEN 1 ELSE 0
               /\ Queued(b) \in Nat
    <2> TAKE b
    <2>1. Copies(drv.in, b) \in Nat /\ Copies(drv.out, b) \in Nat
      BY <1>1, CopiesFinite
    <2>2. Copies(drv'.in, b) = Copies(drv.in, b) + IF x = b THEN 1 ELSE 0
      BY <1>1, CopiesAppend
    <2> QED
      BY <1>1, <2>1, <2>2 DEF Queued
  <1>5. QueueInv'
    <2> DEFINE s == drv.in
               e == Append(drv.in, x)
    <2>1. /\ DOMAIN e = 1 .. Len(s) + 1 /\ Len(s) \in Nat /\ DOMAIN s = 1 .. Len(s)
          /\ e[Len(s) + 1] = x /\ \A i \in 1 .. Len(s) : e[i] = s[i]
      BY <1>1
    <2>2. \A i \in DOMAIN e : i \in DOMAIN s \/ i = Len(s) + 1
      BY <2>1
    <2>3. \A i \in DOMAIN s : s[i] \in drv.blocks
      BY DEF QueueInv
    <2>4. \A i \in DOMAIN e : e[i] \in drv.blocks
      <3> HIDE DEF e, s
      <3> QED
        BY <2>1, <2>2, <2>3
    <2> QED
      BY <1>1, <2>4 DEF QueueInv
  <1> QED
    BY <1>1, <1>3, <1>4, <1>5

\* The driver hands out the oldest block that is done.
LEMMA Dequeued ==
    ASSUME drv \in Driver, QueueInv, drv.out # <<>>,
           drv' = [drv EXCEPT !.out = Tail(@)]
    PROVE  /\ drv' \in Driver /\ QueueInv' /\ drv'.blocks = drv.blocks
           /\ Head(drv.out) \in drv.blocks
           /\ \A b : Queued(b)' = Queued(b) - IF Head(drv.out) = b THEN 1 ELSE 0
           /\ \A b : Queued(b) \in Nat /\ Queued(b)' \in Nat
  <1>1. /\ drv.in \in Seq(Ids) /\ drv.out \in Seq(Ids) /\ drv.blocks \in SUBSET Ids
        /\ drv'.in = drv.in /\ drv'.out = Tail(drv.out) /\ drv'.blocks = drv.blocks
    BY DEF Driver
  <1>2. Tail(drv.out) \in Seq(Ids)
    BY <1>1
  <1>3. drv' \in Driver
    BY <1>2 DEF Driver
  <1>4. \A b : /\ Queued(b)' = Queued(b) - IF Head(drv.out) = b THEN 1 ELSE 0
               /\ Queued(b) \in Nat /\ Queued(b)' \in Nat
    <2> TAKE b
    <2>1. Copies(drv.in, b) \in Nat /\ Copies(drv.out, b) \in Nat /\ Copies(drv'.out, b) \in Nat
      BY <1>1, <1>2, CopiesFinite
    <2>2. Copies(drv'.out, b) = Copies(drv.out, b) - IF Head(drv.out) = b THEN 1 ELSE 0
      BY <1>1, CopiesTail
    <2> QED
      BY <1>1, <2>1, <2>2 DEF Queued
  <1>5. QueueInv' /\ Head(drv.out) \in drv.blocks
    <2> DEFINE s == drv.out
               e == Tail(drv.out)
    <2>1. /\ DOMAIN e = 1 .. Len(s) - 1 /\ Len(s) \in Nat \ {0} /\ DOMAIN s = 1 .. Len(s)
          /\ Head(s) = s[1] /\ \A i \in 1 .. Len(s) - 1 : e[i] = s[i + 1]
      BY <1>1
    <2>2. 1 \in DOMAIN s /\ \A i \in DOMAIN e : i + 1 \in DOMAIN s
      BY <2>1
    <2>3. \A i \in DOMAIN s : s[i] \in drv.blocks
      BY DEF QueueInv
    <2>4. Head(s) \in drv.blocks /\ \A i \in DOMAIN e : e[i] \in drv.blocks
      <3> HIDE DEF e, s
      <3> QED
        BY <2>1, <2>2, <2>3
    <2> QED
      BY <1>1, <2>4 DEF QueueInv
  <1> QED
    BY <1>1, <1>3, <1>4, <1>5

\* The hardware moves a block from one queue to the other.
LEMMA Moved ==
    ASSUME drv \in Driver, QueueInv, Hardware
    PROVE  /\ drv' \in Driver /\ QueueInv' /\ drv'.blocks = drv.blocks
           /\ \A b : Queued(b)' = Queued(b)
  <1> DEFINE x == Head(drv.in)
  <1>1. /\ drv.in \in Seq(Ids) /\ drv.out \in Seq(Ids) /\ drv.blocks \in SUBSET Ids
        /\ drv.in # <<>> /\ drv'.in = Tail(drv.in) /\ drv'.out = Append(drv.out, x)
        /\ drv'.blocks = drv.blocks
    BY DEF Driver, Hardware
  <1>2. Tail(drv.in) \in Seq(Ids) /\ Append(drv.out, x) \in Seq(Ids) /\ x \in Ids
    BY <1>1
  <1>3. drv' \in Driver
    BY <1>2 DEF Driver, Hardware
  <1>4. \A b : Queued(b)' = Queued(b)
    <2> TAKE b
    <2>1. Copies(drv.in, b) \in Nat /\ Copies(drv.out, b) \in Nat
      BY <1>1, CopiesFinite
    <2>2. Copies(drv'.in, b) = Copies(drv.in, b) - IF x = b THEN 1 ELSE 0
      BY <1>1, CopiesTail
    <2>3. Copies(drv'.out, b) = Copies(drv.out, b) + IF x = b THEN 1 ELSE 0
      BY <1>1, <1>2, CopiesAppend
    <2> HIDE DEF x
    <2> QED
      BY <2>1, <2>2, <2>3 DEF Queued
  <1>5. QueueInv'
    <2> DEFINE s == drv.in
               e == Tail(s)
               o == drv.out
               p == Append(o, x)
    <2>1. /\ DOMAIN e = 1 .. Len(s) - 1 /\ Len(s) \in Nat \ {0} /\ DOMAIN s = 1 .. Len(s)
          /\ x = s[1] /\ \A i \in 1 .. Len(s) - 1 : e[i] = s[i + 1]
      BY <1>1
    <2>2. /\ DOMAIN p = 1 .. Len(o) + 1 /\ Len(o) \in Nat /\ DOMAIN o = 1 .. Len(o)
          /\ p[Len(o) + 1] = x /\ \A i \in 1 .. Len(o) : p[i] = o[i]
      BY <1>1, <1>2
    <2>3. 1 \in DOMAIN s /\ \A i \in DOMAIN e : i + 1 \in DOMAIN s
      BY <2>1
    <2>4. \A i \in DOMAIN p : i \in DOMAIN o \/ i = Len(o) + 1
      BY <2>2
    <2>5. /\ \A i \in DOMAIN s : s[i] \in drv.blocks
          /\ \A i \in DOMAIN o : o[i] \in drv.blocks
      BY DEF QueueInv
    <2>6. /\ \A i \in DOMAIN e : e[i] \in drv.blocks
          /\ \A i \in DOMAIN p : p[i] \in drv.blocks
      <3> HIDE DEF e, s, o, p, x
      <3> QED
        BY <2>1, <2>2, <2>3, <2>4, <2>5
    <2> QED
      BY <1>1, <2>6 DEF QueueInv
  <1> QED
    BY <1>1, <1>3, <1>4, <1>5

-----------------------------------------------------------------------------
(* Opening and closing *)

\* local_close leaves nothing behind.
LEMMA CloseCleans ==
    ASSUME NEW p \in Pdata, NEW k \in Driver, NEW disabled \in BOOLEAN,
           p.high_speed \/ Clean(p, k)
    PROVE  /\ local_close(p, k, disabled)[1] \in Pdata
           /\ local_close(p, k, disabled)[2] \in Driver
           /\ ~local_close(p, k, disabled)[1].open
           /\ Clean(local_close(p, k, disabled)[1], local_close(p, k, disabled)[2])
  <1>1. /\ 0 \in 0 .. MaxBlocks /\ NoLease \in [Ids -> BOOLEAN] /\ <<>> \in Seq(Ids)
        /\ FALSE \in BOOLEAN
    BY MaxBlocksAssumption DEF NoLease
  <1> DEFINE q == IF p.high_speed THEN CloseForgets(p) ELSE p
             j == IF p.high_speed THEN FreeBlocks(k) ELSE k
  <1>2. q \in Pdata /\ j \in Driver
    BY <1>1 DEF CloseForgets, FreeBlocks, Pdata, Driver
  <1>3. Clean(q, j)
    BY DEF CloseForgets, FreeBlocks, Pdata, Driver, Clean
  <1> DEFINE a == [q EXCEPT !.open = FALSE]
             c == [j EXCEPT !.enabled = IF disabled THEN FALSE ELSE @]
  <1>4. local_close(p, k, disabled) = <<a, c>>
    BY DEF local_close
  <1> HIDE DEF q, j
  <1>5. a \in Pdata /\ ~a.open /\ a.n = q.n /\ a.lease = q.lease
    BY <1>2 DEF Pdata
  <1>6. c \in Driver /\ c.blocks = j.blocks /\ c.in = j.in /\ c.out = j.out
    BY <1>2 DEF Driver
  <1> HIDE DEF a, c
  <1>7. Clean(a, c)
    BY <1>3, <1>5, <1>6 DEF Clean
  <1>8. local_close(p, k, disabled)[1] = a /\ local_close(p, k, disabled)[2] = c
    BY <1>4
  <1> QED
    BY <1>5, <1>6, <1>7, <1>8

\* With the device closed, nothing held and no call running all is well.
LEMMA ClosedState ==
    ASSUME TypeOK', drv' \in Driver, ~pd'.open, ~buf'.live, Clean(pd', drv'),
           rd' = Idle, rl'.pc = "idle", held' = {}
    PROVE  IndInv'
  <1>1. rd'.pc = "idle" /\ rd'.op = "none" /\ rd'.after = FALSE /\ rd'.blk = None
    BY DEF Idle
  <1>2. drv'.blocks = {} /\ drv'.in = <<>> /\ drv'.out = <<>> /\ pd'.lease = NoLease
    BY DEF Clean
  <1>3. DOMAIN drv'.in = {} /\ DOMAIN drv'.out = {}
    BY <1>2
  <1>4. SessionInv'
    BY DEF SessionInv
  <1>5. QueueInv'
    BY <1>3 DEF QueueInv
  <1>6. LeaseInv'
    BY <1>2 DEF LeaseInv, NoLease
  <1>7. CallInv'
    BY <1>1 DEF CallInv
  <1>8. PlaceInv'
    BY <1>2 DEF PlaceInv
  <1>9. CancelInv'
    BY <1>1 DEF CancelInv
  <1> QED
    BY <1>4, <1>5, <1>6, <1>7, <1>8, <1>9 DEF IndInv

\* What local_open made of the device and the driver, with n blocks granted.
Opened(p, k, n) ==
    /\ p \in Pdata /\ k \in Driver /\ p.open
    /\ ~p.high_speed => Clean(p, k)
    /\ p.high_speed => /\ p.lease = NoLease /\ p.last = None
                       /\ k.blocks = 0 .. n - 1 /\ k.out = <<>>
                       /\ k.in = [i \in 1 .. n |-> i - 1]

\* local_open opens the device, or fails and leaves nothing behind.
LEMMA OpenOrClean ==
    ASSUME NEW p0 \in Pdata, NEW k0 \in Driver, ~p0.open, Clean(p0, k0),
           NEW cyc \in BOOLEAN, NEW ends \in Endings, NEW n \in 1 .. MaxBlocks,
           NEW r, r = local_open(p0, k0, cyc, ends, n)
    PROVE  /\ r.ret = "ok" => Opened(r.pk[1], r.pk[2], n)
           /\ r.ret # "ok" => /\ r.pk[1] \in Pdata /\ r.pk[2] \in Driver
                              /\ ~r.pk[1].open /\ Clean(r.pk[1], r.pk[2])
  <1> DEFINE k1 == [k0 EXCEPT !.enabled = FALSE]
             p1 == [p0 EXCEPT !.open = TRUE]
             p2 == [p1 EXCEPT !.cyclic = cyc, !.enqueued = FALSE]
             hs == enable_high_speed(p2, k1, ends, n)
             p3 == [hs.p EXCEPT !.high_speed = (hs.ret = "ok")]
             fail(p, k) == [ret |-> "error", pk |-> local_close(p, k, TRUE)]
  <1>1. k1 \in Driver /\ k1.blocks = {} /\ k1.in = <<>> /\ k1.out = <<>>
    BY DEF Driver, Clean
  <1>2. p1 \in Pdata /\ p1.open /\ p1.n = 0 /\ p1.lease = NoLease
    BY DEF Pdata, Clean
  <1>3. p2 \in Pdata /\ p2.open /\ p2.n = 0 /\ p2.lease = NoLease
    BY <1>2 DEF Pdata
  <1>4. Clean(p0, k1) /\ Clean(p1, k1) /\ Clean(p2, k1)
    BY <1>1, <1>2, <1>3 DEF Clean
  <1> HIDE DEF k1, p1, p2
  <1>5. /\ hs.p \in Pdata /\ hs.k \in Driver /\ hs.p.open
        /\ hs.ret # "ok" => Clean(hs.p, hs.k)
        /\ hs.ret = "ok" => /\ hs.p.lease = NoLease /\ hs.p.last = None
                            /\ hs.k.blocks = 0 .. n - 1 /\ hs.k.out = <<>>
                            /\ hs.k.in = [i \in 1 .. n |-> i - 1]
        /\ hs.ret = "error" => ends \in {"alloc", "map"}
    <2>1. n \in Nat /\ n \in 0 .. MaxBlocks /\ 0 .. n - 1 \in SUBSET Ids
          /\ 0 \in 0 .. MaxBlocks /\ NoLease \in [Ids -> BOOLEAN] /\ None \in {None} \cup Ids
          /\ <<>> \in Seq(Ids)
      BY MaxBlocksAssumption DEF Ids, NoLease
    <2>2. [i \in 1 .. n |-> i - 1] \in Seq(Ids)
      <3>1. 0 \in 0 .. n - 1
        BY <2>1
      <3> QED
        BY <3>1, CopiesGranted
    <2>3. CASE ends = "nosys"
      <3>1. hs = [ret |-> "ENOSYS", p |-> p2, k |-> k1]
        BY <2>3 DEF enable_high_speed
      <3> HIDE DEF hs
      <3> QED
        BY <1>1, <1>3, <1>4, <3>1
    <2>4. CASE ends \in {"alloc", "map"}
      <3>1. hs = [ret |-> "error", p |-> CloseForgets(p2), k |-> FreeBlocks(k1)]
        BY <2>4 DEF enable_high_speed
      <3>2. CloseForgets(p2) \in Pdata /\ CloseForgets(p2).open /\ FreeBlocks(k1) \in Driver
            /\ Clean(CloseForgets(p2), FreeBlocks(k1))
        BY <1>1, <1>3, <2>1 DEF CloseForgets, FreeBlocks, Pdata, Driver, Clean
      <3> HIDE DEF hs
      <3> QED
        BY <2>4, <3>1, <3>2
    <2>5. CASE ends \notin {"nosys", "alloc", "map"}
      <3> DEFINE p == [p2 EXCEPT !.n = n, !.lease = NoLease, !.last = None]
                 s == [i \in 1 .. n |-> i - 1]
                 k == [k1 EXCEPT !.blocks = 0 .. n - 1, !.out = <<>>, !.in = s]
      <3>1. hs = [ret |-> "ok", p |-> p, k |-> k]
        BY <2>5 DEF enable_high_speed
      <3>2. p \in Pdata /\ p.open /\ p.lease = NoLease /\ p.last = None
        BY <1>3, <2>1 DEF Pdata
      <3>3. s \in Seq(Ids)
        BY <2>2
      <3>4. s = [i \in 1 .. n |-> i - 1]
        OBVIOUS
      <3> HIDE DEF s
      <3>5. k \in Driver /\ k.blocks = 0 .. n - 1 /\ k.out = <<>> /\ k.in = s
        BY <1>1, <2>1, <3>3 DEF Driver
      <3> HIDE DEF hs, p, k
      <3> QED
        BY <3>1, <3>2, <3>4, <3>5
    <2> QED
      BY <2>3, <2>4, <2>5
  <1>6. r = CASE ends = "early"    -> [ret |-> "error", pk |-> <<p0, k0>>]
              [] ends = "dev"      -> [ret |-> "error", pk |-> <<p0, k1>>]
              [] ends = "channels" -> fail(p1, k1)
              [] hs.ret = "error"  -> fail(hs.p, hs.k)
              [] ends = "nosys" /\ cyc -> fail(p3, hs.k)
              [] ends = "final"    -> fail(p3, hs.k)
              [] OTHER -> [ret |-> "ok", pk |-> <<p3, [hs.k EXCEPT !.enabled = TRUE]>>]
    BY DEF local_open, k1, p1, p2
  <1> HIDE DEF hs
  <1>7. /\ p3 \in Pdata /\ p3.open
        /\ p3.high_speed <=> hs.ret = "ok"
        /\ p3.n = hs.p.n /\ p3.lease = hs.p.lease /\ p3.last = hs.p.last
    BY <1>5 DEF Pdata
  <1> HIDE DEF p3
  <1>8. p3.high_speed \/ Clean(p3, hs.k)
    BY <1>5, <1>7 DEF Clean
  <1>9. CASE ends = "early"
    <2>1. r.ret = "error" /\ r.pk[1] = p0 /\ r.pk[2] = k0
      <3>1. r = [ret |-> "error", pk |-> <<p0, k0>>]
        BY <1>5, <1>6, <1>9
      <3> QED
        BY <3>1
    <2> QED
      BY <2>1
  <1>10. CASE ends = "dev"
    <2>1. r.ret = "error" /\ r.pk[1] = p0 /\ r.pk[2] = k1
      <3>1. r = [ret |-> "error", pk |-> <<p0, k1>>]
        BY <1>5, <1>6, <1>10
      <3> QED
        BY <3>1
    <2> QED
      BY <1>1, <1>4, <2>1
  <1>11. CASE ends = "channels"
    <2>1. r.ret = "error" /\ r.pk = local_close(p1, k1, TRUE)
      <3>1. r = fail(p1, k1)
        BY <1>5, <1>6, <1>11
      <3> QED
        BY <3>1
    <2> QED
      BY <1>1, <1>2, <1>4, <2>1, CloseCleans
  <1>12. CASE ends \notin {"early", "dev", "channels"} /\ hs.ret = "error"
    <2>1. r.ret = "error" /\ r.pk = local_close(hs.p, hs.k, TRUE)
      <3>1. r = fail(hs.p, hs.k)
        BY <1>5, <1>6, <1>12
      <3> QED
        BY <3>1
    <2> QED
      BY <1>5, <1>12, <2>1, CloseCleans
  <1>13. CASE /\ ends \notin {"early", "dev", "channels"} /\ hs.ret # "error"
              /\ (ends = "nosys" /\ cyc) \/ ends = "final"
    <2>1. r.ret = "error" /\ r.pk = local_close(p3, hs.k, TRUE)
      <3>1. r = fail(p3, hs.k)
        BY <1>6, <1>13
      <3> QED
        BY <3>1
    <2> QED
      BY <1>5, <1>7, <1>8, <2>1, CloseCleans
  <1>14. CASE /\ ends \notin {"early", "dev", "channels", "final"} /\ hs.ret # "error"
              /\ ~(ends = "nosys" /\ cyc)
    <2> DEFINE k == [hs.k EXCEPT !.enabled = TRUE]
    <2>1. r.ret = "ok" /\ r.pk[1] = p3 /\ r.pk[2] = k
      <3>1. r = [ret |-> "ok", pk |-> <<p3, k>>]
        BY <1>6, <1>14
      <3> QED
        BY <3>1
    <2>2. k \in Driver /\ k.blocks = hs.k.blocks /\ k.in = hs.k.in /\ k.out = hs.k.out
      BY <1>5 DEF Driver
    <2> HIDE DEF k
    <2>3. Opened(p3, k, n)
      BY <1>5, <1>7, <2>2 DEF Opened, Clean
    <2> QED
      BY <2>1, <2>3
  <1> QED
    BY <1>9, <1>10, <1>11, <1>12, <1>13, <1>14

-----------------------------------------------------------------------------
(* The steps *)

Calls == [pc : {"idle", "enqueue", "wait", "dequeue", "mark", "transfer"},
          op : {"none", "first", "get", "acquire", "raw"},
          blk : {None} \cup Ids, after : BOOLEAN, got : 0 .. Want]
Releases == [pc : {"idle", "enqueue", "undo"}, blk : {None} \cup Ids]
Buffers == [live : BOOLEAN, tx : BOOLEAN, lease_mode : BOOLEAN]

\* The parts of the type invariant.
LEMMA TypeParts ==
    TypeOK /\ drv \in Driver <=>
        /\ pd \in Pdata /\ rd \in Calls /\ rl \in Releases /\ buf \in Buffers
        /\ event \in BOOLEAN /\ late \in BOOLEAN /\ faults \in 0 .. MaxFaults
        /\ held \subseteq Ids /\ drv \in Driver
  BY DEF TypeOK, Calls, Releases, Buffers, Driver

\* The values at rest have their types.
LEMMA RestTypes ==
    /\ Idle \in Calls /\ IdleRelease \in Releases /\ NoLease \in [Ids -> BOOLEAN]
    /\ Idle.pc = "idle" /\ Idle.op = "none" /\ Idle.after = FALSE /\ Idle.got = 0
    /\ Idle.blk = None /\ IdleRelease.pc = "idle" /\ <<>> \in Seq(Ids)
    /\ 0 \in 0 .. MaxBlocks
  <1>1. 0 \in 0 .. Want /\ 0 \in 0 .. MaxBlocks
    BY WantAssumption, MaxBlocksAssumption
  <1> QED
    BY <1>1 DEF Idle, IdleRelease, Calls, Releases, NoLease

\* The program may fail one more call, or none.
LEMMA FaultTypes ==
    ASSUME faults \in 0 .. MaxFaults, Fault \/ NoFault
    PROVE  faults' \in 0 .. MaxFaults
  BY MaxFaultsAssumption DEF Fault, NoFault

\* At the start no device is open.
LEMMA InitInd == Init => IndInv
  <1> SUFFICES ASSUME Init PROVE IndInv
    OBVIOUS
  <1>1. pd \in Pdata /\ ~pd.open /\ pd.n = 0 /\ pd.lease = NoLease
    <2>1. MaxBlocks \in 1 .. MaxBlocks /\ 0 \in 0 .. MaxBlocks
      BY MaxBlocksAssumption
    <2> QED
      BY <2>1, RestTypes DEF Init, Pdata
  <1>2. drv \in Driver /\ drv.blocks = {} /\ drv.in = <<>> /\ drv.out = <<>>
    BY DEF Init, Driver
  <1>3. buf \in Buffers /\ ~buf.live
    BY DEF Init, Buffers
  <1>4. rd = Idle /\ rl = IdleRelease /\ held = {}
    BY DEF Init
  <1>5. event \in BOOLEAN /\ late \in BOOLEAN /\ faults \in 0 .. MaxFaults
    <2>1. event \in BOOLEAN /\ late \in BOOLEAN
      BY DEF Init
    <2>2. faults \in 0 .. MaxFaults
      BY MaxFaultsAssumption DEF Init
    <2> QED
      BY <2>1, <2>2
  <1>6. TypeOK
    BY <1>1, <1>2, <1>3, <1>4, <1>5, TypeParts, RestTypes
  <1>7. SessionInv
    BY <1>1, <1>2, <1>3, <1>4 DEF SessionInv, Clean
  <1>8. QueueInv
    <2>1. DOMAIN drv.in = {} /\ DOMAIN drv.out = {}
      BY <1>2
    <2> QED
      BY <2>1 DEF QueueInv
  <1>9. LeaseInv
    BY <1>1, <1>2, <1>4, RestTypes DEF LeaseInv, NoLease
  <1>10. CallInv /\ CancelInv
    BY <1>4, RestTypes DEF CallInv, CancelInv
  <1>11. PlaceInv
    BY <1>2 DEF PlaceInv
  <1> QED
    BY <1>6, <1>7, <1>8, <1>9, <1>10, <1>11 DEF IndInv

\* The device is opened, or the open fails at any of its steps.
LEMMA CreateInd ==
    ASSUME IndInv, create_buffer
    PROVE  IndInv'
  <1> DEFINE Body(tx, cyc, ends, n) ==
                \E r \in {local_open(pd, drv, cyc, ends, IF cyc THEN 1 ELSE n)} :
                   (/\ ~buf.live /\ ~pd.open
                    /\ IF ends \in Failures THEN Fault ELSE NoFault
                    /\ cyc => tx
                    /\ pd' = r.pk[1] /\ drv' = r.pk[2]
                    /\ event' = IF r.ret = "ok" THEN FALSE ELSE event
                    /\ buf' = [live |-> r.ret = "ok", tx |-> tx, lease_mode |-> FALSE]
                    /\ rd' = IF r.ret = "ok" /\ tx /\ pd'.high_speed
                             THEN [Idle EXCEPT !.pc = "wait", !.op = "first"] ELSE rd
                    /\ late' = IF r.ret = "ok" THEN FALSE ELSE late)
                    /\ UNCHANGED <<rl, held>>
  <1>0. \E tx, cyc \in BOOLEAN, ends \in Endings, n \in 1 .. pd.max : Body(tx, cyc, ends, n)
    BY DEF create_buffer
  <1> HIDE DEF Body
  <1>1. PICK tx \in BOOLEAN, cyc \in BOOLEAN, ends \in Endings, g \in 1 .. pd.max :
           Body(tx, cyc, ends, g)
    BY <1>0
  <1> DEFINE n == IF cyc THEN 1 ELSE g
             r == local_open(pd, drv, cyc, ends, n)
  <1>2. /\ ~buf.live /\ ~pd.open /\ pd' = r.pk[1] /\ drv' = r.pk[2]
        /\ event' = IF r.ret = "ok" THEN FALSE ELSE event
        /\ rd' = IF r.ret = "ok" /\ tx /\ pd'.high_speed
                 THEN [Idle EXCEPT !.pc = "wait", !.op = "first"] ELSE rd
        /\ late' = IF r.ret = "ok" THEN FALSE ELSE late
        /\ Fault \/ NoFault
    BY <1>1 DEF Body
  <1>3. buf' = [live |-> r.ret = "ok", tx |-> tx, lease_mode |-> FALSE]
    BY <1>1 DEF Body
  <1>4. rl' = rl /\ held' = held
    BY <1>1 DEF Body
  <1>5. /\ pd \in Pdata /\ drv \in Driver /\ rd \in Calls /\ rl \in Releases
        /\ event \in BOOLEAN /\ late \in BOOLEAN /\ faults \in 0 .. MaxFaults
    BY TypeParts DEF IndInv, SessionInv
  <1>6. Clean(pd, drv) /\ rd = Idle /\ held = {} /\ rl.pc = "idle"
    BY <1>2 DEF IndInv, SessionInv, LeaseInv, Clean
  <1>7. n \in 1 .. MaxBlocks
    <2>1. pd.max \in 1 .. MaxBlocks
      BY <1>5 DEF Pdata
    <2> QED
      BY <2>1, MaxBlocksAssumption
  <1>8. /\ r.ret = "ok" => Opened(r.pk[1], r.pk[2], n)
        /\ r.ret # "ok" => /\ r.pk[1] \in Pdata /\ r.pk[2] \in Driver
                           /\ ~r.pk[1].open /\ Clean(r.pk[1], r.pk[2])
    BY <1>2, <1>5, <1>6, <1>7, OpenOrClean
  <1> HIDE DEF n, r
  <1>9. buf' \in Buffers /\ (buf'.live <=> r.ret = "ok")
    BY <1>3 DEF Buffers
  <1>10. pd' \in Pdata /\ drv' \in Driver
    BY <1>2, <1>8 DEF Opened
  <1>11. rd' \in Calls /\ rd'.pc \in {"idle", "wait"} /\ rd'.after = FALSE
         /\ (rd'.pc = "idle" => rd' = Idle) /\ (rd'.pc = "wait" => rd'.op = "first" /\ r.ret = "ok" /\ pd'.high_speed)
    <2> DEFINE f == [Idle EXCEPT !.pc = "wait", !.op = "first"]
    <2>1. f \in Calls /\ f.pc = "wait" /\ f.op = "first" /\ f.after = FALSE
      BY RestTypes DEF Calls
    <2> HIDE DEF f
    <2>2. CASE rd' = f /\ r.ret = "ok" /\ pd'.high_speed
      BY <2>1, <2>2
    <2>3. CASE rd' = Idle
      BY <2>3, RestTypes
    <2> QED
      BY <1>2, <1>6, <2>2, <2>3 DEF f
  <1>12. event' \in BOOLEAN /\ late' \in BOOLEAN
    BY <1>2, <1>5
  <1>13. faults' \in 0 .. MaxFaults
    BY <1>2, <1>5, FaultTypes
  <1>14. TypeOK'
    <2>1. held' \subseteq Ids /\ rl' \in Releases
      BY <1>4, <1>5, <1>6
    <2> QED
      BY <1>9, <1>10, <1>11, <1>12, <1>13, <2>1 DEF TypeOK, Calls, Releases, Buffers, Driver
  <1>15. CASE r.ret # "ok"
    <2>1. ~buf'.live /\ ~pd'.open /\ Clean(pd', drv')
      BY <1>2, <1>8, <1>9, <1>15
    <2>2. rd' = Idle /\ rl'.pc = "idle" /\ held' = {}
      BY <1>2, <1>4, <1>6, <1>15
    <2> QED
      BY <1>10, <1>14, <2>1, <2>2, ClosedState
  <1>16. CASE r.ret = "ok"
    <2>1. Opened(pd', drv', n) /\ buf'.live
      BY <1>2, <1>8, <1>9, <1>16
    <2>2. /\ pd'.open /\ pd'.lease = NoLease /\ (pd'.high_speed => pd'.last = None)
          /\ ~pd'.high_speed => Clean(pd', drv')
          /\ pd'.high_speed => /\ drv'.blocks = 0 .. n - 1 /\ drv'.out = <<>>
                               /\ drv'.in = [i \in 1 .. n |-> i - 1]
      BY <2>1 DEF Opened, Clean
    <2>3. SessionInv'
      BY <1>10, <2>1, <2>2 DEF SessionInv
    <2>4. QueueInv'
      <3>1. CASE pd'.high_speed
        <4>1. \A i \in 1 .. n : i - 1 \in 0 .. n - 1
          BY <1>7
        <4>2. DOMAIN drv'.in = 1 .. n /\ \A i \in 1 .. n : drv'.in[i] = i - 1
          BY <2>2, <3>1
        <4>3. DOMAIN drv'.out = {}
          BY <2>2, <3>1
        <4> QED
          BY <2>2, <3>1, <4>1, <4>2, <4>3 DEF QueueInv
      <3>2. CASE ~pd'.high_speed
        <4>1. DOMAIN drv'.in = {} /\ DOMAIN drv'.out = {}
          BY <2>2, <3>2 DEF Clean
        <4> QED
          BY <4>1 DEF QueueInv
      <3> QED
        BY <3>1, <3>2
    <2>5. LeaseInv'
      BY <1>4, <1>6, <2>2 DEF LeaseInv, NoLease
    <2>6. CallInv'
      BY <1>4, <1>6, <1>11, <2>2, RestTypes DEF CallInv
    <2>7. PlaceInv'
      <3> SUFFICES ASSUME NEW b \in drv'.blocks
                   PROVE  /\ Queued(b)' = 1 /\ b \notin held' /\ ~Marking(b)' /\ pd'.last # b
        BY DEF PlaceInv
      <3>1. pd'.high_speed /\ b \in 0 .. n - 1
        BY <2>2 DEF Clean
      <3>2. Copies(drv'.in, b) = 1 /\ Copies(drv'.out, b) = 0
        BY <1>7, <2>2, <3>1, CopiesGranted
      <3>3. pd'.last # b
        BY <1>7, <2>2, <3>1 DEF None
      <3> QED
        BY <1>4, <1>6, <1>11, <3>2, <3>3 DEF Queued, Marking
    <2>8. CancelInv'
      BY <1>11 DEF CancelInv
    <2> QED
      BY <1>14, <2>3, <2>4, <2>5, <2>6, <2>7, <2>8 DEF IndInv
  <1> QED
    BY <1>15, <1>16

\* A device with blocks to give back, or none, is closed.
LEMMA CloseInd ==
    ASSUME IndInv, NEW disabled \in BOOLEAN, Fault \/ NoFault,
           pd' = local_close(pd, drv, disabled)[1], drv' = local_close(pd, drv, disabled)[2],
           pd.open, held = {}, rd' = Idle, buf' \in Buffers, ~buf'.live,
           UNCHANGED <<event, rl, held, late>>
    PROVE  IndInv'
  <1>1. /\ pd \in Pdata /\ drv \in Driver /\ rl \in Releases
        /\ event \in BOOLEAN /\ late \in BOOLEAN /\ faults \in 0 .. MaxFaults
    BY TypeParts DEF IndInv, SessionInv
  <1>2. pd.high_speed \/ Clean(pd, drv)
    BY DEF IndInv, SessionInv
  <1>3. pd' \in Pdata /\ drv' \in Driver /\ ~pd'.open /\ Clean(pd', drv')
    BY <1>1, <1>2, CloseCleans
  <1>4. rl'.pc = "idle" /\ held' = {}
    BY DEF IndInv, LeaseInv
  <1>5. faults' \in 0 .. MaxFaults
    BY <1>1, FaultTypes
  <1>6. event' \in BOOLEAN /\ late' \in BOOLEAN
    BY <1>1
  <1>7. TypeOK'
    <2>1. rd' \in Calls /\ rl' \in Releases
      BY <1>1, RestTypes
    <2> QED
      BY <1>3, <1>4, <1>5, <1>6, <2>1 DEF TypeOK, Calls, Releases, Buffers, Driver
  <1> QED
    BY <1>3, <1>4, <1>7, ClosedState

\* The buffer is destroyed.
LEMMA DestroyInd ==
    ASSUME IndInv, iio_buffer_destroy
    PROVE  IndInv'
  <1>1. PICK disabled \in BOOLEAN :
           /\ IF disabled THEN NoFault ELSE Fault
           /\ pd' = local_close(pd, drv, disabled)[1] /\ drv' = local_close(pd, drv, disabled)[2]
    BY DEF iio_buffer_destroy
  <1>2. /\ buf.live /\ rd.pc = "idle" /\ held = {} /\ UNCHANGED <<event, rd, rl, held, late>>
        /\ buf' = [buf EXCEPT !.live = FALSE, !.lease_mode = FALSE]
    BY DEF iio_buffer_destroy
  <1>3. pd.open /\ rd' = Idle
    BY <1>2 DEF IndInv, SessionInv, CallInv
  <1>4. buf \in Buffers
    BY TypeParts DEF IndInv, SessionInv
  <1>5. buf' \in Buffers /\ ~buf'.live
    BY <1>2, <1>4 DEF Buffers
  <1>6. Fault \/ NoFault
    BY <1>1
  <1> QED
    BY <1>1, <1>2, <1>3, <1>5, <1>6, CloseInd

\* Settings of the buffer, and the cancellation.
LEMMA SettingsInd ==
    ASSUME IndInv, local_set_kernel_buffers_count \/ local_set_blocking_mode \/ local_cancel
    PROVE  IndInv'
  <1>1. /\ pd \in Pdata /\ drv \in Driver /\ rd \in Calls /\ rl \in Releases /\ buf \in Buffers
        /\ late \in BOOLEAN /\ event \in BOOLEAN /\ faults \in 0 .. MaxFaults /\ held \subseteq Ids
    BY TypeParts DEF IndInv, SessionInv
  <1>2. UNCHANGED <<buf, rd, rl, held, drv, late, faults>>
    BY DEF local_set_kernel_buffers_count, local_set_blocking_mode, local_cancel
  <1>3. /\ pd' \in Pdata /\ pd'.open = pd.open /\ pd'.n = pd.n /\ pd'.lease = pd.lease
        /\ pd'.last = pd.last /\ pd'.high_speed = pd.high_speed /\ pd'.cyclic = pd.cyclic
        /\ pd'.enqueued = pd.enqueued
    BY <1>1 DEF local_set_kernel_buffers_count, local_set_blocking_mode, local_cancel, Pdata
  <1>4. event' \in BOOLEAN /\ (event => event')
    BY <1>1 DEF local_set_kernel_buffers_count, local_set_blocking_mode, local_cancel
  <1>5. rd.after => pd'.blocking = pd.blocking
    <2>1. rd.pc = "idle" => ~rd.after
      BY RestTypes DEF IndInv, CallInv
    <2>2. ~pd.open => ~rd.after
      BY RestTypes DEF IndInv, SessionInv
    <2> QED
      BY <1>1, <2>1, <2>2
         DEF local_set_kernel_buffers_count, local_set_blocking_mode, local_cancel, Pdata
  <1>6. TypeOK'
    BY <1>1, <1>2, <1>3, <1>4 DEF TypeOK, Calls, Releases, Buffers, Driver
  <1>7. SessionInv' /\ QueueInv' /\ LeaseInv' /\ CallInv'
    BY <1>2, <1>3 DEF IndInv, SessionInv, QueueInv, LeaseInv, CallInv, Clean
  <1>8. PlaceInv'
    BY <1>2, <1>3 DEF IndInv, PlaceInv, Queued, Marking
  <1>9. CancelInv'
    BY <1>2, <1>4, <1>5 DEF IndInv, CancelInv
  <1> QED
    BY <1>6, <1>7, <1>8, <1>9 DEF IndInv

\* The owner begins a call.
LEMMA CallsInd ==
    ASSUME IndInv, GetBufferCall \/ AcquireCall \/ RawCall
    PROVE  IndInv'
  <1>1. /\ pd \in Pdata /\ drv \in Driver /\ rd \in Calls /\ rl \in Releases /\ buf \in Buffers
        /\ late \in BOOLEAN /\ event \in BOOLEAN /\ faults \in 0 .. MaxFaults /\ held \subseteq Ids
    BY TypeParts DEF IndInv, SessionInv
  <1>2. UNCHANGED <<event, buf, rl, held, drv, late, faults>> /\ rd.pc = "idle" /\ buf.live
    BY DEF GetBufferCall, AcquireCall, RawCall
  <1>3. /\ pd' \in Pdata /\ pd'.open = pd.open /\ pd'.n = pd.n /\ pd'.lease = pd.lease
        /\ pd'.last = pd.last /\ pd'.high_speed = pd.high_speed /\ pd'.cyclic = pd.cyclic
        /\ pd.enqueued => pd'.enqueued
    BY <1>1 DEF GetBufferCall, AcquireCall, RawCall, Pdata
  <1>4. PICK op \in {"get", "acquire", "raw"}, pc \in {"enqueue", "wait"} :
           /\ rd' = [Idle EXCEPT !.pc = pc, !.op = op, !.after = event]
           /\ op # "raw" => pd.high_speed
           /\ pc = "wait" /\ op # "raw" => pd.last = None
           /\ pc = "enqueue" => /\ pd.last # None /\ op = "get"
                                /\ pd.cyclic => pd'.enqueued /\ ~pd.enqueued
    <2>1. CASE GetBufferCall
      <3>1. CASE pd.last # None
        <4>1. rd' = [Idle EXCEPT !.pc = "enqueue", !.op = "get", !.after = event] /\ pd.high_speed
          BY <2>1, <3>1 DEF GetBufferCall, Call
        <4>2. pd.cyclic => pd'.enqueued /\ ~pd.enqueued
          BY <1>1, <2>1, <3>1 DEF GetBufferCall, Pdata
        <4> QED
          BY <3>1, <4>1, <4>2
      <3>2. CASE pd.last = None
        <4>1. rd' = [Idle EXCEPT !.pc = "wait", !.op = "get", !.after = event] /\ pd.high_speed
          BY <2>1, <3>2 DEF GetBufferCall, Call
        <4> QED
          BY <3>2, <4>1
      <3> QED
        BY <3>1, <3>2
    <2>2. CASE AcquireCall
      <3>1. rd' = [Idle EXCEPT !.pc = "wait", !.op = "acquire", !.after = event] /\ pd.high_speed
            /\ pd.last = None
        BY <2>2 DEF AcquireCall, Call
      <3> QED
        BY <3>1
    <2>3. CASE RawCall
      <3>1. rd' = [Idle EXCEPT !.pc = "wait", !.op = "raw", !.after = event]
        BY <2>3 DEF RawCall, Call
      <3> QED
        BY <3>1
    <2> QED
      BY <2>1, <2>2, <2>3
  <1>5. rd' \in Calls /\ rd'.pc = pc /\ rd'.op = op
    BY <1>1, <1>4, RestTypes DEF Calls
  <1>6. rd'.after = event
    BY <1>4, RestTypes DEF Calls
  <1>7. pd.open
    BY <1>2 DEF IndInv, SessionInv
  <1>8. TypeOK'
    BY <1>1, <1>2, <1>3, <1>5 DEF TypeOK, Calls, Releases, Buffers, Driver
  <1>9. SessionInv' /\ QueueInv' /\ LeaseInv'
    BY <1>2, <1>3, <1>7 DEF IndInv, SessionInv, QueueInv, LeaseInv, Clean
  <1>10. CallInv'
    BY <1>3, <1>4, <1>5, <1>7 DEF CallInv
  <1>11. PlaceInv'
    BY <1>2, <1>3, <1>4, <1>5 DEF IndInv, PlaceInv, Queued, Marking
  <1>12. CancelInv'
    BY <1>2, <1>4, <1>5, <1>6 DEF CancelInv
  <1> QED
    BY <1>8, <1>9, <1>10, <1>11, <1>12 DEF IndInv

\* The owner's call ends, or goes on to another of its steps, and leaves the
\* blocks where they are.
LEMMA MoveInd ==
    ASSUME IndInv, UNCHANGED <<pd, drv, buf, event, rl, held>>,
           late' \in BOOLEAN, Fault \/ NoFault,
           rd' \in Calls, rd.pc # "mark", rd'.pc \in {"idle", "wait", "dequeue", "transfer"},
           rd'.pc = "idle" => rd' = Idle, pd.open,
           rd'.op = "first" => rd.op = "first", rd'.pc = "transfer" => rd'.op = "raw",
           rd'.pc = "dequeue" \/ (rd'.pc = "wait" /\ rd'.op # "raw") =>
                pd.high_speed /\ pd.last = None,
           rd'.after => rd.after,
           rd'.after /\ rd'.pc \in {"dequeue", "transfer"} => ~pd.blocking
    PROVE  IndInv'
  <1>1. /\ pd \in Pdata /\ drv \in Driver /\ rd \in Calls /\ rl \in Releases /\ buf \in Buffers
        /\ event \in BOOLEAN /\ faults \in 0 .. MaxFaults /\ held \subseteq Ids
    BY TypeParts DEF IndInv, SessionInv
  <1>2. faults' \in 0 .. MaxFaults
    BY <1>1, FaultTypes
  <1>3. TypeOK'
    BY <1>1, <1>2 DEF TypeOK, Calls, Releases, Buffers, Driver
  <1>4. SessionInv' /\ QueueInv' /\ LeaseInv'
    BY DEF IndInv, SessionInv, QueueInv, LeaseInv, Clean
  <1>5. CallInv'
    BY RestTypes DEF IndInv, CallInv
  <1>6. PlaceInv'
    BY DEF IndInv, PlaceInv, Queued, Marking
  <1>7. CancelInv'
    BY DEF IndInv, CancelInv
  <1> QED
    BY <1>3, <1>4, <1>5, <1>6, <1>7 DEF IndInv

\* A call fails; the one create_buffer makes closes the device.
LEMMA FailsInd ==
    ASSUME IndInv, Fails, Fault \/ NoFault, UNCHANGED <<event, rl, held, late>>,
           rd.pc \in {"wait", "dequeue"}
    PROVE  IndInv'
  <1>1. buf \in Buffers /\ late \in BOOLEAN /\ rd' = Idle
    BY TypeParts DEF IndInv, SessionInv, Fails
  <1>2. pd.open
    BY RestTypes DEF IndInv, SessionInv
  <1>3. CASE rd.op = "first"
    <2>1. /\ pd' = local_close(pd, drv, TRUE)[1] /\ drv' = local_close(pd, drv, TRUE)[2]
          /\ buf' = [buf EXCEPT !.live = FALSE]
      BY <1>3 DEF Fails
    <2>2. buf' \in Buffers /\ ~buf'.live
      BY <1>1, <2>1 DEF Buffers
    <2>3. held = {}
      BY <1>3 DEF IndInv, CallInv
    <2> QED
      BY <1>1, <1>2, <2>1, <2>2, <2>3, CloseInd
  <1>4. CASE rd.op # "first"
    <2>1. UNCHANGED <<pd, drv, buf>>
      BY <1>4 DEF Fails
    <2>2. late' \in BOOLEAN
      BY <1>1
    <2> QED
      BY <1>1, <1>2, <2>1, <2>2, MoveInd, RestTypes
  <1> QED
    BY <1>3, <1>4

\* The poll of device_check_ready returns.
LEMMA ReadyInd ==
    ASSUME IndInv, device_check_ready
    PROVE  IndInv'
  <1>1. /\ rd \in Calls /\ late \in BOOLEAN /\ rd.pc = "wait" /\ UNCHANGED <<event, rl, held, late>>
    BY TypeParts DEF IndInv, SessionInv, device_check_ready
  <1>2. CASE Fails /\ (Fault \/ NoFault)
    BY <1>1, <1>2, FailsInd
  <1>3. CASE /\ ~pd.blocking \/ (~event /\ Ready)
             /\ NoFault /\ rd' = [rd EXCEPT !.pc = Next_pc] /\ UNCHANGED <<pd, drv, buf>>
    <2>1. /\ rd' \in Calls /\ rd'.op = rd.op /\ rd'.after = rd.after
          /\ rd'.pc = IF rd.op = "raw" THEN "transfer" ELSE "dequeue"
      BY <1>1, <1>3 DEF Calls, Next_pc
    <2>2. rd.op # "raw" => pd.high_speed /\ pd.last = None
      BY <1>1 DEF IndInv, CallInv
    <2>3. pd.open
      BY <1>1, RestTypes DEF IndInv, SessionInv
    <2>4. rd'.after => ~pd.blocking
      BY <1>3, <2>1 DEF IndInv, CancelInv
    <2>5. late' \in BOOLEAN
      BY <1>1
    <2> QED
      BY <1>1, <1>3, <2>1, <2>2, <2>3, <2>4, <2>5, MoveInd
  <1> QED
    BY <1>2, <1>3 DEF device_check_ready

\* A chunk of a low-speed transfer.
LEMMA TransferInd ==
    ASSUME IndInv, Transfer
    PROVE  IndInv'
  <1>1. /\ rd \in Calls /\ late \in BOOLEAN /\ rd.pc = "transfer"
        /\ UNCHANGED <<pd, event, buf, rl, held, drv>>
    BY TypeParts DEF IndInv, SessionInv, Transfer
  <1>2. pd.open
    BY <1>1, RestTypes DEF IndInv, SessionInv
  <1>3. CASE rd' = Idle /\ late' \in BOOLEAN /\ (Fault \/ NoFault)
    BY <1>1, <1>2, <1>3, RestTypes, MoveInd
  <1>4. CASE NoFault /\ rd.got + 1 < Want
             /\ rd' = [rd EXCEPT !.pc = "wait", !.got = @ + 1] /\ UNCHANGED late
    <2>1. rd.got + 1 \in 0 .. Want
      BY <1>1, <1>4, WantAssumption DEF Calls
    <2>2. rd' \in Calls /\ rd'.pc = "wait" /\ rd'.op = rd.op /\ rd'.after = rd.after
      BY <1>1, <1>4, <2>1 DEF Calls
    <2>3. rd.op = "raw"
      BY <1>1 DEF IndInv, CallInv
    <2>4. late' \in BOOLEAN
      BY <1>1, <1>4
    <2> QED
      BY <1>1, <1>2, <1>4, <2>2, <2>3, <2>4, MoveInd
  <1>5. CASE NoFault /\ Delivers
    <2>1. late' \in BOOLEAN /\ rd' = Idle
      BY <1>5 DEF Delivers
    <2> QED
      BY <1>3, <1>5, <2>1
  <1>6. CASE Fault /\ rd' = Idle /\ UNCHANGED late
    <2>1. late' \in BOOLEAN
      BY <1>1, <1>6
    <2> QED
      BY <1>3, <1>6, <2>1
  <1> QED
    BY <1>4, <1>5, <1>6 DEF Transfer

\* local_get_buffer returns the block of the last call to the driver.
LEMMA EnqueueInd ==
    ASSUME IndInv, GetBufferEnqueue
    PROVE  IndInv'
  <1>1. /\ pd \in Pdata /\ drv \in Driver /\ rd \in Calls /\ rl \in Releases /\ buf \in Buffers
        /\ late \in BOOLEAN /\ event \in BOOLEAN /\ faults \in 0 .. MaxFaults /\ held \subseteq Ids
    BY TypeParts DEF IndInv, SessionInv
  <1>2. rd.pc = "enqueue" /\ UNCHANGED <<event, buf, rl, held>>
    BY DEF GetBufferEnqueue
  <1> DEFINE x == pd.last
  <1>3. /\ pd.open /\ pd.high_speed /\ x # None /\ x \in drv.blocks
        /\ pd.cyclic => pd.enqueued
    BY <1>2 DEF IndInv, CallInv, SessionInv
  <1>4. Queued(x) = 0 /\ x \notin held
    BY <1>2, <1>3 DEF IndInv, PlaceInv
  <1>5. CASE Fault /\ rd' = Idle /\ UNCHANGED <<pd, drv, late>>
    <2>1. late' \in BOOLEAN
      BY <1>1, <1>5
    <2> QED
      BY <1>2, <1>3, <1>5, <2>1, RestTypes, MoveInd
  <1>6. CASE NoFault /\ drv' = [drv EXCEPT !.in = Append(@, x)]
             /\ IF pd.cyclic
                THEN pd' = pd /\ Delivers
                ELSE /\ pd' = [pd EXCEPT !.last = None]
                     /\ rd' = [rd EXCEPT !.pc = "wait"] /\ UNCHANGED late
    <2>1. /\ drv' \in Driver /\ QueueInv' /\ drv'.blocks = drv.blocks
          /\ \A b : Queued(b)' = Queued(b) + IF x = b THEN 1 ELSE 0
          /\ \A b : Queued(b) \in Nat
      BY <1>1, <1>3, <1>6, Enqueued DEF IndInv
    <2>2. \A b \in drv.blocks : /\ b = x => Queued(b)' = 1
                                /\ b # x => Queued(b)' = Queued(b)
      BY <1>4, <2>1
    <2>3. pd' \in Pdata /\ pd'.open /\ pd'.high_speed /\ pd'.lease = pd.lease
          /\ (pd.cyclic => pd' = pd) /\ pd'.cyclic = pd.cyclic /\ pd'.blocking = pd.blocking
          /\ pd'.enqueued = pd.enqueued /\ pd'.n = pd.n /\ (~pd.cyclic => pd'.last = None)
      BY <1>1, <1>3, <1>6 DEF Pdata
    <2>4. /\ rd' \in Calls /\ rd'.pc = IF pd.cyclic THEN "idle" ELSE "wait"
          /\ pd.cyclic => rd' = Idle
          /\ ~pd.cyclic => rd'.op = rd.op
      BY <1>1, <1>6, RestTypes DEF Calls, Delivers
    <2>5. rd'.after => rd.after
      BY <1>1, <1>6, RestTypes DEF Calls, Delivers
    <2>6. late' \in BOOLEAN
      BY <1>1, <1>6 DEF Delivers
    <2>7. faults' \in 0 .. MaxFaults
      BY <1>1, <1>6, FaultTypes
    <2>8. TypeOK'
      BY <1>1, <1>2, <2>1, <2>3, <2>4, <2>6, <2>7 DEF TypeOK, Calls, Releases, Buffers, Driver
    <2>9. SessionInv'
      BY <1>2, <1>3, <2>1, <2>3 DEF IndInv, SessionInv
    <2>10. LeaseInv'
      BY <1>2, <2>1, <2>3 DEF IndInv, LeaseInv
    <2>11. CallInv'
      BY <1>2, <2>3, <2>4, RestTypes DEF IndInv, CallInv
    <2>12. PlaceInv'
      <3> SUFFICES ASSUME NEW b \in drv.blocks
                   PROVE  /\ Queued(b)' \in {0, 1}
                          /\ b \in held \/ Marking(b)' \/ (pd'.last = b /\ ~pd'.cyclic) => Queued(b)' = 0
                          /\ b \notin held /\ ~Marking(b)' /\ pd'.last # b => Queued(b)' = 1
                          /\ ~(pd'.last = b /\ b \in held) /\ ~(b \in held /\ Marking(b)')
                          /\ pd'.cyclic /\ pd'.last = b /\ Queued(b)' # 0 =>
                                pd'.enqueued /\ rd'.pc # "enqueue"
        BY <1>2, <2>1 DEF PlaceInv
      <3>1. ~Marking(b) /\ ~Marking(b)' /\ rd'.pc # "enqueue"
        BY <1>2, <2>4 DEF Marking
      <3>2. b # None
        BY <1>1 DEF Driver, Ids, None
      <3>3. CASE b = x
        BY <1>3, <1>4, <2>2, <2>3, <3>1, <3>2, <3>3
      <3>4. CASE b # x
        <4>1. /\ Queued(b)' = Queued(b) /\ Queued(b) \in {0, 1} /\ pd'.last # b
              /\ b \in held => Queued(b) = 0
              /\ b \notin held => Queued(b) = 1
          BY <2>2, <2>3, <3>1, <3>2, <3>4 DEF IndInv, PlaceInv
        <4> QED
          BY <3>1, <4>1
      <3> QED
        BY <3>3, <3>4
    <2>13. CancelInv'
      BY <1>2, <2>3, <2>4, <2>5 DEF IndInv, CancelInv
    <2> QED
      BY <2>1, <2>8, <2>9, <2>10, <2>11, <2>12, <2>13 DEF IndInv
  <1> QED
    BY <1>5, <1>6 DEF GetBufferEnqueue

\* A block is dequeued, or none is there, or the call fails.
LEMMA DequeueInd ==
    ASSUME IndInv, Dequeue
    PROVE  IndInv'
  <1>1. /\ pd \in Pdata /\ drv \in Driver /\ rd \in Calls /\ rl \in Releases /\ buf \in Buffers
        /\ late \in BOOLEAN /\ event \in BOOLEAN /\ faults \in 0 .. MaxFaults /\ held \subseteq Ids
    BY TypeParts DEF IndInv, SessionInv
  <1>2. rd.pc = "dequeue" /\ UNCHANGED <<event, rl, held>>
    BY DEF Dequeue
  <1>3. pd.open /\ pd.high_speed /\ pd.last = None
    BY <1>2 DEF IndInv, CallInv
  <1>4. CASE Fails /\ (Fault \/ NoFault) /\ UNCHANGED late
    BY <1>2, <1>4, FailsInd
  <1>5. CASE NoFault /\ rd' = [rd EXCEPT !.pc = "wait"] /\ UNCHANGED <<pd, drv, buf, late>>
    <2>1. rd' \in Calls /\ rd'.pc = "wait" /\ rd'.op = rd.op /\ rd'.after = rd.after
      BY <1>1, <1>5 DEF Calls
    <2>2. late' \in BOOLEAN
      BY <1>1, <1>5
    <2> QED
      BY <1>2, <1>3, <1>5, <2>1, <2>2, MoveInd
  <1> DEFINE x == Head(drv.out)
  <1>6. CASE /\ drv.out # <<>> /\ NoFault
             /\ drv' = [drv EXCEPT !.out = Tail(@)]
             /\ IF rd.op = "acquire"
                THEN rd' = [rd EXCEPT !.pc = "mark", !.blk = x] /\ UNCHANGED <<pd, late>>
                ELSE pd' = [pd EXCEPT !.last = x] /\ Delivers
             /\ UNCHANGED buf
    <2>1. /\ drv' \in Driver /\ QueueInv' /\ drv'.blocks = drv.blocks /\ x \in drv.blocks
          /\ \A b : Queued(b)' = Queued(b) - IF x = b THEN 1 ELSE 0
          /\ \A b : Queued(b) \in Nat /\ Queued(b)' \in Nat
      BY <1>1, <1>6, Dequeued DEF IndInv
    <2> HIDE DEF x
    <2>2. x \in Ids /\ x # None
      BY <1>1, <2>1 DEF Driver, Ids, None
    <2>3. \A b \in drv.blocks : /\ b # x => Queued(b)' = Queued(b)
                                /\ b = x => Queued(b)' = 0 /\ Queued(b) = 1
      <3> TAKE b \in drv.blocks
      <3>1. Queued(b) \in {0, 1} /\ Queued(b)' \in Nat
        BY <2>1 DEF IndInv, PlaceInv
      <3>2. Queued(b)' = Queued(b) - IF x = b THEN 1 ELSE 0
        BY <2>1
      <3> QED
        BY <3>1, <3>2
    <2>4. x \notin held
      BY <2>1, <2>3 DEF IndInv, PlaceInv
    <2>5. /\ pd' \in Pdata /\ pd'.open /\ pd'.high_speed /\ pd'.lease = pd.lease
          /\ pd'.cyclic = pd.cyclic /\ pd'.blocking = pd.blocking
          /\ rd.op = "acquire" => pd'.last = None
          /\ rd.op # "acquire" => pd'.last = x
      BY <1>1, <1>3, <1>6, <2>2 DEF Pdata
    <2>6. /\ rd' \in Calls
          /\ rd.op = "acquire" => rd'.pc = "mark" /\ rd'.blk = x /\ rd'.op = "acquire"
          /\ rd.op # "acquire" => rd' = Idle
      BY <1>1, <1>6, <2>2, RestTypes DEF Calls, Delivers
    <2>7. rd'.after => rd.after
      BY <1>1, <1>6, RestTypes DEF Calls, Delivers
    <2>8. late' \in BOOLEAN
      BY <1>1, <1>6 DEF Delivers
    <2>9. faults' \in 0 .. MaxFaults
      BY <1>1, <1>6, FaultTypes
    <2>10. TypeOK'
      BY <1>1, <1>2, <1>6, <2>1, <2>5, <2>6, <2>8, <2>9
         DEF TypeOK, Calls, Releases, Buffers, Driver
    <2>11. SessionInv'
      BY <1>3, <1>6, <2>1, <2>5 DEF IndInv, SessionInv
    <2>12. LeaseInv'
      BY <1>2, <2>1, <2>5 DEF IndInv, LeaseInv
    <2>13. CallInv'
      BY <1>2, <2>1, <2>5, <2>6, RestTypes DEF IndInv, CallInv
    <2>14. PlaceInv'
      <3> SUFFICES ASSUME NEW b \in drv.blocks
                   PROVE  /\ Queued(b)' \in {0, 1}
                          /\ b \in held \/ Marking(b)' \/ (pd'.last = b /\ ~pd'.cyclic) => Queued(b)' = 0
                          /\ b \notin held /\ ~Marking(b)' /\ pd'.last # b => Queued(b)' = 1
                          /\ ~(pd'.last = b /\ b \in held) /\ ~(b \in held /\ Marking(b)')
                          /\ pd'.cyclic /\ pd'.last = b /\ Queued(b)' # 0 =>
                                pd'.enqueued /\ rd'.pc # "enqueue"
        BY <1>2, <2>1 DEF PlaceInv
      <3>1. ~Marking(b) /\ b # None
        BY <1>1, <1>2 DEF Marking, Driver, Ids, None
      <3>2. CASE b = x
        <4>1. Marking(b)' \/ pd'.last = b
          BY <2>5, <2>6, <3>2 DEF Marking
        <4> QED
          BY <2>3, <2>4, <3>2, <4>1
      <3>3. CASE b # x
        <4>1. ~Marking(b)' /\ pd'.last # b
          BY <2>5, <2>6, <3>1, <3>3, RestTypes DEF Marking
        <4>2. /\ Queued(b)' = Queued(b) /\ Queued(b) \in {0, 1}
              /\ b \in held => Queued(b) = 0
              /\ b \notin held => Queued(b) = 1
          BY <1>3, <2>3, <3>1, <3>3 DEF IndInv, PlaceInv
        <4> QED
          BY <4>1, <4>2
      <3> QED
        BY <3>2, <3>3
    <2>15. CancelInv'
      BY <1>2, <2>5, <2>7 DEF IndInv, CancelInv
    <2> QED
      BY <2>1, <2>10, <2>11, <2>12, <2>13, <2>14, <2>15 DEF IndInv
  <1> QED
    BY <1>4, <1>5, <1>6 DEF Dequeue

\* The block just dequeued bears no mark: it is marked and leased.
LEMMA MarkInd ==
    ASSUME IndInv, AcquireMark
    PROVE  IndInv'
  <1>1. /\ pd \in Pdata /\ drv \in Driver /\ rd \in Calls /\ rl \in Releases /\ buf \in Buffers
        /\ late \in BOOLEAN /\ event \in BOOLEAN /\ faults \in 0 .. MaxFaults /\ held \subseteq Ids
    BY TypeParts DEF IndInv, SessionInv
  <1> DEFINE x == rd.blk
  <1>2. rd.pc = "mark" /\ UNCHANGED <<event, rl, faults>>
    BY DEF AcquireMark
  <1>3. /\ pd.open /\ pd.high_speed /\ pd.last = None /\ x \in drv.blocks /\ x \in Ids
        /\ Marking(x)
    BY <1>1, <1>2 DEF IndInv, CallInv, Driver, Marking
  <1>4. x \notin held /\ Queued(x) = 0
    BY <1>3 DEF IndInv, PlaceInv
  <1>5. ~pd.lease[x]
    BY <1>3, <1>4 DEF IndInv, LeaseInv
  <1>6. /\ pd' = [pd EXCEPT !.lease[x] = TRUE] /\ held' = held \cup {x}
        /\ buf' = [buf EXCEPT !.lease_mode = TRUE] /\ drv' = drv
        /\ rd' = Idle
    BY <1>5 DEF AcquireMark, Delivers
  <1>7. late' \in BOOLEAN
    BY <1>5 DEF AcquireMark, Delivers
  <1>8. /\ pd' \in Pdata /\ pd'.open /\ pd'.high_speed /\ pd'.last = None
        /\ pd'.lease = [pd.lease EXCEPT ![x] = TRUE] /\ pd'.cyclic = pd.cyclic
    BY <1>1, <1>3, <1>6 DEF Pdata
  <1>9. buf' \in Buffers /\ buf'.live = buf.live
    BY <1>1, <1>6 DEF Buffers
  <1>10. TypeOK'
    <2>1. held' \subseteq Ids /\ rd' \in Calls
      BY <1>1, <1>3, <1>6, RestTypes
    <2> QED
      BY <1>1, <1>2, <1>6, <1>7, <1>8, <1>9, <2>1 DEF TypeOK, Calls, Releases, Buffers, Driver
  <1>11. SessionInv' /\ QueueInv'
    BY <1>3, <1>6, <1>8, <1>9 DEF IndInv, SessionInv, QueueInv
  <1>12. LeaseInv'
    <2>1. pd.lease \in [Ids -> BOOLEAN]
      BY <1>1 DEF Pdata
    <2>2. held' \subseteq drv'.blocks
      BY <1>3, <1>6 DEF IndInv, LeaseInv
    <2>3. rl'.pc # "idle" => rl'.blk \in held' /\ rl'.blk # x
      BY <1>2, <1>4, <1>6 DEF IndInv, LeaseInv
    <2>4. ASSUME NEW b \in Ids
          PROVE  pd'.lease[b] <=> b \in held' /\ ~(rl'.pc # "idle" /\ rl'.blk = b)
      <3>1. CASE b = x
        BY <1>3, <1>6, <1>8, <2>1, <2>3, <3>1
      <3>2. CASE b # x
        <4>1. pd'.lease[b] = pd.lease[b] /\ (b \in held' <=> b \in held)
          BY <1>6, <1>8, <2>1, <3>2
        <4> QED
          BY <1>2, <4>1 DEF IndInv, LeaseInv
      <3> QED
        BY <3>1, <3>2
    <2> QED
      BY <2>2, <2>3, <2>4 DEF LeaseInv
  <1>13. CallInv' /\ CancelInv'
    BY <1>6, RestTypes DEF CallInv, CancelInv
  <1>14. PlaceInv'
    <2> SUFFICES ASSUME NEW b \in drv.blocks
                 PROVE  /\ Queued(b) \in {0, 1}
                        /\ b \in held' \/ Marking(b)' => Queued(b) = 0
                        /\ b \notin held' /\ ~Marking(b)' => Queued(b) = 1
                        /\ ~Marking(b)' /\ pd'.last # b
      BY <1>6 DEF PlaceInv, Queued
    <2>1. ~Marking(b)' /\ pd'.last # b /\ pd.last # b
      BY <1>1, <1>3, <1>6, <1>8, RestTypes DEF Marking, Driver, Ids, None
    <2>2. CASE b = x
      BY <1>4, <1>6, <2>1, <2>2
    <2>3. CASE b # x
      <3>1. ~Marking(b) /\ (b \in held' <=> b \in held)
        BY <1>6, <2>3 DEF Marking
      <3> QED
        BY <2>1, <3>1 DEF IndInv, PlaceInv
    <2> QED
      BY <2>2, <2>3
  <1> QED
    BY <1>10, <1>11, <1>12, <1>13, <1>14 DEF IndInv

\* A lease is being given back: the mark comes off, or goes on again.
LEMMA ReleaseMarkInd ==
    ASSUME IndInv, ReleaseUnmark \/ ReleaseUndo
    PROVE  IndInv'
  <1>1. /\ pd \in Pdata /\ drv \in Driver /\ rd \in Calls /\ rl \in Releases /\ buf \in Buffers
        /\ late \in BOOLEAN /\ event \in BOOLEAN /\ faults \in 0 .. MaxFaults /\ held \subseteq Ids
    BY TypeParts DEF IndInv, SessionInv
  <1>2. UNCHANGED <<event, buf, rd, held, drv, late, faults>>
    BY DEF ReleaseUnmark, ReleaseUndo
  <1>3. PICK x \in held, mark \in BOOLEAN :
           /\ pd' = [pd EXCEPT !.lease[x] = mark] /\ rl' \in Releases
           /\ mark => rl.blk = x /\ rl'.pc = "idle"
           /\ ~mark => rl.pc = "idle" /\ rl'.pc = "enqueue" /\ rl'.blk = x
    <2>1. CASE ReleaseUnmark
      <3>1. PICK b \in held : /\ pd' = [pd EXCEPT !.lease[b] = FALSE]
                              /\ rl' = [pc |-> "enqueue", blk |-> b]
        BY <2>1 DEF ReleaseUnmark
      <3>2. rl' \in Releases /\ rl'.pc = "enqueue" /\ rl'.blk = b
        BY <1>1, <3>1 DEF Releases
      <3>3. rl.pc = "idle"
        BY <2>1 DEF ReleaseUnmark
      <3> QED
        BY <3>1, <3>2, <3>3
    <2>2. CASE ReleaseUndo
      <3>1. rl.pc = "undo" /\ pd' = [pd EXCEPT !.lease[rl.blk] = TRUE] /\ rl' = IdleRelease
        BY <2>2 DEF ReleaseUndo
      <3>2. rl.blk \in held
        BY <3>1 DEF IndInv, LeaseInv
      <3> QED
        BY <3>1, <3>2, RestTypes
    <2> QED
      BY <2>1, <2>2
  <1>4. /\ pd' \in Pdata /\ pd'.lease = [pd.lease EXCEPT ![x] = mark] /\ x \in Ids
        /\ pd'.open = pd.open /\ pd'.n = pd.n /\ pd'.last = pd.last
        /\ pd'.high_speed = pd.high_speed /\ pd'.cyclic = pd.cyclic
        /\ pd'.enqueued = pd.enqueued /\ pd'.blocking = pd.blocking
    BY <1>1, <1>3 DEF Pdata
  <1>5. TypeOK'
    BY <1>1, <1>2, <1>3, <1>4 DEF TypeOK, Calls, Releases, Buffers, Driver
  <1>6. pd.open /\ pd.high_speed
    BY <1>3 DEF IndInv, SessionInv, LeaseInv, Clean
  <1>7. SessionInv' /\ QueueInv' /\ CallInv'
    BY <1>2, <1>4, <1>6 DEF IndInv, SessionInv, QueueInv, CallInv
  <1>8. LeaseInv'
    <2>1. pd.lease \in [Ids -> BOOLEAN]
      BY <1>1 DEF Pdata
    <2>2. rl'.pc # "idle" => rl'.blk \in held
      BY <1>3
    <2>3. ASSUME NEW b \in Ids
          PROVE  pd'.lease[b] <=> b \in held /\ ~(rl'.pc # "idle" /\ rl'.blk = b)
      <3>1. CASE b = x
        <4>1. pd'.lease[b] = mark
          BY <1>4, <2>1, <3>1
        <4> QED
          BY <1>3, <3>1, <4>1
      <3>2. CASE b # x
        <4>1. pd'.lease[b] = pd.lease[b]
          BY <1>4, <2>1, <3>2
        <4>2. ~(rl'.pc # "idle" /\ rl'.blk = b) /\ ~(rl.pc # "idle" /\ rl.blk = b)
          BY <1>3, <3>2
        <4> QED
          BY <4>1, <4>2 DEF IndInv, LeaseInv
      <3> QED
        BY <3>1, <3>2
    <2> QED
      BY <1>2, <2>2, <2>3 DEF IndInv, LeaseInv
  <1>9. PlaceInv'
    BY <1>2, <1>4 DEF IndInv, PlaceInv, Queued, Marking
  <1>10. CancelInv'
    BY <1>2, <1>4 DEF IndInv, CancelInv
  <1> QED
    BY <1>5, <1>7, <1>8, <1>9, <1>10 DEF IndInv

\* The driver takes the released block, or refuses it.
LEMMA ReleaseEnqueueInd ==
    ASSUME IndInv, ReleaseEnqueue
    PROVE  IndInv'
  <1>1. /\ pd \in Pdata /\ drv \in Driver /\ rd \in Calls /\ rl \in Releases /\ buf \in Buffers
        /\ late \in BOOLEAN /\ event \in BOOLEAN /\ faults \in 0 .. MaxFaults /\ held \subseteq Ids
    BY TypeParts DEF IndInv, SessionInv
  <1>2. rl.pc = "enqueue" /\ UNCHANGED <<pd, event, buf, rd, late>> /\ (Fault \/ NoFault)
    BY DEF ReleaseEnqueue
  <1> DEFINE x == rl.blk
  <1>3. x \in held /\ x \in drv.blocks /\ pd.open /\ pd.high_speed
    BY <1>2 DEF IndInv, LeaseInv, SessionInv, Clean
  <1>4. faults' \in 0 .. MaxFaults
    BY <1>1, <1>2, FaultTypes
  <1>5. CASE rl' = [rl EXCEPT !.pc = "undo"] /\ UNCHANGED <<drv, held>>
    <2>1. rl' \in Releases /\ rl'.pc = "undo" /\ rl'.blk = rl.blk
      BY <1>1, <1>5 DEF Releases
    <2>2. TypeOK'
      BY <1>1, <1>2, <1>4, <1>5, <2>1 DEF TypeOK, Calls, Releases, Buffers, Driver
    <2>3. LeaseInv'
      BY <1>2, <1>5, <2>1 DEF IndInv, LeaseInv
    <2>4. SessionInv' /\ QueueInv' /\ CallInv' /\ CancelInv'
      BY <1>2, <1>5 DEF IndInv, SessionInv, QueueInv, CallInv, CancelInv
    <2>5. PlaceInv'
      BY <1>2, <1>5 DEF IndInv, PlaceInv, Queued, Marking
    <2> QED
      BY <2>2, <2>3, <2>4, <2>5 DEF IndInv
  <1>6. CASE /\ rl' = IdleRelease /\ drv' = [drv EXCEPT !.in = Append(@, x)]
             /\ held' = held \ {x}
    <2>1. /\ drv' \in Driver /\ QueueInv' /\ drv'.blocks = drv.blocks
          /\ \A b : Queued(b)' = Queued(b) + IF x = b THEN 1 ELSE 0
          /\ \A b : Queued(b) \in Nat
      BY <1>1, <1>3, <1>6, Enqueued DEF IndInv
    <2>2. rl' \in Releases /\ rl'.pc = "idle"
      BY <1>6, RestTypes
    <2>3. TypeOK'
      BY <1>1, <1>2, <1>4, <1>6, <2>1, <2>2 DEF TypeOK, Calls, Releases, Buffers, Driver
    <2>4. SessionInv'
      BY <1>2, <1>3, <2>1 DEF IndInv, SessionInv
    <2>5. LeaseInv'
      <3>1. held' \subseteq drv'.blocks
        BY <1>6, <2>1 DEF IndInv, LeaseInv
      <3>2. ASSUME NEW b \in Ids PROVE pd'.lease[b] <=> b \in held'
        <4>1. pd.lease[b] <=> b \in held /\ ~(rl.pc # "idle" /\ rl.blk = b)
          BY DEF IndInv, LeaseInv
        <4>2. b \in held' <=> b \in held /\ b # rl.blk
          BY <1>6
        <4> QED
          BY <1>2, <4>1, <4>2
      <3> QED
        BY <2>2, <3>1, <3>2 DEF LeaseInv
    <2>6. CallInv' /\ CancelInv'
      BY <1>2, <1>3, <1>6, <2>1 DEF IndInv, CallInv, CancelInv
    <2>7. PlaceInv'
      <3> SUFFICES ASSUME NEW b \in drv.blocks
                   PROVE  /\ Queued(b)' \in {0, 1}
                          /\ b \in held' \/ Marking(b) \/ (pd.last = b /\ ~pd.cyclic) => Queued(b)' = 0
                          /\ b \notin held' /\ ~Marking(b) /\ pd.last # b => Queued(b)' = 1
                          /\ ~(pd.last = b /\ b \in held') /\ ~(b \in held' /\ Marking(b))
                          /\ pd.cyclic /\ pd.last = b /\ Queued(b)' # 0 =>
                                pd.enqueued /\ rd.pc # "enqueue"
        BY <1>2, <2>1 DEF PlaceInv, Marking
      <3>1. /\ Queued(b)' = Queued(b) + IF x = b THEN 1 ELSE 0
            /\ b \in held' <=> b \in held /\ b # x
        BY <1>6, <2>1
      <3>2. CASE b = x
        <4>1. Queued(b) = 0 /\ pd.last # b /\ ~Marking(b)
          BY <1>3, <3>2 DEF IndInv, PlaceInv
        <4> QED
          BY <3>1, <3>2, <4>1
      <3>3. CASE b # x
        <4>1. Queued(b)' = Queued(b) /\ (b \in held' <=> b \in held)
          BY <2>1, <3>1, <3>3
        <4> QED
          BY <4>1 DEF IndInv, PlaceInv
      <3> QED
        BY <3>2, <3>3
    <2> QED
      BY <2>1, <2>3, <2>4, <2>5, <2>6, <2>7 DEF IndInv
  <1> QED
    BY <1>5, <1>6 DEF ReleaseEnqueue

\* The hardware is done with a block.
LEMMA HardwareInd ==
    ASSUME IndInv, Hardware
    PROVE  IndInv'
  <1>1. UNCHANGED <<pd, event, buf, rd, rl, held, late, faults>>
    BY DEF Hardware
  <1>2. /\ drv' \in Driver /\ QueueInv' /\ drv'.blocks = drv.blocks
        /\ \A b : Queued(b)' = Queued(b)
    BY Moved DEF IndInv, SessionInv
  <1>3. pd.open /\ pd.high_speed
    BY DEF IndInv, SessionInv, Clean, Hardware
  <1>4. TypeOK'
    BY <1>1, <1>2 DEF IndInv, TypeOK, Driver
  <1>5. SessionInv' /\ LeaseInv' /\ CallInv' /\ CancelInv'
    BY <1>1, <1>2, <1>3 DEF IndInv, SessionInv, LeaseInv, CallInv, CancelInv
  <1>6. PlaceInv'
    BY <1>1, <1>2 DEF IndInv, PlaceInv, Marking
  <1> QED
    BY <1>2, <1>4, <1>5, <1>6 DEF IndInv

-----------------------------------------------------------------------------
(* The specification *)

\* Every step of the three threads and of the hardware keeps the invariant.
LEMMA StepInd == IndInv /\ [Next]_vars => IndInv'
  <1> SUFFICES ASSUME IndInv, [Next]_vars PROVE IndInv'
    OBVIOUS
  <1>1. CASE create_buffer
    BY <1>1, CreateInd
  <1>2. CASE iio_buffer_destroy
    BY <1>2, DestroyInd
  <1>3. CASE local_set_kernel_buffers_count \/ local_set_blocking_mode \/ local_cancel
    BY <1>3, SettingsInd
  <1>4. CASE GetBufferCall \/ AcquireCall \/ RawCall
    BY <1>4, CallsInd
  <1>5. CASE GetBufferEnqueue
    BY <1>5, EnqueueInd
  <1>6. CASE device_check_ready
    BY <1>6, ReadyInd
  <1>7. CASE Dequeue
    BY <1>7, DequeueInd
  <1>8. CASE AcquireMark
    BY <1>8, MarkInd
  <1>9. CASE Transfer
    BY <1>9, TransferInd
  <1>10. CASE ReleaseUnmark \/ ReleaseUndo
    BY <1>10, ReleaseMarkInd
  <1>11. CASE ReleaseEnqueue
    BY <1>11, ReleaseEnqueueInd
  <1>12. CASE Hardware
    BY <1>12, HardwareInd
  <1>13. CASE UNCHANGED vars
    <2>1. UNCHANGED <<pd, event, buf, rd, rl, held, drv, late, faults>>
      BY <1>13 DEF vars
    <2>2. TypeOK' /\ SessionInv' /\ QueueInv' /\ LeaseInv' /\ CallInv' /\ CancelInv'
      BY <2>1 DEF IndInv, TypeOK, SessionInv, QueueInv, LeaseInv, CallInv, CancelInv, Clean
    <2>3. PlaceInv'
      BY <2>1 DEF IndInv, PlaceInv, Queued, Marking
    <2> QED
      BY <2>2, <2>3 DEF IndInv
  <1> QED
    BY <1>1, <1>2, <1>3, <1>4, <1>5, <1>6, <1>7, <1>8, <1>9, <1>10, <1>11, <1>12, <1>13
       DEF Next, Owner

\* The invariant says where every block is.
LEMMA EveryBlockOnce == IndInv => BlocksSound
  <1> SUFFICES ASSUME IndInv PROVE BlocksSound
    OBVIOUS
  <1>1. TypeOK
    BY DEF IndInv
  <1>2. ASSUME NEW b \in drv.blocks
        PROVE  Copies(drv.in, b) + Copies(drv.out, b) = IF WithProgram(b) THEN 0 ELSE 1
    <2>1. drv.in \in Seq(Ids) /\ drv.out \in Seq(Ids)
      BY DEF IndInv, SessionInv, Driver
    <2>2. /\ Copies(drv.in, b) \in Nat /\ Copies(drv.out, b) \in Nat
          /\ Copies(drv.in, b) = 0 <=> b \notin Range(drv.in)
          /\ Copies(drv.out, b) = 0 <=> b \notin Range(drv.out)
      BY <2>1, CopiesFinite DEF Range
    <2>3. InDriver(b) <=> Queued(b) # 0
      BY <2>2 DEF InDriver, Queued
    <2>4. /\ Queued(b) \in {0, 1}
          /\ b \in held \/ Marking(b) \/ (pd.last = b /\ ~pd.cyclic) => Queued(b) = 0
          /\ b \notin held /\ ~Marking(b) /\ pd.last # b => Queued(b) = 1
      BY DEF IndInv, PlaceInv
    <2>5. WithProgram(b) <=> \/ pd.last = b /\ ~(pd.cyclic /\ Queued(b) # 0)
                             \/ b \in held \/ Marking(b)
      BY <2>3 DEF WithProgram, Marking
    <2>6. Queued(b) = IF WithProgram(b) THEN 0 ELSE 1
      BY <2>4, <2>5
    <2> QED
      BY <2>6 DEF Queued
  <1>3. ASSUME NEW b \in drv.blocks
        PROVE  Cardinality({w \in 1 .. 3 : \/ w = 1 /\ pd.last = b
                                           \/ w = 2 /\ b \in held
                                           \/ w = 3 /\ rd.pc = "mark" /\ rd.blk = b}) <= 1
    <2> DEFINE W == {w \in 1 .. 3 : \/ w = 1 /\ pd.last = b
                                    \/ w = 2 /\ b \in held
                                    \/ w = 3 /\ rd.pc = "mark" /\ rd.blk = b}
    <2>1. ~(pd.last = b /\ b \in held) /\ ~(b \in held /\ Marking(b))
      BY DEF IndInv, PlaceInv
    <2>2. ~(pd.last = b /\ Marking(b))
      <3>1. Marking(b) => pd.last = None
        BY DEF IndInv, CallInv, Marking
      <3>2. b # None
        BY DEF IndInv, SessionInv, Driver, Ids, None
      <3> QED
        BY <3>1, <3>2
    <2>3. W = {} \/ \E w \in 1 .. 3 : W = {w}
      BY <2>1, <2>2 DEF Marking
    <2> HIDE DEF W
    <2>4. Cardinality(W) \in {0, 1}
      BY <2>3, FS_EmptySet, FS_Singleton
    <2> QED
      BY <2>4 DEF W
  <1>4. BlocksConserved
    BY <1>2, <1>3 DEF BlocksConserved
  <1>5. NoSpuriousLease
    <2> SUFFICES ASSUME rd.pc = "mark" PROVE ~pd.lease[rd.blk]
      BY DEF NoSpuriousLease
    <2>1. rd.blk \in drv.blocks /\ Marking(rd.blk)
      BY DEF IndInv, CallInv, Marking
    <2>2. rd.blk \notin held /\ rd.blk \in Ids
      BY <2>1 DEF IndInv, PlaceInv, SessionInv, Driver
    <2> QED
      BY <2>2 DEF IndInv, LeaseInv
  <1>6. ClosedClean
    BY DEF IndInv, SessionInv, Clean, ClosedClean
  <1> QED
    BY <1>1, <1>4, <1>5, <1>6 DEF BlocksSound

\* The inductive invariant holds in every state, for every number of blocks.
THEOREM BlocksInvariant == Spec => []IndInv
  BY InitInd, StepInd, PTL DEF Spec

\* No block of the local backend is lost or doubled, a block that is dequeued is
\* never marked as leased, and a closed device has nothing left of its blocks.
THEOREM BlocksAreSound == Spec => []BlocksSound
  BY BlocksInvariant, EveryBlockOnce, PTL

\* A call that begins after iio_buffer_cancel delivers nothing while the buffer
\* is blocking, whichever thread cancelled and however the call waits.
THEOREM CancelledCallsDeliverNothing == Spec => CancelSticks
  <1>1. IndInv /\ [Next]_vars => [late' /\ ~late => ~pd.blocking \/ pd.cyclic]_vars
    <2> SUFFICES ASSUME IndInv, Next, late', ~late, pd.blocking, ~pd.cyclic
                 PROVE  FALSE
      OBVIOUS
    <2>1. Delivers /\ rd.pc \in {"enqueue", "dequeue", "mark", "transfer"}
          /\ (rd.pc = "enqueue" => pd.cyclic)
      <3>1. CASE create_buffer
        <4>1. late' = late \/ late' = FALSE
          BY <3>1 DEF create_buffer
        <4> QED
          BY <4>1
      <3>2. CASE GetBufferEnqueue
        BY <3>2 DEF GetBufferEnqueue
      <3>3. CASE Dequeue
        BY <3>3 DEF Dequeue
      <3>4. CASE AcquireMark
        BY <3>4 DEF AcquireMark
      <3>5. CASE Transfer
        BY <3>5 DEF Transfer
      <3>6. CASE UNCHANGED late
        BY <3>6
      <3> QED
        BY <3>1, <3>2, <3>3, <3>4, <3>5, <3>6
           DEF Next, Owner, iio_buffer_destroy, local_set_kernel_buffers_count,
               local_set_blocking_mode, local_cancel, GetBufferCall, AcquireCall, RawCall,
               device_check_ready, ReleaseUnmark, ReleaseEnqueue, ReleaseUndo, Hardware
    <2>2. rd.after
      BY <2>1 DEF Delivers
    <2> QED
      BY <2>1, <2>2 DEF IndInv, CancelInv
  <1> QED
    BY <1>1, BlocksInvariant, PTL DEF Spec, CancelSticks
=============================================================================
