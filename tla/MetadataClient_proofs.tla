------------------------ MODULE MetadataClient_proofs ------------------------
(***************************************************************************)
(* Proofs about MetadataClient, for every size of a batch and a segment,   *)
(* any number of frames, faults, opens and endpoint couples: what is in    *)
(* the pipe belongs to the call that reads it, or the pipe is poisoned;    *)
(* frames are numbered through from what the program has got, over what    *)
(* is in memory, to what is in the pipe; the endpoint couples in use are   *)
(* those of the open devices.                                              *)
(***************************************************************************)
EXTENDS MetadataClient, TLAPS

Ops == Calls \cup {"none"}
Errors == {"none", "dead", "io", "err", "busy"}
Frames == Seq(1 .. MaxFrames)
Pipe == [open : BOOLEAN, cancelled : BOOLEAN, event : BOOLEAN, transfer : BOOLEAN,
         aborted : BOOLEAN]
Buffer == [live : BOOLEAN, failed : BOOLEAN, size : {1, Batch}, cached : Frames,
           df : 0 .. Direct, dp : 0 .. Direct, term : {"none", "status", "wrong", "error"}]
Call == [op : Ops, pc : {"idle", "submit", "read", "failed", "term"}, after : BOOLEAN,
         part : Frames, err : Errors]
Couples == [used : [Endpoints -> BOOLEAN], at : [Devices -> Endpoints \cup {Nowhere}],
            opened : [Devices -> BOOLEAN]]

\* The history of a sound capture.
History == [crossed : SUBSET {"term", "status"}, loose : BOOLEAN, disorder : {FALSE},
            late : {FALSE}]

Types ==
    /\ backend \in {"network", "usb"} /\ io \in Pipe /\ wire \in Seq(Item) /\ b \in Buffer
    /\ call \in Call /\ can \in BOOLEAN /\ ep \in Couples
    /\ sent \in 0 .. MaxFrames /\ seen \in 0 .. MaxFrames /\ hist \in History

\* What a call c found of the buffer x when it began and nobody else changes: a
\* call that began after the cancellation only asks for the status.
CallInv(c, x) ==
    /\ c.pc = "idle" => c = Idle
    /\ c.pc # "idle" => x.live /\ c.op # "none"
    /\ c.op # "batch" => c.part = <<>>
    /\ c.op = "batch" => x.size = Batch /\ x.df = 0
    /\ c.op = "direct" => x.dp > 0
    /\ c.op \in FrameCalls => x.cached = <<>>
    /\ c.pc = "term" => c.op = "direct"
    /\ c.after => c.op = "status" /\ x.failed

\* A buffer that failed has a poisoned pipe, or its canceller is about to
\* poison it.
BufferInv(x, i, cancelling) ==
    /\ x.dp <= x.df
    /\ x.df > 0 => x.cached = <<>>
    /\ ~x.live => x = NoBuffer /\ i = NoPipe
    /\ i.open = x.live
    /\ i.event \/ i.aborted => i.cancelled
    /\ x.failed => i.cancelled \/ cancelling
    /\ cancelling => x.failed

Control ==
    /\ CallInv(call, b) /\ BufferInv(b, io, can)
    /\ call.op = "close" => ~can
    /\ hist.loose /\ call.pc # "idle" => call.op = "close"

\* The daemon answers in order, and counts its frames from 1.
Prefixed(w) ==
    \A i, j \in 1 .. Len(w) : i < j /\ w[i].val = "none" => w[j].val = "none"
Numbered(w) ==
    \A i \in 1 .. Len(w) : w[i].val = "frame" => w[i].op \in FrameCalls /\ w[i].n > 0

\* All answers are to the command op; an answer without a frame ends the wire.
Only(w, tag, op) == \A i \in 1 .. Len(w) : w[i].tag = tag /\ w[i].op = op
Closed(w) ==
    \A i \in 1 .. Len(w) : w[i].val \notin {"none", "frame"} =>
        i = Len(w) /\ \A j \in 1 .. i - 1 : w[j].val = "frame"

\* What is left in the pipe of a segment with n frames to come.
Segment(w, n) == Only(w, "direct", "direct") /\ Closed(w) /\ Len(w) <= n

\* The pipe of a call c that waits for its answers, and of one that broke off
\* and did not poison it.
Asking(w, c, x) ==
    /\ c.op = "direct" => Segment(w, x.dp)
    /\ c.op = "batch" => Only(w, "mine", "batch") /\ Len(w) + Len(c.part) = x.size
    /\ c.op \notin {"direct", "batch"} => Only(w, "mine", c.op) /\ Len(w) = 1
Broken(w, c) ==
    /\ c.op = "direct" => (c.err = "busy" => w = <<>>)
    /\ c.op \notin {"direct", "batch"} =>
         /\ Only(w, "mine", c.op) /\ Len(w) <= 1
         /\ c.err \in {"err", "busy"} => w = <<>>

\* Between calls an unpoisoned pipe holds the rest of a segment and nothing else.
Owned(w, c, x, i) ==
    /\ c.pc \in {"submit", "read"} /\ ~c.after => Asking(w, c, x)
    /\ c.pc = "failed" /\ ~x.failed /\ ~i.cancelled => Broken(w, c)
    /\ c.pc = "idle" /\ ~x.failed /\ ~i.cancelled => Segment(w, x.dp)

WireInv ==
    /\ Prefixed(wire) /\ Numbered(wire)
    /\ Len(wire) <= IF call.op = "close" THEN MaxWire + 1 ELSE MaxWire
    /\ ~b.live => wire = <<>>
    /\ ~hist.loose => Owned(wire, call, b, io)

\* The frames of the sequence s follow on base; those at the head of the wire w
\* do, and are the last the daemon has sent if no other frame is in w.
Counted(s, base) == \A i \in 1 .. Len(s) : s[i] = base + i
Heads(w, i) == \A j \in 1 .. i : w[j].val = "frame"
InOrder(w, base, last) ==
    /\ \A i \in 1 .. Len(w) : Heads(w, i) => w[i].n = base + i
    /\ \A i \in 0 .. Len(w) :
         Heads(w, i) /\ (\A j \in i + 1 .. Len(w) : w[j].val # "frame") => last = base + i

\* What the program may still get: the rest of a batch in memory, the frames of
\* a batch that is being read, the frames in the pipe.
Ordered(w, c, x, got, last) ==
    /\ Counted(x.cached, got) /\ Counted(c.part, got)
    /\ InOrder(w, got + Len(x.cached) + Len(c.part), last)

OrderInv ==
    ~b.failed /\ ~hist.loose /\ ~(call.op = "batch" /\ call.pc = "failed") =>
        Ordered(wire, call, b, seen, sent)

\* The couples in use are those that the open devices point at.
CouplesOwned(e) ==
    /\ \A d \in Devices : e.opened[d] => e.at[d] \in Endpoints
    /\ \A x \in Endpoints : e.used[x] <=> \E d \in Devices : e.opened[d] /\ e.at[d] = x
    /\ \A d, d2 \in Devices : e.opened[d] /\ e.opened[d2] /\ d # d2 => e.at[d] # e.at[d2]

EpInv == backend = "usb" => (ep.opened["dev"] <=> b.live) /\ CouplesOwned(ep)

IndInv == Types /\ Control /\ WireInv /\ OrderInv /\ EpInv

-----------------------------------------------------------------------------
(* Wires.                                                                  *)

LEMMA ItemFields ==
    ASSUME NEW w \in Seq(Item), NEW i \in 1 .. Len(w)
    PROVE  w[i] \in Item /\ w[i].tag \in Tags /\ w[i].val \in Values /\ w[i].n \in 0 .. MaxFrames
  <1>1. w[i] \in Item
    OBVIOUS
  <1> QED
    BY <1>1 DEF Item

\* The head of a wire is read.
LEMMA TailItems ==
    ASSUME NEW S, NEW w \in Seq(S), w # <<>>
    PROVE  /\ Tail(w) \in Seq(S) /\ Len(Tail(w)) = Len(w) - 1 /\ Len(w) \in Nat /\ Len(w) >= 1
           /\ \A i \in 1 .. Len(w) - 1 : Tail(w)[i] = w[i + 1] /\ i + 1 \in 1 .. Len(w)
  <1>1. Len(w) \in Nat /\ Len(w) >= 1
    OBVIOUS
  <1> QED
    BY <1>1

LEMMA HeadItem ==
    ASSUME NEW S, NEW w \in Seq(S), w # <<>>
    PROVE  w[1] \in S /\ Head(w) = w[1] /\ 1 \in 1 .. Len(w)
  <1>1. Len(w) \in Nat /\ Len(w) >= 1
    OBVIOUS
  <1> QED
    BY <1>1

LEMMA TailWire ==
    ASSUME NEW w \in Seq(Item), w # <<>>
    PROVE  /\ Prefixed(w) => Prefixed(Tail(w))
           /\ Numbered(w) => Numbered(Tail(w))
           /\ \A tag, op : Only(w, tag, op) => Only(Tail(w), tag, op)
           /\ Closed(w) => Closed(Tail(w))
  <1> DEFINE t == Tail(w)
             n == Len(w)
  <1>1. /\ t \in Seq(Item) /\ Len(t) = n - 1 /\ n \in Nat /\ n >= 1
        /\ \A i \in 1 .. n - 1 : t[i] = w[i + 1] /\ i + 1 \in 1 .. n
    BY TailItems
  <1> HIDE DEF t, n
  <1>2. Prefixed(w) => Prefixed(t)
    <2> SUFFICES ASSUME Prefixed(w), NEW i \in 1 .. Len(t), NEW j \in 1 .. Len(t),
                        i < j, t[i].val = "none"
                 PROVE  t[j].val = "none"
      BY DEF Prefixed
    <2>1. i + 1 \in 1 .. n /\ j + 1 \in 1 .. n /\ i + 1 < j + 1 /\ w[i + 1].val = "none" /\ t[j] = w[j + 1]
      BY <1>1
    <2> QED
      BY <2>1 DEF Prefixed, n
  <1>3. Numbered(w) => Numbered(t)
    BY <1>1 DEF Numbered, n
  <1>4. \A tag, op : Only(w, tag, op) => Only(t, tag, op)
    BY <1>1 DEF Only, n
  <1>5. Closed(w) => Closed(t)
    <2> SUFFICES ASSUME Closed(w), NEW i \in 1 .. Len(t), t[i].val \notin {"none", "frame"}
                 PROVE  i = Len(t) /\ \A j \in 1 .. i - 1 : t[j].val = "frame"
      BY DEF Closed
    <2>1. i + 1 \in 1 .. n /\ w[i + 1].val \notin {"none", "frame"}
      BY <1>1
    <2>2. i + 1 = n /\ \A j \in 1 .. i : w[j].val = "frame"
      BY <2>1 DEF Closed, n
    <2>3. ASSUME NEW j \in 1 .. i - 1 PROVE t[j].val = "frame"
      <3>1. j + 1 \in 1 .. i /\ t[j] = w[j + 1]
        BY <1>1
      <3> QED
        BY <3>1, <2>2
    <2> QED
      BY <1>1, <2>2, <2>3
  <1> QED
    BY <1>2, <1>3, <1>4, <1>5 DEF t

\* A frame at the head is the next one, and the others follow it.
LEMMA TailInOrder ==
    ASSUME NEW w \in Seq(Item), w # <<>>, NEW base \in Nat, NEW last \in Nat,
           InOrder(w, base, last), w[1].val = "frame"
    PROVE  w[1].n = base + 1 /\ InOrder(Tail(w), base + 1, last)
  <1> DEFINE t == Tail(w)
             n == Len(w)
  <1>1. /\ t \in Seq(Item) /\ Len(t) = n - 1 /\ n \in Nat /\ n >= 1
        /\ \A i \in 1 .. n - 1 : t[i] = w[i + 1] /\ i + 1 \in 1 .. n
    BY TailItems
  <1> HIDE DEF t, n
  <1>2. \A i \in 1 .. n : Heads(w, i) => w[i].n = base + i
    BY DEF InOrder, n
  <1>3. w[1].n = base + 1
    <2>1. 1 \in 1 .. n /\ Heads(w, 1)
      BY <1>1 DEF Heads
    <2> QED
      BY <1>2, <2>1
  <1>4. ASSUME NEW i \in 0 .. n - 1, Heads(t, i) PROVE Heads(w, i + 1) /\ i + 1 \in 1 .. n
    <2>1. ASSUME NEW j \in 1 .. i + 1 PROVE w[j].val = "frame"
      <3>1. CASE j = 1
        BY <3>1
      <3>2. CASE j # 1
        <4>1. j - 1 \in 1 .. i /\ j - 1 \in 1 .. n - 1 /\ (j - 1) + 1 = j
          BY <3>2, <1>1
        <4>2. t[j - 1] = w[j]
          BY <4>1, <1>1
        <4> QED
          BY <4>1, <4>2, <1>4 DEF Heads
      <3> QED
        BY <3>1, <3>2
    <2> QED
      BY <2>1, <1>1 DEF Heads
  <1>5. \A i \in 1 .. Len(t) : Heads(t, i) => t[i].n = base + 1 + i
    <2> SUFFICES ASSUME NEW i \in 1 .. Len(t), Heads(t, i) PROVE t[i].n = base + 1 + i
      OBVIOUS
    <2>1. i \in 0 .. n - 1 /\ i \in 1 .. n - 1
      BY <1>1
    <2>2. w[i + 1].n = base + (i + 1)
      BY <2>1, <1>2, <1>4
    <2>3. t[i] = w[i + 1]
      BY <2>1, <1>1
    <2>4. base + (i + 1) = base + 1 + i
      BY <2>1
    <2> QED
      BY <2>2, <2>3, <2>4
  <1>6. \A i \in 0 .. Len(t) :
            Heads(t, i) /\ (\A j \in i + 1 .. Len(t) : t[j].val # "frame") => last = base + 1 + i
    <2> SUFFICES ASSUME NEW i \in 0 .. Len(t), Heads(t, i),
                        \A j \in i + 1 .. Len(t) : t[j].val # "frame"
                 PROVE  last = base + 1 + i
      OBVIOUS
    <2>1. i \in 0 .. n - 1
      BY <1>1
    <2>2. ASSUME NEW j \in (i + 1) + 1 .. n PROVE w[j].val # "frame"
      <3>1. j - 1 \in i + 1 .. Len(t) /\ j - 1 \in 1 .. n - 1 /\ (j - 1) + 1 = j
        BY <1>1
      <3>2. t[j - 1] = w[j]
        BY <3>1, <1>1
      <3> QED
        BY <3>1, <3>2
    <2>3. i + 1 \in 0 .. n /\ Heads(w, i + 1)
      BY <2>1, <1>4
    <2>4. last = base + (i + 1)
      BY <2>2, <2>3 DEF InOrder, n
    <2> QED
      BY <2>1, <2>4
  <1> QED
    BY <1>3, <1>5, <1>6 DEF InOrder, t

\* An only answer that is not a frame.
LEMMA NoFrameInOrder ==
    ASSUME NEW w \in Seq(Item), NEW base \in Nat, NEW last \in Nat, InOrder(w, base, last),
           \A i \in 1 .. Len(w) : w[i].val # "frame"
    PROVE  last = base /\ InOrder(<<>>, base, last)
  <1>1. Len(w) \in Nat /\ Len(<<>>) = 0
    OBVIOUS
  <1>2. last = base + 0
    <2>1. 0 \in 0 .. Len(w) /\ Heads(w, 0)
      BY <1>1 DEF Heads
    <2> QED
      BY <2>1 DEF InOrder
  <1> QED
    BY <1>1, <1>2 DEF InOrder

\* Answers to come are put behind a wire.
LEMMA AskWire ==
    ASSUME NEW w \in Seq(Item), NEW more \in Seq(Item),
           \A i \in 1 .. Len(more) : more[i].val = "none"
    PROVE  /\ w \o more \in Seq(Item) /\ Len(w \o more) = Len(w) + Len(more)
           /\ Prefixed(w) => Prefixed(w \o more)
           /\ Numbered(w) => Numbered(w \o more)
           /\ \A base, last : InOrder(w, base, last) => InOrder(w \o more, base, last)
  <1> DEFINE t == w \o more
             n == Len(w)
             m == Len(more)
  <1>1. n \in Nat /\ m \in Nat /\ t \in Seq(Item) /\ Len(t) = n + m
    OBVIOUS
  <1>2. \A i \in 1 .. n + m : \/ i \in 1 .. n /\ t[i] = w[i]
                              \/ i \in n + 1 .. n + m /\ t[i].val = "none"
    <2> TAKE i \in 1 .. n + m
    <2>1. CASE i <= n
      BY <1>1, <2>1
    <2>2. CASE i > n
      <3>1. t[i] = more[i - n] /\ i - n \in 1 .. m
        BY <1>1, <2>2
      <3> QED
        BY <3>1, <1>1, <2>2
    <2> QED
      BY <1>1, <2>1, <2>2
  <1> HIDE DEF t, n, m
  <1>3. Prefixed(w) => Prefixed(t)
    <2> SUFFICES ASSUME Prefixed(w), NEW i \in 1 .. Len(t), NEW j \in 1 .. Len(t),
                        i < j, t[i].val = "none"
                 PROVE  t[j].val = "none"
      BY DEF Prefixed
    <2>1. CASE j \in 1 .. n /\ t[j] = w[j]
      <3>1. i \in 1 .. n /\ t[i] = w[i]
        BY <1>1, <1>2, <2>1
      <3> QED
        BY <2>1, <3>1 DEF Prefixed, n
    <2> QED
      BY <1>1, <1>2, <2>1
  <1>4. Numbered(w) => Numbered(t)
    BY <1>1, <1>2 DEF Numbered, n
  <1>5. ASSUME NEW base, NEW last, InOrder(w, base, last) PROVE InOrder(t, base, last)
    <2>1. ASSUME NEW i \in 0 .. n + m, Heads(t, i) PROVE i \in 0 .. n /\ Heads(w, i)
      <3>1. \A j \in 1 .. i : j \in 1 .. n /\ t[j] = w[j]
        BY <1>1, <1>2, <2>1 DEF Heads
      <3>2. i = 0 \/ i \in 1 .. i
        BY <1>1
      <3> QED
        BY <1>1, <2>1, <3>1, <3>2 DEF Heads
    <2>2. \A i \in 1 .. Len(t) : Heads(t, i) => t[i].n = base + i
      <3> SUFFICES ASSUME NEW i \in 1 .. Len(t), Heads(t, i) PROVE t[i].n = base + i
        OBVIOUS
      <3>1. i \in 1 .. n /\ Heads(w, i) /\ t[i] = w[i]
        BY <1>1, <1>2, <2>1
      <3> QED
        BY <1>5, <3>1 DEF InOrder, n
    <2>3. ASSUME NEW i \in 0 .. Len(t), Heads(t, i), \A j \in i + 1 .. Len(t) : t[j].val # "frame"
          PROVE  last = base + i
      <3>1. i \in 0 .. n /\ Heads(w, i)
        BY <1>1, <2>1, <2>3
      <3>2. \A j \in i + 1 .. n : w[j].val # "frame"
        <4> TAKE j \in i + 1 .. n
        <4>1. j \in i + 1 .. Len(t) /\ j \in 1 .. n + m /\ j \in 1 .. n
          BY <1>1, <3>1
        <4>2. t[j] = w[j]
          BY <1>1, <1>2, <4>1
        <4> QED
          BY <2>3, <4>1, <4>2
      <3> QED
        BY <1>5, <3>1, <3>2 DEF InOrder, n
    <2> QED
      BY <2>2, <2>3 DEF InOrder
  <1> QED
    BY <1>1, <1>3, <1>4, <1>5 DEF t, n, m

\* What a call leaves behind keeps its values.
LEMMA LeftWire ==
    ASSUME NEW w \in Seq(Item)
    PROVE  /\ Left(w) \in Seq(Item) /\ Len(Left(w)) = Len(w)
           /\ Prefixed(w) => Prefixed(Left(w))
           /\ Numbered(w) => Numbered(Left(w))
           /\ \A base, last : InOrder(w, base, last) => InOrder(Left(w), base, last)
           /\ (\A i \in 1 .. Len(w) : w[i].tag # "mine") => Left(w) = w
  <1> DEFINE t == Left(w)
             n == Len(w)
  <1>1. n \in Nat /\ DOMAIN w = 1 .. n /\ w = [i \in 1 .. n |-> w[i]]
    OBVIOUS
  <1>2. t = [i \in 1 .. n |-> IF w[i].tag = "mine" THEN [w[i] EXCEPT !.tag = "stale"] ELSE w[i]]
    BY <1>1 DEF Left
  <1>3. ASSUME NEW i \in 1 .. n
        PROVE  /\ t[i] \in Item /\ t[i].val = w[i].val /\ t[i].n = w[i].n /\ t[i].op = w[i].op
               /\ w[i].tag # "mine" => t[i] = w[i]
    <2>1. w[i] \in Item
      BY <1>1
    <2> DEFINE x == w[i]
    <2>2. [x EXCEPT !.tag = "stale"] \in Item
      BY <2>1 DEF Item, Tags
    <2>3. LET y == [x EXCEPT !.tag = "stale"] IN y.val = x.val /\ y.n = x.n /\ y.op = x.op
      BY <2>1 DEF Item
    <2>4. t[i] = IF x.tag = "mine" THEN [x EXCEPT !.tag = "stale"] ELSE x
      BY <1>2
    <2> QED
      BY <2>1, <2>2, <2>3, <2>4
  <1>4. t \in Seq(Item) /\ Len(t) = n
    <2>1. \A i \in 1 .. n : t[i] \in Item
      BY <1>3
    <2>2. t = [i \in 1 .. n |-> t[i]]
      BY <1>2
    <2> HIDE DEF t
    <2> QED
      BY <1>1, <2>1, <2>2
  <1>5. (\A i \in 1 .. n : w[i].tag # "mine") => t = w
    BY <1>1, <1>2
  <1> HIDE DEF t
  <1>6. Prefixed(w) => Prefixed(t)
    BY <1>3, <1>4 DEF Prefixed
  <1>7. Numbered(w) => Numbered(t)
    BY <1>3, <1>4 DEF Numbered
  <1>8. \A base, last : InOrder(w, base, last) => InOrder(t, base, last)
    <2>1. \A i \in 0 .. n : Heads(t, i) <=> Heads(w, i)
      BY <1>1, <1>3 DEF Heads
    <2> SUFFICES ASSUME NEW base, NEW last, InOrder(w, base, last) PROVE InOrder(t, base, last)
      OBVIOUS
    <2>2. \A i \in 1 .. Len(t) : Heads(t, i) => t[i].n = base + i
      BY <1>1, <1>3, <1>4, <2>1 DEF InOrder
    <2>3. ASSUME NEW i \in 0 .. Len(t), Heads(t, i), \A j \in i + 1 .. Len(t) : t[j].val # "frame"
          PROVE  last = base + i
      <3>1. \A j \in i + 1 .. n : w[j].val # "frame"
        BY <1>1, <1>3, <1>4, <2>3
      <3> QED
        BY <1>4, <2>1, <2>3, <3>1 DEF InOrder
    <2> QED
      BY <2>2, <2>3 DEF InOrder
  <1> QED
    BY <1>4, <1>5, <1>6, <1>7, <1>8 DEF t

\* The daemon fills in the first answer that it owes.
Filled(w, k, v, n) == [w EXCEPT ![k].val = v, ![k].n = n]

LEMMA FilledWire ==
    ASSUME NEW w \in Seq(Item), Prefixed(w), NEW k \in 1 .. Len(w), w[k].val = "none",
           \A i \in 1 .. Len(w) : w[i].val = "none" => k <= i,
           NEW v \in Values, v # "none", NEW n \in 0 .. MaxFrames
    PROVE  LET a == Filled(w, k, v, n)
           IN  /\ a \in Seq(Item) /\ Len(a) = Len(w)
               /\ a[k].val = v /\ a[k].n = n /\ a[k].tag = w[k].tag /\ a[k].op = w[k].op
               /\ \A i \in 1 .. Len(w) : /\ i # k => a[i] = w[i]
                                         /\ i < k => w[i].val # "none"
                                         /\ i >= k => w[i].val = "none"
               /\ Prefixed(a)
  <1> DEFINE a == Filled(w, k, v, n)
             x == w[k]
             y == [x EXCEPT !.val = v, !.n = n]
  <1>1. Len(w) \in Nat /\ DOMAIN w = 1 .. Len(w) /\ x \in Item
    BY ItemFields
  <1>2. y \in Item /\ y.val = v /\ y.n = n /\ y.tag = x.tag /\ y.op = x.op
    BY <1>1 DEF Item
  <1>3. a = [w EXCEPT ![k] = y]
    BY <1>1 DEF Filled
  <1> HIDE DEF y
  <1>4. /\ a \in Seq(Item) /\ Len(a) = Len(w)
        /\ a[k] = y /\ \A i \in 1 .. Len(w) : i # k => a[i] = w[i]
    BY <1>1, <1>2, <1>3
  <1> HIDE DEF a
  <1>5. \A i \in 1 .. Len(w) : /\ i < k => w[i].val # "none"
                               /\ i >= k => w[i].val = "none"
    BY DEF Prefixed
  <1>6. Prefixed(a)
    <2> SUFFICES ASSUME NEW i \in 1 .. Len(w), NEW j \in 1 .. Len(w), i < j, a[i].val = "none"
                 PROVE  a[j].val = "none"
      BY <1>4 DEF Prefixed
    <2>1. i # k
      BY <1>2, <1>4
    <2>2. w[i].val = "none"
      BY <2>1, <1>4
    <2>3. i >= k
      BY <1>5, <2>2
    <2>4. j # k /\ j >= k
      BY <2>1, <2>3
    <2> QED
      BY <2>4, <1>4, <1>5
  <1> QED
    BY <1>2, <1>4, <1>5, <1>6 DEF a

\* A frame, and what is not one.
LEMMA FilledFrame ==
    ASSUME NEW w \in Seq(Item), Prefixed(w), NEW k \in 1 .. Len(w), w[k].val = "none",
           \A i \in 1 .. Len(w) : w[i].val = "none" => k <= i,
           NEW last \in Nat, last + 1 \in 0 .. MaxFrames, w[k].op \in FrameCalls
    PROVE  LET a == Filled(w, k, "frame", last + 1)
           IN  /\ Numbered(w) => Numbered(a)
               /\ \A tag, op : Only(w, tag, op) => Only(a, tag, op)
               /\ Closed(w) => Closed(a)
               /\ \A base \in Nat : InOrder(w, base, last) => InOrder(a, base, last + 1)
  <1> DEFINE a == Filled(w, k, "frame", last + 1)
             m == Len(w)
  <1>1. m \in Nat /\ "frame" \in Values /\ "frame" # "none"
    BY DEF Values
  <1>2. /\ Len(a) = m
        /\ a[k].val = "frame" /\ a[k].n = last + 1 /\ a[k].tag = w[k].tag /\ a[k].op = w[k].op
        /\ \A i \in 1 .. m : /\ i # k => a[i] = w[i]
                             /\ i < k => w[i].val # "none"
                             /\ i >= k => w[i].val = "none"
    BY <1>1, FilledWire
  <1> HIDE DEF a, m
  <1>3. Numbered(w) => Numbered(a)
    <2> SUFFICES ASSUME Numbered(w), NEW i \in 1 .. m, a[i].val = "frame"
                 PROVE  a[i].op \in FrameCalls /\ a[i].n > 0
      BY <1>2 DEF Numbered
    <2>1. CASE i = k
      BY <1>2, <2>1
    <2>2. CASE i # k
      BY <1>2, <2>2 DEF Numbered, m
    <2> QED
      BY <2>1, <2>2
  <1>4. \A tag, op : Only(w, tag, op) => Only(a, tag, op)
    BY <1>2 DEF Only, m
  <1>5. Closed(w) => Closed(a)
    <2> SUFFICES ASSUME Closed(w), NEW i \in 1 .. m, a[i].val \notin {"none", "frame"}
                 PROVE  i = Len(a) /\ \A j \in 1 .. i - 1 : a[j].val = "frame"
      BY <1>2 DEF Closed
    <2>1. i # k /\ w[i].val \notin {"none", "frame"}
      BY <1>2
    <2>2. i = m /\ \A j \in 1 .. i - 1 : w[j].val = "frame"
      BY <2>1 DEF Closed, m
    <2>3. k \in 1 .. i - 1
      BY <1>1, <2>1, <2>2 DEF m
    <2> QED
      BY <2>2, <2>3, <1>1
  <1>6. ASSUME NEW base \in Nat, InOrder(w, base, last) PROVE InOrder(a, base, last + 1)
    <2>1. ASSUME NEW i \in 0 .. m, Heads(a, i) PROVE i <= k
      <3> SUFFICES ASSUME i > k PROVE FALSE
        BY <1>1 DEF m
      <3>1. i \in 1 .. m /\ i \in 1 .. i /\ i # k /\ i >= k
        BY <1>1 DEF m
      <3>2. a[i].val = "frame" /\ a[i].val = "none"
        BY <1>2, <2>1, <3>1 DEF Heads
      <3> QED
        BY <3>2
    <2>2. ASSUME NEW i \in 0 .. k - 1, Heads(a, i) PROVE Heads(w, i)
      <3> SUFFICES ASSUME NEW j \in 1 .. i PROVE w[j].val = "frame"
        BY DEF Heads
      <3>1. j \in 1 .. m /\ j # k
        BY <1>1 DEF m
      <3> QED
        BY <1>2, <2>2, <3>1 DEF Heads
    <2>3. ASSUME Heads(a, k) PROVE last + 1 = base + k
      <3>1. k - 1 \in 0 .. k - 1 /\ k - 1 \in 0 .. m
        BY <1>1 DEF m
      <3>2. Heads(a, k - 1)
        BY <2>3 DEF Heads
      <3>3. Heads(w, k - 1)
        BY <2>2, <3>1, <3>2
      <3>4. \A j \in (k - 1) + 1 .. m : w[j].val # "frame"
        <4> TAKE j \in (k - 1) + 1 .. m
        <4>1. j \in 1 .. m /\ j >= k
          BY <1>1 DEF m
        <4> QED
          BY <4>1, <1>2
      <3>5. last = base + (k - 1)
        BY <1>6, <3>1, <3>3, <3>4 DEF InOrder, m
      <3> QED
        BY <3>5
    <2>4. ASSUME NEW i \in 1 .. Len(a), Heads(a, i) PROVE a[i].n = base + i
      <3>1. i \in 1 .. m /\ i \in 0 .. m
        BY <1>1, <1>2
      <3>2. CASE i = k
        BY <1>2, <2>3, <2>4, <3>2
      <3>3. CASE i # k
        <4>1. i \in 0 .. k - 1
          BY <2>1, <2>4, <3>1, <3>3
        <4>2. Heads(w, i) /\ a[i] = w[i]
          BY <1>2, <2>2, <2>4, <3>1, <3>3, <4>1
        <4> QED
          BY <1>6, <3>1, <4>2 DEF InOrder, m
      <3> QED
        BY <3>2, <3>3
    <2>5. ASSUME NEW i \in 0 .. Len(a), Heads(a, i), \A j \in i + 1 .. Len(a) : a[j].val # "frame"
          PROVE  last + 1 = base + i
      <3>1. i \in 0 .. m /\ i <= k
        BY <1>1, <1>2, <2>1, <2>5
      <3>2. k \notin i + 1 .. Len(a)
        BY <1>2, <2>5
      <3>3. i = k
        BY <3>1, <3>2, <1>1, <1>2 DEF m
      <3> QED
        BY <2>3, <2>5, <3>3
    <2> QED
      BY <2>4, <2>5 DEF InOrder
  <1> QED
    BY <1>3, <1>4, <1>5, <1>6 DEF a

LEMMA FilledOther ==
    ASSUME NEW w \in Seq(Item), Prefixed(w), NEW k \in 1 .. Len(w), w[k].val = "none",
           \A i \in 1 .. Len(w) : w[i].val = "none" => k <= i,
           NEW v \in Values, v \notin {"none", "frame"}
    PROVE  LET a == Filled(w, k, v, 0)
           IN  /\ Numbered(w) => Numbered(a)
               /\ \A tag, op : Only(w, tag, op) => Only(a, tag, op)
               /\ \A base, last : InOrder(w, base, last) => InOrder(a, base, last)
  <1> DEFINE a == Filled(w, k, v, 0)
             m == Len(w)
  <1>1. m \in Nat /\ 0 \in 0 .. MaxFrames
    BY BoundsAssumption
  <1>2. /\ Len(a) = m
        /\ a[k].val = v /\ a[k].n = 0 /\ a[k].tag = w[k].tag /\ a[k].op = w[k].op
        /\ \A i \in 1 .. m : /\ i # k => a[i] = w[i]
                             /\ i < k => w[i].val # "none"
                             /\ i >= k => w[i].val = "none"
    BY <1>1, FilledWire
  <1> HIDE DEF a, m
  <1>3. Numbered(w) => Numbered(a)
    <2> SUFFICES ASSUME Numbered(w), NEW i \in 1 .. m, a[i].val = "frame"
                 PROVE  a[i].op \in FrameCalls /\ a[i].n > 0
      BY <1>2 DEF Numbered
    <2>1. i # k
      BY <1>2
    <2> QED
      BY <1>2, <2>1 DEF Numbered, m
  <1>4. \A tag, op : Only(w, tag, op) => Only(a, tag, op)
    BY <1>2 DEF Only, m
  <1>6. ASSUME NEW base, NEW last, InOrder(w, base, last) PROVE InOrder(a, base, last)
    <2>1. ASSUME NEW i \in 0 .. m, Heads(a, i) PROVE i < k /\ Heads(w, i)
      <3>1. i < k
        <4> SUFFICES ASSUME i >= k PROVE FALSE
          BY <1>1 DEF m
        <4>1. k \in 1 .. i
          BY <1>1 DEF m
        <4> QED
          BY <1>2, <2>1, <4>1 DEF Heads
      <3>2. ASSUME NEW j \in 1 .. i PROVE w[j].val = "frame"
        <4>1. j \in 1 .. m /\ j # k
          BY <1>1, <3>1 DEF m
        <4> QED
          BY <1>2, <2>1, <4>1 DEF Heads
      <3> QED
        BY <3>1, <3>2 DEF Heads
    <2>4. ASSUME NEW i \in 1 .. Len(a), Heads(a, i) PROVE a[i].n = base + i
      <3>1. i \in 1 .. m /\ i \in 0 .. m
        BY <1>1, <1>2
      <3>2. i # k /\ Heads(w, i)
        BY <2>1, <2>4, <3>1
      <3> QED
        BY <1>2, <1>6, <3>1, <3>2 DEF InOrder, m
    <2>5. ASSUME NEW i \in 0 .. Len(a), Heads(a, i), \A j \in i + 1 .. Len(a) : a[j].val # "frame"
          PROVE  last = base + i
      <3>1. i \in 0 .. m /\ Heads(w, i)
        BY <1>2, <2>1, <2>5
      <3>2. \A j \in i + 1 .. m : w[j].val # "frame"
        <4> TAKE j \in i + 1 .. m
        <4>1. j \in 1 .. m /\ j \in i + 1 .. Len(a)
          BY <1>1, <1>2, <3>1
        <4> QED
          BY <1>2, <2>5, <4>1
      <3> QED
        BY <1>6, <3>1, <3>2 DEF InOrder, m
    <2> QED
      BY <2>4, <2>5 DEF InOrder
  <1> QED
    BY <1>3, <1>4, <1>6 DEF a

\* An error ends a segment with it.
LEMMA CutWire ==
    ASSUME NEW w \in Seq(Item), NEW k \in 1 .. Len(w),
           \A i \in k + 1 .. Len(w) : w[i].val = "none",
           \A i \in 1 .. k - 1 : w[i].val # "none"
    PROVE  LET c == SubSeq(w, 1, k)
           IN  /\ c \in Seq(Item) /\ Len(c) = k /\ k <= Len(w)
               /\ Prefixed(w) => Prefixed(c)
               /\ Numbered(w) => Numbered(c)
               /\ \A tag, op : Only(w, tag, op) => Only(c, tag, op)
               /\ (\A i \in 1 .. k - 1 : w[i].val = "frame") => Closed(c)
               /\ \A base, last : InOrder(w, base, last) => InOrder(c, base, last)
  <1> DEFINE c == SubSeq(w, 1, k)
  <1>1. /\ c \in Seq(Item) /\ Len(c) = k /\ k <= Len(w) /\ Len(w) \in Nat /\ k \in Nat
        /\ \A i \in 1 .. k : c[i] = w[i] /\ i \in 1 .. Len(w)
    OBVIOUS
  <1> HIDE DEF c
  <1>2. Prefixed(w) => Prefixed(c)
    BY <1>1 DEF Prefixed
  <1>3. Numbered(w) => Numbered(c)
    BY <1>1 DEF Numbered
  <1>4. \A tag, op : Only(w, tag, op) => Only(c, tag, op)
    BY <1>1 DEF Only
  <1>5. (\A i \in 1 .. k - 1 : w[i].val = "frame") => Closed(c)
    <2> SUFFICES ASSUME \A i \in 1 .. k - 1 : w[i].val = "frame",
                        NEW i \in 1 .. k, c[i].val \notin {"none", "frame"}
                 PROVE  i = k /\ \A j \in 1 .. i - 1 : c[j].val = "frame"
      BY <1>1 DEF Closed
    <2>1. i = k
      BY <1>1
    <2>2. \A j \in 1 .. i - 1 : c[j] = w[j]
      BY <1>1, <2>1
    <2> QED
      BY <2>1, <2>2
  <1>6. ASSUME NEW base, NEW last, InOrder(w, base, last) PROVE InOrder(c, base, last)
    <2>1. ASSUME NEW i \in 0 .. k, Heads(c, i) PROVE i \in 0 .. Len(w) /\ Heads(w, i)
      <3>1. \A j \in 1 .. i : c[j] = w[j]
        BY <1>1
      <3> QED
        BY <1>1, <2>1, <3>1 DEF Heads
    <2>2. ASSUME NEW i \in 1 .. Len(c), Heads(c, i) PROVE c[i].n = base + i
      <3>1. i \in 1 .. k /\ i \in 0 .. k /\ i \in 1 .. Len(w)
        BY <1>1
      <3> QED
        BY <1>1, <1>6, <2>1, <2>2, <3>1 DEF InOrder
    <2>3. ASSUME NEW i \in 0 .. Len(c), Heads(c, i), \A j \in i + 1 .. Len(c) : c[j].val # "frame"
          PROVE  last = base + i
      <3>1. \A j \in i + 1 .. Len(w) : w[j].val # "frame"
        <4> TAKE j \in i + 1 .. Len(w)
        <4>1. CASE j <= k
          <5>1. j \in i + 1 .. Len(c) /\ j \in 1 .. k
            BY <1>1, <4>1
          <5> QED
            BY <1>1, <2>3, <5>1
        <4>2. CASE j > k
          <5>1. j \in k + 1 .. Len(w)
            BY <1>1, <4>2
          <5> QED
            BY <5>1
        <4> QED
          BY <1>1, <4>1, <4>2
      <3> QED
        BY <1>1, <1>6, <2>1, <2>3, <3>1 DEF InOrder
    <2> QED
      BY <2>2, <2>3 DEF InOrder
  <1> QED
    BY <1>1, <1>2, <1>3, <1>4, <1>5, <1>6 DEF c

\* Answers that are filled in or cut off stay their call's.
LEMMA OwnedKept ==
    ASSUME NEW w \in Seq(Item), NEW a \in Seq(Item), NEW k \in 1 .. Len(w), Len(a) <= Len(w),
           w[k].tag # "direct" => Len(a) = Len(w),
           \A tag, op : Only(w, tag, op) => Only(a, tag, op),
           Only(w, "direct", "direct") /\ Closed(w) => Closed(a),
           NEW c, NEW x \in Buffer, NEW i, Owned(w, c, x, i)
    PROVE  Owned(a, c, x, i)
  <1>1. Len(w) \in Nat /\ Len(a) \in Nat /\ x.dp \in Nat
    BY DirectAssumption DEF Buffer
  <1>2. w # <<>>
    OBVIOUS
  <1>3. \A n \in Nat : Segment(w, n) => Segment(a, n)
    BY <1>1 DEF Segment
  <1>4. \A op : Only(w, "mine", op) => Only(a, "mine", op) /\ Len(a) = Len(w)
    BY DEF Only
  <1>5. Asking(w, c, x) => Asking(a, c, x)
    BY <1>1, <1>3, <1>4 DEF Asking
  <1>6. Broken(w, c) => Broken(a, c)
    BY <1>1, <1>2, <1>4 DEF Broken
  <1> QED
    BY <1>1, <1>3, <1>5, <1>6 DEF Owned

-----------------------------------------------------------------------------
(* The steps.                                                              *)

LEMMA BufferFields ==
    ASSUME NEW x \in Buffer
    PROVE  /\ x.live \in BOOLEAN /\ x.failed \in BOOLEAN /\ x.size \in {1, Batch}
           /\ x.cached \in Frames /\ x.df \in 0 .. Direct /\ x.dp \in 0 .. Direct
           /\ Len(x.cached) \in Nat
  <1>1. x.cached \in Frames
    BY DEF Buffer
  <1> QED
    BY <1>1 DEF Buffer, Frames

LEMMA CallFields ==
    ASSUME NEW c \in Call
    PROVE  /\ c.op \in Ops /\ c.pc \in {"idle", "submit", "read", "failed", "term"}
           /\ c.after \in BOOLEAN /\ c.part \in Frames /\ c.err \in Errors /\ Len(c.part) \in Nat
  <1>1. c.part \in Frames
    BY DEF Call
  <1> QED
    BY <1>1 DEF Call, Frames

\* The daemon answers.
LEMMA DaemonInv ==
    ASSUME IndInv, Daemon
    PROVE  IndInv'
  <1>1. Types /\ Control /\ WireInv /\ OrderInv /\ EpInv
    BY DEF IndInv
  <1>2. /\ backend' = backend /\ io' = io /\ b' = b /\ call' = call /\ can' = can /\ ep' = ep
        /\ seen' = seen /\ hist' = hist
    BY DEF Daemon
  <1>3. Control' /\ EpInv'
    BY <1>1, <1>2 DEF Control, EpInv
  <1>4. PICK k \in Owed : \A j \in Owed : k <= j
    BY DEF Daemon
  <1>5. /\ wire \in Seq(Item) /\ k \in 1 .. Len(wire) /\ wire[k].val = "none"
        /\ \A i \in 1 .. Len(wire) : wire[i].val = "none" => k <= i
        /\ Prefixed(wire) /\ Numbered(wire) /\ sent \in Nat /\ MaxFrames \in Nat
        /\ b \in Buffer /\ call \in Call
    BY <1>1, <1>4, BoundsAssumption DEF Owed, Types, WireInv
  <1>6. Len(wire) \in Nat /\ DOMAIN wire = 1 .. Len(wire) /\ wire # <<>>
    BY <1>5
  <1>7. ASSUME wire' \in Seq(Item), sent' \in 0 .. MaxFrames, Prefixed(wire'), Numbered(wire'),
               Len(wire') <= Len(wire), wire[k].tag # "direct" => Len(wire') = Len(wire),
               \A tag, op : Only(wire, tag, op) => Only(wire', tag, op),
               Only(wire, "direct", "direct") /\ Closed(wire) => Closed(wire'),
               \A base \in Nat : InOrder(wire, base, sent) => InOrder(wire', base, sent')
        PROVE  IndInv'
    <2>1. Types'
      BY <1>1, <1>2, <1>7 DEF Types
    <2>2. Owned(wire, call, b, io) => Owned(wire', call, b, io)
      <3> DEFINE a == wire'
      <3>1. /\ a \in Seq(Item) /\ Len(a) <= Len(wire)
            /\ wire[k].tag # "direct" => Len(a) = Len(wire)
            /\ \A tag, op : Only(wire, tag, op) => Only(a, tag, op)
            /\ Only(wire, "direct", "direct") /\ Closed(wire) => Closed(a)
        BY <1>7
      <3> HIDE DEF a
      <3>2. ASSUME Owned(wire, call, b, io) PROVE Owned(a, call, b, io)
        BY <1>5, <3>1, <3>2, OwnedKept
      <3> QED
        BY <3>2 DEF a
    <2>3. Len(wire') \in Nat /\ (b.live \/ wire = <<>>)
      BY <1>1, <1>7 DEF WireInv
    <2>4. WireInv'
      <3>1. Prefixed(wire)' /\ Numbered(wire)'
        BY <1>7 DEF Prefixed, Numbered
      <3>2. Len(wire') <= IF call.op = "close" THEN MaxWire + 1 ELSE MaxWire
        <4>1. MaxWire \in Nat
          BY BoundsAssumption
        <4> QED
          BY <4>1, <1>1, <1>6, <1>7, <2>3 DEF WireInv
      <3>3. ~hist.loose => Owned(wire', call, b, io)
        BY <1>1, <2>2 DEF WireInv
      <3> QED
        BY <1>2, <1>6, <2>3, <3>1, <3>2, <3>3 DEF WireInv
    <2>5. OrderInv'
      <3>1. Len(b.cached) \in Nat /\ Len(call.part) \in Nat /\ seen \in Nat
        BY <1>1, <1>5, BufferFields, CallFields DEF Types
      <3> DEFINE base == seen + Len(b.cached) + Len(call.part)
      <3>2. base \in Nat
        <4>1. \A x, y, z \in Nat : x + y + z \in Nat
          OBVIOUS
        <4> QED
          BY <3>1, <4>1
      <3> HIDE DEF base
      <3>3. InOrder(wire, base, sent) => InOrder(wire', base, sent')
        BY <1>7, <3>2
      <3> QED
        BY <1>1, <1>2, <3>3 DEF OrderInv, Ordered, base
    <2> QED
      BY <1>3, <2>1, <2>4, <2>5 DEF IndInv
  <1>8. CASE wire[k].op \in FrameCalls /\ sent < MaxFrames
             /\ wire' = Answer(k, "frame") /\ sent' = sent + 1
    <2>1. wire' = Filled(wire, k, "frame", sent + 1)
      BY <1>8 DEF Answer, Filled
    <2>2. sent + 1 \in 0 .. MaxFrames /\ "frame" \in Values
      BY <1>5, <1>8 DEF Values
    <2> DEFINE a == Filled(wire, k, "frame", sent + 1)
    <2>3. a \in Seq(Item) /\ Len(a) = Len(wire) /\ Prefixed(a)
      BY <1>5, <2>2, FilledWire
    <2>4. /\ Numbered(wire) => Numbered(a)
          /\ \A tag, op : Only(wire, tag, op) => Only(a, tag, op)
          /\ Closed(wire) => Closed(a)
          /\ \A base \in Nat : InOrder(wire, base, sent) => InOrder(a, base, sent + 1)
      BY <1>5, <1>8, <2>2, FilledFrame
    <2> HIDE DEF a
    <2>5. wire' = a
      BY <2>1 DEF a
    <2> QED
      BY <1>5, <1>6, <1>7, <1>8, <2>2, <2>3, <2>4, <2>5
  <1>9. ASSUME NEW v \in Values, v \notin {"none", "frame"}, wire' = Answer(k, v), sent' = sent
        PROVE  IndInv'
    <2> DEFINE a == Filled(wire, k, v, 0)
               c == SubSeq(a, 1, k)
    <2>1. wire' = IF wire[k].tag = "direct" THEN c ELSE a
      <3>1. (IF v = "frame" THEN sent + 1 ELSE 0) = 0
        BY <1>9
      <3>2. Answer(k, v) =
               LET w == Filled(wire, k, v, IF v = "frame" THEN sent + 1 ELSE 0)
               IN  IF wire[k].tag = "direct" /\ v # "frame" THEN SubSeq(w, 1, k) ELSE w
        BY DEF Answer, Filled
      <3> QED
        BY <1>9, <3>1, <3>2
    <2>2. 0 \in 0 .. MaxFrames
      BY <1>5
    <2>3. /\ a \in Seq(Item) /\ Len(a) = Len(wire) /\ Prefixed(a)
          /\ a[k].val = v
          /\ \A i \in 1 .. Len(wire) : /\ i # k => a[i] = wire[i]
                                       /\ i < k => wire[i].val # "none"
                                       /\ i >= k => wire[i].val = "none"
      BY <1>5, <1>9, <2>2, FilledWire
    <2>4. /\ Numbered(wire) => Numbered(a)
          /\ \A tag, op : Only(wire, tag, op) => Only(a, tag, op)
          /\ \A base, last : InOrder(wire, base, last) => InOrder(a, base, last)
      BY <1>5, <1>9, FilledOther
    <2> HIDE DEF a
    <2>5. CASE wire[k].tag # "direct"
      <3>1. ~Only(wire, "direct", "direct")
        BY <1>5, <2>5 DEF Only
      <3> QED
        BY <1>1, <1>5, <1>6, <1>7, <1>9, <2>1, <2>3, <2>4, <2>5, <3>1 DEF Types
    <2>6. CASE wire[k].tag = "direct"
      <3>1. /\ k \in 1 .. Len(a)
            /\ \A i \in k + 1 .. Len(a) : a[i].val = "none"
            /\ \A i \in 1 .. k - 1 : a[i].val # "none"
        <4>1. \A i \in k + 1 .. Len(a) : i \in 1 .. Len(wire) /\ i # k /\ i >= k
          BY <1>5, <1>6, <2>3
        <4>2. ASSUME NEW i \in 1 .. k - 1 PROVE i \in 1 .. Len(wire) /\ i # k /\ i < k
          <5>1. k \in Nat /\ k <= Len(wire)
            BY <1>5, <1>6
          <5> QED
            BY <1>6, <5>1
        <4> QED
          BY <1>5, <2>3, <4>1, <4>2
      <3>2. /\ c \in Seq(Item) /\ Len(c) = k /\ k <= Len(a)
            /\ Prefixed(a) => Prefixed(c)
            /\ Numbered(a) => Numbered(c)
            /\ \A tag, op : Only(a, tag, op) => Only(c, tag, op)
            /\ (\A i \in 1 .. k - 1 : a[i].val = "frame") => Closed(c)
            /\ \A base, last : InOrder(a, base, last) => InOrder(c, base, last)
        BY <2>3, <3>1, CutWire
      <3>3. Closed(wire) => \A i \in 1 .. k - 1 : a[i].val = "frame"
        <4> SUFFICES ASSUME Closed(wire), NEW i \in 1 .. k - 1 PROVE a[i].val = "frame"
          OBVIOUS
        <4> DEFINE m == Len(wire)
        <4>1. i \in 1 .. m /\ i # k /\ i < k /\ i # m
          <5>1. m \in Nat /\ k \in Nat /\ k <= m
            BY <1>5, <1>6
          <5> HIDE DEF m
          <5> QED
            BY <5>1
        <4>2. a[i] = wire[i] /\ wire[i].val # "none"
          BY <2>3, <4>1
        <4> QED
          BY <4>1, <4>2 DEF Closed
      <3> HIDE DEF c
      <3>4. wire' = c
        BY <2>1, <2>6
      <3> QED
        BY <1>1, <1>5, <1>6, <1>7, <1>9, <2>3, <2>4, <2>6, <3>2, <3>3, <3>4 DEF Types
    <2> QED
      BY <2>5, <2>6
  <1>10. "ok" \in Values /\ "err" \in Values /\ "busy" \in Values /\ "bad" \in Values
    BY DEF Values
  <1>11. \/ wire[k].op \in FrameCalls /\ sent < MaxFrames
              /\ wire' = Answer(k, "frame") /\ sent' = sent + 1
         \/ \E v \in Values : v \notin {"none", "frame"} /\ wire' = Answer(k, v) /\ sent' = sent
    <2>1. PICK l \in Owed : /\ \A j \in Owed : l <= j
                            /\ \/ wire[l].op \in FrameCalls /\ sent < MaxFrames
                                    /\ wire' = Answer(l, "frame") /\ sent' = sent + 1
                               \/ wire' = Answer(l, "ok") /\ sent' = sent
                               \/ \E v \in {"err", "busy"} : wire' = Answer(l, v) /\ sent' = sent
                               \/ wire' = Answer(l, "bad") /\ sent' = sent
      BY DEF Daemon
    <2>2. l = k
      <3>1. l <= k /\ k <= l /\ k \in Nat /\ l \in Nat
        BY <1>4, <1>5, <1>6, <2>1 DEF Owed
      <3> QED
        BY <3>1
    <2> QED
      BY <1>10, <2>1, <2>2
  <1> QED
    BY <1>8, <1>9, <1>11

-----------------------------------------------------------------------------
(* The endpoint couples.                                                   *)

\* A device closes: its couple is free again, and no other.
LEMMA CloseCouple ==
    ASSUME NEW e \in Couples, CouplesOwned(e), NEW d \in Devices, e.opened[d]
    PROVE  LET f == usb_close(e, d)
           IN  /\ f \in Couples /\ CouplesOwned(f) /\ ~f.opened[d]
               /\ \A o \in Devices : o # d => (f.opened[o] <=> e.opened[o])
  <1> DEFINE f == usb_close(e, d)
             x == e.at[d]
  <1>1. /\ e.used \in [Endpoints -> BOOLEAN] /\ e.opened \in [Devices -> BOOLEAN]
        /\ e.at \in [Devices -> Endpoints \cup {Nowhere}]
    BY DEF Couples
  <1>2. x \in Endpoints /\ x # Nowhere
    BY EndpointsAssumption DEF CouplesOwned, Nowhere
  <1>3. f = [e EXCEPT !.used = [e.used EXCEPT ![x] = FALSE], !.opened = [e.opened EXCEPT ![d] = FALSE]]
    BY <1>2 DEF usb_close, Release, Couples
  <1>4. /\ f.used = [e.used EXCEPT ![x] = FALSE] /\ f.at = e.at
        /\ f.opened = [e.opened EXCEPT ![d] = FALSE] /\ f \in Couples
    <2>1. [e.used EXCEPT ![x] = FALSE] \in [Endpoints -> BOOLEAN]
      BY <1>1
    <2>2. [e.opened EXCEPT ![d] = FALSE] \in [Devices -> BOOLEAN]
      BY <1>1
    <2> QED
      BY <1>3, <2>1, <2>2 DEF Couples
  <1>5. /\ ~f.opened[d] /\ ~f.used[x]
        /\ \A o \in Devices : o # d => (f.opened[o] <=> e.opened[o])
        /\ \A y \in Endpoints : y # x => (f.used[y] <=> e.used[y])
    BY <1>1, <1>2, <1>4
  <1>6. \A o \in Devices : o # d /\ e.opened[o] => e.at[o] # x
    BY DEF CouplesOwned
  <1> HIDE DEF f, x
  <1>7. CouplesOwned(f)
    <2>1. \A o \in Devices : f.opened[o] => e.opened[o] /\ o # d
      BY <1>5
    <2>2. \A o \in Devices : f.opened[o] => f.at[o] \in Endpoints
      BY <1>4, <2>1 DEF CouplesOwned
    <2>3. \A o, o2 \in Devices : f.opened[o] /\ f.opened[o2] /\ o # o2 => f.at[o] # f.at[o2]
      BY <1>4, <2>1 DEF CouplesOwned
    <2>4. ASSUME NEW y \in Endpoints
          PROVE  f.used[y] <=> \E o \in Devices : f.opened[o] /\ f.at[o] = y
      <3>1. CASE y = x
        BY <1>4, <1>5, <1>6, <2>1, <3>1
      <3>2. CASE y # x
        <4>1. e.used[y] <=> \E o \in Devices : e.opened[o] /\ e.at[o] = y
          BY DEF CouplesOwned
        <4>2. \A o \in Devices : e.at[o] = y => o # d
          BY <3>2 DEF x
        <4> QED
          BY <1>4, <1>5, <2>1, <3>2, <4>1, <4>2
      <3> QED
        BY <3>1, <3>2
    <2> QED
      BY <2>2, <2>3, <2>4 DEF CouplesOwned
  <1> QED
    BY <1>4, <1>5, <1>7 DEF f

\* A device opens: it gets a couple that nobody has, and gives it back when
\* the open fails.
LEMMA OpenCouple ==
    ASSUME NEW e \in Couples, CouplesOwned(e), NEW d \in Devices, ~e.opened[d], NEW x \in Free(e),
           NEW ok \in BOOLEAN
    PROVE  LET f == usb_open(e, d, x, ok)
           IN  /\ f \in Couples /\ CouplesOwned(f) /\ (f.opened[d] <=> ok)
               /\ \A o \in Devices : o # d => (f.opened[o] <=> e.opened[o])
  <1> DEFINE f == usb_open(e, d, x, ok)
  <1>1. /\ e.used \in [Endpoints -> BOOLEAN] /\ e.opened \in [Devices -> BOOLEAN]
        /\ e.at \in [Devices -> Endpoints \cup {Nowhere}]
    BY DEF Couples
  <1>2. x \in Endpoints /\ x # Nowhere /\ ~e.used[x]
    BY EndpointsAssumption DEF Free, Nowhere
  <1>3. /\ [e.used EXCEPT ![x] = TRUE] \in [Endpoints -> BOOLEAN]
        /\ [e.used EXCEPT ![x] = FALSE] \in [Endpoints -> BOOLEAN]
        /\ [[e.used EXCEPT ![x] = TRUE] EXCEPT ![x] = FALSE] = [e.used EXCEPT ![x] = FALSE]
        /\ [e.at EXCEPT ![d] = x] \in [Devices -> Endpoints \cup {Nowhere}]
        /\ [e.at EXCEPT ![d] = x][d] = x
        /\ [e.opened EXCEPT ![d] = ok] \in [Devices -> BOOLEAN]
    BY <1>1, <1>2
  <1>4. f = [e EXCEPT !.used = IF ok THEN [e.used EXCEPT ![x] = TRUE] ELSE [e.used EXCEPT ![x] = FALSE],
                      !.at = [e.at EXCEPT ![d] = x], !.opened = [e.opened EXCEPT ![d] = ok]]
    <2> DEFINE g == Reserve(e, d, x)
    <2>1. /\ g = [e EXCEPT !.used = [e.used EXCEPT ![x] = TRUE], !.at = [e.at EXCEPT ![d] = x]]
          /\ g.used = [e.used EXCEPT ![x] = TRUE] /\ g.at[d] = x /\ g.opened = e.opened
      BY <1>3 DEF Reserve, Couples
    <2>2. CASE ok
      BY <2>1, <2>2 DEF usb_open, Couples
    <2>3. CASE ~ok
      <3>1. Release(g, d) = [e EXCEPT !.used = [e.used EXCEPT ![x] = FALSE], !.at = [e.at EXCEPT ![d] = x]]
        BY <1>2, <1>3, <2>1 DEF Release, Couples
      <3> HIDE DEF g
      <3>2. f = [Release(g, d) EXCEPT !.opened[d] = FALSE] /\ ok = FALSE
        BY <2>3 DEF usb_open, g
      <3> QED
        BY <2>3, <3>1, <3>2 DEF Couples
    <2> QED
      BY <2>2, <2>3
  <1>5. /\ f.used = (IF ok THEN [e.used EXCEPT ![x] = TRUE] ELSE [e.used EXCEPT ![x] = FALSE])
        /\ f.at = [e.at EXCEPT ![d] = x] /\ f.opened = [e.opened EXCEPT ![d] = ok] /\ f \in Couples
    BY <1>3, <1>4 DEF Couples
  <1>6. /\ f.opened[d] <=> ok
        /\ f.used[x] <=> ok
        /\ f.at[d] = x
        /\ \A o \in Devices : o # d => (f.opened[o] <=> e.opened[o]) /\ f.at[o] = e.at[o]
        /\ \A y \in Endpoints : y # x => (f.used[y] <=> e.used[y])
    BY <1>1, <1>2, <1>5
  <1>7. \A o \in Devices : e.opened[o] => e.at[o] # x /\ o # d
    BY <1>2 DEF CouplesOwned
  <1> HIDE DEF f
  <1>8. CouplesOwned(f)
    <2>2. \A o \in Devices : f.opened[o] => f.at[o] \in Endpoints
      BY <1>2, <1>6 DEF CouplesOwned
    <2>3. \A o, o2 \in Devices : f.opened[o] /\ f.opened[o2] /\ o # o2 => f.at[o] # f.at[o2]
      BY <1>6, <1>7 DEF CouplesOwned
    <2>4. ASSUME NEW y \in Endpoints
          PROVE  f.used[y] <=> \E o \in Devices : f.opened[o] /\ f.at[o] = y
      <3>1. CASE y = x
        BY <1>6, <1>7, <3>1
      <3>2. CASE y # x
        <4>1. e.used[y] <=> \E o \in Devices : e.opened[o] /\ e.at[o] = y
          BY DEF CouplesOwned
        <4> QED
          BY <1>6, <1>7, <3>2, <4>1
      <3> QED
        BY <3>1, <3>2
    <2> QED
      BY <2>2, <2>3, <2>4 DEF CouplesOwned
  <1> QED
    BY <1>5, <1>6, <1>8 DEF f

\* Another device opens or closes.
LEMMA OtherDeviceInv ==
    ASSUME IndInv, OtherDevice
    PROVE  IndInv'
  <1>1. /\ Types /\ Control /\ WireInv /\ OrderInv /\ EpInv /\ ep \in Couples /\ backend = "usb"
        /\ "other" \in Devices /\ "dev" \in Devices /\ "dev" # "other"
    BY DEF IndInv, Types, OtherDevice, Devices
  <1>2. /\ backend' = backend /\ io' = io /\ b' = b /\ call' = call /\ can' = can /\ wire' = wire
        /\ seen' = seen /\ hist' = hist /\ sent' = sent
    BY DEF OtherDevice
  <1>3. CouplesOwned(ep) /\ (ep.opened["dev"] <=> b.live)
    BY <1>1 DEF EpInv
  <1>4. ep' \in Couples /\ CouplesOwned(ep') /\ (ep'.opened["dev"] <=> ep.opened["dev"])
    <2>1. CASE ep.opened["other"]
      <3>1. ep' = usb_close(ep, "other")
        BY <2>1 DEF OtherDevice
      <3> QED
        BY <1>1, <1>3, <2>1, <3>1, CloseCouple
    <2>2. CASE ~ep.opened["other"]
      <3>1. PICK x \in Free(ep), ok \in BOOLEAN : ep' = usb_open(ep, "other", x, ok)
        BY <2>2 DEF OtherDevice
      <3> QED
        BY <1>1, <1>3, <2>2, <3>1, OpenCouple
    <2> QED
      BY <2>1, <2>2
  <1>5. EpInv'
    BY <1>2, <1>3, <1>4 DEF EpInv, CouplesOwned
  <1>6. Types'
    BY <1>1, <1>2, <1>4 DEF Types
  <1>7. Control' /\ WireInv' /\ OrderInv'
    BY <1>1, <1>2 DEF Control, WireInv, OrderInv, Prefixed, Numbered
  <1> QED
    BY <1>5, <1>6, <1>7 DEF IndInv

-----------------------------------------------------------------------------
(* A call begins.                                                          *)

\* A segment of which no frame is to come is an empty pipe.
LEMMA EmptySegment ==
    ASSUME NEW w \in Seq(Item), Segment(w, 0)
    PROVE  w = <<>>
  BY DEF Segment

LEMMA NothingLeft ==
    /\ <<>> \in Seq(Item) /\ <<>> \in Frames /\ Len(<<>>) = 0
    /\ Prefixed(<<>>) /\ Numbered(<<>>)
    /\ \A n \in Nat : Segment(<<>>, n)
    /\ \A base \in Nat : InOrder(<<>>, base, base)
    /\ \A n \in Nat : Counted(<<>>, n)
  <1>1. <<>> \in Seq(Item) /\ <<>> \in Frames /\ Len(<<>>) = 0 /\ \A i \in 1 .. 0 : FALSE
    BY DEF Frames
  <1>2. Prefixed(<<>>) /\ Numbered(<<>>) /\ \A n \in Nat : Counted(<<>>, n)
    BY <1>1 DEF Prefixed, Numbered, Counted
  <1>3. \A n \in Nat : Segment(<<>>, n)
    BY <1>1 DEF Segment, Only, Closed
  <1>4. \A base \in Nat : InOrder(<<>>, base, base)
    BY <1>1 DEF InOrder
  <1> QED
    BY <1>1, <1>2, <1>3, <1>4

LEMMA BeginInv ==
    ASSUME IndInv, NEW op \in Calls, NEW items \in Seq(Item), Begin(op, items),
           UNCHANGED <<backend, io, b, can, ep, sent, seen, hist>>,
           \A i \in 1 .. Len(items) : items[i].val = "none",
           op # "status" => ~b.failed,
           op = "direct" => items = <<>> /\ b.dp > 0,
           op # "direct" => b.dp = 0 \/ b.failed,
           op = "batch" => /\ Only(items, "mine", "batch") /\ Len(items) = b.size
                           /\ b.size = Batch /\ b.df = 0,
           op \notin {"direct", "batch"} => Only(items, "mine", op) /\ Len(items) = 1,
           op \in FrameCalls => b.cached = <<>>,
           op = "close" => ~can
    PROVE  IndInv'
  <1>1. /\ Types /\ Control /\ WireInv /\ OrderInv /\ EpInv /\ b \in Buffer /\ io \in Pipe
        /\ wire \in Seq(Item) /\ call \in Call /\ Prefixed(wire) /\ Numbered(wire)
        /\ CallInv(call, b) /\ BufferInv(b, io, can) /\ Len(wire) \in Nat /\ MaxWire \in Nat
    BY BoundsAssumption DEF IndInv, Types, WireInv, Control
  <1>2. /\ backend' = backend /\ io' = io /\ b' = b /\ can' = can /\ ep' = ep
        /\ seen' = seen /\ hist' = hist /\ sent' = sent
    OBVIOUS
  <1>3. call = Idle /\ b.live /\ (hist.loose => op = "close")
    BY <1>1 DEF Begin, CallInv
  <1>4. /\ call.op = "none" /\ call.part = <<>> /\ call.pc = "idle" /\ Len(wire) <= MaxWire
    BY <1>1, <1>3 DEF Idle, WireInv
  <1>5. b.dp \in Nat /\ b.size \in Nat /\ Len(b.cached) \in Nat /\ b.failed \in BOOLEAN
    BY <1>1, BufferFields, DirectAssumption, BatchAssumption
  \* An unpoisoned pipe holds nothing but the rest of a segment.
  <1>6. ~b.failed /\ ~io.cancelled /\ ~hist.loose => Segment(wire, b.dp)
    BY <1>1, <1>4 DEF WireInv, Owned
  <1>7. ~b.failed /\ ~io.cancelled /\ ~hist.loose /\ op # "direct" => wire = <<>>
    BY <1>1, <1>6, EmptySegment
  <1>8. ~b.failed /\ ~hist.loose => Ordered(wire, call, b, seen, sent)
    BY <1>4 DEF OrderInv, IndInv
  <1>9. Dead(io) => io.cancelled
    BY <1>1, <1>3 DEF Dead, BufferInv
  <1>10. ~Dead(io) => ~io.cancelled
    BY DEF Dead
  <1>11. ASSUME NEW pc \in {"submit", "read", "failed"}, NEW err \in {"none", "dead", "io"},
                call' = [op |-> op, pc |-> pc, after |-> b.failed, part |-> <<>>, err |-> err]
         PROVE  /\ call' \in Call /\ CallInv(call', b) /\ call'.op = op /\ call'.pc = pc
                /\ (call'.after <=> b.failed) /\ call'.part = <<>> /\ call'.err = err
                /\ Control'
    <2>1. /\ call'.op = op /\ call'.pc = pc /\ call'.after = b.failed /\ call'.part = <<>>
          /\ call'.err = err
      BY <1>11
    <2>2. call' \in Call
      BY <1>5, <1>11, NothingLeft DEF Call, Errors, Ops
    <2>3. CallInv(call', b)
      <3> DEFINE c == call'
      <3>1. /\ c.pc # "idle" /\ c.op # "none" /\ b.live /\ c.part = <<>> /\ c.pc # "term"
            /\ c.op = op /\ (c.after <=> b.failed)
        BY <1>3, <2>1 DEF Calls
      <3> HIDE DEF c
      <3>2. CallInv(c, b)
        BY <3>1 DEF CallInv
      <3> QED
        BY <3>2 DEF c
    <2>4. Control'
      BY <1>1, <1>2, <1>3, <2>1, <2>3 DEF Control
    <2> QED
      BY <2>1, <2>2, <2>3, <2>4
  <1>12. EpInv'
    BY <1>1, <1>2 DEF EpInv
  \* The command is in the pipe.
  <1>13. CASE ~Dead(io) /\ wire' = wire \o items /\ call' = Reading(op)
    <2>1. PICK pc \in {"submit", "read"} :
            call' = [op |-> op, pc |-> pc, after |-> b.failed, part |-> <<>>, err |-> "none"]
      BY <1>13 DEF Reading, Idle
    <2>2. /\ call' \in Call /\ call'.op = op /\ call'.pc = pc /\ (call'.after <=> b.failed)
          /\ call'.part = <<>> /\ Control'
      BY <1>11, <2>1
    <2> DEFINE a == wire'
               c == call'
    <2>3. /\ a \in Seq(Item) /\ Len(a) = Len(wire) + Len(items)
          /\ Prefixed(a) /\ Numbered(a)
          /\ \A base, last : InOrder(wire, base, last) => InOrder(a, base, last)
      BY <1>1, <1>13, AskWire
    <2>4. /\ c.op = op /\ c.pc = pc /\ (c.after <=> b.failed) /\ c.part = <<>>
      BY <2>2
    <2>5. ~b.failed /\ ~hist.loose => (op # "direct" => a = items) /\ (op = "direct" => a = wire)
      <3>1. <<>> \o items = items /\ wire \o <<>> = wire
        BY <1>1
      <3> QED
        BY <1>7, <1>10, <1>13, <3>1
    <2>6. Types'
      BY <1>1, <1>2, <2>2, <2>3 DEF Types
    <2>7. Len(a) <= IF op = "close" THEN MaxWire + 1 ELSE MaxWire
      <3>1. Len(a) <= MaxWire \/ op = "close"
        BY <1>13 DEF Begin
      <3>2. op = "close" => Len(items) = 1
        OBVIOUS
      <3>3. Len(items) \in Nat
        OBVIOUS
      <3> HIDE DEF a
      <3> QED
        BY <1>1, <1>4, <2>3, <3>1, <3>2, <3>3
    <2> HIDE DEF a, c
    <2>8. ~hist.loose => Owned(a, c, b, io)
      <3> SUFFICES ASSUME ~hist.loose PROVE Owned(a, c, b, io)
        OBVIOUS
      <3>1. CASE b.failed
        BY <2>4, <3>1 DEF Owned
      <3>2. CASE ~b.failed
        <4>1. c.pc \in {"submit", "read"} /\ ~c.after
          BY <2>4, <3>2
        <4>2. c.op = "direct" => Segment(a, b.dp)
          BY <1>6, <1>10, <1>13, <2>4, <2>5, <3>2
        <4>3. c.op = "batch" => Only(a, "mine", "batch") /\ Len(a) + Len(c.part) = b.size
          BY <1>5, <2>4, <2>5, <3>2, NothingLeft
        <4>4. c.op \notin {"direct", "batch"} => Only(a, "mine", c.op) /\ Len(a) = 1
          BY <2>4, <2>5, <3>2
        <4>5. Asking(a, c, b)
          BY <4>2, <4>3, <4>4 DEF Asking
        <4> QED
          BY <4>1, <4>5 DEF Owned
      <3> QED
        BY <3>1, <3>2
    <2>9. ~b.failed /\ ~hist.loose => Ordered(a, c, b, seen, sent)
      BY <1>4, <1>8, <2>3, <2>4 DEF Ordered
    <2>10. WireInv'
      <3>1. Prefixed(wire)' /\ Numbered(wire)' /\ b'.live
            /\ Len(wire') <= (IF call'.op = "close" THEN MaxWire + 1 ELSE MaxWire)
            /\ (~hist'.loose => Owned(wire', call', b', io'))
        BY <1>2, <1>3, <2>2, <2>3, <2>7, <2>8 DEF a, c, Prefixed, Numbered
      <3> QED
        BY <3>1 DEF WireInv
    <2>11. OrderInv'
      BY <1>2, <2>9 DEF a, c, OrderInv
    <2> QED
      BY <1>12, <2>2, <2>6, <2>10, <2>11 DEF IndInv
  \* The write failed.
  <1>14. ASSUME wire' = wire, NEW err \in {"dead", "io"}, err = "dead" => Dead(io),
                call' = [op |-> op, pc |-> "failed", after |-> b.failed, part |-> <<>>, err |-> err]
         PROVE  IndInv'
    <2> DEFINE c == call'
    <2>1. /\ c \in Call /\ c.op = op /\ c.pc = "failed" /\ (c.after <=> b.failed)
          /\ c.part = <<>> /\ c.err = err /\ Control'
      BY <1>11, <1>14
    <2>2. Types'
      BY <1>1, <1>2, <1>14, <2>1 DEF Types
    <2> HIDE DEF c
    <2>3. ~hist.loose => Owned(wire, c, b, io)
      <3> SUFFICES ASSUME ~hist.loose, ~b.failed, ~io.cancelled PROVE Broken(wire, c)
        BY <2>1 DEF Owned
      <3>1. c.op # "direct" => wire = <<>>
        BY <1>7, <2>1
      <3>2. \A o : Only(<<>>, "mine", o)
        BY NothingLeft DEF Only
      <3> QED
        BY <2>1, <3>1, <3>2, NothingLeft DEF Broken
    <2>4. ~b.failed /\ ~hist.loose => Ordered(wire, c, b, seen, sent)
      BY <1>4, <1>8, <2>1 DEF Ordered
    <2>5. WireInv'
      <3>1. Prefixed(wire)' /\ Numbered(wire)' /\ b'.live
            /\ Len(wire') <= (IF call'.op = "close" THEN MaxWire + 1 ELSE MaxWire)
            /\ (~hist'.loose => Owned(wire', call', b', io'))
        BY <1>1, <1>2, <1>3, <1>4, <1>14, <2>3 DEF c, Prefixed, Numbered
      <3> QED
        BY <3>1 DEF WireInv
    <2>6. OrderInv'
      BY <1>2, <1>14, <2>4 DEF c, OrderInv
    <2> QED
      BY <1>12, <2>1, <2>2, <2>5, <2>6 DEF IndInv
  <1>15. \/ ~Dead(io) /\ wire' = wire \o items /\ call' = Reading(op)
         \/ /\ Dead(io) /\ wire' = wire
            /\ call' = [Idle EXCEPT !.op = op, !.pc = "failed", !.after = b.failed, !.err = "dead"]
         \/ /\ wire' = wire
            /\ call' = [Idle EXCEPT !.op = op, !.pc = "failed", !.after = b.failed, !.err = "io"]
    BY DEF Begin, Queue
  <1>16. ASSUME NEW err \in {"dead", "io"},
                call' = [Idle EXCEPT !.op = op, !.pc = "failed", !.after = b.failed, !.err = err]
         PROVE  call' = [op |-> op, pc |-> "failed", after |-> b.failed, part |-> <<>>, err |-> err]
    BY <1>16 DEF Idle
  <1> QED
    BY <1>13, <1>14, <1>15, <1>16

-----------------------------------------------------------------------------
(* The calls of the owner.                                                 *)

LEMMA CommandItems ==
    ASSUME NEW op \in Calls
    PROVE  /\ Command(op) \in Seq(Item) /\ Len(Command(op)) = 1 /\ Only(Command(op), "mine", op)
           /\ \A i \in 1 .. Len(Command(op)) : Command(op)[i].val = "none"
  <1>1. 0 \in 0 .. MaxFrames
    BY BoundsAssumption
  <1>2. /\ Asked("mine", op) \in Item /\ Asked("mine", op).val = "none"
        /\ Asked("mine", op).tag = "mine" /\ Asked("mine", op).op = op
    BY <1>1 DEF Asked, Item, Tags, Values
  <1> DEFINE x == Asked("mine", op)
  <1> HIDE DEF x
  <1>3. <<x>> \in Seq(Item) /\ Len(<<x>>) = 1 /\ \A i \in 1 .. 1 : <<x>>[i] = x
    BY <1>2 DEF x
  <1> QED
    BY <1>2, <1>3 DEF Command, Only, x

LEMMA TrainItems ==
    ASSUME NEW n \in Nat, NEW tag \in {"mine", "direct"}, NEW op \in {"batch", "direct"}
    PROVE  LET t == [k \in 1 .. n |-> Asked(tag, op)]
           IN  /\ t \in Seq(Item) /\ Len(t) = n /\ Only(t, tag, op)
               /\ \A i \in 1 .. Len(t) : t[i].val = "none"
  <1>1. op \in Calls /\ 0 \in 0 .. MaxFrames
    BY BoundsAssumption DEF Calls
  <1>2. /\ Asked(tag, op) \in Item /\ Asked(tag, op).val = "none"
        /\ Asked(tag, op).tag = tag /\ Asked(tag, op).op = op
    BY <1>1 DEF Asked, Item, Tags, Values
  <1> DEFINE t == [k \in 1 .. n |-> Asked(tag, op)]
  <1>3. t \in Seq(Item) /\ Len(t) = n /\ \A i \in 1 .. n : t[i] = Asked(tag, op)
    BY <1>2
  <1> HIDE DEF t
  <1> QED
    BY <1>2, <1>3 DEF Only, t

\* The calls that send one command, or read on in a segment.
LEMMA CallsInv ==
    ASSUME IndInv, \/ RefillDirect \/ RefillSingle \/ RefillBatch \/ GetStatus \/ CancelSession
                   \/ DrainOrFeedback
    PROVE  IndInv'
  <1>1. /\ BufferInv(b, io, can) /\ b \in Buffer
    BY DEF IndInv, Types, Control
  <1>2. /\ b.dp \in Nat /\ b.df \in Nat /\ b.dp <= b.df /\ Batch # 1 /\ Batch \in Nat
        /\ (b.df > 0 => b.cached = <<>>) /\ (b.df = 0 => b.dp = 0)
    BY <1>1, BufferFields, DirectAssumption, BatchAssumption DEF BufferInv
  <1>3. ASSUME NEW op \in Calls \ {"batch", "direct", "close"}, Begin(op, Command(op)),
               UNCHANGED <<backend, io, b, can, ep, sent, seen, hist>>,
               op # "status" => ~b.failed, b.dp = 0 \/ b.failed, op \in FrameCalls => b.cached = <<>>
        PROVE  IndInv'
    <2>1. /\ Command(op) \in Seq(Item) /\ Len(Command(op)) = 1 /\ Only(Command(op), "mine", op)
          /\ \A i \in 1 .. Len(Command(op)) : Command(op)[i].val = "none"
      BY CommandItems
    <2> DEFINE items == Command(op)
    <2>2. /\ items \in Seq(Item) /\ Len(items) = 1 /\ Only(items, "mine", op) /\ Begin(op, items)
          /\ \A i \in 1 .. Len(items) : items[i].val = "none"
      BY <2>1, <1>3
    <2> HIDE DEF items
    <2> QED
      BY <1>3, <2>2, BeginInv
  <1>4. CASE RefillDirect
    <2>1. /\ Begin("direct", <<>>) /\ UNCHANGED <<backend, io, b, can, ep, sent, seen, hist>>
          /\ b.df > 0 /\ b.dp > 0 /\ ~b.failed
      BY <1>4 DEF RefillDirect
    <2>2. /\ "direct" \in Calls /\ <<>> \in Seq(Item) /\ b.cached = <<>>
          /\ \A i \in 1 .. Len(<<>>) : <<>>[i].val = "none"
      BY <1>2, <2>1, NothingLeft DEF Calls
    <2> DEFINE items == <<>>
    <2>3. /\ items \in Seq(Item) /\ Begin("direct", items) /\ items = <<>>
          /\ \A i \in 1 .. Len(items) : items[i].val = "none"
      BY <2>1, <2>2
    <2> HIDE DEF items
    <2> QED
      BY <2>1, <2>2, <2>3, BeginInv
  <1>5. CASE RefillSingle
    BY <1>2, <1>3, <1>5 DEF RefillSingle, SingleAllowed, Calls
  <1>6. CASE RefillBatch
    <2>1. /\ Begin("batch", BatchTrain) /\ UNCHANGED <<backend, io, b, can, ep, sent, seen, hist>>
          /\ b.df = 0 /\ b.cached = <<>> /\ b.size = Batch /\ ~b.failed
      BY <1>6 DEF RefillBatch
    <2>2. /\ BatchTrain \in Seq(Item) /\ Len(BatchTrain) = Batch /\ Only(BatchTrain, "mine", "batch")
          /\ \A i \in 1 .. Len(BatchTrain) : BatchTrain[i].val = "none"
      BY <1>2, TrainItems DEF BatchTrain
    <2>3. "batch" \in Calls
      BY DEF Calls
    <2> QED
      BY <1>2, <2>1, <2>2, <2>3, BeginInv
  <1>7. CASE GetStatus
    BY <1>3, <1>7 DEF GetStatus, StatusAllowed, Calls, FrameCalls
  <1>8. CASE CancelSession
    BY <1>3, <1>8 DEF CancelSession, CancelAllowed, Calls, FrameCalls
  <1>9. CASE DrainOrFeedback
    <2>1. PICK op \in {"drain", "feedback"} : Begin(op, Command(op))
      BY <1>9 DEF DrainOrFeedback
    <2> QED
      BY <1>3, <1>9, <2>1 DEF DrainOrFeedback, DrainAllowed, Calls, FrameCalls
  <1> QED
    BY <1>4, <1>5, <1>6, <1>7, <1>8, <1>9

\* The pipe of a closed device is gone, and so is everything that was in it.
LEMMA ClosePipeInv ==
    ASSUME IndInv, ClosePipe, b.live, ~can, call' = Idle, UNCHANGED <<backend, can>>
    PROVE  IndInv'
  <1>1. /\ Types /\ EpInv /\ backend \in {"network", "usb"} /\ ep \in Couples /\ hist \in History
    BY DEF IndInv, Types
  <1>2. /\ io' = NoPipe /\ wire' = <<>> /\ b' = NoBuffer /\ sent' = 0 /\ seen' = 0
        /\ hist' = [hist EXCEPT !.loose = FALSE] /\ call' = Idle /\ ~can' /\ backend' = backend
    BY DEF ClosePipe
  <1>3. MaxFrames \in Nat /\ MaxWire \in Nat
    BY BoundsAssumption
  <1>4. ep' \in Couples /\ EpInv'
    <2>1. CASE backend = "usb"
      <3>1. CouplesOwned(ep) /\ ep.opened["dev"] /\ "dev" \in Devices
        BY <1>1, <2>1 DEF EpInv, Devices
      <3>2. ep' = usb_close(ep, "dev")
        BY <2>1 DEF ClosePipe
      <3>3. ep' \in Couples /\ CouplesOwned(ep') /\ ~ep'.opened["dev"]
        BY <1>1, <3>1, <3>2, CloseCouple
      <3>4. ~b'.live
        BY <1>2 DEF NoBuffer
      <3> QED
        BY <3>3, <3>4 DEF EpInv, CouplesOwned
    <2>2. CASE backend # "usb"
      <3>1. ep' = ep
        BY <2>2 DEF ClosePipe
      <3> QED
        BY <1>1, <1>2, <2>2, <3>1 DEF EpInv
    <2> QED
      BY <2>1, <2>2
  <1>5. NoBuffer \in Buffer /\ NoPipe \in Pipe /\ Idle \in Call
    BY NothingLeft, DirectAssumption DEF NoBuffer, NoPipe, Idle, Buffer, Pipe, Call, Ops, Errors
  <1>6. hist' \in History
    BY <1>1, <1>2 DEF History
  <1>7. Types'
    BY <1>1, <1>2, <1>3, <1>4, <1>5, <1>6, NothingLeft DEF Types
  <1>8. Control'
    <2>1. CallInv(Idle, NoBuffer)
      BY DEF CallInv, Idle, NoBuffer, FrameCalls
    <2>2. BufferInv(NoBuffer, NoPipe, FALSE)
      BY DEF BufferInv, NoBuffer, NoPipe
    <2>3. Idle.op = "none" /\ Idle.pc = "idle" /\ can' = FALSE
      BY <1>1, <1>2 DEF Idle, Types, IndInv
    <2> QED
      BY <1>2, <2>1, <2>2, <2>3 DEF Control
  <1>9. WireInv'
    <2>1. Idle.op = "none" /\ Idle.pc = "idle" /\ NoBuffer.dp = 0
      BY DEF Idle, NoBuffer
    <2>2. Owned(<<>>, Idle, NoBuffer, NoPipe)
      BY <2>1, NothingLeft DEF Owned
    <2>3. Prefixed(wire)' /\ Numbered(wire)'
      BY <1>2, NothingLeft DEF Prefixed, Numbered
    <2> QED
      BY <1>2, <1>3, <2>1, <2>2, <2>3, NothingLeft DEF WireInv
  <1>10. OrderInv'
    <2>1. NoBuffer.cached = <<>> /\ Idle.part = <<>>
      BY DEF Idle, NoBuffer
    <2>2. Ordered(<<>>, Idle, NoBuffer, 0, 0)
      BY <2>1, NothingLeft DEF Ordered
    <2> QED
      BY <1>2, <2>2 DEF OrderInv
  <1> QED
    BY <1>4, <1>7, <1>8, <1>9, <1>10 DEF IndInv

LEMMA DestroyInv ==
    ASSUME IndInv, iio_buffer_destroy
    PROVE  IndInv'
  <1>1. /\ BufferInv(b, io, can) /\ b \in Buffer /\ b.live /\ ~can /\ call.pc = "idle" /\ call = Idle
        /\ backend' = backend /\ can' = can
    BY DEF IndInv, Types, Control, iio_buffer_destroy, CallInv
  <1>2. CASE io.cancelled \/ (b.dp > 0 /\ ~b.failed)
    BY <1>1, <1>2, ClosePipeInv DEF iio_buffer_destroy
  <1>3. CASE ~(io.cancelled \/ (b.dp > 0 /\ ~b.failed))
    <2>1. /\ Begin("close", Command("close")) /\ UNCHANGED <<backend, io, b, can, ep, sent, seen, hist>>
      BY <1>1, <1>3 DEF iio_buffer_destroy
    <2>2. ~b.failed /\ b.dp = 0 /\ "close" \in Calls /\ "close" \notin FrameCalls
      BY <1>1, <1>3, BufferFields, DirectAssumption DEF BufferInv, Calls, FrameCalls
    <2> DEFINE items == Command("close")
    <2>3. /\ items \in Seq(Item) /\ Len(items) = 1 /\ Only(items, "mine", "close") /\ Begin("close", items)
          /\ \A i \in 1 .. Len(items) : items[i].val = "none"
      BY <2>1, <2>2, CommandItems
    <2> HIDE DEF items
    <2> QED
      BY <1>1, <2>1, <2>2, <2>3, BeginInv
  <1> QED
    BY <1>2, <1>3

\* The transport of a buffer is cancelled.
LEMMA CancelledPipe ==
    ASSUME backend \in {"network", "usb"}, NEW i \in Pipe
    PROVE  /\ Cancelled(i) \in Pipe /\ Cancelled(i).cancelled /\ Cancelled(i).open = i.open
           /\ Cancelled(i).transfer = i.transfer
  BY DEF Cancelled, Pipe

\* A call that ends with the buffer failed, or finds it failed: whatever is in
\* the pipe, no frame is read any more.
LEMMA FailedInv ==
    ASSUME IndInv, b.live, b' \in Buffer, b'.live, b'.failed, b'.dp <= b'.df, b'.cached = <<>>,
           \/ io' = io /\ b.failed
           \/ io' = Cancelled(io),
           wire' \in Seq(Item), Prefixed(wire'), Numbered(wire'), Len(wire') <= Len(wire),
           call' = Idle, call.op # "close", hist' \in History, UNCHANGED <<backend, can, ep, sent, seen>>
    PROVE  IndInv'
  <1>1. /\ Types /\ Control /\ WireInv /\ EpInv /\ BufferInv(b, io, can) /\ io \in Pipe
        /\ backend \in {"network", "usb"} /\ can \in BOOLEAN
    BY DEF IndInv, Types, Control
  <1>2. MaxWire \in Nat /\ Len(wire') \in Nat /\ Len(wire) \in Nat
    BY <1>1, BoundsAssumption DEF Types
  <1>3. /\ io' \in Pipe /\ io'.open = io.open /\ (io'.cancelled \/ (io' = io /\ b.failed))
    BY <1>1, CancelledPipe
  <1>4. /\ Idle \in Call /\ Idle.op = "none" /\ Idle.pc = "idle" /\ ~Idle.after /\ Idle.part = <<>>
    BY NothingLeft DEF Idle, Call, Ops, Errors
  <1>5. Types'
    BY <1>1, <1>3, <1>4 DEF Types
  <1>6. BufferInv(b', io', can')
    <2>1. io.open
      BY <1>1 DEF BufferInv
    <2>2. io'.cancelled \/ can'
      BY <1>1, <1>3 DEF BufferInv
    <2>3. io'.event \/ io'.aborted => io'.cancelled
      BY <1>1, <1>3 DEF BufferInv
    <2> DEFINE x == b'
               i == io'
               c == can'
    <2>4. /\ x.live /\ x.failed /\ x.dp <= x.df /\ x.cached = <<>> /\ i.open /\ (i.cancelled \/ c)
          /\ (i.event \/ i.aborted => i.cancelled) /\ x \in Buffer /\ i \in Pipe
      BY <1>3, <2>1, <2>2, <2>3
    <2> HIDE DEF x, i, c
    <2>5. BufferInv(x, i, c)
      <3>1. i.open = x.live
        BY <2>4 DEF Buffer, Pipe
      <3> QED
        BY <2>4, <3>1 DEF BufferInv
    <2> QED
      BY <2>5 DEF x, i, c
  <1>7. CallInv(Idle, b')
    BY <1>4 DEF CallInv, FrameCalls
  <1>8. Control'
    BY <1>4, <1>6, <1>7 DEF Control
  <1>9. Owned(wire', Idle, b', io')
    BY <1>4 DEF Owned
  <1>10. WireInv'
    <2>1. Len(wire') <= MaxWire
      BY <1>1, <1>2 DEF WireInv
    <2> QED
      BY <1>4, <1>9, <2>1 DEF WireInv, Prefixed, Numbered
  <1>11. OrderInv' /\ EpInv'
    <2>1. b'.live /\ b.live /\ (b'.live <=> b.live)
      OBVIOUS
    <2> QED
      BY <1>1, <2>1 DEF OrderInv, EpInv
  <1> QED
    BY <1>5, <1>8, <1>10, <1>11 DEF IndInv

LEMMA FailBatchInv ==
    ASSUME IndInv, b.live, NEW x \in Buffer, x.live, x.dp <= x.df, FailBatch(x, io),
           wire' \in Seq(Item), Prefixed(wire'), Numbered(wire'), Len(wire') <= Len(wire),
           call' = Idle, call.op # "close", hist' \in History, UNCHANGED <<backend, can, ep, sent, seen>>
    PROVE  IndInv'
  <1>1. /\ io' = Cancelled(io) \/ (io' = io /\ b.failed)
        /\ b' = [x EXCEPT !.failed = TRUE, !.cached = <<>>]
    BY DEF FailBatch, fail_metadata_batch
  <1>2. b' \in Buffer /\ b'.live /\ b'.failed /\ b'.dp <= b'.df /\ b'.cached = <<>>
    BY <1>1, NothingLeft DEF Buffer
  <1> QED
    BY <1>1, <1>2, FailedInv

LEMMA MismatchInv ==
    ASSUME IndInv, RefillMismatch
    PROVE  IndInv'
  <1>1. /\ b \in Buffer /\ b.live /\ ~b.failed /\ b.dp <= b.df /\ call = Idle /\ call.op # "close"
        /\ wire \in Seq(Item) /\ Prefixed(wire) /\ Numbered(wire) /\ hist \in History /\ Len(wire) \in Nat
    BY DEF IndInv, Types, Control, WireInv, RefillMismatch, CallInv, BufferInv, Idle
  <1>2. FailBatch(b, io) /\ UNCHANGED <<backend, wire, call, can, ep, sent, seen, hist>>
    BY DEF RefillMismatch
  <1>3. /\ wire' \in Seq(Item) /\ Prefixed(wire') /\ Numbered(wire') /\ Len(wire') <= Len(wire)
        /\ call' = Idle /\ hist' \in History
    BY <1>1, <1>2
  <1> QED
    BY <1>1, <1>2, <1>3, FailBatchInv

\* A batch in memory is handed out frame by frame, or thrown away.
LEMMA RefillCachedInv ==
    ASSUME IndInv, RefillCached
    PROVE  IndInv'
  <1>1. /\ Types /\ Control /\ WireInv /\ OrderInv /\ EpInv /\ BufferInv(b, io, can) /\ b \in Buffer
        /\ wire \in Seq(Item) /\ Prefixed(wire) /\ Numbered(wire) /\ hist \in History
        /\ call = Idle /\ call.op = "none" /\ call.pc = "idle" /\ call.part = <<>> /\ Len(wire) \in Nat
        /\ seen \in 0 .. MaxFrames /\ b.live /\ b.cached # <<>> /\ b.dp <= b.df /\ MaxFrames \in Nat
    BY BoundsAssumption DEF IndInv, Types, Control, WireInv, RefillCached, CallInv, BufferInv, Idle
  <1>2. UNCHANGED <<backend, io, wire, call, can, ep, sent>>
    BY DEF RefillCached
  <1>3. CASE b.failed
    <2>1. b' = [b EXCEPT !.failed = TRUE, !.cached = <<>>] /\ UNCHANGED <<seen, hist>>
      BY <1>3 DEF RefillCached, fail_metadata_batch
    <2>2. b' \in Buffer /\ b'.live /\ b'.failed /\ b'.dp <= b'.df /\ b'.cached = <<>>
      BY <1>1, <2>1, NothingLeft DEF Buffer
    <2>3. /\ wire' \in Seq(Item) /\ Prefixed(wire') /\ Numbered(wire') /\ Len(wire') <= Len(wire)
          /\ call' = Idle /\ hist' \in History
      BY <1>1, <1>2, <2>1
    <2> QED
      BY <1>1, <1>2, <1>3, <2>1, <2>2, <2>3, FailedInv
  <1>4. CASE ~b.failed
    <2> DEFINE s == b.cached
               n == Len(s)
               d == Tail(s)
    <2>1. /\ b' = [b EXCEPT !.cached = d] /\ seen' = s[1]
          /\ hist' = [hist EXCEPT !.disorder = @ \/ (~hist.loose /\ s[1] # seen + 1),
                                  !.late = @ \/ FALSE]
      BY <1>1, <1>4 DEF RefillCached, Delivered
    <2>2. s \in Seq(1 .. MaxFrames) /\ s # <<>>
      BY <1>1 DEF Buffer, Frames
    <2>3. /\ d \in Seq(1 .. MaxFrames) /\ Len(d) = n - 1 /\ n \in Nat /\ n >= 1
          /\ \A i \in 1 .. n - 1 : d[i] = s[i + 1] /\ i + 1 \in 1 .. n
      BY <2>2, TailItems
    <2> HIDE DEF d, s
    <2>4. s[1] \in 1 .. MaxFrames
      BY <2>2, HeadItem
    <2> HIDE DEF n
    <2>5. ~hist.loose => /\ Counted(s, seen) /\ s[1] = seen + 1
                         /\ InOrder(wire, seen + n + 0, sent)
      <3>1. ~hist.loose => Ordered(wire, call, b, seen, sent)
        BY <1>1, <1>4 DEF OrderInv
      <3>2. ~hist.loose => Counted(s, seen) /\ InOrder(wire, seen + n + Len(call.part), sent)
        BY <3>1 DEF Ordered, s, n
      <3>3. 1 \in 1 .. n /\ Len(call.part) = 0
        BY <1>1, <2>3, NothingLeft
      <3> QED
        BY <3>2, <3>3 DEF Counted, n
    <2>6. hist' \in History /\ hist'.loose = hist.loose
      <3>1. (hist.disorder \/ (~hist.loose /\ s[1] # seen + 1)) = FALSE /\ (hist.late \/ FALSE) = FALSE
        BY <1>1, <2>5 DEF History
      <3>2. hist' = [hist EXCEPT !.disorder = FALSE, !.late = FALSE]
        BY <2>1, <3>1
      <3> QED
        BY <1>1, <3>2 DEF History
    <2> DEFINE x == b'
    <2>7. /\ x \in Buffer /\ x.cached = d /\ x.live = b.live /\ x.failed = b.failed /\ x.size = b.size
          /\ x.df = b.df /\ x.dp = b.dp
      BY <1>1, <2>1, <2>3 DEF Buffer, Frames
    <2>8. b.df = 0
      BY DEF RefillCached
    <2>9. Types'
      BY <1>1, <1>2, <2>1, <2>4, <2>6, <2>7 DEF Types
    <2> HIDE DEF x
    <2>10. CallInv(call, x) /\ BufferInv(x, io, can)
      <3>1. CallInv(call, x)
        BY <1>1 DEF CallInv, Idle, FrameCalls
      <3>2. BufferInv(x, io, can)
        BY <1>1, <2>7, <2>8 DEF BufferInv
      <3> QED
        BY <3>1, <3>2
    <2>11. Control'
      BY <1>1, <1>2, <2>10 DEF Control, x
    <2>12. WireInv'
      <3>1. ~hist.loose => Owned(wire, call, x, io)
        BY <1>1, <2>7 DEF WireInv, Owned
      <3> QED
        BY <1>1, <1>2, <2>6, <2>7, <3>1 DEF WireInv, Prefixed, Numbered, x
    <2>13. ~hist.loose => Ordered(wire, call, x, s[1], sent)
      <3> SUFFICES ASSUME ~hist.loose PROVE Ordered(wire, call, x, s[1], sent)
        OBVIOUS
      <3>1. Counted(d, seen + 1)
        <4> SUFFICES ASSUME NEW i \in 1 .. Len(d) PROVE d[i] = seen + 1 + i
          BY DEF Counted
        <4>1. d[i] = s[i + 1] /\ i + 1 \in 1 .. n
          BY <2>3
        <4>2. s[i + 1] = seen + (i + 1)
          BY <2>5, <4>1 DEF Counted, n
        <4> QED
          BY <1>1, <4>1, <4>2
      <3>2. seen + 1 + Len(d) + 0 = seen + n + 0
        BY <1>1, <2>3
      <3>3. Len(call.part) = 0 /\ Counted(call.part, seen + 1)
        BY <1>1, NothingLeft
      <3> QED
        BY <2>5, <2>7, <3>1, <3>2, <3>3 DEF Ordered
    <2>14. OrderInv'
      BY <1>2, <2>1, <2>6, <2>13 DEF OrderInv, x
    <2>15. EpInv'
      BY <1>1, <1>2, <2>7 DEF EpInv, x
    <2> QED
      BY <2>9, <2>11, <2>12, <2>14, <2>15 DEF IndInv
  <1> QED
    BY <1>3, <1>4

\* A buffer that fails, or a pipe that is cancelled, asks less of the wire.
LEMMA OwnedWeaker ==
    ASSUME NEW w, NEW c, NEW x, NEW y, NEW i, NEW j, Owned(w, c, x, i),
           y.dp = x.dp, y.size = x.size, x.failed => y.failed, i.cancelled => j.cancelled
    PROVE  Owned(w, c, y, j)
  BY DEF Owned, Asking

\* Another thread cancels the buffer, then its transport.
LEMMA CancelInv ==
    ASSUME IndInv, iio_buffer_cancel
    PROVE  IndInv'
  <1>1. /\ Types /\ Control /\ WireInv /\ EpInv /\ b \in Buffer /\ b.live
        /\ CallInv(call, b) /\ BufferInv(b, io, can) /\ call.op # "close"
    BY DEF IndInv, Types, Control, iio_buffer_cancel
  <1>2. /\ b' = [b EXCEPT !.failed = TRUE] /\ can' = TRUE
        /\ UNCHANGED <<backend, io, wire, call, ep, sent, seen, hist>>
    BY DEF iio_buffer_cancel
  <1> DEFINE x == b'
  <1>3. /\ x \in Buffer /\ x.failed /\ x.cached = b.cached /\ x.live = b.live /\ x.size = b.size
        /\ x.df = b.df /\ x.dp = b.dp
    BY <1>1, <1>2 DEF Buffer
  <1>4. Types'
    BY <1>1, <1>2, <1>3 DEF Types
  <1> HIDE DEF x
  <1>5. CallInv(call, x)
    BY <1>1, <1>3 DEF CallInv
  <1>6. BufferInv(x, io, TRUE)
    BY <1>1, <1>3 DEF BufferInv
  <1>7. Control'
    BY <1>1, <1>2, <1>5, <1>6 DEF Control, x
  <1>8. WireInv'
    <2>1. ~hist.loose => Owned(wire, call, x, io)
      <3> SUFFICES ASSUME ~hist.loose PROVE Owned(wire, call, x, io)
        OBVIOUS
      <3>1. Owned(wire, call, b, io)
        BY <1>1 DEF WireInv
      <3> QED
        BY <1>3, <3>1, OwnedWeaker
    <2> QED
      BY <1>1, <1>2, <1>3, <2>1 DEF WireInv, Prefixed, Numbered, x
  <1>9. OrderInv' /\ EpInv'
    BY <1>1, <1>2, <1>3 DEF OrderInv, EpInv, x
  <1> QED
    BY <1>4, <1>7, <1>8, <1>9 DEF IndInv

LEMMA TransportInv ==
    ASSUME IndInv, CancelTransport
    PROVE  IndInv'
  <1>1. /\ Types /\ Control /\ WireInv /\ OrderInv /\ EpInv /\ b \in Buffer /\ io \in Pipe
        /\ CallInv(call, b) /\ BufferInv(b, io, can) /\ can
    BY DEF IndInv, Types, Control, CancelTransport
  <1>2. /\ io' = Cancelled(io) /\ can' = FALSE
        /\ UNCHANGED <<backend, wire, b, call, ep, sent, seen, hist>>
    BY DEF CancelTransport
  <1> DEFINE i == io'
  <1>3. i \in Pipe /\ i.cancelled /\ i.open = io.open
    BY <1>1, <1>2, CancelledPipe DEF Types
  <1>4. Types'
    BY <1>1, <1>2, <1>3 DEF Types
  <1> HIDE DEF i
  <1>5. b.failed /\ b.live
    BY <1>1 DEF BufferInv, NoBuffer
  <1>6. BufferInv(b, i, FALSE)
    BY <1>1, <1>3, <1>5 DEF BufferInv
  <1>7. Control'
    BY <1>1, <1>2, <1>6 DEF Control, i
  <1>8. WireInv'
    <2>1. ~hist.loose => Owned(wire, call, b, i)
      <3> SUFFICES ASSUME ~hist.loose PROVE Owned(wire, call, b, i)
        OBVIOUS
      <3>1. Owned(wire, call, b, io)
        BY <1>1 DEF WireInv
      <3> QED
        BY <1>3, <3>1, OwnedWeaker
    <2> QED
      BY <1>1, <1>2, <2>1 DEF WireInv, Prefixed, Numbered, i
  <1>9. OrderInv' /\ EpInv'
    BY <1>1, <1>2 DEF OrderInv, EpInv
  <1> QED
    BY <1>4, <1>7, <1>8, <1>9 DEF IndInv

\* The buffer is opened, or a second open is refused.
LEMMA CreateInv ==
    ASSUME IndInv, create_buffer_with_metadata
    PROVE  IndInv'
  <1>1. /\ Types /\ Control /\ WireInv /\ OrderInv /\ EpInv /\ b \in Buffer /\ ep \in Couples
        /\ BufferInv(b, io, can) /\ call = Idle /\ ~can /\ "dev" \in Devices /\ can \in BOOLEAN
    BY DEF IndInv, Types, Control, create_buffer_with_metadata, OpenAllowed, CallInv, Devices
  <1>2. UNCHANGED <<backend, wire, call, can, sent, seen, hist>>
    BY DEF create_buffer_with_metadata
  <1>3. CASE b.live
    <2>1. UNCHANGED <<io, b, ep>>
      BY <1>3 DEF create_buffer_with_metadata, OpenFresh
    <2> QED
      BY <1>1, <1>2, <2>1
         DEF IndInv, Types, Control, WireInv, OrderInv, EpInv, Prefixed, Numbered
  <1>4. CASE ~b.live
    <2>1. b = NoBuffer /\ io = NoPipe /\ wire = <<>>
      BY <1>1, <1>4 DEF BufferInv, WireInv
    <2>2. \/ b' = [NoBuffer EXCEPT !.live = TRUE] /\ io' = Opened
          \/ b' = NoBuffer /\ io' = NoPipe
      BY <1>4, <2>1 DEF create_buffer_with_metadata, OpenFresh
    <2>3. \/ NoBuffer = b' /\ ~b'.live
          \/ b' = [NoBuffer EXCEPT !.live = TRUE] /\ b'.live
      BY <2>2 DEF NoBuffer
    <2> DEFINE x == b'
               i == io'
    <2>4. /\ x \in Buffer /\ ~x.failed /\ x.cached = <<>> /\ x.size = 1 /\ x.df = 0 /\ x.dp = 0
          /\ x.live \in BOOLEAN /\ (~x.live => x = NoBuffer)
      <3>1. PICK l \in BOOLEAN : x = [live |-> l, failed |-> FALSE, size |-> 1, cached |-> <<>>,
                                     df |-> 0, dp |-> 0, term |-> "none"]
        BY <2>3 DEF NoBuffer
      <3>2. 0 \in 0 .. Direct /\ 1 \in {1, Batch} /\ <<>> \in Frames
        BY DirectAssumption, NothingLeft
      <3> HIDE DEF x
      <3>3. /\ x.live = l /\ x.failed = FALSE /\ x.cached = <<>> /\ x.size = 1 /\ x.df = 0 /\ x.dp = 0
            /\ x \in Buffer
        BY <3>1, <3>2 DEF Buffer
      <3>4. ~l => x = NoBuffer
        BY <3>1 DEF NoBuffer
      <3> QED
        BY <3>3, <3>4
    <2>5. i \in Pipe /\ i.open = x.live /\ ~i.event /\ ~i.aborted /\ (~x.live => i = NoPipe)
      <3>1. CASE b' = NoBuffer /\ io' = NoPipe
        BY <3>1 DEF NoPipe, NoBuffer, Pipe
      <3>2. CASE b' = [NoBuffer EXCEPT !.live = TRUE] /\ io' = Opened
        <4>1. b'.live = TRUE
          BY <3>2 DEF NoBuffer
        <4> QED
          BY <3>2, <4>1 DEF NoPipe, Opened, Pipe
      <3> QED
        BY <2>2, <3>1, <3>2
    <2>6. ep' \in Couples /\ EpInv'
      <3>1. CASE backend = "usb"
        <4>1. CouplesOwned(ep) /\ ~ep.opened["dev"]
          BY <1>1, <1>4, <3>1 DEF EpInv
        <4>2. PICK e \in Free(ep) : ep' = usb_open(ep, "dev", e, x.live)
          BY <1>4, <3>1 DEF create_buffer_with_metadata, OpenFresh
        <4> HIDE DEF x
        <4>3. ep' \in Couples /\ CouplesOwned(ep') /\ (ep'.opened["dev"] <=> x.live)
          BY <1>1, <2>4, <4>1, <4>2, OpenCouple
        <4> QED
          BY <4>3 DEF x, EpInv, CouplesOwned
      <3>2. CASE backend # "usb"
        BY <1>1, <1>2, <1>4, <3>2 DEF EpInv, create_buffer_with_metadata, OpenFresh
      <3> QED
        BY <3>1, <3>2
    <2>7. Types'
      BY <1>1, <1>2, <2>4, <2>5, <2>6 DEF Types
    <2>8. CallInv(call, b) /\ call.op = "none" /\ call.pc = "idle" /\ call.part = <<>>
      BY <1>1 DEF Control, Idle
    <2> HIDE DEF x, i
    <2>9. CallInv(call, x)
      BY <1>1, <2>8 DEF CallInv, Idle, FrameCalls
    <2>10. BufferInv(x, i, can)
      BY <1>1, <2>4, <2>5 DEF BufferInv
    <2>11. Control'
      BY <1>1, <1>2, <2>8, <2>9, <2>10 DEF Control, x, i
    <2>12. WireInv'
      <3>1. Owned(wire, call, x, i)
        BY <2>1, <2>4, <2>8, NothingLeft DEF Owned
      <3>2. MaxWire \in Nat
        BY BoundsAssumption
      <3>3. Len(wire) <= IF call.op = "close" THEN MaxWire + 1 ELSE MaxWire
        BY <2>1, <2>8, <3>2, NothingLeft
      <3> QED
        BY <1>1, <1>2, <2>1, <3>1, <3>3 DEF WireInv, Prefixed, Numbered, x, i
    <2>13. OrderInv'
      <3>1. NoBuffer.cached = <<>> /\ ~NoBuffer.failed
        BY DEF NoBuffer
      <3>2. ~hist.loose => Ordered(wire, call, NoBuffer, seen, sent)
        BY <1>1, <2>1, <2>8, <3>1 DEF OrderInv
      <3>3. ~hist.loose => Ordered(wire, call, x, seen, sent)
        BY <2>4, <3>1, <3>2 DEF Ordered
      <3> QED
        BY <1>2, <3>3 DEF OrderInv, x
    <2> QED
      BY <2>6, <2>7, <2>11, <2>12, <2>13 DEF IndInv
  <1> QED
    BY <1>3, <1>4

\* The size of a batch is set.
LEMMA BatchSizeInv ==
    ASSUME IndInv, iio_buffer_set_metadata_batch_size
    PROVE  IndInv'
  <1>1. /\ Types /\ Control /\ WireInv /\ OrderInv /\ EpInv /\ b \in Buffer
        /\ BufferInv(b, io, can) /\ call = Idle /\ call.op = "none" /\ call.pc = "idle" /\ b.live
    BY DEF IndInv, Types, Control, iio_buffer_set_metadata_batch_size, CallInv, Idle
  <1>2. UNCHANGED <<backend, io, wire, call, can, ep, sent, seen, hist>>
    BY DEF iio_buffer_set_metadata_batch_size
  <1>3. PICK n \in {1, Batch} : b' = [b EXCEPT !.size = n]
    BY DEF iio_buffer_set_metadata_batch_size
  <1> DEFINE x == b'
  <1>4. /\ x \in Buffer /\ x.cached = b.cached /\ x.live = b.live /\ x.failed = b.failed
        /\ x.df = b.df /\ x.dp = b.dp
    BY <1>1, <1>3 DEF Buffer
  <1>5. Types'
    BY <1>1, <1>2, <1>4 DEF Types
  <1> HIDE DEF x
  <1>6. CallInv(call, x) /\ BufferInv(x, io, can)
    <2>1. CallInv(call, x)
      BY <1>1 DEF CallInv, Idle, FrameCalls
    <2>2. BufferInv(x, io, can)
      BY <1>1, <1>4 DEF BufferInv
    <2> QED
      BY <2>1, <2>2
  <1>7. Control'
    BY <1>1, <1>2, <1>6 DEF Control, x
  <1>8. WireInv'
    <2>1. ~hist.loose => Owned(wire, call, x, io)
      BY <1>1, <1>4 DEF WireInv, Owned
    <2> QED
      BY <1>1, <1>2, <1>4, <2>1 DEF WireInv, Prefixed, Numbered, x
  <1>9. OrderInv' /\ EpInv'
    <2>1. Ordered(wire, call, b, seen, sent) => Ordered(wire, call, x, seen, sent)
      BY <1>4 DEF Ordered
    <2> QED
      BY <1>1, <1>2, <1>4, <2>1 DEF OrderInv, EpInv, x
  <1> QED
    BY <1>5, <1>7, <1>8, <1>9 DEF IndInv

\* A segment is asked for.
LEMMA PrequeueInv ==
    ASSUME IndInv, prequeue_async
    PROVE  IndInv'
  <1>1. /\ Types /\ Control /\ WireInv /\ OrderInv /\ EpInv /\ BufferInv(b, io, can) /\ b \in Buffer
        /\ wire \in Seq(Item) /\ Prefixed(wire) /\ Numbered(wire) /\ hist \in History
        /\ call = Idle /\ call.op = "none" /\ call.pc = "idle" /\ call.part = <<>> /\ Len(wire) \in Nat
        /\ b.live /\ ~b.failed /\ b.cached = <<>> /\ b.dp = 0 /\ ~hist.loose /\ Direct \in Nat
    BY DirectAssumption DEF IndInv, Types, Control, WireInv, prequeue_async, CallInv, BufferInv, Idle
  <1>2. UNCHANGED <<backend, call, can, ep, sent, seen, hist>>
    BY DEF prequeue_async
  <1> DEFINE armed == [b EXCEPT !.df = Direct, !.dp = Direct]
  <1>3. /\ armed \in Buffer /\ armed.live /\ ~armed.failed /\ armed.dp = Direct /\ armed.df = Direct
        /\ armed.cached = <<>> /\ armed.dp <= armed.df
    <2>1. Direct \in 0 .. Direct /\ Direct <= Direct
      BY <1>1
    <2> QED
      BY <1>1, <2>1 DEF Buffer
  <1> HIDE DEF armed
  <1>4. \/ ~Dead(io) /\ b' = armed /\ wire' = wire \o DirectTrain /\ io' = io
        \/ FailBatch(armed, io) /\ wire' = wire
    BY DEF prequeue_async, Queue, armed
  <1>5. CASE FailBatch(armed, io) /\ wire' = wire
    <2>1. /\ wire' \in Seq(Item) /\ Prefixed(wire') /\ Numbered(wire') /\ Len(wire') <= Len(wire)
          /\ call' = Idle /\ hist' \in History /\ call.op # "close"
      BY <1>1, <1>2, <1>5
    <2> QED
      BY <1>1, <1>2, <1>3, <1>5, <2>1, FailBatchInv
  <1>6. CASE ~Dead(io) /\ b' = armed /\ wire' = wire \o DirectTrain /\ io' = io
    <2>1. ~io.cancelled
      BY <1>6 DEF Dead
    <2>2. wire = <<>>
      <3>1. Segment(wire, 0)
        BY <1>1, <2>1 DEF WireInv, Owned
      <3> QED
        BY <1>1, <3>1, EmptySegment
    <2>3. /\ DirectTrain \in Seq(Item) /\ Len(DirectTrain) = Direct
          /\ Only(DirectTrain, "direct", "direct")
          /\ \A i \in 1 .. Len(DirectTrain) : DirectTrain[i].val = "none"
      BY <1>1, TrainItems DEF DirectTrain
    <2> DEFINE t == DirectTrain
    <2> HIDE DEF t
    <2>4. /\ t \in Seq(Item) /\ Len(t) = Direct /\ Only(t, "direct", "direct") /\ Closed(t)
          /\ \A i \in 1 .. Len(t) : t[i].val = "none"
      BY <2>3 DEF t, Closed
    <2>5. wire' = t
      <3>1. <<>> \o t = t
        BY <2>4
      <3> QED
        BY <1>6, <2>2, <3>1 DEF t
    <2>6. /\ Prefixed(t) /\ Numbered(t)
          /\ \A base, last : InOrder(wire, base, last) => InOrder(wire \o t, base, last)
      <3>1. /\ Prefixed(wire) => Prefixed(wire \o t)
            /\ Numbered(wire) => Numbered(wire \o t)
            /\ \A base, last : InOrder(wire, base, last) => InOrder(wire \o t, base, last)
        BY <1>1, <2>4, AskWire
      <3>2. wire \o t = t
        BY <2>2, <2>4
      <3> QED
        BY <1>1, <3>1, <3>2
    <2>7. Segment(t, Direct)
      BY <1>1, <2>4 DEF Segment
    <2>8. Types'
      BY <1>1, <1>2, <1>3, <1>6, <2>4, <2>5 DEF Types
    <2>9. Control'
      <3>1. CallInv(call, armed)
        BY <1>1, <1>3 DEF CallInv, Idle, FrameCalls
      <3>2. BufferInv(armed, io, can)
        BY <1>1, <1>3 DEF BufferInv
      <3> QED
        BY <1>1, <1>2, <1>6, <3>1, <3>2 DEF Control
    <2>10. WireInv'
      <3>1. Owned(t, call, armed, io)
        BY <1>1, <1>3, <2>7 DEF Owned
      <3>2. MaxWire \in Nat
        BY BoundsAssumption
      <3>3. Len(t) <= MaxWire
        <4>1. Len(wire) + Direct <= MaxWire /\ Len(wire) = 0
          BY <2>2, NothingLeft DEF prequeue_async
        <4> QED
          BY <1>1, <2>4, <4>1
      <3>4. Len(t) <= IF call'.op = "close" THEN MaxWire + 1 ELSE MaxWire
        BY <1>1, <1>2, <3>3
      <3>5. Prefixed(wire)' /\ Numbered(wire)'
        BY <2>5, <2>6 DEF Prefixed, Numbered
      <3> QED
        BY <1>1, <1>2, <1>3, <1>6, <2>5, <3>1, <3>4, <3>5 DEF WireInv
    <2>11. OrderInv'
      <3>1. Ordered(wire, call, b, seen, sent)
        BY <1>1 DEF OrderInv
      <3>2. wire \o t = t
        BY <2>2, <2>4
      <3>3. Ordered(t, call, armed, seen, sent)
        BY <1>1, <1>3, <2>6, <3>1, <3>2 DEF Ordered
      <3> QED
        BY <1>2, <1>6, <2>5, <3>3 DEF OrderInv
    <2>12. EpInv'
      BY <1>1, <1>2, <1>3, <1>6 DEF EpInv
    <2> QED
      BY <2>8, <2>9, <2>10, <2>11, <2>12 DEF IndInv
  <1> QED
    BY <1>4, <1>5, <1>6

-----------------------------------------------------------------------------
(* The end of a call.                                                      *)

\* The wait for an answer begins, or ends without one: what was asked for may
\* still come.
LEMMA WaitInv ==
    ASSUME IndInv, call.pc \in {"submit", "read"},
           io' \in Pipe, io'.open = io.open, io'.cancelled = io.cancelled, io'.event = io.event,
           io'.aborted => io.aborted,
           call' \in Call, call'.op = call.op, call'.after = call.after, call'.part = call.part,
           call'.pc \in {"read", "failed"}, call'.pc = "failed" => call'.err \in {"dead", "io"},
           UNCHANGED <<backend, wire, b, can, ep, sent, seen, hist>>
    PROVE  IndInv'
  <1>1. /\ Types /\ Control /\ WireInv /\ OrderInv /\ EpInv /\ b \in Buffer /\ io \in Pipe /\ call \in Call
        /\ CallInv(call, b) /\ BufferInv(b, io, can) /\ call.pc # "idle" /\ call.pc # "failed" /\ b.live
    BY DEF IndInv, Types, Control, CallInv
  <1>2. UNCHANGED <<backend, wire, b, can, ep, sent, seen, hist>>
    OBVIOUS
  <1> DEFINE i == io'
             c == call'
  <1>3. /\ i \in Pipe /\ i.open = io.open /\ i.cancelled = io.cancelled /\ i.event = io.event
        /\ i.aborted => io.aborted
    OBVIOUS
  <1>4. /\ c \in Call /\ c.op = call.op /\ c.after = call.after /\ c.part = call.part
        /\ c.pc = "read" \/ (c.pc = "failed" /\ c.err \in {"dead", "io"})
    OBVIOUS
  <1>5. Types'
    BY <1>1, <1>2, <1>3, <1>4 DEF Types
  <1> HIDE DEF i, c
  <1>6. c.pc # "idle" /\ c.pc # "term"
    BY <1>4
  <1>7. CallInv(c, b)
    BY <1>1, <1>4, <1>6 DEF CallInv
  <1>8. BufferInv(b, i, can)
    BY <1>1, <1>3 DEF BufferInv
  <1>9. Control'
    <2>1. hist.loose => c.op = "close"
      BY <1>1, <1>4 DEF Control
    <2>2. c.op = "close" => ~can
      BY <1>1, <1>4 DEF Control
    <2>3. b' = b /\ can' = can /\ hist' = hist
      BY <1>2
    <2> QED
      BY <1>2, <1>7, <1>8, <2>1, <2>2 DEF Control, i, c
  <1>10. WireInv'
    <2>1. ~hist.loose => Owned(wire, c, b, i)
      <3> SUFFICES ASSUME ~hist.loose PROVE Owned(wire, c, b, i)
        OBVIOUS
      <3>1. ~call.after => Asking(wire, call, b)
        BY <1>1 DEF WireInv, Owned
      <3>2. ~call.after => Asking(wire, c, b)
        BY <1>4, <3>1 DEF Asking
      <3>3. Asking(wire, c, b) /\ c.pc = "failed" => Broken(wire, c)
        <4>1. CASE c.op = "direct"
          BY <1>4, <4>1 DEF Broken
        <4>2. ASSUME Asking(wire, c, b), c.op # "direct", c.op # "batch"
              PROVE  Only(wire, "mine", c.op) /\ Len(wire) <= 1
          <5>1. Only(wire, "mine", c.op) /\ Len(wire) = 1
            BY <4>2 DEF Asking
          <5> QED
            BY <5>1
        <4>3. CASE c.op # "direct"
          BY <1>4, <4>2, <4>3 DEF Broken
        <4> QED
          BY <4>1, <4>3
      <3>4. ~b.failed => ~call.after
        BY <1>1 DEF CallInv
      <3> QED
        BY <1>4, <1>6, <3>2, <3>3, <3>4 DEF Owned
    <2>2. /\ Prefixed(wire) /\ Numbered(wire)
          /\ Len(wire) <= IF c.op = "close" THEN MaxWire + 1 ELSE MaxWire
      BY <1>1, <1>4 DEF WireInv
    <2>3. b' = b /\ wire' = wire /\ hist' = hist
      BY <1>2
    <2> QED
      BY <1>1, <1>2, <2>1, <2>2 DEF WireInv, Prefixed, Numbered, i, c
  <1>11. OrderInv' /\ EpInv'
    <2>1. Ordered(wire, call, b, seen, sent) => Ordered(wire, c, b, seen, sent)
      BY <1>4 DEF Ordered
    <2> QED
      BY <1>1, <1>2, <1>4, <2>1 DEF OrderInv, EpInv, c
  <1> QED
    BY <1>5, <1>9, <1>10, <1>11 DEF IndInv

LEMMA WaitsInv ==
    ASSUME IndInv, usb_sync_transfer \/ ReadTimesOut \/ ReadCancelled
    PROVE  IndInv'
  <1>1. io \in Pipe /\ call \in Call
    BY DEF IndInv, Types
  <1>2. /\ call.pc \in {"submit", "read"} /\ UNCHANGED <<backend, wire, b, can, ep, sent, seen, hist>>
        /\ io' = io \/ (\E t \in BOOLEAN : io' = [io EXCEPT !.transfer = t, !.aborted = FALSE])
        /\ \/ call' = [call EXCEPT !.pc = "read"]
           \/ \E err \in {"dead", "io"} : call' = [call EXCEPT !.pc = "failed", !.err = err]
    <2>1. CASE usb_sync_transfer
      BY <2>1 DEF usb_sync_transfer
    <2>2. CASE ReadTimesOut
      BY <2>2 DEF ReadTimesOut, Unblocked
    <2>3. CASE ReadCancelled
      BY <2>3 DEF ReadCancelled, Unblocked
    <2> QED
      BY <2>1, <2>2, <2>3
  <1>3. /\ io' \in Pipe /\ io'.open = io.open /\ io'.cancelled = io.cancelled /\ io'.event = io.event
        /\ io'.aborted => io.aborted
    <2>1. CASE io' = io
      BY <1>1, <2>1
    <2>2. ASSUME NEW t \in BOOLEAN, io' = [io EXCEPT !.transfer = t, !.aborted = FALSE]
          PROVE  /\ io' \in Pipe /\ io'.open = io.open /\ io'.cancelled = io.cancelled
                 /\ io'.event = io.event
                 /\ io'.aborted => io.aborted
      BY <1>1, <2>2 DEF Pipe
    <2> QED
      BY <1>2, <2>1, <2>2
  <1>4. /\ call' \in Call /\ call'.op = call.op /\ call'.after = call.after /\ call'.part = call.part
        /\ call'.pc \in {"read", "failed"}
        /\ call'.pc = "failed" => call'.err \in {"dead", "io"}
    <2>1. CASE call' = [call EXCEPT !.pc = "read"]
      BY <1>1, <2>1 DEF Call
    <2>2. ASSUME NEW err \in {"dead", "io"}, call' = [call EXCEPT !.pc = "failed", !.err = err]
          PROVE  /\ call' \in Call /\ call'.op = call.op /\ call'.after = call.after
                 /\ call'.part = call.part /\ call'.pc = "failed" /\ call'.err \in {"dead", "io"}
      BY <1>1, <2>2 DEF Call, Errors
    <2> QED
      BY <1>2, <2>1, <2>2
  <1> QED
    BY <1>2, <1>3, <1>4, WaitInv

\* What a call that reads finds: its own answer, unless the buffer has failed.
LEMMA ArrivedFacts ==
    ASSUME IndInv, Arrived
    PROVE  /\ call.pc = "read" /\ wire # <<>> /\ wire \in Seq(Item) /\ wire[1].val # "none"
           /\ wire[1] \in Item /\ b \in Buffer /\ call \in Call /\ io \in Pipe /\ b.live
           /\ Tail(wire) \in Seq(Item) /\ Len(Tail(wire)) = Len(wire) - 1
           /\ Len(wire) \in Nat /\ Len(wire) >= 1
           /\ Prefixed(Tail(wire)) /\ Numbered(Tail(wire))
           /\ wire[1].val = "frame" => wire[1].op \in FrameCalls /\ wire[1].n \in 1 .. MaxFrames
           /\ ~b.failed => ~call.after
           /\ ~hist.loose /\ ~call.after => /\ Asking(wire, call, b)
                                            /\ wire[1].tag # "stale" /\ wire[1].op = call.op
           /\ Noted \in History /\ Noted.loose = hist.loose
           /\ hist.loose => call.op = "close"
  <1>1. /\ Types /\ Control /\ WireInv /\ b \in Buffer /\ call \in Call /\ io \in Pipe
        /\ wire \in Seq(Item) /\ Prefixed(wire) /\ Numbered(wire) /\ hist \in History
        /\ CallInv(call, b) /\ call.after \in BOOLEAN
    BY CallFields DEF IndInv, Types, Control, WireInv
  <1>2. call.pc = "read" /\ wire # <<>> /\ wire[1].val # "none" /\ b.live
    BY <1>1 DEF Arrived, CallInv
  <1>3. /\ Tail(wire) \in Seq(Item) /\ Len(Tail(wire)) = Len(wire) - 1
        /\ Len(wire) \in Nat /\ Len(wire) >= 1
    BY <1>1, <1>2, TailItems
  <1>4. Prefixed(Tail(wire)) /\ Numbered(Tail(wire))
    BY <1>1, <1>2, TailWire
  <1>5. wire[1] \in Item /\ 1 \in 1 .. Len(wire)
    BY <1>1, <1>2, HeadItem
  <1>6. wire[1].val = "frame" => wire[1].op \in FrameCalls /\ wire[1].n \in 1 .. MaxFrames
    <2>1. wire[1].n \in 0 .. MaxFrames /\ MaxFrames \in Nat
      BY <1>5, BoundsAssumption DEF Item
    <2>2. wire[1].val = "frame" => wire[1].op \in FrameCalls /\ wire[1].n > 0
      BY <1>1, <1>5 DEF Numbered
    <2> QED
      BY <2>1, <2>2
  <1>7. ~b.failed => ~call.after
    BY <1>1 DEF CallInv
  <1>8. ~hist.loose /\ ~call.after => /\ Asking(wire, call, b)
                                      /\ wire[1].tag # "stale" /\ wire[1].op = call.op
    <2> SUFFICES ASSUME ~hist.loose, ~call.after
                 PROVE  Asking(wire, call, b) /\ wire[1].tag # "stale" /\ wire[1].op = call.op
      OBVIOUS
    <2>1. Asking(wire, call, b)
      BY <1>1, <1>2 DEF WireInv, Owned
    <2>2. \A tag, op : Only(wire, tag, op) => wire[1].tag = tag /\ wire[1].op = op
      BY <1>5 DEF Only
    <2>3. CASE call.op = "direct"
      BY <2>1, <2>2, <2>3 DEF Asking, Segment
    <2>4. CASE call.op # "direct"
      BY <2>1, <2>2, <2>4 DEF Asking
    <2> QED
      BY <2>1, <2>3, <2>4
  <1>9. Noted \in History /\ Noted.loose = hist.loose
    <2>1. CASE (wire[1].tag = "stale" \/ wire[1].op # call.op) /\ ~hist.loose
      <3>1. call.after
        BY <1>8, <2>1
      <3>2. call.op = "status"
        BY <1>1, <3>1 DEF CallInv
      <3>3. Noted = [hist EXCEPT !.crossed = @ \cup {"status"}]
        BY <2>1, <3>2 DEF Noted
      <3> QED
        BY <1>1, <3>3 DEF History
    <2>2. CASE ~((wire[1].tag = "stale" \/ wire[1].op # call.op) /\ ~hist.loose)
      BY <1>1, <2>2 DEF Noted
    <2> QED
      BY <2>1, <2>2
  <1>10. hist.loose => call.op = "close"
    BY <1>1, <1>2 DEF Control
  <1> QED
    BY <1>1, <1>2, <1>3, <1>4, <1>5, <1>6, <1>7, <1>8, <1>9, <1>10

\* The wire of a call that got something else than a frame.
LEMMA AnsweredWire ==
    ASSUME IndInv, Arrived, ~hist.loose, ~call.after, call.op # "batch",
           wire[1].val # "frame" \/ call.op \notin FrameCalls
    PROVE  Tail(wire) = <<>> /\ \A i \in 1 .. Len(wire) : wire[i].val # "frame"
  <1>1. /\ wire # <<>> /\ wire \in Seq(Item) /\ wire[1].val # "none" /\ Asking(wire, call, b)
        /\ Tail(wire) \in Seq(Item) /\ Len(Tail(wire)) = Len(wire) - 1 /\ Len(wire) \in Nat
        /\ wire[1].op = call.op
        /\ wire[1].val = "frame" => wire[1].op \in FrameCalls
        /\ 1 \in 1 .. Len(wire)
    BY ArrivedFacts, HeadItem
  <1>2. wire[1].val # "frame"
    BY <1>1
  <1>3. Len(wire) = 1
    <2>1. CASE call.op = "direct"
      BY <1>1, <1>2, <2>1 DEF Asking, Segment, Closed
    <2>2. CASE call.op # "direct"
      BY <1>1, <2>2 DEF Asking
    <2> QED
      BY <2>1, <2>2
  <1>4. Tail(wire) = <<>>
    <2> DEFINE t == Tail(wire)
    <2>1. t \in Seq(Item) /\ Len(t) = 0
      BY <1>1, <1>3
    <2> HIDE DEF t
    <2>2. t = <<>>
      BY <2>1
    <2> QED
      BY <2>2 DEF t
  <1> QED
    BY <1>2, <1>3, <1>4

\* An error, or an answer that the call does not accept.
LEMMA ReadErrorInv ==
    ASSUME IndInv, ReadError
    PROVE  IndInv'
  <1> DEFINE a == Tail(wire)
  <1>1. /\ call.pc = "read" /\ wire \in Seq(Item) /\ b \in Buffer /\ call \in Call /\ io \in Pipe /\ b.live
        /\ a \in Seq(Item) /\ Len(a) = Len(wire) - 1 /\ Len(wire) \in Nat
        /\ Prefixed(a) /\ Numbered(a) /\ (~b.failed => ~call.after)
        /\ Noted \in History /\ Noted.loose = hist.loose /\ Arrived
    BY ArrivedFacts DEF ReadError
  <1>2. /\ Types /\ Control /\ WireInv /\ OrderInv /\ EpInv
        /\ CallInv(call, b) /\ BufferInv(b, io, can)
    BY DEF IndInv, Control
  <1>3. /\ hist' = Noted /\ wire' = a /\ io' = [io EXCEPT !.transfer = FALSE, !.aborted = FALSE]
        /\ UNCHANGED <<backend, b, can, ep, sent, seen>>
    BY DEF ReadError, Unblocked
  <1>4. PICK err \in {"err", "busy", "io"} : call' = [call EXCEPT !.pc = "failed", !.err = err]
    <2>1. call' = [call EXCEPT !.pc = "failed",
                     !.err = IF wire[1].val \in {"err", "busy"} THEN wire[1].val ELSE "io"]
      BY DEF ReadError
    <2> QED
      BY <2>1
  <1> DEFINE i == io'
             c == call'
  <1>5. i \in Pipe /\ i.open = io.open /\ i.cancelled = io.cancelled /\ i.event = io.event /\ ~i.aborted
    BY <1>1, <1>3 DEF Pipe
  <1>6. /\ c \in Call /\ c.op = call.op /\ c.after = call.after /\ c.part = call.part
        /\ c.pc = "failed"
    BY <1>1, <1>4 DEF Call, Errors
  <1>7. Types'
    BY <1>1, <1>2, <1>3, <1>5, <1>6 DEF Types
  <1>8. ~hist.loose /\ ~b.failed /\ call.op # "batch" =>
            a = <<>> /\ \A j \in 1 .. Len(wire) : wire[j].val # "frame"
    <2> SUFFICES ASSUME ~hist.loose, ~b.failed, call.op # "batch"
                 PROVE  a = <<>> /\ \A j \in 1 .. Len(wire) : wire[j].val # "frame"
      OBVIOUS
    <2>1. wire[1].val # "frame" \/ call.op \notin FrameCalls
      BY DEF ReadError
    <2> QED
      BY <1>1, <2>1, AnsweredWire
  <1> HIDE DEF a, i, c
  <1>9. CallInv(c, b)
    BY <1>1, <1>2, <1>6 DEF CallInv
  <1>10. BufferInv(b, i, can)
    BY <1>1, <1>2, <1>5 DEF BufferInv
  <1>11. Control'
    <2>1. call.op = "close" => ~can
      BY <1>2 DEF Control
    <2>2. hist.loose => call.op = "close"
      BY <1>1, <1>2 DEF Control
    <2> QED
      BY <1>1, <1>3, <1>6, <1>9, <1>10, <2>1, <2>2 DEF Control, i, c
  <1>12. WireInv'
    <2>1. ~hist.loose => Owned(a, c, b, i)
      <3> SUFFICES ASSUME ~hist.loose, ~b.failed PROVE Broken(a, c)
        BY <1>6 DEF Owned
      <3>1. \A o : Only(<<>>, "mine", o)
        BY NothingLeft DEF Only
      <3> QED
        BY <1>6, <1>8, <3>1, NothingLeft DEF Broken
    <2>2. Len(a) <= IF c.op = "close" THEN MaxWire + 1 ELSE MaxWire
      <3>1. MaxWire \in Nat
        BY BoundsAssumption
      <3>2. Len(wire) <= IF call.op = "close" THEN MaxWire + 1 ELSE MaxWire
        BY <1>2 DEF WireInv
      <3> QED
        BY <1>1, <1>6, <3>1, <3>2
    <2>3. Prefixed(wire)' /\ Numbered(wire)'
      BY <1>1, <1>3 DEF Prefixed, Numbered
    <2> QED
      BY <1>1, <1>3, <2>1, <2>2, <2>3 DEF WireInv, i, c
  <1>13. OrderInv'
    <2>1. ASSUME ~b.failed, ~hist.loose, call.op # "batch" PROVE Ordered(a, c, b, seen, sent)
      <3>1. Ordered(wire, call, b, seen, sent)
        BY <1>2, <2>1 DEF OrderInv
      <3> DEFINE base == seen + Len(b.cached) + Len(call.part)
      <3>2. base \in Nat /\ sent \in Nat
        <4>1. \A x, y, z \in Nat : x + y + z \in Nat
          OBVIOUS
        <4>2. Len(b.cached) \in Nat /\ Len(call.part) \in Nat /\ seen \in Nat /\ sent \in Nat
          BY <1>1, <1>2, BufferFields, CallFields, BoundsAssumption DEF Types
        <4> QED
          BY <4>1, <4>2
      <3> HIDE DEF base
      <3>3. InOrder(wire, base, sent)
        BY <3>1 DEF Ordered, base
      <3>4. InOrder(a, base, sent)
        BY <1>1, <1>8, <2>1, <3>2, <3>3, NoFrameInOrder
      <3> QED
        BY <1>6, <3>1, <3>4 DEF Ordered, base
    <2> QED
      BY <1>1, <1>3, <1>6, <2>1 DEF OrderInv, a, c
  <1>14. EpInv'
    BY <1>2, <1>3 DEF EpInv
  <1> QED
    BY <1>7, <1>11, <1>12, <1>13, <1>14 DEF IndInv

\* The frame at the head of the pipe is the next one of the capture.
LEMMA NextFrame ==
    ASSUME IndInv, Arrived, wire[1].val = "frame", call.op \in FrameCalls, ~b.failed
    PROVE  /\ ~hist.loose /\ ~call.after /\ Asking(wire, call, b) /\ b.cached = <<>>
           /\ Counted(call.part, seen) /\ Len(call.part) \in Nat /\ seen \in Nat /\ sent \in Nat
           /\ wire[1].n = seen + Len(call.part) + 1
           /\ InOrder(Tail(wire), seen + Len(call.part) + 1, sent)
  <1>1. /\ Types /\ OrderInv /\ wire # <<>> /\ wire \in Seq(Item) /\ b \in Buffer /\ call \in Call
        /\ CallInv(call, b) /\ call.pc = "read" /\ ~call.after
        /\ hist.loose => call.op = "close"
    BY ArrivedFacts DEF IndInv, Control
  <1>2. ~hist.loose /\ b.cached = <<>>
    BY <1>1 DEF FrameCalls, CallInv
  <1>3. Asking(wire, call, b)
    BY <1>1, <1>2, ArrivedFacts
  <1>4. Len(call.part) \in Nat /\ seen \in Nat /\ sent \in Nat /\ Len(b.cached) = 0
    BY <1>1, <1>2, CallFields, NothingLeft, BoundsAssumption DEF Types
  <1>5. Ordered(wire, call, b, seen, sent)
    BY <1>1, <1>2 DEF OrderInv
  <1> DEFINE base == seen + Len(call.part)
  <1>6. base \in Nat /\ seen + Len(b.cached) + Len(call.part) = base
    BY <1>4
  <1>7. InOrder(wire, base, sent) /\ Counted(call.part, seen)
    BY <1>5, <1>6 DEF Ordered
  <1> HIDE DEF base
  <1>8. wire[1].n = base + 1 /\ InOrder(Tail(wire), base + 1, sent)
    BY <1>1, <1>4, <1>6, <1>7, TailInOrder
  <1> QED
    BY <1>1, <1>2, <1>3, <1>4, <1>7, <1>8 DEF base

\* The program gets a frame of the pipe.
LEMMA GotHistory ==
    ASSUME IndInv, Arrived, ~b.failed, Got(seen + 1)
    PROVE  hist' \in History /\ hist'.loose = hist.loose /\ seen' = seen + 1
  <1>1. Noted \in History /\ Noted.loose = hist.loose /\ ~call.after
    BY ArrivedFacts
  <1>2. (Noted.disorder \/ (~hist.loose /\ seen + 1 # seen + 1)) = FALSE
    BY <1>1 DEF History
  <1>3. (Noted.late \/ call.after) = FALSE
    BY <1>1 DEF History
  <1>4. hist' = [Noted EXCEPT !.disorder = FALSE, !.late = FALSE]
    BY <1>2, <1>3 DEF Got
  <1> QED
    BY <1>1, <1>4 DEF History, Got

LEMMA ReadFrameInv ==
    ASSUME IndInv, ReadFrame
    PROVE  IndInv'
  <1> DEFINE a == Tail(wire)
             x == b'
             i == io'
  <1>1. /\ call.pc = "read" /\ wire \in Seq(Item) /\ b \in Buffer /\ call \in Call /\ io \in Pipe /\ b.live
        /\ a \in Seq(Item) /\ Len(a) = Len(wire) - 1 /\ Len(wire) \in Nat
        /\ Prefixed(a) /\ Numbered(a) /\ Noted \in History /\ Noted.loose = hist.loose /\ Arrived
        /\ wire[1].n \in 1 .. MaxFrames
    BY ArrivedFacts DEF ReadFrame
  <1>2. /\ Types /\ Control /\ WireInv /\ EpInv /\ CallInv(call, b) /\ BufferInv(b, io, can)
    BY DEF IndInv, Control
  <1>3. /\ wire' = a /\ io' = [io EXCEPT !.transfer = FALSE, !.aborted = FALSE] /\ call' = Idle
        /\ UNCHANGED <<backend, can, ep, sent>>
        /\ call.op \in {"single", "direct"} /\ call.op \in FrameCalls /\ wire[1].val = "frame"
    BY DEF ReadFrame, Unblocked, FrameCalls
  <1>4. i \in Pipe /\ i.open = io.open /\ i.cancelled = io.cancelled /\ i.event = io.event /\ ~i.aborted
    BY <1>1, <1>3 DEF Pipe
  <1>5. /\ x \in Buffer /\ x.live = b.live /\ x.failed = b.failed /\ x.cached = b.cached /\ x.df = b.df
        /\ x.dp = IF call.op = "direct" THEN b.dp - 1 ELSE b.dp
    <2>1. CASE call.op = "direct"
      <3>1. b.dp - 1 \in 0 .. Direct
        BY <1>1, <1>2, <2>1, BufferFields, DirectAssumption DEF CallInv
      <3>2. b' = [b EXCEPT !.dp = b.dp - 1]
        BY <2>1 DEF ReadFrame
      <3> QED
        BY <1>1, <2>1, <3>1, <3>2 DEF Buffer
    <2>2. CASE call.op # "direct"
      BY <1>1, <2>2 DEF ReadFrame
    <2> QED
      BY <2>1, <2>2
  <1>6. /\ hist' \in History /\ hist'.loose = hist.loose /\ seen' \in 0 .. MaxFrames
        /\ ~b.failed => /\ ~hist.loose /\ Asking(wire, call, b) /\ b.cached = <<>>
                        /\ seen' = seen + 1 /\ seen \in Nat /\ InOrder(a, seen + 1, sent)
    <2>1. CASE b.failed
      <3>1. hist' = Noted /\ seen' = seen
        BY <2>1 DEF ReadFrame
      <3> QED
        BY <1>1, <1>2, <2>1, <3>1 DEF Types
    <2>2. CASE ~b.failed
      <3>1. /\ ~hist.loose /\ Asking(wire, call, b) /\ b.cached = <<>>
            /\ wire[1].n = seen + Len(call.part) + 1 /\ seen \in Nat
            /\ InOrder(a, seen + Len(call.part) + 1, sent)
        BY <1>1, <1>3, <2>2, NextFrame
      <3>2. call.part = <<>>
        BY <1>2, <1>3 DEF CallInv
      <3>3. seen + Len(call.part) + 1 = seen + 1
        BY <3>1, <3>2, NothingLeft
      <3>4. Got(seen + 1)
        BY <2>2, <3>1, <3>3 DEF ReadFrame
      <3>5. hist' \in History /\ hist'.loose = hist.loose /\ seen' = seen + 1
        BY <1>1, <2>2, <3>4, GotHistory
      <3>6. seen' \in 0 .. MaxFrames
        <4>1. seen' = wire[1].n /\ MaxFrames \in Nat
          BY <3>1, <3>3, <3>5, BoundsAssumption
        <4> QED
          BY <1>1, <4>1
      <3> QED
        BY <3>1, <3>3, <3>5, <3>6
    <2> QED
      BY <2>1, <2>2
  <1>7. /\ Idle \in Call /\ Idle.op = "none" /\ Idle.pc = "idle" /\ ~Idle.after /\ Idle.part = <<>>
    BY NothingLeft DEF Idle, Call, Ops, Errors
  <1>8. Types'
    BY <1>1, <1>2, <1>3, <1>4, <1>5, <1>6, <1>7 DEF Types
  <1> HIDE DEF a, x, i
  <1>9. CallInv(Idle, x)
    BY <1>7 DEF CallInv, FrameCalls
  <1>10. BufferInv(x, i, can)
    <2>1. x.dp <= x.df
      BY <1>1, <1>2, <1>5, BufferFields, DirectAssumption DEF BufferInv
    <2> QED
      BY <1>1, <1>2, <1>4, <1>5, <2>1 DEF BufferInv
  <1>11. Control'
    BY <1>3, <1>7, <1>9, <1>10 DEF Control, x, i
  <1>12. WireInv'
    <2>1. ~hist.loose => Owned(a, Idle, x, i)
      <3> SUFFICES ASSUME ~x.failed PROVE Segment(a, x.dp)
        BY <1>7 DEF Owned
      <3>1. Asking(wire, call, b) /\ wire # <<>> /\ b.dp \in Nat
        BY <1>1, <1>5, <1>6, BufferFields, DirectAssumption DEF Arrived
      <3>2. CASE call.op = "direct"
        <4>1. Only(wire, "direct", "direct") /\ Closed(wire) /\ Len(wire) <= b.dp
          BY <3>1, <3>2 DEF Asking, Segment
        <4>2. Only(a, "direct", "direct") /\ Closed(a)
          BY <1>1, <3>1, <4>1, TailWire DEF a
        <4>3. Len(a) <= x.dp
          BY <1>1, <1>5, <3>1, <3>2, <4>1
        <4> QED
          BY <4>2, <4>3 DEF Segment
      <3>3. CASE call.op # "direct"
        <4>1. Len(wire) = 1
          BY <1>3, <3>1, <3>3 DEF Asking
        <4>2. a = <<>> /\ x.dp \in Nat
          BY <1>1, <1>5, <3>1, <3>3, <4>1
        <4> QED
          BY <4>2, NothingLeft
      <3> QED
        BY <3>2, <3>3
    <2>2. Len(a) <= MaxWire
      <3>1. MaxWire \in Nat
        BY BoundsAssumption
      <3>2. Len(wire) <= MaxWire
        BY <1>2, <1>3 DEF WireInv
      <3> QED
        BY <1>1, <3>1, <3>2
    <2>3. Prefixed(wire)' /\ Numbered(wire)'
      BY <1>1, <1>3 DEF Prefixed, Numbered
    <2>4. Idle.op # "close"
      BY <1>7
    <2> QED
      BY <1>1, <1>3, <1>5, <1>6, <2>1, <2>2, <2>3, <2>4 DEF WireInv, x, i
  <1>13. OrderInv'
    <2>1. ASSUME ~x.failed PROVE Ordered(a, Idle, x, seen + 1, sent)
      <3>1. x.cached = <<>> /\ Idle.part = <<>> /\ seen \in Nat /\ InOrder(a, seen + 1, sent)
        BY <1>5, <1>6, <1>7, <2>1
      <3>2. seen + 1 + 0 + 0 = seen + 1 /\ seen + 1 \in Nat
        BY <3>1
      <3> QED
        BY <3>1, <3>2, NothingLeft DEF Ordered
    <2> QED
      BY <1>3, <1>5, <1>6, <2>1 DEF OrderInv, x
  <1>14. EpInv'
    BY <1>2, <1>3, <1>5 DEF EpInv, x
  <1> QED
    BY <1>8, <1>11, <1>12, <1>13, <1>14 DEF IndInv

\* The result of a command.
LEMMA ReadResultInv ==
    ASSUME IndInv, ReadResult
    PROVE  IndInv'
  <1>1. /\ Types /\ Control /\ WireInv /\ OrderInv /\ EpInv /\ CallInv(call, b) /\ BufferInv(b, io, can)
        /\ Arrived
    BY DEF IndInv, Control, ReadResult
  <1>2. CASE call.op = "close"
    <2>1. ClosePipe /\ call' = Idle /\ UNCHANGED <<backend, can>> /\ b.live /\ ~can
      BY <1>1, <1>2, ArrivedFacts DEF ReadResult, Control
    <2> QED
      BY <2>1, ClosePipeInv
  <1>3. CASE call.op # "close"
    <2> DEFINE a == Tail(wire)
               i == io'
    <2>1. /\ wire \in Seq(Item) /\ b \in Buffer /\ call \in Call /\ io \in Pipe /\ b.live
          /\ a \in Seq(Item) /\ Len(a) = Len(wire) - 1 /\ Len(wire) \in Nat
          /\ Prefixed(a) /\ Numbered(a) /\ Noted \in History /\ ~hist.loose
          /\ ~Noted.loose /\ (~b.failed => ~call.after) /\ call.pc = "read"
      BY <1>1, <1>3, ArrivedFacts
    <2>2. /\ wire' = a /\ io' = [io EXCEPT !.transfer = FALSE, !.aborted = FALSE] /\ call' = Idle
          /\ hist' = Noted /\ UNCHANGED <<backend, can, ep, sent, seen, b>>
          /\ wire[1].val = "ok" /\ call.op \notin FrameCalls
      BY <1>3 DEF ReadResult, Unblocked
    <2>3. i \in Pipe /\ i.open = io.open /\ i.cancelled = io.cancelled /\ i.event = io.event /\ ~i.aborted
      BY <2>1, <2>2 DEF Pipe
    <2>4. /\ Idle \in Call /\ Idle.op = "none" /\ Idle.pc = "idle" /\ ~Idle.after /\ Idle.part = <<>>
      BY NothingLeft DEF Idle, Call, Ops, Errors
    <2>5. Types'
      BY <1>1, <2>1, <2>2, <2>3, <2>4 DEF Types
    <2>6. call.op # "direct" /\ call.op # "batch" /\ call.part = <<>>
      BY <1>1, <2>2 DEF FrameCalls, CallInv
    <2>7. ~b.failed => a = <<>> /\ \A j \in 1 .. Len(wire) : wire[j].val # "frame"
      BY <1>1, <2>1, <2>2, <2>6, AnsweredWire
    <2> HIDE DEF a, i
    <2>8. CallInv(Idle, b)
      BY <2>4 DEF CallInv, FrameCalls
    <2>9. BufferInv(b, i, can)
      BY <1>1, <2>1, <2>3 DEF BufferInv
    <2>10. Control'
      BY <2>2, <2>4, <2>8, <2>9 DEF Control, i
    <2>11. WireInv'
      <3>1. Owned(a, Idle, b, i)
        <4>1. b.dp \in Nat
          BY <2>1, BufferFields, DirectAssumption
        <4> QED
          BY <2>4, <2>7, <4>1, NothingLeft DEF Owned
      <3>2. Len(a) <= MaxWire
        <4>1. MaxWire \in Nat
          BY BoundsAssumption
        <4>2. Len(wire) <= MaxWire
          BY <1>1, <1>3 DEF WireInv
        <4> QED
          BY <2>1, <4>1, <4>2
      <3>3. Prefixed(wire)' /\ Numbered(wire)'
        BY <2>1, <2>2 DEF Prefixed, Numbered
      <3>4. Idle.op # "close"
        BY <2>4
      <3> QED
        BY <2>1, <2>2, <3>1, <3>2, <3>3, <3>4 DEF WireInv, i
    <2>12. OrderInv'
      <3>1. ASSUME ~b.failed PROVE Ordered(a, Idle, b, seen, sent)
        <4>1. Ordered(wire, call, b, seen, sent)
          BY <1>1, <2>1, <2>6, <3>1 DEF OrderInv
        <4> DEFINE base == seen + Len(b.cached) + 0
        <4>2. base \in Nat /\ sent \in Nat
          <5>1. \A x, y, z \in Nat : x + y + z \in Nat
            OBVIOUS
          <5>2. Len(b.cached) \in Nat /\ seen \in Nat /\ sent \in Nat
            BY <1>1, <2>1, BufferFields, BoundsAssumption DEF Types
          <5> QED
            BY <5>1, <5>2
        <4> HIDE DEF base
        <4>3. Len(call.part) = 0 /\ Len(Idle.part) = 0
          BY <2>4, <2>6, NothingLeft
        <4>4. InOrder(wire, base, sent)
          BY <4>1, <4>3 DEF Ordered, base
        <4>5. InOrder(a, base, sent)
          BY <2>1, <2>7, <3>1, <4>2, <4>4, NoFrameInOrder
        <4> QED
          BY <2>4, <2>6, <4>1, <4>3, <4>5 DEF Ordered, base
      <3> QED
        BY <2>2, <3>1 DEF OrderInv
    <2>13. EpInv'
      BY <1>1, <2>2 DEF EpInv
    <2> QED
      BY <2>5, <2>10, <2>11, <2>12, <2>13 DEF IndInv
  <1> QED
    BY <1>2, <1>3

\* One frame of a batch; the last one hands out the first.
LEMMA ReadBatchFrameInv ==
    ASSUME IndInv, ReadBatchFrame
    PROVE  IndInv'
  <1> DEFINE a == Tail(wire)
             i == io'
             p == Append(call.part, wire[1].n)
  <1>1. /\ call.pc = "read" /\ wire \in Seq(Item) /\ b \in Buffer /\ call \in Call /\ io \in Pipe /\ b.live
        /\ a \in Seq(Item) /\ Len(a) = Len(wire) - 1 /\ Len(wire) \in Nat /\ wire # <<>>
        /\ Prefixed(a) /\ Numbered(a) /\ Noted \in History /\ Noted.loose = hist.loose /\ Arrived
        /\ wire[1].n \in 1 .. MaxFrames
    BY ArrivedFacts DEF ReadBatchFrame
  <1>2. /\ Types /\ Control /\ WireInv /\ EpInv /\ CallInv(call, b) /\ BufferInv(b, io, can)
    BY DEF IndInv, Control
  <1>3. /\ wire' = a /\ io' = [io EXCEPT !.transfer = FALSE, !.aborted = FALSE]
        /\ UNCHANGED <<backend, can, ep, sent>>
        /\ call.op = "batch" /\ call.op \in FrameCalls /\ wire[1].val = "frame"
    BY DEF ReadBatchFrame, Unblocked, FrameCalls
  <1>4. i \in Pipe /\ i.open = io.open /\ i.cancelled = io.cancelled /\ i.event = io.event /\ ~i.aborted
    BY <1>1, <1>3 DEF Pipe
  <1>5. /\ call.part \in Seq(1 .. MaxFrames) /\ Len(call.part) \in Nat
        /\ p \in Seq(1 .. MaxFrames) /\ Len(p) = Len(call.part) + 1
        /\ \A j \in 1 .. Len(call.part) : p[j] = call.part[j]
        /\ p[Len(call.part) + 1] = wire[1].n
    <2>1. call.part \in Seq(1 .. MaxFrames)
      BY <1>1, CallFields DEF Frames
    <2> QED
      BY <1>1, <2>1
  <1>6. b.size = Batch /\ b.df = 0 /\ b.cached = <<>> /\ Batch \in Nat /\ b.dp \in Nat
    BY <1>1, <1>2, <1>3, BufferFields, BatchAssumption, DirectAssumption DEF CallInv
  \* What holds whatever the call does next.
  <1>7. ASSUME NEW c, c = call', c \in Call, NEW x, x = b', x \in Buffer,
               CallInv(c, x), BufferInv(x, i, can), c.op # "close", x.live,
               hist' \in History, hist'.loose = hist.loose, c.pc # "idle" => ~hist.loose,
               seen' \in 0 .. MaxFrames,
               ~hist.loose => Owned(a, c, x, i),
               ~x.failed /\ ~hist.loose /\ ~(c.op = "batch" /\ c.pc = "failed")
                  => Ordered(a, c, x, seen', sent)
        PROVE  IndInv'
    <2>1. Types'
      BY <1>1, <1>2, <1>3, <1>4, <1>7 DEF Types
    <2> HIDE DEF a, i
    <2>2. Control'
      BY <1>3, <1>7 DEF Control, i
    <2>3. WireInv'
      <3>1. Len(a) <= MaxWire
        <4>1. MaxWire \in Nat
          BY BoundsAssumption
        <4>2. Len(wire) <= MaxWire
          BY <1>2, <1>3 DEF WireInv
        <4> QED
          BY <1>1, <4>1, <4>2
      <3>2. Prefixed(wire)' /\ Numbered(wire)'
        BY <1>1, <1>3 DEF Prefixed, Numbered
      <3> QED
        BY <1>3, <1>7, <3>1, <3>2 DEF WireInv, i
    <2>4. OrderInv' /\ EpInv'
      BY <1>1, <1>2, <1>3, <1>7 DEF OrderInv, EpInv, a
    <2> QED
      BY <2>1, <2>2, <2>3, <2>4 DEF IndInv
  <1>8. CASE b.failed
    <2>1. call' = [call EXCEPT !.pc = "failed"] /\ hist' = Noted /\ b' = b /\ seen' = seen
      BY <1>8 DEF ReadBatchFrame
    <2> DEFINE c == call'
    <2>2. c \in Call /\ c.op = "batch" /\ c.pc = "failed" /\ c.part = call.part /\ c.after = call.after
      BY <1>1, <1>3, <2>1 DEF Call
    <2>3. ~hist.loose
      BY <1>1, <1>2, <1>3 DEF Control
    <2>4. seen \in 0 .. MaxFrames
      BY <1>2 DEF Types
    <2> HIDE DEF c, a, i
    <2>5. CallInv(c, b)
      BY <1>1, <1>2, <1>3, <2>2 DEF CallInv
    <2>6. BufferInv(b, i, can)
      BY <1>1, <1>2, <1>4 DEF BufferInv
    <2>7. Owned(a, c, b, i)
      BY <1>8, <2>2 DEF Owned
    <2> QED
      BY <1>1, <1>7, <1>8, <2>1, <2>2, <2>3, <2>4, <2>5, <2>6, <2>7 DEF c
  <1>9. CASE ~b.failed
    <2>1. /\ ~hist.loose /\ ~call.after /\ Asking(wire, call, b) /\ Counted(call.part, seen)
          /\ seen \in Nat /\ sent \in Nat /\ wire[1].n = seen + Len(call.part) + 1
          /\ InOrder(a, seen + Len(call.part) + 1, sent)
      BY <1>1, <1>3, <1>9, NextFrame
    <2>2. Only(wire, "mine", "batch") /\ Len(wire) + Len(call.part) = b.size
      BY <1>3, <2>1 DEF Asking
    <2>3. Only(a, "mine", "batch") /\ Len(a) + Len(p) = b.size
      BY <1>1, <1>5, <2>2, TailWire
    <2>4. Counted(p, seen) /\ Len(p) \in Nat /\ Len(p) >= 1
      <3> SUFFICES ASSUME NEW j \in 1 .. Len(p) PROVE p[j] = seen + j
        BY <1>5 DEF Counted
      <3>1. CASE j \in 1 .. Len(call.part)
        BY <1>5, <2>1, <3>1 DEF Counted
      <3>2. CASE j \notin 1 .. Len(call.part)
        <4>1. j = Len(call.part) + 1
          BY <1>5, <3>2
        <4> QED
          BY <1>5, <2>1, <4>1
      <3> QED
        BY <3>1, <3>2
    <2> HIDE DEF a, i
    <2>5. InOrder(a, seen + 0 + Len(p), sent)
      <3>1. seen + Len(call.part) + 1 = seen + 0 + Len(p)
        BY <1>5, <2>1
      <3> QED
        BY <2>1, <3>1
    <2>6. CASE Len(p) = b.size
      <3>1. call' = Idle /\ b' = [b EXCEPT !.cached = Tail(p)] /\ Got(Head(p))
        BY <1>9, <2>6 DEF ReadBatchFrame
      <3> HIDE DEF p
      <3> DEFINE d == Tail(p)
                 x == b'
      <3>2. /\ d \in Seq(1 .. MaxFrames) /\ Len(d) = Len(p) - 1
            /\ \A j \in 1 .. Len(p) - 1 : d[j] = p[j + 1] /\ j + 1 \in 1 .. Len(p)
        BY <1>5, <2>4, TailItems
      <3>3. Head(p) = p[1] /\ p[1] \in 1 .. MaxFrames /\ 1 \in 1 .. Len(p)
        <4>1. p # <<>>
          BY <2>4
        <4>2. p[1] \in 1 .. MaxFrames /\ Head(p) = p[1] /\ 1 \in 1 .. Len(p)
          BY <1>5, <4>1, HeadItem
        <4> QED
          BY <4>2
      <3>4. p[1] = seen + 1
        BY <2>4, <3>3 DEF Counted
      <3>5. hist' \in History /\ hist'.loose = hist.loose /\ seen' = seen + 1
        BY <1>1, <1>9, <3>1, <3>3, <3>4, GotHistory
      <3>6. seen' \in 0 .. MaxFrames
        <4>1. MaxFrames \in Nat
          BY BoundsAssumption
        <4> QED
          BY <3>3, <3>4, <3>5, <4>1
      <3> HIDE DEF d
      <3>7. /\ x \in Buffer /\ x.cached = d /\ x.live = b.live /\ x.failed = b.failed /\ x.size = b.size
            /\ x.df = b.df /\ x.dp = b.dp
        BY <1>1, <3>1, <3>2 DEF Buffer, Frames, d
      <3> HIDE DEF x
      <3>8. /\ Idle \in Call /\ Idle.op = "none" /\ Idle.pc = "idle" /\ ~Idle.after /\ Idle.part = <<>>
        BY NothingLeft DEF Idle, Call, Ops, Errors
      <3>9. CallInv(Idle, x)
        BY <3>8 DEF CallInv, FrameCalls
      <3>10. BufferInv(x, i, can)
        BY <1>1, <1>2, <1>4, <1>6, <3>7 DEF BufferInv
      <3>11. a = <<>>
        <4>1. Len(a) = 0
          BY <1>1, <2>3, <2>4, <2>6
        <4> QED
          BY <1>1, <4>1
      <3>12. Owned(a, Idle, x, i)
        BY <1>6, <3>7, <3>8, <3>11, NothingLeft DEF Owned
      <3>13. Counted(d, seen + 1)
        <4> SUFFICES ASSUME NEW j \in 1 .. Len(d) PROVE d[j] = seen + 1 + j
          BY DEF Counted
        <4>1. d[j] = p[j + 1] /\ j + 1 \in 1 .. Len(p)
          BY <3>2
        <4>2. p[j + 1] = seen + (j + 1)
          BY <2>4, <4>1 DEF Counted
        <4> QED
          BY <2>1, <4>1, <4>2
      <3>14. Ordered(a, Idle, x, seen', sent)
        <4>1. seen + 1 + Len(d) + Len(<<>>) = seen + 0 + Len(p)
          BY <2>1, <2>4, <3>2, NothingLeft
        <4>2. seen + 1 \in Nat
          BY <2>1
        <4> QED
          BY <2>5, <3>5, <3>7, <3>8, <3>13, <4>1, <4>2, NothingLeft DEF Ordered
      <3> QED
        BY <1>1, <1>7, <3>1, <3>5, <3>6, <3>7, <3>8, <3>9, <3>10, <3>12, <3>14 DEF x
    <2>7. CASE Len(p) # b.size
      <3>1. /\ call' = [Reading("batch") EXCEPT !.part = p, !.after = call.after]
            /\ hist' = Noted /\ b' = b /\ seen' = seen
        BY <1>9, <2>7 DEF ReadBatchFrame
      <3> DEFINE c == call'
      <3> HIDE DEF p
      <3>2. PICK pc \in {"submit", "read"} :
              c = [op |-> "batch", pc |-> pc, after |-> call.after, part |-> p, err |-> "none"]
        BY <3>1 DEF Reading, Idle
      <3>3. /\ c.op = "batch" /\ c.pc \in {"submit", "read"} /\ (c.after <=> call.after) /\ c.part = p
        BY <3>2
      <3>4. c \in Call
        <4>1. p \in Frames /\ call.after \in BOOLEAN /\ "batch" \in Ops /\ "none" \in Errors
          BY <1>1, <1>5, CallFields DEF Frames, Ops, Calls, Errors
        <4> HIDE DEF c
        <4> QED
          BY <3>2, <4>1 DEF Call
      <3> HIDE DEF c
      <3>5. CallInv(c, b)
        BY <1>1, <1>6, <2>1, <3>3 DEF CallInv
      <3>6. BufferInv(b, i, can)
        BY <1>1, <1>2, <1>4 DEF BufferInv
      <3>7. Owned(a, c, b, i)
        <4>1. Asking(a, c, b)
          BY <2>3, <3>3 DEF Asking
        <4> QED
          BY <3>3, <4>1 DEF Owned
      <3>8. Ordered(a, c, b, seen, sent)
        <4>1. Len(b.cached) = 0 /\ Counted(b.cached, seen)
          BY <1>6, <2>1, NothingLeft
        <4> QED
          BY <2>4, <2>5, <3>3, <4>1 DEF Ordered
      <3>9. seen \in 0 .. MaxFrames
        BY <1>2 DEF Types
      <3> QED
        BY <1>1, <1>7, <2>1, <3>1, <3>3, <3>4, <3>5, <3>6, <3>7, <3>8, <3>9 DEF c
    <2> QED
      BY <2>6, <2>7
  <1> QED
    BY <1>8, <1>9

\* A call ends and the buffer stays as it is: an unpoisoned pipe of a protected
\* call is empty.
LEMMA EndInv ==
    ASSUME IndInv, call.pc # "idle", call.op \notin {"close", "batch"}, call' = Idle,
           b' \in Buffer, b'.live = b.live, b'.failed = b.failed, b'.cached = b.cached,
           b'.dp <= b'.df, b'.df > 0 => b.df > 0,
           io' = io \/ io' = Cancelled(io), wire' = Left(wire), hist' \in History,
           hist.loose => hist'.loose,
           ~hist'.loose /\ ~b.failed /\ ~io'.cancelled => wire = <<>>,
           UNCHANGED <<backend, can, ep, sent, seen>>
    PROVE  IndInv'
  <1>1. /\ Types /\ Control /\ WireInv /\ OrderInv /\ EpInv /\ CallInv(call, b) /\ BufferInv(b, io, can)
        /\ wire \in Seq(Item) /\ Prefixed(wire) /\ Numbered(wire) /\ b.live /\ io \in Pipe /\ b \in Buffer
        /\ call.part = <<>> /\ Len(wire) \in Nat
    BY DEF IndInv, Types, Control, WireInv, CallInv
  <1> DEFINE a == wire'
             x == b'
             i == io'
  <1>2. i \in Pipe /\ i.open = io.open /\ (io.cancelled => i.cancelled)
        /\ (i.event \/ i.aborted => i.cancelled)
    <2>1. Cancelled(io) \in Pipe /\ Cancelled(io).cancelled /\ Cancelled(io).open = io.open
      BY <1>1, CancelledPipe DEF Types
    <2> QED
      BY <1>1, <2>1 DEF BufferInv
  <1>3. /\ a \in Seq(Item) /\ Len(a) = Len(wire) /\ Prefixed(a) /\ Numbered(a)
        /\ \A base, last : InOrder(wire, base, last) => InOrder(a, base, last)
    BY <1>1, LeftWire
  <1>4. /\ Idle \in Call /\ Idle.op = "none" /\ Idle.pc = "idle" /\ ~Idle.after /\ Idle.part = <<>>
    BY NothingLeft DEF Idle, Call, Ops, Errors
  <1>5. /\ x \in Buffer /\ x.live /\ x.failed = b.failed /\ x.cached = b.cached /\ x.dp <= x.df
        /\ (x.df > 0 => b.df > 0) /\ x.dp \in Nat
    BY <1>1, BufferFields, DirectAssumption
  <1>6. Types'
    BY <1>1, <1>2, <1>3, <1>4 DEF Types
  <1>7. ~hist'.loose /\ ~b.failed /\ ~i.cancelled => a = <<>>
    <2> SUFFICES ASSUME ~hist'.loose, ~b.failed, ~i.cancelled PROVE a = <<>>
      OBVIOUS
    <2>1. Len(a) = 0
      BY <1>3, NothingLeft
    <2> HIDE DEF a
    <2> QED
      BY <1>3, <2>1
  <1> HIDE DEF a, x, i
  <1>8. CallInv(Idle, x)
    BY <1>4 DEF CallInv, FrameCalls
  <1>9. BufferInv(x, i, can)
    BY <1>1, <1>2, <1>5 DEF BufferInv
  <1>10. Control'
    BY <1>4, <1>8, <1>9 DEF Control, x, i
  <1>11. WireInv'
    <2>1. ~hist'.loose => Owned(a, Idle, x, i)
      BY <1>4, <1>5, <1>7, NothingLeft DEF Owned
    <2>2. Len(a) <= MaxWire
      BY <1>1, <1>3 DEF WireInv
    <2>3. Prefixed(wire)' /\ Numbered(wire)'
      BY <1>3 DEF Prefixed, Numbered, a
    <2> QED
      BY <1>4, <1>5, <2>1, <2>2, <2>3 DEF WireInv, a, x, i
  <1>12. OrderInv'
    <2>1. ASSUME ~b.failed, ~hist'.loose PROVE Ordered(a, Idle, x, seen, sent)
      <3>1. Ordered(wire, call, b, seen, sent)
        BY <1>1, <2>1 DEF OrderInv
      <3> QED
        BY <1>1, <1>3, <1>4, <1>5, <3>1 DEF Ordered
    <2>2. seen' = seen /\ sent' = sent
      OBVIOUS
    <2> QED
      BY <1>5, <2>1, <2>2 DEF OrderInv, a, x
  <1>13. EpInv'
    <2>1. backend' = backend /\ ep' = ep /\ b'.live /\ (b'.live <=> b.live)
      BY <1>1
    <2> QED
      BY <1>1, <2>1 DEF EpInv
  <1> QED
    BY <1>6, <1>10, <1>11, <1>12, <1>13 DEF IndInv

\* The late answer of a call that nothing protects makes the pipe loose.
LEMMA LooseHistory ==
    ASSUME IndInv, hist' = [hist EXCEPT !.loose = @ \/ Loosens(call.op, wire)]
    PROVE  /\ hist' \in History /\ (hist'.loose <=> hist.loose \/ Loosens(call.op, wire))
  <1>1. hist \in History /\ Loosens(call.op, wire) \in BOOLEAN
    BY DEF IndInv, Types, Loosens
  <1> DEFINE l == Loosens(call.op, wire)
  <1> HIDE DEF l
  <1>2. hist' = [hist EXCEPT !.loose = hist.loose \/ l] /\ l \in BOOLEAN
    BY <1>1 DEF l
  <1>3. hist' \in History /\ (hist'.loose <=> hist.loose \/ l)
    BY <1>1, <1>2 DEF History
  <1> QED
    BY <1>3 DEF l

\* Nothing asked for, nothing left.
LEMMA NothingLoose ==
    ASSUME NEW w \in Seq(Item), NEW op, Only(w, "mine", op), Len(w) <= 1, ~Loosens(op, w), op \notin Guarded
    PROVE  w = <<>>
  <1>1. DOMAIN w = 1 .. Len(w) /\ Len(w) \in Nat
    OBVIOUS
  <1>2. \A k \in 1 .. Len(w) : FALSE
    BY <1>1 DEF Loosens, Only
  <1>3. Len(w) = 0
    BY <1>1, <1>2
  <1> QED
    BY <1>3

LEMMA CommandFailedInv ==
    ASSUME IndInv, CommandFailed
    PROVE  IndInv'
  <1>1. /\ Types /\ Control /\ WireInv /\ CallInv(call, b) /\ BufferInv(b, io, can) /\ call.pc = "failed"
        /\ b \in Buffer /\ wire \in Seq(Item) /\ b.live /\ call' = Idle /\ UNCHANGED <<backend, can>>
        /\ call.op \in {"status", "cancel", "drain", "feedback", "close"}
    BY DEF IndInv, Control, Types, CommandFailed, CallInv
  <1>2. CASE call.op = "close"
    <2>1. ClosePipe /\ ~can
      BY <1>1, <1>2 DEF CommandFailed, Control
    <2> QED
      BY <1>1, <2>1, ClosePipeInv
  <1>3. CASE call.op # "close"
    <2>1. /\ wire' = Left(wire) /\ hist' = [hist EXCEPT !.loose = @ \/ Loosens(call.op, wire)]
          /\ UNCHANGED <<b, ep, sent, seen>>
          /\ io' = IF call.op \in {"drain", "feedback"} /\ call.err # "err"
                   THEN Cancelled(io) ELSE io
      BY <1>3 DEF CommandFailed
    <2>2. hist' \in History /\ (hist'.loose <=> hist.loose \/ Loosens(call.op, wire))
      BY <2>1, LooseHistory
    <2>3. ASSUME ~hist'.loose, ~b.failed, ~io'.cancelled PROVE wire = <<>>
      <3>1. ~hist.loose /\ ~Loosens(call.op, wire)
        BY <2>2, <2>3
      <3>2. ~io.cancelled /\ (call.op \in {"drain", "feedback"} => call.err = "err")
        <4>1. Cancelled(io).cancelled
          BY <1>1, CancelledPipe DEF Types
        <4> QED
          BY <2>1, <2>3, <4>1
      <3>3. Broken(wire, call)
        BY <1>1, <2>3, <3>1, <3>2 DEF WireInv, Owned
      <3>4. Only(wire, "mine", call.op) /\ Len(wire) <= 1 /\ (call.err \in {"err", "busy"} => wire = <<>>)
        BY <1>1, <3>3 DEF Broken
      <3>5. CASE call.op \in {"drain", "feedback"}
        BY <3>2, <3>4, <3>5
      <3>6. CASE call.op \notin {"drain", "feedback"}
        <4>1. call.op \notin Guarded
          BY <1>1, <3>6 DEF Guarded
        <4> QED
          BY <1>1, <3>1, <3>4, <4>1, NothingLoose
      <3> QED
        BY <3>5, <3>6
    <2>4. io' = io \/ io' = Cancelled(io)
      BY <2>1
    <2>5. /\ b' \in Buffer /\ b'.live = b.live /\ b'.failed = b.failed /\ b'.cached = b.cached
          /\ b'.dp <= b'.df /\ (b'.df > 0 => b.df > 0)
      BY <1>1, <2>1 DEF BufferInv
    <2>6. call.pc # "idle" /\ call.op \notin {"close", "batch"}
      BY <1>1, <1>3
    <2> QED
      BY <1>1, <2>1, <2>2, <2>3, <2>4, <2>5, <2>6, EndInv
  <1> QED
    BY <1>2, <1>3

LEMMA RefillFailedInv ==
    ASSUME IndInv, RefillFailed
    PROVE  IndInv'
  <1>1. /\ Types /\ Control /\ WireInv /\ OrderInv /\ EpInv /\ CallInv(call, b) /\ BufferInv(b, io, can)
        /\ b \in Buffer /\ wire \in Seq(Item) /\ b.live /\ call \in Call /\ call.pc = "failed"
        /\ Prefixed(wire) /\ Numbered(wire) /\ ~hist.loose
        /\ call.op \in {"single", "batch", "direct"} /\ b.cached = <<>> /\ b.dp <= b.df
        /\ hist' = [hist EXCEPT !.loose = @ \/ Loosens(call.op, wire)]
        /\ wire' = (IF call'.pc = "idle" THEN Left(wire) ELSE wire)
        /\ UNCHANGED <<backend, can, ep, sent, seen>>
    <2>1. /\ Types /\ Control /\ WireInv /\ OrderInv /\ EpInv /\ CallInv(call, b) /\ BufferInv(b, io, can)
          /\ b \in Buffer /\ wire \in Seq(Item) /\ call \in Call
      BY DEF IndInv, Types, Control
    <2>2. /\ call.pc = "failed" /\ call.op \in {"single", "batch", "direct"} /\ call.op \in FrameCalls
          /\ hist' = [hist EXCEPT !.loose = @ \/ Loosens(call.op, wire)]
          /\ wire' = (IF call'.pc = "idle" THEN Left(wire) ELSE wire)
          /\ UNCHANGED <<backend, can, ep, sent, seen>>
      BY DEF RefillFailed, FrameCalls
    <2>3. Prefixed(wire) /\ Numbered(wire)
      BY <2>1 DEF WireInv
    <2>4. b.live /\ b.cached = <<>> /\ b.dp <= b.df
      BY <2>1, <2>2 DEF CallInv, BufferInv
    <2>5. ~hist.loose
      BY <2>1, <2>2 DEF Control
    <2> QED
      BY <2>1, <2>2, <2>3, <2>4, <2>5
  <1>2. hist' \in History /\ (hist'.loose <=> Loosens(call.op, wire))
    BY <1>1, LooseHistory
  <1>3. Idle.pc = "idle"
    BY DEF Idle
  <1>4. CASE call.op = "single"
    <2>1. call' = Idle /\ b' = b /\ io' = io /\ wire' = Left(wire)
      BY <1>1, <1>3, <1>4 DEF RefillFailed
    <2>2. ASSUME ~hist'.loose, ~b.failed, ~io'.cancelled PROVE wire = <<>>
      <3>1. Broken(wire, call)
        BY <1>1, <2>1, <2>2 DEF WireInv, Owned
      <3>2. Only(wire, "mine", call.op) /\ Len(wire) <= 1 /\ call.op \notin Guarded
        BY <1>4, <3>1 DEF Broken, Guarded
      <3> QED
        BY <1>1, <1>2, <2>2, <3>2, NothingLoose
    <2>3. /\ b' \in Buffer /\ b'.live = b.live /\ b'.failed = b.failed /\ b'.cached = b.cached
          /\ b'.dp <= b'.df /\ (b'.df > 0 => b.df > 0)
      BY <1>1, <2>1
    <2>4. call.pc # "idle" /\ call.op \notin {"close", "batch"}
      BY <1>1, <1>4
    <2> QED
      BY <1>1, <1>2, <2>1, <2>2, <2>3, <2>4, EndInv
  <1>5. CASE call.op = "batch"
    <2>1. FailBatch(b, io) /\ call' = Idle /\ wire' = Left(wire)
      BY <1>1, <1>3, <1>5 DEF RefillFailed
    <2>2. /\ wire' \in Seq(Item) /\ Prefixed(wire') /\ Numbered(wire') /\ Len(wire') <= Len(wire)
      BY <1>1, <2>1, LeftWire
    <2>3. call.op # "close"
      BY <1>5
    <2> QED
      BY <1>1, <1>2, <2>1, <2>2, <2>3, FailBatchInv
  <1>6. CASE call.op = "direct" /\ b.dp = b.df /\ call.err = "busy"
    <2>1. call' = Idle /\ b' = ResetDirect(b) /\ io' = io /\ wire' = Left(wire)
      BY <1>1, <1>3, <1>6 DEF RefillFailed
    <2>2. ASSUME ~hist'.loose, ~b.failed, ~io'.cancelled PROVE wire = <<>>
      BY <1>1, <1>6, <2>1, <2>2 DEF WireInv, Owned, Broken
    <2>3. /\ b' \in Buffer /\ b'.live = b.live /\ b'.failed = b.failed /\ b'.cached = b.cached
          /\ b'.dp = 0 /\ b'.df = 0
      <3>1. 0 \in 0 .. Direct
        BY DirectAssumption
      <3> QED
        BY <1>1, <2>1, <3>1 DEF ResetDirect, Buffer
    <2>4. call.pc # "idle" /\ call.op \notin {"close", "batch"} /\ b'.dp <= b'.df /\ (b'.df > 0 => b.df > 0)
      BY <1>1, <1>6, <2>3
    <2> QED
      BY <1>1, <1>2, <2>1, <2>2, <2>3, <2>4, EndInv
  <1>7. CASE call.op = "direct" /\ ~(b.dp = b.df /\ call.err = "busy")
    <2>1. call' = [call EXCEPT !.pc = "term"] /\ b' = b /\ io' = io
      BY <1>7 DEF RefillFailed
    <2> DEFINE c == call'
    <2>2. c \in Call /\ c.op = "direct" /\ c.pc = "term" /\ c.after = call.after /\ c.part = call.part
      BY <1>1, <1>7, <2>1 DEF Call
    <2>3. wire' = wire
      BY <1>1, <2>2
    <2>4. ~hist'.loose
      BY <1>2, <1>7 DEF Loosens, Guarded
    <2>5. Types'
      BY <1>1, <1>2, <2>1, <2>2, <2>3 DEF Types
    <2> HIDE DEF c
    <2>6. CallInv(c, b)
      BY <1>1, <1>7, <2>2 DEF CallInv
    <2>7. Owned(wire, c, b, io)
      BY <2>2 DEF Owned
    <2>8. Control'
      BY <1>1, <2>1, <2>2, <2>4, <2>6 DEF Control, c
    <2>9. WireInv'
      <3>1. Len(wire) <= MaxWire
        BY <1>1 DEF WireInv
      <3> QED
        BY <1>1, <2>1, <2>2, <2>3, <2>7, <3>1 DEF WireInv, Prefixed, Numbered, c
    <2>10. OrderInv' /\ EpInv'
      <3>1. ~b.failed => Ordered(wire, call, b, seen, sent)
        BY <1>1, <1>7 DEF OrderInv
      <3>2. Ordered(wire, call, b, seen, sent) => Ordered(wire, c, b, seen, sent)
        BY <2>2 DEF Ordered
      <3> QED
        BY <1>1, <2>1, <2>3, <3>1, <3>2 DEF OrderInv, EpInv, c
    <2> QED
      BY <2>5, <2>8, <2>9, <2>10 DEF IndInv
  <1> QED
    BY <1>1, <1>4, <1>5, <1>6, <1>7

\* The status of a segment that broke off is asked for; the buffer fails.
LEMMA CacheTerminalInv ==
    ASSUME IndInv, CacheTerminal
    PROVE  IndInv'
  <1>1. /\ Types /\ Control /\ WireInv /\ CallInv(call, b) /\ BufferInv(b, io, can) /\ b \in Buffer
        /\ wire \in Seq(Item) /\ Len(wire) \in Nat /\ Prefixed(wire) /\ Numbered(wire) /\ hist \in History
        /\ call.pc = "term"
    BY DEF IndInv, Types, Control, WireInv, CacheTerminal
  <1>2. b.live /\ b.dp <= b.df /\ call.op # "close"
    BY <1>1 DEF CallInv, BufferInv
  <1>3. call' = Idle /\ UNCHANGED <<backend, can, ep, sent, seen>>
    BY DEF CacheTerminal
  <1>4. PICK t \in {"status", "wrong", "error"} : TermStatus(t)
    BY DEF CacheTerminal
  <1> DEFINE x == [b EXCEPT !.term = t]
  <1>5. x \in Buffer /\ x.live /\ x.dp <= x.df /\ FailBatch(x, io)
    BY <1>1, <1>2, <1>4 DEF TermStatus, Buffer
  <1>6. hist' \in History
    <2>1. \/ hist' = hist
          \/ hist' = [hist EXCEPT !.crossed = @ \cup {"term"}]
      BY DEF CacheTerminal
    <2> QED
      BY <1>1, <2>1 DEF History
  <1>7. /\ wire' \in Seq(Item) /\ Prefixed(wire') /\ Numbered(wire') /\ Len(wire') <= Len(wire)
    <2>1. wire' = wire \/ (wire # <<>> /\ wire' = Tail(wire))
      BY DEF CacheTerminal
    <2>2. CASE wire' = wire
      BY <1>1, <2>2
    <2>3. CASE wire # <<>> /\ wire' = Tail(wire)
      <3>1. /\ Tail(wire) \in Seq(Item) /\ Len(Tail(wire)) = Len(wire) - 1
            /\ Prefixed(Tail(wire)) /\ Numbered(Tail(wire))
        BY <1>1, <2>3, TailItems, TailWire
      <3> QED
        BY <1>1, <2>3, <3>1
    <2> QED
      BY <2>1, <2>2, <2>3
  <1> HIDE DEF x
  <1> QED
    BY <1>2, <1>3, <1>5, <1>6, <1>7, FailBatchInv

-----------------------------------------------------------------------------
(* The theorems.                                                           *)

LEMMA InitInv == Init => IndInv
  <1> SUFFICES ASSUME Init PROVE IndInv
    OBVIOUS
  <1>1. /\ backend \in {"network", "usb"} /\ io = NoPipe /\ wire = <<>> /\ b = NoBuffer /\ call = Idle
        /\ can = FALSE /\ sent = 0 /\ seen = 0 /\ hist = NoHistory
        /\ ep = [used |-> [e \in Endpoints |-> FALSE], at |-> [d \in Devices |-> Nowhere],
                 opened |-> [d \in Devices |-> FALSE]]
    BY DEF Init
  <1>2. MaxFrames \in Nat /\ MaxWire \in Nat
    BY BoundsAssumption
  <1>3. NoBuffer \in Buffer /\ NoPipe \in Pipe /\ Idle \in Call
    BY NothingLeft, DirectAssumption DEF NoBuffer, NoPipe, Idle, Buffer, Pipe, Call, Ops, Errors
  <1>4. /\ Idle.op = "none" /\ Idle.pc = "idle" /\ Idle.part = <<>> /\ ~NoHistory.loose
        /\ NoBuffer.dp = 0 /\ NoBuffer.cached = <<>> /\ NoHistory \in History
    BY DEF Idle, NoBuffer, NoHistory, History
  <1>5. ep \in Couples /\ \A d \in Devices : ~ep.opened[d]
    BY <1>1 DEF Couples
  <1>6. \A e \in Endpoints : ~ep.used[e]
    BY <1>1
  <1>7. Types
    <2>0. 0 \in 0 .. MaxFrames
      BY <1>2
    <2>1. can \in BOOLEAN /\ sent \in 0 .. MaxFrames /\ seen \in 0 .. MaxFrames
      BY <1>1, <2>0
    <2>2. wire \in Seq(Item) /\ b \in Buffer /\ io \in Pipe /\ call \in Call /\ hist \in History
      BY <1>1, <1>3, <1>4, NothingLeft
    <2> QED
      BY <1>1, <1>5, <2>1, <2>2 DEF Types
  <1>8. Control
    <2>1. CallInv(Idle, NoBuffer)
      BY DEF CallInv, Idle, NoBuffer, FrameCalls
    <2>2. BufferInv(NoBuffer, NoPipe, FALSE)
      BY DEF BufferInv, NoBuffer, NoPipe
    <2> QED
      BY <1>1, <1>4, <2>1, <2>2 DEF Control
  <1>9. WireInv
    <2>1. Owned(<<>>, Idle, NoBuffer, NoPipe)
      BY <1>4, NothingLeft DEF Owned
    <2> QED
      BY <1>1, <1>2, <1>4, <2>1, NothingLeft DEF WireInv
  <1>10. OrderInv
    <2>1. Ordered(<<>>, Idle, NoBuffer, 0, 0)
      BY <1>4, NothingLeft DEF Ordered
    <2> QED
      BY <1>1, <2>1 DEF OrderInv
  <1>11. EpInv
    <2>1. CouplesOwned(ep)
      BY <1>5, <1>6 DEF CouplesOwned
    <2>2. ~b.live /\ "dev" \in Devices
      BY <1>1 DEF NoBuffer, Devices
    <2> QED
      BY <1>5, <2>1, <2>2 DEF EpInv
  <1> QED
    BY <1>7, <1>8, <1>9, <1>10, <1>11 DEF IndInv

LEMMA NextInv == IndInv /\ [Next]_vars => IndInv'
  <1> SUFFICES ASSUME IndInv, [Next]_vars PROVE IndInv'
    OBVIOUS
  <1>1. CASE create_buffer_with_metadata
    BY <1>1, CreateInv
  <1>2. CASE iio_buffer_set_metadata_batch_size
    BY <1>2, BatchSizeInv
  <1>3. CASE prequeue_async
    BY <1>3, PrequeueInv
  <1>4. CASE \/ RefillDirect \/ RefillSingle \/ RefillBatch \/ GetStatus \/ CancelSession
             \/ DrainOrFeedback
    BY <1>4, CallsInv
  <1>5. CASE RefillMismatch
    BY <1>5, MismatchInv
  <1>6. CASE RefillCached
    BY <1>6, RefillCachedInv
  <1>7. CASE iio_buffer_destroy
    BY <1>7, DestroyInv
  <1>8. CASE ReadTimesOut \/ usb_sync_transfer \/ ReadCancelled
    BY <1>8, WaitsInv
  <1>9. CASE ReadError
    BY <1>9, ReadErrorInv
  <1>10. CASE ReadFrame
    BY <1>10, ReadFrameInv
  <1>11. CASE ReadBatchFrame
    BY <1>11, ReadBatchFrameInv
  <1>12. CASE ReadResult
    BY <1>12, ReadResultInv
  <1>13. CASE RefillFailed
    BY <1>13, RefillFailedInv
  <1>14. CASE CommandFailed
    BY <1>14, CommandFailedInv
  <1>15. CASE CacheTerminal
    BY <1>15, CacheTerminalInv
  <1>16. CASE iio_buffer_cancel
    BY <1>16, CancelInv
  <1>17. CASE CancelTransport
    BY <1>17, TransportInv
  <1>18. CASE OtherDevice
    BY <1>18, OtherDeviceInv
  <1>19. CASE Daemon
    BY <1>19, DaemonInv
  <1>20. CASE UNCHANGED vars
    <2>1. UNCHANGED <<backend, io, wire, b, call, can, ep, sent, seen, hist>>
      BY <1>20 DEF vars
    <2>2. Types' /\ Control'
      BY <2>1 DEF IndInv, Types, Control
    <2>3. WireInv'
      BY <2>1 DEF IndInv, WireInv, Prefixed, Numbered
    <2>4. OrderInv' /\ EpInv'
      BY <2>1 DEF IndInv, OrderInv, EpInv
    <2> QED
      BY <2>2, <2>3, <2>4 DEF IndInv
  <1> QED
    BY <1>1, <1>2, <1>3, <1>4, <1>5, <1>6, <1>7, <1>8, <1>9, <1>10, <1>11, <1>12, <1>13, <1>14,
       <1>15, <1>16, <1>17, <1>18, <1>19, <1>20 DEF Next, Owner

\* The inductive invariant of the client holds in every reachable state.
THEOREM IndInvHolds == Spec => []IndInv
  <1> QED
    BY InitInv, NextInv, PTL DEF Spec

\* No call reads the answer to another command, except the status of a segment
\* that broke off, and no endpoint couple is in use by anyone but the open
\* device that has it: the data pipes of iiod-client.c, network.c and usb.c
\* under every order of calls, time-outs, cancellations and answers.
THEOREM PipesAreSound == Spec => []PipesSound
  <1>1. IndInv => PipesSound
    <2> SUFFICES ASSUME IndInv PROVE PipesSound
      OBVIOUS
    <2>1. /\ Types /\ Control /\ WireInv /\ EpInv /\ b \in Buffer /\ call \in Call /\ ep \in Couples
          /\ wire \in Seq(Item) /\ hist \in History /\ b.dp <= b.df /\ MaxWire \in Nat
      BY BoundsAssumption DEF IndInv, Types, Control, BufferInv
    <2>2. Len(wire) <= MaxWire + 1 /\ \A i \in DOMAIN wire : wire[i] \in Item
      <3>1. Len(wire) \in Nat /\ \A i \in DOMAIN wire : wire[i] \in Item
        BY <2>1
      <3> QED
        BY <2>1, <3>1 DEF WireInv
    <2>3. call.pc \in {"idle", "submit", "read", "failed", "term"}
      BY <2>1, CallFields
    <2>4. TypeOK
      BY <2>1, <2>2, <2>3 DEF TypeOK, Types, Pipe, Buffer, Frames, Couples
    <2>5. AnswersMatched
      BY <2>1 DEF AnswersMatched, History
    <2>6. EndpointsOwned
      BY <2>1 DEF EndpointsOwned, EpInv, CouplesOwned
    <2> QED
      BY <2>4, <2>5, <2>6 DEF PipesSound
  <1> QED
    BY <1>1, IndInvHolds, PTL

\* The program gets the frames of its capture one after the other, from single
\* refills, from batches in memory and from segments, and none from a refill
\* begun after iio_buffer_cancel.
THEOREM FramesAreSound == Spec => []FramesSound
  <1>1. IndInv => FramesSound
    BY DEF IndInv, Types, History, FramesSound, FramesInOrder, NothingAfterCancel
  <1> QED
    BY <1>1, IndInvHolds, PTL

\* A pipe that was cancelled stays so until its device is closed: no read that
\* ends and no second open revives it.
THEOREM PoisonStays == Spec => PoisonSticks
  <1>1. ASSUME IndInv, [Next]_vars, io.cancelled PROVE io'.cancelled \/ ~io'.open
    <2>1. io \in Pipe /\ backend \in {"network", "usb"} /\ BufferInv(b, io, can)
      BY <1>1 DEF IndInv, Types, Control
    <2>2. b.live
      BY <1>1, <2>1 DEF BufferInv, NoPipe
    <2>3. Cancelled(io).cancelled /\ ~NoPipe.open
      BY <2>1, CancelledPipe DEF NoPipe
    <2>4. Unblocked => io'.cancelled
      BY <1>1, <2>1 DEF Unblocked, Pipe
    <2>5. \/ io' = io \/ io' = Cancelled(io) \/ Unblocked \/ io' = NoPipe
          \/ io' = [io EXCEPT !.transfer = TRUE, !.aborted = FALSE]
      <3>1. CASE create_buffer_with_metadata
        BY <2>2, <3>1 DEF create_buffer_with_metadata, OpenFresh
      <3>2. CASE prequeue_async \/ RefillMismatch \/ RefillCached \/ iio_buffer_set_metadata_batch_size
        BY <3>2 DEF prequeue_async, RefillMismatch, RefillCached, iio_buffer_set_metadata_batch_size,
                    FailBatch
      <3>3. CASE \/ RefillDirect \/ RefillSingle \/ RefillBatch \/ GetStatus \/ CancelSession
                 \/ DrainOrFeedback
        BY <3>3 DEF RefillDirect, RefillSingle, RefillBatch, GetStatus, CancelSession, DrainOrFeedback
      <3>4. CASE iio_buffer_destroy
        BY <3>4 DEF iio_buffer_destroy, ClosePipe
      <3>5. CASE ReadTimesOut \/ usb_sync_transfer \/ ReadCancelled \/ ReadError \/ ReadFrame
        BY <3>5 DEF ReadTimesOut, usb_sync_transfer, ReadCancelled, ReadError, ReadFrame
      <3>6. CASE ReadBatchFrame \/ ReadResult
        BY <3>6 DEF ReadBatchFrame, ReadResult, ClosePipe
      <3>7. CASE RefillFailed
        BY <3>7 DEF RefillFailed, FailBatch
      <3>8. CASE CommandFailed
        BY <3>8 DEF CommandFailed, ClosePipe
      <3>9. CASE CacheTerminal
        BY <3>9 DEF CacheTerminal, TermStatus, FailBatch
      <3>10. CASE iio_buffer_cancel \/ CancelTransport \/ OtherDevice \/ Daemon
        BY <3>10 DEF iio_buffer_cancel, CancelTransport, OtherDevice, Daemon
      <3>11. CASE UNCHANGED vars
        BY <3>11 DEF vars
      <3> QED
        BY <1>1, <3>1, <3>2, <3>3, <3>4, <3>5, <3>6, <3>7, <3>8, <3>9, <3>10, <3>11 DEF Next, Owner
    <2>6. io' = [io EXCEPT !.transfer = TRUE, !.aborted = FALSE] => io'.cancelled
      BY <1>1, <2>1 DEF Pipe
    <2> QED
      BY <1>1, <2>3, <2>4, <2>5, <2>6
  <1>2. IndInv /\ [Next]_vars => [io.cancelled => io'.cancelled \/ ~io'.open]_vars
    BY <1>1
  <1> QED
    BY <1>2, IndInvHolds, PTL DEF Spec, PoisonSticks
=============================================================================
