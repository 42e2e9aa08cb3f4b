----------------------------- MODULE FrameFifo -----------------------------
(***************************************************************************)
(* What the direct capture mode of iiod promises, whatever memory its      *)
(* frames pass through: a queue of captured frames, sent oldest first.     *)
(* Under the drop policy the backlog behind the frame in transport may be  *)
(* discarded; after a failure nothing more is sent.                        *)
(***************************************************************************)
EXTENDS Integers, Sequences

CONSTANT Frame      \* the frames the device can deliver, in capture order

VARIABLES
    queue,      \* captured and not yet sent
    last,       \* the last frame sent to the client, None before
    active,     \* the head of the queue is being written to the socket
    failed,     \* the capture has failed or was cancelled
    dropping    \* the client accepts that a backlog is dropped

vars == <<queue, last, active, failed, dropping>>

None == -1

Init ==
    /\ queue = << >> /\ last = None /\ active = FALSE
    /\ failed = FALSE /\ dropping = FALSE

Newer(f) == /\ \A i \in 1 .. Len(queue) : queue[i] < f
            /\ last < f

\* A READBUF with the number of frames to send and the policy starts a segment.
Request ==
    /\ queue = << >> /\ ~active
    /\ dropping' \in BOOLEAN
    /\ UNCHANGED <<queue, last, active, failed>>

\* A frame is captured behind the first k frames; the others are dropped.
Capture(f, k) ==
    /\ k = Len(queue) \/ (dropping /\ (active => k >= 1))
    /\ Newer(f)
    /\ queue' = Append(SubSeq(queue, 1, k), f)
    /\ UNCHANGED <<last, active, failed, dropping>>

\* Frames behind the first k are dropped.
Flush(k) ==
    /\ dropping /\ (active => k >= 1)
    /\ queue' = SubSeq(queue, 1, k)
    /\ UNCHANGED <<last, active, failed, dropping>>

Take ==
    /\ ~active /\ ~failed /\ queue # << >>
    /\ active' = TRUE
    /\ UNCHANGED <<queue, last, failed, dropping>>

Deliver ==
    /\ active
    /\ last' = Head(queue)
    /\ queue' = Tail(queue) /\ active' = FALSE
    /\ UNCHANGED <<failed, dropping>>

\* The frame in transport could not be written; a burst is then given up.
Lose ==
    /\ active
    /\ queue' \in {Tail(queue), << >>} /\ active' = FALSE /\ failed' = TRUE
    /\ UNCHANGED <<last, dropping>>

Fail == failed' = TRUE /\ UNCHANGED <<queue, last, active, dropping>>

\* The capture is given up with frames still queued.
Close ==
    /\ ~active
    /\ queue' = << >> /\ failed' = TRUE /\ dropping' \in BOOLEAN
    /\ UNCHANGED <<last, active>>

Next ==
    \/ Request \/ Take \/ Deliver \/ Lose \/ Fail \/ Close
    \/ \E k \in 0 .. Len(queue) : Flush(k) \/ \E f \in Frame : Capture(f, k)

Spec == Init /\ [][Next]_vars
=============================================================================
