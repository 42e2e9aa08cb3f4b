-------------------------- MODULE UsbDaemon_proofs --------------------------
(***************************************************************************)
(* Proofs about UsbDaemon, for any number of threads and of pipes: the     *)
(* pool is empty when stop_and_wait has returned, although the pipes'      *)
(* workers, which are not in it, start threads in it; and an endpoint has  *)
(* one owner at most.                                                      *)
(***************************************************************************)
EXTENDS UsbDaemon, FiniteSetTheorems, TLAPS

-----------------------------------------------------------------------------
(* The thread pool: the count is the number of threads that exist or are   *)
(* about to, and none is left when stop_and_wait has returned.             *)

\* The threads that are counted.
Present == {t \in Threads : st[t] # "absent"}

\* thread_count is exact.
CountExact == thread_count = Cardinality(Present)

IndInv == TypeOK /\ CountExact /\ NoStragglers

-----------------------------------------------------------------------------
\* The threads present are finitely many, and an exact count of 0 is none.
LEMMA PresentFinite ==
    /\ IsFiniteSet(Present)
    /\ Cardinality(Present) \in Nat
    /\ Cardinality(Present) = 0 <=> Present = {}
  <1>1. IsFiniteSet(Present)
    BY ThreadsAssumption, FS_Subset DEF Present
  <1> QED
    BY <1>1, FS_CardinalityType, FS_EmptySet

\* Counting a thread before it is created keeps the count exact.
LEMMA CountUp ==
    ASSUME CountExact, NEW t \in Threads, st[t] = "absent", NEW s, s # "absent",
           st \in [Threads -> {"absent", "counted", "running", "leaving"}],
           st' = [st EXCEPT ![t] = s], thread_count' = thread_count + 1
    PROVE  CountExact'
  <1>1. Present' = Present \cup {t} /\ t \notin Present
    BY DEF Present
  <1>2. Cardinality(Present \cup {t}) = Cardinality(Present) + 1
    BY <1>1, PresentFinite, FS_AddElement
  <1> QED
    BY <1>1, <1>2 DEF CountExact

\* A thread that leaves lowers the count, which is not 0.
LEMMA CountDown ==
    ASSUME CountExact, NEW t \in Threads, st[t] # "absent",
           st \in [Threads -> {"absent", "counted", "running", "leaving"}],
           st' = [st EXCEPT ![t] = "absent"], thread_count' = thread_count - 1
    PROVE  CountExact' /\ thread_count' \in Nat
  <1>1. Present' = Present \ {t} /\ t \in Present
    BY DEF Present
  <1>2. Cardinality(Present \ {t}) = Cardinality(Present) - 1
    BY <1>1, PresentFinite, FS_RemoveElement
  <1>3. Cardinality(Present) # 0
    BY <1>1, PresentFinite
  <1> QED
    BY <1>1, <1>2, <1>3, PresentFinite DEF CountExact

\* A thread that is created or returns is counted as before.
LEMMA CountSame ==
    ASSUME CountExact, NEW t \in Threads, st[t] # "absent", NEW s, s # "absent",
           st \in [Threads -> {"absent", "counted", "running", "leaving"}],
           st' = [st EXCEPT ![t] = s], thread_count' = thread_count
    PROVE  CountExact'
  <1>1. Present' = Present
    BY DEF Present
  <1> QED
    BY <1>1 DEF CountExact

-----------------------------------------------------------------------------
\* The pool starts empty.
LEMMA InitInd == Init => IndInv
  <1> SUFFICES ASSUME Init PROVE IndInv
    OBVIOUS
  <1>1. TypeOK
    BY DEF Init, TypeOK, Role, MainPc
  <1>2. Present = {}
    BY DEF Init, Present
  <1>3. CountExact
    BY <1>2, PresentFinite DEF Init, CountExact
  <1>4. NoStragglers
    BY DEF Init, NoStragglers
  <1> QED
    BY <1>1, <1>3, <1>4 DEF IndInv

\* Every step of every thread keeps the count exact.
LEMMA StepInd == IndInv /\ [Next]_vars => IndInv'
  <1> SUFFICES ASSUME IndInv, [Next]_vars PROVE IndInv'
    OBVIOUS
  <1> USE DEF IndInv
  <1>1. CASE UNCHANGED vars
    BY <1>1 DEF vars, TypeOK, CountExact, Present, NoStragglers
  <1>2. ASSUME NEW p \in Threads \cup {"main"}, NEW t \in Threads, NEW r \in Role,
               ThreadStarted(p, t, r)
        PROVE  IndInv'
    <2>1. TypeOK'
      BY <1>2 DEF ThreadStarted, TypeOK
    <2>2. CountExact'
      BY <1>2, CountUp DEF ThreadStarted, TypeOK
    <2>3. NoStragglers'
      BY <1>2 DEF ThreadStarted, CanAdd, NoStragglers, Settled
    <2> QED
      BY <2>1, <2>2, <2>3
  <1>3. ASSUME NEW t \in Threads, st[t] # "absent", ThreadStopped(t)
        PROVE  IndInv'
    <2>1. CountExact' /\ thread_count' \in Nat
      BY <1>3, CountDown DEF ThreadStopped, TypeOK
    <2>2. TypeOK'
      BY <1>3, <2>1 DEF ThreadStopped, TypeOK
    <2>3. NoStragglers'
      BY <1>3 DEF ThreadStopped, NoStragglers, TypeOK
    <2> QED
      BY <2>1, <2>2, <2>3
  <1>4. ASSUME NEW t \in Threads, Thread(t)
        PROVE  IndInv'
    <2>1. CASE ThreadCreated(t)
      <3>1. TypeOK'
        BY <2>1 DEF ThreadCreated, TypeOK
      <3>2. CountExact'
        BY <2>1, CountSame DEF ThreadCreated, TypeOK
      <3>3. NoStragglers'
        BY <2>1 DEF ThreadCreated, NoStragglers
      <3> QED
        BY <3>1, <3>2, <3>3
    <2>2. CASE ThreadReturns(t)
      <3>1. TypeOK'
        BY <2>2 DEF ThreadReturns, TypeOK
      <3>2. CountExact'
        BY <2>2, CountSame DEF ThreadReturns, TypeOK
      <3>3. NoStragglers'
        BY <2>2 DEF ThreadReturns, NoStragglers
      <3> QED
        BY <3>1, <3>2, <3>3
    <2>3. CASE ThreadCreateFailed(t) \/ ThreadLeaves(t)
      BY <1>3, <2>3 DEF ThreadCreateFailed, ThreadLeaves
    <2> QED
      BY <1>4, <2>1, <2>2, <2>3 DEF Thread
  <1>5. ASSUME UNCHANGED poolVars, TypeOK',
               main' \in Settled => main \in Settled \/ thread_count = 0
        PROVE  IndInv'
    <2>1. CountExact'
      BY <1>5 DEF poolVars, CountExact, Present
    <2>2. thread_count = 0 => Present = {}
      BY PresentFinite DEF CountExact
    <2>3. NoStragglers'
      BY <1>5, <2>2 DEF poolVars, NoStragglers, Present
    <2> QED
      BY <1>5, <2>1, <2>3
  <1>6. ASSUME NEW usr1 \in BOOLEAN, Signal(usr1)
        PROVE  IndInv'
    <2>1. TypeOK'
      BY <1>6 DEF Signal, poolVars, TypeOK
    <2> QED
      BY <1>5, <1>6, <2>1 DEF Signal
  <1>7. CASE Main
    <2>1. TypeOK'
      BY <1>7 DEF Main, MainRestartPool, MainRestart, MainCreate, MainServe, StartStep,
                  MainLeavesServer, MainStop, MainWait, MainPurge, MainDestroy, poolVars, TypeOK, MainPc
    <2>2. UNCHANGED poolVars
      BY <1>7 DEF Main, MainRestartPool, MainCreate, MainServe, StartStep, MainLeavesServer,
                  MainStop, MainWait, MainPurge, MainDestroy
    <2>3. main' \in Settled => main \in Settled \/ thread_count = 0
      BY <1>7 DEF Main, MainRestartPool, MainRestart, MainCreate, MainServe, StartStep,
                  MainLeavesServer, MainStop, MainWait, MainPurge, MainDestroy, Settled
    <2> QED
      BY <1>5, <2>1, <2>2, <2>3
  <1>8. CASE Done
    BY <1>1, <1>8 DEF Done
  <1> QED
    BY <1>1, <1>2, <1>4, <1>6, <1>7, <1>8 DEF Next

\* The inductive invariant holds in every reachable state of the daemon.
THEOREM IndInvHolds == Spec => []IndInv
  BY InitInd, StepInd, PTL DEF Spec

\* When stop_and_wait has returned, no thread of the pool exists or is about to
\* be created, whatever the threads started while it waited.
THEOREM PoolIsEmpty == Spec => []NoStragglers
  <1>1. IndInv => NoStragglers
    BY DEF IndInv
  <1> QED
    BY <1>1, IndInvHolds, PTL

-----------------------------------------------------------------------------
(* The pipes of the USB daemon.                                            *)

\* Busy: the worker holds its endpoints.
Busy == {"read", "write", "command", "cancelled", "end"}

PipeType ==
    [stop_fd : BOOLEAN, count : {0, 1}, worker : Busy \cup {"none", "leaving"},
     aio : {"none", "flight", "done"}, ep : {0, 2}, owns : BOOLEAN]

UsbType ==
    [pc : {"none", "poll", "stop", "wait", "open", "ended"}, left : SUBSET Pipes,
     then : {"end", "poll", "open"}, pipe : Pipes]

UsbTypeOK == usb \in UsbType /\ pipe \in [Pipes -> PipeType]

\* What a pipe holds follows from where its worker is.
Held(q) ==
    /\ q.count = 0 <=> q.worker = "none"
    /\ q.ep = 2 <=> q.worker \in Busy
    /\ q.owns => q.worker \in Busy
    /\ q.aio # "none" => q.worker \in {"read", "write", "cancelled"}

\* The pipes usbd_main has stopped so far for the request it works on.
Stopped(p) ==
    \/ usb.pc \in {"none", "ended"}
    \/ usb.pc = "open" /\ p = usb.pipe
    \/ /\ usb.pc \in {"stop", "wait"} /\ p \notin usb.left
       /\ usb.then = "end" \/ (usb.then = "open" /\ p = usb.pipe)

PipesInv ==
    \A p \in Pipes :
        /\ Held(pipe[p])
        /\ Stopped(p) => pipe[p].worker = "none"
        /\ pipe[p].stop_fd => usb.pc = "wait" /\ p = Lowest(usb.left)

\* usbd_main is a thread of the pool: while it is there, the count is not 0.
UsbCounted == usb.pc # "none" => \E t \in Threads : st[t] = "running" /\ UsbThread(t)

UsbIndInv == IndInv /\ UsbTypeOK /\ PipesInv /\ UsbCounted

-----------------------------------------------------------------------------
\* No pipe is open at first.
LEMMA UsbInitInd == UsbInit => UsbIndInv
  <1> SUFFICES ASSUME UsbInit PROVE UsbIndInv
    OBVIOUS
  <1>1. IndInv
    BY InitInd DEF UsbInit
  <1>2. UsbTypeOK
    BY PipesAssumption DEF UsbInit, UsbTypeOK, UsbType, PipeType, Pipes, IdlePipe
  <1>3. PipesInv
    BY DEF UsbInit, PipesInv, Held, Stopped, IdlePipe, Busy
  <1>4. UsbCounted
    BY DEF UsbInit, UsbCounted
  <1> QED
    BY <1>1, <1>2, <1>3, <1>4 DEF UsbIndInv

\* A step of the pool that leaves the USB daemon alone keeps its thread.
LEMMA OtherThreads ==
    ASSUME UsbIndInv, UNCHANGED usbVars, UsbCounted', IndInv'
    PROVE  UsbIndInv'
  BY DEF UsbIndInv, usbVars, UsbTypeOK, PipesInv, Stopped

\* A step of the USB daemon that does not touch the pool.
LEMMA OwnSteps ==
    ASSUME UsbIndInv, UNCHANGED vars, usb.pc # "none", UsbTypeOK', PipesInv'
    PROVE  UsbIndInv'
  <1>1. IndInv'
    BY StepInd DEF UsbIndInv
  <1>2. UsbCounted'
    BY DEF UsbIndInv, UsbCounted, UsbThread, vars
  <1> QED
    BY <1>1, <1>2 DEF UsbIndInv

\* A step of a worker keeps what its pipe holds in order.
LEMMA WorkerSteps ==
    ASSUME UsbIndInv, UNCHANGED <<vars, usb>>, NEW p \in Pipes, NEW q \in PipeType,
           pipe[p].worker # "none", pipe' = [pipe EXCEPT ![p] = q], Held(q),
           q.stop_fd = pipe[p].stop_fd
    PROVE  UsbIndInv'
  <1>1. UsbTypeOK'
    BY DEF UsbIndInv, UsbTypeOK
  <1>2. PipesInv'
    BY DEF UsbIndInv, UsbTypeOK, PipesInv, Stopped
  <1>3. usb.pc # "none"
    BY DEF UsbIndInv, PipesInv, Stopped
  <1> QED
    BY <1>1, <1>2, <1>3, OwnSteps

\* The interpreter's OPEN: usbd_main is there, so the main thread still waits,
\* and counts the new thread.
LEMMA OpenStep ==
    ASSUME UsbIndInv, NEW p \in Pipes, NEW t \in Threads, CommandOpen(p, t)
    PROVE  UsbIndInv'
  <1> USE DEF UsbIndInv
  <1>1. usb.pc # "none"
    BY DEF CommandOpen, PipesInv, Stopped
  <1>2. PICK u \in Threads : st[u] = "running" /\ UsbThread(u)
    BY <1>1 DEF UsbCounted
  <1>3. main \notin Settled
    BY <1>2 DEF IndInv, NoStragglers
  <1>4. IndInv'
    <2>1. TypeOK'
      BY DEF CommandOpen, IndInv, TypeOK, Role
    <2>2. CountExact'
      BY CountUp DEF CommandOpen, IndInv, TypeOK
    <2>3. NoStragglers'
      BY <1>3 DEF CommandOpen, NoStragglers
    <2> QED
      BY <2>1, <2>2, <2>3 DEF IndInv
  <1>5. UsbTypeOK'
    <2> DEFINE n == [pipe[p] EXCEPT !.worker = "write", !.owns = TRUE]
    <2>0. pipe[p] \in PipeType
      BY DEF UsbTypeOK
    <2>1. n \in PipeType
      BY <2>0 DEF PipeType, Busy
    <2>2. pipe' = [pipe EXCEPT ![p] = n]
      BY DEF CommandOpen
    <2> HIDE DEF n
    <2> QED
      BY <2>1, <2>2 DEF CommandOpen, UsbTypeOK
  <1>6. PipesInv'
    BY DEF CommandOpen, UsbTypeOK, PipeType, PipesInv, Stopped, Held, Busy
  <1>7. UsbCounted'
    <2>1. u # t
      BY <1>2 DEF CommandOpen
    <2>2. st'[u] = "running" /\ UsbThread(u)'
      BY <1>2, <2>1 DEF CommandOpen, UsbThread, IndInv, TypeOK
    <2> QED
      BY <2>2 DEF UsbCounted
  <1> QED
    BY <1>4, <1>5, <1>6, <1>7

\* A worker's step, one per place it can be at.
LEMMA WorkerInd ==
    ASSUME UsbIndInv, NEW p \in Pipes, Worker(p) \/ AioComplete(p) \/ AioStop(p)
    PROVE  UsbIndInv'
  <1> DEFINE q == pipe[p]
  <1>0. q \in PipeType /\ Held(q)
    BY DEF UsbIndInv, UsbTypeOK, PipesInv
  <1>1. ASSUME NEW w \in Busy, NEW a \in {"none", "flight", "done"}, Becomes(p, w, a),
               q.worker \in Busy, a # "none" => w \in {"read", "write", "cancelled"}
        PROVE  UsbIndInv'
    <2> DEFINE n == [q EXCEPT !.worker = w, !.aio = a]
    <2>1. n \in PipeType /\ n.stop_fd = q.stop_fd
      BY <1>0 DEF PipeType
    <2>2. Held(n)
      BY <1>0, <1>1 DEF PipeType, Held, Busy
    <2>3. pipe' = [pipe EXCEPT ![p] = n] /\ UNCHANGED <<vars, usb>> /\ q.worker # "none"
      BY <1>1 DEF Becomes, Busy
    <2> HIDE DEF n
    <2> QED
      BY <2>1, <2>2, <2>3, WorkerSteps
  <1>2. CASE AioSubmit(p) \/ AioEvent(p) \/ AioCancelled(p) \/ AioStop(p) \/ AioComplete(p)
    BY <1>0, <1>1, <1>2 DEF AioSubmit, AioEvent, AioCancelled, AioStop, AioComplete, Busy,
                            PipeType, Held
  <1>3. CASE Command(p)
    <2>1. CASE Becomes(p, "end", "none")
      BY <1>1, <1>3, <2>1 DEF Command, Busy
    <2>2. ASSUME NEW owns \in BOOLEAN, UNCHANGED <<vars, usb>>,
                 pipe' = [pipe EXCEPT ![p].worker = "write", ![p].owns = owns /\ pipe[p].owns]
          PROVE  UsbIndInv'
      <3> DEFINE n == [q EXCEPT !.worker = "write", !.owns = owns /\ q.owns]
      <3>1. n \in PipeType /\ n.stop_fd = q.stop_fd
        BY <1>0 DEF PipeType, Busy
      <3>2. Held(n)
        BY <1>0, <1>3 DEF PipeType, Held, Busy, Command
      <3>3. pipe' = [pipe EXCEPT ![p] = n] /\ q.worker # "none"
        BY <1>3, <2>2 DEF Command
      <3> HIDE DEF n
      <3> QED
        BY <2>2, <3>1, <3>2, <3>3, WorkerSteps
    <2> QED
      BY <1>3, <2>1, <2>2 DEF Command
  <1>4. CASE WorkerCloses(p)
    <2> DEFINE n == [q EXCEPT !.worker = "leaving", !.ep = q.ep - 2, !.owns = FALSE]
    <2>1. q.ep = 2 /\ q.count = 1 /\ q.worker = "end" /\ q.aio = "none"
      BY <1>0, <1>4 DEF PipeType, Held, Busy, WorkerCloses
    <2>2. n \in PipeType /\ n.stop_fd = q.stop_fd
      <3>1. q.ep - 2 = 0
        BY <2>1
      <3>2. n = [q EXCEPT !.worker = "leaving", !.ep = 0, !.owns = FALSE]
        BY <3>1
      <3> QED
        BY <1>0, <3>2 DEF PipeType
    <2>3. Held(n)
      BY <1>0, <2>1 DEF PipeType, Held, Busy
    <2>4. pipe' = [pipe EXCEPT ![p] = n] /\ q.worker # "none" /\ UNCHANGED <<vars, usb>>
      BY <1>4, <2>1 DEF WorkerCloses
    <2> HIDE DEF n
    <2> QED
      BY <2>2, <2>3, <2>4, WorkerSteps
  <1>5. CASE WorkerLeaves(p)
    <2> DEFINE n == [q EXCEPT !.worker = "none", !.count = q.count - 1]
    <2>1. q.ep = 0 /\ q.count = 1 /\ q.worker = "leaving" /\ q.aio = "none" /\ ~q.owns
      BY <1>0, <1>5 DEF PipeType, Held, Busy, WorkerLeaves
    <2>2. n \in PipeType /\ n.stop_fd = q.stop_fd
      <3>1. q.count - 1 = 0
        BY <2>1
      <3>2. n = [q EXCEPT !.worker = "none", !.count = 0]
        BY <3>1
      <3> QED
        BY <1>0, <3>2 DEF PipeType
    <2>3. Held(n)
      BY <1>0, <2>1 DEF PipeType, Held, Busy
    <2>4. pipe' = [pipe EXCEPT ![p] = n] /\ q.worker # "none" /\ UNCHANGED <<vars, usb>>
      BY <1>5, <2>1 DEF WorkerLeaves
    <2> HIDE DEF n
    <2> QED
      BY <2>2, <2>3, <2>4, WorkerSteps
  <1>6. CASE \E t \in Threads : CommandOpen(p, t)
    BY <1>6, OpenStep
  <1> QED
    BY <1>2, <1>3, <1>4, <1>5, <1>6 DEF Worker

\* Writing or purging the stop event of a pipe keeps the pipes well typed.
LEMMA StopEvent ==
    ASSUME pipe \in [Pipes -> PipeType], NEW l, NEW event \in BOOLEAN
    PROVE  [pipe EXCEPT ![l].stop_fd = event] \in [Pipes -> PipeType]
  <1>1. CASE l \in Pipes
    <2> DEFINE n == [pipe[l] EXCEPT !.stop_fd = event]
    <2>1. pipe[l] \in PipeType
      BY <1>1
    <2>2. n \in PipeType
      BY <2>1 DEF PipeType
    <2>3. [pipe EXCEPT ![l].stop_fd = event] = [pipe EXCEPT ![l] = n]
      OBVIOUS
    <2> HIDE DEF n
    <2> QED
      BY <1>1, <2>2, <2>3
  <1>2. CASE l \notin Pipes
    BY <1>2
  <1> QED
    BY <1>1, <1>2

\* usbd_main stops pipes one by one, and opens one only after it was stopped.
LEMMA UsbMainInd == UsbIndInv /\ UsbMain => UsbIndInv'
  <1> SUFFICES ASSUME UsbIndInv, UsbMain PROVE UsbIndInv'
    OBVIOUS
  <1>1. UNCHANGED vars /\ usb.pc # "none"
    BY DEF UsbMain, UsbStopEvent, UsbReset, UsbBadRequest, PipeStop, PipeStopped,
           UsbAnswered, UsbOpenPipe, UsbClose, UsbOpen
  <1>2. ASSUME NEW ps \in SUBSET Pipes, NEW then \in {"end", "poll", "open"},
               NEW p \in Pipes, Stopping(ps, then, p), UNCHANGED pipe, usb.pc # "wait",
               then = "end" => ps = Pipes, then = "open" => p \in ps
        PROVE  UsbTypeOK' /\ PipesInv'
    <2>1. UsbTypeOK'
      BY <1>2 DEF Stopping, UsbIndInv, UsbTypeOK, UsbType
    <2>2. PipesInv'
      BY <1>2 DEF Stopping, UsbIndInv, UsbTypeOK, UsbType, PipesInv, Stopped
    <2> QED
      BY <2>1, <2>2
  <1>3. usb.pipe \in Pipes
    BY DEF UsbIndInv, UsbTypeOK, UsbType
  <1>4. CASE UsbStopEvent \/ UsbReset \/ UsbBadRequest \/ \E p \in Pipes : UsbClose(p) \/ UsbOpen(p)
    BY <1>1, <1>2, <1>3, <1>4, OwnSteps DEF UsbStopEvent, UsbReset, UsbBadRequest, UsbClose, UsbOpen, UsbEnd
  <1>5. CASE PipeStop
    <2>1. UsbTypeOK'
      <3>1. usb' \in UsbType
        BY <1>5 DEF PipeStop, UsbIndInv, UsbTypeOK, UsbType
      <3>2. pipe' \in [Pipes -> PipeType]
        BY <1>5, StopEvent DEF PipeStop, UsbIndInv, UsbTypeOK
      <3> QED
        BY <3>1, <3>2 DEF UsbTypeOK
    <2>2. PipesInv'
      BY <1>5 DEF PipeStop, UsbIndInv, UsbTypeOK, UsbType, PipeType, PipesInv, Stopped, Held
    <2> QED
      BY <1>1, <2>1, <2>2, OwnSteps
  <1>6. CASE PipeStopped
    <2>1. UsbTypeOK'
      <3>1. usb' \in UsbType
        BY <1>6 DEF PipeStopped, UsbIndInv, UsbTypeOK, UsbType
      <3>2. pipe' \in [Pipes -> PipeType]
        BY <1>6, StopEvent DEF PipeStopped, UsbIndInv, UsbTypeOK
      <3> QED
        BY <3>1, <3>2 DEF UsbTypeOK
    <2>2. PipesInv'
      BY <1>6 DEF PipeStopped, UsbIndInv, UsbTypeOK, UsbType, PipeType, PipesInv, Stopped, Held
    <2> QED
      BY <1>1, <2>1, <2>2, OwnSteps
  <1>7. CASE UsbAnswered
    <2>1. UsbTypeOK'
      BY <1>7 DEF UsbAnswered, UsbIndInv, UsbTypeOK, UsbType
    <2>2. PipesInv'
      BY <1>7 DEF UsbAnswered, UsbIndInv, UsbTypeOK, UsbType, PipesInv, Stopped
    <2> QED
      BY <1>1, <2>1, <2>2, OwnSteps
  <1>8. CASE UsbOpenPipe
    <2>1. CASE UsbEnd /\ UNCHANGED pipe
      BY <1>1, <1>2, <1>3, <1>8, <2>1, OwnSteps DEF UsbOpenPipe, UsbEnd
    <2>2. CASE ~(UsbEnd /\ UNCHANGED pipe)
      <3>1. pipe[usb.pipe].worker = "none"
        BY <1>3, <1>8 DEF UsbOpenPipe, UsbIndInv, PipesInv, Stopped
      <3> DEFINE q == pipe[usb.pipe]
                 n == [q EXCEPT !.ep = q.ep + 2, !.count = q.count + 1, !.worker = "read"]
      <3>2. q \in PipeType /\ q.ep = 0 /\ q.count = 0 /\ ~q.owns /\ q.aio = "none"
            /\ ~q.stop_fd /\ usb.pc = "open"
        BY <1>3, <1>8, <3>1 DEF UsbOpenPipe, UsbIndInv, UsbTypeOK, PipeType, PipesInv, Held, Busy
      <3>3. n \in PipeType
        <4>1. q.ep + 2 = 2 /\ q.count + 1 = 1
          BY <3>2
        <4>2. n = [q EXCEPT !.ep = 2, !.count = 1, !.worker = "read"]
          BY <4>1
        <4> QED
          BY <3>2, <4>2 DEF PipeType, Busy
      <3>4. Held(n) /\ ~n.stop_fd
        BY <3>2 DEF PipeType, Held, Busy
      <3>5. pipe' = [pipe EXCEPT ![usb.pipe] = n] /\ usb' = [usb EXCEPT !.pc = "poll"]
        BY <1>8, <2>2 DEF UsbOpenPipe
      <3> HIDE DEF n
      <3>6. UsbTypeOK'
        BY <1>3, <3>3, <3>5 DEF UsbIndInv, UsbTypeOK, UsbType
      <3>7. PipesInv'
        BY <1>3, <3>2, <3>4, <3>5 DEF UsbIndInv, UsbTypeOK, UsbType, PipesInv, Stopped
      <3> QED
        BY <1>1, <3>6, <3>7, OwnSteps
    <2> QED
      BY <2>1, <2>2
  <1> QED
    BY <1>4, <1>5, <1>6, <1>7, <1>8 DEF UsbMain

\* Every step of the daemon keeps the pool counted and the pipes owned.
LEMMA UsbStepInd == UsbIndInv /\ [UsbNext]_allVars => UsbIndInv'
  <1> SUFFICES ASSUME UsbIndInv, [UsbNext]_allVars PROVE UsbIndInv'
    OBVIOUS
  <1>1. CASE UNCHANGED allVars
    <2>1. UsbCounted' /\ IndInv'
      BY <1>1, StepInd DEF allVars, usbVars, UsbIndInv, UsbCounted, UsbThread, vars
    <2> QED
      BY <1>1, <2>1, OtherThreads DEF allVars
  <1>2. ASSUME UNCHANGED usbVars, IndInv', UNCHANGED <<st, role>>
        PROVE  UsbIndInv'
    BY <1>2, OtherThreads DEF UsbIndInv, UsbCounted, UsbThread, usbVars
  <1>3. CASE (Main \/ Done) /\ UNCHANGED usbVars
    <2>1. IndInv'
      BY <1>3, StepInd DEF UsbIndInv, Next
    <2>2. UNCHANGED <<st, role>>
      BY <1>3 DEF Main, Done, MainRestartPool, MainCreate, MainServe, StartStep,
                  MainLeavesServer, MainStop, MainWait, MainPurge, MainDestroy, poolVars, vars
    <2> QED
      BY <1>2, <1>3, <2>1, <2>2
  <1>4. ASSUME NEW usr1 \in BOOLEAN, Signal(usr1), UNCHANGED usbVars
        PROVE  UsbIndInv'
    <2>1. IndInv'
      BY <1>4, StepInd DEF UsbIndInv, Next
    <2> QED
      BY <1>2, <1>4, <2>1 DEF Signal, poolVars
  <1>5. ASSUME NEW t \in Threads, ThreadCreateFailed(t) \/ ThreadLeaves(t), UNCHANGED usbVars
        PROVE  UsbIndInv'
    <2>1. IndInv'
      BY <1>5, StepInd DEF UsbIndInv, Next, Thread
    <2>2. UsbCounted'
      BY <1>5 DEF UsbIndInv, IndInv, TypeOK, UsbCounted, UsbThread, usbVars, ThreadCreateFailed,
                  ThreadLeaves, ThreadStopped
    <2> QED
      BY <1>5, <2>1, <2>2, OtherThreads
  <1>6. ASSUME NEW p \in Threads \cup {"main"}, NEW t \in Threads, NEW r \in Role,
               StartThread(p, t, r)
        PROVE  UsbIndInv'
    <2>1. IndInv'
      BY <1>6, StepInd DEF UsbIndInv, Next, StartThread
    <2>2. UsbCounted'
      BY <1>6 DEF UsbIndInv, IndInv, TypeOK, UsbCounted, UsbThread, usbVars, StartThread,
                  ThreadStarted
    <2> QED
      BY <1>6, <2>1, <2>2, OtherThreads DEF StartThread
  <1>7. ASSUME NEW t \in Threads, UsbCreated(t)
        PROVE  UsbIndInv'
    <2>1. IndInv'
      BY <1>7, StepInd DEF UsbIndInv, Next, Thread, UsbCreated
    <2>2. UsbCounted'
      BY <1>7 DEF UsbIndInv, IndInv, TypeOK, UsbCounted, UsbThread, usbVars, UsbCreated,
                  ThreadCreated
    <2>3. CASE UsbThread(t)
      <3>0. IdlePipe \in PipeType
        BY DEF PipeType, IdlePipe
      <3>1. UsbTypeOK'
        BY <1>7, <2>3, <3>0 DEF UsbCreated, UsbIndInv, UsbTypeOK, UsbType
      <3>2. PipesInv'
        BY <1>7, <2>3 DEF UsbCreated, UsbIndInv, UsbTypeOK, UsbType, PipesInv, Held, Stopped,
                          IdlePipe, Busy
      <3> QED
        BY <2>1, <2>2, <3>1, <3>2 DEF UsbIndInv
    <2>4. CASE ~UsbThread(t)
      BY <1>7, <2>1, <2>2, <2>4, OtherThreads DEF UsbCreated
    <2> QED
      BY <2>3, <2>4
  <1>8. ASSUME NEW t \in Threads, UsbReturns(t)
        PROVE  UsbIndInv'
    <2>1. IndInv'
      BY <1>8, StepInd DEF UsbIndInv, Next, Thread, UsbReturns
    <2>2. CASE UsbThread(t)
      <3>1. UsbTypeOK' /\ UsbCounted'
        BY <1>8, <2>2 DEF UsbReturns, UsbIndInv, UsbTypeOK, UsbType, UsbCounted
      <3>2. PipesInv'
        BY <1>8, <2>2 DEF UsbReturns, UsbIndInv, UsbTypeOK, UsbType, PipesInv, Stopped
      <3> QED
        BY <2>1, <3>1, <3>2 DEF UsbIndInv
    <2>3. CASE ~UsbThread(t)
      <3>1. UsbCounted'
        BY <1>8, <2>3 DEF UsbReturns, ThreadReturns, UsbIndInv, IndInv, TypeOK, UsbCounted,
                          UsbThread, usbVars
      <3> QED
        BY <1>8, <2>1, <2>3, <3>1, OtherThreads DEF UsbReturns
    <2> QED
      BY <2>2, <2>3
  <1> QED
    BY <1>1, <1>3, <1>4, <1>5, <1>6, <1>7, <1>8, UsbMainInd, WorkerInd DEF UsbNext

\* The inductive invariant holds in every reachable state of the USB daemon.
THEOREM UsbIndInvHolds == UsbSpec => []UsbIndInv
  BY UsbInitInd, UsbStepInd, PTL DEF UsbSpec

\* When stop_and_wait has returned, no thread of the pool exists or is about to
\* be created, although a worker of a pipe may start one while it waits.
THEOREM UsbPoolIsEmpty == UsbSpec => []NoStragglers
  <1>1. UsbIndInv => NoStragglers
    BY DEF UsbIndInv, IndInv
  <1> QED
    BY <1>1, UsbIndInvHolds, PTL

\* A pipe has one worker at most, which holds both endpoints while it works, and
\* nothing of it is left when the daemon or usbd_main has stopped.
THEOREM PipesAreOwned == UsbSpec => []PipesOwned
  <1>1. UsbIndInv => PipesOwned
    <2> SUFFICES ASSUME UsbIndInv PROVE PipesOwned
      OBVIOUS
    <2> USE DEF UsbIndInv
    <2>1. EndpointsOwned
      BY DEF EndpointsOwned, UsbTypeOK, PipeType, PipesInv, Held, Busy
    <2>2. main \in Settled => usb.pc = "none"
      BY DEF IndInv, NoStragglers, UsbCounted
    <2>3. ASSUME usb.pc \in {"none", "ended"}, NEW p \in Pipes
          PROVE  pipe[p] = IdlePipe
      BY <2>3 DEF PipesInv, Stopped, Held, UsbTypeOK, PipeType, IdlePipe, Busy
    <2>4. PipesSettled
      BY <2>2, <2>3 DEF PipesSettled
    <2> QED
      BY <2>1, <2>4 DEF PipesOwned
  <1> QED
    BY <1>1, UsbIndInvHolds, PTL
=============================================================================
