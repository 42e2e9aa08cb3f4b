----------------------------- MODULE UsbDaemon -----------------------------
(***************************************************************************)
(* The USB daemon of iiod (iiod/usbd.c) in the process ThreadPool models.  *)
(* usbd_main is a thread of the daemon's pool; every pipe has a pool of    *)
(* its own with at most one worker, which runs the interpreter             *)
(* (iiod/ops.c) over asynchronous transfers of the pipe's two endpoints    *)
(* and starts R/W threads in the daemon's pool.  The host opens, closes    *)
(* and resets pipes by control requests.                                   *)
(*                                                                         *)
(* A transfer belongs to the kernel from io_submit until its event is      *)
(* taken.  Condition variables of the pipes' pools are guards here         *)
(* (ThreadPool has the detail).                                            *)
(***************************************************************************)
EXTENDS ThreadPool

CONSTANTS NbPipes       \* nb_pipes

ASSUME PipesAssumption == NbPipes \in Nat \ {0}

VARIABLES
    usb,        \* usbd_main
    pipe        \* for each pipe its pool, worker and endpoints

usbVars == <<usb, pipe>>
allVars == <<vars, usbVars>>

Pipes == 1 .. NbPipes

\* thread_pool_new; no worker, both endpoints closed.
\* stop_fd: the pool's event; count: its thread_count; worker: where the worker
\* is; aio: its transfer; ep: descriptors open on the endpoints;
\* owns: it has a device open.
IdlePipe == [stop_fd |-> FALSE, count |-> 0, worker |-> "none", aio |-> "none", ep |-> 0,
             owns |-> FALSE]

\* pc: where usbd_main is; left: the pipes still to be stopped; then: what for.
UsbInit ==
    /\ Init
    /\ usb = [pc |-> "none", left |-> {}, then |-> "end", pipe |-> 1]
    /\ pipe = [p \in Pipes |-> IdlePipe]

-----------------------------------------------------------------------------
(* Threads of the daemon's pool *)

UsbThread(t) == role[t] = "usbd_main"

\* start_iiod starts at most one usbd_main.
StartThread(p, t, r) ==
    /\ ThreadStarted(p, t, r)
    /\ r = "usbd_main" => \A u \in Threads : st[u] # "absent" => ~UsbThread(u)
    /\ UNCHANGED usbVars

\* start_usb_daemon made the pools of the pipes before it started the thread.
UsbCreated(t) ==
    /\ ThreadCreated(t)
    /\ IF UsbThread(t)
       THEN usb' = [usb EXCEPT !.pc = "poll"] /\ pipe' = [p \in Pipes |-> IdlePipe]
       ELSE UNCHANGED usbVars

\* usbd_main returns after it destroyed the pools; the others as before.
UsbReturns(t) ==
    /\ ThreadReturns(t)
    /\ IF UsbThread(t)
       THEN usb.pc = "ended" /\ usb' = [usb EXCEPT !.pc = "none"] /\ UNCHANGED pipe
       ELSE UNCHANGED usbVars

-----------------------------------------------------------------------------
(* usbd_main *)

Stopping(ps, then, p) == usb' = [pc |-> "stop", left |-> ps, then |-> then, pipe |-> p]

\* The loop is left: the stop event, or a request that failed.  All pipes are
\* stopped and their pools destroyed.
UsbEnd == Stopping(Pipes, "end", usb.pipe)

UsbStopEvent ==
    /\ usb.pc = "poll" /\ stop_fd
    /\ UsbEnd /\ UNCHANGED <<vars, pipe>>

\* handle_event: RESET_PIPES, CLOSE_PIPE and the first half of OPEN_PIPE.
UsbReset ==
    /\ usb.pc = "poll" /\ ~stop_fd
    /\ Stopping(Pipes, "poll", usb.pipe) /\ UNCHANGED <<vars, pipe>>

UsbClose(p) ==
    /\ usb.pc = "poll" /\ ~stop_fd
    /\ Stopping({p}, "poll", p) /\ UNCHANGED <<vars, pipe>>

\* Mutant: the old worker is not waited for.
UsbOpenAtOnce(p) ==
    /\ usb.pc = "poll" /\ ~stop_fd
    /\ Stopping({}, "open", p) /\ UNCHANGED <<vars, pipe>>

UsbOpen(p) ==
    /\ usb.pc = "poll" /\ ~stop_fd
    /\ Stopping({p}, "open", p) /\ UNCHANGED <<vars, pipe>>

\* A pipe_id that is too large, or no memory.
UsbBadRequest ==
    /\ usb.pc = "poll" /\ ~stop_fd
    /\ UsbEnd /\ UNCHANGED <<vars, pipe>>

Lowest(ps) == CHOOSE p \in ps : \A q \in ps : p <= q

\* thread_pool_stop_and_wait(pdata->pool[i]): the event is written,
PipeStop ==
    /\ usb.pc = "stop" /\ usb.left # {}
    /\ pipe' = [pipe EXCEPT ![Lowest(usb.left)].stop_fd = TRUE]
    /\ usb' = [usb EXCEPT !.pc = "wait"]
    /\ UNCHANGED vars

\* the worker has gone, and the event is purged.
PipeStopped ==
    /\ usb.pc = "wait" /\ pipe[Lowest(usb.left)].count = 0
    /\ pipe' = [pipe EXCEPT ![Lowest(usb.left)].stop_fd = FALSE]
    /\ usb' = [usb EXCEPT !.pc = "stop", !.left = @ \ {Lowest(@)}]
    /\ UNCHANGED vars

\* The request is answered, or goes on; or the pools are destroyed.
UsbAnswered ==
    /\ usb.pc = "stop" /\ usb.left = {}
    /\ usb' = [usb EXCEPT !.pc = IF usb.then = "end" THEN "ended" ELSE usb.then]
    /\ UNCHANGED <<vars, pipe>>

\* usb_open_pipe: both endpoints are opened and the worker is started.  What
\* was opened is closed when a step fails, and usbd_main gives up.
UsbOpenPipe ==
    /\ usb.pc = "open"
    /\ \/ /\ pipe' = [pipe EXCEPT ![usb.pipe].ep = @ + 2, ![usb.pipe].count = @ + 1,
                                  ![usb.pipe].worker = "read"]
          /\ usb' = [usb EXCEPT !.pc = "poll"]
       \/ UsbEnd /\ UNCHANGED pipe
    /\ UNCHANGED vars

UsbMain ==
    \/ UsbStopEvent \/ UsbReset \/ UsbBadRequest \/ PipeStop \/ PipeStopped \/ UsbAnswered
    \/ UsbOpenPipe
    \/ \E p \in Pipes : UsbClose(p) \/ UsbOpen(p)

-----------------------------------------------------------------------------
(* A worker: usbd_client_thread and the interpreter *)

Becomes(p, worker, aio) ==
    /\ pipe' = [pipe EXCEPT ![p].worker = worker, ![p].aio = aio]
    /\ UNCHANGED <<vars, usb>>

\* async_io: io_submit, for a command line, its data or an answer.
AioSubmit(p) ==
    /\ pipe[p].worker \in {"read", "write"} /\ pipe[p].aio = "none"
    /\ \/ Becomes(p, pipe[p].worker, "flight")
       \/ Becomes(p, "end", "none")

\* The transfer ends: the host did its part, the endpoint was shut down or the
\* cancellation took effect.
AioComplete(p) ==
    /\ pipe[p].aio = "flight"
    /\ Becomes(p, pipe[p].worker, "done")

\* The event is there: the result is data (or an error, which ends the
\* session).
AioEvent(p) ==
    /\ pipe[p].aio = "done" /\ pipe[p].worker \in {"read", "write"}
    /\ \/ Becomes(p, IF pipe[p].worker = "read" THEN "command" ELSE "read", "none")
       \/ Becomes(p, "end", "none")

\* Mutant: an answer is written without polling the stop event.
AioStopReads(p) ==
    /\ pipe[p].worker = "read" /\ pipe[p].aio = "flight" /\ pipe[p].stop_fd
    /\ Becomes(p, "cancelled", "flight")

\* The stop event and no result: io_cancel, and from then on only the result
\* is waited for.
AioStop(p) ==
    /\ pipe[p].worker \in {"read", "write"} /\ pipe[p].aio = "flight" /\ pipe[p].stop_fd
    /\ Becomes(p, "cancelled", "flight")

\* The result of a cancelled transfer: end of file.
AioCancelled(p) ==
    /\ pipe[p].worker = "cancelled" /\ pipe[p].aio = "done"
    /\ Becomes(p, "end", "none")

\* yyparse: a command is carried out and answered.  OPEN starts an R/W thread
\* in the daemon's pool, EXIT ends the session.
Command(p) ==
    /\ pipe[p].worker = "command"
    /\ \/ /\ \E owns \in BOOLEAN :
                pipe' = [pipe EXCEPT ![p].worker = "write", ![p].owns = owns /\ pipe[p].owns]
          /\ UNCHANGED <<vars, usb>>
       \/ Becomes(p, "end", "none")

CommandOpen(p, t) ==
    /\ pipe[p].worker = "command" /\ st[t] = "absent"
    /\ st' = [st EXCEPT ![t] = "running"] /\ role' = [role EXCEPT ![t] = "rw_thd"]
    /\ thread_count' = thread_count + 1
    /\ pipe' = [pipe EXCEPT ![p].worker = "write", ![p].owns = TRUE]
    /\ UNCHANGED <<parent, stop, stop_fd, main, ok, blocked, restart_usr1, asked, usb>>

\* The interpreter closes the devices, usbd_client_thread the endpoints, and the
\* thread is gone.
WorkerCloses(p) ==
    /\ pipe[p].worker = "end"
    /\ pipe' = [pipe EXCEPT ![p].worker = "leaving", ![p].ep = @ - 2, ![p].owns = FALSE]
    /\ UNCHANGED <<vars, usb>>

WorkerLeaves(p) ==
    /\ pipe[p].worker = "leaving"
    /\ pipe' = [pipe EXCEPT ![p].worker = "none", ![p].count = @ - 1]
    /\ UNCHANGED <<vars, usb>>

Worker(p) ==
    \/ AioSubmit(p) \/ AioEvent(p) \/ AioCancelled(p) \/ Command(p) \/ WorkerCloses(p)
    \/ WorkerLeaves(p) \/ \E t \in Threads : CommandOpen(p, t)

-----------------------------------------------------------------------------
UsbNext ==
    \/ (Main \/ Done) /\ UNCHANGED usbVars
    \/ \E usr1 \in BOOLEAN : Signal(usr1) /\ UNCHANGED usbVars
    \/ \E t \in Threads :
          \/ UsbCreated(t) \/ UsbReturns(t)
          \/ (ThreadCreateFailed(t) \/ ThreadLeaves(t)) /\ UNCHANGED usbVars
    \/ \E p \in Threads \cup {"main"}, t \in Threads, r \in Role : StartThread(p, t, r)
    \/ UsbMain
    \/ \E p \in Pipes : Worker(p) \/ AioComplete(p) \/ AioStop(p)

UsbSpec == UsbInit /\ [][UsbNext]_allVars

\* The main thread runs.  A thread that is started gets to run and to leave.
\* Every thread function polls stop_fd, or waits for one that does, between
\* any two threads it may start, hence the strong fairness of its return.
\* usbd_main and the workers run; a worker polls the stop event with every
\* transfer, so that one that goes on working notices it.  A transfer ends once
\* it is cancelled.
UsbFairness ==
    /\ WF_allVars(MainRestartPool /\ UNCHANGED usbVars)
    /\ WF_allVars((MainCreate \/ MainServe) /\ UNCHANGED usbVars)
    /\ WF_allVars((MainStop \/ MainWait \/ MainPurge \/ MainDestroy) /\ UNCHANGED usbVars)
    /\ SF_allVars(MainLeavesServer(TRUE) /\ UNCHANGED usbVars)
    /\ \A t \in Threads :
         /\ WF_allVars(UsbCreated(t)) /\ WF_allVars(ThreadLeaves(t) /\ UNCHANGED usbVars)
         /\ SF_allVars(stop_fd /\ UsbReturns(t))
    /\ SF_allVars(UsbStopEvent)
    /\ WF_allVars(PipeStop \/ PipeStopped \/ UsbAnswered \/ UsbOpenPipe)
    /\ \A p \in Pipes :
         /\ WF_allVars(Worker(p)) /\ SF_allVars(AioStop(p))
         /\ WF_allVars(pipe[p].worker = "cancelled" /\ AioComplete(p))

UsbLiveSpec == UsbSpec /\ UsbFairness

-----------------------------------------------------------------------------
(* Properties *)

\* When the daemon's stop_and_wait has returned, none of the pipes' workers,
\* which it does not count, is left either, with its device, its endpoints or
\* a transfer; nor is one when usbd_main has destroyed the pools.
PipesSettled ==
    main \in Settled \/ usb.pc \in {"none", "ended"} =>
        \A p \in Pipes : pipe[p] = IdlePipe

\* An endpoint has one owner: a pipe is opened again only after its last worker
\* closed it, a worker that is there has both endpoints open, and no transfer
\* is in flight that nobody waits for.
EndpointsOwned ==
    \A p \in Pipes :
        /\ pipe[p].count \in {0, 1} /\ pipe[p].ep \in {0, 2}
        /\ pipe[p].ep = 2 <=> pipe[p].worker \notin {"none", "leaving"}
        /\ pipe[p].aio # "none" => pipe[p].worker \in {"read", "write", "cancelled"}

\* A pipe has one worker at most and outlives neither its reset nor the daemon.
PipesOwned == PipesSettled /\ EndpointsOwned

\* A request to close or reset pipes is answered, and so is the end of the
\* daemon, whatever the workers are transferring.
StopsAnswered == usb.pc = "wait" ~> usb.pc # "wait"

\* Both stops end, that of a pipe and, through the workers it does not count,
\* that of the daemon.
StopsEnd == StopReturns /\ StopsAnswered
=============================================================================
