----------------------------- MODULE ThreadPool -----------------------------
(***************************************************************************)
(* The thread pool of iiod (iiod/thread-pool.c) under the daemon's main    *)
(* loop (iiod/iiod.c): clients are accepted, their threads start R/W       *)
(* workers and producers, signals stop or restart the daemon.              *)
(*                                                                         *)
(* Threads of the pool are detached: thread_count, raised before           *)
(* pthread_create and lowered when the thread function has returned, is    *)
(* all stop_and_wait knows of them.  Signals are blocked in the threads of *)
(* the pool, so a handler runs on the main thread, between two of its      *)
(* steps.                                                                  *)
(***************************************************************************)
EXTENDS Naturals, FiniteSets

CONSTANTS Threads       \* identities of the threads of the pool

ASSUME ThreadsAssumption == IsFiniteSet(Threads) /\ "main" \notin Threads

VARIABLES
    st,             \* what a thread of the pool is doing
    role,           \* which function it runs
    parent,         \* who starts it
    thread_count,   \* pool->thread_count
    stop,           \* pool->stop
    stop_fd,        \* an event is pending in pool->stop_fd
    main,           \* main thread: where it is
    ok,             \* main thread: the return value of start_iiod is 0
    blocked,        \* main thread: it waits on thread_count_cond
    restart_usr1,   \* SIGUSR1 was received
    asked           \* history: a signal came since the events were last purged

poolVars == <<st, role, parent, thread_count>>
vars == <<st, role, parent, thread_count, stop, stop_fd, main, ok, blocked, restart_usr1,
          asked>>

Role == {"client_thd", "usbd_main", "rw_thd", "producer_thd"}

\* Who starts what: start_iiod and main_server, open_dev_helper and rw_buffer in
\* a client's thread, rw_thd for a ring.
MayStart(p) ==
    IF p = "main" THEN {"client_thd", "usbd_main"}
    ELSE CASE role[p] = "client_thd" -> {"rw_thd", "producer_thd"}
           [] role[p] = "rw_thd" -> {"producer_thd"}
           [] role[p] \in {"producer_thd", "usbd_main"} -> {}

MainPc == {"restart", "clear", "forget", "advertise", "serving", "stopping", "waiting", "purge",
           "destroy", "exited"}

Init ==
    /\ st = [t \in Threads |-> "absent"]
    /\ role = [t \in Threads |-> "client_thd"]
    /\ parent = [t \in Threads |-> "main"]
    /\ thread_count = 0
    /\ stop = FALSE /\ stop_fd = FALSE
    /\ main = "restart" /\ ok = TRUE /\ blocked = FALSE
    /\ restart_usr1 = FALSE /\ asked = FALSE

-----------------------------------------------------------------------------
(* thread_pool_add_thread, in two steps: thread_pool_thread_started, then  *)
(* pthread_create.  The caller is busy in between.                         *)

Adding(p) == \E t \in Threads : st[t] = "counted" /\ parent[t] = p
CanAdd(p) ==
    /\ ~Adding(p)
    /\ IF p = "main" THEN main = "serving" ELSE st[p] = "running"

\* Mutant: the thread is only counted once it runs.
ThreadStartedLate(p, t, r) ==
    /\ CanAdd(p) /\ st[t] = "absent" /\ r \in MayStart(p)
    /\ st' = [st EXCEPT ![t] = "counted"]
    /\ role' = [role EXCEPT ![t] = r]
    /\ parent' = [parent EXCEPT ![t] = p]
    /\ UNCHANGED <<thread_count, stop, stop_fd, main, ok, blocked, restart_usr1, asked>>

ThreadStarted(p, t, r) ==
    /\ CanAdd(p) /\ st[t] = "absent" /\ r \in MayStart(p)
    /\ st' = [st EXCEPT ![t] = "counted"]
    /\ role' = [role EXCEPT ![t] = r]
    /\ parent' = [parent EXCEPT ![t] = p]
    /\ thread_count' = thread_count + 1
    /\ UNCHANGED <<stop, stop_fd, main, ok, blocked, restart_usr1, asked>>

\* thread_pool_thread_stopped
ThreadStopped(t) ==
    /\ st' = [st EXCEPT ![t] = "absent"]
    /\ thread_count' = thread_count - 1
    /\ blocked' = FALSE
    /\ UNCHANGED <<role, parent, stop, stop_fd, main, ok, restart_usr1, asked>>

ThreadCreated(t) ==
    /\ st[t] = "counted"
    /\ st' = [st EXCEPT ![t] = "running"]
    /\ UNCHANGED <<role, parent, thread_count, stop, stop_fd, main, ok, blocked,
                   restart_usr1, asked>>

ThreadCreateFailed(t) == st[t] = "counted" /\ ThreadStopped(t)

\* thread_body: the thread function returns, which every one of them does
\* some time after stop_fd is signalled, and the thread is gone.
ThreadReturns(t) ==
    /\ st[t] = "running" /\ ~Adding(t)
    /\ st' = [st EXCEPT ![t] = "leaving"]
    /\ UNCHANGED <<role, parent, thread_count, stop, stop_fd, main, ok, blocked,
                   restart_usr1, asked>>

ThreadLeaves(t) == st[t] = "leaving" /\ ThreadStopped(t)

-----------------------------------------------------------------------------
(* The main thread. *)

\* sig_handler, sig_handler_usr1: thread_pool_stop.
Signal(usr1) ==
    /\ main # "exited"
    /\ stop' = TRUE /\ stop_fd' = TRUE /\ asked' = TRUE
    /\ restart_usr1' = (restart_usr1 \/ usr1)
    /\ UNCHANGED <<poolVars, main, ok, blocked>>

\* Mutant: the events are purged after stop is cleared.
MainRestartSwapped ==
    \/ /\ main = "restart"
       /\ stop' = FALSE /\ asked' = FALSE
       /\ main' = IF stop THEN "clear" ELSE "forget"
       /\ UNCHANGED stop_fd
    \/ /\ main = "clear"
       /\ stop_fd' = FALSE
       /\ main' = "forget"
       /\ UNCHANGED <<stop, asked>>

\* thread_pool_restart: purge the events, then clear stop.
MainRestart ==
    \/ /\ main = "restart"
       /\ stop_fd' = IF stop THEN FALSE ELSE stop_fd
       /\ asked' = FALSE
       /\ main' = IF stop THEN "clear" ELSE "forget"
       /\ UNCHANGED stop
    \/ /\ main = "clear"
       /\ stop' = FALSE
       /\ main' = "forget"
       /\ UNCHANGED <<stop_fd, asked>>

MainRestartPool == MainRestart /\ UNCHANGED <<poolVars, ok, blocked, restart_usr1>>

\* A step of start_iiod that may fail, before any thread is started: it
\* returns EXIT_FAILURE and the daemon ends.
StartStep(from, to) ==
    /\ main = from
    /\ \/ main' = to /\ UNCHANGED ok
       \/ main' = "exited" /\ ok' = FALSE
    /\ UNCHANGED <<poolVars, stop, stop_fd, blocked, asked>>

\* restart_usr1 = false; start_iiod creates the context and its attributes,
MainCreate == StartStep("forget", "advertise") /\ restart_usr1' = FALSE

\* advertises what the build and the hardware can do, and serves.
MainServe == StartStep("advertise", "serving") /\ UNCHANGED restart_usr1

\* main_server sees the stop event, or gives up on an error.
MainLeavesServer(success) ==
    /\ main = "serving" /\ ~Adding("main")
    /\ success => stop_fd
    /\ ok' = success
    /\ main' = "stopping"
    /\ UNCHANGED <<poolVars, stop, stop_fd, blocked, restart_usr1, asked>>

\* thread_pool_stop_and_wait: stop,
MainStop ==
    /\ main = "stopping"
    /\ stop' = TRUE /\ stop_fd' = TRUE
    /\ main' = "waiting"
    /\ UNCHANGED <<poolVars, ok, blocked, restart_usr1, asked>>

\* wait for the count to reach 0,
MainWait ==
    /\ main = "waiting" /\ ~blocked
    /\ IF thread_count = 0 THEN main' = "purge" /\ UNCHANGED blocked
                           ELSE blocked' = TRUE /\ UNCHANGED main
    /\ UNCHANGED <<poolVars, stop, stop_fd, ok, restart_usr1, asked>>

\* and drain stop_fd.
MainPurge ==
    /\ main = "purge"
    /\ stop_fd' = FALSE
    /\ main' = "destroy"
    /\ UNCHANGED <<poolVars, stop, ok, blocked, restart_usr1, asked>>

\* iio_context_destroy; the daemon restarts or ends.
MainDestroy ==
    /\ main = "destroy"
    /\ main' = IF ok /\ restart_usr1 THEN "restart" ELSE "exited"
    /\ UNCHANGED <<poolVars, stop, stop_fd, ok, blocked, restart_usr1, asked>>

Main ==
    \/ MainRestartPool \/ MainCreate \/ MainServe
    \/ \E success \in BOOLEAN : MainLeavesServer(success)
    \/ MainStop \/ MainWait \/ MainPurge \/ MainDestroy

Thread(t) == ThreadCreated(t) \/ ThreadCreateFailed(t) \/ ThreadReturns(t) \/ ThreadLeaves(t)

Done == main = "exited" /\ UNCHANGED vars

Next ==
    \/ Main \/ Done
    \/ \E usr1 \in BOOLEAN : Signal(usr1)
    \/ \E t \in Threads : Thread(t)
    \/ \E p \in Threads \cup {"main"}, t \in Threads, r \in Role : ThreadStarted(p, t, r)

Spec == Init /\ [][Next]_vars

-----------------------------------------------------------------------------
\* The variables have their types.
TypeOK ==
    /\ st \in [Threads -> {"absent", "counted", "running", "leaving"}]
    /\ role \in [Threads -> Role]
    /\ parent \in [Threads -> Threads \cup {"main"}]
    /\ thread_count \in Nat
    /\ stop \in BOOLEAN /\ stop_fd \in BOOLEAN /\ ok \in BOOLEAN
    /\ blocked \in BOOLEAN /\ restart_usr1 \in BOOLEAN /\ asked \in BOOLEAN
    /\ main \in MainPc

\* Where the main thread is once stop_and_wait has returned, or before it
\* starts a thread.
Settled == {"purge", "destroy", "exited", "restart", "clear", "forget", "advertise"}

\* Once stop_and_wait has returned no thread of the pool exists or is about to:
\* not one that a dying thread had just started, so nobody uses the context
\* that start_iiod destroys next, or the pool that main destroys.
NoStragglers == main \in Settled => \A t \in Threads : st[t] = "absent"

\* stop_and_wait returns, however many threads are started while it waits: the
\* count reaches 0 and the wakeup is not lost.
StopReturns == main = "waiting" ~> main # "waiting"

\* A signal that comes while the daemon serves, or after the events of the last
\* stop were purged, ends the accept loop: thread_pool_restart loses none.
SignalHeeded == (asked /\ main = "serving") ~> main # "serving"
=============================================================================
