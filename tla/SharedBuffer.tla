---------------------------- MODULE SharedBuffer ----------------------------
(***************************************************************************)
(* The buffer of an IIO device shared by the clients of iiod (iiod/ops.c): *)
(* open_dev_helper finds or makes the DevEntry of the device, its R/W      *)
(* worker rw_thd (re)creates the kernel buffer for the channels of all     *)
(* clients, refills it and hands every reader its part, and the last       *)
(* client to leave makes the worker tear everything down.  This is the     *)
(* buffer without metadata: none of the ring, direct and burst modes.      *)
(*                                                                         *)
(* What happens under thdlist_lock is one step, socket writes to the       *)
(* clients included, and so is the lookup under devlist_lock.  A channel   *)
(* is one byte of a sample and a refill brings one sample.                 *)
(***************************************************************************)
EXTENDS Integers, FiniteSets

CONSTANTS
    Client,         \* connections that open the device
    Channel,        \* channels of the device
    Mask,           \* the channels each client opens it with
    Entries,        \* bound: DevEntries that exist at a time
    Retries,        \* cyclic_retry: lookups of a busy device before -EBUSY
    MaxBytes        \* bound: bytes of a READBUF or WRITEBUF

ASSUME ClientAssumption == IsFiniteSet(Client) /\ IsFiniteSet(Channel)
ASSUME MaskAssumption == Mask \in [Client -> (SUBSET Channel) \ {{}}]
ASSUME BoundsAssumption ==
    /\ Entries \in Nat \ {0} /\ Retries \in Nat /\ MaxBytes \in Nat

VARIABLES
    output,     \* the device sends samples; none sends and receives
    dev,        \* iio_device_get_data: the entry clients find, or NoEntry
    entry,      \* the DevEntries
    rw,         \* where the R/W worker of each entry is
    thd,        \* the ThdEntry of each client
    client      \* the parser thread of each client

vars == <<output, dev, entry, rw, thd, client>>

Id == 1 .. Entries
NoEntry == 0

\* struct DevEntry
DevEntry == [cyclic      : BOOLEAN,
             ref_count   : Nat,
             list        : SUBSET Client,       \* thdlist_head
             update_mask : BOOLEAN,
             buf         : BOOLEAN,
             cancelled   : BOOLEAN,
             closed      : BOOLEAN,
             sample_size : 0 .. Cardinality(Channel),
             acked       : BOOLEAN]     \* history: the close of its exclusive client was answered

\* struct ThdEntry.  failed: err is negative.  event: the eventfd is readable.
ThdEntry == [wait_for_open : BOOLEAN, nb : 0 .. MaxBytes, active : BOOLEAN,
             failed : BOOLEAN, event : BOOLEAN]

\* free: the entry is not allocated, or only until its last reference is put.
RwPc == {"free", "top", "waiting", "refill", "push", "unpublish", "put"}

\* wait: wait_for_exclusive_close; close: the client leaves by close_dev_helper.
ParserPdata == [pc : {"closed", "open", "created", "opening", "idle", "busy", "hungup",
                      "leaving", "closing"},
                cyclic : BOOLEAN, retries : 0 .. Retries, entry : Id \cup {NoEntry},
                wait : BOOLEAN, close : BOOLEAN]

Disconnected == [pc |-> "closed", cyclic |-> FALSE, retries |-> 0, entry |-> NoEntry,
                 wait |-> FALSE, close |-> FALSE]

NewThd == [wait_for_open |-> TRUE, nb |-> 0, active |-> FALSE, failed |-> FALSE,
           event |-> FALSE]

NewEntry(c, cyclic) ==
    [cyclic |-> cyclic, ref_count |-> 2, list |-> {c}, update_mask |-> TRUE, buf |-> FALSE,
     cancelled |-> FALSE, closed |-> FALSE, sample_size |-> 0,
     acked |-> FALSE]

Unallocated == [cyclic |-> FALSE, ref_count |-> 0, list |-> {}, update_mask |-> FALSE,
                buf |-> FALSE, cancelled |-> FALSE, closed |-> TRUE, sample_size |-> 0,
                acked |-> FALSE]

Init ==
    /\ output \in BOOLEAN
    /\ dev = NoEntry
    /\ entry = [e \in Id |-> Unallocated]
    /\ rw = [e \in Id |-> "free"]
    /\ thd = [c \in Client |-> NewThd]
    /\ client = [c \in Client |-> Disconnected]

-----------------------------------------------------------------------------
(* Helpers *)

SampleSize(clients) == Cardinality(UNION {Mask[c] : c \in clients})

\* signal_thread on a client's t.
Signalled(t, failed) ==
    [t EXCEPT !.failed = failed, !.nb = 0, !.active = FALSE, !.event = TRUE]

\* dev_entry_put on an entry d.
Put(d) == IF d.ref_count = 1 THEN Unallocated ELSE [d EXCEPT !.ref_count = @ - 1]

\* pthread_cond_signal(&entry->rw_ready_cond).  A CLOSE that waits on the same
\* variable is the only client of its entry and has signalled before it waits.
WakeRw(e) == IF rw[e] = "waiting" THEN [rw EXCEPT ![e] = "top"] ELSE rw

\* Bytes of one refill that a client gets or gives: its own channels.
Share(c) == IF thd[c].nb < SampleSize({c}) THEN thd[c].nb ELSE SampleSize({c})

Active(e) == {c \in entry[e].list : thd[c].active}

-----------------------------------------------------------------------------
(* The R/W worker *)

\* The end of rw_thd, still under thdlist_lock: the buffer is destroyed first.
TornDown(d) == [d EXCEPT !.list = {}, !.buf = FALSE, !.closed = TRUE]

\* The last client has left, or the buffer cannot be created: the worker
\* signals the remaining clients and gives up the buffer.
RwExit(e) ==
    /\ rw[e] = "top"
    /\ entry[e].list = {} \/ entry[e].update_mask
    /\ thd' = [c \in Client |->
                 IF c \in entry[e].list
                 THEN [Signalled(thd[c], TRUE) EXCEPT !.wait_for_open = FALSE] ELSE thd[c]]
    /\ entry' = [entry EXCEPT ![e] = TornDown(@)]
    /\ rw' = [rw EXCEPT ![e] = "unpublish"]
    /\ UNCHANGED <<output, dev, client>>

\* A client of a buffer that was just created is answered: its open, or the
\* command it had begun on the old one.
Reopened(t, size) ==
    IF t.wait_for_open THEN [Signalled(t, FALSE) EXCEPT !.wait_for_open = FALSE]
    ELSE IF t.nb >= size THEN Signalled(t, FALSE)
    ELSE [t EXCEPT !.active = FALSE]

\* The clients' masks changed: destroy the buffer and create another one.
RwReopen(e) ==
    /\ rw[e] = "top" /\ entry[e].list # {} /\ entry[e].update_mask
    /\ LET size == SampleSize(entry[e].list)
       IN  /\ entry' = [entry EXCEPT ![e].update_mask = FALSE, ![e].buf = TRUE,
                                     ![e].cancelled = FALSE, ![e].sample_size = size]
           /\ thd' = [c \in Client |->
                        IF c \in entry[e].list THEN Reopened(thd[c], size) ELSE thd[c]]
    /\ rw' = [rw EXCEPT ![e] = "waiting"]
    /\ UNCHANGED <<output, dev, client>>

\* Who has a command to serve?  Without one the worker waits.
RwTop(e) ==
    /\ rw[e] = "top" /\ entry[e].list # {} /\ ~entry[e].update_mask
    /\ LET serve == {c \in entry[e].list : thd[c].nb >= entry[e].sample_size}
       IN  /\ thd' = [c \in Client |->
                        IF c \in entry[e].list THEN [thd[c] EXCEPT !.active = c \in serve]
                        ELSE thd[c]]
           /\ rw' = [rw EXCEPT ![e] = IF serve = {} THEN "waiting"
                                      ELSE IF output THEN "push" ELSE "refill"]
    /\ UNCHANGED <<output, dev, entry, client>>

\* A client has served n bytes: it is answered when less than a sample is left.
Served(e, t, n) ==
    LET u == [t EXCEPT !.nb = @ - n]
    IN  IF u.nb < entry[e].sample_size THEN Signalled(u, FALSE) ELSE u

\* iio_buffer_refill returns and, unless the buffer was cancelled, its samples
\* are sent to the active readers; the writes to the gone ones fail.
RwRefilled(e, ok, gone) ==
    /\ rw[e] = "refill"
    /\ thd' = [c \in Client |->
                 IF entry[e].cancelled \/ c \notin Active(e) THEN thd[c]
                 ELSE IF ~ok \/ c \in gone THEN Signalled(thd[c], TRUE)
                 ELSE Served(e, thd[c], Share(c))]
    /\ rw' = [rw EXCEPT ![e] = "top"]
    /\ UNCHANGED <<output, dev, entry, client>>

\* The active writers' samples are received and pushed.  A cancelled push
\* answers only the writers whose samples could not be received.
RwPushed(e, ok, gone) ==
    /\ rw[e] = "push"
    /\ thd' = [c \in Client |->
                 IF c \notin Active(e) THEN thd[c]
                 ELSE IF c \in gone THEN Signalled(thd[c], TRUE)
                 ELSE IF entry[e].cancelled THEN [thd[c] EXCEPT !.nb = @ - Share(c)]
                 ELSE IF ~ok THEN Signalled(thd[c], TRUE)
                 ELSE Served(e, thd[c], Share(c))]
    /\ rw' = [rw EXCEPT ![e] = "top"]
    /\ UNCHANGED <<output, dev, entry, client>>

\* Mutant: whatever entry is published is withdrawn.
RwUnpublishAny(e) ==
    /\ rw[e] = "unpublish"
    /\ dev' = NoEntry
    /\ rw' = [rw EXCEPT ![e] = "put"]
    /\ UNCHANGED <<output, entry, thd, client>>

\* Clients no longer find the entry; one made in the meantime stays.
RwUnpublish(e) ==
    /\ rw[e] = "unpublish"
    /\ dev' = IF dev = e THEN NoEntry ELSE dev
    /\ rw' = [rw EXCEPT ![e] = "put"]
    /\ UNCHANGED <<output, entry, thd, client>>

RwPut(e) ==
    /\ rw[e] = "put"
    /\ entry' = [entry EXCEPT ![e] = Put(@)]
    /\ rw' = [rw EXCEPT ![e] = "free"]
    /\ UNCHANGED <<output, dev, thd, client>>

Rw(e) ==
    \/ RwExit(e) \/ RwReopen(e) \/ RwTop(e)
    \/ \E ok \in BOOLEAN, gone \in SUBSET Active(e) : RwRefilled(e, ok, gone)
    \/ \E ok \in BOOLEAN, gone \in SUBSET Active(e) : RwPushed(e, ok, gone)
    \/ RwUnpublish(e) \/ RwPut(e)

-----------------------------------------------------------------------------
(* The clients' parser threads *)

ClientOpen(c, cyclic) ==
    /\ client[c].pc = "closed"
    /\ client' = [client EXCEPT ![c] = [@ EXCEPT !.pc = "open", !.cyclic = cyclic,
                                                 !.retries = Retries]]
    /\ UNCHANGED <<output, dev, entry, rw, thd>>

\* A client p looks the device up once more, or has done so often enough.
Retried(p) == IF p.retries = 0 THEN Disconnected ELSE [p EXCEPT !.retries = @ - 1]

\* open_dev_helper finds an entry it must not share: it tries again, then gives up.
ClientBusy(c) ==
    /\ client[c].pc = "open"
    /\ dev # NoEntry /\ (client[c].cyclic \/ entry[dev].cyclic)
    /\ client' = [client EXCEPT ![c] = Retried(@)]
    /\ UNCHANGED <<output, dev, entry, rw, thd>>

\* The entry d with c on its list.
Joined(d, c) ==
    [d EXCEPT !.ref_count = @ + 1, !.list = @ \cup {c}, !.update_mask = TRUE]

\* Mutant: an entry that is already closed is joined.
ClientJoinClosed(c) ==
    /\ client[c].pc = "open"
    /\ dev # NoEntry /\ ~client[c].cyclic /\ ~entry[dev].cyclic
    /\ entry' = [entry EXCEPT ![dev] = Joined(@, c)]
    /\ rw' = WakeRw(dev)
    /\ client' = [client EXCEPT ![c] = [Disconnected EXCEPT !.pc = "opening", !.entry = dev]]
    /\ UNCHANGED <<output, dev, thd>>

\* It finds an entry it can join,
ClientJoin(c) ==
    /\ client[c].pc = "open"
    /\ dev # NoEntry /\ ~client[c].cyclic /\ ~entry[dev].cyclic /\ ~entry[dev].closed
    /\ entry' = [entry EXCEPT ![dev] = Joined(@, c)]
    /\ rw' = WakeRw(dev)
    /\ client' = [client EXCEPT ![c] = [Disconnected EXCEPT !.pc = "opening", !.entry = dev]]
    /\ UNCHANGED <<output, dev, thd>>

\* Entries that are not allocated.
Unused == {e \in Id : rw[e] = "free" /\ entry[e].ref_count = 0}

\* There is no entry, or one that its worker has already closed.
MayCreate(c) ==
    /\ client[c].pc = "open"
    /\ dev # NoEntry => ~client[c].cyclic /\ ~entry[dev].cyclic /\ entry[dev].closed

\* or it makes one and starts the worker,
ClientCreate(c, e) ==
    /\ MayCreate(c)
    /\ e \in Unused /\ \A f \in Unused : e <= f
    /\ entry' = [entry EXCEPT ![e] = NewEntry(c, client[c].cyclic)]
    /\ rw' = [rw EXCEPT ![e] = "top"]
    /\ dev' = e
    /\ client' = [client EXCEPT ![c] = [Disconnected EXCEPT !.pc = "created", !.entry = e]]
    /\ UNCHANGED <<output, thd>>

\* or the memory or the thread for it cannot be had.
ClientCreateFail(c) ==
    /\ MayCreate(c)
    /\ client' = [client EXCEPT ![c] = Disconnected]
    /\ UNCHANGED <<output, dev, entry, rw, thd>>

\* The worker's answer to an open is the client's err.
AfterOpen(c) == IF thd[c].failed THEN "leaving" ELSE "idle"

\* Having made an entry, the client first looks whether the worker was faster;
\* the event of its answer then stays in the eventfd.
ClientLook(c) ==
    /\ client[c].pc = "created"
    /\ client' = [client EXCEPT ![c].pc = IF thd[c].wait_for_open THEN "opening"
                                          ELSE AfterOpen(c)]
    /\ UNCHANGED <<output, dev, entry, rw, thd>>

\* thd_entry_event_wait returns; its callers check what they wait for again.
ClientEvent(c) ==
    /\ client[c].pc \in {"opening", "busy"} /\ thd[c].event
    /\ thd' = [thd EXCEPT ![c].event = FALSE]
    /\ client' = [client EXCEPT ![c].pc =
                    IF @ = "opening" /\ ~thd[c].wait_for_open THEN AfterOpen(c)
                    ELSE IF @ = "busy" /\ ~thd[c].active THEN "idle" ELSE @]
    /\ UNCHANGED <<output, dev, entry, rw>>

\* thd_entry_event_wait or read_line sees the peer gone or the pool stopped.
ClientHangUp(c) ==
    /\ client[c].pc \in {"opening", "busy", "idle"}
    /\ client' = [client EXCEPT ![c].pc = IF @ = "opening" THEN "leaving" ELSE "hungup"]
    /\ UNCHANGED <<output, dev, entry, rw, thd>>

\* rw_buffer: READBUF or WRITEBUF.
ClientRw(c, nb) ==
    LET e == client[c].entry
    IN  /\ client[c].pc = "idle"
        /\ nb >= entry[e].sample_size /\ ~entry[e].closed
        /\ thd' = [thd EXCEPT ![c] = [@ EXCEPT !.nb = nb, !.failed = FALSE, !.active = TRUE]]
        /\ client' = [client EXCEPT ![c].pc = "busy"]
        /\ rw' = WakeRw(e)
        /\ UNCHANGED <<output, dev, entry>>

\* Mutant: the close of an exclusive buffer does not wait.
ClientCloseAtOnce(c) ==
    /\ client[c].pc \in {"idle", "hungup"}
    /\ client' = [client EXCEPT ![c] = [@ EXCEPT !.pc = "leaving", !.close = TRUE]]
    /\ UNCHANGED <<output, dev, entry, rw, thd>>

\* close_dev_helper, for a CLOSE or by the interpreter of a client that hung up.
ClientClose(c) ==
    LET e == client[c].entry
        wait == entry[e].cyclic /\ entry[e].list = {c}
    IN  /\ client[c].pc \in {"idle", "hungup"}
        /\ entry' = IF wait THEN [entry EXCEPT ![e].ref_count = @ + 1] ELSE entry
        /\ client' = [client EXCEPT ![c] = [@ EXCEPT !.pc = "leaving", !.close = TRUE,
                                                     !.wait = wait]]
        /\ UNCHANGED <<output, dev, rw, thd>>

\* The client puts its reference to the entry d and is answered.
Leave(d, t) == Put([d EXCEPT !.acked = @ \/ (t.close /\ d.cyclic)])

\* The client is taken from the list; the last one cancels the buffer.
Removed(d, c) ==
    LET left == d.list \ {c}
    IN  [d EXCEPT !.update_mask = TRUE, !.list = left,
                  !.cancelled = @ \/ (left = {} /\ d.buf)]

\* remove_thd_entry; a close that waits is not answered yet.
ClientRemove(c) ==
    LET e == client[c].entry
        d == IF entry[e].closed THEN entry[e] ELSE Removed(entry[e], c)
    IN  /\ client[c].pc = "leaving"
        /\ entry' = [entry EXCEPT ![e] = IF client[c].wait THEN Put(d) ELSE Leave(d, client[c])]
        /\ rw' = IF entry[e].closed THEN rw ELSE WakeRw(e)
        /\ client' = [client EXCEPT ![c] = IF @.wait THEN [@ EXCEPT !.pc = "closing"]
                                           ELSE Disconnected]
        /\ thd' = [thd EXCEPT ![c] = NewThd]
        /\ UNCHANGED <<output, dev>>

\* The close of an exclusive buffer returns when the worker has closed the entry.
ClientClosed(c) ==
    LET e == client[c].entry
    IN  /\ client[c].pc = "closing" /\ entry[e].closed
        /\ entry' = [entry EXCEPT ![e] = Leave(@, client[c])]
        /\ client' = [client EXCEPT ![c] = Disconnected]
        /\ UNCHANGED <<output, dev, rw, thd>>

Parser(c) ==
    \/ \E cyclic \in BOOLEAN : ClientOpen(c, cyclic)
    \/ ClientBusy(c) \/ ClientJoin(c) \/ \E e \in Id : ClientCreate(c, e)
    \/ ClientCreateFail(c) \/ ClientLook(c) \/ ClientEvent(c) \/ ClientHangUp(c)
    \/ \E nb \in 1 .. MaxBytes : ClientRw(c, nb)
    \/ ClientClose(c) \/ ClientRemove(c) \/ ClientClosed(c)

Next == (\E e \in Id : Rw(e)) \/ (\E c \in Client : Parser(c))

Spec == Init /\ [][Next]_vars

\* The parser thread goes on with a command.
ParserRuns(c) ==
    \/ ClientLook(c) \/ ClientEvent(c) \/ (client[c].pc = "hungup" /\ ClientClose(c))
    \/ ClientRemove(c) \/ ClientClosed(c)

\* The worker runs, and a refill or a write ends by its timeout at the latest.
\* Clients need never send a command, but the one they sent goes on.
Fairness == /\ \A e \in Id : WF_vars(Rw(e))
            /\ \A c \in Client : WF_vars(ParserRuns(c))

LiveSpec == Spec /\ Fairness

-----------------------------------------------------------------------------
(* Properties *)

\* The variables have their types.
TypeOK ==
    /\ output \in BOOLEAN /\ dev \in Id \cup {NoEntry}
    /\ entry \in [Id -> DevEntry] /\ rw \in [Id -> RwPc]
    /\ thd \in [Client -> ThdEntry] /\ client \in [Client -> ParserPdata]

\* However opens race with the teardown of the last buffer, one entry at most is
\* open, it is the one clients find, and no other has a kernel buffer, so that
\* the device is never enabled twice (rw_thd destroys, closes, then withdraws).
OneLiveEntry ==
    \A e \in Id :
        /\ ~entry[e].closed => dev = e
        /\ entry[e].buf => dev = e /\ ~entry[e].closed

\* An entry is freed exactly when its worker and its last client are done with
\* it, and the one that open_dev_helper looks up is not freed: the worker
\* withdraws it before it puts its reference.
RefsExact ==
    /\ \A e \in Id :
         /\ entry[e].ref_count = (IF rw[e] = "free" THEN 0 ELSE 1)
                               + Cardinality({c \in Client : client[c].entry = e
                                                            /\ client[c].pc # "closing"})
                               + Cardinality({c \in Client : client[c].entry = e
                                                            /\ client[c].wait})
         /\ \A c \in entry[e].list : client[c].entry = e
    /\ dev # NoEntry => rw[dev] \notin {"put", "free"}

\* The entries the clients share are sound: typed, one of them live, each freed
\* with its last user.
EntriesSound == TypeOK /\ OneLiveEntry /\ RefsExact

\* CLOSE of an exclusive buffer is acknowledged only when the worker no longer
\* owns the kernel buffer (close_dev_helper).
ExclusiveReleased == \A e \in Id : entry[e].acked => ~entry[e].buf

\* Other clients enabled so many channels that less than a sample is left of the
\* client's command: rw_thd neither serves nor answers it until one of them leaves.
Starved(c) == client[c].entry # NoEntry /\ thd[c].nb \in 1 .. entry[client[c].entry].sample_size - 1

\* Every command is answered, an open, a READBUF or WRITEBUF and a CLOSE, whoever
\* else joins, leaves, or hangs up in the meantime: no wakeup is lost.
CommandsAnswered ==
    \A c \in Client :
        client[c].pc \in {"created", "opening", "busy", "hungup", "leaving", "closing"}
            ~> client[c].pc \in {"idle", "closed"} \/ Starved(c)
=============================================================================
