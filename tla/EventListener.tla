--------------------------- MODULE EventListener ---------------------------
(***************************************************************************)
(* The xenblocks block-storage EventListener (src/unnamed/part_000).       *)
(*                                                                         *)
(* Four goroutines share the listener's fields without a lock:             *)
(*   - Start, run by the node, which sleeps, sets enabled, attaches an RPC *)
(*     client, makes the event channel and spawns the others;              *)
(*   - numOfWorkers workers ranging over the event channel;                *)
(*   - the watcher, which subscribes to NewHash events and then loops on   *)
(*     sub.Err();                                                          *)
(*   - Close, run by the node when it stops.                               *)
(* The go-ethereum subscription itself is modelled as the Feed action      *)
(* (the producer goroutine of event.NewSubscription that sends decoded     *)
(* logs into the channel); its Unsubscribe returns only after the producer *)
(* has exited, so it is one atomic step here.                              *)
(*                                                                         *)
(* Data are abstracted: an event is a model value of Events, and the       *)
(* verifier's answer is whether the RPC connection is still open.  A panic *)
(* ends the whole process: every action requires ~panicked.                *)
(***************************************************************************)
EXTENDS Naturals, Sequences, Functions

CONSTANTS
    Events,        \* the NewHash events the contract may emit, each at most once
    numOfWorkers,  \* numOfWorkers in the code (1)
    backlog,       \* capacity of eventChannel (5 in the code)
    NoEvent        \* a worker's evt before its first receive

ASSUME ListenerAssumption ==
    /\ numOfWorkers \in Nat \ {0}
    /\ backlog \in Nat \ {0}
    /\ NoEvent \notin Events

VARIABLES
    startPc,    \* program counter of Start
    enabled,    \* e.enabled
    conn,       \* e.conn: "nil", "open" or "closed"
    ch,         \* e.eventChannel: "nil", "open" or "closed"
    buf,        \* the events buffered in e.eventChannel
    sub,        \* e.sub: "nil", "active", "failed" or "unsubscribed"
    watcherPc,  \* program counter of the watcher goroutine
    workerPc,   \* program counter of each worker
    cur,        \* the event each worker holds
    closePc,    \* program counter of Close
    stopping,   \* the node has begun to stop (its RPC server may be stopped)
    logs,       \* events matched by the server-side subscription, not yet sent
    emitted,    \* every event the contract emitted, in order
    running,    \* events emitted after the watcher subscribed, before the node stopped
    processed,  \* events a worker received and validated, in order
    forwarded,  \* events whose tokens reached voter.AddToQueue, in order
    panicked    \* the process has panicked

vars == <<startPc, enabled, conn, ch, buf, sub, watcherPc, workerPc, cur,
          closePc, stopping, logs, emitted, running, processed, forwarded, panicked>>

\* Mutant of Workers: one goroutine too many spawned (w <= numOfWorkers+1).
WorkersOffByOne == 1..(numOfWorkers + 1)

\* The worker goroutines spawned by the loop at line 65.
Workers == 1..numOfWorkers

Init ==
    /\ startPc = "sleep"
    /\ enabled = FALSE
    /\ conn = "nil"
    /\ ch = "nil"
    /\ buf = <<>>
    /\ sub = "nil"
    /\ watcherPc = "none"
    /\ workerPc = [w \in Workers |-> "none"]
    /\ cur = [w \in Workers |-> NoEvent]
    /\ closePc = "none"
    /\ stopping = FALSE
    /\ logs = <<>>
    /\ emitted = <<>>
    /\ running = {}
    /\ processed = <<>>
    /\ forwarded = <<>>
    /\ panicked = FALSE

Panic == panicked' = TRUE

-----------------------------------------------------------------------------
(* Start *)

\* log.Info; time.Sleep(5s); e.enabled = true.
StartEnable ==
    /\ ~panicked /\ startPc = "sleep"
    /\ enabled' = TRUE
    /\ startPc' = "init"
    /\ UNCHANGED <<conn, ch, buf, sub, watcherPc, workerPc, cur, closePc, stopping,
                   logs, emitted, running, processed, forwarded, panicked>>

\* initializeEventSystem: stack.Attach dials the node's in-process handler and
\* returns no error, NewBlockStorage only binds the address, so err is nil
\* and the panic of line 61 is never taken; conn, bs, verifier and voter are set.
StartInit ==
    /\ ~panicked /\ startPc = "init"
    /\ conn' = "open"
    /\ startPc' = "mkchan"
    /\ UNCHANGED <<enabled, ch, buf, sub, watcherPc, workerPc, cur, closePc, stopping,
                   logs, emitted, running, processed, forwarded, panicked>>

\* e.eventChannel = make(chan, backlog); spawn the workers and the watcher.
StartSpawn ==
    /\ ~panicked /\ startPc = "mkchan"
    /\ ch' = "open"
    /\ workerPc' = [w \in Workers |-> "recv"]
    /\ watcherPc' = "subscribe"
    /\ startPc' = "done"
    /\ UNCHANGED <<enabled, conn, buf, sub, cur, closePc, stopping,
                   logs, emitted, running, processed, forwarded, panicked>>

\* The watcher: e.sub, err = e.bs.WatchNewHash(...); panic on error.  The
\* subscription succeeds over an open client; eth_subscribe fails over a
\* closed one, and may fail once the node is stopping (its RPC server is
\* stopped as the node shuts down, before or after Close runs).
WatcherSubscribe ==
    /\ ~panicked /\ watcherPc = "subscribe"
    /\ \/ /\ conn # "closed"
          /\ sub' = "active" /\ watcherPc' = "loop" /\ UNCHANGED panicked
       \/ /\ stopping
          /\ Panic /\ UNCHANGED <<sub, watcherPc>>
    /\ UNCHANGED <<startPc, enabled, conn, ch, buf, workerPc, cur, closePc, stopping,
                   logs, emitted, running, processed, forwarded>>

\* The watcher's loop: once the subscription has ended (an error, or
\* Unsubscribe, after which sub.Err() is closed and yields nil at once) the
\* select receives, logs, and its break leaves only the select; the loop
\* then sleeps a second and selects again, for ever.
WatcherErr ==
    /\ ~panicked /\ watcherPc = "loop"
    /\ sub \in {"failed", "unsubscribed"}
    /\ watcherPc' = "sleep"
    /\ UNCHANGED <<startPc, enabled, conn, ch, buf, sub, workerPc, cur, closePc, stopping,
                   logs, emitted, running, processed, forwarded, panicked>>

\* time.Sleep(time.Second), then the next iteration of the for loop.
WatcherSleep ==
    /\ ~panicked /\ watcherPc = "sleep"
    /\ watcherPc' = "loop"
    /\ UNCHANGED <<startPc, enabled, conn, ch, buf, sub, workerPc, cur, closePc, stopping,
                   logs, emitted, running, processed, forwarded, panicked>>

-----------------------------------------------------------------------------
(* The subscription's producer goroutine and the contract *)

\* Mutant of Feed: the send does not wait for room in the channel.
FeedNoBackpressure ==
    /\ ~panicked /\ sub = "active" /\ logs # <<>>
    /\ buf' = Append(buf, Head(logs))
    /\ logs' = Tail(logs)
    /\ UNCHANGED <<startPc, enabled, conn, ch, sub, watcherPc, workerPc, cur, closePc,
                   stopping, emitted, running, processed, forwarded, panicked>>

\* The producer sends the next matched log into eventChannel; the send blocks
\* while the channel holds backlog events.
Feed ==
    /\ ~panicked /\ sub = "active" /\ logs # <<>>
    /\ Len(buf) < backlog
    /\ buf' = Append(buf, Head(logs))
    /\ logs' = Tail(logs)
    /\ UNCHANGED <<startPc, enabled, conn, ch, sub, watcherPc, workerPc, cur, closePc,
                   stopping, emitted, running, processed, forwarded, panicked>>

\* The contract emits NewHash; only an active subscription matches it
\* (WatchNewHash is called with nil opts: no back-fill from earlier blocks).
Emit(e) ==
    /\ ~panicked /\ e \notin Range(emitted)
    /\ emitted' = Append(emitted, e)
    /\ logs' = IF sub = "active" THEN Append(logs, e) ELSE logs
    /\ running' = IF watcherPc = "loop" /\ ~stopping THEN running \cup {e} ELSE running
    /\ UNCHANGED <<startPc, enabled, conn, ch, buf, sub, watcherPc, workerPc, cur,
                   closePc, stopping, processed, forwarded, panicked>>

\* The subscription ends with an error (connection drop, queue overflow):
\* the producer returns and the pending logs are lost.
SubFail ==
    /\ ~panicked /\ sub = "active"
    /\ sub' = "failed"
    /\ logs' = <<>>
    /\ UNCHANGED <<startPc, enabled, conn, ch, buf, watcherPc, workerPc, cur, closePc,
                   stopping, emitted, running, processed, forwarded, panicked>>

-----------------------------------------------------------------------------
(* Workers *)

\* Mutant of WorkerRecv: a select-style loop that ignores the closed flag and
\* keeps receiving the zero value after close.
WorkerRecvIgnoreClosed(w) ==
    /\ ~panicked /\ workerPc[w] = "recv"
    /\ \/ /\ buf # <<>>
          /\ cur' = [cur EXCEPT ![w] = Head(buf)]
          /\ buf' = Tail(buf)
          /\ workerPc' = [workerPc EXCEPT ![w] = "process"]
       \/ /\ buf = <<>> /\ ch = "closed"
          /\ UNCHANGED <<workerPc, cur, buf>>
    /\ UNCHANGED <<startPc, enabled, conn, ch, sub, watcherPc, closePc, stopping,
                   logs, emitted, running, processed, forwarded, panicked>>

\* Mutant of WorkerRecv: the worker leaves as soon as the channel is closed,
\* without draining it (a select on a done signal instead of range).
WorkerRecvExitOnClose(w) ==
    /\ ~panicked /\ workerPc[w] = "recv"
    /\ \/ /\ buf # <<>> /\ ch # "closed"
          /\ cur' = [cur EXCEPT ![w] = Head(buf)]
          /\ buf' = Tail(buf)
          /\ workerPc' = [workerPc EXCEPT ![w] = "process"]
       \/ /\ ch = "closed"
          /\ workerPc' = [workerPc EXCEPT ![w] = "exited"]
          /\ UNCHANGED <<cur, buf>>
    /\ UNCHANGED <<startPc, enabled, conn, ch, sub, watcherPc, closePc, stopping,
                   logs, emitted, running, processed, forwarded, panicked>>

\* for evt := range events: take the next buffered event, or leave the loop
\* once the channel is closed and drained.
WorkerRecv(w) ==
    /\ ~panicked /\ workerPc[w] = "recv"
    /\ \/ /\ buf # <<>>
          /\ cur' = [cur EXCEPT ![w] = Head(buf)]
          /\ buf' = Tail(buf)
          /\ workerPc' = [workerPc EXCEPT ![w] = "process"]
       \/ /\ buf = <<>> /\ ch = "closed"
          /\ workerPc' = [workerPc EXCEPT ![w] = "exited"]
          /\ UNCHANGED <<cur, buf>>
    /\ UNCHANGED <<startPc, enabled, conn, ch, sub, watcherPc, closePc, stopping,
                   logs, emitted, running, processed, forwarded, panicked>>

\* tokens := validateHashEvent(evt); AddToQueue for each token.  The verifier's
\* RPC calls fail on a closed client, and then no token is returned.
WorkerProcess(w) ==
    /\ ~panicked /\ workerPc[w] = "process"
    /\ processed' = Append(processed, cur[w])
    /\ forwarded' = IF conn = "open" THEN Append(forwarded, cur[w]) ELSE forwarded
    /\ cur' = [cur EXCEPT ![w] = NoEvent]
    /\ workerPc' = [workerPc EXCEPT ![w] = "recv"]
    /\ UNCHANGED <<startPc, enabled, conn, ch, buf, sub, watcherPc, closePc, stopping,
                   logs, emitted, running, panicked>>

-----------------------------------------------------------------------------
(* Close, called by the node as it stops *)

\* The node begins to stop and calls Close.
Shutdown ==
    /\ ~panicked /\ ~stopping
    /\ stopping' = TRUE
    /\ closePc' = "check"
    /\ UNCHANGED <<startPc, enabled, conn, ch, buf, sub, watcherPc, workerPc, cur,
                   logs, emitted, running, processed, forwarded, panicked>>

\* if e.enabled { ... }: the read of enabled races with Start's write.
CloseCheck ==
    /\ ~panicked /\ closePc = "check"
    /\ closePc' = IF enabled THEN "unsub" ELSE "done"
    /\ UNCHANGED <<startPc, enabled, conn, ch, buf, sub, watcherPc, workerPc, cur,
                   stopping, logs, emitted, running, processed, forwarded, panicked>>

\* e.sub.Unsubscribe(): a nil interface panics; otherwise the producer is
\* stopped and Unsubscribe waits for it.  Then time.Sleep(1s).
CloseUnsubscribe ==
    /\ ~panicked /\ closePc = "unsub"
    /\ IF sub = "nil"
         THEN Panic /\ UNCHANGED <<sub, logs, closePc>>
         ELSE /\ sub' = IF sub = "active" THEN "unsubscribed" ELSE sub
              /\ logs' = <<>>
              /\ closePc' = "closechan"
              /\ UNCHANGED panicked
    /\ UNCHANGED <<startPc, enabled, conn, ch, buf, watcherPc, workerPc, cur,
                   stopping, emitted, running, processed, forwarded>>

\* close(e.eventChannel): closing a nil channel panics.
CloseChannel ==
    /\ ~panicked /\ closePc = "closechan"
    /\ IF ch = "nil"
         THEN Panic /\ UNCHANGED <<ch, closePc>>
         ELSE ch' = "closed" /\ closePc' = "closeconn" /\ UNCHANGED panicked
    /\ UNCHANGED <<startPc, enabled, conn, buf, sub, watcherPc, workerPc, cur,
                   stopping, logs, emitted, running, processed, forwarded>>

\* e.conn.Close(): a nil *ethclient.Client dereferences nil.
CloseConn ==
    /\ ~panicked /\ closePc = "closeconn"
    /\ IF conn = "nil"
         THEN Panic /\ UNCHANGED <<conn, closePc>>
         ELSE conn' = "closed" /\ closePc' = "done" /\ UNCHANGED panicked
    /\ UNCHANGED <<startPc, enabled, ch, buf, sub, watcherPc, workerPc, cur,
                   stopping, logs, emitted, running, processed, forwarded>>

-----------------------------------------------------------------------------

Next ==
    \/ StartEnable \/ StartInit \/ StartSpawn
    \/ WatcherSubscribe \/ WatcherErr \/ WatcherSleep
    \/ Feed \/ \E e \in Events : Emit(e) \/ SubFail
    \/ \E w \in Workers : WorkerRecv(w) \/ WorkerProcess(w)
    \/ Shutdown \/ CloseCheck \/ CloseUnsubscribe \/ CloseChannel \/ CloseConn

\* The Go scheduler eventually runs every runnable goroutine: weak fairness
\* for each step of Start, the watcher, the producer, the workers and Close.
\* The contract's emissions, subscription failures and the node's shutdown
\* are the environment's choice and get no fairness.
Fairness ==
    /\ WF_vars(StartEnable) /\ WF_vars(StartInit) /\ WF_vars(StartSpawn)
    /\ WF_vars(WatcherSubscribe) /\ WF_vars(WatcherErr) /\ WF_vars(WatcherSleep)
    /\ WF_vars(Feed)
    /\ \A w \in Workers : WF_vars(WorkerRecv(w)) /\ WF_vars(WorkerProcess(w))
    /\ WF_vars(CloseCheck) /\ WF_vars(CloseUnsubscribe)
    /\ WF_vars(CloseChannel) /\ WF_vars(CloseConn)

Spec == Init /\ [][Next]_vars /\ Fairness

\* The events between the contract and AddToQueue, oldest first: the one
\* the worker holds (the code spawns a single worker), those buffered in
\* eventChannel, and those the subscription has matched but not yet sent.
Held == IF workerPc[1] = "process" THEN <<cur[1]>> ELSE <<>>

Forwarder == INSTANCE AbstractForwarder WITH pending <- Held \o buf \o logs, out <- forwarded

-----------------------------------------------------------------------------
(* Properties *)

Ptr == {"nil", "open", "closed"}

\* Every variable holds a value of its kind.
TypeOK ==
    /\ startPc \in {"sleep", "init", "mkchan", "done"}
    /\ enabled \in BOOLEAN /\ conn \in Ptr /\ ch \in Ptr
    /\ buf \in Seq(Events) /\ Len(buf) <= backlog
    /\ sub \in {"nil", "active", "failed", "unsubscribed"}
    /\ watcherPc \in {"none", "subscribe", "loop", "sleep"}
    /\ workerPc \in [Workers -> {"none", "recv", "process", "exited"}]
    /\ cur \in [Workers -> Events \cup {NoEvent}]
    /\ closePc \in {"none", "check", "unsub", "closechan", "closeconn", "done"}
    /\ stopping \in BOOLEAN /\ panicked \in BOOLEAN
    /\ logs \in Seq(Events) /\ emitted \in Seq(Events) /\ running \subseteq Events
    /\ processed \in Seq(Events) /\ forwarded \in Seq(Events)

\* Close, the node's shutdown hook, never makes the process panic, whenever
\* the node stops relative to Start (Close guards itself with e.enabled).
NoPanic == ~panicked

\* The listener implements the lossy FIFO of AbstractForwarder: each event
\* the contract emits while it is subscribed joins the end of the pipeline
\* (subscription, channel, worker), and events leave it only at its head,
\* to AddToQueue or dropped by a failed validation, or at its end, when the
\* subscription ends and its unsent logs are lost.
AbstractForwarding == Forwarder!Spec

\* Once Close has closed the event channel, every worker goroutine leaves its
\* range loop (unless the process panicked): no worker leaks on shutdown.
WorkersExitAfterClose ==
    (ch = "closed") ~> (panicked \/ \A w \in Workers : workerPc[w] = "exited")

\* At-least-once forwarding (spec: the listener forwards decoded records to
\* the voting queue at-least-once): an event the contract emits while the
\* watcher is subscribed is eventually validated by a worker, unless the node stops.
EventsEventuallyProcessed ==
    \A e \in Events :
        (e \in running) ~> (stopping \/ panicked \/ e \in Range(processed))

\* Close drains rather than drops: an event that reached eventChannel is
\* eventually taken and validated by a worker, even when Close closes the
\* channel while it is still buffered (range drains a closed channel).
BufferedEventsProcessed ==
    \A e \in Events :
        (e \in Range(buf)) ~> (panicked \/ e \in Range(processed))

\* Close stops the watcher it logs it is closing ("Closing Block storage
\* watcher"): once Close has returned, the watcher goroutine eventually
\* leaves its loop on sub.Err().
WatcherStopsAfterClose ==
    (closePc = "done" /\ enabled) ~> (panicked \/ watcherPc \notin {"loop", "sleep"})

=============================================================================
