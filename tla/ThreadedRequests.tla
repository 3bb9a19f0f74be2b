-------------------------- MODULE ThreadedRequests --------------------------
(***************************************************************************)
(* Requests run on a thread pool: utils/concurrency/thread_pool.py and     *)
(* services/threaded_request_service.py.                                   *)
(*                                                                         *)
(* The threads are the workers of the pool and the main thread, which      *)
(* submits requests, fires the alarms of the alarm queue and closes the    *)
(* pool.  A step is what a thread does between two points where another    *)
(* one can run: a read of _stop_requested, a section under the condition's *)
(* lock, the request itself, a call on the future.  Future is the one of   *)
(* concurrent.futures (Python 3.8 or later): setting the outcome of a      *)
(* cancelled future raises InvalidStateError.                              *)
(***************************************************************************)
EXTENDS Naturals, Sequences, FiniteSets

CONSTANTS
    Worker,         \* the threads of the pool
    Request,        \* the requests of the node
    None            \* no request

ASSUME NoneAssumption == None \notin Request

VARIABLES
    work_items,      \* _work_items, a queue of requests
    stop_requested,  \* _stop_requested
    pc,              \* where a worker is in _thread_loop
    item,            \* the work item in a worker's hands, or None
    main,            \* what the main thread is doing
    current,         \* the request the main thread is sending, or None
    future,          \* the state of a request's future; "unsent" before submit
    runs,            \* how often a request was run
    hasCallback,     \* the requests whose done_callback is attached
    timeouts,        \* the requests whose _threaded_post_alarm is in the alarm queue
    callbacks        \* per request, how often its done_callback was put in the alarm queue

poolVars == <<work_items, stop_requested, pc, item>>
mainVars == <<main, current>>
requestVars == <<future, runs, hasCallback, timeouts, callbacks>>
threads == <<poolVars, mainVars, requestVars>>

RequestsInit ==
    /\ work_items = <<>>
    /\ stop_requested = FALSE
    /\ pc = [w \in Worker |-> "check"]
    /\ item = [w \in Worker |-> None]
    /\ main = "running"
    /\ current = None
    /\ future = [r \in Request |-> "unsent"]
    /\ runs = [r \in Request |-> 0]
    /\ hasCallback = {}
    /\ timeouts = {}
    /\ callbacks = [r \in Request |-> 0]

Done(r) == future[r] \in {"cancelled", "result", "exception"}

\* The future of r gets its final state s and invokes the callbacks attached to
\* it, which register done_callback with the alarm queue.
Settle(r, s) ==
    /\ future' = [future EXCEPT ![r] = s]
    /\ callbacks' = [callbacks EXCEPT ![r] = IF r \in hasCallback THEN @ + 1 ELSE @]

-----------------------------------------------------------------------------
(* A worker in _thread_loop and handle_work_item.                          *)

\* while not self._stop_requested, read without the lock
Check(w) ==
    /\ pc[w] = "check"
    /\ pc' = [pc EXCEPT ![w] = IF stop_requested THEN "ended" ELSE "lock"]
    /\ UNCHANGED <<work_items, stop_requested, item, mainVars, requestVars>>

\* Mutant: the work item is looked at, not taken.
PopPeek(w) ==
    /\ item' = [item EXCEPT ![w] = Head(work_items)]
    /\ pc' = [pc EXCEPT ![w] = "handle"]
    /\ UNCHANGED work_items

Pop(w) ==
    /\ item' = [item EXCEPT ![w] = Head(work_items)]
    /\ work_items' = Tail(work_items)
    /\ pc' = [pc EXCEPT ![w] = "handle"]

\* Under the lock: waits when there is nothing to do.
Take(w) ==
    /\ pc[w] = "lock"
    /\ \/ work_items # <<>> /\ Pop(w)
       \/ /\ work_items = <<>>
          /\ pc' = [pc EXCEPT ![w] = "wait"]
          /\ UNCHANGED <<work_items, item>>
    /\ UNCHANGED <<stop_requested, mainVars, requestVars>>

\* wait returned and the lock is taken again: another worker may have been faster.
Wake(w) ==
    /\ pc[w] = "woken"
    /\ \/ work_items # <<>> /\ Pop(w)
       \/ /\ work_items = <<>>
          /\ pc' = [pc EXCEPT ![w] = "check"]
          /\ UNCHANGED <<work_items, item>>
    /\ UNCHANGED <<stop_requested, mainVars, requestVars>>

\* Mutant: a worker that is told to stop drops what it has taken.
HandleUnlessStopping(w) ==
    /\ pc[w] = "handle"
    /\ \/ /\ future[item[w]] = "cancelled" \/ stop_requested
          /\ pc' = [pc EXCEPT ![w] = "check"]
          /\ item' = [item EXCEPT ![w] = None]
       \/ /\ future[item[w]] # "cancelled" /\ ~stop_requested
          /\ pc' = [pc EXCEPT ![w] = "run"]
          /\ UNCHANGED item
    /\ UNCHANGED <<work_items, stop_requested, mainVars, requestVars>>

\* not work_item.future.cancelled()
Handle(w) ==
    /\ pc[w] = "handle"
    /\ \/ /\ future[item[w]] = "cancelled"
          /\ pc' = [pc EXCEPT ![w] = "check"]
          /\ item' = [item EXCEPT ![w] = None]
       \/ /\ future[item[w]] # "cancelled"
          /\ pc' = [pc EXCEPT ![w] = "run"]
          /\ UNCHANGED item
    /\ UNCHANGED <<work_items, stop_requested, mainVars, requestVars>>

\* work_item.callback() returns or raises
Run(w) ==
    /\ pc[w] = "run"
    /\ \E outcome \in {"result", "exception"} : pc' = [pc EXCEPT ![w] = outcome]
    /\ runs' = [runs EXCEPT ![item[w]] = @ + 1]
    /\ UNCHANGED <<work_items, stop_requested, item, mainVars,
                   future, hasCallback, timeouts, callbacks>>

\* Mutant: a cancelled future takes the result.
SetResultLate(w) ==
    /\ pc[w] = "result"
    /\ future' = [future EXCEPT ![item[w]] = "result"]
    /\ callbacks' = [callbacks EXCEPT ![item[w]] =
                        IF ~Done(item[w]) /\ item[w] \in hasCallback THEN @ + 1 ELSE @]
    /\ pc' = [pc EXCEPT ![w] = "check"]
    /\ item' = [item EXCEPT ![w] = None]
    /\ UNCHANGED <<work_items, stop_requested, mainVars, runs, hasCallback, timeouts>>

\* set_result, whose InvalidStateError is logged
SetResult(w) ==
    /\ pc[w] = "result"
    /\ \/ ~Done(item[w]) /\ Settle(item[w], "result")
       \/ Done(item[w]) /\ UNCHANGED <<future, callbacks>>
    /\ pc' = [pc EXCEPT ![w] = "check"]
    /\ item' = [item EXCEPT ![w] = None]
    /\ UNCHANGED <<work_items, stop_requested, mainVars, runs, hasCallback, timeouts>>

\* set_exception, whose InvalidStateError leaves _thread_loop: the thread ends.
SetException(w) ==
    /\ pc[w] = "exception"
    /\ \/ /\ ~Done(item[w])
          /\ Settle(item[w], "exception")
          /\ pc' = [pc EXCEPT ![w] = "check"]
       \/ /\ Done(item[w])
          /\ pc' = [pc EXCEPT ![w] = "ended"]
          /\ UNCHANGED <<future, callbacks>>
    /\ item' = [item EXCEPT ![w] = None]
    /\ UNCHANGED <<work_items, stop_requested, mainVars, runs, hasCallback, timeouts>>

-----------------------------------------------------------------------------
(* The main thread.                                                        *)

\* notify(1) wakes a waiting worker, if there is one.
Notify ==
    \/ \E w \in Worker : pc[w] = "wait" /\ pc' = [pc EXCEPT ![w] = "woken"]
    \/ (\A w \in Worker : pc[w] # "wait") /\ UNCHANGED pc

\* send_threaded_request: thread_pool.submit
Submit(r) ==
    /\ main = "running"
    /\ future[r] = "unsent"
    /\ work_items' = Append(work_items, r)
    /\ Notify
    /\ future' = [future EXCEPT ![r] = "pending"]
    /\ main' = "submitted"
    /\ current' = r
    /\ UNCHANGED <<stop_requested, item, runs, hasCallback, timeouts, callbacks>>

\* Mutant: a callback attached to a done future waits for ever.
AddDoneCallbackTooLate ==
    /\ main = "submitted"
    /\ hasCallback' = hasCallback \cup {current}
    /\ main' = "attached"
    /\ UNCHANGED <<poolVars, current, future, runs, timeouts, callbacks>>

\* ... task.add_done_callback, if there is a done_callback: one attached to a
\* done future is invoked at once ...
AddDoneCallback ==
    /\ main = "submitted"
    /\ \/ /\ hasCallback' = hasCallback \cup {current}
          /\ callbacks' = [callbacks EXCEPT ![current] = IF Done(current) THEN @ + 1 ELSE @]
       \/ UNCHANGED <<hasCallback, callbacks>>
    /\ main' = "attached"
    /\ UNCHANGED <<poolVars, current, future, runs, timeouts>>

\* Mutant: the alarm is registered after the request is forgotten.
RegisterTimeoutForgotten ==
    /\ main = "attached"
    /\ current' = None
    /\ timeouts' = timeouts \cup {current'}
    /\ main' = "running"
    /\ UNCHANGED <<poolVars, future, runs, hasCallback, callbacks>>

\* ... and the alarm for the timeout.
RegisterTimeout ==
    /\ main = "attached"
    /\ timeouts' = timeouts \cup {current}
    /\ main' = "running"
    /\ current' = None
    /\ UNCHANGED <<poolVars, future, runs, hasCallback, callbacks>>

\* Mutant: a task some worker is running is left alone.
ThreadedPostAlarmIfStale(r) ==
    /\ main = "running"
    /\ r \in timeouts
    /\ timeouts' = timeouts \ {r}
    /\ \/ ~Done(r) /\ (\A w \in Worker : item[w] # r) /\ Settle(r, "cancelled")
       \/ (Done(r) \/ \E w \in Worker : item[w] = r) /\ UNCHANGED <<future, callbacks>>
    /\ UNCHANGED <<poolVars, mainVars, runs, hasCallback>>

\* _threaded_post_alarm.  No future is ever in the RUNNING state, so a task that
\* is not done is cancelled, whether a worker runs it or not.
ThreadedPostAlarm(r) ==
    /\ main = "running"
    /\ r \in timeouts
    /\ timeouts' = timeouts \ {r}
    /\ \/ ~Done(r) /\ Settle(r, "cancelled")
       \/ Done(r) /\ UNCHANGED <<future, callbacks>>
    /\ UNCHANGED <<poolVars, mainVars, runs, hasCallback>>

\* ThreadPool.stop: notify_all wakes every waiting worker.
Stop ==
    /\ main = "running"
    /\ stop_requested' = TRUE
    /\ pc' = [w \in Worker |-> IF pc[w] = "wait" THEN "woken" ELSE pc[w]]
    /\ main' = "joining"
    /\ UNCHANGED <<work_items, item, current, requestVars>>

\* ThreadPool.close: every thread is joined ...
Join ==
    /\ main = "joining"
    /\ \A w \in Worker : pc[w] = "ended"
    /\ main' = "draining"
    /\ UNCHANGED <<poolVars, current, requestVars>>

\* ... and the work items left are handled here, one after the other.
Drain ==
    /\ main = "draining"
    /\ work_items # <<>>
    /\ LET r == Head(work_items)
       IN  \/ future[r] = "cancelled" /\ UNCHANGED <<future, runs, callbacks>>
           \/ /\ future[r] # "cancelled"
              /\ runs' = [runs EXCEPT ![r] = @ + 1]
              /\ \E outcome \in {"result", "exception"} : Settle(r, outcome)
    /\ work_items' = Tail(work_items)
    /\ UNCHANGED <<stop_requested, pc, item, mainVars, hasCallback, timeouts>>

ClosePool ==
    /\ main = "draining"
    /\ work_items = <<>>
    /\ main' = "closed"
    /\ UNCHANGED <<poolVars, current, requestVars>>

-----------------------------------------------------------------------------
WorkerStep(w) ==
    Check(w) \/ Take(w) \/ Wake(w) \/ Handle(w) \/ SetResult(w) \/ SetException(w)

\* What the main thread does once it has begun: the rest of sending a request,
\* the alarms that are due, the rest of closing.
MainStep ==
    \/ AddDoneCallback \/ RegisterTimeout \/ Join \/ Drain \/ ClosePool
    \/ \E r \in Request : ThreadedPostAlarm(r)

RequestsNext ==
    \/ \E w \in Worker : WorkerStep(w) \/ Run(w)
    \/ MainStep
    \/ Stop
    \/ \E r \in Request : Submit(r)

\* Threads are scheduled and alarms fire; a request may take for ever.
RequestsSpec ==
    /\ RequestsInit /\ [][RequestsNext]_threads
    /\ WF_threads(MainStep) /\ \A w \in Worker : WF_threads(WorkerStep(w))

\* The same when requests end.
EndingSpec == RequestsSpec /\ \A w \in Worker : WF_threads(Run(w))

-----------------------------------------------------------------------------
(* Properties                                                              *)

\* The shapes of the pool's queue, of the threads' places and of the futures.
RequestsTypeOK ==
    /\ work_items \in Seq(Request)
    /\ stop_requested \in BOOLEAN
    /\ pc \in [Worker -> {"check", "lock", "wait", "woken", "handle", "run",
                          "result", "exception", "ended"}]
    /\ item \in [Worker -> Request \cup {None}]
    /\ main \in {"running", "submitted", "attached", "joining", "draining", "closed"}
    /\ current \in Request \cup {None}
    /\ future \in [Request -> {"unsent", "pending", "cancelled", "result", "exception"}]
    /\ runs \in [Request -> Nat]
    /\ hasCallback \subseteq Request
    /\ timeouts \subseteq Request
    /\ callbacks \in [Request -> Nat]

Places(r) == {i \in 1..Len(work_items) : work_items[i] = r}
Holders(r) == {w \in Worker : item[w] = r}

\* A request that has no outcome yet is in exactly one place, the queue or the
\* hands of one worker, whatever workers have died and however submits, wakeups
\* and cancellations interleave; and one that is in a place was sent.
NothingLost ==
    \A r \in Request :
        /\ future[r] = "pending" => Cardinality(Places(r)) + Cardinality(Holders(r)) = 1
        /\ future[r] = "unsent" => Places(r) = {} /\ Holders(r) = {}

\* No request is run twice, by two workers or by a worker and close.
RunAtMostOnce ==
    \A r \in Request : runs[r] <= 1

\* A done_callback is handed to the alarm queue exactly once, when its future
\* is done: by the worker, by the timeout, by close, or at once when it is
\* attached to a future that is done already.
CalledBackOnce ==
    \A r \in Request : callbacks[r] = IF r \in hasCallback /\ Done(r) THEN 1 ELSE 0

\* The outcome of a future never changes: a worker that comes back with the
\* result of a request the timeout has cancelled does not overwrite it.
OutcomeFinal ==
    [][\A r \in Request : Done(r) => future'[r] = future[r]]_threads

\* While the pool is open every request sent comes to an end, if only by its
\* timeout: also when the request hangs or no worker is left.
EveryRequestEnds ==
    \A r \in Request :
        future[r] = "pending" ~> Done(r) \/ main \in {"joining", "draining", "closed"}

\* close returns.
CloseReturns ==
    main = "joining" ~> main = "closed"
=============================================================================
