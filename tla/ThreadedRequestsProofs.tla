----------------------- MODULE ThreadedRequestsProofs -----------------------
(***************************************************************************)
(* Proofs about ThreadedRequests, for every set of workers and requests.   *)
(***************************************************************************)
EXTENDS ThreadedRequests, FiniteSetTheorems, TLAPS

USE ZenonT(40)

Queued == 1..Len(work_items)

\* A worker has a request in its hands from the pop to the call on the future.
Busy == {"handle", "run", "result", "exception"}

\* A request is once in the queue, or in the hands of one worker, never both.
OnePlace ==
    /\ \A i, j \in Queued : work_items[i] = work_items[j] => i = j
    /\ \A v, w \in Worker : item[v] = item[w] /\ item[v] # None => v = w
    /\ \A i \in Queued, w \in Worker : work_items[i] # item[w]

HandsFull ==
    \A w \in Worker : item[w] # None <=> pc[w] \in Busy

\* What has no outcome is somewhere ...
Tracked ==
    \A r \in Request : future[r] = "pending" =>
        \/ \E i \in Queued : work_items[i] = r
        \/ \E w \in Worker : item[w] = r

\* ... and what is somewhere was sent, has no outcome but a cancellation, and
\* has not been run before its turn.
Unhandled ==
    /\ \A i \in Queued : /\ future[work_items[i]] \in {"pending", "cancelled"}
                         /\ runs[work_items[i]] = 0
    /\ \A w \in Worker : item[w] # None =>
           /\ future[item[w]] \in {"pending", "cancelled"}
           /\ pc[w] \in {"handle", "run"} => runs[item[w]] = 0

\* Nothing has happened to a request that was not sent, and the callback of the
\* request being sent is attached once.
Sending ==
    /\ \A r \in Request : future[r] = "unsent" => runs[r] = 0 /\ r \notin hasCallback
    /\ main \in {"submitted", "attached"} => current # None /\ future[current] # "unsent"
    /\ main = "submitted" => current \notin hasCallback

IInv ==
    RequestsTypeOK /\ OnePlace /\ HandsFull /\ Tracked /\ Unhandled /\ Sending
    /\ RunAtMostOnce /\ CalledBackOnce

-----------------------------------------------------------------------------
\* What popleft takes and leaves.
LEMMA PopFacts ==
    ASSUME NEW S, NEW s \in Seq(S), s # <<>>
    PROVE  /\ Head(s) \in S /\ Head(s) = s[1] /\ 1 \in 1..Len(s)
           /\ Tail(s) \in Seq(S) /\ Len(Tail(s)) = Len(s) - 1
           /\ \A i \in 1..Len(Tail(s)) : i + 1 \in 1..Len(s) /\ Tail(s)[i] = s[i + 1]
           /\ \A i \in 1..Len(s) : i # 1 => i - 1 \in 1..Len(Tail(s)) /\ Tail(s)[i - 1] = s[i]
BY SMTT(60)

\* What append adds.
LEMMA AppendFacts ==
    ASSUME NEW S, NEW s \in Seq(S), NEW x \in S
    PROVE  /\ Append(s, x) \in Seq(S) /\ Len(Append(s, x)) = Len(s) + 1
           /\ \A i \in 1..Len(s) : i \in 1..Len(Append(s, x)) /\ Append(s, x)[i] = s[i]
           /\ Append(s, x)[Len(s) + 1] = x /\ Len(s) + 1 \in 1..Len(Append(s, x))
           /\ \A i \in 1..Len(Append(s, x)) : i \in 1..Len(s) \/ i = Len(s) + 1
BY SMTT(60)

\* A worker that takes the head of the queue keeps the invariant.
LEMMA PopStep ==
    ASSUME IInv, NEW w \in Worker, pc[w] \in {"lock", "woken"}, work_items # <<>>, Pop(w),
           UNCHANGED <<stop_requested, mainVars, requestVars>>
    PROVE  IInv'
<1> USE NoneAssumption
<1> DEFINE q == work_items
<1>1. /\ Head(q) \in Request /\ Head(q) = q[1] /\ 1 \in 1..Len(q)
      /\ Tail(q) \in Seq(Request) /\ Len(Tail(q)) = Len(q) - 1
      /\ \A i \in 1..Len(Tail(q)) : i + 1 \in 1..Len(q) /\ Tail(q)[i] = q[i + 1]
      /\ \A i \in 1..Len(q) : i # 1 => i - 1 \in 1..Len(Tail(q)) /\ Tail(q)[i - 1] = q[i]
    BY PopFacts DEF IInv, RequestsTypeOK
<1>2. /\ work_items' = Tail(q)
      /\ item' = [item EXCEPT ![w] = q[1]]
      /\ pc' = [pc EXCEPT ![w] = "handle"]
    BY <1>1 DEF Pop
<1>3. RequestsTypeOK'
    BY <1>1, <1>2 DEF IInv, RequestsTypeOK, mainVars, requestVars
<1>4. OnePlace'
    BY SMTT(60), <1>1, <1>2 DEF IInv, RequestsTypeOK, OnePlace, Queued
<1>5. HandsFull'
    BY SMTT(60), <1>1, <1>2 DEF IInv, RequestsTypeOK, HandsFull, Busy
<1>6. Tracked'
  <2> SUFFICES ASSUME NEW r \in Request, future'[r] = "pending"
               PROVE  (\E i \in Queued' : work_items'[i] = r) \/ (\E v \in Worker : item'[v] = r)
      BY DEF Tracked
  <2>1. CASE \E v \in Worker : item[v] = r
      BY <2>1, <1>2 DEF IInv, RequestsTypeOK, HandsFull, Busy
  <2>2. CASE \E i \in Queued : work_items[i] = r
    <3>1. PICK i \in Queued : work_items[i] = r
        BY <2>2
    <3>2. CASE i = 1
        BY <3>1, <3>2, <1>2 DEF IInv, RequestsTypeOK
    <3>3. CASE i # 1
        BY <3>1, <3>3, <1>1, <1>2 DEF Queued
    <3> QED
        BY <3>2, <3>3
  <2> QED
      BY <2>1, <2>2 DEF IInv, Tracked, requestVars
<1>7. Unhandled'
    BY SMTT(60), <1>1, <1>2 DEF IInv, RequestsTypeOK, Unhandled, Queued, requestVars
<1>8. Sending' /\ RunAtMostOnce' /\ CalledBackOnce'
    BY DEF IInv, Sending, RunAtMostOnce, CalledBackOnce, Done, mainVars, requestVars
<1> QED
    BY <1>3, <1>4, <1>5, <1>6, <1>7, <1>8 DEF IInv

\* A worker that has settled the future of its request, or found it done, lets
\* go of it.
LEMMA LetGoStep ==
    ASSUME IInv, NEW w \in Worker, item[w] # None, NEW s \in {"result", "exception"},
           \/ ~Done(item[w]) /\ Settle(item[w], s)
           \/ Done(item[w]) /\ UNCHANGED <<future, callbacks>>,
           NEW next \in {"check", "ended"}, pc' = [pc EXCEPT ![w] = next],
           item' = [item EXCEPT ![w] = None],
           UNCHANGED <<work_items, stop_requested, mainVars, runs, hasCallback, timeouts>>
    PROVE  IInv'
<1> USE NoneAssumption
<1>0. item[w] \in Request
    BY DEF IInv, RequestsTypeOK
<1>1. /\ future' \in [Request -> {"unsent", "pending", "cancelled", "result", "exception"}]
      /\ callbacks' \in [Request -> Nat]
      /\ \A r \in Request : r # item[w] => future'[r] = future[r] /\ callbacks'[r] = callbacks[r]
      /\ future'[item[w]] \in {"cancelled", "result", "exception"}
  <2>1. CASE ~Done(item[w]) /\ Settle(item[w], s)
      BY SMTT(60), <2>1, <1>0 DEF IInv, RequestsTypeOK, Settle
  <2>2. CASE Done(item[w]) /\ UNCHANGED <<future, callbacks>>
      BY <2>2, <1>0 DEF IInv, RequestsTypeOK, Done
  <2> QED
      BY <2>1, <2>2
<1>2. CalledBackOnce'
  <2>1. CASE ~Done(item[w]) /\ Settle(item[w], s)
      BY SMTT(60), <2>1, <1>0, <1>1 DEF IInv, RequestsTypeOK, CalledBackOnce, Done, Settle
  <2>2. CASE Done(item[w]) /\ UNCHANGED <<future, callbacks>>
      BY <2>2 DEF IInv, CalledBackOnce, Done
  <2> QED
      BY <2>1, <2>2
<1>3. RequestsTypeOK'
    BY <1>1 DEF IInv, RequestsTypeOK, mainVars
<1>4. OnePlace' /\ HandsFull'
    BY SMTT(60) DEF IInv, RequestsTypeOK, OnePlace, HandsFull, Queued, Busy
<1>5. Tracked'
    BY <1>0, <1>1 DEF IInv, RequestsTypeOK, Tracked, Queued
<1>6. Unhandled'
  <2>1. ASSUME NEW i \in Queued'
        PROVE  future'[work_items'[i]] \in {"pending", "cancelled"} /\ runs'[work_items'[i]] = 0
    <3>1. i \in Queued /\ work_items' = work_items /\ runs' = runs
        BY <2>1 DEF Queued
    <3>2. work_items[i] \in Request /\ work_items[i] # item[w]
        BY SMTT(60), <3>1 DEF IInv, RequestsTypeOK, OnePlace, Queued
    <3> QED
        BY SMTT(60), <3>1, <3>2, <1>1 DEF IInv, Unhandled
  <2>2. ASSUME NEW v \in Worker, item'[v] # None
        PROVE  /\ future'[item'[v]] \in {"pending", "cancelled"}
               /\ pc'[v] \in {"handle", "run"} => runs'[item'[v]] = 0
    <3>1. v # w /\ item'[v] = item[v] /\ item[v] # item[w] /\ pc'[v] = pc[v] /\ item[v] \in Request
        BY SMTT(60), <2>2 DEF IInv, RequestsTypeOK, OnePlace
    <3> QED
        BY SMTT(60), <3>1, <2>2, <1>1 DEF IInv, Unhandled
  <2> QED
      BY <2>1, <2>2 DEF Unhandled
<1>7. Sending'
    BY <1>0, <1>1 DEF IInv, RequestsTypeOK, Sending, Unhandled, mainVars
<1>8. RunAtMostOnce'
    BY DEF IInv, RunAtMostOnce
<1> QED
    BY <1>2, <1>3, <1>4, <1>5, <1>6, <1>7, <1>8 DEF IInv

\* A step that moves threads without taking, running or settling anything.
LEMMA MoveStep ==
    ASSUME IInv, UNCHANGED <<work_items, item, future, runs, hasCallback, callbacks>>,
           pc' \in [Worker -> {"check", "lock", "wait", "woken", "handle", "run",
                              "result", "exception", "ended"}],
           \A w \in Worker : /\ pc'[w] \in Busy <=> pc[w] \in Busy
                             /\ pc'[w] \in {"handle", "run"} => pc[w] \in {"handle", "run"},
           stop_requested' \in BOOLEAN, timeouts' \subseteq Request,
           \/ UNCHANGED mainVars
           \/ main' \in {"running", "joining", "draining", "closed"} /\ current' \in {current, None}
    PROVE  IInv'
<1>1. RequestsTypeOK'
    BY DEF IInv, RequestsTypeOK, mainVars
<1>2. OnePlace' /\ Tracked' /\ RunAtMostOnce' /\ CalledBackOnce'
    BY SMTT(60) DEF IInv, OnePlace, Tracked, RunAtMostOnce, CalledBackOnce, Done, Queued
<1>3. HandsFull' /\ Unhandled'
    BY DEF IInv, HandsFull, Unhandled, Queued, Busy
<1>4. Sending'
    BY DEF IInv, Sending, mainVars
<1> QED
    BY <1>1, <1>2, <1>3, <1>4 DEF IInv

\* The other steps of a worker keep the invariant.
LEMMA WorkerStepKeeps ==
    ASSUME IInv, NEW w \in Worker, WorkerStep(w) \/ Run(w)
    PROVE  IInv'
<1> USE NoneAssumption
<1>1. CASE Check(w)
    BY <1>1, MoveStep DEF Check, IInv, RequestsTypeOK, Busy, mainVars, requestVars
<1>2. CASE Take(w)
  <2>1. CASE work_items # <<>> /\ Pop(w)
      BY <2>1, <1>2, PopStep DEF Take
  <2>2. CASE work_items = <<>> /\ pc' = [pc EXCEPT ![w] = "wait"] /\ UNCHANGED <<work_items, item>>
      BY <1>2, <2>2, MoveStep DEF Take, IInv, RequestsTypeOK, Busy, mainVars, requestVars
  <2> QED
      BY <1>2, <2>1, <2>2 DEF Take
<1>3. CASE Wake(w)
  <2>1. CASE work_items # <<>> /\ Pop(w)
      BY <2>1, <1>3, PopStep DEF Wake
  <2>2. CASE work_items = <<>> /\ pc' = [pc EXCEPT ![w] = "check"] /\ UNCHANGED <<work_items, item>>
      BY <1>3, <2>2, MoveStep DEF Wake, IInv, RequestsTypeOK, Busy, mainVars, requestVars
  <2> QED
      BY <1>3, <2>1, <2>2 DEF Wake
<1>4. CASE Handle(w)
  <2>1. CASE future[item[w]] = "cancelled"
    <3>1. Done(item[w]) /\ UNCHANGED <<future, callbacks>> /\ item[w] # None
        BY <1>4, <2>1 DEF Handle, Done, requestVars, IInv, HandsFull, Busy
    <3>2. /\ pc' = [pc EXCEPT ![w] = "check"]
          /\ item' = [item EXCEPT ![w] = None]
          /\ UNCHANGED <<work_items, stop_requested, mainVars, runs, hasCallback, timeouts>>
        BY <1>4, <2>1 DEF Handle, requestVars
    <3> QED
        BY <3>1, <3>2, LetGoStep
  <2>2. CASE future[item[w]] # "cancelled"
      BY <1>4, <2>2, MoveStep DEF Handle, IInv, RequestsTypeOK, Busy, mainVars, requestVars
  <2> QED
      BY <2>1, <2>2
<1>5. CASE SetResult(w)
  <2>1. item[w] # None
      BY <1>5 DEF SetResult, IInv, HandsFull, Busy
  <2> QED
      BY <1>5, <2>1, LetGoStep DEF SetResult
<1>6. CASE SetException(w)
  <2>1. item[w] # None
      BY <1>6 DEF SetException, IInv, HandsFull, Busy
  <2> QED
      BY <1>6, <2>1, LetGoStep DEF SetException
<1>7. CASE Run(w)
  <2>0. item[w] \in Request /\ runs[item[w]] = 0 /\ future[item[w]] \in {"pending", "cancelled"}
      BY <1>7 DEF Run, IInv, RequestsTypeOK, HandsFull, Unhandled, Busy
  <2>1. RequestsTypeOK' /\ HandsFull'
      BY SMTT(60), <1>7, <2>0 DEF Run, IInv, RequestsTypeOK, HandsFull, Busy, mainVars
  <2>2. OnePlace' /\ Tracked' /\ CalledBackOnce'
      BY SMTT(60), <1>7 DEF Run, IInv, OnePlace, Tracked, CalledBackOnce, Done, Queued
  <2>3. Unhandled'
    <3>1. \A i \in Queued' : /\ future'[work_items'[i]] \in {"pending", "cancelled"}
                             /\ runs'[work_items'[i]] = 0
        BY SMTT(60), <1>7, <2>0 DEF Run, IInv, RequestsTypeOK, OnePlace, Unhandled, Queued
    <3>2. ASSUME NEW v \in Worker, item'[v] # None
          PROVE  /\ future'[item'[v]] \in {"pending", "cancelled"}
                 /\ pc'[v] \in {"handle", "run"} => runs'[item'[v]] = 0
        BY SMTT(60), <1>7, <2>0, <3>2 DEF Run, IInv, RequestsTypeOK, OnePlace, Unhandled
    <3> QED
        BY <3>1, <3>2 DEF Unhandled
  <2>4. Sending' /\ RunAtMostOnce'
      BY SMTT(60), <1>7, <2>0 DEF Run, IInv, RequestsTypeOK, Sending, RunAtMostOnce, mainVars
  <2> QED
      BY <2>1, <2>2, <2>3, <2>4 DEF IInv
<1> QED
    BY <1>1, <1>2, <1>3, <1>4, <1>5, <1>6, <1>7 DEF WorkerStep

\* send_threaded_request puts a new request at the end of the queue.
LEMMA SubmitKeeps ==
    ASSUME IInv, NEW r \in Request, Submit(r)
    PROVE  IInv'
<1> USE NoneAssumption
<1> DEFINE q == work_items
           n == Len(work_items) + 1
<1>1. /\ q' \in Seq(Request)
      /\ \A i \in Queued : i \in Queued' /\ q'[i] = q[i] /\ i # n
      /\ q'[n] = r /\ n \in Queued'
      /\ \A i \in Queued' : i \in Queued \/ i = n
    BY SMTT(60), AppendFacts DEF Submit, IInv, RequestsTypeOK, Queued
<1>2. /\ \A i \in Queued : q[i] # r
      /\ \A w \in Worker : item[w] # r
    BY DEF Submit, IInv, RequestsTypeOK, Unhandled
<1>3. /\ pc' \in [Worker -> {"check", "lock", "wait", "woken", "handle", "run",
                             "result", "exception", "ended"}]
      /\ \A w \in Worker : /\ pc'[w] \in Busy <=> pc[w] \in Busy
                           /\ pc'[w] \in {"handle", "run"} => pc[w] \in {"handle", "run"}
  <2>0. pc \in [Worker -> {"check", "lock", "wait", "woken", "handle", "run",
                           "result", "exception", "ended"}]
      BY DEF IInv, RequestsTypeOK
  <2>1. CASE UNCHANGED pc
      BY <2>0, <2>1
  <2>2. CASE \E w \in Worker : pc[w] = "wait" /\ pc' = [pc EXCEPT ![w] = "woken"]
      BY <2>0, <2>2 DEF Busy
  <2> QED
      BY <2>1, <2>2 DEF Submit, Notify
<1>4. /\ future' = [future EXCEPT ![r] = "pending"] /\ future[r] = "unsent"
      /\ runs[r] = 0 /\ r \notin hasCallback
      /\ main' = "submitted" /\ current' = r
      /\ UNCHANGED <<stop_requested, item, runs, hasCallback, timeouts, callbacks>>
    BY DEF Submit, IInv, Sending
<1>12. /\ future'[r] = "pending"
      /\ \A x \in Request : x # r => future'[x] = future[x]
      /\ \A i \in Queued : q[i] \in Request
      /\ \A w \in Worker : item[w] # None => item[w] \in Request
    BY SMTT(60), <1>4 DEF IInv, RequestsTypeOK, Queued
<1>5. RequestsTypeOK'
    BY <1>1, <1>3, <1>4 DEF IInv, RequestsTypeOK
<1>6. OnePlace'
    BY SMTT(60), <1>1, <1>2, <1>4 DEF IInv, OnePlace
<1>7. HandsFull'
  <2>1. \A w \in Worker : (pc'[w] \in Busy <=> pc[w] \in Busy) /\ item'[w] = item[w]
      BY <1>3, <1>4
  <2> QED
      BY <2>1 DEF IInv, HandsFull, Busy
<1>8. Tracked'
  <2> SUFFICES ASSUME NEW x \in Request, future'[x] = "pending"
               PROVE  (\E i \in Queued' : q'[i] = x) \/ (\E w \in Worker : item'[w] = x)
      BY DEF Tracked
  <2>1. CASE x = r
      BY <2>1, <1>1
  <2>2. CASE x # r
      BY SMTT(60), <2>2, <1>1, <1>4, <1>12 DEF IInv, Tracked
  <2> QED
      BY <2>1, <2>2
<1>9. Unhandled'
  <2>1. ASSUME NEW i \in Queued'
        PROVE  future'[q'[i]] \in {"pending", "cancelled"} /\ runs'[q'[i]] = 0
    <3>1. CASE i = n
        BY <3>1, <1>1, <1>4, <1>12
    <3>2. CASE i \in Queued
        BY SMTT(60), <3>2, <1>1, <1>2, <1>4, <1>12 DEF IInv, Unhandled
    <3> QED
        BY <3>1, <3>2, <1>1
  <2>2. ASSUME NEW w \in Worker, item'[w] # None
        PROVE  /\ future'[item'[w]] \in {"pending", "cancelled"}
               /\ pc'[w] \in {"handle", "run"} => runs'[item'[w]] = 0
      BY SMTT(60), <2>2, <1>2, <1>3, <1>4, <1>12 DEF IInv, Unhandled
  <2> QED
      BY <2>1, <2>2 DEF Unhandled
<1>10. Sending' /\ RunAtMostOnce'
    BY <1>4 DEF IInv, RequestsTypeOK, Sending, RunAtMostOnce
<1>11. CalledBackOnce'
    BY <1>4 DEF IInv, RequestsTypeOK, CalledBackOnce, Done
<1> QED
    BY <1>5, <1>6, <1>7, <1>8, <1>9, <1>10, <1>11 DEF IInv

\* The timeout cancels what is not done.
LEMMA ThreadedPostAlarmKeeps ==
    ASSUME IInv, NEW r \in Request, ThreadedPostAlarm(r)
    PROVE  IInv'
<1>1. UNCHANGED <<poolVars, mainVars, runs, hasCallback>> /\ timeouts' \subseteq Request
    BY DEF ThreadedPostAlarm, IInv, RequestsTypeOK
<1>2. CASE Done(r) /\ UNCHANGED <<future, callbacks>>
    BY <1>1, <1>2, MoveStep DEF IInv, RequestsTypeOK, poolVars
<1>3. CASE ~Done(r) /\ Settle(r, "cancelled")
  <2>1. /\ future' = [future EXCEPT ![r] = "cancelled"]
        /\ callbacks' \in [Request -> Nat]
      BY SMTT(60), <1>3 DEF Settle, IInv, RequestsTypeOK
  <2>2. RequestsTypeOK'
      BY <1>1, <2>1 DEF IInv, RequestsTypeOK, poolVars, mainVars
  <2>3. OnePlace' /\ HandsFull' /\ RunAtMostOnce'
      BY SMTT(60), <1>1 DEF IInv, OnePlace, HandsFull, RunAtMostOnce, Queued, Busy, poolVars
  <2>4. Tracked'
      BY <1>1, <2>1 DEF IInv, RequestsTypeOK, Tracked, Queued, poolVars
  <2>5. Unhandled'
    <3>1. \A x \in Request : future'[x] \in {future[x], "cancelled"}
        BY <2>1 DEF IInv, RequestsTypeOK
    <3>2. /\ \A i \in Queued : work_items[i] \in Request
          /\ \A w \in Worker : item[w] # None => item[w] \in Request
        BY SMTT(60) DEF IInv, RequestsTypeOK, Queued
    <3>3. Queued' = Queued /\ UNCHANGED <<work_items, item, pc, runs>>
        BY <1>1 DEF Queued, poolVars
    <3> QED
        BY <3>1, <3>2, <3>3 DEF IInv, Unhandled
  <2>6. Sending'
      BY <1>1, <2>1 DEF IInv, RequestsTypeOK, Sending, mainVars
  <2>7. CalledBackOnce'
      BY SMTT(60), <1>1, <1>3 DEF IInv, RequestsTypeOK, CalledBackOnce, Done, Settle
  <2> QED
      BY <2>2, <2>3, <2>4, <2>5, <2>6, <2>7 DEF IInv
<1> QED
    BY <1>2, <1>3 DEF ThreadedPostAlarm

\* A callback is attached before or after its future is done, and counted once.
LEMMA AddDoneCallbackKeeps ==
    IInv /\ AddDoneCallback => IInv'
<1> SUFFICES ASSUME IInv, AddDoneCallback PROVE IInv'
    OBVIOUS
<1> USE NoneAssumption
<1>1. /\ current \in Request /\ future[current] # "unsent" /\ current \notin hasCallback
      /\ main' = "attached"
      /\ UNCHANGED <<poolVars, current, future, runs, timeouts>>
    BY DEF AddDoneCallback, IInv, RequestsTypeOK, Sending
<1>2. RequestsTypeOK'
    BY SMTT(60), <1>1 DEF AddDoneCallback, IInv, RequestsTypeOK, poolVars
<1>3. OnePlace' /\ HandsFull' /\ Tracked' /\ Unhandled' /\ RunAtMostOnce'
    BY SMTT(60), <1>1 DEF IInv, OnePlace, HandsFull, Tracked, Unhandled, RunAtMostOnce, Queued, Busy, poolVars
<1>4. Sending'
    BY <1>1 DEF AddDoneCallback, IInv, Sending
<1>5. CalledBackOnce'
    BY SMTT(60), <1>1 DEF AddDoneCallback, IInv, RequestsTypeOK, CalledBackOnce, Done
<1> QED
    BY <1>2, <1>3, <1>4, <1>5 DEF IInv

\* close handles the head of the queue when no worker is left.
LEMMA DrainKeeps ==
    IInv /\ Drain => IInv'
<1> SUFFICES ASSUME IInv, Drain PROVE IInv'
    OBVIOUS
<1> USE NoneAssumption
<1> DEFINE q == work_items
           r == Head(work_items)
<1>1. /\ r \in Request /\ r = q[1] /\ 1 \in 1..Len(q)
      /\ Tail(q) \in Seq(Request) /\ Len(Tail(q)) = Len(q) - 1
      /\ \A i \in 1..Len(Tail(q)) : i + 1 \in 1..Len(q) /\ Tail(q)[i] = q[i + 1]
      /\ \A i \in 1..Len(q) : i # 1 => i - 1 \in 1..Len(Tail(q)) /\ Tail(q)[i - 1] = q[i]
    BY PopFacts DEF Drain, IInv, RequestsTypeOK
<1>2. /\ q' = Tail(q)
      /\ UNCHANGED <<stop_requested, pc, item, mainVars, hasCallback, timeouts>>
    BY DEF Drain
<1>3. /\ runs[r] = 0 /\ future[r] \in {"pending", "cancelled"}
      /\ \A i \in Queued' : q'[i] \in Request /\ q'[i] # r /\ i + 1 \in Queued /\ q'[i] = q[i + 1]
      /\ \A w \in Worker : item[w] # r /\ (item[w] # None => item[w] \in Request)
  <2>1. runs[r] = 0 /\ future[r] \in {"pending", "cancelled"}
      BY SMTT(60), <1>1 DEF IInv, Unhandled, Queued
  <2>2. ASSUME NEW i \in Queued'
        PROVE  q'[i] \in Request /\ q'[i] # r /\ i + 1 \in Queued /\ q'[i] = q[i + 1]
    <3>1. i \in Nat /\ i + 1 # 1 /\ i + 1 \in Queued /\ q'[i] = q[i + 1]
        BY SMTT(60), <2>2, <1>1, <1>2 DEF Queued
    <3>2. q[i + 1] # q[1] /\ q[i + 1] \in Request
        BY SMTT(60), <3>1, <1>1 DEF IInv, RequestsTypeOK, OnePlace, Queued
    <3> QED
        BY <3>1, <3>2, <1>1
  <2>3. ASSUME NEW w \in Worker
        PROVE  item[w] # r /\ (item[w] # None => item[w] \in Request)
    <3>1. q[1] # item[w]
        BY <1>1 DEF IInv, OnePlace, Queued
    <3>2. item[w] # None => item[w] \in Request
        BY DEF IInv, RequestsTypeOK
    <3> QED
        BY <3>1, <3>2, <1>1
  <2> QED
      BY <2>1, <2>2, <2>3
<1>4. \/ /\ future[r] = "cancelled"
         /\ UNCHANGED <<future, runs, callbacks>>
      \/ \E outcome \in {"result", "exception"} :
            /\ future[r] = "pending"
            /\ future' = [future EXCEPT ![r] = outcome]
            /\ runs' = [runs EXCEPT ![r] = @ + 1]
            /\ callbacks' = [callbacks EXCEPT ![r] = IF r \in hasCallback THEN @ + 1 ELSE @]
    BY <1>3 DEF Drain, Settle
<1>5. /\ future' \in [Request -> {"unsent", "pending", "cancelled", "result", "exception"}]
      /\ runs' \in [Request -> Nat] /\ callbacks' \in [Request -> Nat]
      /\ \A x \in Request : x # r => future'[x] = future[x] /\ runs'[x] = runs[x]
      /\ future'[r] \in {"cancelled", "result", "exception"} /\ runs'[r] <= 1
  <2>1. CASE future[r] = "cancelled" /\ UNCHANGED <<future, runs, callbacks>>
      BY SMTT(60), <2>1, <1>3 DEF IInv, RequestsTypeOK
  <2>2. ASSUME NEW outcome \in {"result", "exception"},
               future' = [future EXCEPT ![r] = outcome],
               runs' = [runs EXCEPT ![r] = @ + 1],
               callbacks' = [callbacks EXCEPT ![r] = IF r \in hasCallback THEN @ + 1 ELSE @]
        PROVE  /\ future' \in [Request -> {"unsent", "pending", "cancelled", "result", "exception"}]
               /\ runs' \in [Request -> Nat] /\ callbacks' \in [Request -> Nat]
               /\ \A x \in Request : x # r => future'[x] = future[x] /\ runs'[x] = runs[x]
               /\ future'[r] \in {"cancelled", "result", "exception"} /\ runs'[r] <= 1
      BY SMTT(60), <2>2, <1>1, <1>3 DEF IInv, RequestsTypeOK
  <2> QED
      BY <2>1, <2>2, <1>4
<1>6. RequestsTypeOK'
    BY <1>1, <1>2, <1>5 DEF IInv, RequestsTypeOK, mainVars
<1>7. OnePlace' /\ HandsFull'
    BY SMTT(60), <1>1, <1>2 DEF IInv, RequestsTypeOK, OnePlace, HandsFull, Queued, Busy
<1>8. Tracked'
  <2> SUFFICES ASSUME NEW x \in Request, future'[x] = "pending"
               PROVE  (\E i \in Queued' : q'[i] = x) \/ (\E w \in Worker : item'[w] = x)
      BY DEF Tracked
  <2>1. x # r /\ future[x] = "pending"
      BY <1>5
  <2>2. CASE \E i \in Queued : q[i] = x
      BY <2>1, <2>2, <1>1, <1>2 DEF Queued
  <2>3. CASE \E w \in Worker : item[w] = x
      BY <2>3, <1>2
  <2> QED
      BY <2>1, <2>2, <2>3 DEF IInv, Tracked
<1>9. Unhandled'
  <2>1. ASSUME NEW i \in Queued'
        PROVE  future'[q'[i]] \in {"pending", "cancelled"} /\ runs'[q'[i]] = 0
      BY SMTT(60), <1>3, <1>5 DEF IInv, Unhandled
  <2>2. ASSUME NEW w \in Worker, item'[w] # None
        PROVE  /\ future'[item'[w]] \in {"pending", "cancelled"}
               /\ pc'[w] \in {"handle", "run"} => runs'[item'[w]] = 0
      BY <2>2, <1>2, <1>3, <1>5 DEF IInv, Unhandled
  <2> QED
      BY <2>1, <2>2 DEF Unhandled
<1>10. Sending'
    BY <1>1, <1>2, <1>5 DEF IInv, RequestsTypeOK, Sending, mainVars
<1>11. RunAtMostOnce'
    BY <1>5 DEF IInv, RunAtMostOnce
<1>12. CalledBackOnce'
    BY SMTT(60), <1>1, <1>2, <1>4 DEF IInv, RequestsTypeOK, CalledBackOnce, Done
<1> QED
    BY <1>6, <1>7, <1>8, <1>9, <1>10, <1>11, <1>12 DEF IInv

\* Every step of the main thread, the loop and the workers keeps the invariant.
LEMMA NextKeeps ==
    IInv /\ [RequestsNext]_threads => IInv'
<1> SUFFICES ASSUME IInv, [RequestsNext]_threads PROVE IInv'
    OBVIOUS
<1>0. pc \in [Worker -> {"check", "lock", "wait", "woken", "handle", "run",
                         "result", "exception", "ended"}]
    BY DEF IInv, RequestsTypeOK
<1>1. CASE \E w \in Worker : WorkerStep(w) \/ Run(w)
    BY <1>1, WorkerStepKeeps
<1>2. CASE AddDoneCallback
    BY SMTT(60), <1>2, AddDoneCallbackKeeps
<1>3. CASE RegisterTimeout
  <2>1. timeouts' \subseteq Request
      BY <1>3, NoneAssumption DEF RegisterTimeout, IInv, RequestsTypeOK, Sending
  <2> QED
      BY <1>0, <1>3, <2>1, MoveStep DEF RegisterTimeout, poolVars, IInv, RequestsTypeOK
<1>4. CASE Join
    BY <1>0, <1>4, MoveStep DEF Join, poolVars, requestVars, IInv, RequestsTypeOK
<1>5. CASE Drain
    BY <1>5, DrainKeeps
<1>6. CASE ClosePool
    BY <1>0, <1>6, MoveStep DEF ClosePool, poolVars, requestVars, IInv, RequestsTypeOK
<1>7. CASE \E r \in Request : ThreadedPostAlarm(r)
    BY SMTT(60), <1>7, ThreadedPostAlarmKeeps
<1>8. CASE Stop
  <2>1. /\ pc' \in [Worker -> {"check", "lock", "wait", "woken", "handle", "run",
                               "result", "exception", "ended"}]
        /\ \A w \in Worker : /\ pc'[w] \in Busy <=> pc[w] \in Busy
                             /\ pc'[w] \in {"handle", "run"} => pc[w] \in {"handle", "run"}
      BY SMTT(60), <1>0, <1>8 DEF Stop, Busy
  <2> QED
      BY <1>8, <2>1, MoveStep DEF Stop, requestVars, IInv, RequestsTypeOK
<1>9. CASE \E r \in Request : Submit(r)
    BY <1>9, SubmitKeeps
<1>10. CASE UNCHANGED threads
    BY SMTT(60), <1>0, <1>10, MoveStep DEF threads, poolVars, mainVars, requestVars, IInv, RequestsTypeOK
<1> QED
    BY SMTT(60), <1>1, <1>2, <1>3, <1>4, <1>5, <1>6, <1>7, <1>8, <1>9, <1>10 DEF RequestsNext, MainStep

\* A service that has just started.
LEMMA InitHolds ==
    RequestsInit => IInv
<1> SUFFICES ASSUME RequestsInit PROVE IInv
    OBVIOUS
<1>1. RequestsTypeOK
  <2>1. work_items \in Seq(Request)
      BY SMTT(60) DEF RequestsInit
  <2>2. item \in [Worker -> Request \cup {None}] /\ current \in Request \cup {None}
      BY DEF RequestsInit
  <2>3. future \in [Request -> {"unsent", "pending", "cancelled", "result", "exception"}]
      BY DEF RequestsInit
  <2> QED
      BY <2>1, <2>2, <2>3 DEF RequestsInit, RequestsTypeOK
<1>2. OnePlace /\ HandsFull /\ Unhandled
    BY SMTT(60) DEF RequestsInit, OnePlace, HandsFull, Unhandled, Queued, Busy
<1>3. Tracked /\ Sending /\ RunAtMostOnce /\ CalledBackOnce
    BY SMTT(60) DEF RequestsInit, Tracked, Sending, RunAtMostOnce, CalledBackOnce, Done
<1> QED
    BY <1>1, <1>2, <1>3 DEF IInv

\* The inductive invariant holds always.
THEOREM Invariant ==
    RequestsSpec => []IInv
BY InitHolds, NextKeeps, PTL DEF RequestsSpec

\* Every variable of the service has its type.
THEOREM TypeCorrect ==
    RequestsSpec => []RequestsTypeOK
<1>1. IInv => RequestsTypeOK
    BY DEF IInv
<1> QED
    BY <1>1, Invariant, PTL

-----------------------------------------------------------------------------
\* No request is run twice, whatever workers die, wake late or are overtaken by
\* the timeout or by close.
THEOREM RunsOnce ==
    RequestsSpec => []RunAtMostOnce
<1>1. IInv => RunAtMostOnce
    BY DEF IInv
<1> QED
    BY <1>1, Invariant, PTL

\* A done_callback is handed to the alarm queue once, when its future is done.
THEOREM CallsBackOnce ==
    RequestsSpec => []CalledBackOnce
<1>1. IInv => CalledBackOnce
    BY DEF IInv
<1> QED
    BY <1>1, Invariant, PTL

\* A request without an outcome is in the queue or in the hands of one worker.
THEOREM NothingIsLost ==
    RequestsSpec => []NothingLost
<1>1. ASSUME IInv PROVE NothingLost
  <2> USE NoneAssumption
  <2>1. ASSUME NEW r \in Request, future[r] = "pending"
        PROVE  Cardinality(Places(r)) + Cardinality(Holders(r)) = 1
    <3>1. CASE \E i \in Queued : work_items[i] = r
      <4>1. PICK i \in Queued : work_items[i] = r
          BY <3>1
      <4>2. Places(r) = {i} /\ Holders(r) = {}
          BY SMTT(60), <1>1, <4>1 DEF IInv, OnePlace, Places, Holders, Queued
      <4>3. Cardinality(Places(r)) = 1 /\ Cardinality(Holders(r)) = 0
          BY <4>2, FS_Singleton, FS_EmptySet
      <4> QED
          BY SMTT(60), <4>3
    <3>2. CASE \E w \in Worker : item[w] = r
      <4>1. PICK w \in Worker : item[w] = r
          BY <3>2
      <4>2. Places(r) = {} /\ Holders(r) = {w}
          BY SMTT(60), <1>1, <4>1 DEF IInv, OnePlace, Places, Holders, Queued
      <4>3. Cardinality(Places(r)) = 0 /\ Cardinality(Holders(r)) = 1
          BY <4>2, FS_Singleton, FS_EmptySet
      <4> QED
          BY SMTT(60), <4>3
    <3> QED
        BY <1>1, <2>1, <3>1, <3>2 DEF IInv, Tracked
  <2>2. ASSUME NEW r \in Request, future[r] = "unsent"
        PROVE  Places(r) = {} /\ Holders(r) = {}
      BY <1>1, <2>2 DEF IInv, Unhandled, Places, Holders, Queued
  <2> QED
      BY <2>1, <2>2 DEF NothingLost
<1> QED
    BY <1>1, Invariant, PTL

\* The outcome of a future never changes, though the timeout cancels futures
\* whose request is still running.
THEOREM OutcomesAreFinal ==
    RequestsSpec => OutcomeFinal
<1>1. ASSUME IInv, [RequestsNext]_threads
      PROVE  [\A r \in Request : Done(r) => future'[r] = future[r]]_threads
  <2> SUFFICES ASSUME RequestsNext, NEW r \in Request, Done(r) PROVE future'[r] = future[r]
      BY <1>1
  <2>0. future \in [Request -> {"unsent", "pending", "cancelled", "result", "exception"}]
      BY <1>1 DEF IInv, RequestsTypeOK
  <2>1. ASSUME NEW w \in Worker, WorkerStep(w) \/ Run(w) PROVE future'[r] = future[r]
      BY <2>0, <2>1 DEF WorkerStep, Check, Take, Wake, Handle, SetResult, SetException, Run,
                        Done, Settle, requestVars
  <2>2. CASE AddDoneCallback \/ RegisterTimeout \/ Join \/ ClosePool \/ Stop
      BY <2>2 DEF AddDoneCallback, RegisterTimeout, Join, ClosePool, Stop, requestVars
  <2>3. CASE Drain
    <3>1. 1 \in Queued /\ Head(work_items) = work_items[1]
        BY <1>1, <2>3, PopFacts DEF Drain, IInv, RequestsTypeOK, Queued
    <3>2. future[Head(work_items)] \in {"pending", "cancelled"}
        BY <1>1, <3>1 DEF IInv, Unhandled
    <3> QED
        BY <2>0, <2>3, <3>2 DEF Drain, Settle, Done
  <2>4. ASSUME NEW x \in Request, ThreadedPostAlarm(x) \/ Submit(x) PROVE future'[r] = future[r]
      BY <2>0, <2>4 DEF ThreadedPostAlarm, Submit, Settle, Done
  <2> QED
      BY <2>1, <2>2, <2>3, <2>4 DEF RequestsNext, MainStep
<1> QED
    BY <1>1, Invariant, PTL DEF RequestsSpec, OutcomeFinal
=============================================================================
