--------------------------- MODULE WebsocketProofs ---------------------------
(***************************************************************************)
(* Proofs about both ends of a websocket: Feeds, for any connections,      *)
(* subscribers, messages and queue sizes, and WsProvider, for any calls    *)
(* and any number of sockets.  The two share nothing.                      *)
(***************************************************************************)
EXTENDS Feeds, WsProvider, TLAPS

USE ZenonT(40)

-----------------------------------------------------------------------------
(* The server: who is served                                               *)

\* A subscription belongs to one connection, a running task to a subscription,
\* and whom the feed serves some connection answers for.
Owned ==
    /\ \A g, h \in Handler : g # h => subscriptions[g] \cap subscriptions[h] = {}
    /\ task \subseteq UNION {subscriptions[h] : h \in Handler}
    /\ subscribers \subseteq UNION {subscriptions[h] : h \in Handler}

\* With NothingLeftBehind: the connections of the feed's subscribers are not closed.
OwnedInv ==
    /\ subscriptions \in [Handler -> SUBSET Subscriber]
    /\ connection \in [Handler -> {"open", "ended", "broken", "closed"}]
    /\ Owned
    /\ NothingLeftBehind

\* Closing a connection takes what is its own, and leaves the rest alone.
LEMMA CloseHandlerKeeps ==
    ASSUME OwnedInv, NEW h \in Handler, CloseHandler(h)
    PROVE  /\ subscriptions' \in [Handler -> SUBSET Subscriber]
           /\ Owned' /\ subscriptions'[h] = {}
           /\ \A g \in Handler \ {h} : subscriptions'[g] = subscriptions[g]
<1>1. /\ subscriptions' = [subscriptions EXCEPT ![h] = {}]
      /\ task' = task \ subscriptions[h] /\ subscribers' = subscribers \ subscriptions[h]
    BY DEF CloseHandler, Unsubscribe
<1>2. /\ subscriptions' \in [Handler -> SUBSET Subscriber] /\ subscriptions'[h] = {}
      /\ \A g \in Handler \ {h} : subscriptions'[g] = subscriptions[g]
    BY <1>1 DEF OwnedInv
<1>3. Owned'
    BY SMTT(60), <1>1, <1>2 DEF OwnedInv, Owned
<1> QED
    BY <1>2, <1>3

\* Every step keeps the invariant.
LEMMA OwnedStep ==
    ASSUME OwnedInv, [FeedsNext]_feeds PROVE OwnedInv'
<1>1. CASE Publish
    BY SMTT(60), <1>1 DEF Publish, OwnedInv, Owned, NothingLeftBehind
<1>2. ASSUME NEW h \in Handler, NEW s \in Subscriber, Subscribe(h, s) PROVE OwnedInv'
  <2>1. /\ connection[h] # "closed" /\ connection' = connection
        /\ subscribers' = subscribers \cup {s} /\ task' = task \cup {s}
        /\ subscriptions' = [subscriptions EXCEPT ![h] = @ \cup {s}]
        /\ \A g \in Handler : s \notin subscriptions[g]
      BY <1>2 DEF Subscribe, Serving
  <2>2. /\ subscriptions' \in [Handler -> SUBSET Subscriber]
        /\ subscriptions'[h] = subscriptions[h] \cup {s}
        /\ \A g \in Handler \ {h} : subscriptions'[g] = subscriptions[g]
      BY <2>1 DEF OwnedInv
  <2>3. Owned'
      BY SMTT(60), <2>1, <2>2 DEF OwnedInv, Owned
  <2>4. NothingLeftBehind'
      BY <2>1, <2>2 DEF OwnedInv, NothingLeftBehind
  <2> QED
      BY <2>1, <2>2, <2>3, <2>4 DEF OwnedInv
<1>3. ASSUME NEW h \in Handler, NEW s \in Subscriber, UnsubscribeRequest(h, s) PROVE OwnedInv'
  <2>1. /\ connection' = connection /\ subscribers' = subscribers \ {s} /\ task' = task \ {s}
        /\ subscriptions' = [subscriptions EXCEPT ![h] = @ \ {s}]
      BY <1>3 DEF UnsubscribeRequest, Unsubscribe
  <2>2. /\ subscriptions' \in [Handler -> SUBSET Subscriber]
        /\ subscriptions'[h] = subscriptions[h] \ {s}
        /\ \A g \in Handler \ {h} : subscriptions'[g] = subscriptions[g]
      BY <2>1 DEF OwnedInv
  <2>3. Owned'
      BY SMTT(60), <2>1, <2>2 DEF OwnedInv, Owned
  <2>4. NothingLeftBehind'
      BY <2>1, <2>2 DEF OwnedInv, NothingLeftBehind
  <2> QED
      BY <2>1, <2>2, <2>3, <2>4 DEF OwnedInv
<1>4. ASSUME NEW h \in Handler, NEW s \in Subscriber, HandleSubscription(h, s) PROVE OwnedInv'
    BY SMTT(60), <1>4 DEF HandleSubscription, OwnedInv, Owned, NothingLeftBehind
<1>5. ASSUME NEW h \in Handler, AsyncClose(h) PROVE OwnedInv'
  <2>1. CloseHandler(h) /\ connection' = connection
      BY <1>5 DEF AsyncClose
  <2>2. NothingLeftBehind'
      BY <2>1, CloseHandlerKeeps DEF OwnedInv, NothingLeftBehind
  <2> QED
      BY <2>1, <2>2, CloseHandlerKeeps DEF OwnedInv
<1>6. ASSUME NEW h \in Handler, HandlePublications(h) PROVE OwnedInv'
  <2>1. /\ UNCHANGED <<subscribers, subscriptions, task>>
        /\ connection' = connection \/ connection' = [connection EXCEPT ![h] = "broken"]
      BY <1>6 DEF HandlePublications
  <2> QED
      BY SMTT(60), <2>1 DEF OwnedInv, Owned, NothingLeftBehind
<1>7. ASSUME NEW h \in Handler, HandleReturns(h) PROVE OwnedInv'
    BY <1>7 DEF HandleReturns, OwnedInv, Owned, NothingLeftBehind
<1>8. ASSUME NEW h \in Handler, Close(h) PROVE OwnedInv'
  <2>1. CloseHandler(h) /\ connection' = [connection EXCEPT ![h] = "closed"]
      BY <1>8 DEF Close
  <2>2. connection' \in [Handler -> {"open", "ended", "broken", "closed"}]
        /\ \A g \in Handler \ {h} : connection'[g] = connection[g]
      BY <2>1 DEF OwnedInv
  <2>3. NothingLeftBehind'
      BY <2>1, <2>2, CloseHandlerKeeps DEF OwnedInv, NothingLeftBehind
  <2> QED
      BY <2>1, <2>2, <2>3, CloseHandlerKeeps DEF OwnedInv
<1>9. CASE UNCHANGED feeds
    BY <1>9 DEF feeds, OwnedInv, Owned, NothingLeftBehind
<1>10. ASSUME NEW h \in Handler, StopServer(h) PROVE OwnedInv'
  <2>1. CloseHandler(h) /\ connection' = [connection EXCEPT ![h] = "closed"]
      BY <1>10 DEF StopServer
  <2>2. connection' \in [Handler -> {"open", "ended", "broken", "closed"}]
        /\ \A g \in Handler \ {h} : connection'[g] = connection[g]
      BY <2>1 DEF OwnedInv
  <2>3. NothingLeftBehind'
      BY <2>1, <2>2, CloseHandlerKeeps DEF OwnedInv, NothingLeftBehind
  <2> QED
      BY <2>1, <2>2, <2>3, CloseHandlerKeeps DEF OwnedInv
<1> QED
    BY <1>1, <1>2, <1>3, <1>4, <1>5, <1>6, <1>7, <1>8, <1>9, <1>10 DEF FeedsNext

\* The inductive invariant holds always.
THEOREM OwnedAlways == FeedsSpec => []OwnedInv
<1>1. FeedsInit => OwnedInv
    BY DEF FeedsInit, OwnedInv, Owned, NothingLeftBehind
<1>2. OwnedInv /\ [FeedsNext]_feeds => OwnedInv'
    BY OwnedStep
<1> QED
    BY <1>1, <1>2, PTL DEF FeedsSpec

\* A closed websocket connection has no subscription left, though a request may
\* subscribe between the closing of the handler and that of the connection.
THEOREM NothingStays == FeedsSpec => []NothingLeftBehind
<1>1. OwnedInv => NothingLeftBehind
    BY DEF OwnedInv
<1> QED
    BY <1>1, OwnedAlways, PTL

\* Whoever the feed publishes to, or has a subscription task for, is subscribed
\* through a connection that is not closed.
THEOREM ServedIsOpen ==
    FeedsSpec => [](\A s \in subscribers \cup task :
                   \E h \in Handler : s \in subscriptions[h] /\ connection[h] # "closed")
<1>1. OwnedInv => \A s \in subscribers \cup task :
                  \E h \in Handler : s \in subscriptions[h] /\ connection[h] # "closed"
    BY SMTT(60) DEF OwnedInv, Owned, NothingLeftBehind
<1> QED
    BY <1>1, OwnedAlways, PTL

-----------------------------------------------------------------------------
(* The server: what is delivered                                          *)

\* What follows the first n of q, and what a client is still to get.
After(q, n) == {q[p] : p \in (n + 1)..Len(q)}
Pending == [s \in Subscriber |-> After(due[s], Len(delivered[s]))]

Live(h) == connection[h] \in {"open", "ended"}

QueueTypes ==
    /\ subscriptions \in [Handler -> SUBSET Subscriber]
    /\ subscribers \subseteq Subscriber /\ task \subseteq Subscriber
    /\ connection \in [Handler -> {"open", "ended", "broken", "closed"}]
    /\ messages \in [Subscriber -> Seq(Nat)]
    /\ due \in [Subscriber -> Seq(Nat)]
    /\ delivered \in [Subscriber -> Seq(Nat)]
    /\ subscribed_messages \in [Handler -> Seq(Subscriber \X Nat)]
    /\ published \in Nat

\* Messages are in the order of publication in what is due, in the queue of a subscriber
\* and in that of its connection, which is ahead of it.
Increasing(q, top) ==
    /\ \A k, l \in DOMAIN q : k < l => q[k] < q[l]
    /\ \A k \in DOMAIN q : q[k] <= top

OutInOrder(out, msgs, top) ==
    \A i \in DOMAIN out :
        /\ out[i][2] <= top
        /\ \A j \in DOMAIN out : i < j /\ out[i][1] = out[j][1] => out[i][2] < out[j][2]
        /\ \A k \in DOMAIN msgs[out[i][1]] : out[i][2] < msgs[out[i][1]][k]

InOrder ==
    /\ \A s \in Subscriber : Increasing(due[s], published) /\ Increasing(messages[s], published)
    /\ \A h \in Handler : OutInOrder(subscribed_messages[h], messages, published)

\* What is in a queue has been due, and goes through one connection.
To(out) == {out[i][1] : i \in DOMAIN out}
Reach(h) == subscriptions[h] \cup To(subscribed_messages[h])

OnePath ==
    /\ \A s \in Subscriber : messages[s] # <<>> => due[s] # <<>>
    /\ \A h \in Handler : \A s \in To(subscribed_messages[h]) : due[s] # <<>>
    /\ \A g, h \in Handler : g # h => Reach(g) \cap Reach(h) = {}

\* As long as a connection writes, the pending messages before one in its queue are
\* ahead of it there.
OutComplete(out, pending) ==
    \A i \in DOMAIN out :
        /\ out[i][2] \in pending[out[i][1]]
        /\ \A n \in pending[out[i][1]] : n < out[i][2] =>
              \E j \in DOMAIN out : j < i /\ out[j] = <<out[i][1], n>>

OutWhole == \A h \in Handler : Live(h) => OutComplete(subscribed_messages[h], Pending)

\* And those before one in the queue of a subscriber are ahead of it there or in that of
\* the connection; all are, as long as the feed adds to it.
Sent(out, s, n) == \E j \in DOMAIN out : out[j] = <<s, n>>

QueueComplete(q, out, s, pending) ==
    \A k \in DOMAIN q :
        /\ q[k] \in pending
        /\ \A n \in pending : n < q[k] => Sent(out, s, n) \/ \E l \in DOMAIN q : l < k /\ q[l] = n

AllQueued(q, out, s, pending) ==
    \A n \in pending : Sent(out, s, n) \/ \E l \in DOMAIN q : q[l] = n

MessagesWhole ==
    \A h \in Handler : Live(h) => \A s \in subscriptions[h] \cap task :
        /\ QueueComplete(messages[s], subscribed_messages[h], s, Pending[s])
        /\ s \in subscribers => AllQueued(messages[s], subscribed_messages[h], s, Pending[s])

GapInv == QueueTypes /\ InOrder /\ OnePath /\ OutWhole /\ MessagesWhole /\ NoGaps

-----------------------------------------------------------------------------
\* A message more is pending.
LEMMA AfterAppend ==
    ASSUME NEW q \in Seq(Nat), NEW n \in 0..Len(q), NEW m \in Nat
    PROVE  After(Append(q, m), n) = After(q, n) \cup {m}
<1>1. /\ Len(Append(q, m)) = Len(q) + 1 /\ Append(q, m)[Len(q) + 1] = m
      /\ \A p \in 1..Len(q) : Append(q, m)[p] = q[p]
    BY SMTT(60)
<1>2. (n + 1)..Len(Append(q, m)) = ((n + 1)..Len(q)) \cup {Len(q) + 1}
    BY SMTT(60), <1>1
<1>3. \A p \in (n + 1)..Len(q) : p \in 1..Len(q)
    BY SMTT(60)
<1> DEFINE a == Append(q, m)
<1>4. /\ Len(a) = Len(q) + 1 /\ a[Len(q) + 1] = m
      /\ \A p \in (n + 1)..Len(q) : a[p] = q[p]
      /\ (n + 1)..Len(a) = ((n + 1)..Len(q)) \cup {Len(q) + 1}
    BY <1>1, <1>2, <1>3
<1> HIDE DEF a
<1>5. After(a, n) = After(q, n) \cup {m}
    BY SMTT(60), <1>4 DEF After
<1> QED
    BY <1>5 DEF a

\* The least of what is pending is the next.
LEMMA AfterFirst ==
    ASSUME NEW q \in Seq(Nat), NEW n \in 0..Len(q),
           \A p, r \in DOMAIN q : p < r => q[p] < q[r],
           NEW m \in After(q, n), \A k \in After(q, n) : ~(k < m)
    PROVE  n + 1 \in 1..Len(q) /\ q[n + 1] = m /\ After(q, n + 1) = After(q, n) \ {m}
<1>1. PICK p \in (n + 1)..Len(q) : m = q[p]
    BY DEF After
<1>2. n + 1 \in 1..Len(q) /\ n + 1 \in DOMAIN q /\ p \in DOMAIN q
    BY SMTT(60), <1>1
<1>3. q[n + 1] \in After(q, n)
    BY SMTT(60), <1>2 DEF After
<1>4. p = n + 1
    BY SMTT(60), <1>1, <1>2, <1>3
<1>5. \A r \in (n + 2)..Len(q) : q[r] # m /\ r \in (n + 1)..Len(q)
  <2> TAKE r \in (n + 2)..Len(q)
  <2>1. r \in DOMAIN q /\ n + 1 < r
      BY SMTT(60)
  <2>2. q[n + 1] < q[r] /\ q[n + 1] \in Nat /\ q[r] \in Nat
      BY SMTT(60), <1>2, <2>1
  <2> QED
      BY SMTT(60), <1>1, <1>4, <2>2
<1>6. (n + 1)..Len(q) = {n + 1} \cup ((n + 2)..Len(q)) /\ (n + 1) + 1 = n + 2
    BY SMTT(60), <1>2
<1>7. After(q, n + 1) = After(q, n) \ {m}
    BY <1>1, <1>4, <1>5, <1>6 DEF After
<1> QED
    BY <1>1, <1>2, <1>4, <1>7

\* What is left of a queue in order is in order.
LEMMA IncreasingTail ==
    ASSUME NEW q \in Seq(Nat), q # <<>>, NEW r, r = Tail(q), NEW top, Increasing(q, top)
    PROVE  /\ r \in Seq(Nat) /\ Increasing(r, top)
           /\ \A k \in DOMAIN r : \E l \in DOMAIN q : r[k] = q[l]
           /\ \A k \in DOMAIN r : q[1] < r[k]
<1>1. /\ r \in Seq(Nat) /\ 1 \in DOMAIN q
      /\ \A i \in DOMAIN r : i + 1 \in DOMAIN q /\ r[i] = q[i + 1] /\ i \in Nat \ {0}
    BY SMTT(60)
<1>2. ASSUME NEW k \in DOMAIN r, NEW l \in DOMAIN r, k < l
      PROVE  r[k] < r[l]
  <2>1. k + 1 < l + 1 /\ k + 1 \in DOMAIN q /\ l + 1 \in DOMAIN q
      BY SMTT(60), <1>1, <1>2
  <2> QED
      BY <1>1, <2>1 DEF Increasing
<1>3. \A k \in DOMAIN r : r[k] <= top /\ \E l \in DOMAIN q : r[k] = q[l]
    BY <1>1 DEF Increasing
<1>4. ASSUME NEW k \in DOMAIN r
      PROVE  q[1] < r[k]
  <2>1. 1 < k + 1 /\ k + 1 \in DOMAIN q
      BY SMTT(60), <1>1
  <2> QED
      BY <1>1, <2>1 DEF Increasing
<1> QED
    BY <1>1, <1>2, <1>3, <1>4 DEF Increasing

\* And so is one with a later message, or with none.
LEMMA IncreasingAppend ==
    ASSUME NEW q \in Seq(Nat), NEW top \in Nat, NEW r, r \in {q, Append(q, top + 1)}, Increasing(q, top)
    PROVE  r \in Seq(Nat) /\ Increasing(r, top + 1)
<1>0. \A k \in DOMAIN q : q[k] \in Nat /\ q[k] <= top
    BY SMTT(60) DEF Increasing
<1>1. CASE r = q
    BY SMTT(60), <1>0, <1>1 DEF Increasing
<1>2. CASE r = Append(q, top + 1)
  <2>1. /\ r \in Seq(Nat) /\ DOMAIN r = DOMAIN q \cup {Len(q) + 1}
        /\ \A i \in DOMAIN q : r[i] = q[i] /\ i < Len(q) + 1 /\ i \in Nat \ {0}
        /\ r[Len(q) + 1] = top + 1 /\ Len(q) \in Nat
      BY SMTT(60), <1>2
  <2> QED
      BY SMTT(60), <1>0, <2>1 DEF Increasing
<1> QED
    BY <1>1, <1>2

\* The queue of a connection with the first message of a subscriber's.
LEMMA OutAppendOrder ==
    ASSUME NEW out \in Seq(Subscriber \X Nat), NEW msgs \in [Subscriber -> Seq(Nat)], NEW top \in Nat,
           OutInOrder(out, msgs, top), NEW s \in Subscriber, msgs[s] # <<>>, Increasing(msgs[s], top),
           NEW out2, out2 = Append(out, <<s, msgs[s][1]>>),
           NEW msgs2, \A t \in Subscriber : t # s => msgs2[t] = msgs[t], msgs2[s] = Tail(msgs[s])
    PROVE  OutInOrder(out2, msgs2, top)
<1> DEFINE n == Len(out) + 1
<1>1. /\ DOMAIN out2 = DOMAIN out \cup {n} /\ n \notin DOMAIN out /\ n \in Nat
      /\ \A i \in DOMAIN out : out2[i] = out[i] /\ i < n /\ i \in Nat
      /\ out2[n] = <<s, msgs[s][1]>>
  <2>1. <<s, msgs[s][1]>> \in Subscriber \X Nat
      BY SMTT(60)
  <2> QED
      BY SMTT(60), <2>1
<1>2. /\ 1 \in DOMAIN msgs[s] /\ msgs[s][1] \in Nat /\ msgs[s][1] <= top
      /\ \A k \in DOMAIN msgs2[s] : msgs[s][1] < msgs2[s][k]
      /\ \A k \in DOMAIN msgs2[s] : k + 1 \in DOMAIN msgs[s] /\ msgs2[s][k] = msgs[s][k + 1]
  <2>1. /\ 1 \in DOMAIN msgs[s] /\ msgs[s][1] \in Nat
        /\ \A k \in DOMAIN msgs2[s] : k + 1 \in DOMAIN msgs[s] /\ msgs2[s][k] = msgs[s][k + 1] /\ 1 < k + 1
      BY SMTT(60)
  <2> QED
      BY <2>1 DEF Increasing
<1>3. \A i \in DOMAIN out : out[i][1] \in Subscriber /\ out[i][2] \in Nat
    BY SMTT(60)
<1> HIDE DEF n
<1>4. ASSUME NEW i \in DOMAIN out2
      PROVE  out2[i][2] <= top
    BY SMTT(60), <1>1, <1>2 DEF OutInOrder
<1>5. ASSUME NEW i \in DOMAIN out2, NEW j \in DOMAIN out2, i < j, out2[i][1] = out2[j][1]
      PROVE  out2[i][2] < out2[j][2]
  <2>1. i \in DOMAIN out
      BY SMTT(60), <1>1, <1>5
  <2>2. CASE j \in DOMAIN out
      BY SMTT(60), <1>1, <1>5, <2>1, <2>2 DEF OutInOrder
  <2>3. CASE j = n
    <3>1. out[i][1] = s
        BY SMTT(60), <1>1, <1>5, <2>1, <2>3
    <3>2. out[i][2] < msgs[s][1]
        BY <1>2, <2>1, <3>1 DEF OutInOrder
    <3> QED
        BY SMTT(60), <1>1, <2>1, <2>3, <3>2
  <2> QED
      BY <1>1, <2>2, <2>3
<1>6. ASSUME NEW i \in DOMAIN out2, NEW k \in DOMAIN msgs2[out2[i][1]]
      PROVE  out2[i][2] < msgs2[out2[i][1]][k]
  <2>1. CASE i = n
    <3>1. out2[i][1] = s /\ out2[i][2] = msgs[s][1]
        BY SMTT(60), <1>1, <2>1
    <3>2. k \in DOMAIN msgs2[s]
        BY <1>6, <3>1
    <3>3. msgs[s][1] < msgs2[s][k]
        BY <1>2, <3>2
    <3> QED
        BY <3>1, <3>3
  <2>2. CASE i \in DOMAIN out /\ out[i][1] = s
    <3>1. out2[i] = out[i] /\ out2[i][1] = s
        BY <1>1, <2>2
    <3>2. k + 1 \in DOMAIN msgs[s] /\ msgs2[s][k] = msgs[s][k + 1]
        BY <1>2, <1>6, <3>1
    <3>3. out[i][2] < msgs[s][k + 1]
        BY <2>2, <3>2 DEF OutInOrder
    <3> QED
        BY <3>1, <3>2, <3>3
  <2>3. CASE i \in DOMAIN out /\ out[i][1] # s
      BY SMTT(60), <1>1, <1>3, <2>3 DEF OutInOrder
  <2> QED
      BY <1>1, <2>1, <2>2, <2>3
<1> QED
    BY <1>4, <1>5, <1>6 DEF OutInOrder

-----------------------------------------------------------------------------
\* The queue of a connection with one more.
LEMMA OneMoreOut ==
    ASSUME NEW out \in Seq(Subscriber \X Nat), NEW s \in Subscriber, NEW m \in Nat,
           NEW out2, out2 = Append(out, <<s, m>>)
    PROVE  /\ out2 \in Seq(Subscriber \X Nat)
           /\ DOMAIN out2 = DOMAIN out \cup {Len(out) + 1} /\ Len(out) + 1 \in Nat
           /\ \A i \in DOMAIN out : out2[i] = out[i] /\ i < Len(out) + 1 /\ i \in Nat
           /\ out2[Len(out) + 1] = <<s, m>>
<1>1. <<s, m>> \in Subscriber \X Nat
    OBVIOUS
<1> QED
    BY SMTT(60), <1>1

\* And with one less.
LEMMA OneLessOut ==
    ASSUME NEW out \in Seq(Subscriber \X Nat), out # <<>>, NEW out2, out2 = Tail(out)
    PROVE  /\ out2 \in Seq(Subscriber \X Nat) /\ 1 \in DOMAIN out /\ Head(out) = out[1]
           /\ out[1] = <<out[1][1], out[1][2]>> /\ out[1][1] \in Subscriber /\ out[1][2] \in Nat
           /\ \A i \in DOMAIN out2 : i + 1 \in DOMAIN out /\ out2[i] = out[i + 1] /\ i \in Nat \ {0}
           /\ \A i \in DOMAIN out : i # 1 => i - 1 \in DOMAIN out2 /\ out2[i - 1] = out[i]
                                             /\ i \in Nat \ {0}
<1>1. /\ out2 \in Seq(Subscriber \X Nat) /\ 1 \in DOMAIN out /\ Head(out) = out[1]
      /\ out[1] \in Subscriber \X Nat
      /\ \A i \in DOMAIN out2 : i + 1 \in DOMAIN out /\ out2[i] = out[i + 1] /\ i \in Nat \ {0}
      /\ \A i \in DOMAIN out : i # 1 => i - 1 \in DOMAIN out2 /\ out2[i - 1] = out[i]
                                        /\ i \in Nat \ {0}
    BY SMTT(60)
<1> QED
    BY SMTT(60), <1>1

\* What is sent with one more.
LEMMA SentMore ==
    ASSUME NEW out \in Seq(Subscriber \X Nat), NEW s \in Subscriber, NEW m \in Nat,
           NEW out2, out2 = Append(out, <<s, m>>)
    PROVE  /\ Sent(out2, s, m)
           /\ \A t, n : Sent(out, t, n) => Sent(out2, t, n)
<1> USE OneMoreOut
<1>1. Sent(out2, s, m)
    BY SMTT(60) DEF Sent
<1>2. ASSUME NEW t, NEW n, Sent(out, t, n)
      PROVE  Sent(out2, t, n)
  <2>1. PICK j \in DOMAIN out : out[j] = <<t, n>>
      BY <1>2 DEF Sent
  <2>2. j \in DOMAIN out2 /\ out2[j] = <<t, n>>
      BY SMTT(60), <2>1
  <2> QED
      BY <2>2 DEF Sent
<1> QED
    BY <1>1, <1>2

\* And with one less.
LEMMA SentLess ==
    ASSUME NEW out \in Seq(Subscriber \X Nat), out # <<>>, NEW out2, out2 = Tail(out),
           NEW t, NEW n, Sent(out, t, n), out[1] # <<t, n>>
    PROVE  Sent(out2, t, n)
<1>1. PICK j \in DOMAIN out : out[j] = <<t, n>>
    BY DEF Sent
<1>2. j - 1 \in DOMAIN out2 /\ out2[j - 1] = <<t, n>>
    BY SMTT(60), <1>1, OneLessOut
<1> QED
    BY <1>2 DEF Sent

\* A message can follow when all pending before it are sent.
LEMMA OutCompleteMore ==
    ASSUME NEW out \in Seq(Subscriber \X Nat), NEW s \in Subscriber, NEW m \in Nat,
           NEW out2, out2 = Append(out, <<s, m>>), NEW pending, OutComplete(out, pending),
           m \in pending[s], \A n \in pending[s] : n < m => Sent(out, s, n)
    PROVE  OutComplete(out2, pending)
<1>0. /\ DOMAIN out2 = DOMAIN out \cup {Len(out) + 1}
      /\ \A i \in DOMAIN out : out2[i] = out[i] /\ i < Len(out) + 1
      /\ out2[Len(out) + 1] = <<s, m>>
    BY SMTT(60), OneMoreOut
<1>1. ASSUME NEW i \in DOMAIN out
      PROVE  /\ out2[i][2] \in pending[out2[i][1]]
             /\ \A n \in pending[out2[i][1]] : n < out2[i][2] =>
                   \E j \in DOMAIN out2 : j < i /\ out2[j] = <<out2[i][1], n>>
  <2>1. out[i][2] \in pending[out[i][1]] /\ out2[i] = out[i]
      BY <1>0 DEF OutComplete
  <2>2. ASSUME NEW n \in pending[out[i][1]], n < out[i][2]
        PROVE  \E j \in DOMAIN out2 : j < i /\ out2[j] = <<out[i][1], n>>
    <3>1. PICK j \in DOMAIN out : j < i /\ out[j] = <<out[i][1], n>>
        BY <2>2 DEF OutComplete
    <3>2. j \in DOMAIN out2 /\ j < i /\ out2[j] = <<out[i][1], n>>
        BY <1>0, <3>1
    <3> QED
        BY <3>2
  <2> QED
      BY <2>1, <2>2
<1>2. ASSUME NEW i, i = Len(out) + 1
      PROVE  /\ out2[i][2] \in pending[out2[i][1]]
             /\ \A n \in pending[out2[i][1]] : n < out2[i][2] =>
                   \E j \in DOMAIN out2 : j < i /\ out2[j] = <<out2[i][1], n>>
  <2>1. out2[i][1] = s /\ out2[i][2] = m
      BY SMTT(60), <1>0, <1>2
  <2>2. ASSUME NEW n \in pending[s], n < m
        PROVE  \E j \in DOMAIN out2 : j < i /\ out2[j] = <<s, n>>
    <3>1. PICK j \in DOMAIN out : out[j] = <<s, n>>
        BY <2>2 DEF Sent
    <3>2. j \in DOMAIN out2 /\ j < i /\ out2[j] = <<s, n>>
        BY <1>0, <1>2, <3>1
    <3> QED
        BY <3>2
  <2> QED
      BY <2>1, <2>2
<1> QED
    BY <1>0, <1>1, <1>2 DEF OutComplete

\* Message m of subscriber s is no more pending.
Without(pending, s, m) == [t \in Subscriber |-> IF t = s THEN pending[s] \ {m} ELSE pending[t]]

\* The client has got the first of the queue: what follows it is complete without it.
LEMMA OutCompleteLess ==
    ASSUME NEW out \in Seq(Subscriber \X Nat), out # <<>>, NEW out2, out2 = Tail(out),
           NEW pending, OutComplete(out, pending), NEW msgs, NEW top, OutInOrder(out, msgs, top),
           NEW s, NEW m, out[1] = <<s, m>>, NEW pending2, pending2 = Without(pending, s, m)
    PROVE  OutComplete(out2, pending2)
<1> s \in Subscriber
  <2>1. 1 \in DOMAIN out /\ out[1] \in Subscriber \X Nat
      BY SMTT(60)
  <2> QED
      BY SMTT(60), <2>1
<1> pending2[s] = pending[s] \ {m} /\ \A t \in Subscriber : t # s => pending2[t] = pending[t]
    BY DEF Without
<1>0. /\ 1 \in DOMAIN out /\ out[1][1] = s /\ out[1][2] = m
      /\ \A i \in DOMAIN out2 : i + 1 \in DOMAIN out /\ out2[i] = out[i + 1] /\ i \in Nat \ {0}
      /\ \A i \in DOMAIN out : i # 1 => i - 1 \in DOMAIN out2 /\ out2[i - 1] = out[i]
                                        /\ i \in Nat \ {0}
    BY SMTT(60), OneLessOut
<1>3. ASSUME NEW i \in DOMAIN out2
      PROVE  /\ out2[i][2] \in pending2[out2[i][1]]
             /\ \A n \in pending2[out2[i][1]] : n < out2[i][2] =>
                   \E j \in DOMAIN out2 : j < i /\ out2[j] = <<out2[i][1], n>>
  <2> DEFINE t == out2[i][1]
             x == out2[i][2]
  <2>1. i + 1 \in DOMAIN out /\ out[i + 1] = <<t, x>> /\ out[i + 1][1] = t /\ out[i + 1][2] = x
        /\ t \in Subscriber /\ x \in Nat /\ 1 < i + 1 /\ i \in Nat
    <3>1. out[i + 1] \in Subscriber \X Nat
        BY SMTT(60), <1>0
    <3> QED
        BY SMTT(60), <1>0, <3>1
  <2> HIDE DEF t, x
  <2>2. x \in pending[t]
      BY <2>1 DEF OutComplete
  <2>3. t = s => m < x
    <3>1. 1 < i + 1 /\ out[1][1] = out[i + 1][1] => out[1][2] < out[i + 1][2]
        BY <1>0, <2>1 DEF OutInOrder
    <3> QED
        BY <1>0, <2>1, <3>1
  <2>4. m \in Nat
      BY SMTT(60), <1>0
  <2>5. x \in pending2[t]
      BY SMTT(60), <2>1, <2>2, <2>3, <2>4
  <2>6. ASSUME NEW n \in pending2[t], n < x
        PROVE  \E j \in DOMAIN out2 : j < i /\ out2[j] = <<t, n>>
    <3>1. n \in pending[t] /\ (t = s => n # m)
        BY <2>1, <2>6
    <3>2. PICK j \in DOMAIN out : j < i + 1 /\ out[j] = <<t, n>>
      <4>1. \A k \in pending[out[i + 1][1]] : k < out[i + 1][2] =>
                \E j \in DOMAIN out : j < i + 1 /\ out[j] = <<out[i + 1][1], k>>
          BY <2>1 DEF OutComplete
      <4> QED
          BY <2>1, <2>6, <3>1, <4>1
    <3>3. j # 1
        BY SMTT(60), <3>1, <3>2
    <3>4. j - 1 \in DOMAIN out2 /\ out2[j - 1] = <<t, n>> /\ j - 1 < i
        BY SMTT(60), <1>0, <2>1, <3>2, <3>3
    <3> QED
        BY <3>4
  <2> QED
      BY <2>5, <2>6 DEF t, x
<1> QED
    BY <1>3 DEF OutComplete

\* A published message is after all those in the queue.
LEMMA OutCompletePublished ==
    ASSUME NEW out \in Seq(Subscriber \X Nat), NEW pending, OutComplete(out, pending),
           NEW msgs, NEW top \in Nat, OutInOrder(out, msgs, top), NEW pending2,
           \A t \in Subscriber : pending2[t] = pending[t] \/ pending2[t] = pending[t] \cup {top + 1}
    PROVE  OutComplete(out, pending2)
<1>1. ASSUME NEW i \in DOMAIN out
      PROVE  /\ out[i][2] \in pending2[out[i][1]]
             /\ \A n \in pending2[out[i][1]] : n < out[i][2] =>
                   \E j \in DOMAIN out : j < i /\ out[j] = <<out[i][1], n>>
  <2>1. out[i][1] \in Subscriber /\ out[i][2] \in Nat /\ out[i][2] <= top
    <3>1. out[i] \in Subscriber \X Nat
        BY SMTT(60)
    <3> QED
        BY <3>1 DEF OutInOrder
  <2>2. out[i][2] \in pending[out[i][1]]
      BY DEF OutComplete
  <2>3. out[i][2] \in pending2[out[i][1]]
      BY <2>1, <2>2
  <2>4. ASSUME NEW n \in pending2[out[i][1]], n < out[i][2]
        PROVE  n \in pending[out[i][1]]
      BY SMTT(60), <2>1, <2>4
  <2>5. \A n \in pending[out[i][1]] : n < out[i][2] =>
            \E j \in DOMAIN out : j < i /\ out[j] = <<out[i][1], n>>
      BY DEF OutComplete
  <2> QED
      BY <2>3, <2>4, <2>5
<1> QED
    BY <1>1 DEF OutComplete

\* What is complete with less sent is with more.
LEMMA QueueCompleteMore ==
    ASSUME NEW q, NEW out, NEW out2, NEW s, \A n : Sent(out, s, n) => Sent(out2, s, n), NEW pending
    PROVE  /\ QueueComplete(q, out, s, pending) => QueueComplete(q, out2, s, pending)
           /\ AllQueued(q, out, s, pending) => AllQueued(q, out2, s, pending)
<1>1. ASSUME QueueComplete(q, out, s, pending)
      PROVE  QueueComplete(q, out2, s, pending)
    BY <1>1 DEF QueueComplete
<1>2. ASSUME AllQueued(q, out, s, pending)
      PROVE  AllQueued(q, out2, s, pending)
    BY <1>2 DEF AllQueued
<1> QED
    BY <1>1, <1>2

\* The first of a subscriber's queue can follow in that of the connection.
LEMMA FirstCanFollow ==
    ASSUME NEW q \in Seq(Nat), q # <<>>, NEW out, NEW s, NEW pending, QueueComplete(q, out, s, pending)
    PROVE  q[1] \in pending /\ \A n \in pending : n < q[1] => Sent(out, s, n)
<1>1. 1 \in DOMAIN q /\ \A l \in DOMAIN q : ~(l < 1)
    BY SMTT(60)
<1> QED
    BY <1>1 DEF QueueComplete

\* The positions of a queue of messages and of the same queue without its first.
LEMMA OneLessQueue ==
    ASSUME NEW q \in Seq(Nat), q # <<>>, NEW r, r = Tail(q)
    PROVE  /\ \A k \in DOMAIN r : k + 1 \in DOMAIN q /\ r[k] = q[k + 1] /\ k \in Nat \ {0}
           /\ \A k \in DOMAIN q : k # 1 => k - 1 \in DOMAIN r /\ r[k - 1] = q[k] /\ k \in Nat \ {0}
           /\ q[1] \in Nat
    BY SMTT(60)

\* And the rest is complete then.
LEMMA QueueCompleteCarried ==
    ASSUME NEW q \in Seq(Nat), q # <<>>, NEW r, r = Tail(q), NEW out \in Seq(Subscriber \X Nat),
           NEW s \in Subscriber, NEW m \in Nat, m = q[1], NEW out2, out2 = Append(out, <<s, m>>),
           NEW pending, QueueComplete(q, out, s, pending)
    PROVE  /\ QueueComplete(r, out2, s, pending)
           /\ AllQueued(q, out, s, pending) => AllQueued(r, out2, s, pending)
<1>0. /\ \A k \in DOMAIN r : k + 1 \in DOMAIN q /\ r[k] = q[k + 1] /\ k \in Nat \ {0}
      /\ \A k \in DOMAIN q : k # 1 => k - 1 \in DOMAIN r /\ r[k - 1] = q[k] /\ k \in Nat \ {0}
      /\ q[1] \in Nat
  <2>1. \A k \in DOMAIN r : k + 1 \in DOMAIN q /\ r[k] = q[k + 1] /\ k \in Nat \ {0}
      BY SMTT(60), OneLessQueue
  <2>2. \A k \in DOMAIN q : k # 1 => k - 1 \in DOMAIN r /\ r[k - 1] = q[k] /\ k \in Nat \ {0}
      BY SMTT(60), OneLessQueue
  <2>3. q[1] \in Nat
      BY OneLessQueue
  <2> QED
      BY <2>1, <2>2, <2>3
<1>1. Sent(out2, s, m)
    BY SentMore
<1>2. \A n : Sent(out, s, n) => Sent(out2, s, n)
    BY SentMore
<1>3. ASSUME NEW n, NEW l \in DOMAIN q, q[l] = n
      PROVE  Sent(out2, s, n) \/ (l - 1 \in DOMAIN r /\ r[l - 1] = n)
    BY <1>0, <1>1, <1>3
<1>4. ASSUME NEW k \in DOMAIN r
      PROVE  /\ r[k] \in pending
             /\ \A n \in pending : n < r[k] => Sent(out2, s, n) \/ \E l \in DOMAIN r : l < k /\ r[l] = n
  <2>0. k + 1 \in DOMAIN q /\ r[k] = q[k + 1]
      BY <1>0
  <2>1. /\ q[k + 1] \in pending
        /\ \A n \in pending : n < q[k + 1] => Sent(out, s, n) \/ \E l \in DOMAIN q : l < k + 1 /\ q[l] = n
      BY <2>0 DEF QueueComplete
  <2>2. ASSUME NEW n \in pending, n < r[k], ~Sent(out2, s, n)
        PROVE  \E l \in DOMAIN r : l < k /\ r[l] = n
    <3>1. PICK l \in DOMAIN q : l < k + 1 /\ q[l] = n
        BY <1>2, <2>0, <2>1, <2>2
    <3>2. l - 1 \in DOMAIN r /\ r[l - 1] = n
        BY <1>3, <2>2, <3>1
    <3>3. l - 1 < k
        BY SMTT(60), <1>0, <3>1
    <3> QED
        BY <3>2, <3>3
  <2> QED
      BY <2>0, <2>1, <2>2
<1>5. ASSUME AllQueued(q, out, s, pending)
      PROVE  AllQueued(r, out2, s, pending)
  <2>1. ASSUME NEW n \in pending
        PROVE  Sent(out2, s, n) \/ \E l \in DOMAIN r : r[l] = n
    <3>1. Sent(out, s, n) \/ \E l \in DOMAIN q : q[l] = n
        BY <1>5 DEF AllQueued
    <3> QED
        BY <1>2, <1>3, <3>1
  <2> QED
      BY <2>1 DEF AllQueued
<1> QED
    BY <1>4, <1>5 DEF QueueComplete

\* The client has got the least pending.
LEMMA QueueCompleteDelivered ==
    ASSUME NEW q, NEW out \in Seq(Subscriber \X Nat), out # <<>>, NEW out2, out2 = Tail(out),
           NEW s, NEW m, out[1] = <<s, m>>, NEW pending, QueueComplete(q, out, s, pending),
           \A k \in DOMAIN q : q[k] # m
    PROVE  /\ QueueComplete(q, out2, s, pending \ {m})
           /\ AllQueued(q, out, s, pending) => AllQueued(q, out2, s, pending \ {m})
<1>1. ASSUME NEW n, n # m, Sent(out, s, n)
      PROVE  Sent(out2, s, n)
  <2>1. out[1] # <<s, n>>
      BY SMTT(60), <1>1
  <2> QED
      BY <1>1, <2>1, SentLess
<1>2. \A n \in pending \ {m} : n \in pending /\ n # m
    OBVIOUS
<1>3. ASSUME NEW k \in DOMAIN q
      PROVE  q[k] \in pending \ {m}
    BY DEF QueueComplete
<1>4. ASSUME NEW k \in DOMAIN q, NEW n \in pending \ {m}, n < q[k]
      PROVE  Sent(out2, s, n) \/ \E l \in DOMAIN q : l < k /\ q[l] = n
    BY <1>1, <1>2, <1>4 DEF QueueComplete
<1>5. ASSUME AllQueued(q, out, s, pending), NEW n \in pending \ {m}
      PROVE  Sent(out2, s, n) \/ \E l \in DOMAIN q : q[l] = n
    BY <1>1, <1>2, <1>5 DEF AllQueued
<1>6. QueueComplete(q, out2, s, pending \ {m})
    BY <1>3, <1>4 DEF QueueComplete
<1>7. ASSUME AllQueued(q, out, s, pending)
      PROVE  AllQueued(q, out2, s, pending \ {m})
  <2>1. \A n \in pending \ {m} : Sent(out2, s, n) \/ \E l \in DOMAIN q : q[l] = n
      BY <1>5, <1>7
  <2> QED
      BY <2>1 DEF AllQueued
<1> QED
    BY <1>6, <1>7

\* A message is published that is not queued.
LEMMA QueueCompletePublished ==
    ASSUME NEW q \in Seq(Nat), NEW out, NEW s, NEW pending, QueueComplete(q, out, s, pending),
           NEW top \in Nat, Increasing(q, top), NEW pending2, pending2 = pending \cup {top + 1}
    PROVE  QueueComplete(q, out, s, pending2)
<1>1. ASSUME NEW k \in DOMAIN q, NEW n \in pending2, n < q[k]
      PROVE  n \in pending
  <2>1. q[k] \in Nat /\ q[k] <= top
      BY SMTT(60) DEF Increasing
  <2> QED
      BY SMTT(60), <1>1, <2>1
<1>2. \A k \in DOMAIN q : q[k] \in pending2
    BY DEF QueueComplete
<1> QED
    BY <1>1, <1>2 DEF QueueComplete

\* And one that is.
LEMMA QueueCompleteQueued ==
    ASSUME NEW q \in Seq(Nat), NEW out, NEW s, NEW pending, QueueComplete(q, out, s, pending),
           AllQueued(q, out, s, pending), NEW top \in Nat, Increasing(q, top),
           NEW pending2, pending2 = pending \cup {top + 1}, NEW r, r = Append(q, top + 1)
    PROVE  QueueComplete(r, out, s, pending2) /\ AllQueued(r, out, s, pending2)
<1> DEFINE e == Len(q) + 1
<1>1. /\ DOMAIN r = DOMAIN q \cup {e} /\ r[e] = top + 1
      /\ \A k \in DOMAIN q : r[k] = q[k] /\ k < e
    BY SMTT(60)
<1> HIDE DEF e
<1>2. \A n \in pending2 : n < top + 1 => n \in pending
    BY SMTT(60)
<1>3. QueueComplete(q, out, s, pending2)
    BY QueueCompletePublished
<1>4. ASSUME NEW n \in pending
      PROVE  Sent(out, s, n) \/ \E l \in DOMAIN r : l < e /\ r[l] = n
  <2>1. ASSUME NEW l \in DOMAIN q, q[l] = n
        PROVE  l \in DOMAIN r /\ l < e /\ r[l] = n
      BY <1>1, <2>1
  <2>2. Sent(out, s, n) \/ \E l \in DOMAIN q : q[l] = n
      BY DEF AllQueued
  <2> QED
      BY <2>1, <2>2
<1>5. ASSUME NEW k \in DOMAIN q
      PROVE  /\ r[k] \in pending2
             /\ \A n \in pending2 : n < r[k] => Sent(out, s, n) \/ \E l \in DOMAIN r : l < k /\ r[l] = n
  <2>1. r[k] = q[k] /\ \A l \in DOMAIN q : l \in DOMAIN r /\ r[l] = q[l]
      BY <1>1
  <2>2. /\ q[k] \in pending2
        /\ \A n \in pending2 : n < q[k] => Sent(out, s, n) \/ \E l \in DOMAIN q : l < k /\ q[l] = n
      BY <1>3 DEF QueueComplete
  <2>3. ASSUME NEW n, NEW l \in DOMAIN q, l < k, q[l] = n
        PROVE  l \in DOMAIN r /\ l < k /\ r[l] = n
      BY <2>1, <2>3
  <2> QED
      BY <2>1, <2>2, <2>3
<1>6. /\ r[e] \in pending2
      /\ \A n \in pending2 : n < r[e] => Sent(out, s, n) \/ \E l \in DOMAIN r : l < e /\ r[l] = n
  <2>1. r[e] = top + 1 /\ top + 1 \in pending2
      BY <1>1
  <2> QED
      BY <1>2, <1>4, <2>1
<1>7. QueueComplete(r, out, s, pending2)
  <2>1. \A k \in DOMAIN r : k \in DOMAIN q \/ k = e
      BY SMTT(60), <1>1
  <2>2. ASSUME NEW k \in DOMAIN r
        PROVE  /\ r[k] \in pending2
               /\ \A n \in pending2 : n < r[k] => Sent(out, s, n) \/ \E l \in DOMAIN r : l < k /\ r[l] = n
    <3>1. CASE k \in DOMAIN q
        BY <1>5, <3>1
    <3>2. CASE k = e
        BY <1>6, <3>2
    <3> QED
        BY <2>1, <3>1, <3>2
  <2> QED
      BY <2>2 DEF QueueComplete
<1>8. AllQueued(r, out, s, pending2)
  <2>1. e \in DOMAIN r /\ r[e] = top + 1 /\ \A n \in pending2 : n \in pending \/ n = top + 1
      BY <1>1
  <2> QED
      BY <1>4, <2>1 DEF AllQueued
<1> QED
    BY <1>7, <1>8

\* A published message is after all those in the queue of the connection.
LEMMA OutInOrderPublished ==
    ASSUME NEW out \in Seq(Subscriber \X Nat), NEW msgs \in [Subscriber -> Seq(Nat)],
           NEW top \in Nat, OutInOrder(out, msgs, top), NEW msgs2,
           \A t \in Subscriber : msgs2[t] = msgs[t] \/ msgs2[t] = Append(msgs[t], top + 1)
    PROVE  OutInOrder(out, msgs2, top + 1)
<1>1. ASSUME NEW i \in DOMAIN out
      PROVE  /\ out[i][1] \in Subscriber /\ out[i][2] \in Nat /\ out[i][2] <= top
             /\ \A j \in DOMAIN out : i < j /\ out[i][1] = out[j][1] => out[i][2] < out[j][2]
             /\ \A k \in DOMAIN msgs[out[i][1]] : out[i][2] < msgs[out[i][1]][k]
  <2>1. out[i] \in Subscriber \X Nat
      BY SMTT(60)
  <2>2. out[i][1] \in Subscriber /\ out[i][2] \in Nat
      BY <2>1
  <2> QED
      BY <2>2 DEF OutInOrder
<1>2. ASSUME NEW i \in DOMAIN out
      PROVE  out[i][2] <= top + 1 /\ \A k \in DOMAIN msgs2[out[i][1]] : out[i][2] < msgs2[out[i][1]][k]
  <2> DEFINE q == msgs[out[i][1]]
             r == msgs2[out[i][1]]
             x == out[i][2]
  <2>1. /\ q \in Seq(Nat) /\ (r = q \/ r = Append(q, top + 1)) /\ x \in Nat /\ x <= top
        /\ \A k \in DOMAIN q : x < q[k]
    <3>1. /\ out[i][1] \in Subscriber /\ x \in Nat /\ x <= top
          /\ \A k \in DOMAIN q : x < q[k]
        BY <1>1
    <3>2. q \in Seq(Nat) /\ (r = q \/ r = Append(q, top + 1))
        BY <3>1
    <3> QED
        BY <3>1, <3>2
  <2> HIDE DEF q, r, x
  <2>2. x <= top + 1
      BY SMTT(60), <2>1
  <2>3. ASSUME NEW k \in DOMAIN r
        PROVE  x < r[k]
    <3>1. CASE r = q
        BY <2>1, <3>1
    <3>2. CASE r = Append(q, top + 1)
      <4>1. (k \in DOMAIN q /\ r[k] = q[k]) \/ r[k] = top + 1
          BY SMTT(60), <2>1, <3>2
      <4> QED
          BY SMTT(60), <2>1, <4>1
    <3> QED
        BY SMTT(60), <2>1, <3>1, <3>2
  <2> QED
      BY <2>2, <2>3 DEF q, r, x
<1> QED
    BY <1>1, <1>2 DEF OutInOrder

\* And what is left of the queue of a connection is in order.
LEMMA OutInOrderLess ==
    ASSUME NEW out \in Seq(Subscriber \X Nat), out # <<>>, NEW out2, out2 = Tail(out),
           NEW msgs, NEW top, OutInOrder(out, msgs, top)
    PROVE  OutInOrder(out2, msgs, top) /\ To(out2) \subseteq To(out)
<1>0. \A i \in DOMAIN out2 : i + 1 \in DOMAIN out /\ out2[i] = out[i + 1] /\ i \in Nat \ {0}
    BY SMTT(60), OneLessOut
<1>1. \A i, j \in DOMAIN out2 : i < j => i + 1 < j + 1
    BY SMTT(60), <1>0
<1>2. ASSUME NEW i \in DOMAIN out2
      PROVE  /\ out2[i][2] <= top
             /\ \A j \in DOMAIN out2 : i < j /\ out2[i][1] = out2[j][1] => out2[i][2] < out2[j][2]
             /\ \A k \in DOMAIN msgs[out2[i][1]] : out2[i][2] < msgs[out2[i][1]][k]
  <2> DEFINE d == i + 1
  <2>1. d \in DOMAIN out /\ out2[i] = out[d]
      BY <1>0
  <2> HIDE DEF d
  <2>2. /\ out[d][2] <= top
        /\ \A j \in DOMAIN out : d < j /\ out[d][1] = out[j][1] => out[d][2] < out[j][2]
        /\ \A k \in DOMAIN msgs[out[d][1]] : out[d][2] < msgs[out[d][1]][k]
      BY <2>1 DEF OutInOrder
  <2>3. ASSUME NEW j \in DOMAIN out2, i < j, out2[i][1] = out2[j][1]
        PROVE  out2[i][2] < out2[j][2]
    <3>1. j + 1 \in DOMAIN out /\ out2[j] = out[j + 1] /\ d < j + 1
        BY SMTT(60), <1>0, <1>1, <2>3 DEF d
    <3> QED
        BY <2>1, <2>2, <2>3, <3>1
  <2> QED
      BY <2>1, <2>2, <2>3
<1>3. To(out2) \subseteq To(out)
    BY SMTT(60), <1>0 DEF To
<1> QED
    BY <1>2, <1>3 DEF OutInOrder

-----------------------------------------------------------------------------
\* Steps that only take away subscriptions, tasks and connections.
LEMMA Shrinks ==
    ASSUME GapInv, QueueTypes',
           UNCHANGED <<messages, subscribed_messages, published, due, delivered>>,
           \A h \in Handler : subscriptions'[h] \subseteq subscriptions[h] /\ (Live(h)' => Live(h)),
           task' \subseteq task, subscribers' \subseteq subscribers
    PROVE  GapInv'
<1>1. Pending' = Pending
    BY DEF Pending
<1>2. InOrder'
    BY DEF GapInv, InOrder
<1>3. OnePath'
    BY SMTT(60) DEF GapInv, OnePath, Reach
<1>4. OutWhole'
    BY <1>1 DEF GapInv, OutWhole
<1>5. MessagesWhole'
    BY <1>1 DEF GapInv, MessagesWhole
<1>6. NoGaps'
    BY DEF GapInv, NoGaps
<1> QED
    BY <1>2, <1>3, <1>4, <1>5, <1>6 DEF GapInv

\* What publish does to one subscriber: nothing, or the message is due and queued, or it
\* is due, the queue is full and the feed drops the subscriber.
Passed(s) == messages'[s] = messages[s] /\ due'[s] = due[s]
Queued(s) ==
    /\ messages'[s] = Append(messages[s], published + 1)
    /\ due'[s] = Append(due[s], published + 1)
    /\ s \in subscribers
Missed(s) ==
    /\ messages'[s] = messages[s]
    /\ due'[s] = Append(due[s], published + 1)
    /\ s \notin subscribers'

\* One of these.
LEMMA PublishDoes ==
    ASSUME QueueTypes, Publish
    PROVE  /\ published' = published + 1 /\ subscribers' \subseteq subscribers
           /\ DOMAIN messages' = Subscriber /\ DOMAIN due' = Subscriber
           /\ messages' = [s \in Subscriber |-> messages'[s]] /\ due' = [s \in Subscriber |-> due'[s]]
           /\ UNCHANGED <<subscriptions, task, subscribed_messages, connection, delivered>>
           /\ \A s \in Subscriber : Passed(s) \/ Queued(s) \/ Missed(s)
<1>0. PICK outcome \in [subscribers -> {"publish", "skip", "raise"}] :
          LET reached == {s \in subscribers \ should_exit : outcome[s] = "publish"}
              bad == BadSubscribers(outcome)
          IN  /\ messages' = [s \in Subscriber |-> IF s \in reached /\ ~Full(s)
                                 THEN Append(messages[s], published') ELSE messages[s]]
              /\ due' = [s \in Subscriber |-> IF s \in reached
                            THEN Append(due[s], published') ELSE due[s]]
              /\ subscribers' = subscribers \ bad
    BY DEF Publish
<1> DEFINE reached == {s \in subscribers \ should_exit : outcome[s] = "publish"}
<1>1. /\ published' = published + 1
      /\ UNCHANGED <<subscriptions, task, subscribed_messages, connection, delivered>>
    BY SMTT(60) DEF Publish
<1>2. /\ messages' = [s \in Subscriber |-> IF s \in reached /\ ~Full(s)
                         THEN Append(messages[s], published + 1) ELSE messages[s]]
      /\ due' = [s \in Subscriber |-> IF s \in reached THEN Append(due[s], published + 1) ELSE due[s]]
      /\ subscribers' = subscribers \ BadSubscribers(outcome)
    BY <1>0, <1>1
<1>3. ASSUME NEW s \in Subscriber, s \in reached, Full(s)
      PROVE  s \notin subscribers'
    BY <1>2, <1>3 DEF BadSubscribers
<1>4. ASSUME NEW s \in Subscriber
      PROVE  Passed(s) \/ Queued(s) \/ Missed(s)
  <2>1. CASE s \notin reached
      BY <1>2, <2>1 DEF Passed
  <2>2. CASE s \in reached /\ Full(s)
      BY <1>2, <1>3, <2>2 DEF Missed
  <2>3. CASE s \in reached /\ ~Full(s)
      BY <1>2, <2>3 DEF Queued
  <2> QED
      BY <2>1, <2>2, <2>3
<1> QED
    BY <1>1, <1>2, <1>4

\* What Subscribe does.
LEMMA SubscribeDoes ==
    ASSUME NEW h \in Handler, NEW s \in Subscriber, Subscribe(h, s)
    PROVE  /\ due[s] = <<>> /\ \A g \in Handler : s \notin subscriptions[g]
           /\ subscribers' = subscribers \cup {s} /\ task' = task \cup {s}
           /\ subscriptions' = [subscriptions EXCEPT ![h] = @ \cup {s}]
           /\ UNCHANGED <<messages, subscribed_messages, connection, published, due, delivered>>
BY DEF Subscribe, history

\* What publish keeps.
LEMMA PublishTypes ==
    ASSUME QueueTypes, Publish
    PROVE  QueueTypes'
<1>1. published + 1 \in Nat
    BY SMTT(60) DEF QueueTypes
<1>2. ASSUME NEW s \in Subscriber
      PROVE  messages'[s] \in Seq(Nat) /\ due'[s] \in Seq(Nat)
  <2>1. messages[s] \in Seq(Nat) /\ due[s] \in Seq(Nat)
      BY DEF QueueTypes
  <2>2. /\ messages'[s] \in {messages[s], Append(messages[s], published + 1)}
        /\ due'[s] \in {due[s], Append(due[s], published + 1)}
      BY PublishDoes DEF Passed, Queued, Missed
  <2>3. Append(messages[s], published + 1) \in Seq(Nat) /\ Append(due[s], published + 1) \in Seq(Nat)
      BY SMTT(60), <1>1, <2>1
  <2> QED
      BY <2>1, <2>2, <2>3
<1>3. messages' \in [Subscriber -> Seq(Nat)] /\ due' \in [Subscriber -> Seq(Nat)]
    BY <1>2, PublishDoes
<1> QED
    BY <1>1, <1>3, PublishDoes DEF QueueTypes

\* And Subscribe.
LEMMA SubscribeTypes ==
    ASSUME QueueTypes, NEW h \in Handler, NEW s \in Subscriber, Subscribe(h, s)
    PROVE  QueueTypes'
<1>1. subscriptions' \in [Handler -> SUBSET Subscriber]
  <2>1. subscriptions[h] \cup {s} \in SUBSET Subscriber
      BY DEF QueueTypes
  <2>2. subscriptions' = [subscriptions EXCEPT ![h] = subscriptions[h] \cup {s}]
      BY SubscribeDoes
  <2>3. subscriptions \in [Handler -> SUBSET Subscriber]
      BY DEF QueueTypes
  <2> QED
      BY SMTT(60), <2>1, <2>2, <2>3
<1>2. subscribers' \subseteq Subscriber /\ task' \subseteq Subscriber
    BY SMTT(60), SubscribeDoes DEF QueueTypes
<1> QED
    BY <1>1, <1>2, SubscribeDoes DEF QueueTypes

\* A new subscriber has nothing due and nothing in a queue.
LEMMA SubscribeKeeps ==
    ASSUME GapInv, NEW h \in Handler, NEW s \in Subscriber, Subscribe(h, s)
    PROVE  GapInv'
<1>0. QueueTypes /\ QueueTypes' /\ InOrder /\ OnePath /\ OutWhole /\ MessagesWhole /\ NoGaps
    BY SMTT(60), SubscribeTypes DEF GapInv
<1>1. /\ due[s] = <<>> /\ \A g \in Handler : s \notin subscriptions[g]
      /\ subscribers' = subscribers \cup {s} /\ task' = task \cup {s}
      /\ subscriptions'[h] = subscriptions[h] \cup {s}
      /\ \A g \in Handler : g # h => subscriptions'[g] = subscriptions[g]
      /\ UNCHANGED <<messages, subscribed_messages, connection, published, due, delivered>>
    BY SMTT(60), <1>0, SubscribeDoes DEF QueueTypes
<1>2. Pending' = Pending /\ \A g \in Handler : Live(g)' <=> Live(g)
    BY <1>1 DEF Pending, Live
<1>3. messages[s] = <<>> /\ \A g \in Handler : s \notin Reach(g)
    BY <1>0, <1>1 DEF OnePath, Reach
<1>4. Pending[s] = {}
    BY SMTT(60), <1>0, <1>1 DEF Pending, After, NoGaps, QueueTypes
<1>5. InOrder'
    BY <1>0, <1>1 DEF InOrder
<1>6. OnePath'
  <2>1. Reach(h)' = Reach(h) \cup {s} /\ \A g \in Handler : g # h => Reach(g)' = Reach(g)
      BY <1>1 DEF Reach
  <2>2. ASSUME NEW f \in Handler, NEW g \in Handler, f # g
        PROVE  Reach(f)' \cap Reach(g)' = {}
    <3>1. Reach(f) \cap Reach(g) = {}
        BY SMTT(60), <1>0, <2>2 DEF OnePath
    <3> QED
        BY <1>3, <2>1, <2>2, <3>1
  <2> QED
      BY <1>0, <1>1, <2>2 DEF OnePath
<1>7. OutWhole'
    BY <1>0, <1>1, <1>2 DEF OutWhole
<1>8. MessagesWhole'
  <2>1. ASSUME NEW g \in Handler, Live(g), NEW t \in subscriptions'[g] \cap task'
        PROVE  /\ QueueComplete(messages[t], subscribed_messages[g], t, Pending[t])
               /\ t \in subscribers' => AllQueued(messages[t], subscribed_messages[g], t, Pending[t])
    <3>1. CASE t = s
        BY SMTT(60), <1>3, <1>4, <3>1 DEF QueueComplete, AllQueued
    <3>2. CASE t # s
      <4>1. t \in subscriptions[g] \cap task /\ (t \in subscribers' => t \in subscribers)
          BY <1>1, <2>1, <3>2
      <4> QED
          BY <1>0, <2>1, <4>1 DEF MessagesWhole
    <3> QED
        BY <3>1, <3>2
  <2> QED
      BY <1>1, <1>2, <2>1 DEF MessagesWhole
<1>9. NoGaps'
    BY <1>0, <1>1 DEF NoGaps
<1> QED
    BY <1>0, <1>5, <1>6, <1>7, <1>8, <1>9 DEF GapInv

\* A queue of a connection stays in order when the one of a subscriber gets shorter.
LEMMA OutInOrderTurn ==
    ASSUME NEW out \in Seq(Subscriber \X Nat), NEW msgs, NEW top, OutInOrder(out, msgs, top),
           NEW s \in Subscriber, NEW msgs2, \A t \in Subscriber : t # s => msgs2[t] = msgs[t],
           \A k \in DOMAIN msgs2[s] : k + 1 \in DOMAIN msgs[s] /\ msgs2[s][k] = msgs[s][k + 1]
    PROVE  OutInOrder(out, msgs2, top)
<1>1. ASSUME NEW i \in DOMAIN out, NEW k \in DOMAIN msgs2[out[i][1]]
      PROVE  out[i][2] < msgs2[out[i][1]][k]
  <2>1. \A l \in DOMAIN msgs[out[i][1]] : out[i][2] < msgs[out[i][1]][l]
      BY DEF OutInOrder
  <2>2. out[i][1] \in Subscriber
      BY SMTT(60)
  <2>3. CASE out[i][1] = s
      BY <1>1, <2>1, <2>3
  <2>4. CASE out[i][1] # s
      BY <1>1, <2>1, <2>2, <2>4
  <2> QED
      BY <2>3, <2>4
<1> QED
    BY <1>1 DEF OutInOrder

\* What is common to the turns of handle_subscription.
LEMMA TurnDoes ==
    ASSUME GapInv, NEW s \in Subscriber, messages[s] # <<>>, messages' = [messages EXCEPT ![s] = Tail(@)],
           UNCHANGED <<published, due, delivered>>
    PROVE  /\ messages' \in [Subscriber -> Seq(Nat)] /\ published \in Nat
           /\ messages[s] \in Seq(Nat) /\ messages'[s] = Tail(messages[s])
           /\ \A t \in Subscriber : t # s => messages'[t] = messages[t]
           /\ \A t \in Subscriber : Increasing(due'[t], published') /\ Increasing(messages'[t], published')
           /\ \A t \in Subscriber : messages'[t] # <<>> => due'[t] # <<>>
           /\ \A k \in DOMAIN messages'[s] :
                 k + 1 \in DOMAIN messages[s] /\ messages'[s][k] = messages[s][k + 1]
           /\ Increasing(messages[s], published) /\ due[s] # <<>>
           /\ NoGaps' /\ Pending' = Pending
           /\ \A out \in Seq(Subscriber \X Nat) :
                OutInOrder(out, messages, published) => OutInOrder(out, messages', published')
<1>0. QueueTypes /\ InOrder /\ OnePath /\ NoGaps
    BY DEF GapInv
<1> DEFINE q == messages[s]
           r == messages'[s]
<1>1. /\ q \in Seq(Nat) /\ q # <<>> /\ r = Tail(q) /\ Increasing(q, published) /\ published \in Nat
      /\ \A t \in Subscriber : t # s => messages'[t] = messages[t]
    BY <1>0 DEF QueueTypes, InOrder
<1> HIDE DEF q, r
<1>2. Increasing(r, published)
    BY <1>1, IncreasingTail
<1>3. r \in Seq(Nat) /\ \A k \in DOMAIN r : k + 1 \in DOMAIN q /\ r[k] = q[k + 1]
    BY SMTT(60), <1>1
<1>4. messages' \in [Subscriber -> Seq(Nat)]
    BY <1>0, <1>1, <1>3 DEF QueueTypes, r
<1>5. \A t \in Subscriber : Increasing(due'[t], published') /\ Increasing(messages'[t], published')
    BY <1>0, <1>1, <1>2 DEF InOrder, r
<1>6. \A t \in Subscriber : messages'[t] # <<>> => due'[t] # <<>>
    BY <1>0, <1>1 DEF OnePath
<1>7. NoGaps' /\ Pending' = Pending
    BY <1>0 DEF NoGaps, Pending
<1>8. due[s] # <<>>
    BY <1>0 DEF OnePath
<1>9. ASSUME NEW out \in Seq(Subscriber \X Nat), OutInOrder(out, messages, published)
      PROVE  OutInOrder(out, messages', published')
  <2>1. \A t \in Subscriber : t # s => messages'[t] = messages[t]
      BY <1>1
  <2>2. \A k \in DOMAIN messages'[s] : k + 1 \in DOMAIN messages[s] /\ messages'[s][k] = messages[s][k + 1]
      BY <1>3 DEF q, r
  <2>3. OutInOrder(out, messages', published)
      BY <1>9, <2>1, <2>2, OutInOrderTurn
  <2> QED
      BY <2>3
<1>10. /\ messages[s] \in Seq(Nat) /\ messages'[s] = Tail(messages[s])
       /\ \A k \in DOMAIN messages'[s] : k + 1 \in DOMAIN messages[s] /\ messages'[s][k] = messages[s][k + 1]
       /\ Increasing(messages[s], published) /\ published \in Nat
       /\ \A t \in Subscriber : t # s => messages'[t] = messages[t]
    BY <1>1, <1>3 DEF q, r
<1> QED
    BY <1>4, <1>5, <1>6, <1>7, <1>8, <1>9, <1>10

\* The queue of the connection is full: the task ends, and what follows stays behind.
LEMMA TaskEndsKeeps ==
    ASSUME GapInv, NEW s \in Subscriber, messages[s] # <<>>,
           messages' = [messages EXCEPT ![s] = Tail(@)], task' = task \ {s},
           UNCHANGED <<subscribers, subscriptions, subscribed_messages, connection,
                       published, due, delivered>>
    PROVE  GapInv'
<1>0. QueueTypes /\ InOrder /\ OnePath /\ OutWhole /\ MessagesWhole /\ NoGaps
    BY DEF GapInv
<1>1. /\ messages' \in [Subscriber -> Seq(Nat)]
      /\ \A t \in Subscriber : t # s => messages'[t] = messages[t]
      /\ \A t \in Subscriber : Increasing(due'[t], published') /\ Increasing(messages'[t], published')
      /\ \A t \in Subscriber : messages'[t] # <<>> => due'[t] # <<>>
      /\ \A k \in DOMAIN messages'[s] : k + 1 \in DOMAIN messages[s] /\ messages'[s][k] = messages[s][k + 1]
      /\ NoGaps' /\ Pending' = Pending
      /\ \A o \in Seq(Subscriber \X Nat) :
            OutInOrder(o, messages, published) => OutInOrder(o, messages', published')
    BY TurnDoes
<1>2. QueueTypes'
    BY <1>0, <1>1 DEF QueueTypes
<1>4. InOrder'
  <2>1. ASSUME NEW h \in Handler
        PROVE  OutInOrder(subscribed_messages'[h], messages', published')
    <3>1. /\ subscribed_messages[h] \in Seq(Subscriber \X Nat)
          /\ OutInOrder(subscribed_messages[h], messages, published)
        BY SMTT(60), <1>0 DEF QueueTypes, InOrder
    <3>2. OutInOrder(subscribed_messages[h], messages', published')
        BY <1>1, <3>1
    <3>3. subscribed_messages' = subscribed_messages
        OBVIOUS
    <3> QED
        BY <3>2, <3>3
  <2>2. \A t \in Subscriber : Increasing(due'[t], published') /\ Increasing(messages'[t], published')
      BY <1>1
  <2> QED
      BY <2>1, <2>2 DEF InOrder
<1>5. OnePath'
  <2>1. \A g \in Handler : Reach(g)' = Reach(g)
      BY DEF Reach
  <2>2. \A f, g \in Handler : f # g => Reach(f)' \cap Reach(g)' = {}
      BY <1>0, <2>1 DEF OnePath
  <2>3. \A g \in Handler : \A t \in To(subscribed_messages'[g]) : due'[t] # <<>>
      BY <1>0 DEF OnePath
  <2>4. \A t \in Subscriber : messages'[t] # <<>> => due'[t] # <<>>
      BY <1>1
  <2> QED
      BY <2>2, <2>3, <2>4 DEF OnePath
<1>6. \A h \in Handler : Live(h)' <=> Live(h)
    BY DEF Live
<1>7. OutWhole'
    BY <1>0, <1>1, <1>6 DEF OutWhole
<1>8. MessagesWhole'
  <2>1. ASSUME NEW g \in Handler, Live(g), NEW t \in subscriptions[g] \cap (task \ {s})
        PROVE  messages'[t] = messages[t] /\ t \in subscriptions[g] \cap task
      BY <1>0, <1>1, <2>1 DEF QueueTypes
  <2> QED
      BY SMTT(60), <1>0, <1>1, <1>6, <2>1 DEF MessagesWhole
<1> QED
    BY <1>1, <1>2, <1>4, <1>5, <1>7, <1>8 DEF GapInv

\* The task carries a message to the queue of the connection.
LEMMA CarryKeeps ==
    ASSUME GapInv, NEW h \in Handler, NEW s \in Subscriber, s \in subscriptions[h] \cap task,
           messages[s] # <<>>, messages' = [messages EXCEPT ![s] = Tail(@)],
           subscribed_messages' = [subscribed_messages EXCEPT ![h] = Append(@, <<s, Head(messages[s])>>)],
           UNCHANGED <<subscribers, subscriptions, task, connection, published, due, delivered>>
    PROVE  GapInv'
<1>0. QueueTypes /\ InOrder /\ OnePath /\ OutWhole /\ MessagesWhole /\ NoGaps
    BY DEF GapInv
<1>1. /\ messages' \in [Subscriber -> Seq(Nat)] /\ published \in Nat
      /\ messages[s] \in Seq(Nat) /\ messages'[s] = Tail(messages[s])
      /\ \A t \in Subscriber : t # s => messages'[t] = messages[t]
      /\ \A t \in Subscriber : Increasing(due'[t], published') /\ Increasing(messages'[t], published')
      /\ \A t \in Subscriber : messages'[t] # <<>> => due'[t] # <<>>
      /\ \A k \in DOMAIN messages'[s] : k + 1 \in DOMAIN messages[s] /\ messages'[s][k] = messages[s][k + 1]
      /\ Increasing(messages[s], published) /\ due[s] # <<>>
      /\ NoGaps' /\ Pending' = Pending
      /\ \A o \in Seq(Subscriber \X Nat) :
            OutInOrder(o, messages, published) => OutInOrder(o, messages', published')
    BY TurnDoes
<1> DEFINE m == messages[s][1]
           out == subscribed_messages[h]
           out2 == subscribed_messages'[h]
<1>2. /\ m \in Nat /\ out \in Seq(Subscriber \X Nat) /\ out2 = Append(out, <<s, m>>)
      /\ \A g \in Handler : g # h => subscribed_messages'[g] = subscribed_messages[g]
  <2>1. Head(messages[s]) = messages[s][1] /\ messages[s][1] \in Nat
      BY SMTT(60), <1>1
  <2> QED
      BY <1>0, <2>1 DEF QueueTypes
<1> HIDE DEF m, out, out2
<1>3. out2 \in Seq(Subscriber \X Nat) /\ To(out2) = To(out) \cup {s}
  <2>1. /\ out2 \in Seq(Subscriber \X Nat)
        /\ DOMAIN out2 = DOMAIN out \cup {Len(out) + 1}
        /\ \A i \in DOMAIN out : out2[i] = out[i]
        /\ out2[Len(out) + 1] = <<s, m>>
      BY SMTT(60), <1>2, OneMoreOut
  <2> QED
      BY SMTT(60), <2>1 DEF To
<1>4. QueueTypes'
  <2>1. subscribed_messages' \in [Handler -> Seq(Subscriber \X Nat)]
      BY <1>0, <1>2, <1>3 DEF QueueTypes, out2
  <2> QED
      BY <1>0, <1>1, <2>1 DEF QueueTypes
<1>5. InOrder'
  <2>1. OutInOrder(out2, messages', published)
    <3>1. OutInOrder(out, messages, published) /\ messages \in [Subscriber -> Seq(Nat)]
        BY <1>0 DEF InOrder, QueueTypes, out
    <3>2. out2 = Append(out, <<s, messages[s][1]>>)
        BY <1>2 DEF m
    <3>3. \A t \in Subscriber : t # s => messages'[t] = messages[t]
        BY <1>1
    <3>4. messages'[s] = Tail(messages[s]) /\ Increasing(messages[s], published) /\ published \in Nat
        BY <1>1
    <3>5. out \in Seq(Subscriber \X Nat)
        BY <1>2
    <3> QED
        BY <3>1, <3>2, <3>3, <3>4, <3>5, OutAppendOrder
  <2>2. ASSUME NEW g \in Handler, g # h
        PROVE  OutInOrder(subscribed_messages'[g], messages', published)
    <3>1. /\ subscribed_messages[g] \in Seq(Subscriber \X Nat)
          /\ OutInOrder(subscribed_messages[g], messages, published)
          /\ subscribed_messages'[g] = subscribed_messages[g]
        BY <1>0, <1>2, <2>2 DEF QueueTypes, InOrder
    <3>2. OutInOrder(subscribed_messages[g], messages', published')
        BY <1>1, <3>1
    <3> QED
        BY <3>1, <3>2
  <2>3. \A g \in Handler : OutInOrder(subscribed_messages'[g], messages', published')
    <3>1. OutInOrder(subscribed_messages'[h], messages', published)
        BY <2>1 DEF out2
    <3>2. published' = published
        OBVIOUS
    <3> QED
        BY <2>2, <3>1, <3>2
  <2>4. \A t \in Subscriber : Increasing(due'[t], published') /\ Increasing(messages'[t], published')
      BY <1>1
  <2> QED
      BY <2>3, <2>4 DEF InOrder
<1>6. OnePath'
  <2>1. \A g \in Handler : Reach(g)' = Reach(g)
    <3> TAKE g \in Handler
    <3>1. CASE g = h
        BY <1>3, <3>1 DEF Reach, out, out2
    <3>2. CASE g # h
        BY <1>2, <3>2 DEF Reach
    <3> QED
        BY SMTT(60), <3>1, <3>2
  <2>2. ASSUME NEW g \in Handler, NEW t \in To(subscribed_messages'[g])
        PROVE  due'[t] # <<>>
    <3>1. \A x \in To(subscribed_messages[g]) : due[x] # <<>>
        BY <1>0 DEF OnePath
    <3>2. CASE g = h
      <4>1. t \in To(out) \/ t = s
          BY SMTT(60), <1>3, <2>2, <3>2 DEF out2
      <4> QED
          BY <1>1, <3>1, <3>2, <4>1 DEF out
    <3>3. CASE g # h
        BY <1>2, <2>2, <3>1, <3>3
    <3> QED
        BY <3>2, <3>3
  <2>3. \A f, g \in Handler : f # g => Reach(f)' \cap Reach(g)' = {}
      BY <1>0, <2>1 DEF OnePath
  <2>4. \A t \in Subscriber : messages'[t] # <<>> => due'[t] # <<>>
      BY <1>1
  <2> QED
      BY <2>2, <2>3, <2>4 DEF OnePath
<1>7. \A g \in Handler : Live(g)' <=> Live(g)
    BY DEF Live
<1>8. ASSUME Live(h)
      PROVE  /\ OutComplete(out, Pending) /\ QueueComplete(messages[s], out, s, Pending[s])
             /\ s \in subscribers => AllQueued(messages[s], out, s, Pending[s])
    BY <1>0, <1>8 DEF OutWhole, MessagesWhole, out
<1>9. OutWhole'
  <2>1. ASSUME Live(h)
        PROVE  OutComplete(out2, Pending)
    <3>1. m \in Pending[s] /\ \A n \in Pending[s] : n < m => Sent(out, s, n)
        BY <1>1, <1>8, <2>1, FirstCanFollow DEF m
    <3> QED
        BY <1>2, <1>8, <2>1, <3>1, OutCompleteMore
  <2>2. ASSUME NEW g \in Handler, Live(g), g # h
        PROVE  OutComplete(subscribed_messages'[g], Pending)
      BY <1>0, <1>2, <2>2 DEF OutWhole
  <2> QED
      BY SMTT(60), <1>1, <1>7, <2>1, <2>2 DEF OutWhole, out2
<1>10. MessagesWhole'
  <2>1. ASSUME Live(h)
        PROVE  /\ QueueComplete(messages'[s], out2, s, Pending[s])
               /\ s \in subscribers => AllQueued(messages'[s], out2, s, Pending[s])
    <3>1. m = messages[s][1]
        BY DEF m
    <3>2. messages[s] \in Seq(Nat) /\ messages'[s] = Tail(messages[s])
        BY <1>1
    <3>3. QueueComplete(messages[s], out, s, Pending[s])
        BY <1>8, <2>1
    <3>4. /\ QueueComplete(messages'[s], out2, s, Pending[s])
          /\ AllQueued(messages[s], out, s, Pending[s]) => AllQueued(messages'[s], out2, s, Pending[s])
      <4> DEFINE q == messages[s]
                 r == messages'[s]
                 p == Pending[s]
      <4>1. q \in Seq(Nat) /\ q # <<>> /\ r = Tail(q) /\ m = q[1] /\ QueueComplete(q, out, s, p)
          BY <3>1, <3>2, <3>3
      <4>2. m \in Nat /\ out \in Seq(Subscriber \X Nat) /\ out2 = Append(out, <<s, m>>)
          BY <1>2
      <4> HIDE DEF q, r, p
      <4>3. QueueComplete(r, out2, s, p)
          BY <4>1, <4>2, QueueCompleteCarried
      <4>4. AllQueued(q, out, s, p) => AllQueued(r, out2, s, p)
          BY <4>1, <4>2, QueueCompleteCarried
      <4> QED
          BY SMTT(60), <4>3, <4>4 DEF q, r, p
    <3> QED
        BY <1>8, <2>1, <3>4
  <2>2. ASSUME NEW g \in Handler, Live(g), NEW t \in subscriptions[g] \cap task, t # s
        PROVE  /\ QueueComplete(messages'[t], subscribed_messages'[g], t, Pending[t])
               /\ t \in subscribers => AllQueued(messages'[t], subscribed_messages'[g], t, Pending[t])
    <3>1. messages'[t] = messages[t]
        BY <1>0, <1>1, <2>2 DEF QueueTypes
    <3>2. /\ QueueComplete(messages[t], subscribed_messages[g], t, Pending[t])
          /\ t \in subscribers => AllQueued(messages[t], subscribed_messages[g], t, Pending[t])
        BY <1>0, <2>2 DEF MessagesWhole
    <3>3. \A n : Sent(subscribed_messages[g], t, n) => Sent(subscribed_messages'[g], t, n)
      <4>1. \A n : Sent(out, t, n) => Sent(out2, t, n)
          BY <1>2, SentMore
      <4>2. CASE g = h
          BY <4>1, <4>2 DEF out, out2
      <4>3. CASE g # h
        <5>1. subscribed_messages'[g] = subscribed_messages[g]
            BY <1>2, <4>3
        <5> QED
            BY <5>1
      <4> QED
          BY <4>2, <4>3
    <3> QED
        BY <3>1, <3>2, <3>3, QueueCompleteMore
  <2>3. ASSUME NEW g \in Handler, s \in subscriptions[g]
        PROVE  g = h
      BY <1>0, <2>3 DEF OnePath, Reach
  <2>4. ASSUME NEW g \in Handler, Live(g), NEW t \in subscriptions[g] \cap task
        PROVE  /\ QueueComplete(messages'[t], subscribed_messages'[g], t, Pending[t])
               /\ t \in subscribers => AllQueued(messages'[t], subscribed_messages'[g], t, Pending[t])
    <3>1. CASE t = s
        BY <2>1, <2>3, <2>4, <3>1 DEF out2
    <3>2. CASE t # s
        BY <2>2, <2>4, <3>2
    <3> QED
        BY <3>1, <3>2
  <2>5. Pending' = Pending /\ subscriptions' = subscriptions /\ task' = task /\ subscribers' = subscribers
      BY <1>1
  <2> QED
      BY <1>7, <2>4, <2>5 DEF MessagesWhole
<1> QED
    BY <1>1, <1>4, <1>5, <1>6, <1>9, <1>10 DEF GapInv

\* A client gets the message that is due next: it is the first of those it is still to get.
LEMMA DeliverDoes ==
    ASSUME GapInv, NEW h \in Handler, NEW s \in Subscriber, NEW m \in Nat, Live(h),
           subscribed_messages[h] # <<>>, subscribed_messages[h][1] = <<s, m>>,
           delivered' = [delivered EXCEPT ![s] = Append(@, m)], UNCHANGED due
    PROVE  /\ delivered' \in [Subscriber -> Seq(Nat)]
           /\ NoGaps'
           /\ Pending' = Without(Pending, s, m)
<1>0. QueueTypes /\ InOrder /\ OutWhole /\ NoGaps
    BY DEF GapInv
<1> DEFINE q == due[s]
           d == delivered[s]
           e == delivered'[s]
           out == subscribed_messages[h]
<1>1. /\ q \in Seq(Nat) /\ d \in Seq(Nat) /\ Len(d) <= Len(q) /\ d = SubSeq(q, 1, Len(d))
      /\ e = Append(d, m)
      /\ \A t \in Subscriber : t # s => delivered'[t] = delivered[t]
      /\ out \in Seq(Subscriber \X Nat) /\ out # <<>> /\ out[1] = <<s, m>>
    BY <1>0 DEF QueueTypes, NoGaps
<1>2. \A p, r \in DOMAIN q : p < r => q[p] < q[r]
    BY <1>0 DEF InOrder, Increasing
<1>3. OutComplete(out, Pending)
    BY <1>0 DEF OutWhole
<1>4. Pending[s] = After(q, Len(d)) /\ Pending'[s] = After(q, Len(e))
    BY DEF Pending
<1> HIDE DEF q, d, e, out
<1>5. 1 \in DOMAIN out /\ out[1][1] = s /\ out[1][2] = m /\ \A j \in DOMAIN out : ~(j < 1)
    BY SMTT(60), <1>1
<1>6. m \in Pending[s] /\ \A k \in Pending[s] : ~(k < m)
  <2>1. /\ out[1][2] \in Pending[out[1][1]]
        /\ \A k \in Pending[out[1][1]] : k < out[1][2] =>
              \E j \in DOMAIN out : j < 1 /\ out[j] = <<out[1][1], k>>
      BY <1>3, <1>5 DEF OutComplete
  <2> QED
      BY <1>5, <2>1
<1>7. Len(d) \in 0..Len(q) /\ Len(e) = Len(d) + 1 /\ e \in Seq(Nat)
    BY SMTT(60), <1>1
<1>8. Len(d) + 1 \in 1..Len(q) /\ q[Len(d) + 1] = m /\ After(q, Len(d) + 1) = After(q, Len(d)) \ {m}
  <2>1. m \in After(q, Len(d)) /\ \A k \in After(q, Len(d)) : ~(k < m)
      BY <1>4, <1>6
  <2> DEFINE n == Len(d)
  <2>2. q \in Seq(Nat) /\ n \in 0..Len(q) /\ m \in After(q, n) /\ \A k \in After(q, n) : ~(k < m)
      BY <1>1, <1>7, <2>1
  <2> HIDE DEF n
  <2>3. n + 1 \in 1..Len(q) /\ q[n + 1] = m /\ After(q, n + 1) = After(q, n) \ {m}
      BY SMTT(60), <1>2, <2>2, AfterFirst
  <2> QED
      BY <2>3 DEF n
<1>9. e = SubSeq(q, 1, Len(d) + 1)
    BY SMTT(60), <1>1, <1>7, <1>8
<1>10. Pending'[s] = Pending[s] \ {m}
    BY <1>4, <1>7, <1>8
<1>11. ASSUME NEW t \in Subscriber, t # s
       PROVE  Pending'[t] = Pending[t] /\ delivered'[t] = delivered[t]
    BY SMTT(60), <1>1, <1>11 DEF Pending
<1>12. NoGaps'
  <2>1. ASSUME NEW t \in Subscriber
        PROVE  Len(delivered'[t]) <= Len(due'[t]) /\ delivered'[t] = SubSeq(due'[t], 1, Len(delivered'[t]))
    <3>1. CASE t = s
      <4>1. Len(e) <= Len(q) /\ e = SubSeq(q, 1, Len(e))
          BY SMTT(60), <1>7, <1>8, <1>9
      <4> QED
          BY SMTT(60), <3>1, <4>1 DEF e, q
    <3>2. CASE t # s
        BY <1>0, <1>11, <3>2 DEF NoGaps
    <3> QED
        BY <3>1, <3>2
  <2> QED
      BY <2>1 DEF NoGaps
<1>13. delivered' \in [Subscriber -> Seq(Nat)]
    BY <1>0, <1>7, <1>11 DEF QueueTypes, e
<1>14. Pending' = Without(Pending, s, m)
  <2>1. Pending' = [t \in Subscriber |-> Pending'[t]]
      BY SMTT(60) DEF Pending
  <2>2. \A t \in Subscriber : Pending'[t] = IF t = s THEN Pending[s] \ {m} ELSE Pending[t]
    <3> TAKE t \in Subscriber
    <3>1. CASE t = s
        BY <1>10, <3>1
    <3>2. CASE t # s
        BY <1>11, <3>2
    <3> QED
        BY <3>1, <3>2
  <2> QED
      BY <2>1, <2>2 DEF Without
<1> QED
    BY <1>12, <1>13, <1>14

\* A write takes the first message from the queue of the connection.
LEMMA WriteDoes ==
    ASSUME GapInv, NEW h \in Handler, subscribed_messages[h] # <<>>,
           subscribed_messages' = [subscribed_messages EXCEPT ![h] = Tail(@)],
           UNCHANGED <<messages, subscriptions, published, due>>
    PROVE  /\ subscribed_messages[h] \in Seq(Subscriber \X Nat)
           /\ subscribed_messages'[h] = Tail(subscribed_messages[h])
           /\ \A g \in Handler : g # h => subscribed_messages'[g] = subscribed_messages[g]
           /\ subscribed_messages' \in [Handler -> Seq(Subscriber \X Nat)]
           /\ InOrder' /\ OnePath'
<1>0. QueueTypes /\ InOrder /\ OnePath
    BY DEF GapInv
<1> DEFINE out == subscribed_messages[h]
           out2 == subscribed_messages'[h]
<1>1. /\ out \in Seq(Subscriber \X Nat) /\ out # <<>> /\ out2 = Tail(out)
      /\ \A g \in Handler : g # h => subscribed_messages'[g] = subscribed_messages[g]
      /\ OutInOrder(out, messages, published)
    BY <1>0 DEF QueueTypes, InOrder
<1> HIDE DEF out, out2
<1>2. OutInOrder(out2, messages, published) /\ To(out2) \subseteq To(out)
    BY <1>1, OutInOrderLess
<1>3. out2 \in Seq(Subscriber \X Nat)
    BY SMTT(60), <1>1
<1>4. subscribed_messages' \in [Handler -> Seq(Subscriber \X Nat)]
    BY <1>0, <1>1, <1>3 DEF QueueTypes, out2
<1>5. ASSUME NEW g \in Handler
      PROVE  /\ OutInOrder(subscribed_messages'[g], messages, published)
             /\ To(subscribed_messages'[g]) \subseteq To(subscribed_messages[g])
  <2>1. CASE g = h
      BY <1>2, <2>1 DEF out, out2
  <2>2. CASE g # h
      BY <1>0, <1>1, <2>2 DEF InOrder
  <2> QED
      BY <2>1, <2>2
<1>6. InOrder'
    BY <1>0, <1>5 DEF InOrder
<1>7. OnePath'
  <2>1. \A g \in Handler : Reach(g)' \subseteq Reach(g)
      BY <1>5 DEF Reach
  <2>2. ASSUME NEW f \in Handler, NEW g \in Handler, f # g
        PROVE  Reach(f)' \cap Reach(g)' = {}
    <3>1. Reach(f) \cap Reach(g) = {}
        BY <1>0, <2>2 DEF OnePath
    <3> QED
        BY <2>1, <3>1
  <2>3. \A g \in Handler : \A t \in To(subscribed_messages'[g]) : due'[t] # <<>>
      BY <1>0, <1>5 DEF OnePath
  <2>4. \A t \in Subscriber : messages'[t] # <<>> => due'[t] # <<>>
      BY <1>0 DEF OnePath
  <2> QED
      BY <2>2, <2>3, <2>4 DEF OnePath
<1> QED
    BY <1>1, <1>4, <1>6, <1>7 DEF out, out2

\* The write fails: the connection writes no more.
LEMMA BreakKeeps ==
    ASSUME GapInv, NEW h \in Handler, subscribed_messages[h] # <<>>,
           subscribed_messages' = [subscribed_messages EXCEPT ![h] = Tail(@)],
           connection' = [connection EXCEPT ![h] = "broken"],
           UNCHANGED <<subscribers, messages, subscriptions, task, published, due, delivered>>
    PROVE  GapInv'
<1>0. QueueTypes /\ OutWhole /\ MessagesWhole /\ NoGaps
    BY DEF GapInv
<1>1. /\ \A g \in Handler : g # h => subscribed_messages'[g] = subscribed_messages[g]
      /\ subscribed_messages' \in [Handler -> Seq(Subscriber \X Nat)]
      /\ InOrder' /\ OnePath'
  <2>1. UNCHANGED <<messages, subscriptions, published, due>>
      OBVIOUS
  <2> QED
      BY <2>1, WriteDoes
<1>2. QueueTypes'
    BY <1>0, <1>1 DEF QueueTypes
<1>3. Pending' = Pending
    BY DEF Pending
<1>4. \A g \in Handler : Live(g)' => Live(g) /\ g # h
    BY <1>0 DEF Live, QueueTypes
<1>5. OutWhole'
    BY <1>0, <1>1, <1>3, <1>4 DEF OutWhole
<1>6. MessagesWhole'
    BY <1>0, <1>1, <1>3, <1>4 DEF MessagesWhole
<1>7. NoGaps'
    BY <1>0 DEF NoGaps
<1> QED
    BY <1>1, <1>2, <1>5, <1>6, <1>7 DEF GapInv

\* The write succeeds.
LEMMA DeliverKeeps ==
    ASSUME GapInv, NEW h \in Handler, Live(h), subscribed_messages[h] # <<>>,
           subscribed_messages' = [subscribed_messages EXCEPT ![h] = Tail(@)],
           delivered' = [delivered EXCEPT ![subscribed_messages[h][1][1]] =
                            Append(@, subscribed_messages[h][1][2])],
           UNCHANGED <<subscribers, messages, subscriptions, task, connection, published, due>>
    PROVE  GapInv'
<1>0. QueueTypes /\ InOrder /\ OnePath /\ OutWhole /\ MessagesWhole
    BY DEF GapInv
<1> DEFINE out == subscribed_messages[h]
           out2 == subscribed_messages'[h]
           s == out[1][1]
           m == out[1][2]
<1>1. /\ out \in Seq(Subscriber \X Nat) /\ out2 = Tail(out)
      /\ \A g \in Handler : g # h => subscribed_messages'[g] = subscribed_messages[g]
      /\ subscribed_messages' \in [Handler -> Seq(Subscriber \X Nat)]
      /\ InOrder' /\ OnePath'
  <2>1. UNCHANGED <<messages, subscriptions, published, due>>
      OBVIOUS
  <2> QED
      BY <2>1, WriteDoes
<1>2. out # <<>> /\ delivered' = [delivered EXCEPT ![s] = Append(@, m)]
    OBVIOUS
<1>3. /\ out[1] = <<s, m>> /\ s \in Subscriber /\ m \in Nat
      /\ 1 \in DOMAIN out
  <2> HIDE DEF out
  <2> QED
      BY <1>1, <1>2, OneLessOut
<1> HIDE DEF s, m
<1>4. OutInOrder(out, messages, published) /\ OutComplete(out, Pending)
  <2>1. OutInOrder(out, messages, published)
      BY <1>0 DEF InOrder, out
  <2>2. Live(h)
      OBVIOUS
  <2>3. OutComplete(out, Pending)
      BY <1>0, <2>2 DEF OutWhole, out
  <2> QED
      BY <2>1, <2>3
<1>5. /\ delivered' \in [Subscriber -> Seq(Nat)] /\ NoGaps'
      /\ Pending' = Without(Pending, s, m)
      /\ Pending'[s] = Pending[s] \ {m} /\ \A t \in Subscriber : t # s => Pending'[t] = Pending[t]
  <2>1. /\ due' = due /\ delivered' = [delivered EXCEPT ![s] = Append(@, m)]
        /\ s \in Subscriber /\ m \in Nat /\ subscribed_messages[h][1] = <<s, m>>
      BY <1>2, <1>3
  <2>2. delivered' \in [Subscriber -> Seq(Nat)]
      BY <2>1, DeliverDoes
  <2>3. NoGaps'
      BY <2>1, DeliverDoes
  <2>4. Pending' = Without(Pending, s, m)
      BY <2>1, DeliverDoes
  <2>6. Pending'[s] = Pending[s] \ {m} /\ \A t \in Subscriber : t # s => Pending'[t] = Pending[t]
      BY <2>1, <2>4 DEF Without
  <2> QED
      BY <2>2, <2>3, <2>4, <2>6
<1> HIDE DEF out, out2
<1>6. QueueTypes'
  <2>1. UNCHANGED <<subscribers, messages, subscriptions, task, connection, published, due>>
      OBVIOUS
  <2> QED
      BY <1>0, <1>1, <1>5, <2>1 DEF QueueTypes
<1>7. \A g \in Handler : Live(g)' <=> Live(g)
    BY DEF Live
<1>8. s \in To(out)
    BY SMTT(60), <1>3 DEF To
<1>9. ASSUME NEW g \in Handler, g # h
      PROVE  s \notin subscriptions[g] /\ s \notin To(subscribed_messages[g])
  <2>1. Reach(g) \cap Reach(h) = {}
      BY <1>0, <1>9 DEF OnePath
  <2> QED
      BY <1>8, <2>1 DEF Reach, out
<1>10. OutWhole'
  <2>1. OutComplete(out2, Pending')
    <3> DEFINE p == Pending
               p2 == Pending'
    <3>1. p2 = Without(p, s, m)
        BY <1>5
    <3>2. OutComplete(out, p)
        BY <1>4
    <3> HIDE DEF p, p2
    <3>4. /\ out \in Seq(Subscriber \X Nat) /\ out # <<>> /\ out2 = Tail(out) /\ out[1] = <<s, m>>
          /\ OutInOrder(out, messages, published)
        BY <1>1, <1>2, <1>3, <1>4
    <3>3. OutComplete(out2, p2)
        BY <3>1, <3>2, <3>4, OutCompleteLess
    <3> QED
        BY <3>3 DEF p2
  <2>2. ASSUME NEW g \in Handler, Live(g), g # h
        PROVE  OutComplete(subscribed_messages'[g], Pending')
    <3> DEFINE o == subscribed_messages[g]
    <3>1. OutComplete(o, Pending) /\ o \in Seq(Subscriber \X Nat) /\ s \notin To(o)
        BY <1>0, <1>9, <2>2 DEF OutWhole, QueueTypes
    <3> HIDE DEF o
    <3>2. \A i \in DOMAIN o : o[i][1] \in Subscriber /\ o[i][1] # s
        BY SMTT(60), <3>1 DEF To
    <3>3. \A i \in DOMAIN o : Pending'[o[i][1]] = Pending[o[i][1]]
        BY <1>5, <3>2
    <3>4. OutComplete(o, Pending')
        BY <3>1, <3>3 DEF OutComplete
    <3>5. subscribed_messages'[g] = o
        BY <1>1, <2>2 DEF o
    <3> QED
        BY <3>4, <3>5
  <2>3. ASSUME NEW g \in Handler, Live(g)
        PROVE  OutComplete(subscribed_messages'[g], Pending')
    <3>1. CASE g = h
        BY <2>1, <3>1 DEF out2
    <3> QED
        BY <2>2, <2>3, <3>1
  <2> QED
      BY <1>7, <2>3 DEF OutWhole
<1>11. MessagesWhole'
  <2>1. ASSUME NEW g \in Handler, Live(g), NEW t \in subscriptions[g] \cap task
        PROVE  /\ QueueComplete(messages[t], subscribed_messages[g], t, Pending[t])
               /\ t \in subscribers => AllQueued(messages[t], subscribed_messages[g], t, Pending[t])
      BY <1>0, <2>1 DEF MessagesWhole
  <2>2. ASSUME Live(h), s \in subscriptions[h] \cap task
        PROVE  /\ QueueComplete(messages[s], out2, s, Pending'[s])
               /\ s \in subscribers => AllQueued(messages[s], out2, s, Pending'[s])
    <3> DEFINE q == messages[s]
               p == Pending[s]
    <3>1. ASSUME NEW k \in DOMAIN q
          PROVE  q[k] # m
      <4>1. q[k] \in Nat
        <5>1. messages \in [Subscriber -> Seq(Nat)]
            BY <1>0 DEF QueueTypes
        <5>2. q \in Seq(Nat)
            BY <1>3, <5>1
        <5> HIDE DEF q
        <5> QED
            BY SMTT(60), <3>1, <5>2
      <4>2. out[1][2] < messages[out[1][1]][k]
          BY <1>3, <1>4, <3>1 DEF OutInOrder, s
      <4>3. m < q[k]
          BY <4>2 DEF s, m
      <4> QED
          BY SMTT(60), <1>3, <4>1, <4>3
    <3>2. QueueComplete(q, out, s, p) /\ (s \in subscribers => AllQueued(q, out, s, p))
        BY <2>1, <2>2 DEF out
    <3>3. Pending'[s] = p \ {m}
        BY <1>5
    <3> HIDE DEF q, p
    <3>4. /\ QueueComplete(q, out2, s, p \ {m})
          /\ AllQueued(q, out, s, p) => AllQueued(q, out2, s, p \ {m})
        BY <1>1, <1>2, <1>3, <3>1, <3>2, QueueCompleteDelivered
    <3> QED
        BY <3>2, <3>3, <3>4 DEF q
  <2>3. ASSUME NEW g \in Handler, Live(g), NEW t \in subscriptions[g] \cap task, t # s
        PROVE  /\ QueueComplete(messages[t], subscribed_messages'[g], t, Pending'[t])
               /\ t \in subscribers => AllQueued(messages[t], subscribed_messages'[g], t, Pending'[t])
    <3>1. Pending'[t] = Pending[t]
        BY <1>0, <1>5, <2>3 DEF QueueTypes
    <3>2. ASSUME NEW n, Sent(out, t, n)
          PROVE  Sent(out2, t, n)
      <4>1. out[1] # <<t, n>>
          BY SMTT(60), <1>3, <2>3
      <4> QED
          BY <1>1, <1>2, <3>2, <4>1, SentLess
    <3>3. \A n : Sent(subscribed_messages[g], t, n) => Sent(subscribed_messages'[g], t, n)
      <4>1. CASE g = h
          BY <3>2, <4>1 DEF out, out2
      <4>2. CASE g # h
        <5>1. subscribed_messages'[g] = subscribed_messages[g]
            BY <1>1, <4>2
        <5> QED
            BY <5>1
      <4> QED
          BY <4>1, <4>2
    <3> QED
        BY <2>1, <2>3, <3>1, <3>3, QueueCompleteMore
  <2>4. ASSUME NEW g \in Handler, Live(g), NEW t \in subscriptions[g] \cap task
        PROVE  /\ QueueComplete(messages[t], subscribed_messages'[g], t, Pending'[t])
               /\ t \in subscribers => AllQueued(messages[t], subscribed_messages'[g], t, Pending'[t])
    <3>1. CASE t = s
      <4>1. g = h
          BY <1>9, <2>4, <3>1
      <4> QED
          BY <2>2, <2>4, <3>1, <4>1 DEF out2
    <3>2. CASE t # s
        BY <2>3, <2>4, <3>2
    <3> QED
        BY <3>1, <3>2
  <2>5. messages' = messages /\ subscriptions' = subscriptions /\ task' = task /\ subscribers' = subscribers
      OBVIOUS
  <2> QED
      BY <1>7, <2>4, <2>5 DEF MessagesWhole
<1> QED
    BY <1>1, <1>5, <1>6, <1>10, <1>11 DEF GapInv

\* What publish does to what is pending and to the queues of one subscriber.
LEMMA PublishOne ==
    ASSUME GapInv, Publish, NEW s \in Subscriber
    PROVE  /\ Increasing(due'[s], published + 1) /\ Increasing(messages'[s], published + 1)
           /\ messages'[s] = messages[s] \/ messages'[s] = Append(messages[s], published + 1)
           /\ messages'[s] # <<>> => due'[s] # <<>>
           /\ due[s] # <<>> => due'[s] # <<>>
           /\ Len(delivered[s]) <= Len(due'[s]) /\ delivered[s] = SubSeq(due'[s], 1, Len(delivered[s]))
           /\ Passed(s) => Pending'[s] = Pending[s]
           /\ Queued(s) \/ Missed(s) => Pending'[s] = Pending[s] \cup {published + 1}
<1>0. QueueTypes /\ InOrder /\ OnePath /\ NoGaps
    BY DEF GapInv
<1>1. delivered' = delivered /\ (Passed(s) \/ Queued(s) \/ Missed(s))
    BY <1>0, PublishDoes
<1> DEFINE q == messages[s]
           r == messages'[s]
           d == due[s]
           d2 == due'[s]
           e == delivered[s]
           top == published
<1>2. /\ q \in Seq(Nat) /\ d \in Seq(Nat) /\ e \in Seq(Nat) /\ top \in Nat
      /\ Increasing(q, top) /\ Increasing(d, top) /\ (q # <<>> => d # <<>>)
      /\ Len(e) <= Len(d) /\ e = SubSeq(d, 1, Len(e))
    BY <1>0 DEF QueueTypes, InOrder, OnePath, NoGaps
<1>3. /\ (r = q /\ d2 = d) \/ (r = Append(q, top + 1) /\ d2 = Append(d, top + 1))
                           \/ (r = q /\ d2 = Append(d, top + 1))
      /\ Passed(s) => d2 = d
      /\ Queued(s) \/ Missed(s) => d2 = Append(d, top + 1)
    BY <1>1 DEF Passed, Queued, Missed
<1>4. Pending[s] = After(d, Len(e)) /\ Pending'[s] = After(d2, Len(e))
    BY <1>1 DEF Pending
<1> HIDE DEF q, r, d, d2, e, top
<1>5. Increasing(r, top + 1)
  <2>1. r \in {q, Append(q, top + 1)}
      BY <1>3
  <2> QED
      BY <1>2, <2>1, IncreasingAppend
<1>6. Increasing(d2, top + 1)
  <2>1. d2 \in {d, Append(d, top + 1)}
      BY <1>3
  <2> QED
      BY <1>2, <2>1, IncreasingAppend
<1>7. Append(d, top + 1) # <<>> /\ Append(d, top + 1) \in Seq(Nat)
      /\ Len(e) <= Len(Append(d, top + 1)) /\ Len(e) \in 0..Len(d)
    BY SMTT(60), <1>2
<1>8. SubSeq(Append(d, top + 1), 1, Len(e)) = SubSeq(d, 1, Len(e))
    BY SMTT(60), <1>2, <1>7
<1>9. After(Append(d, top + 1), Len(e)) = After(d, Len(e)) \cup {top + 1}
  <2> DEFINE m == top + 1
             n == Len(e)
  <2>1. d \in Seq(Nat) /\ m \in Nat /\ n \in 0..Len(d)
      BY SMTT(60), <1>2, <1>7
  <2> HIDE DEF m, n
  <2>2. After(Append(d, m), n) = After(d, n) \cup {m}
      BY SMTT(60), <2>1, AfterAppend
  <2> QED
      BY <2>2 DEF m, n
<1>10. /\ r = q \/ r = Append(q, top + 1)
       /\ r # <<>> => d2 # <<>>
       /\ d # <<>> => d2 # <<>>
       /\ Len(e) <= Len(d2) /\ e = SubSeq(d2, 1, Len(e))
    BY <1>2, <1>3, <1>7, <1>8
<1>11. /\ Passed(s) => After(d2, Len(e)) = After(d, Len(e))
       /\ Queued(s) \/ Missed(s) => After(d2, Len(e)) = After(d, Len(e)) \cup {top + 1}
    BY <1>3, <1>9
<1> QED
    BY <1>4, <1>5, <1>6, <1>10, <1>11 DEF q, r, d, d2, e, top

\* A published message goes to the end of the queues it goes to, and of no subscriber
\* that has missed one.
LEMMA PublishKeeps ==
    ASSUME GapInv, Publish
    PROVE  GapInv'
<1>0. QueueTypes /\ QueueTypes' /\ InOrder /\ OnePath /\ OutWhole /\ MessagesWhole /\ NoGaps
    BY PublishTypes DEF GapInv
<1>1. /\ published' = published + 1 /\ subscribers' \subseteq subscribers
      /\ UNCHANGED <<subscriptions, task, subscribed_messages, connection, delivered>>
      /\ \A s \in Subscriber : Passed(s) \/ Queued(s) \/ Missed(s)
    BY <1>0, PublishDoes
<1> DEFINE top == published
           p == Pending
           p2 == Pending'
           msgs == messages
           msgs2 == messages'
<1>2. /\ top \in Nat /\ msgs \in [Subscriber -> Seq(Nat)]
      /\ \A s \in Subscriber : Increasing(msgs[s], top)
    BY <1>0 DEF QueueTypes, InOrder
<1>3. ASSUME NEW s \in Subscriber
      PROVE  /\ Increasing(due'[s], top + 1) /\ Increasing(msgs2[s], top + 1)
             /\ msgs2[s] = msgs[s] \/ msgs2[s] = Append(msgs[s], top + 1)
             /\ msgs2[s] # <<>> => due'[s] # <<>>
             /\ due[s] # <<>> => due'[s] # <<>>
             /\ Len(delivered[s]) <= Len(due'[s]) /\ delivered[s] = SubSeq(due'[s], 1, Len(delivered[s]))
             /\ Passed(s) => p2[s] = p[s]
             /\ Queued(s) \/ Missed(s) => p2[s] = p[s] \cup {top + 1}
    BY PublishOne
<1>4. \A h \in Handler : Live(h)' <=> Live(h)
    BY <1>1 DEF Live
<1>5. ASSUME NEW h \in Handler
      PROVE  /\ subscribed_messages[h] \in Seq(Subscriber \X Nat)
             /\ OutInOrder(subscribed_messages[h], msgs, top)
    BY SMTT(60), <1>0 DEF QueueTypes, InOrder
<1>6. /\ \A s \in Subscriber : msgs2[s] = msgs[s] \/ msgs2[s] = Append(msgs[s], top + 1)
      /\ \A s \in Subscriber : p2[s] = p[s] \/ p2[s] = p[s] \cup {top + 1}
    BY <1>1, <1>3
<1> HIDE DEF top, p, p2, msgs, msgs2
<1>7. InOrder'
  <2>1. ASSUME NEW h \in Handler
        PROVE  OutInOrder(subscribed_messages[h], msgs2, top + 1)
    <3>1. \A s \in Subscriber : msgs2[s] = msgs[s] \/ msgs2[s] = Append(msgs[s], top + 1)
        BY <1>6
    <3> QED
        BY <1>2, <1>5, <3>1, OutInOrderPublished
  <2>2. \A s \in Subscriber : Increasing(due'[s], top + 1) /\ Increasing(msgs2[s], top + 1)
      BY <1>3
  <2>3. published' = top + 1 /\ messages' = msgs2 /\ subscribed_messages' = subscribed_messages
      BY <1>1 DEF top, msgs2
  <2> QED
      BY <2>1, <2>2, <2>3 DEF InOrder
<1>8. OnePath'
  <2>1. \A h \in Handler : Reach(h)' = Reach(h)
      BY <1>1 DEF Reach
  <2>2. \A s \in Subscriber : messages'[s] # <<>> => due'[s] # <<>>
      BY <1>3 DEF msgs2
  <2>3. \A h \in Handler : \A s \in To(subscribed_messages'[h]) : due'[s] # <<>>
    <3> TAKE h \in Handler
    <3> TAKE s \in To(subscribed_messages'[h])
    <3>1. s \in To(subscribed_messages[h]) /\ due[s] # <<>>
        BY <1>0, <1>1 DEF OnePath
    <3>2. s \in Subscriber
        BY SMTT(60), <1>5, <3>1 DEF To
    <3> QED
        BY <1>3, <3>1, <3>2
  <2>4. \A g, h \in Handler : g # h => Reach(g)' \cap Reach(h)' = {}
      BY <1>0, <2>1 DEF OnePath
  <2> QED
      BY <2>2, <2>3, <2>4 DEF OnePath
<1>9. OutWhole'
  <2>1. ASSUME NEW h \in Handler, Live(h)
        PROVE  OutComplete(subscribed_messages[h], p2)
    <3>1. OutComplete(subscribed_messages[h], p)
        BY SMTT(60), <1>0, <2>1 DEF OutWhole, p
    <3>2. \A s \in Subscriber : p2[s] = p[s] \/ p2[s] = p[s] \cup {top + 1}
        BY <1>6
    <3> QED
        BY <1>2, <1>5, <3>1, <3>2, OutCompletePublished
  <2>2. subscribed_messages' = subscribed_messages /\ Pending' = p2
      BY <1>1 DEF p2
  <2> QED
      BY <1>4, <2>1, <2>2 DEF OutWhole
<1>10. MessagesWhole'
  <2>1. ASSUME NEW h \in Handler, Live(h), NEW s \in subscriptions[h] \cap task
        PROVE  /\ QueueComplete(msgs2[s], subscribed_messages[h], s, p2[s])
               /\ s \in subscribers' => AllQueued(msgs2[s], subscribed_messages[h], s, p2[s])
    <3> DEFINE q == msgs[s]
               r == msgs2[s]
               out == subscribed_messages[h]
               a == p[s]
               a2 == p2[s]
    <3>1. s \in Subscriber
        BY <1>0 DEF QueueTypes
    <3>2. /\ q \in Seq(Nat) /\ Increasing(q, top) /\ QueueComplete(q, out, s, a)
          /\ s \in subscribers => AllQueued(q, out, s, a)
      <4>1. /\ QueueComplete(messages[s], subscribed_messages[h], s, Pending[s])
            /\ s \in subscribers => AllQueued(messages[s], subscribed_messages[h], s, Pending[s])
          BY <1>0, <2>1 DEF MessagesWhole
      <4>2. msgs[s] \in Seq(Nat) /\ Increasing(msgs[s], top)
          BY <1>2, <3>1
      <4> QED
          BY <4>1, <4>2 DEF msgs, p
    <3>3. CASE Passed(s)
      <4>1. r = q /\ a2 = a /\ (s \in subscribers' => s \in subscribers)
        <5>1. p2[s] = p[s]
            BY <1>3, <3>1, <3>3
        <5>2. msgs2[s] = msgs[s] /\ (s \in subscribers' => s \in subscribers)
            BY <1>1, <3>3 DEF Passed, msgs, msgs2
        <5> QED
            BY <5>1, <5>2
      <4> QED
          BY <3>2, <4>1
    <3>4. CASE Queued(s)
      <4>1. r = Append(q, top + 1) /\ a2 = a \cup {top + 1} /\ s \in subscribers
        <5>1. p2[s] = p[s] \cup {top + 1}
            BY <1>3, <3>1, <3>4
        <5>2. msgs2[s] = Append(msgs[s], top + 1) /\ s \in subscribers
            BY <3>4 DEF Queued, msgs, msgs2, top
        <5> QED
            BY <5>1, <5>2
      <4> HIDE DEF q, r, out, a, a2
      <4>2. QueueComplete(r, out, s, a2)
          BY <1>2, <3>2, <4>1, QueueCompleteQueued
      <4>3. AllQueued(r, out, s, a2)
          BY <1>2, <3>2, <4>1, QueueCompleteQueued
      <4> QED
          BY <4>2, <4>3 DEF r, out, a2
    <3>5. CASE Missed(s)
      <4>1. r = q /\ a2 = a \cup {top + 1} /\ s \notin subscribers'
        <5>1. p2[s] = p[s] \cup {top + 1}
            BY <1>3, <3>1, <3>5
        <5>2. msgs2[s] = msgs[s] /\ s \notin subscribers'
            BY <3>5 DEF Missed, msgs, msgs2
        <5> QED
            BY <5>1, <5>2
      <4> HIDE DEF q, r, out, a, a2
      <4>2. QueueComplete(q, out, s, a2)
          BY <1>2, <3>2, <4>1, QueueCompletePublished
      <4> QED
          BY <4>1, <4>2 DEF q, r, out, a2
    <3> QED
        BY <1>1, <3>1, <3>3, <3>4, <3>5
  <2>2. /\ subscribed_messages' = subscribed_messages /\ Pending' = p2 /\ messages' = msgs2
        /\ subscriptions' = subscriptions /\ task' = task
      BY SMTT(60), <1>1 DEF p2, msgs2
  <2> QED
      BY <1>4, <2>1, <2>2 DEF MessagesWhole
<1>11. NoGaps'
  <2>1. delivered' = delivered
      BY <1>1
  <2> QED
      BY <1>3, <2>1 DEF NoGaps
<1> QED
    BY <1>0, <1>7, <1>8, <1>9, <1>10, <1>11 DEF GapInv

\* One turn of handle_subscription.
LEMMA HandleSubscriptionKeeps ==
    ASSUME GapInv, NEW h \in Handler, NEW s \in Subscriber, HandleSubscription(h, s)
    PROVE  GapInv'
<1>1. /\ s \in subscriptions[h] \cap task /\ messages[s] # <<>>
      /\ messages' = [messages EXCEPT ![s] = Tail(@)]
      /\ UNCHANGED <<subscribers, subscriptions, connection, published, due, delivered>>
    BY DEF HandleSubscription, history
<1>2. CASE task' = task \ {s} /\ UNCHANGED subscribed_messages
  <2>1. UNCHANGED <<subscribers, subscriptions, subscribed_messages, connection, published, due, delivered>>
      BY SMTT(60), <1>1, <1>2
  <2> QED
      BY <1>1, <1>2, <2>1, TaskEndsKeeps
<1>3. CASE /\ subscribed_messages' = [subscribed_messages EXCEPT ![h] = Append(@, <<s, Head(messages[s])>>)]
           /\ UNCHANGED task
  <2>1. UNCHANGED <<subscribers, subscriptions, task, connection, published, due, delivered>>
      BY <1>1, <1>3
  <2> QED
      BY <1>1, <1>3, <2>1, CarryKeeps
<1> QED
    BY <1>2, <1>3 DEF HandleSubscription

\* One turn of handle_publications.
LEMMA HandlePublicationsKeeps ==
    ASSUME GapInv, NEW h \in Handler, HandlePublications(h)
    PROVE  GapInv'
<1>1. /\ Live(h) /\ subscribed_messages[h] # <<>>
      /\ subscribed_messages' = [subscribed_messages EXCEPT ![h] = Tail(@)]
      /\ UNCHANGED <<subscribers, messages, subscriptions, task, published, due>>
    BY DEF HandlePublications, Live
<1>2. Head(subscribed_messages[h]) = subscribed_messages[h][1]
  <2>1. subscribed_messages[h] \in Seq(Subscriber \X Nat)
      BY DEF GapInv, QueueTypes
  <2> QED
      BY SMTT(60), <1>1, <2>1
<1>3. CASE connection' = [connection EXCEPT ![h] = "broken"] /\ UNCHANGED delivered
  <2>1. UNCHANGED <<subscribers, messages, subscriptions, task, published, due, delivered>>
      BY SMTT(60), <1>1, <1>3
  <2> QED
      BY <1>1, <1>3, <2>1, BreakKeeps
<1>4. CASE /\ delivered' = [delivered EXCEPT ![subscribed_messages[h][1][1]] =
                               Append(@, subscribed_messages[h][1][2])]
           /\ UNCHANGED connection
  <2>1. UNCHANGED <<subscribers, messages, subscriptions, task, connection, published, due>>
      BY <1>1, <1>4
  <2> QED
      BY <1>1, <1>4, <2>1, DeliverKeeps
<1>5. \/ connection' = [connection EXCEPT ![h] = "broken"] /\ UNCHANGED delivered
      \/ /\ delivered' = [delivered EXCEPT ![Head(subscribed_messages[h])[1]] =
                             Append(@, Head(subscribed_messages[h])[2])]
         /\ UNCHANGED connection
    BY DEF HandlePublications
<1> QED
    BY <1>2, <1>3, <1>4, <1>5

\* The steps that only take away.
LEMMA CloseKeeps ==
    ASSUME GapInv, NEW h \in Handler,
           UNCHANGED <<messages, subscribed_messages, published, due, delivered>>,
           CloseHandler(h), UNCHANGED connection \/ connection' = [connection EXCEPT ![h] = "closed"]
    PROVE  GapInv'
<1>1. QueueTypes
    BY DEF GapInv
<1>2. /\ task' \subseteq task /\ subscribers' \subseteq subscribers
      /\ subscriptions' = [subscriptions EXCEPT ![h] = {}]
    BY DEF CloseHandler, Unsubscribe
<1>3. QueueTypes'
    BY SMTT(60), <1>1, <1>2 DEF QueueTypes
<1>4. \A g \in Handler : subscriptions'[g] \subseteq subscriptions[g] /\ (Live(g)' => Live(g))
    BY <1>1, <1>2 DEF QueueTypes, Live
<1> QED
    BY <1>2, <1>3, <1>4, Shrinks

\* Every step keeps the invariant.
LEMMA GapStep ==
    ASSUME GapInv, [FeedsNext]_feeds
    PROVE  GapInv'
<1>0. QueueTypes
    BY DEF GapInv
<1>1. CASE Publish
    BY SMTT(60), <1>1, PublishKeeps
<1>2. ASSUME NEW h \in Handler, NEW s \in Subscriber, Subscribe(h, s)
      PROVE  GapInv'
    BY <1>2, SubscribeKeeps
<1>3. ASSUME NEW h \in Handler, NEW s \in Subscriber, UnsubscribeRequest(h, s)
      PROVE  GapInv'
  <2>1. /\ task' \subseteq task /\ subscribers' \subseteq subscribers
        /\ subscriptions' = [subscriptions EXCEPT ![h] = @ \ {s}]
        /\ UNCHANGED <<messages, subscribed_messages, published, due, delivered>> /\ UNCHANGED connection
      BY <1>3 DEF UnsubscribeRequest, Unsubscribe, history
  <2>2. QueueTypes'
      BY <1>0, <2>1 DEF QueueTypes
  <2>3. \A g \in Handler : subscriptions'[g] \subseteq subscriptions[g] /\ (Live(g)' => Live(g))
      BY <1>0, <2>1 DEF QueueTypes, Live
  <2> QED
      BY <2>1, <2>2, <2>3, Shrinks
<1>4. ASSUME NEW h \in Handler, NEW s \in Subscriber, HandleSubscription(h, s)
      PROVE  GapInv'
    BY <1>4, HandleSubscriptionKeeps
<1>5. ASSUME NEW h \in Handler, AsyncClose(h)
      PROVE  GapInv'
  <2>1. /\ UNCHANGED <<messages, subscribed_messages, published, due, delivered>>
        /\ CloseHandler(h) /\ UNCHANGED connection
      BY <1>5 DEF AsyncClose, history
  <2> QED
      BY <2>1, CloseKeeps
<1>6. ASSUME NEW h \in Handler, HandlePublications(h)
      PROVE  GapInv'
    BY <1>6, HandlePublicationsKeeps
<1>7. ASSUME NEW h \in Handler, HandleReturns(h)
      PROVE  GapInv'
  <2>1. /\ connection[h] = "open" /\ connection' = [connection EXCEPT ![h] = "ended"]
        /\ UNCHANGED <<messages, subscribed_messages, published, due, delivered>>
        /\ UNCHANGED <<subscribers, subscriptions, task>>
      BY <1>7 DEF HandleReturns, history
  <2>2. QueueTypes'
      BY SMTT(60), <1>0, <2>1 DEF QueueTypes
  <2>3. \A g \in Handler : subscriptions'[g] \subseteq subscriptions[g] /\ (Live(g)' => Live(g))
      BY <1>0, <2>1 DEF QueueTypes, Live
  <2>4. task' \subseteq task /\ subscribers' \subseteq subscribers
      BY <2>1
  <2> QED
      BY <2>1, <2>2, <2>3, <2>4, Shrinks
<1>8. ASSUME NEW h \in Handler, Close(h)
      PROVE  GapInv'
  <2>1. /\ UNCHANGED <<messages, subscribed_messages, published, due, delivered>>
        /\ CloseHandler(h) /\ connection' = [connection EXCEPT ![h] = "closed"]
      BY <1>8 DEF Close, history
  <2> QED
      BY <2>1, CloseKeeps
<1>9. CASE UNCHANGED feeds
  <2>1. /\ UNCHANGED <<messages, subscribed_messages, published, due, delivered>>
        /\ UNCHANGED <<subscribers, subscriptions, task, connection>>
      BY <1>9 DEF feeds
  <2>2. QueueTypes'
      BY <1>0, <2>1 DEF QueueTypes
  <2>3. \A g \in Handler : subscriptions'[g] \subseteq subscriptions[g] /\ (Live(g)' => Live(g))
      BY <2>1 DEF Live
  <2>4. task' \subseteq task /\ subscribers' \subseteq subscribers
      BY <2>1
  <2> QED
      BY <2>1, <2>2, <2>3, <2>4, Shrinks
<1>10. ASSUME NEW h \in Handler, StopServer(h)
       PROVE  GapInv'
  <2>1. /\ UNCHANGED <<messages, subscribed_messages, published, due, delivered>>
        /\ CloseHandler(h) /\ connection' = [connection EXCEPT ![h] = "closed"]
      BY <1>10 DEF StopServer, history
  <2> QED
      BY <2>1, CloseKeeps
<1> QED
    BY <1>1, <1>2, <1>3, <1>4, <1>5, <1>6, <1>7, <1>8, <1>9, <1>10 DEF FeedsNext

\* A client gets the messages of its feed in order and without a gap, however the feed,
\* the tasks of the subscriptions and the writers of the connections interleave, and
\* whichever queue runs full or connection breaks, for every number of connections and
\* subscribers and every size of the queues.
THEOREM NoMessageSkipped == FeedsSpec => []NoGaps
<1>1. FeedsInit => GapInv
  <2> SUFFICES ASSUME FeedsInit PROVE GapInv
      OBVIOUS
  <2>1. QueueTypes
      BY SMTT(60) DEF FeedsInit, QueueTypes
  <2>2. InOrder
      BY SMTT(60) DEF FeedsInit, InOrder, Increasing, OutInOrder
  <2>3. OnePath
      BY SMTT(60) DEF FeedsInit, OnePath, Reach, To
  <2>4. OutWhole
      BY SMTT(60) DEF FeedsInit, OutWhole, OutComplete
  <2>5. MessagesWhole
      BY DEF FeedsInit, MessagesWhole
  <2>6. NoGaps
      BY SMTT(60) DEF FeedsInit, NoGaps
  <2> QED
      BY <2>1, <2>2, <2>3, <2>4, <2>5, <2>6 DEF GapInv
<1>2. GapInv /\ [FeedsNext]_feeds => GapInv'
    BY GapStep
<1>3. GapInv => NoGaps
    BY SMTT(60) DEF GapInv
<1> QED
    BY <1>1, <1>2, <1>3, PTL DEF FeedsSpec

-----------------------------------------------------------------------------
(* The client                                                              *)

\* Only the socket in use can be open, and only it is watched.
OneSocket ==
    /\ running \in BOOLEAN /\ reconnecting \in BOOLEAN /\ retry_connection \in BOOLEAN
    /\ open \subseteq {ws}
    /\ ws_status_check \in {0, ws}

\* A reconnection begins when the socket has gone and its status check has ended.
ReconnectsWhenGone ==
    reconnecting => open = {} /\ ws_status_check = 0

\* What was closed while connected is not being reconnected.
ClientInv ==
    /\ OneSocket /\ ReconnectsWhenGone /\ ClosedStaysClosed
    /\ closed = "connected" => ~reconnecting

\* Every step keeps the invariant.
LEMMA ClientKeeps ==
    ASSUME ClientInv, [ProviderNext]_provider PROVE ClientInv'
<1> USE DEF ClientInv, OneSocket, ReconnectsWhenGone, ClosedStaysClosed
<1>1. CASE UNCHANGED socket
    BY <1>1 DEF socket
<1>2. CASE \E c \in Call : \/ StartCall(c) \/ ResumeCall(c)
                          \/ Respond(c) \/ EndCall(c)
  <2>1. UNCHANGED socket
      BY <1>2 DEF StartCall, ResumeCall, Respond, EndCall
  <2> QED
      BY <1>1, <2>1
<1>3. CASE Break
    BY <1>3 DEF Break
<1>4. CASE EnsureWebsocketAlive
  <2>1. open = {} /\ ~reconnecting /\ ws_status_check = ws
      BY SMTT(60), <1>4 DEF EnsureWebsocketAlive
  <2>2. /\ ws_status_check' = 0 /\ running' \in BOOLEAN /\ reconnecting' \in BOOLEAN
        /\ ~running => ~running' /\ ~reconnecting'
        /\ UNCHANGED <<retry_connection, ws, open, closed>>
      BY <1>4 DEF EnsureWebsocketAlive, ShouldReconnect
  <2> QED
      BY <2>1, <2>2
<1>5. CASE Connect
    BY <1>5 DEF Connect
<1>6. CASE ConnectFails
    BY <1>6 DEF ConnectFails
<1>7. CASE StartClose
    BY <1>7 DEF StartClose
<1>8. CASE FinishClose
    BY <1>8 DEF FinishClose
<1>9. CASE ResponseWithoutId
  <2>1. UNCHANGED socket
      BY <1>9 DEF ResponseWithoutId
  <2> QED
      BY <1>1, <2>1
<1>10. CASE UNCHANGED provider
    BY <1>1, <1>10 DEF provider, socket
<1> QED
    BY <1>2, <1>3, <1>4, <1>5, <1>6, <1>7, <1>8, <1>9, <1>10 DEF ProviderNext, CallStep

\* A provider that close found connected, or not yet aware that it was not, is
\* never running again and has no open socket, however close, the status check
\* and the reconnect task interleave.
THEOREM ClosedForGood ==
    ProviderSpec => []ClosedStaysClosed
<1>1. ProviderInit => ClientInv
    BY DEF ProviderInit, ClientInv, OneSocket, ReconnectsWhenGone, ClosedStaysClosed
<1>2. ClientInv => ClosedStaysClosed
    BY SMTT(60) DEF ClientInv
<1> QED
    BY <1>1, <1>2, ClientKeeps, PTL DEF ProviderSpec
=============================================================================
