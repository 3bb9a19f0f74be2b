-------------------------------- MODULE Feeds --------------------------------
(***************************************************************************)
(* A feed, its subscribers, and the websocket connections through which    *)
(* they are served.  A published message goes to the queue of a            *)
(* subscriber, a task of its own carries it to the queue of the            *)
(* connection, and the publish handler of the connection writes it.  Both  *)
(* queues are bounded by MaxQueueSize; a reader that is too slow loses its *)
(* subscription or its connection.                                         *)
(*                                                                         *)
(* All subscriptions are charged to one account.  Messages are numbered.   *)
(***************************************************************************)
EXTENDS Integers, Sequences, FiniteSets

CONSTANTS Handler, Subscriber, MaxQueueSize, MaxMessages

VARIABLES
    subscribers,           \* of the feed
    messages,              \* messages[s]: the queue of subscriber s
    should_exit,           \* the subscribers whose filter has raised
    subscriptions,         \* subscriptions[h]: of AbstractWsRpcHandler h
    task,                  \* the subscribers whose handle_subscription is running
    subscribed_messages,   \* subscribed_messages[h]: pairs of subscriber and message
    async_close,           \* the handlers with an async_close task
    disconnect_event,
    connection,            \* connection[h]: open; ended once WsConnection.handle has returned;
                           \* broken if that was because a write has failed; closed
    open_feeds,            \* accounts: how many subscriptions the account is charged for
    published,             \* how many messages have been published
    due,                   \* due[s]: the messages that match the filter of s, since it subscribed
    delivered,             \* delivered[s]: the messages its client has got
    dropped                \* the subscribers that publish has unsubscribed

feeds == <<subscribers, messages, should_exit, subscriptions, task, subscribed_messages, async_close,
           disconnect_event, connection, open_feeds, published, due, delivered, dropped>>

history == <<published, due, delivered, dropped>>

-----------------------------------------------------------------------------
(* Feed.publish                                                            *)

Full(s) == Len(messages[s]) >= MaxQueueSize

\* Mutant: a subscriber whose queue is full only misses the message.
BadSubscribersPatient(outcome) == subscribers \cap should_exit

\* The subscribers that the loop collects: a filter raised earlier, or QueueFull.
BadSubscribers(outcome) ==
    {s \in subscribers : s \in should_exit \/ (outcome[s] = "publish" /\ Full(s))}

\* outcome[s] is what should_publish_message_to_subscriber comes to: the validator
\* may raise, which is remembered for the next time.
Publish ==
    /\ published < MaxMessages /\ subscribers # {}
    /\ published' = published + 1
    /\ \E outcome \in [subscribers -> {"publish", "skip", "raise"}] :
          LET reached == {s \in subscribers \ should_exit : outcome[s] = "publish"}
              bad == BadSubscribers(outcome)
          IN  /\ messages' = [s \in Subscriber |-> IF s \in reached /\ ~Full(s)
                                 THEN Append(messages[s], published') ELSE messages[s]]
              /\ due' = [s \in Subscriber |-> IF s \in reached
                            THEN Append(due[s], published') ELSE due[s]]
              /\ should_exit' = should_exit \cup
                    {s \in subscribers \ should_exit : outcome[s] = "raise"}
              /\ subscribers' = subscribers \ bad
              /\ dropped' = dropped \cup bad
    /\ UNCHANGED <<subscriptions, task, subscribed_messages, async_close, disconnect_event,
                   connection, open_feeds, delivered>>

-----------------------------------------------------------------------------
(* AbstractWsRpcHandler, FeedManager and the requests                      *)

\* What runs as long as the connection's request handler does.
Serving(h) == connection[h] # "closed"

\* SubscribeRpcRequest.process_request.
Subscribe(h, s) ==
    /\ Serving(h) /\ due[s] = <<>> /\ s \notin subscribers \cup dropped \cup should_exit
    /\ \A g \in Handler : s \notin subscriptions[g]
    /\ subscribers' = subscribers \cup {s}
    /\ open_feeds' = open_feeds + 1
    /\ subscriptions' = [subscriptions EXCEPT ![h] = @ \cup {s}]
    /\ task' = task \cup {s}
    /\ UNCHANGED <<messages, should_exit, subscribed_messages, async_close, disconnect_event,
                   connection, history>>

\* _on_unsubscribe and unsubscribe_from_feed for each of ss.  A subscriber that the
\* feed has dropped is not charged back.
Unsubscribe(ss) ==
    /\ task' = task \ ss
    /\ subscribers' = subscribers \ ss
    /\ open_feeds' = open_feeds - Cardinality(ss \cap subscribers)

\* UnsubscribeRpcRequest.process_request.
UnsubscribeRequest(h, s) ==
    /\ Serving(h) /\ s \in subscriptions[h]
    /\ Unsubscribe({s})
    /\ subscriptions' = [subscriptions EXCEPT ![h] = @ \ {s}]
    /\ UNCHANGED <<messages, should_exit, subscribed_messages, async_close, disconnect_event,
                   connection, history>>

\* One turn of the loop of handle_subscription.
HandleSubscription(h, s) ==
    /\ s \in subscriptions[h] \cap task /\ messages[s] # <<>>
    /\ messages' = [messages EXCEPT ![s] = Tail(@)]
    /\ \/ /\ Len(subscribed_messages[h]) >= MaxQueueSize
          /\ async_close' = async_close \cup {h}
          /\ task' = task \ {s}
          /\ UNCHANGED subscribed_messages
       \/ /\ Len(subscribed_messages[h]) < MaxQueueSize
          /\ subscribed_messages' = [subscribed_messages EXCEPT ![h] = Append(@, <<s, Head(messages[s])>>)]
          /\ UNCHANGED <<async_close, task>>
    /\ UNCHANGED <<subscribers, should_exit, subscriptions, disconnect_event, connection,
                   open_feeds, history>>

\* Mutant: the connection is not woken up.
CloseHandlerSilent(h) ==
    /\ Unsubscribe(subscriptions[h])
    /\ subscriptions' = [subscriptions EXCEPT ![h] = {}]
    /\ UNCHANGED disconnect_event

CloseHandler(h) ==
    /\ Unsubscribe(subscriptions[h])
    /\ subscriptions' = [subscriptions EXCEPT ![h] = {}]
    /\ disconnect_event' = disconnect_event \cup {h}

AsyncClose(h) ==
    /\ h \in async_close
    /\ async_close' = async_close \ {h}
    /\ CloseHandler(h)
    /\ UNCHANGED <<messages, should_exit, subscribed_messages, connection, history>>

-----------------------------------------------------------------------------
(* WsConnection                                                            *)

\* One turn of handle_publications; the write may fail.
HandlePublications(h) ==
    /\ connection[h] \in {"open", "ended"} /\ subscribed_messages[h] # <<>>
    /\ subscribed_messages' = [subscribed_messages EXCEPT ![h] = Tail(@)]
    /\ \/ /\ LET m == Head(subscribed_messages[h])
             IN  delivered' = [delivered EXCEPT ![m[1]] = Append(@, m[2])]
          /\ UNCHANGED connection
       \/ connection' = [connection EXCEPT ![h] = "broken"] /\ UNCHANGED delivered
    /\ UNCHANGED <<subscribers, messages, should_exit, subscriptions, task, async_close,
                   disconnect_event, open_feeds, published, due, dropped>>

\* handle returns: the client is gone, or wait_for_close has returned.
HandleReturns(h) ==
    /\ connection[h] = "open"
    /\ connection' = [connection EXCEPT ![h] = "ended"]
    /\ UNCHANGED <<subscribers, messages, should_exit, subscriptions, task, subscribed_messages,
                   async_close, disconnect_event, open_feeds, history>>

\* Mutant: a handler that has set its disconnect_event is not closed again.
CloseOnce(h) ==
    /\ connection[h] \in {"ended", "broken"}
    /\ connection' = [connection EXCEPT ![h] = "closed"]
    /\ IF h \in disconnect_event
       THEN UNCHANGED <<subscribers, subscriptions, task, open_feeds, disconnect_event>>
       ELSE CloseHandler(h)
    /\ UNCHANGED <<messages, should_exit, subscribed_messages, async_close, history>>

\* WsConnection.close, from the finally of handle_ws_request.  It cancels the handlers.
Close(h) ==
    /\ connection[h] \in {"ended", "broken"}
    /\ connection' = [connection EXCEPT ![h] = "closed"]
    /\ CloseHandler(h)
    /\ UNCHANGED <<messages, should_exit, subscribed_messages, async_close, history>>

\* AbstractHttpRpcServer.stop closes every connection, those that are being served too;
\* handle of such a connection then returns, and the second close finds nothing.
StopServer(h) ==
    /\ connection[h] = "open"
    /\ connection' = [connection EXCEPT ![h] = "closed"]
    /\ CloseHandler(h)
    /\ UNCHANGED <<messages, should_exit, subscribed_messages, async_close, history>>

-----------------------------------------------------------------------------
FeedsInit ==
    /\ subscribers = {} /\ should_exit = {} /\ task = {} /\ async_close = {} /\ disconnect_event = {}
    /\ messages = [s \in Subscriber |-> <<>>]
    /\ subscriptions = [h \in Handler |-> {}]
    /\ subscribed_messages = [h \in Handler |-> <<>>]
    /\ connection = [h \in Handler |-> "open"]
    /\ open_feeds = 0 /\ published = 0 /\ dropped = {}
    /\ due = [s \in Subscriber |-> <<>>]
    /\ delivered = [s \in Subscriber |-> <<>>]

FeedsNext ==
    \/ Publish
    \/ \E h \in Handler :
          \/ \E s \in Subscriber : Subscribe(h, s) \/ UnsubscribeRequest(h, s) \/ HandleSubscription(h, s)
          \/ AsyncClose(h) \/ HandlePublications(h) \/ HandleReturns(h) \/ Close(h)
          \/ StopServer(h)

\* handle_ws_request goes on when wait_for_close has returned.
EndConnection(h) == (h \in disconnect_event /\ HandleReturns(h)) \/ Close(h)

FeedsSpec ==
    /\ FeedsInit /\ [][FeedsNext]_feeds
    /\ \A h \in Handler : WF_feeds(AsyncClose(h)) /\ WF_feeds(EndConnection(h))

-----------------------------------------------------------------------------
\* A client gets the messages that match its filter in order and without a gap; when
\* a queue is full it gets nothing more, but never the later ones without the earlier.
NoGaps ==
    \A s \in Subscriber :
        /\ Len(delivered[s]) <= Len(due[s])
        /\ delivered[s] = SubSeq(due[s], 1, Len(delivered[s]))

\* Nothing of a closed connection is left, though a request may subscribe after the
\* handler was closed for a full queue and before the connection is.
NothingLeftBehind ==
    \A h \in Handler : connection[h] = "closed" => subscriptions[h] = {}

\* A connection whose queue was full is closed in the end.
SlowReaderClosed == \A h \in Handler : [](h \in async_close => <>(connection[h] = "closed"))

=============================================================================
