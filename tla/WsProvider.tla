------------------------------ MODULE WsProvider ------------------------------
(***************************************************************************)
(* AbstractWsProvider: RPC calls over a websocket that breaks and is       *)
(* opened again.  A call waits for its answer and for the task that        *)
(* watches the socket, whichever comes first.                              *)
(*                                                                         *)
(* Connections are numbered; MaxConnections bounds them, and the last one  *)
(* does not break.                                                         *)
(***************************************************************************)
EXTENDS Integers, FiniteSets

CONSTANTS Call, MaxConnections

VARIABLES
    retry_connection,   \* the argument of the constructor
    ws,                 \* the socket: the number of its connection, 0 for None
    made,               \* how many connections have been made
    open,               \* the connections that are open
    running,
    connected_event,
    ws_status_check,    \* the connection that the status check watches, 0 when it is over
    reconnecting,       \* the reconnect task is running
    closing,            \* close awaits the end of the socket
    closed,             \* close has ended: no, connected or broken, by how it was when called
    call,               \* call[c]: idle, waiting for connected_event, woken by it, sent,
                        \* answered or failed
    sent_on,            \* the connection that call c was sent on
    responses,          \* the calls whose response is in the response queue
    listening           \* listener_task still reads from the socket in use

provider == <<retry_connection, ws, made, open, running, connected_event, ws_status_check,
              reconnecting, closing, closed, call, sent_on, responses, listening>>

socket == <<retry_connection, ws, made, open, running, connected_event, ws_status_check, reconnecting,
            closing, closed>>
calls == <<call, sent_on, responses, listening>>

-----------------------------------------------------------------------------
(* call and get_rpc_response                                               *)

\* What follows connected_event.wait().  A send on a socket that has closed raises.
SendRequest(c) ==
    \/ /\ running /\ ws \in open
       /\ call' = [call EXCEPT ![c] = "sent"]
       /\ sent_on' = [sent_on EXCEPT ![c] = ws]
    \/ /\ ~running \/ ws \notin open
       /\ call' = [call EXCEPT ![c] = "failed"]
       /\ UNCHANGED sent_on

StartCall(c) ==
    /\ call[c] = "idle"
    /\ \/ connected_event /\ SendRequest(c)
       \/ ~connected_event /\ call' = [call EXCEPT ![c] = "waiting"] /\ UNCHANGED sent_on
    /\ UNCHANGED <<socket, responses, listening>>

ResumeCall(c) ==
    /\ call[c] = "woken"
    /\ SendRequest(c)
    /\ UNCHANGED <<socket, responses, listening>>

\* connected_event.set().  A task that it wakes runs on though the event is cleared again.
SetConnectedEvent ==
    /\ connected_event' = TRUE
    /\ call' = [c \in Call |-> IF call[c] = "waiting" THEN "woken" ELSE call[c]]

\* The listener puts the answer of the server in the response queue.
Respond(c) ==
    /\ listening /\ call[c] = "sent" /\ sent_on[c] = ws /\ ws \in open
    /\ responses' = responses \cup {c}
    /\ UNCHANGED <<socket, call, sent_on, listening>>

\* ResponseQueue.put raises for a response that has no id, which ends the listener: what
\* the server sends on this socket from then on is not read.
ResponseWithoutId ==
    /\ listening /\ ws \in open
    /\ listening' = FALSE
    /\ UNCHANGED <<socket, call, sent_on, responses>>

\* Mutant: only the answer wakes the call.
BrokenUnseen(c) == FALSE

\* The status check that the call waits for has ended.
Broken(c) == ws_status_check # sent_on[c]

\* _wait_for_ws_message returns or raises.
EndCall(c) ==
    /\ call[c] = "sent"
    /\ \/ /\ c \in responses
          /\ call' = [call EXCEPT ![c] = "answered"]
          /\ responses' = responses \ {c}
       \/ /\ c \notin responses /\ Broken(c)
          /\ call' = [call EXCEPT ![c] = "failed"]
          /\ UNCHANGED responses
    /\ UNCHANGED <<socket, sent_on, listening>>

-----------------------------------------------------------------------------
(* The socket                                                              *)

Break ==
    /\ ws \in open /\ ws < MaxConnections
    /\ open' = open \ {ws}
    /\ UNCHANGED <<retry_connection, ws, made, running, connected_event, ws_status_check,
                   reconnecting, closing, closed, calls>>

\* Mutant: a provider that is being closed reconnects as well.
ShouldReconnectAlways == retry_connection

ShouldReconnect == retry_connection /\ running

\* _ensure_websocket_alive, once the socket is closed.  Without retry_connection it
\* closes the provider, which opens connected_event for the calls that wait.
EnsureWebsocketAlive ==
    /\ ws_status_check # 0 /\ ws_status_check \notin open
    /\ ws_status_check' = 0
    /\ running' = (running /\ retry_connection)
    /\ reconnecting' = ShouldReconnect
    /\ \/ retry_connection /\ connected_event' = FALSE /\ UNCHANGED call
       \/ ~retry_connection /\ SetConnectedEvent
    /\ UNCHANGED <<retry_connection, ws, made, open, closing, closed, sent_on, responses,
                   listening>>

\* connect, of reconnect: an attempt that succeeds.
Connect ==
    /\ reconnecting /\ made < MaxConnections
    /\ made' = made + 1 /\ ws' = made' /\ open' = open \cup {made'}
    /\ running' = TRUE
    /\ SetConnectedEvent
    /\ ws_status_check' = made'
    /\ reconnecting' = FALSE
    /\ listening' = TRUE
    /\ UNCHANGED <<retry_connection, closing, closed, sent_on, responses>>

\* An attempt that is refused or times out: the next one follows, unless the provider
\* was closed.  After any other exception it follows in any case.
ConnectFails ==
    /\ reconnecting
    /\ ws' = 0
    /\ reconnecting' \in {running, TRUE}
    /\ UNCHANGED <<retry_connection, made, open, running, connected_event, ws_status_check, closing, closed, calls>>

\* close, up to wait_closed of the socket.
StartClose ==
    /\ ~closing /\ closed = "no"
    /\ closing' = TRUE
    /\ running' = FALSE
    /\ open' = open \ {ws}
    /\ closed' = IF reconnecting THEN "broken" ELSE "connected"
    /\ UNCHANGED <<retry_connection, ws, made, connected_event, ws_status_check, reconnecting, calls>>

\* The rest of close.
FinishClose ==
    /\ closing
    /\ closing' = FALSE
    /\ ws_status_check' = 0
    /\ SetConnectedEvent
    /\ UNCHANGED <<retry_connection, ws, made, open, running, reconnecting, closed, sent_on, responses,
                   listening>>

-----------------------------------------------------------------------------
\* After initialize has connected.
ProviderInit ==
    /\ retry_connection \in BOOLEAN
    /\ ws = 1 /\ made = 1 /\ open = {1} /\ running = TRUE /\ connected_event = TRUE
    /\ ws_status_check = 1 /\ reconnecting = FALSE /\ closing = FALSE /\ closed = "no"
    /\ call = [c \in Call |-> "idle"] /\ sent_on = [c \in Call |-> 0] /\ responses = {}
    /\ listening = TRUE

\* A call that has begun goes on.
CallStep(c) == ResumeCall(c) \/ EndCall(c)

ProviderNext ==
    \/ \E c \in Call : StartCall(c) \/ Respond(c) \/ CallStep(c)
    \/ ResponseWithoutId
    \/ Break \/ EnsureWebsocketAlive \/ Connect \/ ConnectFails \/ StartClose \/ FinishClose

\* Tasks that can run do, and an endpoint that refuses connections accepts one in the end.
ProviderSpec ==
    /\ ProviderInit /\ [][ProviderNext]_provider
    /\ WF_provider(EnsureWebsocketAlive) /\ SF_provider(Connect) /\ WF_provider(FinishClose)
    /\ \A c \in Call : WF_provider(CallStep(c))

-----------------------------------------------------------------------------
\* A call ends unless its socket is open and the server is silent on it, or the listener
\* has ended on a response without an id: it never waits on a socket that is gone, nor for
\* a connection that will not come, though the socket breaks or the provider is closed at
\* any point of the call.
CallsEnd ==
    \A c \in Call :
        [](call[c] \in {"waiting", "woken", "sent"} =>
              <>(call[c] \in {"answered", "failed"} \/ (call[c] = "sent" /\ sent_on[c] \in open)))

\* A provider that was closed while it was connected, or before it noticed that it was
\* not, does not come back.
ClosedStaysClosed == closed = "connected" => ~running /\ open = {}

=============================================================================
