------------------------------ MODULE MCServices ------------------------------
(***************************************************************************)
(* Four small systems checked in one run, one after the other: part says   *)
(* which of them moves, and the others stay in their initial state.        *)
(***************************************************************************)
EXTENDS OutputBuffer, Feeds, WsProvider, AlarmQueue

VARIABLE part

\* The third message does not fit in a batch with another.
FourSizes == <<1, 2, 3, 1>>

vars == <<part, output, feeds, provider, alarmqueue>>

Init ==
    /\ part \in {"output", "feeds", "provider", "alarms"}
    /\ OutputInit /\ FeedsInit /\ AlarmsInit
    /\ ProviderInit /\ (part # "provider" => retry_connection)

\* Only this part moves.
Only(p) ==
    /\ part = p /\ UNCHANGED part
    /\ p # "output" => UNCHANGED output
    /\ p # "feeds" => UNCHANGED feeds
    /\ p # "provider" => UNCHANGED provider
    /\ p # "alarms" => UNCHANGED alarmqueue

Next ==
    \/ Only("output") /\ OutputNext
    \/ Only("feeds") /\ FeedsNext
    \/ Only("provider") /\ ProviderNext
    \/ Only("alarms") /\ AlarmsNext

\* The fairness of each part, as its own specification has it.
Spec ==
    /\ Init /\ [][Next]_vars
    /\ WF_vars(Only("output") /\ HoldTimePasses)
    /\ WF_vars(Only("output") /\ FlushAllSendBuffers)
    /\ \A h \in Handler :
          WF_vars(Only("feeds") /\ AsyncClose(h)) /\ WF_vars(Only("feeds") /\ EndConnection(h))
    /\ WF_vars(Only("provider") /\ EnsureWebsocketAlive)
    /\ SF_vars(Only("provider") /\ Connect) /\ WF_vars(Only("provider") /\ FinishClose)
    /\ \A c \in Call : WF_vars(Only("provider") /\ CallStep(c))
    /\ WF_vars(Only("alarms") /\ LoopStep) /\ WF_vars(Only("alarms") /\ TimePasses)

=============================================================================
