------------------------------ MODULE MCProtocol ------------------------------
(***************************************************************************)
(* What two peers exchange, checked in one run: part says which of the two *)
(* systems moves, the sync of the transactions or the link between peers   *)
(* of two versions, and the other stays in one initial state.              *)
(***************************************************************************)
EXTENDS MCTxSync, MCVersionedLink

VARIABLE part

protocol == <<part, vars, linkVars>>

ProtocolInit ==
    /\ part \in {"sync", "link"}
    /\ Init /\ LinkInit
    /\ part # "link" => scenario = CHOOSE s \in Scenarios : TRUE

Only(p) ==
    /\ part = p /\ UNCHANGED part
    /\ p # "sync" => UNCHANGED vars
    /\ p # "link" => UNCHANGED linkVars

ProtocolNext ==
    \/ Only("sync") /\ Next
    \/ Only("link") /\ LinkNext

\* The fairness of TxSync.
ProtocolSpec ==
    /\ ProtocolInit /\ [][ProtocolNext]_protocol
    /\ WF_protocol(Only("sync") /\ SyncAlarm) /\ WF_protocol(Only("sync") /\ TimeIsUp)

=============================================================================
