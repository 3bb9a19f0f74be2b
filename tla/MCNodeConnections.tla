------------------------- MODULE MCNodeConnections -------------------------
(***************************************************************************)
(* Instances of NodeConnections: an SDN; a relay the node connects to, with*)
(* the same relay connecting to this node, authenticated or not; and a     *)
(* proxy that may have two connections.                                    *)
(***************************************************************************)
EXTENDS NodeConnections, TLC

CONSTANTS c1, c2, sdn, relay, incoming, plain, proxy, second

MCOutbound == {sdn, relay, proxy}
MCNetworks == {{sdn}, {relay}, {relay, incoming}, {relay, plain}, {proxy}, {proxy, second}}
LifeNetworks == {{sdn}, {relay, incoming}}
MCIpOf == sdn :> "a" @@ relay :> "b" @@ incoming :> "b" @@ plain :> "b"
          @@ proxy :> "a" @@ second :> "a"
MCPeerOf == sdn :> "s" @@ relay :> "r" @@ incoming :> "r" @@ plain :> "r"
            @@ proxy :> "p" @@ second :> "p"
MCSDN == {"sdn"}
MCProxy == {"relay_proxy"}
Block == {"relay_block"}
RelayAll == {"relay_block", "relay_transaction"}
MCConnectionType == {MCSDN, Block, RelayAll, MCProxy}
MCAuthType == "s" :> MCSDN @@ "r" :> RelayAll @@ "p" :> MCProxy
MCBuildType == sdn :> MCSDN @@ relay :> Block @@ incoming :> RelayAll @@ plain :> RelayAll
               @@ proxy :> MCProxy @@ second :> MCProxy
MCIsSsl == [e \in {sdn, relay, incoming, plain, proxy, second} |-> e \notin {sdn, plain}]

\* Connections are interchangeable; for the runs without liveness.
Symmetry == Permutations(Conn)

=============================================================================
