----------------------------- MODULE MCBackground -----------------------------
(***************************************************************************)
(* What goes on behind the messages, checked in one run: part says which   *)
(* of three systems moves, the handlers of the transaction service, a      *)
(* collection whose items expire or the requests on the thread pool, and   *)
(* the others stay in their initial state.                                 *)
(***************************************************************************)
EXTENDS MCTransactionService, ExpiringSet, ThreadedRequests

VARIABLE part

background == <<part, vars, expiring, threads>>

BackgroundInit ==
    /\ part \in {"transactions", "items", "requests"}
    /\ Init /\ ItemsInit /\ RequestsInit

Only(p) ==
    /\ part = p /\ UNCHANGED part
    /\ p # "transactions" => UNCHANGED vars
    /\ p # "items" => UNCHANGED expiring
    /\ p # "requests" => UNCHANGED threads

BackgroundNext ==
    \/ Only("transactions") /\ Next
    \/ Only("items") /\ ItemsNext
    \/ Only("requests") /\ RequestsNext

\* The fairness of each part, as its own specification has it.
BackgroundSpec ==
    /\ BackgroundInit /\ [][BackgroundNext]_background
    /\ WF_background(Only("transactions") /\ Step)
    /\ WF_background(Only("items") /\ Tick) /\ WF_background(Only("items") /\ Cleanup)
    /\ WF_background(Only("requests") /\ MainStep)
    /\ \A w \in Worker : WF_background(Only("requests") /\ WorkerStep(w))

=============================================================================
