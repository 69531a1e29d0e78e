------------------------------ MODULE MCServer -------------------------------
(* Bounded instances of the server: the connections and the channels they   *)
(* are made to.                                                             *)
EXTENDS Server, TLC

CONSTANTS c1, c2, c3

\* Three TCP clients compete for two TCP workers.
ThreeOnTCP == (c1 :> "TCP") @@ (c2 :> "TCP") @@ (c3 :> "TCP")
TwoTCPWorkers == [l \in Channels |-> IF l = "TCP" THEN 2 ELSE 0]
Symmetry == Permutations({c1, c2, c3})

\* A TCP client and a WebSocket client, on channels of their own.
OnePerChannel == (c1 :> "TCP") @@ (c2 :> "WEBSOCK")
OneWorkerEach == [l \in Channels |-> IF l = "UNIX" THEN 0 ELSE 1]

\* Two WebSocket clients compete for one worker.
TwoOnWebSocket == (c1 :> "WEBSOCK") @@ (c2 :> "WEBSOCK")
OneWebSocketWorker == [l \in Channels |-> IF l = "WEBSOCK" THEN 1 ELSE 0]
=============================================================================
