---------------------------- MODULE MC_SsamRequest ----------------------------
(* Model values and bounds for SsamRequest: two callers, sequence numbers  *)
(* that wrap after two requests, one retransmission per request.           *)
EXTENDS SsamRequest, TLC

CONSTANTS c1, c2

MCClients == {c1, c2}

====
