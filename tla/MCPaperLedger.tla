--------------------------- MODULE MCPaperLedger ---------------------------
(* Instances of PaperLedger for TLC: close requests, watches and, where they *)
(* start alike, servers and trades are interchangeable.                     *)
EXTENDS PaperLedger, TLC

TradeSymmetry ==
    Permutations(Requests) \cup Permutations(Watches) \cup Permutations(Trades)
SessionSymmetry == TradeSymmetry \cup Permutations(Servers)
=============================================================================
