--------------------------- MODULE MCPrivService ---------------------------
(* Instances of PrivService for TLC: two connections, two requests, one of   *)
(* them with SNI spoofing.                                                   *)
EXTENDS PrivService, TLC

CONSTANTS c1, c2, r1, r2

MCCallers == {c1, c2}
MCReqs    == {r1, r2}
MCOneReq  == {r2}
MCSpoofed == {r2}

\* Connections are interchangeable; only one request spoofs.
MCSymmetry == Permutations(MCCallers)
=============================================================================
