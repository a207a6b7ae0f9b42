----------------------------- MODULE MCApplier -----------------------------
(* TLC instances of Applier: the plan that adds an access point interface   *)
(* to the radio, and the one that takes the station interface over.         *)
EXTENDS Applier

MCKind == [nft |-> "nft", fwd |-> "sysctl", ap0 |-> "iface", nm |-> "release",
           sta |-> "station", up |-> "up", hap |-> "addr", pin |-> "addr",
           tun |-> "engine", rule |-> "addr"]

MCRes == DOMAIN MCKind

MCDevOf == [r \in MCRes |-> IF r = "rule" THEN "tun" ELSE IF r = "hap" THEN "ap0" ELSE r]

VirtualPlan  == <<"nft", "fwd", "ap0", "hap", "pin", "tun", "rule">>
TakeoverPlan == <<"nft", "fwd", "nm", "sta", "up", "tun", "rule">>

MCPlans == {VirtualPlan, TakeoverPlan}
MCVirtual == {VirtualPlan}

\* A fresh box, and one that forwards already and has a route to the server.
Machine(v) == [r \in MCRes |-> CASE r \in {"fwd", "pin"} -> v [] r = "sta" -> 1 [] OTHER -> 0]

MCBases == {Machine(0), Machine(1)}

MCExposing == {"fwd", "hap", "rule"}
=============================================================================
