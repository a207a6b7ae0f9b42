----------------------------- MODULE MCHelpers -----------------------------
(* What the privileged service leans on, one side at a time: the hotspot's   *)
(* daemons, the hotspots of macOS and Windows, the name forwarder, the       *)
(* engine and its log, and the socket the panel calls through.  The sides    *)
(* share no state: one is chosen at the start and only it moves, the others  *)
(* rest in one of their initial states.  The sides' model values are shared  *)
(* too, so that few permutations serve all of them.                          *)
EXTENDS Supervisor, Sharing, Forwarder, Engine, Wire, TLC

CONSTANT Sides

VARIABLE side

MCSymmetry == Permutations(Plans) \cup Permutations(Devs)

MCNetworks ==
    {[name |-> "n", password |-> "p"], [name |-> "n", password |-> "q"],
     [name |-> "m", password |-> "p"]}

\* Forwarder: a hello cut into records in one, three and five pieces.
Setup(n, t, r, h, k, f) ==
    [name |-> n, tcp |-> t, records |-> r, hello |-> h, calls |-> k, troubles |-> f]
HelloOf(sizes, names) ==
    [sizes |-> sizes, head |-> 2, names |-> names, tail |-> 1, sound |-> TRUE]
Name(h, n) == [host |-> h, size |-> n]
MCHellos ==
    {HelloOf(z, ns) : z \in {<<9>>, <<2, 3, 5>>, <<1, 1, 1, 6, 2>>},
                      ns \in {<<>>, <<Name(TRUE, 1)>>, <<Name(TRUE, 3), Name(FALSE, 1)>>}}
Short == HelloOf(<<3>>, <<>>)
MCSetups ==
    {Setup(TRUE, FALSE, FALSE, Short, 2, 1), Setup(TRUE, TRUE, FALSE, Short, 1, 2),
     Setup(FALSE, FALSE, FALSE, Short, 3, 1),
     Setup(FALSE, TRUE, FALSE, [Short EXCEPT !.sound = FALSE], 1, 0)}
    \cup {Setup(FALSE, t, r, h, 1, 0) : t \in BOOLEAN, r \in BOOLEAN, h \in MCHellos}

\* Engine: a tunnel, one whose last inbound cannot listen, a document that does not
\* build, one without a tunnel; and four lines logged around one start.
Venture(c, s, o, t, l) ==
    [config |-> c, starts |-> s, outsiders |-> o, troubles |-> t, lines |-> l]
MCVentures ==
    {Venture("tun", 4, 2, 2, 0), Venture("late", 3, 2, 1, 0), Venture("bad", 2, 0, 0, 0),
     Venture("plain", 3, 0, 1, 0), Venture("plain", 1, 0, 0, 4)}

\* Wire: a call that waits, a message out of the ordinary, two calls at once, and a
\* second copy started by hand.
Msg(from, frame, action, patience) ==
    [from |-> from, frame |-> frame, json |-> TRUE, version |-> 1, action |-> action,
     start |-> action \in {"start", "recover"}, refresh |-> action = "refresh",
     patience |-> patience]
Ask(action, patience) == Msg("panel", "whole", action, patience)
Slow == {Ask("start", 4), Ask("status", 0), Msg("root", "silent", "stop", 2)}
Odd ==
    {[Ask("cut", 2) EXCEPT !.version = 2], Msg("panel", "over", "start", 1),
     Msg("root", "part", "stop", 1), Msg("root", "over", "stop", 1),
     Msg("stranger", "whole", "stop", 1)}
Occasion(cs, m, n, h, u) ==
    [copies |-> cs, messages |-> m, calls |-> n, horizon |-> h, upsets |-> u]
MCOccasions ==
    {Occasion({"s1"}, Slow, 1, 4, 1), Occasion({"s1"}, Odd, 1, 1, 1),
     Occasion({"s1"}, {Ask("start", 4), Ask("stop", 1)}, 2, 1, 0),
     Occasion({"s1"}, {Ask("start", 4), Ask("stop", 1)}, 2, 0, 1),
     Occasion({"s1", "s2"}, {Ask("start", 4)}, 1, 0, 1)}
MCErrors ==
    {[from |-> "nil", text |-> "other", unit |-> "dhcp", is |-> {}],
     [from |-> "hotspot", text |-> "other", unit |-> "ap", is |-> {"not-ap"}],
     [from |-> "engine", text |-> "port-in-use", unit |-> "engine", is |-> {}]}

Pick(S) == CHOOSE x \in S : TRUE

MCInit ==
    /\ side \in Sides
    /\ Init /\ (side # "daemons" => soft = {})
    /\ SharingInit /\ (side # "sharing" => backend = "mac" /\ airport)
    /\ ForwarderInit /\ (side # "forwarder" => mode = Pick(Setups))
    /\ EngineInit /\ (side # "engine" => venture = Pick(Ventures))
    /\ WireInit /\ (side # "wire" => occasion = Pick(Occasions) /\ path = "none")

Others(s) ==
    /\ UNCHANGED side
    /\ s # "daemons"   => UNCHANGED vars
    /\ s # "sharing"   => UNCHANGED svars
    /\ s # "forwarder" => UNCHANGED fvars
    /\ s # "engine"    => UNCHANGED evars
    /\ s # "wire"      => UNCHANGED wvars

MCNext ==
    \/ side = "daemons"   /\ Next          /\ Others("daemons")
    \/ side = "sharing"   /\ SharingNext   /\ Others("sharing")
    \/ side = "forwarder" /\ ForwarderNext /\ Others("forwarder")
    \/ side = "engine"    /\ EngineNext    /\ Others("engine")
    \/ side = "wire"      /\ WireNext      /\ Others("wire")

MCSpec == MCInit /\ [][MCNext]_<<side, vars, svars, fvars, evars, wvars>>
=============================================================================
