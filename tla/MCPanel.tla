------------------------------ MODULE MCPanel ------------------------------
(* The panel, one side at a time: its handlers and the store, who may use    *)
(* it, the limit on attempts, the status page with its polls, and where it   *)
(* listens.  The sides share no state that both change: one is chosen at the *)
(* start and only it moves, the others rest in one of their initial states.  *)
EXTENDS Panel, Access, Limiter, Page, Listeners, TLC

CONSTANTS c1, c2, Sides

VARIABLE side

MCSymmetry == Permutations(Browsers) \cup Permutations(Writers)

\* Panel: a list of two entries and a single link.
MCConfigs == {c1, c2}
MCEntries == [c \in MCConfigs |-> IF c = c1 THEN 2 ELSE 1]

\* Page: what is stored, and how often the box moves, a button is pressed, the tab is
\* turned and a request is lost.
Text(t, s, n, d) == [text |-> t, sel |-> s, named |-> n, dpi |-> d]
Visit(t, m, p, u, l) ==
    [stored |-> t, may |-> [moves |-> m, presses |-> p, turns |-> u, losses |-> l]]
One     == Text(<<TRUE>>, 0, TRUE, TRUE)
Several == Text(<<FALSE, TRUE, TRUE>>, 0, TRUE, FALSE)
Empty   == Text(<<>>, 0, FALSE, FALSE)
MCVisits ==
    {Visit(One, 2, 0, 2, 0), Visit(One, 1, 1, 0, 1), Visit(Several, 1, 1, 0, 0),
     Visit(Empty, 1, 1, 0, 0), Visit(One, 3, 0, 0, 1)}

\* Listeners: what --listen names, and what the hotspot's interface holds at the start.
MCExtra   == {{}, {c1}, {c2}}
MCHotspot == {Nowhere, c1}

MCInit ==
    /\ side \in Sides
    /\ Init /\ (side # "handlers" => mem = Fresh)
    /\ AccessInit /\ (side # "access" => disk = NoOne /\ seed = NoOne)
    /\ LimiterInit
    /\ PageInit /\ (side # "page" => box = Zero /\ stored = One /\ may.presses = 1)
    /\ ListenersInit /\ extra \in MCExtra /\ ifaces.hotspot \in MCHotspot
    /\ (side # "listeners" => ifaces.hotspot = Nowhere /\ ifaces.uplink = Nowhere /\ ~onLAN /\ extra = {})

Others(s) ==
    /\ UNCHANGED side
    /\ s # "handlers" => UNCHANGED vars
    /\ s # "access"   => UNCHANGED avars
    /\ s # "limiter"  => UNCHANGED lvars
    /\ s # "page"     => UNCHANGED pvars
    /\ s # "listeners" => UNCHANGED wvars

MCNext ==
    \/ side = "handlers" /\ Next        /\ Others("handlers")
    \/ side = "access"   /\ AccessNext  /\ Others("access")
    \/ side = "limiter"  /\ LimiterNext /\ Others("limiter")
    \/ side = "page"     /\ PageNext    /\ Others("page")
    \/ side = "listeners" /\ ListenersNext /\ Others("listeners")

MCSpec == MCInit /\ [][MCNext]_<<side, vars, avars, lvars, pvars, wvars>>
=============================================================================
