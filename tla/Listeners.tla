----------------------------- MODULE Listeners -----------------------------
(***************************************************************************)
(* Where the panel listens (cmd/caspian/serve_panel.go, internal/panel/    *)
(* listen.go).  The hotspot's address is not there until the access point  *)
(* has been started through the panel, so the panel looks again at every   *)
(* tick: it asks the privileged service what the interfaces hold, reads    *)
(* the setting for the local network, and closes and opens listeners.      *)
(* Between any two of these the box and the setting may change.            *)
(*                                                                         *)
(* An address is a member of Places; the port is always the panel's.       *)
(***************************************************************************)
EXTENDS Integers, FiniteSets

CONSTANTS
    Places, Public,     \* addresses an interface may hold; those the internet can reach
    Itself, Nowhere,    \* loopback; no address
    MaxShifts, MaxRefusals      \* bounds: changes of the box, ports taken or accepts failing

ASSUME PlacesAssumption ==
    Public \subseteq Places /\ Itself \notin Places /\ Nowhere \notin Places \cup {Itself}

VARIABLES
    ifaces,             \* what the hotspot's interface and the uplink hold
    onLAN,              \* PanelOnLAN, as stored
    extra,              \* --listen
    turn,               \* the loop's step
    heard, want,        \* the service's answer, if any; desiredAddrs
    active, deaf,       \* the listeners kept; those that no longer accept
    cancelled,          \* the context is done
    seen, taken,        \* what was the case since the look began; ports it found taken
    shifts, refusals

world     == <<ifaces, onLAN, extra>>
listening == <<active, deaf>>
look      == <<heard, want, seen, taken>>
wvars     == <<world, turn, listening, cancelled, look, shifts, refusals>>

View == [hotspot |-> ifaces.hotspot, uplink |-> ifaces.uplink, on |-> onLAN]

ListenersInit ==
    /\ ifaces \in [{"hotspot", "uplink"} -> Places \cup {Nowhere}]
    /\ onLAN \in BOOLEAN /\ extra \in SUBSET Places
    /\ turn = "starts" /\ active = {} /\ deaf = {} /\ cancelled = FALSE
    /\ heard = {} /\ want = {} /\ seen = {} /\ taken = {}
    /\ shifts = 0 /\ refusals = 0

-----------------------------------------------------------------------------
(* Addresses.                                                               *)

isGloballyRoutable(a) == a \in Public

\* Wildcards, names and bad ports are no addresses an interface holds.
ValidateBindAddr(a) == ~isGloballyRoutable(a)

\* One refused address refuses them all.
BindAddrs(d, on) ==
    LET found == ({d.hotspot} \cup (IF on THEN {d.uplink} ELSE {})) \ {Nowhere}
    IN  IF \A a \in found : ValidateBindAddr(a) THEN found ELSE {}

\* An address can be bound while the box holds it.
CanListen(a) == ValidateBindAddr(a) /\ a \in {Itself, ifaces.hotspot, ifaces.uplink}

-----------------------------------------------------------------------------
(* The loop.                                                                *)

\* servePanel: a refused --listen ends the program.
ServePanel ==
    /\ turn = "starts"
    /\ turn' = IF \A a \in extra : ValidateBindAddr(a) THEN "looks" ELSE "ended"
    /\ UNCHANGED <<world, listening, cancelled, look, shifts, refusals>>

\* Detect, which the service may be too busy to answer in time.
AskWhere ==
    /\ turn = "looks" /\ turn' = "reads"
    /\ \/ heard' = {}
       \/ ~cancelled /\ heard' = {ifaces}
    /\ seen' = {View}
    /\ UNCHANGED <<world, listening, cancelled, want, taken, shifts, refusals>>

\* desiredAddrs: the setting, as it is by now, applied to the answer.
DesiredAddrs ==
    /\ turn = "reads" /\ turn' = "reconciles"
    /\ want' = {Itself} \cup {a \in extra \cup UNION {BindAddrs(d, onLAN) : d \in heard} : ValidateBindAddr(a)}
    /\ UNCHANGED <<world, listening, cancelled, heard, seen, taken, shifts, refusals>>

\* Mutant: what has gone is not closed.
ReconcileOpens ==
    /\ turn = "reconciles" /\ turn' = "waits"
    /\ active' = active \cup {a \in want : CanListen(a)}
    /\ UNCHANGED <<world, deaf, cancelled, look, shifts, refusals>>

\* reconcile: what has gone is closed; what is new is opened, unless the address has
\* left meanwhile or its port is taken.  What is kept is kept as it is.
Reconcile ==
    /\ turn = "reconciles" /\ turn' = "waits"
    /\ taken' \in SUBSET (want \ active)
    /\ refusals' = refusals + Cardinality(taken') /\ refusals' <= MaxRefusals
    /\ active' = (active \cap want) \cup {a \in want \ taken' : CanListen(a)}
    /\ deaf' = deaf \cap want /\ want' = {}
    /\ UNCHANGED <<world, cancelled, heard, seen, shifts>>

\* The next tick; when the context is done too, either may be taken.
NextTick ==
    /\ turn = "waits" /\ turn' = "looks"
    /\ heard' = {} /\ want' = {} /\ seen' = {} /\ taken' = {}
    /\ UNCHANGED <<world, listening, cancelled, shifts, refusals>>

CloseAll ==
    /\ turn = "waits" /\ cancelled /\ turn' = "ended"
    /\ active' = {} /\ deaf' = {}
    /\ UNCHANGED <<world, cancelled, look, shifts, refusals>>

-----------------------------------------------------------------------------
(* The box, the person and the process.                                     *)

Shift ==
    /\ turn \notin {"starts", "ended"} /\ shifts < MaxShifts /\ shifts' = shifts + 1
    /\ seen' = IF turn \in {"reads", "reconciles"} THEN seen \cup {View'} ELSE seen
    /\ UNCHANGED <<extra, turn, listening, cancelled, heard, want, taken, refusals>>

\* An interface gets an address, loses it or changes it.
Holds(i, a) == ifaces[i] # a /\ ifaces' = [ifaces EXCEPT ![i] = a] /\ UNCHANGED onLAN /\ Shift

\* handleAdvanced: the setting is stored, and waits for the next tick.
StoreOnLAN == onLAN' = ~onLAN /\ UNCHANGED ifaces /\ Shift

\* Serve returns with an error; its listener stays in the map.
Deafens(a) ==
    /\ a \in active \ deaf /\ deaf' = deaf \cup {a}
    /\ refusals < MaxRefusals /\ refusals' = refusals + 1
    /\ UNCHANGED <<world, turn, active, cancelled, look, shifts>>

Cancel ==
    /\ turn # "ended" /\ ~cancelled /\ cancelled' = TRUE
    /\ UNCHANGED <<world, turn, listening, look, shifts, refusals>>

ListenersNext ==
    \/ ServePanel \/ AskWhere \/ DesiredAddrs \/ Reconcile \/ NextTick \/ CloseAll
    \/ \E i \in {"hotspot", "uplink"}, a \in Places \cup {Nowhere} : Holds(i, a)
    \/ StoreOnLAN \/ Cancel
    \/ \E a \in active : Deafens(a)

ListenersSpec == ListenersInit /\ [][ListenersNext]_wvars

-----------------------------------------------------------------------------
(* Properties.                                                              *)

\* What any reading since the look began could have named.
Lately ==
    {v.hotspot : v \in seen} \cup (IF \E v \in seen : v.on THEN {v.uplink : v \in seen} ELSE {})

\* What every such reading names; a public address with the setting on names nothing.
Steadily ==
    IF \/ \E v \in seen : v.hotspot \in Public
       \/ (\E v \in seen : v.on) /\ (\E v \in seen : v.uplink \in Public)
    THEN {} ELSE {a \in Places : \/ \A v \in seen : a = v.hotspot
                                \/ \A v \in seen : v.on /\ a = v.uplink}

\* The panel follows the box.  After each look it listens on the box itself, on what
\* --listen names, on the hotspot's address and, only with the setting on, on the local
\* network's, as they were at some moment since the look began, and nowhere else: an
\* address that has gone or a setting turned off is closed one look later (reconcile:
\* "Closing is what makes 'never the uplink' hold over time and not only at startup").
\* And an address that was there throughout is served once the service answers, however
\* late it came and however often it could not be bound before.  A public address is
\* never served, and nothing is served after the end.
FollowsTheBox ==
    /\ turn = "waits" =>
         /\ active \subseteq {Itself} \cup extra \cup Lately
         /\ {Itself} \ taken \subseteq active
         /\ heard # {} => Steadily \ taken \subseteq active
    /\ active \cap Public = {}
    /\ turn = "ended" => active = {}
=============================================================================
