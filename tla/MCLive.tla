------------------------------ MODULE MCLive -------------------------------
(* What must happen in the end, on two sides that share no state: the sweeps *)
(* of the journal (Applier) and the calls on the service (PrivService).  One *)
(* side is chosen at the start and only it moves, under its own fairness.    *)
EXTENDS MCApplier

CONSTANTS Callers, Reqs, Spoofed, Nobody, MaxCalls, MaxSlips, MaxExpiries, MaxDeaths, MaxReads

VARIABLES
    side,
    lock, call, where, alive, failing, then,
    applier, published, hp, running, fingerprint, forward, socksPort, cached,
    net, table, phase, tun, forwarder, ap, up, poll, seen, fetch, port,
    calls, slips, expiries, deaths, reads

S == INSTANCE PrivService
    WITH pc <- where, plan <- published, faults <- slips, crashes <- deaths,
         MaxFaults <- MaxSlips, MaxCrashes <- MaxDeaths

svars == <<lock, call, where, alive, failing, then,
           applier, published, hp, running, fingerprint, forward, socksPort, cached,
           net, table, phase, tun, forwarder, ap, up, poll, seen, fetch, port,
           calls, slips, expiries, deaths, reads>>

-----------------------------------------------------------------------------
MCInit ==
    /\ side \in {"applier", "service"}
    /\ Init /\ (side # "applier" => base = Machine(0))
    /\ S!Init /\ (side # "service" => port = "free")

Sweeps   == side = "applier" /\ Sweep
Boots    == side = "service" /\ S!Boot
Polls    == side = "service" /\ S!PollGoesOn
Fetches  == side = "service" /\ S!RefreshGoesOn
Works(c) == side = "service" /\ S!Operation(c)
Locks(c) == side = "service" /\ S!Lock(c)

MCNext ==
    \/ side = "applier" /\ Next   /\ UNCHANGED <<side, svars>>
    \/ side = "service" /\ S!Next /\ UNCHANGED <<side, vars>>

\* The applier: a process that is down comes up, a start that was refused is followed
\* by another, and a sweep goes on to its end.  The service: every operation, poll and
\* refresh is a goroutine that goes on, sync.Mutex hands itself to whoever has waited
\* long enough, and systemd starts the service again.
FairSpec ==
    /\ MCInit /\ [][MCNext]_<<side, vars, svars>>
    /\ WF_vars(Sweeps)
    /\ WF_svars(Boots) /\ WF_svars(Polls) /\ WF_svars(Fetches)
    /\ \A c \in Callers : WF_svars(Works(c)) /\ SF_svars(Locks(c))

-----------------------------------------------------------------------------
\* Every call, poll and refresh is answered, whatever fails and whoever waits
\* (start.go, rollbackLocked: "a wedged teardown cannot hold the service's operation
\* lock for ever").
EveryCallReturns == S!EveryCallReturns
=============================================================================
