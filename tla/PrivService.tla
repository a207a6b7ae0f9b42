----------------------------- MODULE PrivService -----------------------------
(***************************************************************************)
(* The privileged service (internal/privsvc): the calls a panel makes on   *)
(* it, the operation lock that puts them in a row, and the polls and       *)
(* refreshes that take no lock.  The engine's life cycle (internal/engine) *)
(* is part of it.                                                          *)
(*                                                                         *)
(* What Applier.tla establishes of the network configuration is used here  *)
(* as a promise: what is on the machine and was not found there is in the  *)
(* journal, and the firewall goes last and only after a clean sweep.       *)
(***************************************************************************)
EXTENDS Integers

CONSTANTS
    Callers,     \* connections that are being served
    Reqs,        \* start requests; a request is its fingerprint
    Spoofed,     \* the requests that need the SNI forwarder
    Nobody,      \* no caller, no request
    MaxCalls, MaxFaults, MaxExpiries, MaxCrashes, MaxReads     \* bounds

ASSUME RequestsAssumption == Spoofed \subseteq Reqs /\ Nobody \notin Reqs \cup Callers

VARIABLES
    lock,        \* who holds opMu
    call,        \* what each caller asked for, with which request
    pc,          \* where its operation has come to
    alive,       \* its context has not expired
    failing,     \* the operation under way will report a failure
    then,        \* what stopLocked was called for
    \* the fields mu guards
    applier, plan, hp, running, fingerprint, forward, socksPort, cached,
    \* the machine
    net,         \* the network: "found", "partial", "pre" (PreEngineSteps), "full"
    table,       \* the generated table: "none", "normal", "cut"
    phase, tun,  \* the engine and the device it made
    forwarder,   \* the SNI forwarder is open
    ap,          \* the request whose access point is on the air
    up,          \* the process is serving
    \* a status poll and a subscription refresh in flight
    poll, seen, fetch,
    port,        \* the preferred local proxy port: "free" or "taken" by another program
    calls, faults, expiries, crashes, reads

op      == <<lock, call, pc, alive, failing, then>>
fields  == <<applier, plan, hp, running, fingerprint, forward, socksPort>>
engine  == <<phase, tun>>
machine == <<net, table, phase, tun, forwarder, ap>>
reader  == <<poll, seen, fetch, reads>>
bounds  == <<calls, expiries, crashes>>
vars == <<op, fields, cached, machine, up, reader, port, bounds, faults>>

Fault   == faults < MaxFaults /\ faults' = faults + 1
NoFault == UNCHANGED faults

Init ==
    /\ lock = Nobody
    /\ call = [c \in Callers |-> [op |-> "none", req |-> Nobody]]
    /\ pc = [c \in Callers |-> "idle"] /\ alive = [c \in Callers |-> TRUE]
    /\ failing = FALSE /\ then = "return"
    /\ applier = FALSE /\ plan = Nobody /\ hp = Nobody /\ running = FALSE
    /\ fingerprint = Nobody /\ forward = "normal" /\ socksPort = "none"
    /\ cached = [at |-> "zero", facts |-> Nobody]
    /\ net = "found" /\ table = "none" /\ phase = "stopped" /\ tun = FALSE
    /\ forwarder = FALSE /\ ap = Nobody
    /\ up = FALSE
    /\ poll = "idle" /\ seen = Nobody /\ fetch = "idle"
    /\ port \in {"free", "taken"}
    /\ calls = 0 /\ faults = 0 /\ expiries = 0 /\ crashes = 0 /\ reads = 0

-----------------------------------------------------------------------------
(* The operation lock.                                                      *)

\* What an operation's step leaves alone: the other callers and the readers.
Rest == UNCHANGED <<lock, call, up, reader, port, bounds>>

Go(c, l) == pc' = [pc EXCEPT ![c] = l]

\* The connection's handler: one request with its deadline, then one operation.
Arrive(c, o, r) ==
    /\ up /\ pc[c] = "idle" /\ calls < MaxCalls
    /\ calls' = calls + 1
    /\ call' = [call EXCEPT ![c] = [op |-> o, req |-> r]]
    /\ alive' = [alive EXCEPT ![c] = TRUE]
    /\ Go(c, "lock")
    /\ UNCHANGED <<lock, failing, then, fields, cached, machine, up, reader, port,
                   expiries, crashes, faults>>

\* The caller's deadline passes, waiting for the lock or holding it; nobody wakes
\* a goroutine that waits for a mutex.
Expire(c) ==
    /\ pc[c] # "idle" /\ alive[c] /\ expiries < MaxExpiries
    /\ expiries' = expiries + 1
    /\ alive' = [alive EXCEPT ![c] = FALSE]
    /\ UNCHANGED <<lock, call, pc, failing, then, fields, cached, machine, up, reader, port,
                   calls, crashes, faults>>

Lock(c) ==
    /\ pc[c] = "lock" /\ lock = Nobody
    /\ lock' = c /\ failing' = FALSE
    /\ LET o == call[c].op
       IN  /\ Go(c, CASE o = "start" -> "enter" [] o \in {"stop", "recover"} -> "stop"
                      [] OTHER -> "forward")
           /\ then' = IF o = "recover" THEN "replay" ELSE "return"
    /\ UNCHANGED <<call, alive, fields, cached, machine, up, reader, port, bounds, faults>>

\* Mutant: an early return that forgets the lock.
ReturnLocked(c, bad) ==
    /\ lock' = (IF bad THEN lock ELSE Nobody) /\ failing' = bad /\ then' = "return"
    /\ Go(c, "idle")
    /\ UNCHANGED <<call, alive, up, reader, port, bounds>>

\* The handler replies and the lock is free again.
Return(c, bad) ==
    /\ lock' = Nobody /\ failing' = bad /\ then' = "return"
    /\ Go(c, "idle")
    /\ UNCHANGED <<call, alive, up, reader, port, bounds>>

Step(c, l) == Go(c, l) /\ UNCHANGED <<alive, failing, then>> /\ Rest

\* A failed start is rolled back on a context of its own; a failed repair of what
\* is running is only reported.
Fail(c) ==
    IF running THEN Return(c, TRUE)
    ELSE /\ Go(c, "stop") /\ then' = "rollback" /\ failing' = TRUE
         /\ alive' = [alive EXCEPT ![c] = TRUE]
         /\ Rest

At(c, l) == lock = c /\ pc[c] = l
req(c) == call[c].req

-----------------------------------------------------------------------------
(* Stop, and what Start and Recover use of it.                              *)

\* Mutant: an engine that complains is left running.
StopEngineOrLeaveIt(c) ==
    /\ At(c, "stop")
    /\ forwarder' = FALSE
    /\ \/ phase' = "stopped" /\ tun' = FALSE /\ NoFault /\ UNCHANGED failing
       \/ UNCHANGED engine /\ Fault /\ failing' = TRUE
    /\ Go(c, "stopAP")
    /\ UNCHANGED <<alive, then, fields, cached, net, table, ap>> /\ Rest

\* stopLocked: the engine and the SNI forwarder go first.  The engine counts as
\* stopped even when its device could not be removed.
StopEngine(c) ==
    /\ At(c, "stop")
    /\ phase' = "stopped" /\ forwarder' = FALSE
    /\ \/ tun' = FALSE /\ NoFault /\ UNCHANGED failing
       \/ tun' \in {tun, FALSE} /\ Fault /\ failing' = TRUE
    /\ Go(c, "stopAP")
    /\ UNCHANGED <<alive, then, fields, cached, net, table, ap>> /\ Rest

\* Supervisor.Stop; without a live context the daemons are signalled and not
\* waited for.
StopHotspot(c) ==
    /\ At(c, "stopAP")
    /\ \/ alive[c] /\ ap' = Nobody /\ NoFault /\ UNCHANGED failing
       \/ alive[c] /\ ap' \in {ap, Nobody} /\ Fault /\ failing' = TRUE
       \/ ~alive[c] /\ ap' \in {ap, Nobody} /\ NoFault /\ failing' = (failing \/ ap # Nobody)
    /\ Go(c, "clear")
    /\ UNCHANGED <<alive, then, fields, cached, net, table, phase, tun, forwarder>> /\ Rest

\* Mutant: the cut is forgotten by the kernel only.
ClearAllButCut(c) ==
    /\ applier' = FALSE /\ plan' = Nobody /\ running' = FALSE /\ fingerprint' = Nobody
    /\ socksPort' = "none"
    /\ cached' = [cached EXCEPT !.at = "zero"]
    /\ UNCHANGED <<hp, forward>>

ClearFields(c) ==
    /\ applier' = FALSE /\ plan' = Nobody /\ running' = FALSE /\ fingerprint' = Nobody
    /\ forward' = "normal" /\ socksPort' = "none"
    /\ cached' = [cached EXCEPT !.at = "zero"]
    /\ UNCHANGED hp

Clear(c) ==
    /\ At(c, "clear")
    /\ ClearFields(c)
    /\ Step(c, IF applier THEN "teardown" ELSE "stopped")
    /\ UNCHANGED machine /\ NoFault

\* The sweep, which Applier.tla details: all of it undone, or something left and
\* the table with it.  On a context that has expired every inverse fails.
Swept(c) ==
    \/ alive[c] /\ net' = "found" /\ table' = "none" /\ NoFault
    \/ alive[c] /\ net' = "partial" /\ UNCHANGED table /\ Fault
    \/ ~alive[c] /\ net' = "partial" /\ UNCHANGED table /\ NoFault

\* Inverses that failed are a warning; a journal that could not be rewritten is an
\* error.
Teardown(c) ==
    /\ At(c, "teardown")
    /\ Swept(c)
    /\ failing' \in {failing, failing \/ faults' # faults}
    /\ Go(c, "stopped")
    /\ UNCHANGED <<alive, then, fields, cached, phase, tun, forwarder, ap>> /\ Rest

Stopped(c) ==
    /\ At(c, "stopped")
    /\ \/ then = "return" /\ Return(c, failing)
       \/ then = "rollback" /\ Return(c, TRUE)
       \/ then = "apply" /\ failing /\ Return(c, TRUE)
       \/ then = "apply" /\ ~failing /\ Step(c, "apply")
       \/ then = "replay" /\ Step(c, "replay")
    /\ UNCHANGED <<fields, cached, machine>> /\ NoFault

\* recoverLocked: with nothing in the journal it does nothing; failed inverses are
\* kept and reported, an unreadable journal is an error.
Replayed(c) ==
    IF net = "found" THEN UNCHANGED <<net, table>> /\ NoFault ELSE Swept(c)

\* recoverToCleanMachine ends; Recover goes on to Start, and the lock is free in
\* between.
RecoverHalf(c) ==
    /\ At(c, "replay")
    /\ Replayed(c)
    /\ \/ /\ lock' = Nobody /\ failing' = FALSE /\ then' = "return"
          /\ call' = [call EXCEPT ![c].op = "start"]
          /\ Go(c, "lock")
          /\ UNCHANGED <<alive, up, reader, port, bounds>>
       \/ faults' # faults /\ Return(c, TRUE)
    /\ UNCHANGED <<fields, cached, phase, tun, forwarder, ap>>

-----------------------------------------------------------------------------
(* Start.                                                                   *)

\* Mutant: a different request is applied over the one that is running.
EnterOverRunning(c) ==
    IF running /\ fingerprint = req(c) THEN Step(c, "reassert") ELSE Step(c, "apply")

\* What is running already is re-asserted; something else running is stopped first.
EnterStart(c) ==
    IF ~running THEN Step(c, "apply")
    ELSE IF fingerprint = req(c) THEN Step(c, "reassert")
    ELSE /\ Go(c, "stop") /\ then' = "apply" /\ UNCHANGED <<alive, failing>> /\ Rest

\* Start: a platform that is not supported is refused before anything is touched.
Enter(c) ==
    /\ At(c, "enter")
    /\ EnterStart(c) \/ Return(c, TRUE)
    /\ UNCHANGED <<fields, cached, machine>> /\ NoFault

\* applyLocked refuses: the clock, the request, the machine, the plan, the engine
\* or the access point's configuration will not do.
Refuse(c) ==
    /\ lock = c /\ pc[c] \in {"apply", "detect", "plan", "takeover", "publish"}
    /\ Fail(c)
    /\ IF pc[c] = "publish" THEN forwarder' \in {FALSE, req(c) \in Spoofed} ELSE UNCHANGED forwarder
    /\ UNCHANGED <<fields, cached, net, table, phase, tun, ap>> /\ NoFault

\* Recovery comes before detection.  Inverses that fail do not stop the start.
RecoverFirst(c) ==
    /\ At(c, "apply")
    /\ Replayed(c)
    /\ Step(c, "detect") \/ (faults' # faults /\ Fail(c))
    /\ UNCHANGED <<fields, cached, phase, tun, forwarder, ap>>

\* Detection and resolution, then the local proxy port: the preferred one unless
\* another program holds it.
ChoosePort(c) ==
    /\ At(c, "detect") /\ alive[c]
    /\ socksPort' = IF port = "free" THEN "preferred" ELSE "other"
    /\ Step(c, "plan")
    /\ UNCHANGED <<applier, plan, hp, running, fingerprint, forward, cached, machine>> /\ NoFault

Decided(c) ==
    /\ At(c, "plan")
    /\ Step(c, "pre")
    /\ UNCHANGED <<fields, cached, machine>> /\ NoFault

\* The steps before the engine, on a fresh journal handle.  A step that fails
\* leaves the ones before it, the firewall first among them.
PreEngineSteps(c, l) ==
    /\ \/ UNCHANGED <<applier, net, table>> /\ Fail(c) /\ Fault
       \/ /\ applier' = TRUE
          /\ \/ alive[c] /\ net' = "pre" /\ table' = "normal" /\ Step(c, "publish") /\ NoFault
             \/ alive[c] /\ net' = "partial" /\ table' \in {table, "normal"} /\ Fail(c) /\ Fault
             \/ ~alive[c] /\ net' = "partial" /\ UNCHANGED table /\ Fail(c) /\ NoFault
             \/ /\ alive[c] /\ l = "fallback" /\ net' = "partial" /\ table' = "normal"
                /\ Step(c, l) /\ NoFault
    /\ UNCHANGED <<plan, hp, running, fingerprint, forward, socksPort, cached,
                   phase, tun, forwarder, ap>>

PreEngine(c) == At(c, "pre") /\ PreEngineSteps(c, "fallback")

\* The radio would not create the access point's interface: the first plan is
\* undone, completely or the start fails, before the takeover is planned.
Fallback(c) ==
    /\ At(c, "fallback")
    /\ Swept(c)
    /\ IF net' = "found" THEN applier' = FALSE /\ Step(c, "takeover")
       ELSE UNCHANGED applier /\ Fail(c)
    /\ UNCHANGED <<plan, hp, running, fingerprint, forward, socksPort, cached,
                   phase, tun, forwarder, ap>>

Takeover(c) == At(c, "takeover") /\ PreEngineSteps(c, "none")

\* The interface is read back, the SNI forwarder opened when the request wants it,
\* and the plan published.
Publish(c) ==
    /\ At(c, "publish") /\ alive[c]
    /\ forwarder' = (req(c) \in Spoofed)
    /\ plan' = req(c) /\ hp' = req(c)
    /\ cached' = [cached EXCEPT !.facts = Nobody]
    /\ Step(c, "engine")
    /\ UNCHANGED <<applier, running, fingerprint, forward, socksPort, net, table, phase, tun, ap>>
    /\ NoFault

\* Engine.Start returns at once when an instance is running, and looks at the
\* context before it does any work.
EngineStart(c) ==
    /\ At(c, "engine")
    /\ \/ /\ phase = "running" /\ UNCHANGED phase
          /\ Step(c, IF running THEN "hotspot" ELSE "post")
       \/ phase # "running" /\ ~alive[c] /\ Fail(c) /\ UNCHANGED phase
       \/ phase # "running" /\ alive[c] /\ phase' = "starting" /\ Step(c, "build")
    /\ UNCHANGED <<fields, cached, net, table, tun, forwarder, ap>> /\ NoFault

\* buildAndStart: the device is created with the instance.  After a failure the
\* device is given back, one left by an earlier run included.
EngineBuild(c) ==
    /\ At(c, "build")
    /\ \/ alive[c] /\ ~tun /\ phase' = "running" /\ tun' = TRUE /\ Step(c, "post") /\ NoFault
       \/ (tun \/ ~alive[c]) /\ phase' = "failed" /\ tun' = FALSE /\ Fail(c) /\ NoFault
       \/ phase' = "failed" /\ tun' \in BOOLEAN /\ Fail(c) /\ Fault
    /\ UNCHANGED <<fields, cached, net, table, forwarder, ap>>

PostEngine(c) ==
    /\ At(c, "post")
    /\ \/ alive[c] /\ net' = "full" /\ Step(c, "hotspot") /\ NoFault
       \/ alive[c] /\ net' = "partial" /\ Fail(c) /\ Fault
       \/ ~alive[c] /\ net' = "partial" /\ Fail(c) /\ NoFault
    /\ UNCHANGED <<fields, cached, table, phase, tun, forwarder, ap>>

\* Supervisor.Start.
StartHotspot(c) ==
    /\ At(c, "hotspot")
    /\ \/ alive[c] /\ ap' = hp /\ Step(c, "readAP") /\ NoFault
       \/ alive[c] /\ ap' \in {ap, hp, Nobody} /\ Fail(c) /\ Fault
       \/ ~alive[c] /\ UNCHANGED ap /\ Fail(c) /\ NoFault
    /\ UNCHANGED <<fields, cached, net, table, phase, tun, forwarder>>

\* The access point is read back; a start then becomes what is running, a repair
\* ends.  The cached detection is dropped in both.
ReadBack(c) ==
    /\ At(c, "readAP")
    /\ \/ /\ alive[c] /\ ap = hp
          /\ cached' = [cached EXCEPT !.at = "zero"]
          /\ IF running THEN Return(c, FALSE) /\ UNCHANGED <<running, fingerprint>>
             ELSE Step(c, "probe") /\ running' = TRUE /\ fingerprint' = req(c)
       \/ (~alive[c] \/ ap # hp) /\ Fail(c) /\ UNCHANGED <<cached, running, fingerprint>>
    /\ UNCHANGED <<applier, plan, hp, forward, socksPort, machine>> /\ NoFault

\* probeServer: the answer is reported and nothing is rolled back.
Probe(c) ==
    /\ At(c, "probe")
    /\ \E bad \in BOOLEAN : Return(c, bad)
    /\ UNCHANGED <<fields, cached, machine>> /\ NoFault

\* reassertLocked: the interface has to be this access point, or free.
Reassert(c) ==
    /\ At(c, "reassert")
    /\ (alive[c] /\ Step(c, "engine")) \/ Return(c, TRUE)
    /\ UNCHANGED <<fields, cached, machine>> /\ NoFault

-----------------------------------------------------------------------------
(* Cut and Restore.                                                         *)

want(c) == IF call[c].op = "cut" THEN "cut" ELSE "normal"

\* Mutant: a cut is remembered while the box is off.
CutWhileOff(c) ==
    /\ At(c, "forward")
    /\ UNCHANGED table /\ NoFault
    /\ IF forward = want(c) THEN Return(c, FALSE) ELSE Step(c, "flag")
    /\ UNCHANGED <<fields, cached, net, phase, tun, forwarder, ap>>

\* setForward: refused when nothing runs, nothing to do when the flag says so
\* already, otherwise one load of the table.  A load that fails may have landed.
SetForward(c) ==
    /\ At(c, "forward")
    /\ \/ ~running /\ Return(c, TRUE) /\ UNCHANGED table /\ NoFault
       \/ running /\ forward = want(c) /\ Return(c, FALSE) /\ UNCHANGED table /\ NoFault
       \/ running /\ forward # want(c) /\ alive[c] /\ table' = want(c) /\ Step(c, "flag") /\ NoFault
       \/ running /\ forward # want(c) /\ alive[c] /\ table' \in {table, want(c)} /\ Return(c, TRUE) /\ Fault
       \/ running /\ forward # want(c) /\ ~alive[c] /\ Return(c, TRUE) /\ UNCHANGED table /\ NoFault
    /\ UNCHANGED <<fields, cached, net, phase, tun, forwarder, ap>>

SetFlag(c) ==
    /\ At(c, "flag")
    /\ forward' = want(c)
    /\ Return(c, FALSE)
    /\ UNCHANGED <<applier, plan, hp, running, fingerprint, socksPort, cached, machine>> /\ NoFault

-----------------------------------------------------------------------------
(* What takes no lock: status polls and subscription refreshes.             *)

\* Status: the cached detection is used while it is fresh.
PollBegins ==
    /\ up /\ poll \in {"idle", "up", "down"} /\ reads < MaxReads
    /\ reads' = reads + 1
    /\ poll' = IF cached.at = "zero" THEN "detect" ELSE "read"
    /\ UNCHANGED <<op, fields, cached, machine, up, seen, fetch, port, bounds, faults>>

\* detect: the commands read the machine; a detection that fails leaves the last
\* one in place.
PollDetects ==
    /\ poll = "detect"
    /\ \/ poll' = "store" /\ seen' = ap /\ NoFault
       \/ poll' = "read" /\ UNCHANGED seen /\ Fault
    /\ UNCHANGED <<op, fields, cached, machine, up, fetch, reads, port, bounds>>

PollStores ==
    /\ poll = "store"
    /\ poll' = "read" /\ seen' = Nobody
    /\ cached' = [at |-> "fresh", facts |-> seen]
    /\ UNCHANGED <<op, fields, machine, up, fetch, reads, port, bounds, faults>>

\* The hotspot is up when its processes are and, while the box is running, when
\* the detection last stored shows the interface broadcasting the name.  The
\* interface is one the machine already had, so a detection always shows it.
PollAnswers ==
    /\ poll = "read"
    /\ poll' = IF ap # Nobody /\ (running => cached.facts = hp) THEN "up" ELSE "down"
    /\ UNCHANGED <<op, fields, cached, machine, up, seen, fetch, reads, port,
                   bounds, faults>>

\* DetectTTL passes.
CacheAges ==
    /\ cached.at = "fresh"
    /\ cached' = [cached EXCEPT !.at = "zero"]
    /\ UNCHANGED <<op, fields, machine, up, reader, port, bounds, faults>>

\* Refresh: the engine has to be running,
RefreshChecks ==
    /\ up /\ fetch \in {"idle", "refused", "tunnel", "stranger"} /\ reads < MaxReads
    /\ reads' = reads + 1
    /\ fetch' = IF phase = "running" THEN "checked" ELSE "refused"
    /\ UNCHANGED <<op, fields, cached, machine, up, poll, seen, port, bounds, faults>>

\* then socksPortInForce says which port to dial: this run's, or the preferred one
\* when there is no run,
RefreshReadsPort ==
    /\ fetch = "checked"
    /\ fetch' = IF socksPort = "other" THEN "other" ELSE "preferred"
    /\ UNCHANGED <<op, fields, cached, machine, up, poll, seen, reads, port,
                   bounds, faults>>

\* and the dial reaches the engine's inbound, another program, or nothing.
RefreshDials ==
    /\ fetch \in {"preferred", "other"}
    /\ fetch' = CASE phase = "running" /\ socksPort = fetch      -> "tunnel"
                  [] fetch = "preferred" /\ port = "taken" -> "stranger"
                  [] OTHER                                 -> "refused"
    /\ UNCHANGED <<op, fields, cached, machine, up, poll, seen, reads, port,
                   bounds, faults>>

-----------------------------------------------------------------------------
(* The process and the machine.                                             *)

\* serve_priv: the journal a killed process left is replayed before the socket
\* exists.
Boot ==
    /\ ~up /\ up' = TRUE
    /\ \/ net' = "found" /\ table' = "none" /\ NoFault
       \/ net # "found" /\ UNCHANGED <<net, table>> /\ Fault
    /\ UNCHANGED <<op, fields, cached, phase, tun, forwarder, ap, reader, port, bounds>>

\* The process dies and takes the engine, its device and the unit's daemons along;
\* the kernel keeps the network configuration.
Crash ==
    /\ up /\ crashes < MaxCrashes
    /\ crashes' = crashes + 1
    /\ up' = FALSE
    /\ lock' = Nobody /\ failing' = FALSE /\ then' = "return"
    /\ pc' = [c \in Callers |-> "idle"] /\ alive' = [c \in Callers |-> TRUE]
    /\ applier' = FALSE /\ plan' = Nobody /\ hp' = Nobody /\ running' = FALSE
    /\ fingerprint' = Nobody /\ forward' = "normal" /\ socksPort' = "none"
    /\ cached' = [at |-> "zero", facts |-> Nobody]
    /\ net' = IF net = "found" THEN "found" ELSE "partial"
    /\ phase' = "stopped" /\ tun' = FALSE /\ forwarder' = FALSE /\ ap' = Nobody
    /\ poll' = "idle" /\ seen' = Nobody /\ fetch' = "idle"
    /\ UNCHANGED <<call, table, reads, port, calls, expiries, faults>>

\* hostapd dies on its own.
HotspotDies ==
    /\ ap # Nobody /\ ap' = Nobody /\ Fault
    /\ UNCHANGED <<op, fields, cached, net, table, phase, tun, forwarder, up, reader, port, bounds>>

Ops == {"start", "recover"} \X Reqs \cup {"stop", "cut", "restore"} \X {Nobody}

Operation(c) ==
    \/ Lock(c) \/ StopEngine(c) \/ StopHotspot(c) \/ Clear(c) \/ Teardown(c) \/ Stopped(c)
    \/ RecoverHalf(c) \/ Enter(c) \/ Refuse(c) \/ RecoverFirst(c) \/ ChoosePort(c) \/ Decided(c)
    \/ PreEngine(c) \/ Fallback(c) \/ Takeover(c) \/ Publish(c) \/ EngineStart(c)
    \/ EngineBuild(c) \/ PostEngine(c) \/ StartHotspot(c) \/ ReadBack(c) \/ Probe(c)
    \/ Reassert(c) \/ SetForward(c) \/ SetFlag(c)

PollGoesOn    == PollDetects \/ PollStores \/ PollAnswers
RefreshGoesOn == RefreshReadsPort \/ RefreshDials

Reader == PollBegins \/ PollGoesOn \/ RefreshChecks \/ RefreshGoesOn

Disturbs == Boot \/ Crash \/ HotspotDies \/ (\E c \in Callers : Expire(c))

Next ==
    \/ \E c \in Callers : Operation(c)
    \/ \E c \in Callers, o \in Ops : Arrive(c, o[1], o[2])
    \/ Disturbs
    \/ Reader \/ CacheAges

Spec == Init /\ [][Next]_vars

-----------------------------------------------------------------------------
(* Properties.                                                              *)

PCs == {"idle", "lock", "enter", "stop", "stopAP", "clear", "teardown", "stopped", "replay",
        "apply", "detect", "plan", "pre", "fallback", "takeover", "publish", "engine", "build",
        "post", "hotspot", "readAP", "probe", "reassert", "forward", "flag"}

\* The box is on or off, and nothing between.  While it says it is running and nobody
\* is switching it, everything one request asked for is in place and belongs to that
\* request: network, engine, forwarder, proxy port, and the applier that can undo it.
\* While it is off and nobody is switching it, nothing of a start is left in memory,
\* and on the machine only what an accident left, which the journal holds (start.go,
\* applyLocked; Start: "A box left half configured is worse than one left alone").  And
\* the second plan of a start is laid on a machine the first one was taken off
\* completely (applyPreEngine: "Why the teardown between the two is not optional").
AllOrNothing ==
    /\ lock = Nobody /\ running =>
         /\ applier /\ plan = fingerprint /\ hp = fingerprint /\ fingerprint \in Reqs
         /\ net = "full" /\ table # "none" /\ phase = "running" /\ tun
         /\ forwarder = (fingerprint \in Spoofed) /\ socksPort # "none"
    /\ lock = Nobody /\ up /\ ~running =>
         /\ ~applier /\ plan = Nobody /\ fingerprint = Nobody /\ socksPort = "none"
         /\ forward = "normal" /\ phase = "stopped" /\ ~forwarder
         /\ net \in {"found", "partial"}
         /\ faults = 0 /\ expiries = 0 /\ crashes = 0 =>
               net = "found" /\ table = "none" /\ ap = Nobody /\ ~tun
    /\ \A c \in Callers : lock = c /\ pc[c] = "takeover" => net = "found" /\ table = "none" /\ ~applier

\* The engine carries no traffic, and no forwarding is configured, without the
\* generated table (start.go, Stop: "the fail-closed ruleset stays in force while
\* every route, rule and address is removed").
NeverUnguarded == net \in {"pre", "full"} \/ phase = "running" => table # "none"

\* As long as no command has failed, what the flag says is what the kernel does,
\* through stops, changes of configuration, calls that ran out of time and restarts
\* (cut.go: "A cut dies on restart").  A load that is reported failed and takes effect
\* breaks it, as CutCuts shows.
CutIsReal ==
    lock = Nobody /\ running /\ faults = 0 => table = forward

Switch == INSTANCE PowerSwitch
    WITH Off <- Nobody, on <- IF running THEN fingerprint ELSE Nobody, cut <- forward = "cut"

\* The service implements the switch it promises: one configuration at a time,
\* changed only through off, and a cut that exists only while it is on (cut.go:
\* "the flag is only ever set while running is true").
ImplementsSwitch == Switch!Spec

\* Every call is answered, whatever fails and whoever waits (start.go,
\* rollbackLocked: "a wedged teardown cannot hold the service's operation lock for
\* ever"), and so is every poll and refresh beside it.
EveryCallReturns ==
    /\ \A c \in Callers : pc[c] # "idle" ~> pc[c] = "idle"
    /\ poll \in {"detect", "store", "read"} ~> poll \in {"idle", "up", "down"}
    /\ fetch \in {"checked", "preferred", "other"} ~> fetch \in {"idle", "refused", "tunnel", "stranger"}

\* "Cut drops forwarded client traffic" (cut.go): a cut that reports success has
\* cut.
CutCuts ==
    [][\A c \in Callers :
          pc[c] # "idle" /\ pc'[c] = "idle" /\ up' /\ call[c].op = "cut" /\ ~failing' =>
              table' = "cut"]_vars
=============================================================================
