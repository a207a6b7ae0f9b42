------------------------------- MODULE Engine -------------------------------
(***************************************************************************)
(* The engine as the privileged service holds it (internal/engine:         *)
(* engine.go, logring.go, tundevice.go), with the lines it leaves behind   *)
(* (and those of internal/privsvc: diag.go, service.go EngineLog).         *)
(*                                                                         *)
(* PrivService.tla knows of it whether it runs and whether its device is   *)
(* there.  Here are the steps of a start and of a stop, the device with    *)
(* the index the kernel gave it, what else on the machine may use the      *)
(* name, the route a log line takes, and the two rings a reader merges.    *)
(* A line is [at, id]; a writer stamps it before it takes the ring's lock. *)
(***************************************************************************)
EXTENDS Integers, FiniteSets, SequencesExt

CONSTANTS
    Ops,                \* callers of Start and Stop
    Speakers,           \* goroutines that log
    RingSize,           \* both rings', here
    Ventures,           \* [config, starts, outsiders, troubles, lines]: what is started ("bad", "plain",
                        \* "tun", "late": the inbound after the tunnel's cannot listen), and bounds on
                        \* calls, on what others do with the name, on failures, and on lines
    NoOp

VARIABLES
    venture,
    opMu, doing,        \* the lock's holder; each caller: "idle", or where its call has come to
    phase, inst,        \* the engine's phase; its instance: "none", "built", "runs"
    hold, kept,         \* what the running instance took, and what the call under way will give back
    link,               \* the index of the device that has the name, 0 for none
    made,               \* the indices the engine made
    fds, opened,        \* descriptors of the tunnel, and those open before core.New
    route,              \* where a line goes: "ring", "app" (the instance's logger) or "nowhere"
    rings, pen,         \* the rings; the line each speaker is about to add
    written,            \* all that was added to each ring since it was emptied
    reading,            \* the reader of both rings, and what it has
    ticks, calls, others, misfortunes

evars == <<venture, opMu, doing, phase, inst, hold, kept, link, made, fds, opened, route,
           rings, pen, written, reading, ticks, calls, others, misfortunes>>

device == <<link, made, fds, opened, others>>
lines  == <<rings, pen, written, reading, ticks>>

-----------------------------------------------------------------------------
(* A ring (logring.go, diag.go).                                            *)

NewLogRing == [buf |-> [i \in 0..(RingSize - 1) |-> 0], next |-> 0, filled |-> FALSE, dropped |-> 0]

\* Mutant: the ring counts as filled once the last place is reached.
FillsEarly(r) == r.next = RingSize - 2

Fills(r) == (r.next + 1) % RingSize = 0

Add(r, e) ==
    [buf |-> [r.buf EXCEPT ![r.next] = e], next |-> (r.next + 1) % RingSize,
     filled |-> r.filled \/ Fills(r), dropped |-> IF r.filled THEN r.dropped + 1 ELSE r.dropped]

Part(r, a, b) == [i \in 1..(b - a) |-> r.buf[a + i - 1]]

Entries(r) == (IF r.filled THEN Part(r, r.next, RingSize) ELSE <<>>) \o Part(r, 0, r.next)

-----------------------------------------------------------------------------
EngineInit ==
    /\ venture \in Ventures
    /\ opMu = NoOp /\ doing = [o \in Ops |-> "idle"]
    /\ phase = "stopped" /\ inst = "none"
    /\ hold = [devices |-> {}, fds |-> {}] /\ kept = hold
    /\ link = 0 /\ made = {} /\ fds = {} /\ opened = {}
    /\ route = "ring"
    /\ rings = [engine |-> NewLogRing, diag |-> NewLogRing]
    /\ pen = [w \in Speakers |-> <<>>] /\ written = [engine |-> <<>>, diag |-> <<>>]
    /\ reading = [pc |-> "idle", engine |-> <<>>, diag |-> <<>>, dropped |-> 0, quiet |-> FALSE,
                  merged |-> <<>>]
    /\ ticks = 0 /\ calls = 0 /\ others = 0 /\ misfortunes = 0

Misfortune == misfortunes < venture.troubles /\ misfortunes' = misfortunes + 1
Fortune == UNCHANGED misfortunes

HasTun == venture.config \in {"tun", "late"}
Nothing == [devices |-> {}, fds |-> {}]

OpAt(o, l) == opMu = o /\ doing[o] = l
OpGoes(o, l) == doing' = [doing EXCEPT ![o] = l] /\ UNCHANGED <<venture, opMu, calls>>
OpReturns(o) == doing' = [doing EXCEPT ![o] = "idle"] /\ opMu' = NoOp /\ UNCHANGED <<venture, calls>>

-----------------------------------------------------------------------------
(* Start (engine.go).                                                       *)

OpBegins(o) ==
    /\ doing[o] = "idle" /\ opMu = NoOp /\ calls < venture.starts
    /\ calls' = calls + 1 /\ opMu' = o
    /\ \E l \in {"start", "take"} : doing' = [doing EXCEPT ![o] = l]
    /\ UNCHANGED <<venture, phase, inst, hold, kept, device, route, lines, misfortunes>>

\* Already running, or the caller has given up: nothing happens.
StartEnters(o) ==
    /\ OpAt(o, "start")
    /\ \/ phase = "running" /\ OpReturns(o) /\ UNCHANGED phase /\ Fortune
       \/ phase # "running" /\ OpReturns(o) /\ UNCHANGED phase /\ Misfortune
       \/ phase # "running" /\ OpGoes(o, "load") /\ phase' = "starting" /\ Fortune
    /\ UNCHANGED <<inst, hold, kept, device, route, lines>>

\* The ring is emptied and the route taken before anything can log.
Load(o) ==
    /\ OpAt(o, "load")
    /\ rings' = [rings EXCEPT !.engine = NewLogRing]
    /\ written' = [written EXCEPT !.engine = <<>>]
    /\ reading' = [reading EXCEPT !.quiet = FALSE]
    /\ route' = "ring" /\ opened' = fds
    /\ IF venture.config = "bad" THEN OpReturns(o) /\ phase' = "failed"
       ELSE OpGoes(o, "new") /\ UNCHANGED phase
    /\ UNCHANGED <<inst, hold, kept, link, made, fds, others, pen, ticks>> /\ Fortune

\* The devices are found by name, the descriptors by what is new.
captureTunHold(l, open) ==
    [devices |-> IF HasTun /\ l # 0 THEN {l} ELSE {}, fds |-> open \ opened]

Index == Cardinality(made) + others + 1

\* core.New makes the device and takes the log route; it fails on a name in use, and
\* on an inbound after the tunnel's.
NewInstance(o) ==
    /\ OpAt(o, "new") /\ Fortune
    /\ LET makes == HasTun /\ link = 0
           fails == (HasTun /\ link # 0) \/ venture.config = "late"
       IN  /\ IF makes THEN link' = Index /\ made' = made \cup {Index} /\ fds' = fds \cup {Index}
              ELSE UNCHANGED <<link, made, fds>>
           /\ kept' = captureTunHold(link', fds')
           /\ route' = "app"
           /\ inst' = IF fails THEN "none" ELSE "built"
           /\ OpGoes(o, IF fails THEN "undo" ELSE "run")
    /\ UNCHANGED <<phase, hold, opened, others, lines>>

\* Cancelled in between, or the instance will not start: it is closed, and with it
\* its logger.
StartInstance(o) ==
    /\ OpAt(o, "run")
    /\ \/ /\ inst' = "runs" /\ OpGoes(o, "keep") /\ Fortune /\ UNCHANGED route
       \/ /\ inst' = "none" /\ route' = "nowhere" /\ OpGoes(o, "undo") /\ Misfortune
    /\ UNCHANGED <<phase, hold, kept, device, lines>>

Keep(o) ==
    /\ OpAt(o, "keep")
    /\ hold' = kept /\ kept' = Nothing /\ phase' = "running" /\ OpReturns(o) /\ Fortune
    /\ UNCHANGED <<inst, device, route, lines>>

\* Mutant: only an instance that was built is given back.
UndoesBuilt(o) == IF inst = "none" THEN Nothing ELSE kept

Undoes(o) == kept

\* releaseAfterFailedStart.
Undo(o) ==
    /\ OpAt(o, "undo")
    /\ kept' = Undoes(o) /\ OpGoes(o, "lookup") /\ Fortune
    /\ UNCHANGED <<phase, inst, hold, device, route, lines>>

-----------------------------------------------------------------------------
(* Stop, and what is given back (engine.go, tundevice.go).                  *)

Take(o) ==
    /\ OpAt(o, "take")
    /\ kept' = hold /\ hold' = Nothing /\ OpGoes(o, "close") /\ Fortune
    /\ UNCHANGED <<phase, inst, device, route, lines>>

\* A complaint of Close is only reported.
CloseInstance(o) ==
    /\ OpAt(o, "close")
    /\ inst' = "none" /\ route' = IF inst = "none" THEN route ELSE "nowhere"
    /\ OpGoes(o, "lookup") /\ Fortune
    /\ UNCHANGED <<phase, hold, kept, device, lines>>

\* Gone already, another's by now, or still the one that was recorded.
LookUpLink(o) ==
    /\ OpAt(o, "lookup")
    /\ OpGoes(o, IF link # 0 /\ link \in kept.devices THEN "delete" ELSE "fds") /\ Fortune
    /\ UNCHANGED <<phase, inst, hold, kept, device, route, lines>>

\* By name: whatever has it now.
DeleteLink(o) ==
    /\ OpAt(o, "delete")
    /\ \/ link' = 0 /\ Fortune
       \/ UNCHANGED link /\ Misfortune
    /\ OpGoes(o, "fds")
    /\ UNCHANGED <<phase, inst, hold, kept, made, fds, opened, others, route, lines>>

\* The descriptors go last; then the phase says what was going on.
CloseDescriptors(o) ==
    /\ OpAt(o, "fds")
    /\ fds' = fds \ kept.fds /\ kept' = Nothing
    /\ phase' = IF phase = "starting" THEN "failed" ELSE "stopped"
    /\ route' = IF phase = "starting" THEN route ELSE "ring"
    /\ OpReturns(o) /\ Fortune
    /\ UNCHANGED <<inst, hold, link, made, opened, others, lines>>

-----------------------------------------------------------------------------
(* What else happens to the name.                                           *)

\* A device without a descriptor goes by itself, in its own time.
LinkGoes ==
    /\ link \in made /\ link \notin fds
    /\ link' = 0
    /\ UNCHANGED <<venture, opMu, doing, phase, inst, hold, kept, made, fds, opened, others,
                   route, lines, calls>> /\ Fortune

\* Another program takes the name, or takes a device away.
Outsider ==
    /\ others < venture.outsiders /\ others' = others + 1
    /\ link' = IF link = 0 THEN Index ELSE 0
    /\ UNCHANGED <<venture, opMu, doing, phase, inst, hold, kept, made, fds, opened, route,
                   lines, calls>> /\ Fortune

-----------------------------------------------------------------------------
(* Lines (logring.go, diag.go, service.go).                                 *)

Aside == UNCHANGED <<venture, opMu, doing, phase, inst, hold, kept, device, route, calls>> /\ Fortune

\* The instant is read before the lock is taken.
Stamp(w, ring) ==
    /\ pen[w] = <<>> /\ ticks < venture.lines
    /\ ring = "engine" => route # "nowhere"
    /\ ticks' = ticks + 1 /\ pen' = [pen EXCEPT ![w] = << [ring |-> ring, at |-> ticks + 1] >>]
    /\ UNCHANGED <<rings, written, reading>> /\ Aside

Put(w) ==
    /\ pen[w] # <<>>
    /\ LET e == pen[w][1]
       IN  /\ rings' = [rings EXCEPT ![e.ring] = Add(@, e.at)]
           /\ written' = [written EXCEPT ![e.ring] = Append(@, e.at)]
    /\ reading' = [reading EXCEPT !.quiet = FALSE]
    /\ pen' = [pen EXCEPT ![w] = <<>>]
    /\ UNCHANGED ticks /\ Aside

\* EngineLog: each ring is read by itself, and so is what each has dropped.
ReadEngineLog ==
    /\ reading' =
         CASE reading.pc = "idle" -> [reading EXCEPT !.pc = "diag", !.quiet = TRUE, !.merged = <<>>,
                                                     !.engine = Entries(rings.engine)]
           [] reading.pc = "diag" -> [reading EXCEPT !.pc = "dropped", !.diag = Entries(rings.diag)]
           [] reading.pc = "dropped" -> [reading EXCEPT !.pc = "sum", !.dropped = rings.engine.dropped]
           [] OTHER -> [reading EXCEPT !.pc = "idle", !.dropped = @ + rings.diag.dropped,
                                       !.merged = SortSeq(reading.engine \o reading.diag, <)]
    /\ UNCHANGED <<rings, pen, written, ticks>> /\ venture.lines > 0 /\ Aside

EngineNext ==
    \/ LinkGoes \/ Outsider \/ ReadEngineLog
    \/ \E w \in Speakers : Put(w) \/ \E ring \in {"engine", "diag"} : Stamp(w, ring)
    \/ \E o \in Ops :
         \/ OpBegins(o) \/ StartEnters(o) \/ Load(o) \/ NewInstance(o) \/ StartInstance(o) \/ Keep(o)
         \/ Undo(o) \/ Take(o) \/ CloseInstance(o) \/ LookUpLink(o) \/ DeleteLink(o)
         \/ CloseDescriptors(o)

EngineSpec == EngineInit /\ [][EngineNext]_evars

-----------------------------------------------------------------------------
(* Properties.                                                              *)

\* Between two calls an engine that is not running holds nothing of the machine: no
\* instance, no descriptor, and no device of its own unless deleting it failed; an
\* engine that runs has its instance (Start's error paths, Stop, tunHold.release).
EngineGivesBack ==
    opMu = NoOp =>
        /\ phase = "running" <=> inst = "runs"
        /\ phase # "running" => fds = {} /\ hold = Nothing /\ (link \in made => misfortunes > 0)

\* A ring holds the last lines added to it, in the order they were added, and counts
\* the others; and what a reader is given is in the order of time, with nothing of
\* either ring missing, and when nothing was written meanwhile it says exactly how
\* much is not shown (LogRing, diagRing, EngineLog).
LogIsWhole ==
    /\ \A k \in {"engine", "diag"} :
         LET all == written[k]
             got == Entries(rings[k])
         IN  /\ Len(got) <= RingSize /\ Len(got) + rings[k].dropped = Len(all)
             /\ got = SubSeq(all, Len(all) - Len(got) + 1, Len(all))
    /\ reading.pc = "idle" /\ reading.merged # <<>> =>
         /\ \A i, j \in 1..Len(reading.merged) : i < j => reading.merged[i] < reading.merged[j]
         /\ ToSet(reading.merged) = ToSet(reading.engine) \cup ToSet(reading.diag)
         /\ reading.quiet => Len(reading.merged) + reading.dropped
                              = Len(written.engine) + Len(written.diag)
=============================================================================
