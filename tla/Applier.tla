------------------------------ MODULE Applier ------------------------------
(***************************************************************************)
(* The write-ahead undo journal of internal/netcfg (journal.go) and the    *)
(* Applier that drives it (apply.go), over an abstract kernel.             *)
(*                                                                         *)
(* Every change to the machine is a step: a command and its inverse.  The  *)
(* inverse reaches the disk before the command reaches the kernel; a       *)
(* teardown, or the recovery after a crash, replays the inverses newest    *)
(* first, and the firewall's last and only after a clean sweep.            *)
(*                                                                         *)
(* A resource of the kernel (a sysctl knob, an address, a route, a rule,   *)
(* an interface, the nftables table) holds 0 or 1.  What the plan makes of *)
(* it is 1, except for a station address, which the plan takes away.       *)
(***************************************************************************)
EXTENDS Integers, Sequences

CONSTANTS
    Res,         \* the kernel resources the plans touch
    Kind,        \* what sort of step changes a resource
    DevOf,       \* the device a resource lives on, itself when it lives on none
    Nft,         \* the generated nftables table
    Tun,         \* the tunnel device, created and destroyed by the engine
    Plans,       \* the resource lists of PreEngineSteps, the engine, PostEngineSteps
    Bases,       \* the machines the program may find
    Exposing,    \* forwarding, routes, addresses: what must not outlive the table
    MaxStarts, MaxFaults, MaxCrashes     \* bounds

Kinds == {"nft", "sysctl", "iface", "release", "station", "up", "addr", "engine"}

ASSUME ConstantsAssumption ==
    /\ Nft \in Res /\ Tun \in Res
    /\ Kind \in [Res -> Kinds]
    /\ DevOf \in [Res -> Res] /\ DevOf[Nft] = Nft /\ DevOf[Tun] = Tun
    /\ Plans \subseteq Seq(Res)
    /\ Bases \subseteq [Res -> {0, 1}]
    /\ MaxStarts \in Nat /\ MaxFaults \in Nat /\ MaxCrashes \in Nat

\* Only the firewall's step touches the table and only the engine makes the
\* tunnel.
ASSUME KindAssumption ==
    /\ \A r \in Res : (Kind[r] = "nft" <=> r = Nft) /\ (Kind[r] = "engine" <=> r = Tun)
    /\ \A r \in Exposing : r \in Res /\ Kind[r] \in {"sysctl", "iface", "addr"}
    /\ \A b \in Bases : b[Nft] = 0 /\ b[Tun] = 0

\* The devices things live on are the access point interface and the tunnel;
\* nothing found on the machine lives on them.
ASSUME DeviceAssumption ==
    \A r \in Res : DevOf[r] # r => /\ Kind[DevOf[r]] \in {"iface", "engine"}
                                   /\ DevOf[DevOf[r]] = DevOf[r]
                                   /\ \A b \in Bases : b[r] = 0

\* The firewall is the first step of every plan (route.go, PreEngineSteps: "the
\* firewall goes first so there is never a moment when forwarding is enabled and
\* the block is not").
ASSUME FirewallFirst ==
    \A p \in Plans : Len(p) > 0 /\ p[1] = Nft /\ \A i \in 2..Len(p) : p[i] # Nft

VARIABLES
    base,      \* the machine as it was found, which a reboot brings back
    kernel,    \* the machine as it is
    journal,   \* the entries LoadJournal reconstructs from the file
    torn,      \* the file's last line has no end: the next record is glued to it
    pc,        \* what the process is doing
    plan,      \* the plan in force
    at,        \* the step of the plan Apply has come to
    facts,     \* the machine as detection read it, from which the steps are made
    seq,       \* Journal.seq, the last sequence number handed out
    answer,    \* what the runner said of the step in flight
    queue,     \* the entries replay has still to look at
    kept,      \* replay's "remaining"
    failed,    \* Report.Failed > 0 in this sweep
    faulty,    \* ghost: a command of this sweep failed for no reason of its own
    misread,   \* ghost: knobs a start has read while this program had them changed
    excused,   \* ghost: resources the journal has lost the means to restore
    starts, faults, crashes

disk  == <<journal, torn>>
applying == <<plan, at, facts, seq, answer>>
sweep == <<queue, kept, failed, faulty>>
counters == <<starts, faults, crashes>>
ghosts == <<misread, excused>>
vars  == <<base, kernel, disk, pc, applying, sweep, ghosts, counters>>

-----------------------------------------------------------------------------
(* Steps, their commands and what the kernel answers.                       *)

Verb(r) ==
    CASE Kind[r] = "addr"    -> "add"
      [] Kind[r] = "iface"   -> "create"
      [] Kind[r] = "station" -> "del"
      [] OTHER               -> "set"

UndoVerb(r) ==
    CASE Kind[r] \in {"iface", "addr"} -> "del"
      [] Kind[r] = "station"           -> "add"
      [] OTHER                         -> "set"

Value(r) == IF Kind[r] = "station" THEN 0 ELSE 1

\* The inverse's value: what detection read for a knob, the opposite otherwise.
UndoValue(r) == IF Kind[r] = "sysctl" THEN facts[r] ELSE 1 - Value(r)

\* Bringing the link up has no inverse on purpose; the engine is no step at all.
HasInverse(r) == Kind[r] \notin {"up", "engine"}

\* A station address is taken off, and an interface released, only where
\* detection saw one.
Planned(r) ==
    /\ Kind[r] = "station" => facts[r] = 1
    /\ Kind[r] = "release" => facts[r] = 0

\* A resource does not survive the device it lives on.
Effect(k, r, v) ==
    [x \in Res |-> IF x = r THEN v
                   ELSE IF v = 0 /\ DevOf[x] = r THEN 0 ELSE k[x]]

NoDevice(k, r) == DevOf[r] # r /\ k[DevOf[r]] = 0

\* What the tool answers when nothing goes wrong around it.
Answer(k, verb, r) ==
    IF verb = "del" /\ (NoDevice(k, r) \/ k[r] = 0) THEN "notfound"
    ELSE IF NoDevice(k, r) \/ (verb = "create" /\ k[r] = 1) THEN "other"
    ELSE IF verb = "add" /\ k[r] = 1 THEN "exists"
    ELSE "ok"

NeedsUndo(e) == e.phase \notin {"undone", "preexisting"} /\ HasInverse(e.res)

Fault == faults < MaxFaults /\ faults' = faults + 1
NoFault == UNCHANGED faults

\* Runner.Run: the command's own outcome a, or a failure that is none of its
\* doing and may have landed the effect all the same.
Run(verb, r, v, a) ==
    LET own  == Answer(kernel, verb, r)
        done == IF own = "ok" THEN Effect(kernel, r, v) ELSE kernel
    IN  \/ a = own /\ kernel' = done /\ NoFault
        \/ a = "other" /\ kernel' \in {kernel, done} /\ Fault

Answers == {"ok", "exists", "notfound", "other"}

\* Journal.write: a record that lands on a torn line is lost with it.
Write(j) ==
    /\ journal' = IF torn THEN journal ELSE j
    /\ torn' = FALSE

\* A write that fails may have left nothing, a part of the line, or, when only
\* the sync failed, all of it.
WriteFails(j) ==
    \/ torn' \in {torn, TRUE} /\ UNCHANGED journal
    \/ Write(j)

Phase(n, ph) == {IF e.seq = n THEN [e EXCEPT !.phase = ph] ELSE e : e \in journal}

-----------------------------------------------------------------------------
(* The process and its operations.                                          *)

Init ==
    /\ base \in Bases /\ kernel = base
    /\ journal = {} /\ torn = FALSE
    /\ pc = "off"
    /\ plan = <<>> /\ at = 1 /\ facts = base /\ seq = 0 /\ answer = "ok"
    /\ queue = {} /\ kept = {} /\ failed = FALSE /\ faulty = FALSE
    /\ misread = {} /\ excused = {}
    /\ starts = 0 /\ faults = 0 /\ crashes = 0

\* The privileged process comes up; it holds no Applier.
Boot ==
    /\ pc = "off"
    /\ pc' = "idle"
    /\ UNCHANGED <<base, kernel, disk, applying, sweep, ghosts, counters>>

\* Recover, before every start: with nothing to replay it returns at once and
\* leaves the file as it is.
Recover ==
    /\ pc = "idle"
    /\ pc' = IF journal = {} THEN "clean" ELSE "recover"
    /\ queue' = {e \in journal : NeedsUndo(e)}
    /\ UNCHANGED <<base, kernel, disk, applying, kept, failed, faulty, ghosts, counters>>

\* Detect, PlanNetwork and NewApplier: the inverses are fixed by what the
\* machine holds now, and the numbering resumes after the last entry.  A knob
\* that an outstanding inverse has yet to restore is read with the value this
\* program gave it, and that is what its new inverse will put back.
Detect(p) ==
    /\ pc = "clean" /\ starts < MaxStarts
    /\ starts' = starts + 1
    /\ plan' = p /\ at' = 1 /\ facts' = kernel
    /\ seq' \in {0} \cup {e.seq : e \in journal} /\ \A e \in journal : e.seq <= seq'
    /\ misread' = misread \cup {r \in Res : Kind[r] = "sysctl" /\ kernel[r] # base[r]}
    /\ pc' = "apply"
    /\ UNCHANGED <<base, kernel, disk, answer, sweep, excused, faults, crashes>>

\* A refusal after recovery, before anything is applied.
Refuse ==
    /\ pc = "clean"
    /\ pc' = "idle"
    /\ UNCHANGED <<base, kernel, disk, applying, sweep, ghosts, counters>>

step == plan[at]
More == at <= Len(plan)

\* Mutant: what the journal holds is not consulted.
NeverInForce(r) == r # r

\* currentState: the last completed command on this resource is this very one.
InForce(r) == \E e \in journal : e.phase = "done" /\ e.res = r

\* Not in the list, in force, or there already (ifacePresent; Engine.Start with an
\* instance running).
Skippable(r) ==
    \/ ~Planned(r) \/ InForce(r)
    \/ Kind[r] \in {"iface", "engine"} /\ kernel[r] = 1

Skip ==
    /\ pc = "apply" /\ More /\ Skippable(step)
    /\ at' = at + 1
    /\ UNCHANGED <<base, kernel, disk, pc, plan, facts, seq, answer, sweep, ghosts, counters>>

\* Mutant: a step that failed is taken for one that changed nothing.
FailureRetracts(r, a) == IF a = "ok" THEN "done" ELSE "preexisting"

\* Mutant: an object that was there already is recorded as this program's.
ExistsIsDone(r, a) == IF a \in {"ok", "exists"} THEN "done" ELSE "failed"

\* The phase Apply records: a command that changed nothing has its inverse
\* retracted, one that failed keeps it.
Outcome(r, a) ==
    CASE a = "ok"                          -> "done"
      [] a = "exists"                      -> "preexisting"
      [] a = "notfound" /\ Verb(r) = "del" -> "preexisting"
      [] OTHER                             -> "failed"

\* A command that changes nothing here: between its Begin record and its
\* retraction, recovery takes its inverse for a live one.
Idle(r) == Outcome(r, Answer(kernel, Verb(r), r)) = "preexisting"

\* The inverse of a step that found its object in place: it must not be run.
Undue(r) == UndoValue(r) # base[r]

\* Begin: the step and its inverse reach the disk before the command runs.
Begin ==
    /\ pc = "apply" /\ More /\ step # Tun /\ ~Skippable(step)
    /\ seq' = seq + 1
    /\ LET j == journal \cup {[seq |-> seq', res |-> step,
                               undo |-> UndoValue(step), phase |-> "begin"]}
       IN  \/ /\ Write(j) /\ NoFault /\ pc' = "run"
              /\ excused' = IF torn THEN excused \cup {step} ELSE excused
           \/ /\ WriteFails(j) /\ Fault /\ pc' = "applyfailed"
              /\ excused' = IF Idle(step) /\ Undue(step) THEN excused \cup {step} ELSE excused
    /\ UNCHANGED <<base, kernel, plan, at, facts, answer, sweep, misread, starts, crashes>>

Stations == {r \in Res : Kind[r] = "station"}

\* The command runs.  NetworkManager may take its own station address along with
\* the interface it is told to release; putting that back is then its business.
RunDo ==
    /\ pc = "run"
    /\ pc' = "note"
    /\ LET r == step
       IN  \/ /\ answer' \in Answers /\ Run(Verb(r), r, Value(r), answer')
              /\ excused' = IF faults' # faults /\ Idle(r) /\ Undue(r)
                           THEN excused \cup {r} ELSE excused
           \/ /\ Kind[r] = "release" /\ Answer(kernel, "set", r) = "ok" /\ answer' = "ok"
              /\ kernel' = [x \in Res |-> IF x \in Stations THEN 0 ELSE Effect(kernel, r, 1)[x]]
              /\ excused' = excused \cup {x \in Stations : kernel[x] = 1}
              /\ NoFault
    /\ UNCHANGED <<base, disk, plan, at, facts, seq, sweep, misread, starts, crashes>>

\* Done, Failed or Preexisting; a failure of the step or of the record ends Apply.
Note ==
    /\ pc = "note"
    /\ LET ph == Outcome(step, answer)
           j  == Phase(seq, ph)
       IN  \/ /\ Write(j) /\ NoFault
              /\ pc' = IF ph = "failed" THEN "applyfailed" ELSE "apply"
              /\ at' = IF ph = "failed" THEN at ELSE at + 1
              /\ UNCHANGED excused
           \/ /\ WriteFails(j) /\ Fault /\ pc' = "applyfailed"
              /\ excused' = IF ph = "preexisting" /\ Undue(step)
                           THEN excused \cup {step} ELSE excused
              /\ UNCHANGED at
    /\ answer' = "ok"
    /\ UNCHANGED <<base, kernel, plan, facts, seq, sweep, misread, starts, crashes>>

\* Engine.Start, between the two Apply calls, creates the tunnel device or not.
EngineStart ==
    /\ pc = "apply" /\ More /\ step = Tun /\ ~Skippable(step)
    /\ \/ /\ kernel' = Effect(kernel, Tun, 1) /\ at' = at + 1
          /\ NoFault /\ UNCHANGED pc
       \/ /\ Fault /\ pc' = "applyfailed" /\ UNCHANGED <<kernel, at>>
    /\ UNCHANGED <<base, disk, plan, facts, seq, answer, sweep, ghosts, starts, crashes>>

Applied ==
    /\ pc = "apply" /\ ~More
    /\ pc' = "running"
    /\ UNCHANGED <<base, kernel, disk, applying, sweep, ghosts, counters>>

\* A second Apply of the plan in force, made from what the machine holds now.
ApplyAgain ==
    /\ pc = "running" /\ starts < MaxStarts
    /\ starts' = starts + 1
    /\ at' = 1 /\ facts' = kernel
    /\ pc' = "apply"
    /\ UNCHANGED <<base, kernel, disk, plan, seq, answer, sweep, ghosts, faults, crashes>>

\* stopLocked: the engine stops, taking the tunnel device and all that lives on
\* it, and the Applier replays its journal.
Teardown ==
    /\ pc \in {"running", "applyfailed"}
    /\ kernel' = Effect(kernel, Tun, 0)
    /\ queue' = {e \in journal : NeedsUndo(e)}
    /\ plan' = <<>> /\ at' = 1 /\ facts' = base /\ seq' = 0
    /\ pc' = "teardown"
    /\ UNCHANGED <<base, disk, answer, kept, failed, faulty, ghosts, counters>>

\* Mutant: one pass over all entries, newest first.
NewestFirst(e) == e \in queue /\ \A x \in queue : x.seq <= e.seq

\* replay's order: newest first, and the firewall's entries in a pass of their own.
NextUp(e) ==
    LET pass == {x \in queue : x.res # Nft}
    IN  /\ e \in IF pass # {} THEN pass ELSE queue
        /\ \A x \in IF pass # {} THEN pass ELSE queue : x.seq <= e.seq

\* Undone is recorded only by a teardown, whose error is dropped; a recovery has
\* no open journal.
RecordUndone(e) ==
    IF pc = "teardown" THEN WriteFails(Phase(e.seq, "undone")) ELSE UNCHANGED disk

\* Mutant: an inverse that finds nothing to remove has failed.
UndoUnforgiving(e, a) ==
    /\ NextUp(e)
    /\ e.res = Nft => ~failed
    /\ Run(UndoVerb(e.res), e.res, e.undo, a)
    /\ queue' = queue \ {e}
    /\ IF a = "ok" THEN RecordUndone(e) /\ UNCHANGED <<kept, failed>>
       ELSE kept' = kept \cup {e} /\ failed' = TRUE /\ UNCHANGED disk

\* undoOne: the inverse works, or has nothing to take away, or is kept for the
\* next start.
UndoOf(e, a) ==
    /\ NextUp(e)
    /\ e.res = Nft => ~failed
    /\ Run(UndoVerb(e.res), e.res, e.undo, a)
    /\ queue' = queue \ {e}
    /\ IF a = "ok" \/ (a = "notfound" /\ UndoVerb(e.res) = "del")
       THEN RecordUndone(e) /\ UNCHANGED <<kept, failed>>
       ELSE kept' = kept \cup {e} /\ failed' = TRUE /\ UNCHANGED disk

\* What the file still names, or will once it is rewritten.
Left == IF pc = "teardown" THEN {x \in journal : NeedsUndo(x)} ELSE kept

\* A knob's older inverse works while a newer one, that says otherwise, stays: it
\* failed, or the record of its success was lost.
Outlived(e) ==
    /\ Kind[e.res] = "sysctl"
    /\ \E x \in Left : x.res = e.res /\ x.seq > e.seq /\ x.undo # e.undo

UndoOne ==
    /\ pc \in {"teardown", "recover"}
    /\ \E e \in queue, a \in Answers :
          /\ UndoOf(e, a)
          /\ excused' = IF kept' = kept /\ Outlived(e) THEN excused \cup {e.res} ELSE excused
    /\ faulty' = (faulty \/ faults' # faults)
    /\ UNCHANGED <<base, pc, applying, misread, starts, crashes>>

\* The firewall stays when the sweep before it was not clean.
HoldFirewall ==
    /\ pc \in {"teardown", "recover"} /\ failed
    /\ \E e \in queue : /\ NextUp(e) /\ e.res = Nft
                        /\ queue' = queue \ {e} /\ kept' = kept \cup {e}
    /\ UNCHANGED <<base, kernel, disk, pc, applying, failed, faulty, ghosts, counters>>

Rewritten == {[e EXCEPT !.phase = "begin"] : e \in kept}

\* RewriteJournal: what is left replaces the file in one rename, or the file
\* stays.  A start goes on after a recovery whatever was left; the hotspot
\* fallback goes on after a teardown only when nothing was.
RewriteJournal ==
    /\ pc \in {"teardown", "recover"} /\ queue = {}
    /\ \/ /\ journal' = Rewritten /\ torn' = FALSE
          /\ NoFault
          /\ pc' = IF pc = "recover" \/ ~failed THEN "clean" ELSE "idle"
       \/ Fault /\ pc' = "idle" /\ UNCHANGED disk
    /\ kept' = {} /\ failed' = FALSE /\ faulty' = FALSE
    /\ UNCHANGED <<base, kernel, applying, queue, ghosts, starts, crashes>>

\* The process dies; the engine's device dies with it.  A record that was being
\* written may be cut short.  A power cut also takes the kernel's state.
Crash(k) ==
    /\ pc # "off" /\ crashes < MaxCrashes
    /\ crashes' = crashes + 1
    /\ kernel' = k
    /\ torn' \in IF \/ pc \in {"note", "teardown"}
                    \/ pc = "apply" /\ More /\ step # Tun /\ ~Skippable(step)
                 THEN {torn, TRUE} ELSE {torn}
    /\ excused' = IF /\ \/ pc = "run" /\ Idle(step)
                        \/ pc = "note" /\ Outcome(step, answer) = "preexisting"
                     /\ Undue(step)
                  THEN excused \cup {step} ELSE excused
    /\ pc' = "off" /\ plan' = <<>> /\ at' = 1 /\ facts' = base /\ seq' = 0 /\ answer' = "ok"
    /\ queue' = {} /\ kept' = {} /\ failed' = FALSE /\ faulty' = FALSE
    /\ UNCHANGED <<base, journal, misread, starts, faults>>

Kill   == Crash(Effect(kernel, Tun, 0))
Reboot == Crash(base)

Next ==
    \/ Boot \/ Recover \/ Refuse \/ (\E p \in Plans : Detect(p))
    \/ Skip \/ Begin \/ RunDo \/ Note \/ EngineStart \/ Applied \/ ApplyAgain
    \/ Teardown \/ UndoOne \/ HoldFirewall \/ RewriteJournal
    \/ Kill \/ Reboot

Spec == Init /\ [][Next]_vars

\* What goes on by itself: a process that is down comes up, a start that was refused
\* is followed by another, and a sweep goes on to its end.
Sweep == Boot \/ Recover \/ Refuse \/ UndoOne \/ HoldFirewall \/ RewriteJournal

-----------------------------------------------------------------------------
(* Properties.                                                              *)

Entry == [seq : Nat, res : Res, undo : {0, 1},
          phase : {"begin", "done", "failed", "undone", "preexisting"}]
PCs == {"off", "idle", "clean", "recover", "apply", "run", "note", "applyfailed",
        "running", "teardown"}

\* The types of the variables of the Applier, its journal and the kernel.
TypeOK ==
    /\ base \in Bases /\ kernel \in [Res -> {0, 1}]
    /\ journal \subseteq Entry /\ torn \in BOOLEAN
    /\ pc \in PCs
    /\ plan \in Plans \cup {<<>>} /\ at \in Nat \ {0} /\ facts \in [Res -> {0, 1}]
    /\ seq \in Nat /\ answer \in Answers
    /\ queue \subseteq Entry /\ kept \subseteq Entry
    /\ failed \in BOOLEAN /\ faulty \in BOOLEAN
    /\ misread \subseteq Res /\ excused \subseteq Res
    /\ starts \in Nat /\ faults \in Nat /\ crashes \in Nat

\* Fail closed (apply.go, replay: "the fail-closed guarantee"): whatever fails,
\* in whatever order, and wherever the process is killed, no route or address of
\* this program, and no forwarding it has turned on, is in the kernel without the
\* generated table.  Left aside are the knobs in "misread": a recovery could not
\* restore them, and the start that went on all the same has read this program's
\* value as the one to go back to.  For them the guarantee does not hold, as
\* ClosedAtRest shows.
FailClosed ==
    \A r \in Exposing \ misread :
        kernel[r] = 1 /\ base[r] = 0 => kernel[Nft] = 1

\* The same with no knob left aside, and asked only where no sweep is under way:
\* "the only path in this design known to produce a leak" is closed, "the block
\* stays in force, and the next start retries" (apply.go, replay).
ClosedAtRest ==
    pc \in {"idle", "clean"} =>
        \A r \in Exposing : kernel[r] = 1 /\ base[r] = 0 => kernel[Nft] = 1

\* Resources that are changed by a step with an inverse.
Reversible == {r \in Res : HasInverse(r)}

\* "The journal names at least as much as was actually changed" (apply.go,
\* Applier): every resource that differs from the machine as it was found has a
\* live inverse on disk.  So an empty journal means a machine put back as it was.
\* Left aside are the resources in "excused": a Begin record that was glued to a
\* torn line; an object found in place whose retraction was lost; a station address
\* that NetworkManager took along; and a knob whose older inverse worked while a
\* newer one, that says otherwise, stayed.
JournalCovers ==
    \A r \in Reversible \ excused :
        kernel[r] # base[r] => \E e \in journal : e.res = r /\ NeedsUndo(e)

\* The same with no gap allowed: "whatever state the machine is left in, the
\* journal names at least as much as was actually changed".
EverythingJournalled ==
    \A r \in Reversible :
        kernel[r] # base[r] => \E e \in journal : e.res = r /\ NeedsUndo(e)

\* An older live inverse of the same knob that leads back: replay, newest first,
\* runs it last.
Beneath(x, e) == /\ NeedsUndo(x) /\ x.res = e.res /\ x.seq < e.seq
                 /\ x.undo = base[e.res]

\* An inverse that is on disk, and not about to be retracted, leads back to the
\* machine as it was found (apply.go, Apply: the original entry's inverse "is the
\* only honest one"; idempotence.go: "this is what keeps sysctl honest").  Through
\* repeated applies in one run it does so itself.  A knob that a start has read
\* while an earlier run still had it changed has a newer inverse that does not, and
\* then an older one that does lies beneath it.  Left aside are the resources in
\* "excused", as in JournalCovers; for a knob that is the case where the older
\* inverse has gone first.
HonestInverse ==
    \A e \in journal :
        \/ ~NeedsUndo(e) \/ e.res \in excused \/ e.undo = base[e.res]
        \/ e.res \in misread /\ \E x \in journal : Beneath(x, e)
        \/ pc = "run" /\ e.seq = seq /\ Idle(step)
        \/ pc = "note" /\ e.seq = seq /\ Outcome(step, answer) = "preexisting"

\* What was on the machine before the program ran and is not the program's to
\* take away stays: no step and no inverse removes a route, rule or address found
\* in place, or turns off a knob found on (idempotence.go: "A step journals an
\* inverse if and only if it changed something").  Left aside are station addresses,
\* which the plan takes away on purpose, and an object whose retraction has not
\* reached the disk: the process was killed, the command failed for another reason,
\* or the record could not be written, after the inverse was journalled and before
\* it was marked Preexisting.  Then the rule is broken, and the next replay does
\* remove the object.
FoundStays ==
    [][\A r \in Reversible \ (Stations \cup excused') :
          base[r] = 1 /\ kernel[r] = 1 => kernel'[r] = 1]_vars

\* "Every inverse in this package succeeds when there is nothing to undo"
\* (apply.go, Applier): a sweep in which no command fails by accident leaves
\* nothing behind.
EverySweepClean ==
    pc \in {"teardown", "recover"} /\ queue = {} /\ ~faulty => kept = {}

\* "It converges: whatever failed is replayed again, and the moment that sweep is
\* clean the table comes out" (apply.go, replay): a sweep, its retries and its
\* restarts lead to an empty journal, unless a start goes on before that.
Converges == pc \in {"teardown", "recover"} ~> (journal = {} /\ kernel[Nft] = 0) \/ pc = "apply"

\* The same, station addresses aside: what a sweep without accident keeps is the
\* restoration of a station address and the firewall held because of it.
OnlyStationsLinger ==
    pc \in {"teardown", "recover"} /\ queue = {} /\ ~faulty =>
        \A e \in kept : Kind[e.res] = "station" \/ (e.res = Nft /\ \E x \in kept : x.res # Nft)
=============================================================================
