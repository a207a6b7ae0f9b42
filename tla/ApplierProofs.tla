---------------------------- MODULE ApplierProofs -----------------------------
(***************************************************************************)
(* The inductive invariant of Applier, and the facts its proof rests on:   *)
(* what commands, records and sweeps do to the kernel and to the journal.  *)
(***************************************************************************)
EXTENDS Applier, TLAPS

Sweeping == pc \in {"teardown", "recover"}
InStep   == pc \in {"run", "note"}
Applying == pc \in {"apply", "run", "note"}
Open     == pc \in {"apply", "run", "note", "running"}

Changed(r) == kernel[r] # base[r]

\* The step in flight is one whose inverse is about to be retracted.
Retracting ==
    \/ pc = "run" /\ Idle(step)
    \/ pc = "note" /\ Outcome(step, answer) = "preexisting"

\* A plan is in force exactly while an Applier is open, and a step is in flight
\* only at a place of the plan.
PlanOK ==
    /\ Open => plan \in Plans
    /\ InStep => /\ at \in 1..Len(plan) /\ step # Tun
                 /\ torn = FALSE

\* Entries carry distinct numbers, none above the journal's own counter.
Numbered ==
    /\ \A x, y \in journal : x.seq = y.seq => x = y
    /\ Open => \A e \in journal : e.seq <= seq

\* The shape of an inverse follows from the resource, a knob's aside.
Shaped ==
    \A e \in journal : e.res # Tun /\ (Kind[e.res] # "sysctl" => e.undo = 1 - Value(e.res))

\* What lives on a device is gone when the device is.
DevicesOK == \A r \in Res : kernel[r] = 1 => ~NoDevice(kernel, r)

\* The step in flight has its inverse on disk.
InFlight ==
    InStep => \/ step \in excused
              \/ \E e \in journal : /\ e.seq = seq /\ e.res = step
                                    /\ e.phase = "begin"

OthersInFlight == InStep => \A e \in journal : e.seq = seq => e.res = step

\* What a sweep has still to do and what it keeps are live entries of the
\* journal; it keeps nothing as long as nothing failed.
SweepOK ==
    /\ ~Sweeping => queue = {} /\ kept = {}
    /\ queue \cup kept \subseteq {e \in journal : NeedsUndo(e)}
    /\ queue \cap kept = {}
    /\ ~failed => kept = {}

\* Coverage, strengthened: what is changed is covered by an entry other than one
\* about to be retracted, and in a sweep by one not yet undone.
Covered ==
    \A r \in Reversible \ excused :
        Changed(r) => \E e \in journal :
            /\ e.res = r /\ NeedsUndo(e)
            /\ pc = "run" \/ Retracting => e.seq # seq
            /\ Sweeping => e \in queue \cup kept

\* What the runner said of the step in flight is true of the kernel.
Landed ==
    pc = "note" => /\ answer = "ok" => kernel[step] = Value(step)
                   /\ answer = "exists" => Verb(step) = "add"

\* The table is loaded before the second step of a plan is taken, and whenever
\* the journal says so.
Guarded ==
    /\ Applying => at = 1 \/ kernel[Nft] = 1
    /\ pc = "running" => kernel[Nft] = 1
    /\ Open /\ InForce(Nft) => kernel[Nft] = 1

\* A live inverse on disk puts the resource back as it was found.
Backed(r) == \E x \in journal : NeedsUndo(x) /\ x.res = r /\ x.undo = base[r]

\* A changed knob is in force, so that a second Apply leaves its first inverse
\* alone, or was changed already when the start read it, and then an inverse from
\* before that start is live.
Knobs ==
    \A r \in Res \ excused : Kind[r] = "sysctl" =>
        /\ Open /\ Changed(r) => \/ InForce(r) \/ r \in misread
                                 \/ pc = "note" /\ step = r
        /\ Applying => \/ facts[r] = base[r] \/ InForce(r)
                       \/ r \in misread /\ Backed(r)

\* In a sweep an inverse that does not lead back has, below it in the same sweep,
\* one that does; and one still to be run has one still to be run.
SweepHonest ==
    Sweeping => \A e \in queue \cup kept :
        \/ e.res \in excused \/ e.undo = base[e.res]
        \/ /\ e.res \in misread
           /\ \E x \in queue \cup kept : Beneath(x, e)
           /\ e \in queue => \E x \in queue : Beneath(x, e)

\* Where the gaps can be: misread knobs were found off and a knob found on is on; a
\* resource that exposes is excused only where it was found or misread.
Gaps ==
    /\ \A r \in misread : Kind[r] = "sysctl" /\ base[r] = 0
    /\ \A r \in excused : /\ Kind[r] = "sysctl" => r \in misread
                          /\ Kind[r] \in {"iface", "addr"} => base[r] = 1
    /\ \A r \in Res : Kind[r] = "sysctl" /\ base[r] = 1 => kernel[r] = 1

\* A line cut short is still there when a start applies its plan only if the journal
\* is empty, and then the firewall's record is the one that is glued to it.
TornOK ==
    torn => /\ pc # "running"
            /\ pc \in {"clean", "apply"} => journal = {}
            /\ pc = "apply" => at = 1

\* A station address is taken off, and an interface released, only as found.
Facts ==
    Applying => \A r \in Res \ excused :
        /\ Kind[r] = "station" /\ facts[r] = 1 => base[r] = 1
        /\ Kind[r] = "release" /\ facts[r] = 0 => base[r] = 0

\* Nothing is done by the journal's lights when a start begins.
CleanStart == pc = "clean" => \A e \in journal : e.phase = "begin"

IInv ==
    /\ TypeOK /\ PlanOK /\ Numbered /\ Shaped /\ DevicesOK /\ InFlight /\ OthersInFlight
    /\ SweepOK /\ Covered /\ HonestInverse /\ Landed /\ Guarded /\ FailClosed
    /\ Knobs /\ Facts /\ CleanStart /\ SweepHonest /\ Gaps /\ TornOK

-----------------------------------------------------------------------------

\* What the proofs use of the constants.
LEMMA Consts ==
    /\ Nft \in Res /\ Tun \in Res /\ Nft # Tun
    /\ \A r \in Res : /\ Kind[r] \in Kinds
                      /\ (Kind[r] = "nft") <=> (r = Nft)
                      /\ (Kind[r] = "engine") <=> (r = Tun)
    /\ DevOf[Nft] = Nft /\ DevOf[Tun] = Tun
    /\ \A r \in Exposing : r \in Res /\ Kind[r] \in {"sysctl", "iface", "addr"}
  BY ConstantsAssumption, KindAssumption DEF ConstantsAssumption, KindAssumption, Kinds

\* The machine as it was found, and what it cannot have held.
LEMMA BaseFacts ==
    ASSUME base \in Bases
    PROVE  /\ base \in [Res -> {0, 1}] /\ base[Nft] = 0 /\ base[Tun] = 0
           /\ \A r \in Res : DevOf[r] # r => base[r] = 0 /\ r # Nft
  BY ConstantsAssumption, KindAssumption, DeviceAssumption
     DEF ConstantsAssumption, KindAssumption, DeviceAssumption

\* What a command's effect leaves of a function of the kernel's type.
LEMMA EffectFacts ==
    ASSUME NEW k \in [Res -> {0, 1}], NEW r \in Res, NEW v \in {0, 1}
    PROVE  /\ Effect(k, r, v) \in [Res -> {0, 1}]
           /\ Effect(k, r, v)[r] = v
           /\ \A x \in Res \ {r} : \/ Effect(k, r, v)[x] = k[x] /\ (v = 0 => DevOf[x] # r)
                                   \/ v = 0 /\ DevOf[x] = r /\ Effect(k, r, v)[x] = 0
  BY DEF Effect

\* A step in flight, or still to come, is a place of a plan and names a resource.
LEMMA StepType ==
    ASSUME TypeOK, More \/ (PlanOK /\ InStep)
    PROVE  step \in Res /\ (plan \in Plans) /\ at \in 1..Len(plan)
  <1>1. at \in 1..Len(plan) BY DEF TypeOK, PlanOK, InStep, More
  <1>2. plan \in Plans
    <2>1. Len(<<>>) = 0 OBVIOUS
    <2> QED BY <1>1, <2>1 DEF TypeOK
  <1> QED BY <1>1, <1>2, ConstantsAssumption DEF step, ConstantsAssumption

\* Marking an entry changes its phase and nothing else: what is in the marked journal
\* was in the journal (journal.go, Done and its like; LoadJournal).
MarkOnly(n, ph) ==
    \A e \in Phase(n, ph) : \E x \in journal :
        /\ e.seq = x.seq /\ e.res = x.res /\ e.undo = x.undo
        /\ x.seq # n => e = x
        /\ x.seq = n => e.phase = ph

LEMMA PhaseBack ==
    ASSUME journal \subseteq Entry, NEW n, NEW ph
    PROVE  MarkOnly(n, ph)
  BY DEF Phase, Entry, MarkOnly

\* And what was in the journal is in the marked one.
LEMMA PhaseForth ==
    ASSUME journal \subseteq Entry, NEW n, NEW ph
    PROVE  /\ \A x \in journal : x.seq # n => x \in Phase(n, ph)
           /\ \A x \in journal : x.seq = n => \E e \in Phase(n, ph) :
                  e.seq = x.seq /\ e.res = x.res /\ e.undo = x.undo /\ e.phase = ph
  <1>1. ASSUME NEW x \in journal, x.seq # n PROVE x \in Phase(n, ph) BY <1>1 DEF Phase
  <1>2. ASSUME NEW x \in journal, x.seq = n
        PROVE  \E e \in Phase(n, ph) :
                   e.seq = x.seq /\ e.res = x.res /\ e.undo = x.undo /\ e.phase = ph
    <2> DEFINE m == [x EXCEPT !.phase = ph]
    <2>1. m \in Phase(n, ph) BY <1>2 DEF Phase
    <2>2. m.seq = x.seq /\ m.res = x.res /\ m.undo = x.undo /\ m.phase = ph BY DEF Entry
    <2> HIDE DEF m
    <2> QED BY Zenon, <2>1, <2>2
  <1> QED BY Zenon, <1>1, <1>2

\* Entries stay entries when one is marked, and keep their distinct numbers.
LEMMA PhaseKeeps ==
    ASSUME journal \subseteq Entry, NEW n, NEW ph
    PROVE  /\ ph \in {"begin", "done", "failed", "undone", "preexisting"} =>
                  Phase(n, ph) \subseteq Entry
           /\ (\A x, y \in journal : x.seq = y.seq => x = y) =>
                  \A x, y \in Phase(n, ph) : x.seq = y.seq => x = y
  <1> DEFINE mark(x) == IF x.seq = n THEN [x EXCEPT !.phase = ph] ELSE x
  <1>1. Phase(n, ph) = {mark(x) : x \in journal} BY DEF Phase
  <1>2. \A x \in journal : mark(x).seq = x.seq BY DEF Entry
  <1>3. ph \in {"begin", "done", "failed", "undone", "preexisting"} => Phase(n, ph) \subseteq Entry
    BY DEF Phase, Entry
  <1> HIDE DEF mark
  <1>4. (\A x, y \in journal : x.seq = y.seq => x = y) =>
            \A x, y \in Phase(n, ph) : x.seq = y.seq => x = y
    BY <1>1, <1>2
  <1> QED BY <1>3, <1>4

\* What is left in the file by a sweep are the entries it kept.
LEMMA RewriteFacts ==
    ASSUME kept \subseteq Entry
    PROVE  /\ \A e \in Rewritten : \E x \in kept : e.seq = x.seq /\ e.res = x.res /\ e.undo = x.undo
                                           /\ e.phase = "begin" /\ e = [x EXCEPT !.phase = "begin"]
           /\ \A x \in kept : \E e \in Rewritten : e.seq = x.seq /\ e.res = x.res /\ e.undo = x.undo
                                           /\ e.phase = "begin"
  <1> DEFINE mark(x) == [x EXCEPT !.phase = "begin"]
  <1>1. ASSUME NEW x \in kept
        PROVE  mark(x).seq = x.seq /\ mark(x).res = x.res /\ mark(x).undo = x.undo /\ mark(x).phase = "begin"
    BY DEF Entry
  <1>2. Rewritten = {mark(x) : x \in kept} BY DEF Rewritten
  <1>3. \A x \in kept : mark(x) = [x EXCEPT !.phase = "begin"] OBVIOUS
  <1> HIDE DEF mark
  <1> QED BY <1>1, <1>2, <1>3

\* What running a command can have done.
LEMMA RunFacts ==
    ASSUME NEW verb, NEW r, NEW v, NEW a, Run(verb, r, v, a), TypeOK
    PROVE  /\ \/ kernel' = kernel
              \/ kernel' = Effect(kernel, r, v) /\ Answer(kernel, verb, r) = "ok"
           /\ a = "ok" => kernel' = Effect(kernel, r, v)
           /\ a # "other" => a = Answer(kernel, verb, r)
           /\ a \notin {"ok", "other"} => kernel' = kernel
           /\ faults' = faults => a = Answer(kernel, verb, r)
           /\ Answer(kernel, verb, r) = "ok" => a \in {"ok", "other"}
  BY DEF Run, Fault, NoFault, TypeOK

\* Effects keep resources on their devices.
LEMMA EffectDevices ==
    ASSUME NEW k \in [Res -> {0, 1}], NEW r \in Res, NEW v \in {0, 1},
           \A x \in Res : k[x] = 1 => ~NoDevice(k, x),
           v = 1 => ~NoDevice(k, r)
    PROVE  \A x \in Res : Effect(k, r, v)[x] = 1 => ~NoDevice(Effect(k, r, v), x)
  <1> SUFFICES ASSUME NEW x \in Res, Effect(k, r, v)[x] = 1, DevOf[x] # x
               PROVE  Effect(k, r, v)[DevOf[x]] # 0
    BY DEF NoDevice
  <1>0. DevOf[x] \in Res BY ConstantsAssumption DEF ConstantsAssumption
  <1>1. CASE x = r
    <2>1. v = 1 BY <1>1, EffectFacts
    <2>2. k[DevOf[x]] = 1 BY <1>0, <1>1, <2>1 DEF NoDevice
    <2> QED BY <1>0, <1>1, <2>1, <2>2 DEF Effect
  <1>2. CASE x # r
    <2>1. k[x] = 1 /\ (v = 0 => DevOf[x] # r) BY <1>2, EffectFacts
    <2>2. k[DevOf[x]] = 1 BY <1>0, <2>1 DEF NoDevice
    <2>3. DevOf[DevOf[x]] = DevOf[x] BY DeviceAssumption DEF DeviceAssumption
    <2> QED BY <1>0, <2>1, <2>2, <2>3 DEF Effect
  <1> QED BY <1>1, <1>2

\* The ghost only grows, and the machine as found stays what it is.
LEMMA Grows ==
    ASSUME [Next]_vars
    PROVE  base' = base /\ excused \subseteq excused' /\ misread \subseteq misread'
  BY Zenon DEF Next, vars, disk, applying, sweep, ghosts, counters, Boot, Recover, Refuse, Detect, Skip, Begin, RunDo,
         Note, EngineStart, Applied, ApplyAgain, Teardown, UndoOne, HoldFirewall, RewriteJournal,
         Kill, Reboot, Crash

\* What the journal can be after a step.
LEMMA JournalStep ==
    ASSUME IInv, [Next]_vars
    PROVE  \/ journal' = journal
           \/ /\ Begin /\ step \in Res
              /\ journal' = journal \cup {[seq |-> seq + 1, res |-> step,
                                           undo |-> UndoValue(step), phase |-> "begin"]}
           \/ Note /\ journal' = Phase(seq, Outcome(step, answer))
           \/ UndoOne /\ \E e \in queue : journal' = Phase(e.seq, "undone")
           \/ RewriteJournal /\ journal' = Rewritten
  <1> USE DEF disk, applying, sweep, ghosts, counters
  <1>1. CASE Begin
    <2>1. step \in Res BY <1>1, StepType DEF Begin, IInv
    <2> QED BY Zenon, <1>1, <2>1 DEF Begin, Write, WriteFails
  <1>2. CASE Note BY Zenon, <1>2 DEF Note, Write, WriteFails
  <1>3. CASE UndoOne
    <2>1. PICK e \in queue, a \in Answers : UndoOf(e, a) BY <1>3 DEF UndoOne
    <2> QED BY Zenon, <1>3, <2>1 DEF UndoOf, RecordUndone, Write, WriteFails
  <1>4. CASE RewriteJournal BY <1>4 DEF RewriteJournal
  <1>5. CASE ~(Begin \/ Note \/ UndoOne \/ RewriteJournal)
    BY Zenon, <1>5 DEF Next, vars, Boot, Recover, Refuse, Detect, Skip, RunDo, EngineStart, Applied,
                ApplyAgain, Teardown, HoldFirewall, Kill, Reboot, Crash
  <1> QED BY <1>1, <1>2, <1>3, <1>4, <1>5

\* How a step of the plan changes a resource: its own to the planned value, a
\* station address to 0 with an excuse, and one on a device that goes away to 0,
\* which is how it was found.
LEMMA RunDoKernel ==
    ASSUME IInv, RunDo
    PROVE  /\ step \in Res /\ step' = step
           /\ \A r \in Res \ {step} : \/ kernel'[r] = kernel[r]
                                      \/ kernel'[r] = 0 /\ base[r] = 0 /\ r # Nft
                                      \/ r \in Stations /\ r \in excused' /\ r # Nft
           /\ \/ kernel'[step] = kernel[step]
              \/ kernel'[step] = Value(step) /\ answer' \in {"ok", "other"}
  <1> USE DEF IInv, disk, applying, sweep, ghosts, counters
  <1>1. step' = step /\ step \in Res /\ Value(step) \in {0, 1}
      BY StepType DEF RunDo, step, InStep, Value
  <1>2. kernel \in [Res -> {0, 1}] /\ base \in Bases /\ base \in [Res -> {0, 1}] BY BaseFacts DEF TypeOK
  <1>3. \A r \in Res : DevOf[r] # r => base[r] = 0 /\ r # Nft
    BY Consts, <1>2, DeviceAssumption DEF DeviceAssumption
  <1>4. CASE \E a \in Answers : answer' = a /\ Run(Verb(step), step, Value(step), a)
    <2>1. \/ kernel' = kernel
          \/ kernel' = Effect(kernel, step, Value(step)) /\ answer' \in {"ok", "other"}
      BY <1>4, RunFacts
    <2>2. CASE kernel' = kernel BY <1>1, <2>2
    <2>3. CASE kernel' = Effect(kernel, step, Value(step)) /\ answer' \in {"ok", "other"}
      <3>1. kernel'[step] = Value(step) BY <1>1, <2>3 DEF Effect
      <3>2. ASSUME NEW r \in Res \ {step}
            PROVE  kernel'[r] = kernel[r] \/ (kernel'[r] = 0 /\ DevOf[r] = step)
        BY <2>3 DEF Effect
      <3> QED BY <1>1, <1>3, <2>3, <3>1, <3>2
    <2> QED BY <2>1, <2>2, <2>3
  <1>5. CASE /\ Kind[step] = "release" /\ answer' = "ok"
             /\ kernel' = [x \in Res |-> IF x \in Stations THEN 0 ELSE Effect(kernel, step, 1)[x]]
             /\ excused' = excused \cup {x \in Stations : kernel[x] = 1}
    <2>1. step \notin Stations /\ Value(step) = 1 BY <1>5 DEF Stations, Value
    <2>2. Nft \notin Stations BY Consts DEF Stations
    <2>3. ASSUME NEW r \in Res \ {step}
          PROVE  \/ kernel'[r] = kernel[r]
                 \/ r \in Stations /\ r \in excused' /\ r # Nft
      <3>1. CASE r \in Stations
        <4>1. kernel'[r] = 0 /\ kernel[r] \in {0, 1} BY <1>2, <1>5, <3>1
        <4>2. kernel[r] = 1 => r \in excused' BY <1>5, <3>1
        <4> QED BY <2>2, <3>1, <4>1, <4>2
      <3>2. CASE r \notin Stations
        <4>1. kernel'[r] = Effect(kernel, step, 1)[r] BY <1>5, <3>2
        <4>2. Effect(kernel, step, 1)[r] = kernel[r] BY <1>1, <1>2, EffectFacts
        <4> QED BY <4>1, <4>2
      <3> QED BY <3>1, <3>2
    <2> QED BY <1>1, <1>2, <1>5, <2>1, <2>3, EffectFacts
  <1> QED BY <1>4, <1>5 DEF RunDo

\* Which of its resources a plan comes to first.
LEMMA FirstIsNft ==
    ASSUME IInv, Applying, More
    PROVE  (at = 1 => step = Nft) /\ (at # 1 => step # Nft)
  <1>1. plan \in Plans /\ at \in 1..Len(plan) BY StepType DEF IInv
  <1> QED BY <1>1, FirewallFirst DEF FirewallFirst, step

\* What differs from the machine as found differs as the plan wants it, knobs aside.
LEMMA Direction ==
    ASSUME IInv, ~InStep, NEW r \in Reversible \ excused, Changed(r), Kind[r] # "sysctl"
    PROVE  base[r] = 1 - Value(r)
  <1>1. PICK e \in journal : e.res = r /\ NeedsUndo(e) BY DEF IInv, Covered
  <1>2. e.undo = base[r] BY <1>1 DEF IInv, HonestInverse, InStep, Gaps
  <1> QED BY <1>1, <1>2 DEF IInv, Shaped

\* A step begun with an inverse that does not lead back is one whose command
\* changes nothing.
LEMMA BeginHonest ==
    ASSUME IInv, pc = "apply", More, step # Tun, ~Skippable(step), HasInverse(step),
           step \notin excused, UndoValue(step) # base[step], ~(step \in misread /\ Backed(step))
    PROVE  Idle(step)
  <1> USE DEF IInv
  <1>1. step \in Res /\ step \in Reversible \ excused BY StepType DEF Reversible
  <1>2. kernel[step] \in {0, 1} /\ base[step] \in {0, 1} /\ base \in Bases BY BaseFacts, <1>1 DEF TypeOK
  <1>3. Planned(step) /\ ~InForce(step) BY DEF Skippable
  <1>4. Kind[step] # "sysctl" BY <1>1, <1>3 DEF UndoValue, Knobs, Applying
  <1>5. base[step] = Value(step) BY <1>2, <1>4 DEF UndoValue, Value
  <1>6. kernel[step] = Value(step)
    BY <1>1, <1>2, <1>4, <1>5, Direction DEF Changed, InStep, Value
  <1>7. Kind[step] # "station" BY <1>1, <1>3, <1>5 DEF Facts, Applying, Planned, Value
  <1>8. Kind[step] # "release" BY <1>1, <1>3, <1>5 DEF Facts, Applying, Planned, Value
  <1>9. Kind[step] # "iface" BY <1>6 DEF Skippable, Value
  <1>10. Kind[step] # "nft"
    <2>1. base[Nft] = 0 BY <1>2, BaseFacts
    <2> QED BY Consts, <1>1, <1>5, <2>1 DEF Value
  <1>11. Kind[step] = "addr"
    <2>1. Kind[step] \in Kinds BY Consts, <1>1
    <2> QED BY <2>1, <1>4, <1>7, <1>8, <1>9, <1>10 DEF HasInverse, Kinds
  <1>12. ~NoDevice(kernel, step)
    BY <1>1, <1>2, <1>5, <1>11, DeviceAssumption DEF NoDevice, DeviceAssumption, Value
  <1> QED BY <1>6, <1>11, <1>12 DEF Idle, Outcome, Answer, Verb, Value

\* What stopping the engine leaves of the kernel.
LEMMA EngineGone ==
    ASSUME IInv, NEW r \in Res \ {Tun}
    PROVE  \/ Effect(kernel, Tun, 0)[r] = kernel[r]
           \/ Effect(kernel, Tun, 0)[r] = 0 /\ base[r] = 0 /\ r # Nft
  <1>1. DevOf[r] = Tun => base[r] = 0 /\ r # Nft
    BY Consts, DeviceAssumption DEF DeviceAssumption, IInv, TypeOK
  <1>2. kernel \in [Res -> {0, 1}] BY DEF IInv, TypeOK
  <1> QED BY Consts, <1>1, <1>2, EffectFacts

\* What an inverse does to the kernel.
LEMMA UndoKernel ==
    ASSUME IInv, Sweeping, NEW e \in queue, NEW a \in Answers, UndoOf(e, a)
    PROVE  /\ \A r \in Res \ {e.res} : \/ kernel'[r] = kernel[r]
                                       \/ kernel'[r] = 0 /\ base[r] = 0 /\ r # Nft
           /\ e.res \notin excused \cup misread => e.undo = base[e.res]
           /\ e.res \notin excused /\ e.undo = base[e.res] =>
                 /\ kernel'[e.res] = kernel[e.res] \/ kernel'[e.res] = base[e.res]
                 /\ kernel'[e.res] = base[e.res] \/ (kept' = kept \cup {e} /\ UNCHANGED disk)
  <1> USE DEF IInv
  <1>1. e \in journal /\ NeedsUndo(e) BY DEF SweepOK
  <1>2. e.res \in Res /\ e.undo \in {0, 1} BY DEF TypeOK, Entry
  <1>3. kernel \in [Res -> {0, 1}] /\ base \in Bases /\ base \in [Res -> {0, 1}] BY BaseFacts DEF TypeOK
  <1>4. e.res \notin excused \cup misread => e.undo = base[e.res] BY <1>1 DEF HonestInverse, Sweeping
  <1>5. \A r \in Res : DevOf[r] # r => base[r] = 0 /\ r # Nft
    BY Consts, <1>3, DeviceAssumption DEF DeviceAssumption
  <1>6. /\ \/ kernel' = kernel \/ kernel' = Effect(kernel, e.res, e.undo)
        /\ a = "ok" => kernel' = Effect(kernel, e.res, e.undo)
        /\ a = "notfound" => kernel' = kernel /\ a = Answer(kernel, UndoVerb(e.res), e.res)
    BY RunFacts DEF UndoOf
  <1>7. ASSUME a = "notfound", UndoVerb(e.res) = "del", e.undo = base[e.res]
        PROVE  kernel'[e.res] = base[e.res]
    <2>1. kernel[e.res] = 0 BY <1>2, <1>3, <1>6, <1>7 DEF Answer, DevicesOK
    <2>2. e.undo = 0 BY <1>1, <1>7 DEF Shaped, UndoVerb, Value
    <2> QED BY <1>6, <1>7, <2>1, <2>2
  <1>8. ASSUME a = "ok", e.undo = base[e.res] PROVE kernel'[e.res] = base[e.res]
    BY <1>2, <1>3, <1>6, <1>8, EffectFacts
  <1>9. \A r \in Res \ {e.res} : \/ kernel'[r] = kernel[r]
                                 \/ kernel'[r] = 0 /\ base[r] = 0 /\ r # Nft
    BY <1>2, <1>3, <1>5, <1>6, EffectFacts
  <1>10. e.undo = base[e.res] => kernel'[e.res] = kernel[e.res] \/ kernel'[e.res] = base[e.res]
    BY <1>2, <1>3, <1>6, EffectFacts
  <1>11. \/ a = "ok" \/ (a = "notfound" /\ UndoVerb(e.res) = "del")
         \/ kept' = kept \cup {e} /\ UNCHANGED disk
    BY DEF UndoOf
  <1> QED BY <1>4, <1>7, <1>8, <1>9, <1>10, <1>11

\* Apply keeps a knob's live inverse: it adds entries, and marks a knob's own as done
\* or failed.
LEMMA BackStays ==
    ASSUME IInv, [Next]_vars, ~Sweeping, NEW x \in journal, NeedsUndo(x), Kind[x.res] = "sysctl"
    PROVE  \E y \in journal' : /\ NeedsUndo(y) /\ y.seq = x.seq
                               /\ y.res = x.res /\ y.undo = x.undo
  <1> USE DEF IInv
  <1>1. CASE journal' = journal BY <1>1
  <1>2. CASE Begin /\ step \in Res /\ journal' = journal \cup {[seq |-> seq + 1, res |-> step,
                                           undo |-> UndoValue(step), phase |-> "begin"]}
    BY Zenon, <1>2
  <1>3. CASE Note /\ journal' = Phase(seq, Outcome(step, answer))
    <2>1. pc = "note" BY <1>3 DEF Note
    <2>2. CASE x.seq # seq BY <1>3, <2>2, PhaseForth DEF TypeOK
    <2>3. CASE x.seq = seq
      <3>1. x.res = step BY <2>1, <2>3 DEF OthersInFlight, InStep
      <3>2. Outcome(step, answer) \in {"done", "failed"}
        BY <2>1, <3>1 DEF Outcome, Verb, Landed
      <3>3. PICK y \in journal' : y.seq = x.seq /\ y.res = x.res /\ y.undo = x.undo
                                  /\ y.phase = Outcome(step, answer)
        BY <1>3, <2>3, PhaseForth DEF TypeOK
      <3> QED BY <3>2, <3>3 DEF NeedsUndo
    <2> QED BY <2>2, <2>3
  <1>4. ~UndoOne /\ ~RewriteJournal BY DEF UndoOne, RewriteJournal, Sweeping
  <1> QED BY <1>1, <1>2, <1>3, <1>4, JournalStep

-----------------------------------------------------------------------------

\* A step keeps the types, the plan and the order of the journal.
LEMMA BooksKept == ASSUME IInv, [Next]_vars PROVE TypeOK' /\ PlanOK' /\ Numbered' /\ Shaped' /\ CleanStart'
  \* Every action keeps the variables' types.
  <1>1. TypeOK'
    <2>0. TypeOK /\ PlanOK BY DEF IInv
    <2> USE <2>0
    <2> USE DEF disk, applying, sweep, ghosts, counters, Fault, NoFault
    <2>1. CASE Boot BY <2>1 DEF Boot, TypeOK, PCs
    <2>2. CASE Recover BY <2>2 DEF Recover, TypeOK, PCs
    <2>3. CASE Refuse BY <2>3 DEF Refuse, TypeOK, PCs
    <2>4. ASSUME NEW p \in Plans, Detect(p) PROVE TypeOK'
      BY <2>4 DEF Detect, TypeOK, PCs, Entry
    <2>5. CASE Skip BY <2>5 DEF Skip, TypeOK
    <2>6. CASE Begin
      <3> DEFINE j == journal \cup {[seq |-> seq', res |-> step, undo |-> UndoValue(step), phase |-> "begin"]}
      <3>1. step \in Res BY <2>6, StepType DEF Begin
      <3>2. UndoValue(step) \in {0, 1} BY <3>1 DEF UndoValue, Value, TypeOK
      <3>3. seq' \in Nat BY <2>6 DEF Begin, TypeOK
      <3>4. j \subseteq Entry BY <3>1, <3>2, <3>3 DEF Entry, TypeOK
      <3>5. Write(j) \/ WriteFails(j) BY <2>6 DEF Begin
      <3> HIDE DEF j
      <3>6. journal' \subseteq Entry BY Zenon, <3>4, <3>5 DEF Write, WriteFails, TypeOK
      <3>7. torn' \in BOOLEAN BY Zenon, <3>5 DEF Write, WriteFails, TypeOK
      <3>8. faults' \in Nat BY <2>6 DEF Begin, TypeOK
      <3>9. excused' \subseteq Res /\ misread' = misread BY <2>6, <3>1 DEF Begin, TypeOK
      <3>10. pc' \in PCs BY <2>6 DEF Begin, PCs
      <3> QED BY <2>6, <3>3, <3>6, <3>7, <3>8, <3>9, <3>10 DEF Begin, TypeOK
    <2>7. CASE RunDo
      <3>1. kernel' \in [Res -> {0, 1}]
        <4>1. Value(step) \in {0, 1} BY DEF Value
        <4>2. Effect(kernel, step, Value(step)) \in [Res -> {0, 1}] BY <4>1 DEF Effect, TypeOK
        <4>3. Effect(kernel, step, 1) \in [Res -> {0, 1}] BY DEF Effect, TypeOK
        <4> QED BY <2>7, <4>2, <4>3 DEF RunDo, Run, TypeOK
      <3>2. excused' \subseteq Res BY <2>7, StepType DEF RunDo, TypeOK, Stations, InStep
      <3>3. answer' \in Answers /\ faults' \in Nat BY <2>7 DEF RunDo, Run, Answers, TypeOK
      <3> QED BY <2>7, <3>1, <3>2, <3>3 DEF RunDo, TypeOK, PCs
    <2>8. CASE Note
      <3> DEFINE ph == Outcome(step, answer)
                 j  == Phase(seq, ph)
      <3>1. j \subseteq Entry BY PhaseKeeps DEF Outcome, TypeOK
      <3>2. Write(j) \/ WriteFails(j) BY <2>8 DEF Note
      <3>3. pc' \in PCs /\ at' \in Nat \ {0} /\ faults' \in Nat BY <2>8 DEF Note, PCs, TypeOK
      <3>4. excused' \subseteq Res BY <2>8, StepType DEF Note, TypeOK, InStep
      <3>5. journal' \subseteq Entry BY Zenon, <3>1, <3>2 DEF Write, WriteFails, TypeOK
      <3>6. torn' \in BOOLEAN BY Zenon, <3>2 DEF Write, WriteFails, TypeOK
      <3> QED BY <2>8, <3>3, <3>4, <3>5, <3>6 DEF Note, TypeOK, Answers
    <2>9. CASE EngineStart
      <3>1. kernel' \in [Res -> {0, 1}] BY <2>9 DEF EngineStart, Effect, TypeOK
      <3> QED BY <2>9, <3>1 DEF EngineStart, TypeOK, PCs
    <2>10. CASE Applied BY <2>10 DEF Applied, TypeOK, PCs
    <2>11. CASE ApplyAgain BY <2>11 DEF ApplyAgain, TypeOK, PCs
    <2>12. CASE Teardown
      <3>1. kernel' \in [Res -> {0, 1}] BY <2>12 DEF Teardown, Effect, TypeOK
      <3> QED BY BaseFacts, <2>12, <3>1 DEF Teardown, TypeOK, PCs
    <2>13. CASE UndoOne
      <3>1. PICK e \in queue, a \in Answers : UndoOf(e, a) BY <2>13 DEF UndoOne
      <3> USE <3>1 DEF UndoOf
      <3>2. e \in Entry /\ e.undo \in {0, 1}
        <4>1. e \in Entry BY Zenon DEF TypeOK
        <4> HIDE DEF UndoOf
        <4> QED BY <4>1 DEF Entry
      <3>3. kernel' \in [Res -> {0, 1}] /\ faults' \in Nat BY <3>1, <3>2 DEF Run, Effect, TypeOK
      <3>4. journal' \subseteq Entry
        <4>1. Phase(e.seq, "undone") \subseteq Entry BY PhaseKeeps DEF TypeOK
        <4> QED BY Zenon, <4>1 DEF RecordUndone, WriteFails, Write, TypeOK
      <3>5. torn' \in BOOLEAN BY Zenon, <3>1 DEF RecordUndone, WriteFails, Write, TypeOK
      <3>6. failed' \in BOOLEAN BY Zenon, <3>1 DEF TypeOK
      <3>7. faulty' \in BOOLEAN BY <2>13 DEF UndoOne
      <3>8. queue' \subseteq Entry /\ kept' \subseteq Entry BY <3>1, <3>2 DEF TypeOK
      <3>9. excused' \subseteq Res
        <4>1. PICK x \in queue : excused' \subseteq excused \cup {x.res} BY Zenon, <2>13 DEF UndoOne
        <4>2. x.res \in Res BY DEF TypeOK, Entry
        <4> QED BY <4>1, <4>2 DEF TypeOK
      <3> QED BY <2>13, <3>3, <3>4, <3>5, <3>6, <3>7, <3>8, <3>9 DEF UndoOne, TypeOK
    <2>14. CASE HoldFirewall BY <2>14 DEF HoldFirewall, TypeOK
    <2>15. CASE RewriteJournal
      <3>1. Rewritten \subseteq Entry BY DEF TypeOK, Entry, Rewritten
      <3>2. journal' \subseteq Entry BY <2>15, <3>1 DEF RewriteJournal, TypeOK
      <3>3. torn' \in BOOLEAN /\ failed' \in BOOLEAN /\ faulty' \in BOOLEAN
        BY Zenon, <2>15 DEF RewriteJournal, TypeOK
      <3>4. pc' \in PCs /\ faults' \in Nat BY <2>15 DEF RewriteJournal, PCs, TypeOK
      <3> QED BY <2>15, <3>2, <3>3, <3>4 DEF RewriteJournal, TypeOK
    <2>16. CASE Kill \/ Reboot
      <3>1. PICK k \in [Res -> {0, 1}] : Crash(k)
        <4>1. base \in [Res -> {0, 1}] BY BaseFacts DEF TypeOK
        <4>2. Effect(kernel, Tun, 0) \in [Res -> {0, 1}] BY DEF Effect, TypeOK
        <4> QED BY <2>16, <4>1, <4>2 DEF Kill, Reboot
      <3>2. excused' \subseteq Res BY <3>1, StepType DEF Crash, TypeOK, InStep
      <3>3. torn' \in BOOLEAN BY Zenon, <3>1 DEF Crash, TypeOK
      <3>4. pc' \in PCs /\ answer' \in Answers BY <3>1 DEF Crash, PCs, Answers
      <3>5. at' \in Nat \ {0} /\ plan' \in Plans \cup {<<>>} /\ facts' \in [Res -> {0, 1}]
        BY BaseFacts, <3>1 DEF Crash, TypeOK
      <3>6. failed' \in BOOLEAN /\ faulty' \in BOOLEAN BY Zenon, <3>1 DEF Crash
      <3> QED BY <3>1, <3>2, <3>3, <3>4, <3>5, <3>6 DEF Crash, TypeOK
    <2>18. CASE UNCHANGED vars BY <2>18 DEF vars, TypeOK
    <2> QED BY <2>1, <2>2, <2>3, <2>4, <2>5, <2>6, <2>7, <2>8, <2>9, <2>10, <2>11, <2>12,
               <2>13, <2>14, <2>15, <2>16, <2>18 DEF Next
  \* An Applier is open only with a plan, and steps are in flight only inside it.
  <1>2. PlanOK'
    <2> USE DEF IInv, PlanOK, Open, InStep, disk, applying, sweep, ghosts, counters
    <2>1. CASE Begin
      <3>1. Write(journal \cup {[seq |-> seq', res |-> step, undo |-> UndoValue(step), phase |-> "begin"]})
            \/ pc' = "applyfailed"
        BY <2>1 DEF Begin
      <3>2. pc' = "run" => torn' = FALSE BY <3>1 DEF Write
      <3>3. plan' = plan /\ at' = at /\ step # Tun /\ More /\ pc' \in {"run", "applyfailed"}
          BY <2>1 DEF Begin
      <3>4. plan \in Plans /\ at \in 1..Len(plan) BY ZenonT(60), <3>3, StepType
      <3> QED BY <3>2, <3>3, <3>4 DEF step
    <2>2. CASE RunDo BY Zenon, <2>2 DEF RunDo, step
    <2>3. CASE Note BY <2>3 DEF Note
    <2>4. ASSUME NEW p \in Plans, Detect(p) PROVE PlanOK' BY Zenon, <2>4 DEF Detect
    <2>5. CASE Skip \/ EngineStart \/ Applied \/ ApplyAgain
      BY <2>5 DEF Skip, EngineStart, Applied, ApplyAgain
    <2>6. CASE Boot \/ Recover \/ Refuse \/ Teardown \/ UndoOne \/ HoldFirewall \/ RewriteJournal \/ Kill \/ Reboot
      BY Zenon, <2>6 DEF Boot, Recover, Refuse, Teardown, UndoOne, HoldFirewall, RewriteJournal, Kill, Reboot,
         Crash
    <2>7. CASE UNCHANGED vars BY <2>7 DEF vars, step
    <2> QED BY ZenonT(60), <2>1, <2>2, <2>3, <2>4, <2>5, <2>6, <2>7 DEF Next
  \* Sequence numbers stay distinct across reopened and rewritten journals.
  <1>3. Numbered'
    <2> USE DEF IInv
    <2>1. CASE journal' = journal
      <3>1. \/ ~Open' \/ (Open /\ seq' = seq) \/ (Open /\ seq' = seq + 1)
            \/ \A e \in journal' : e.seq <= seq'
        BY Zenon, <2>1 DEF Open, Next, vars, disk, applying, sweep, ghosts, counters, Boot, Recover, Refuse, Detect,
                    Skip, Begin, RunDo, Note, EngineStart, Applied, ApplyAgain, Teardown, UndoOne,
                    HoldFirewall, RewriteJournal, Kill, Reboot, Crash
      <3>2. \A e \in journal : e.seq \in Nat BY DEF TypeOK, Entry
      <3> QED BY <2>1, <3>1, <3>2 DEF Numbered, TypeOK
    <2>2. CASE Begin /\ step \in Res /\ journal' = journal \cup {[seq |-> seq + 1, res |-> step,
                                             undo |-> UndoValue(step), phase |-> "begin"]}
      <3>1. seq' = seq + 1 /\ pc = "apply" BY <2>2 DEF Begin
      <3>2. \A e \in journal : e.seq \in Nat /\ e.seq <= seq BY <3>1 DEF TypeOK, Entry, Numbered, Open
      <3> QED BY <2>2, <3>1, <3>2 DEF Numbered, TypeOK
    <2>3. CASE Note /\ journal' = Phase(seq, Outcome(step, answer))
      <3>1. Open /\ seq' = seq BY <2>3 DEF Note, Open
      <3>2. \A x, y \in journal' : x.seq = y.seq => x = y BY <2>3, PhaseKeeps DEF TypeOK, Numbered
      <3> QED BY <2>3, <3>1, <3>2, PhaseBack DEF MarkOnly, Numbered, TypeOK
    <2>4. CASE UndoOne /\ \E e \in queue : journal' = Phase(e.seq, "undone")
      <3>1. ~Open' BY <2>4 DEF UndoOne, Open
      <3>2. \A x, y \in journal' : x.seq = y.seq => x = y BY <2>4, PhaseKeeps DEF TypeOK, Numbered
      <3> QED BY <2>4, <3>1, <3>2 DEF Numbered
    <2>5. CASE RewriteJournal /\ journal' = Rewritten
      <3>1. ~Open' BY <2>5 DEF RewriteJournal, Open
      <3>2. kept \subseteq journal /\ kept \subseteq Entry BY DEF SweepOK, TypeOK
      <3>3. \A x, y \in journal' : x.seq = y.seq => x = y
        <4> SUFFICES ASSUME NEW x \in journal', NEW y \in journal', x.seq = y.seq PROVE x = y OBVIOUS
        <4>1. PICK x0 \in kept : x.seq = x0.seq /\ x = [x0 EXCEPT !.phase = "begin"]
          BY <2>5, <3>2, RewriteFacts
        <4>2. PICK y0 \in kept : y.seq = y0.seq /\ y = [y0 EXCEPT !.phase = "begin"]
          BY <2>5, <3>2, RewriteFacts
        <4>3. x0 = y0 BY ZenonT(60), <3>2, <4>1, <4>2 DEF Numbered
        <4> QED BY <4>1, <4>2, <4>3
      <3> QED BY <3>1, <3>3 DEF Numbered
    <2> QED BY <2>1, <2>2, <2>3, <2>4, <2>5, JournalStep
  \* Inverses keep their shape through records and rewrites.
  <1>4. Shaped'
    <2> USE DEF IInv, Shaped
    <2>1. CASE journal' = journal BY Zenon, <2>1
    <2>2. CASE Begin /\ step \in Res /\ journal' = journal \cup {[seq |-> seq + 1, res |-> step,
                                             undo |-> UndoValue(step), phase |-> "begin"]}
      BY <2>2 DEF Begin, UndoValue
    <2>3. ASSUME NEW n, NEW ph, journal' = Phase(n, ph) PROVE Shaped'
      <3>1. journal \subseteq Entry /\ Shaped BY Zenon DEF TypeOK
      <3> HIDE DEF IInv
      <3>2. MarkOnly(n, ph) BY Zenon, <3>1, PhaseBack
      <3> QED BY <2>3, <3>1, <3>2 DEF MarkOnly
    <2>4. CASE RewriteJournal /\ journal' = Rewritten
      <3>1. kept \subseteq journal /\ kept \subseteq Entry BY DEF SweepOK, TypeOK
      <3>2. \A e \in journal' : \E x \in kept : e.res = x.res /\ e.undo = x.undo
        BY <2>4, <3>1, RewriteFacts
      <3> QED BY <3>1, <3>2
    <2> QED BY Zenon, <2>1, <2>2, <2>3, <2>4, JournalStep
  \* A start begins over a journal that claims nothing is in force.
  <1>5. CleanStart'
    <2> USE DEF IInv, CleanStart, disk, applying, sweep, ghosts, counters
    <2>1. CASE Recover BY <2>1 DEF Recover
    <2>2. CASE RewriteJournal
      <3>1. pc' = "clean" => journal' = Rewritten BY <2>2 DEF RewriteJournal
      <3> QED BY <3>1, RewriteFacts DEF TypeOK
    <2>3. CASE UNCHANGED vars BY <2>3 DEF vars
    <2>4. Recover \/ RewriteJournal \/ UNCHANGED vars \/ pc' # "clean"
      BY Zenon DEF Next, Boot, Refuse, Detect, Skip, Begin, RunDo, Note, EngineStart, Applied, ApplyAgain,
             Teardown, UndoOne, HoldFirewall, Kill, Reboot, Crash
    <2> QED BY <2>1, <2>2, <2>3, <2>4
  <1> QED BY <1>1, <1>2, <1>3, <1>4, <1>5

\* A step keeps what is on the machine on its devices, and the machine on its way.
LEMMA MachineKept == ASSUME IInv, [Next]_vars PROVE DevicesOK' /\ InFlight' /\ OthersInFlight' /\ SweepOK' /\ Landed' /\ Facts'
  \* Nothing outlives the device it lives on, whatever command fails.
  <1>1. DevicesOK'
    <2> USE DEF IInv, disk, applying, sweep, ghosts, counters
    <2>0. /\ kernel \in [Res -> {0, 1}] /\ base \in [Res -> {0, 1}]
          /\ \A x \in Res : kernel[x] = 1 => ~NoDevice(kernel, x)
      BY Zenon, BaseFacts DEF TypeOK, DevicesOK
    <2>1. ASSUME NEW r \in Res, NEW v \in {0, 1}, kernel' = Effect(kernel, r, v),
                 v = 1 => ~NoDevice(kernel, r)
          PROVE  DevicesOK'
      BY <2>0, <2>1, EffectDevices DEF DevicesOK
    <2>2. CASE RunDo
      <3>1. step \in Res /\ Value(step) \in {0, 1} BY <2>2, StepType DEF RunDo, InStep, Value
      <3>2. CASE kernel' = kernel BY <2>0, <3>2 DEF DevicesOK
      <3>3. CASE kernel' = Effect(kernel, step, Value(step)) /\ Answer(kernel, Verb(step), step) = "ok"
        <4>1. Value(step) = 1 => ~NoDevice(kernel, step) BY <3>3 DEF Answer
        <4> QED BY <2>1, <3>1, <3>3, <4>1
      <3>4. CASE /\ Kind[step] = "release" /\ Answer(kernel, "set", step) = "ok"
                 /\ kernel' = [x \in Res |-> IF x \in Stations THEN 0 ELSE Effect(kernel, step, 1)[x]]
        <4> DEFINE k == Effect(kernel, step, 1)
        <4>1. \A x \in Res : k[x] = 1 => ~NoDevice(k, x)
          BY <2>0, <3>1, <3>4, EffectDevices DEF Answer
        <4>2. \A x \in Res : DevOf[x] # x => DevOf[x] \notin Stations
          BY DeviceAssumption DEF DeviceAssumption, Stations
        <4>3. k \in [Res -> {0, 1}] BY <2>0, <3>1, EffectFacts
        <4>4. kernel' = [x \in Res |-> IF x \in Stations THEN 0 ELSE k[x]] BY <3>4
        <4> HIDE DEF k
        <4> SUFFICES ASSUME NEW x \in Res, kernel'[x] = 1, DevOf[x] # x
                     PROVE  kernel'[DevOf[x]] # 0
          BY DEF NoDevice, DevicesOK
        <4>5. DevOf[x] \in Res BY ConstantsAssumption DEF ConstantsAssumption
        <4>6. k[x] = 1 BY <4>3, <4>4
        <4>7. k[DevOf[x]] # 0 BY Zenon, <4>1, <4>6 DEF NoDevice
        <4> QED BY <4>2, <4>4, <4>5, <4>7
      <3>5. \/ \E a \in Answers : Run(Verb(step), step, Value(step), a)
            \/ /\ Kind[step] = "release" /\ Answer(kernel, "set", step) = "ok"
               /\ kernel' = [x \in Res |-> IF x \in Stations THEN 0 ELSE Effect(kernel, step, 1)[x]]
        BY Zenon, <2>2 DEF RunDo
      <3> QED BY Zenon, <3>2, <3>3, <3>4, <3>5, RunFacts
    <2>3. CASE EngineStart
      <3>1. kernel' = kernel \/ kernel' = Effect(kernel, Tun, 1) BY <2>3 DEF EngineStart
      <3> QED BY Consts, <2>0, <2>1, <3>1 DEF NoDevice, DevicesOK
    <2>4. CASE Teardown BY Consts, <2>1, <2>4 DEF Teardown
    <2>5. CASE UndoOne
      <3>1. PICK e \in queue, a \in Answers : UndoOf(e, a) BY <2>5 DEF UndoOne
      <3>2. e.res \in Res /\ e.undo \in {0, 1} BY DEF TypeOK, Entry
      <3>3. \/ kernel' = kernel
            \/ kernel' = Effect(kernel, e.res, e.undo) /\ Answer(kernel, UndoVerb(e.res), e.res) = "ok"
        BY <3>1, RunFacts DEF UndoOf
      <3>4. Answer(kernel, UndoVerb(e.res), e.res) = "ok" => ~NoDevice(kernel, e.res) BY ZenonT(60) DEF Answer
      <3> QED BY <2>0, <2>1, <3>2, <3>3, <3>4 DEF DevicesOK
    <2>6. CASE Kill BY Consts, <2>1, <2>6 DEF Kill, Crash
    <2>7. CASE Reboot
      <3>1. kernel' = base BY <2>7 DEF Reboot, Crash
      <3> QED BY <2>0, <3>1, DeviceAssumption DEF DevicesOK, NoDevice, DeviceAssumption, TypeOK
    <2>8. CASE kernel' = kernel BY <2>0, <2>8 DEF DevicesOK
    <2>9. kernel' = kernel \/ RunDo \/ EngineStart \/ Teardown \/ UndoOne \/ Kill \/ Reboot
      BY Zenon DEF Next, vars, Boot, Recover, Refuse, Detect, Skip, Begin, Note, Applied, ApplyAgain,
             HoldFirewall, RewriteJournal
    <2> QED BY <2>2, <2>3, <2>4, <2>5, <2>6, <2>7, <2>8, <2>9
  \* The inverse of the command that runs is on disk (Begin before Run).
  <1>2. (InFlight /\ OthersInFlight)'
    <2> USE DEF IInv, InStep, disk, applying, sweep, ghosts, counters
    <2>1. CASE Begin
      <3> DEFINE new == [seq |-> seq + 1, res |-> step, undo |-> UndoValue(step), phase |-> "begin"]
      <3>1. step' = step /\ seq' = seq + 1 /\ pc = "apply" BY <2>1 DEF Begin, step
      <3>2. \A e \in journal : e.seq \in Nat /\ e.seq <= seq BY <3>1 DEF TypeOK, Entry, Numbered, Open
      <3>3. pc' = "run" => Write(journal \cup {new}) /\ (torn => step \in excused')
        BY <2>1 DEF Begin
      <3>4. pc' \in {"run", "applyfailed"} BY <2>1 DEF Begin
      <3>5. pc' = "run" => journal' = journal \/ journal' = journal \cup {new} BY <3>3 DEF Write
      <3>6. pc' = "run" => step \in excused' \/ new \in journal' BY <3>3 DEF Write
      <3>7. OthersInFlight' BY <3>1, <3>2, <3>4, <3>5 DEF OthersInFlight, TypeOK
      <3>8. InFlight' BY <3>1, <3>4, <3>6 DEF InFlight
      <3> QED BY <3>7, <3>8
    <2>2. CASE RunDo
      <3>1. pc = "run" /\ step' = step /\ seq' = seq /\ journal' = journal BY <2>2 DEF RunDo, step
      <3>2. excused \subseteq excused' /\ InFlight /\ OthersInFlight BY Zenon, Grows
      <3> HIDE DEF IInv
      <3> QED BY <3>1, <3>2 DEF InFlight, OthersInFlight
    <2>3. CASE UNCHANGED vars BY <2>3 DEF vars, InFlight, OthersInFlight, step
    <2>4. CASE ~InStep' BY <2>4 DEF InFlight, OthersInFlight
    <2>5. Begin \/ RunDo \/ UNCHANGED vars \/ ~InStep'
      BY Zenon DEF Next, Boot, Recover, Refuse, Detect, Skip, Note, EngineStart, Applied, ApplyAgain,
             Teardown, UndoOne, HoldFirewall, RewriteJournal, Kill, Reboot, Crash
    <2> QED BY <2>1, <2>2, <2>3, <2>4, <2>5
  \* replay looks at live entries only and keeps the ones that failed.
  <1>3. SweepOK'
    <2> USE DEF IInv, Sweeping, disk, applying, sweep, ghosts, counters
    <2>1. CASE Recover \/ Teardown BY <2>1 DEF Recover, Teardown, SweepOK
    <2>2. CASE UndoOne
      <3>1. PICK e \in queue, a \in Answers : UndoOf(e, a) BY <2>2 DEF UndoOne
      <3>2. pc' = pc BY <2>2 DEF UndoOne
      <3>3. \A x \in queue \cup kept : x \in journal /\ NeedsUndo(x) BY Zenon DEF SweepOK
      <3>4. CASE kept' = kept \cup {e} /\ failed' = TRUE /\ UNCHANGED disk
        BY Zenon, <2>2, <3>1, <3>2, <3>3, <3>4 DEF UndoOf, UndoOne, SweepOK
      <3>5. CASE RecordUndone(e) /\ UNCHANGED <<kept, failed>> /\ e \notin kept
        <4>1. journal' = journal \/ journal' = Phase(e.seq, "undone")
          BY Zenon, <3>5 DEF RecordUndone, Write, WriteFails
        <4>2. \A x \in queue' \cup kept' : x.seq # e.seq
          BY <3>1, <3>3, <3>5 DEF UndoOf, Numbered
        <4>3. queue' \cup kept' \subseteq journal'
          BY <3>1, <3>3, <3>5, <4>1, <4>2, PhaseForth DEF UndoOf, TypeOK
        <4> QED BY <2>2, <3>1, <3>2, <3>3, <3>5, <4>3 DEF UndoOf, UndoOne, SweepOK
      <3>6. e \notin kept BY DEF SweepOK
      <3> QED BY Zenon, <3>1, <3>4, <3>5, <3>6 DEF UndoOf
    <2>3. CASE HoldFirewall BY <2>3 DEF HoldFirewall, SweepOK
    <2>4. CASE RewriteJournal \/ Kill \/ Reboot
      BY ZenonT(60), <2>4 DEF RewriteJournal, Kill, Reboot, Crash, SweepOK
    <2>5. CASE Begin
      <3>1. pc = "apply" /\ pc' \in {"run", "applyfailed"} /\ queue' = queue /\ kept' = kept /\ failed' = failed
        BY <2>5 DEF Begin
      <3> QED BY <3>1 DEF SweepOK
    <2>6. CASE Note
      <3>1. pc = "note" /\ pc' \in {"apply", "applyfailed"} /\ queue' = queue /\ kept' = kept /\ failed' = failed
        BY <2>6 DEF Note
      <3> QED BY <3>1 DEF SweepOK
    <2>7. ASSUME NEW p \in Plans, Detect(p) PROVE SweepOK' BY Zenon, <2>7 DEF Detect, SweepOK
    <2>8. CASE Boot \/ Refuse \/ Skip \/ RunDo \/ EngineStart \/ Applied \/ ApplyAgain
      BY Zenon, <2>8 DEF Boot, Refuse, Skip, RunDo, EngineStart, Applied, ApplyAgain, SweepOK
    <2>9. CASE UNCHANGED vars BY Zenon, <2>9 DEF vars, SweepOK
    <2> QED BY <2>1, <2>2, <2>3, <2>4, <2>5, <2>6, <2>7, <2>8, <2>9 DEF Next
  \* The answer Apply records is what happened to the kernel.
  <1>4. Landed'
    <2> USE DEF IInv, Landed, disk, applying, sweep, ghosts, counters
    <2>1. CASE RunDo
      <3>1. step' = step /\ step \in Res /\ Value(step) \in {0, 1}
          BY ZenonT(60), <2>1, StepType DEF RunDo, step, InStep, Value
      <3>2. ASSUME NEW a \in Answers, answer' = a, Run(Verb(step), step, Value(step), a) PROVE Landed'
        <4>1. a = "ok" => kernel'[step] = Value(step)
          <5>1. kernel \in [Res -> {0, 1}] BY Zenon DEF TypeOK
          <5>2. a = "ok" => kernel' = Effect(kernel, step, Value(step)) BY Zenon, <3>2, RunFacts
          <5> HIDE DEF IInv
          <5> QED BY <3>1, <5>1, <5>2, EffectFacts
        <4>2. a = "exists" => Verb(step) = "add" BY <3>2, RunFacts DEF Answer
        <4> QED BY ZenonT(60), <3>1, <3>2, <4>1, <4>2
      <3>3. ASSUME Kind[step] = "release", answer' = "ok",
                   kernel' = [x \in Res |-> IF x \in Stations THEN 0 ELSE Effect(kernel, step, 1)[x]]
            PROVE  Landed'
        BY <3>1, <3>3, EffectFacts DEF Stations, TypeOK, Value
      <3> QED BY ZenonT(60), <2>1, <3>2, <3>3 DEF RunDo
    <2>2. CASE UNCHANGED vars BY Zenon, <2>2 DEF vars, step
    <2>3. CASE pc' # "note" BY Zenon, <2>3
    <2>4. RunDo \/ UNCHANGED vars \/ pc' # "note"
      BY Zenon DEF Next, Boot, Recover, Refuse, Detect, Skip, Begin, Note, EngineStart, Applied, ApplyAgain,
             Teardown, UndoOne, HoldFirewall, RewriteJournal, Kill, Reboot, Crash
    <2> QED BY <2>1, <2>2, <2>3, <2>4
  \* Station addresses and released interfaces are undone to what was found.
  <1>5. Facts'
    <2> USE DEF IInv, disk, applying, sweep, ghosts, counters
    <2>1. ASSUME ~InStep, base' = base, excused \subseteq excused', facts' = kernel PROVE Facts'
      <3> SUFFICES ASSUME NEW r \in Res \ excused', Kind[r] \in {"station", "release"},
                          facts'[r] = 1 - Value(r)
                   PROVE  base[r] = 1 - Value(r)
        BY <2>1 DEF Facts, Value
      <3>1. r \in Reversible \ excused BY <2>1 DEF Reversible, HasInverse
      <3> QED BY <2>1, <3>1, Direction DEF Changed
    <2>2. CASE facts' = kernel /\ ~InStep BY <2>1, <2>2, Grows
    <2>3. CASE facts' = facts /\ (Applying' => Applying) BY <2>3, Grows DEF Facts
    <2>4. CASE ~Applying' BY ZenonT(60), <2>4 DEF Facts
    <2>5. \/ facts' = kernel /\ ~InStep
          \/ facts' = facts /\ (Applying' => Applying)
          \/ ~Applying'
      BY ZenonT(60) DEF Applying, InStep, Next, vars, Boot, Recover, Refuse, Detect, Skip, Begin, RunDo, Note,
         EngineStart,
             Applied, ApplyAgain, Teardown, UndoOne, HoldFirewall, RewriteJournal, Kill, Reboot, Crash
    <2> QED BY <2>2, <2>3, <2>4, <2>5
  <1> QED BY <1>1, <1>2, <1>3, <1>4, <1>5

\* A step keeps every change covered by an inverse that leads back.
LEMMA CoverKept == ASSUME IInv, [Next]_vars PROVE Covered' /\ HonestInverse'
  \* Every change keeps a live inverse, and a sweep forgets none that failed.
  <1>1. Covered'
    <2> USE DEF IInv, disk, applying, sweep, ghosts, counters
    <2>0. base' = base /\ excused \subseteq excused' BY Grows
    <2> SUFFICES ASSUME NEW r \in Reversible \ excused', kernel'[r] # base[r]
                 PROVE  \E e \in journal' : /\ e.res = r /\ NeedsUndo(e)
                                            /\ (pc' = "run" \/ Retracting') => e.seq # seq'
                                            /\ Sweeping' => e \in queue' \cup kept'
      BY ZenonT(60), <2>0 DEF Covered, Changed
    <2>1. r \in Res /\ r # Tun /\ HasInverse(r) /\ r \notin excused
        BY ZenonT(60), Consts, <2>0 DEF Reversible, HasInverse
    <2>2. kernel[r] = kernel'[r] =>
              \E e \in journal : /\ e.res = r /\ NeedsUndo(e)
                                 /\ (pc = "run" \/ Retracting) => e.seq # seq
                                 /\ Sweeping => e \in queue \cup kept
      BY Zenon, <2>1 DEF Covered, Changed
    <2>3. CASE Begin
      <3>1. pc = "apply" /\ kernel' = kernel /\ seq' = seq + 1 /\ pc' \in {"run", "applyfailed"}
          BY ZenonT(60), <2>3 DEF Begin
      <3>2. PICK e \in journal : e.res = r /\ NeedsUndo(e) BY <2>2, <3>1
      <3>3. e.seq # seq' BY <3>1, <3>2 DEF Numbered, Open, TypeOK, Entry
      <3>4. e \in journal' BY ZenonT(60), <2>3, JournalStep DEF Begin, Note, UndoOne, RewriteJournal
      <3> QED BY <3>1, <3>2, <3>3, <3>4 DEF Sweeping
    <2>4. CASE RunDo
      <3>1. pc = "run" /\ pc' = "note" /\ seq' = seq /\ journal' = journal BY ZenonT(60), <2>4 DEF RunDo
      <3>2. CASE kernel'[r] = kernel[r]
        <4>1. PICK e \in journal : e.res = r /\ NeedsUndo(e) /\ e.seq # seq BY <2>2, <3>1, <3>2
        <4> QED BY Zenon, <3>1, <4>1 DEF Sweeping
      <3>3. CASE kernel'[r] # kernel[r]
        <4>1. r = step /\ step' = step /\ answer' \in {"ok", "other"}
            BY <2>0, <2>1, <2>4, <3>3, RunDoKernel
        <4>2. PICK e \in journal : e.seq = seq /\ e.res = step /\ e.phase = "begin"
          BY <2>1, <3>1, <4>1 DEF InFlight, InStep
        <4>3. ~Retracting' BY Zenon, <3>1, <4>1 DEF Retracting, Outcome
        <4> QED BY <2>1, <3>1, <4>1, <4>2, <4>3 DEF Sweeping, NeedsUndo
      <3> QED BY ZenonT(60), <3>2, <3>3
    <2>5. CASE Note
      <3>1. /\ pc = "note" /\ pc' \in {"apply", "applyfailed"} /\ kernel' = kernel /\ seq' = seq
            /\ ~Sweeping' /\ ~Retracting'
        BY ZenonT(60), <2>5 DEF Note, Sweeping, Retracting
      <3>2. PICK e \in journal : e.res = r /\ NeedsUndo(e) /\ (Retracting => e.seq # seq) BY ZenonT(60), <2>2, <3>1
      <3>3. CASE e \in journal' BY ZenonT(60), <3>1, <3>2, <3>3
      <3>4. CASE e \notin journal'
        <4>1. journal' = Phase(seq, Outcome(step, answer))
          BY ZenonT(60), <2>5, <3>4, JournalStep DEF Note, Begin, UndoOne, RewriteJournal
        <4>2. e.seq = seq BY Zenon, <3>4, <4>1, PhaseForth DEF TypeOK
        <4>3. Outcome(step, answer) \in {"done", "failed"}
            BY Zenon, <3>1, <3>2, <4>2 DEF Outcome, Retracting
        <4>4. PICK x \in journal' : x.res = e.res /\ x.phase = Outcome(step, answer)
          BY <4>1, <4>2, PhaseForth DEF TypeOK
        <4> QED BY <2>1, <3>1, <3>2, <4>3, <4>4 DEF NeedsUndo
      <3> QED BY <3>3, <3>4
    <2>6. CASE Teardown
      <3>1. /\ pc \in {"running", "applyfailed"} /\ pc' = "teardown" /\ journal' = journal
            /\ kernel' = Effect(kernel, Tun, 0) /\ queue' = {e \in journal : NeedsUndo(e)}
        BY Zenon, <2>6 DEF Teardown
      <3>2. kernel'[r] = kernel[r] BY Zenon, <2>1, <3>1, EngineGone
      <3>3. PICK e \in journal : e.res = r /\ NeedsUndo(e) BY Zenon, <2>2, <3>2
      <3> QED BY Zenon, <3>1, <3>3 DEF Retracting
    <2>7. CASE UndoOne
      <3>1. Sweeping /\ pc' = pc /\ ~Retracting' BY Zenon, <2>7 DEF UndoOne, Sweeping, Retracting
      <3>2. PICK e \in queue, a \in Answers : UndoOf(e, a) BY ZenonT(60), <2>7 DEF UndoOne
      <3>3. e \in journal /\ NeedsUndo(e) BY Zenon DEF SweepOK
      <3>4. CASE e.res = r /\ e.undo = base[r]
        <4>1. kept' = kept \cup {e} /\ journal' = journal BY Zenon, <2>1, <3>1, <3>2, <3>4, UndoKernel
        <4> QED BY Zenon, <3>1, <3>3, <3>4, <4>1 DEF Sweeping
      <3>6. CASE e.res = r /\ e.undo # base[r]
        <4>1. PICK x \in queue : Beneath(x, e) BY Zenon, <2>1, <3>1, <3>6 DEF SweepHonest
        <4>2. x \in journal /\ NeedsUndo(x) /\ x.res = r /\ x.seq # e.seq
          BY <3>3, <3>6, <4>1 DEF SweepOK, Beneath, TypeOK, Entry
        <4>3. x \in queue' BY <3>2, <4>2 DEF UndoOf
        <4>4. journal' = journal \/ journal' = Phase(e.seq, "undone")
          BY ZenonT(60), <3>2 DEF UndoOf, RecordUndone, Write, WriteFails
        <4>5. x \in journal'
          <5>1. journal \subseteq Entry BY Zenon DEF TypeOK
          <5> HIDE DEF IInv
          <5>2. x \in Phase(e.seq, "undone") BY Zenon, <4>2, <5>1, PhaseForth
          <5> QED BY Zenon, <4>2, <4>4, <5>2
        <4> QED BY Zenon, <3>1, <4>2, <4>3, <4>5 DEF Sweeping
      <3>5. CASE e.res # r
        <4>1. kernel'[r] = kernel[r] BY ZenonT(60), <2>1, <3>1, <3>2, <3>5, UndoKernel
        <4>2. PICK x \in journal : x.res = r /\ NeedsUndo(x) /\ x \in queue \cup kept
            BY <2>2, <3>1, <4>1
        <4>3. x.seq # e.seq BY <3>3, <3>5, <4>2 DEF Numbered
        <4>4. x \in journal' /\ x \in queue' \cup kept'
          <5>1. x \in queue' \cup kept' BY ZenonT(60), <3>2, <3>5, <4>2 DEF UndoOf
          <5>2. journal' = journal \/ journal' = Phase(e.seq, "undone")
            BY ZenonT(60), <3>2 DEF UndoOf, RecordUndone, Write, WriteFails
          <5> QED BY Zenon, <4>2, <4>3, <5>1, <5>2, PhaseForth DEF TypeOK
        <4> QED BY <3>1, <4>2, <4>4 DEF Sweeping
      <3> QED BY Zenon, <3>4, <3>5, <3>6
    <2>8. CASE RewriteJournal
      <3>1. /\ Sweeping /\ ~Sweeping' /\ pc' # "run" /\ ~Retracting' /\ kernel' = kernel /\ queue = {}
            /\ journal' = journal \/ journal' = Rewritten
        BY ZenonT(60), <2>8 DEF RewriteJournal, Sweeping, Retracting
      <3>2. PICK x \in journal : x.res = r /\ NeedsUndo(x) /\ x \in kept BY <2>2, <3>1
      <3>3. \E e \in Rewritten : e.res = r /\ e.phase = "begin" BY <3>2, RewriteFacts DEF TypeOK
      <3> QED BY ZenonT(60), <2>1, <3>1, <3>2, <3>3 DEF NeedsUndo
    <2>9. CASE Kill \/ Reboot
      <3>1. /\ pc' = "off" /\ journal' = journal
            /\ kernel' = base \/ kernel' = Effect(kernel, Tun, 0)
        BY Zenon, <2>9 DEF Kill, Reboot, Crash
      <3>2. kernel'[r] = kernel[r] BY <2>1, <3>1, EngineGone
      <3> QED BY Zenon, <2>2, <3>1, <3>2 DEF Sweeping, Retracting
    <2>10. CASE EngineStart
      <3>1. /\ pc = "apply" /\ pc' \in {"apply", "applyfailed"} /\ journal' = journal
            /\ kernel' = kernel \/ kernel' = Effect(kernel, Tun, 1)
        BY Zenon, <2>10 DEF EngineStart
      <3>2. Effect(kernel, Tun, 1)[r] = kernel[r] BY <2>1 DEF Effect
      <3>3. kernel'[r] = kernel[r] BY <3>1, <3>2
      <3> QED BY ZenonT(60), <2>2, <3>1, <3>3 DEF Sweeping, Retracting
    <2>11. CASE Recover
      BY Zenon, <2>2, <2>11 DEF Recover, Sweeping, Retracting
    <2>12. CASE HoldFirewall
      <3>1. /\ Sweeping /\ pc' = pc /\ kernel' = kernel /\ journal' = journal /\ ~Retracting'
            /\ queue' \cup kept' = queue \cup kept
        BY Zenon, <2>12 DEF HoldFirewall, Sweeping, Retracting
      <3> QED BY <2>2, <3>1 DEF Sweeping
    <2>13. CASE Boot \/ Refuse \/ Skip \/ Applied \/ ApplyAgain \/ \E p \in Plans : Detect(p)
      <3>1. kernel' = kernel /\ journal' = journal /\ pc' \notin {"run", "note", "teardown", "recover"}
        BY Zenon, <2>13 DEF Boot, Refuse, Skip, Applied, ApplyAgain, Detect
      <3> QED BY <2>2, <3>1 DEF Sweeping, Retracting
    <2>14. CASE UNCHANGED vars
      BY ZenonT(60), <2>2, <2>14 DEF vars, Sweeping, Retracting, Idle, step
    <2> QED BY Zenon, <2>3, <2>4, <2>5, <2>6, <2>7, <2>8, <2>9, <2>10, <2>11, <2>12, <2>13, <2>14 DEF Next
  \* Every live inverse keeps leading back to the machine as it was found.
  <1>2. HonestInverse'
    <2> USE DEF IInv, disk, applying, sweep, ghosts, counters
    <2>0. base' = base /\ excused \subseteq excused' /\ misread \subseteq misread' BY Grows
    <2> SUFFICES ASSUME NEW e \in journal', NeedsUndo(e), e.res \notin excused', e.undo # base[e.res],
                        ~(e.res \in misread' /\ \E x \in journal' : Beneath(x, e))
                 PROVE  \/ pc' = "run" /\ e.seq = seq' /\ Idle(step)'
                        \/ pc' = "note" /\ e.seq = seq' /\ Outcome(step, answer)' = "preexisting"
      BY ZenonT(60), <2>0 DEF HonestInverse, Beneath
    <2>1. ASSUME NEW d \in journal, NeedsUndo(d), d.seq = e.seq, d.res = e.res, d.undo = e.undo,
                 journal' # Rewritten \/ ~RewriteJournal
          PROVE  /\ d.seq = seq
                 /\ \/ pc = "run" /\ Idle(step)
                    \/ pc = "note" /\ Outcome(step, answer) = "preexisting"
      <3> SUFFICES ASSUME d.res \in misread, NEW x \in journal, Beneath(x, d) PROVE FALSE
        BY Zenon, <2>0, <2>1 DEF HonestInverse
      <3>1. /\ NeedsUndo(x) /\ x.res = e.res /\ x.seq < e.seq /\ x.undo = base[e.res]
            /\ Kind[x.res] = "sysctl" /\ e.res \in misread'
        BY Zenon, <2>0, <2>1 DEF Beneath, Gaps
      <3>2. ASSUME NEW y \in journal', NeedsUndo(y), y.res = x.res, y.seq = x.seq, y.undo = x.undo PROVE FALSE
        BY Zenon, <3>1, <3>2 DEF Beneath
      <3>3. CASE ~Sweeping BY Zenon, <3>1, <3>2, <3>3, BackStays
      <3>4. CASE journal' = journal BY Zenon, <3>1, <3>2, <3>4
      <3>5. CASE Sweeping /\ journal' # journal
        <4>1. UndoOne
          BY ZenonT(60), <2>1, <3>5, JournalStep DEF Sweeping, Begin, Note
        <4>2. PICK u \in queue, a \in Answers :
                  /\ UndoOf(u, a)
                  /\ excused' = IF kept' = kept /\ Outlived(u) THEN excused \cup {u.res} ELSE excused
          BY Zenon, <4>1 DEF UndoOne
        <4>3. pc = "teardown" /\ kept' = kept /\ journal' = Phase(u.seq, "undone")
          BY Zenon, <3>5, <4>2 DEF UndoOf, RecordUndone, Write, WriteFails
        <4>4. x.seq = u.seq
          <5>1. journal \subseteq Entry BY Zenon DEF TypeOK
          <5> HIDE DEF IInv
          <5>2. x.seq # u.seq => x \in journal' BY Zenon, <4>3, <5>1, PhaseForth
          <5> QED BY Zenon, <3>1, <3>2, <5>2
        <4>5. u \in journal BY Zenon DEF SweepOK
        <4>6. x = u BY Zenon, <4>4, <4>5 DEF Numbered
        <4>7. d \in Left BY Zenon, <2>1, <4>3 DEF Left
        <4>8. d.seq > u.seq BY <2>1, <3>1, <4>6, <4>5 DEF TypeOK, Entry
        <4>9. Outlived(u) BY Zenon, <2>1, <3>1, <4>6, <4>7, <4>8 DEF Outlived
        <4> QED BY Zenon, <3>1, <4>2, <4>3, <4>6, <4>9
      <3> QED BY Zenon, <3>3, <3>4, <3>5
    <2>11. ASSUME NEW d \in journal, d.seq = seq, d.res = e.res, d.undo = e.undo, Retracting
           PROVE  d.res = step /\ Undue(step)
      <3>1. d.res = step /\ InStep BY Zenon, <2>11 DEF OthersInFlight, InStep, Retracting
      <3>2. Verb(step) \in {"add", "del"}
        BY <2>11, <3>1 DEF Retracting, Idle, Outcome, Answer, Landed
      <3>3. Kind[step] # "sysctl" BY <3>2 DEF Verb
      <3>4. UndoValue(step) = e.undo BY Zenon, <2>11, <3>1, <3>3 DEF Shaped, UndoValue
      <3> QED BY Zenon, <2>11, <3>1, <3>4 DEF Undue
    <2>2. CASE Begin
      <3> DEFINE new == [seq |-> seq + 1, res |-> step, undo |-> UndoValue(step), phase |-> "begin"]
      <3>1. /\ pc = "apply" /\ More /\ step # Tun /\ ~Skippable(step) /\ seq' = seq + 1
            /\ kernel' = kernel /\ step' = step
        BY ZenonT(60), <2>2 DEF Begin, step
      <3>2. e = new /\ journal \subseteq journal'
        <4>1. e \notin journal BY Zenon, <2>1, <3>1, <2>2 DEF RewriteJournal
        <4> QED BY Zenon, <3>1, <4>1, <2>2, JournalStep DEF Begin, Note, UndoOne, RewriteJournal
      <3>3. step \notin excused' /\ UndoValue(step) # base[step] /\ HasInverse(step)
        BY <3>2 DEF NeedsUndo
      <3>7. ~(step \in misread /\ Backed(step))
        <4> SUFFICES ASSUME step \in misread, NEW x \in journal, NeedsUndo(x), x.res = step, x.undo = base[step]
                     PROVE  FALSE
          BY Zenon DEF Backed
        <4>1. x.seq < e.seq /\ e.res = step
          <5>1. x.seq \in Nat /\ x.seq <= seq /\ seq \in Nat BY Zenon, <3>1 DEF Numbered, Open, TypeOK, Entry
          <5> HIDE DEF IInv
          <5> QED BY <3>2, <5>1
        <4> QED BY Zenon, <2>0, <3>2, <4>1 DEF Beneath
      <3>4. Idle(step) BY ZenonT(60), <2>0, <3>1, <3>3, <3>7, BeginHonest
      <3>5. pc' = "run" BY ZenonT(60), <2>2, <3>3, <3>4 DEF Begin, Undue
      <3>6. Idle(step)' BY ZenonT(60), <3>1, <3>4 DEF Idle
      <3> QED BY <3>1, <3>2, <3>5, <3>6
    <2>3. CASE RunDo
      <3>1. pc = "run" /\ pc' = "note" /\ journal' = journal /\ seq' = seq /\ step' = step
        BY ZenonT(60), <2>3 DEF RunDo, step
      <3>2. e.seq = seq /\ Idle(step) BY ZenonT(60), <2>1, <2>3, <3>1 DEF RunDo, RewriteJournal
      <3>3. e.res = step /\ Undue(step) BY Zenon, <2>11, <3>1, <3>2 DEF Retracting
      <3>4. Kind[step] # "release" BY <3>2 DEF Idle, Outcome, Answer, Verb
      <3>5. answer' = Answer(kernel, Verb(step), step)
        BY ZenonT(60), <2>3, <3>2, <3>3, <3>4, RunFacts DEF RunDo
      <3> QED BY ZenonT(60), <3>1, <3>2, <3>5 DEF Idle
    <2>4. CASE Note
      <3>1. pc = "note" /\ torn = FALSE BY ZenonT(60), <2>4 DEF Note, PlanOK, InStep
      <3>2. CASE e \in journal
        <4>1. e.seq = seq /\ Outcome(step, answer) = "preexisting"
          BY Zenon, <2>1, <2>4, <3>1, <3>2 DEF RewriteJournal
        <4>2. e.res = step /\ Undue(step) BY ZenonT(60), <2>11, <3>1, <3>2, <4>1 DEF Retracting
        <4>3. Write(Phase(seq, "preexisting")) BY Zenon, <2>4, <4>1, <4>2 DEF Note
        <4>4. e \in Phase(seq, "preexisting") BY Zenon, <3>1, <4>3 DEF Write
        <4>5. e.phase = "preexisting"
          <5>1. journal \subseteq Entry BY Zenon DEF TypeOK
          <5>2. MarkOnly(seq, "preexisting") BY Zenon, <5>1, PhaseBack
          <5> QED BY Zenon, <4>1, <4>4, <5>2 DEF MarkOnly
        <4> QED BY ZenonT(60), <4>5 DEF NeedsUndo
      <3>3. CASE e \notin journal
        <4>1. journal' = Phase(seq, Outcome(step, answer))
          BY ZenonT(60), <2>4, <3>3, JournalStep DEF Note, Begin, UndoOne, RewriteJournal
        <4>2. PICK x \in journal : /\ e.seq = x.seq /\ e.res = x.res /\ e.undo = x.undo
                                   /\ (x.seq # seq => e = x)
                                   /\ (x.seq = seq => e.phase = Outcome(step, answer))
          <5>1. journal \subseteq Entry BY Zenon DEF TypeOK
          <5> HIDE DEF IInv
          <5>2. MarkOnly(seq, Outcome(step, answer)) BY Zenon, <5>1, PhaseBack
          <5> QED BY Zenon, <4>1, <5>2 DEF MarkOnly
        <4>3. x.seq = seq /\ Outcome(step, answer) # "preexisting" BY ZenonT(60), <3>3, <4>2 DEF NeedsUndo
        <4>4. x.res = step BY ZenonT(60), <3>1, <4>3 DEF OthersInFlight, InStep
        <4>5. x.phase = "begin" BY Zenon, <2>0, <3>1, <4>2, <4>3, <4>4 DEF InFlight, InStep, Numbered
        <4>6. NeedsUndo(x) BY Zenon, <4>2, <4>5 DEF NeedsUndo
        <4> QED BY Zenon, <2>1, <2>4, <3>1, <4>2, <4>3, <4>6 DEF RewriteJournal
      <3> QED BY ZenonT(60), <3>2, <3>3
    <2>5. CASE UndoOne
      <3>1. pc \in {"teardown", "recover"} /\ ~RewriteJournal
        BY Zenon, <2>5 DEF UndoOne, RewriteJournal
      <3>2. e \in journal
        <4>1. ASSUME NEW x \in queue, journal' = Phase(x.seq, "undone") PROVE e \in journal
          <5>1. PICK y \in journal : /\ y.seq # x.seq => e = y
                                     /\ y.seq = x.seq => e.phase = "undone"
            <6>1. journal \subseteq Entry BY Zenon DEF TypeOK
            <6> HIDE DEF IInv
            <6>2. e \in Phase(x.seq, "undone") BY Zenon, <4>1
            <6>3. MarkOnly(x.seq, "undone") BY Zenon, <6>1, PhaseBack
            <6> QED BY Zenon, <6>2, <6>3 DEF MarkOnly
          <5>2. e.phase # "undone" BY Zenon DEF NeedsUndo
          <5> QED BY ZenonT(60), <5>1, <5>2
        <4> QED BY ZenonT(60), <2>5, <4>1, JournalStep DEF UndoOne, Begin, Note, RewriteJournal
      <3> QED BY ZenonT(60), <2>1, <3>1, <3>2
    <2>6. CASE RewriteJournal
      <3>1. pc \in {"teardown", "recover"} BY Zenon, <2>6 DEF RewriteJournal
      <3>2. \A x \in kept : x \in journal /\ NeedsUndo(x) BY Zenon DEF SweepOK
      <3>3. CASE journal' # Rewritten
        <4>1. e \in journal BY Zenon, <2>6, <3>3 DEF RewriteJournal
        <4> QED BY Zenon, <2>1, <3>1, <3>3, <4>1
      <3>4. CASE journal' = Rewritten
        <4>1. kept \subseteq Entry /\ queue = {} /\ Sweeping BY Zenon, <2>6 DEF TypeOK, RewriteJournal, Sweeping
        <4>2. PICK d \in kept : d.seq = e.seq /\ d.res = e.res /\ d.undo = e.undo
          <5> HIDE DEF IInv
          <5> QED BY Zenon, <3>4, <4>1, RewriteFacts
        <4>3. PICK x \in kept : Beneath(x, d) /\ d.res \in misread
          <5>1. d.res \notin excused /\ d.undo # base[d.res] BY Zenon, <2>0, <4>2
          <5>2. \E x \in queue \cup kept : Beneath(x, d) /\ d.res \in misread
            BY Zenon, <4>1, <5>1 DEF SweepHonest
          <5> HIDE DEF IInv
          <5> QED BY Zenon, <4>1, <5>2
        <4>4. PICK y \in journal' : y.seq = x.seq /\ y.res = x.res /\ y.undo = x.undo /\ y.phase = "begin"
          <5> HIDE DEF IInv
          <5> QED BY Zenon, <3>4, <4>1, RewriteFacts
        <4>5. NeedsUndo(y) BY <4>3, <4>4 DEF NeedsUndo, Beneath
        <4>6. Beneath(y, e) BY Zenon, <4>2, <4>3, <4>4, <4>5 DEF Beneath
        <4> QED BY Zenon, <2>0, <4>2, <4>3, <4>6
      <3> QED BY Zenon, <3>3, <3>4
    <2>7. CASE Kill \/ Reboot
      <3>1. journal' = journal /\ pc' = "off" BY Zenon, <2>7 DEF Kill, Reboot, Crash
      <3>2. e.seq = seq /\ Retracting BY Zenon, <2>1, <3>1, <2>7 DEF Retracting, RewriteJournal, Kill, Reboot, Crash
      <3>3. e.res = step /\ Undue(step) BY Zenon, <2>11, <3>1, <3>2
      <3>4. step \in excused' BY ZenonT(60), <2>7, <3>2, <3>3 DEF Retracting, Kill, Reboot, Crash
      <3> QED BY Zenon, <3>3, <3>4
    <2>8. CASE UNCHANGED vars BY ZenonT(60), <2>8 DEF vars, step, Idle, HonestInverse
    <2>9. CASE journal' = journal /\ pc \notin {"run", "note"} /\ ~RewriteJournal
      BY ZenonT(60), <2>1, <2>9
    <2>10. \/ journal' = journal /\ pc \notin {"run", "note"} /\ ~RewriteJournal
           \/ Begin \/ RunDo \/ Note \/ UndoOne \/ RewriteJournal \/ Kill \/ Reboot \/ UNCHANGED vars
      BY Zenon DEF Next, Boot, Recover, Refuse, Detect, Skip, EngineStart, Applied, ApplyAgain, Teardown,
         HoldFirewall
    <2> QED BY ZenonT(60), <2>2, <2>3, <2>4, <2>5, <2>6, <2>7, <2>8, <2>9, <2>10
  <1> QED BY <1>1, <1>2

\* A step keeps the firewall in place while anything is exposed.
LEMMA GuardKept == ASSUME IInv, [Next]_vars PROVE Guarded' /\ Knobs' /\ FailClosed'
  \* The table is in the kernel before the second step of a plan.
  <1>1. Guarded'
    <2> USE DEF IInv, disk, applying, sweep, ghosts, counters
    <2>1. ASSUME NEW p \in Plans, Detect(p) PROVE Guarded'
      <3>1. at' = 1 /\ pc' = "apply" /\ journal' = journal /\ \A e \in journal : e.phase = "begin"
        BY Zenon, <2>1 DEF Detect, CleanStart
      <3> QED BY ZenonT(60), <3>1 DEF Guarded, Applying, InForce
    <2>2. CASE Skip
      <3>1. /\ pc = "apply" /\ pc' = "apply" /\ at' = at + 1 /\ kernel' = kernel /\ journal' = journal
            /\ More /\ Skippable(step)
        BY Zenon, <2>2 DEF Skip
      <3>2. at = 1 => InForce(Nft)
        BY Consts, <3>1, FirstIsNft DEF Skippable, Planned, Applying
      <3> QED BY <3>1, <3>2 DEF Guarded, Applying, Open, InForce, TypeOK
    <2>3. CASE Begin
      <3>1. pc = "apply" /\ pc' \in {"run", "applyfailed"} /\ at' = at /\ kernel' = kernel
          BY <2>3 DEF Begin
      <3>2. \A e \in journal' : e \in journal \/ e.phase = "begin"
        <4> DEFINE new == [seq |-> seq', res |-> step, undo |-> UndoValue(step), phase |-> "begin"]
        <4>1. journal' = journal \/ journal' = journal \cup {new} BY ZenonT(60), <2>3 DEF Begin, Write, WriteFails
        <4>2. new.phase = "begin" OBVIOUS
        <4> HIDE DEF new
        <4> QED BY <4>1, <4>2
      <3>3. InForce(Nft)' => InForce(Nft) BY <3>2 DEF InForce
      <3> QED BY <3>1, <3>3 DEF Guarded, Applying, Open
    <2>4. CASE RunDo
      <3>1. pc = "run" /\ pc' = "note" /\ at' = at /\ journal' = journal BY Zenon, <2>4 DEF RunDo
      <3>2. kernel[Nft] = 1 => kernel'[Nft] = 1 BY Consts, <2>4, RunDoKernel DEF Value
      <3> QED BY <3>1, <3>2 DEF Guarded, Applying, Open, InForce
    <2>5. CASE Note
      <3>1. /\ pc = "note" /\ kernel' = kernel /\ pc' \in {"apply", "applyfailed"}
            /\ pc' = "apply" => Outcome(step, answer) # "failed"
        BY <2>5 DEF Note
      <3>2. More BY <3>1 DEF PlanOK, InStep, More
      <3>3. at = 1 /\ pc' = "apply" => kernel[Nft] = 1
        BY Zenon, Consts, <3>1, <3>2, FirstIsNft DEF Applying, Landed, Outcome, Verb, Value
      <3>4. InForce(Nft)' => kernel[Nft] = 1
        <4> SUFFICES ASSUME NEW e \in journal', e.phase = "done", e.res = Nft PROVE kernel[Nft] = 1
          BY Zenon DEF InForce
        <4>1. CASE e \in journal BY <3>1, <4>1 DEF Guarded, Open, InForce
        <4>2. CASE e \notin journal
          <5>1. journal' = Phase(seq, Outcome(step, answer))
            BY Zenon, <2>5, <4>2, JournalStep DEF Note, Begin, UndoOne, RewriteJournal
          <5>2. PICK x \in journal : /\ e.res = x.res /\ (x.seq # seq => e = x)
                                     /\ (x.seq = seq => e.phase = Outcome(step, answer))
            BY <5>1, PhaseBack DEF MarkOnly, TypeOK
          <5>3. x.seq = seq BY <4>2, <5>2
          <5>4. step = Nft BY <3>1, <5>2, <5>3 DEF OthersInFlight, InStep
          <5>5. answer = "ok" BY <5>2, <5>3 DEF Outcome
          <5> QED BY Consts, <3>1, <5>4, <5>5 DEF Landed, Value
        <4> QED BY Zenon, <4>1, <4>2
      <3> QED BY <3>1, <3>3, <3>4 DEF Guarded, Applying, Open
    <2>6. CASE EngineStart
      <3>1. pc = "apply" /\ pc' \in {"apply", "applyfailed"} /\ More /\ step = Tun /\ journal' = journal
        BY <2>6 DEF EngineStart
      <3>2. Nft # Tun BY Consts
      <3>3. kernel[Nft] = 1 BY <3>1, <3>2, FirstIsNft DEF Guarded, Applying
      <3>4. kernel' = kernel \/ kernel' = Effect(kernel, Tun, 1) BY <2>6 DEF EngineStart
      <3>5. Effect(kernel, Tun, 1)[Nft] = kernel[Nft] BY Consts, <3>2 DEF Effect
      <3>6. kernel'[Nft] = 1 BY <3>3, <3>4, <3>5
      <3> QED BY <3>1, <3>6 DEF Guarded, Applying, Open
    <2>7. CASE Applied
      <3>1. pc = "apply" /\ ~More /\ pc' = "running" /\ kernel' = kernel /\ journal' = journal
          BY <2>7 DEF Applied
      <3>2. at # 1 BY <3>1, FirewallFirst DEF FirewallFirst, PlanOK, Open, More
      <3> QED BY <3>1, <3>2 DEF Guarded, Applying, Open, InForce
    <2>8. CASE ApplyAgain BY ZenonT(60), <2>8 DEF ApplyAgain, Guarded, Applying, Open, InForce
    <2>9. CASE UNCHANGED vars BY ZenonT(60), <2>9 DEF vars, Guarded, Applying, Open, InForce
    <2>10. CASE ~Open' BY <2>10 DEF Guarded, Applying, Open
    <2>11. CASE Boot \/ Recover \/ Refuse \/ Teardown \/ UndoOne \/ HoldFirewall \/ RewriteJournal \/ Kill \/ Reboot
      <3>1. ~Open'
        BY ZenonT(60), <2>11 DEF Boot, Recover, Refuse, Teardown, UndoOne, HoldFirewall, RewriteJournal, Kill,
           Reboot, Crash, Open
      <3> QED BY <2>10, <3>1
    <2> QED BY Zenon, <2>1, <2>2, <2>3, <2>4, <2>5, <2>6, <2>7, <2>8, <2>9, <2>11 DEF Next
  \* A knob read while changed is in force, or has a live inverse from an earlier start.
  <1>2. Knobs'
    <2> USE DEF IInv, disk, applying, sweep, ghosts, counters
    <2>0. base' = base /\ excused \subseteq excused' /\ misread \subseteq misread' BY Grows
    <2> SUFFICES ASSUME NEW r \in Res \ excused', Kind[r] = "sysctl"
                 PROVE  /\ Open' /\ kernel'[r] # base[r] => \/ InForce(r)' \/ r \in misread'
                                                            \/ pc' = "note" /\ step' = r
                        /\ Applying' => \/ facts'[r] = base[r] \/ InForce(r)'
                                        \/ r \in misread' /\ Backed(r)'
      BY ZenonT(60), <2>0 DEF Knobs, Changed
    <2>1. /\ Open /\ Changed(r) => InForce(r) \/ r \in misread' \/ (pc = "note" /\ step = r)
          /\ Applying => facts[r] = base[r] \/ InForce(r) \/ (r \in misread' /\ Backed(r))
          /\ r \notin excused
      BY Zenon, <2>0 DEF Knobs
    <2>2. r # Tun /\ r # Nft /\ HasInverse(r) /\ r \notin Stations /\ r \in Reversible \ excused
      BY Zenon, Consts, <2>1 DEF HasInverse, Stations, Reversible
    <2>14. ASSUME ~Sweeping, Backed(r) PROVE Backed(r)' BY Zenon, <2>0, <2>14, BackStays DEF Backed
    <2>15. ASSUME pc \in {"clean", "running"}, Changed(r) PROVE Backed(r)
      <3>1. PICK e \in journal : e.res = r /\ NeedsUndo(e) BY Zenon, <2>2, <2>15 DEF Covered
      <3>2. e.undo = base[r] \/ \E x \in journal : Beneath(x, e) BY Zenon, <2>1, <2>15, <3>1 DEF HonestInverse
      <3> QED BY Zenon, <3>1, <3>2 DEF Backed, Beneath
    <2>3. ASSUME NEW p \in Plans, Detect(p)
          PROVE  /\ pc = "clean" /\ kernel' = kernel /\ facts' = kernel /\ journal' = journal
                 /\ Changed(r) => r \in misread'
      <3>1. /\ pc = "clean" /\ kernel' = kernel /\ facts' = kernel /\ journal' = journal
            /\ misread' = misread \cup {x \in Res : Kind[x] = "sysctl" /\ kernel[x] # base[x]}
        BY Zenon, <2>3 DEF Detect
      <3> HIDE DEF IInv
      <3> QED BY <3>1 DEF Changed
    <2>4. CASE \E p \in Plans : Detect(p) BY Zenon, <2>0, <2>3, <2>4, <2>15 DEF Changed, Backed
    <2>5. CASE ApplyAgain
      <3>1. pc = "running" /\ kernel' = kernel /\ facts' = kernel /\ journal' = journal /\ pc' = "apply"
        BY Zenon, <2>5 DEF ApplyAgain
      <3>2. Backed(r) => Backed(r)' BY Zenon, <2>0, <3>1 DEF Backed
      <3> QED BY ZenonT(60), <2>1, <2>15, <3>1, <3>2 DEF Open, Applying, Changed, InForce
    <2>6. CASE Begin
      <3>1. /\ pc = "apply" /\ pc' \in {"run", "applyfailed"} /\ kernel' = kernel /\ facts' = facts
        BY <2>6 DEF Begin
      <3>2. journal \subseteq journal' BY Zenon, <2>6, JournalStep DEF Begin, Note, UndoOne, RewriteJournal
      <3>3. InForce(r) => InForce(r)' BY <3>2 DEF InForce
      <3> QED BY Zenon, <2>1, <2>14, <3>1, <3>3 DEF Open, Applying, Changed, Sweeping
    <2>7. CASE RunDo
      <3>1. pc = "run" /\ pc' = "note" /\ journal' = journal /\ facts' = facts BY ZenonT(60), <2>7 DEF RunDo
      <3>2. step' = step /\ (r # step => kernel'[r] = kernel[r] \/ kernel'[r] = base[r])
        BY ZenonT(60), <2>2, <2>7, RunDoKernel
      <3> QED BY ZenonT(60), <2>1, <2>14, <3>1, <3>2 DEF Open, Applying, Changed, InForce, Sweeping
    <2>8. CASE Note
      <3>1. /\ pc = "note" /\ pc' \in {"apply", "applyfailed"} /\ kernel' = kernel /\ facts' = facts
        BY ZenonT(60), <2>8 DEF Note
      <3>2. CASE pc' = "apply"
        <4>1. Write(Phase(seq, Outcome(step, answer))) /\ Outcome(step, answer) # "failed"
          BY Zenon, <2>8, <3>2 DEF Note
        <4>2. journal' = Phase(seq, Outcome(step, answer)) BY <3>1, <4>1 DEF Write, PlanOK, InStep
        <4>3. ASSUME InForce(r), step # r PROVE InForce(r)'
          <5>1. PICK e \in journal : e.phase = "done" /\ e.res = r BY Zenon, <4>3 DEF InForce
          <5>2. e.seq # seq BY Zenon, <3>1, <4>3, <5>1 DEF OthersInFlight, InStep
          <5> QED BY Zenon, <4>2, <5>1, <5>2, PhaseForth DEF InForce, TypeOK
        <4>4. ASSUME step = r PROVE InForce(r)'
          <5>1. PICK e \in journal : e.seq = seq /\ e.res = step
              BY Zenon, <2>1, <3>1, <4>4 DEF InFlight, InStep
          <5>2. Verb(r) = "set" BY DEF Verb
          <5>3. Outcome(step, answer) = "done" BY <3>1, <4>1, <4>4, <5>2 DEF Outcome, Landed
          <5>4. journal \subseteq Entry BY Zenon DEF TypeOK
          <5> HIDE DEF IInv
          <5>5. PICK x \in Phase(seq, "done") : x.res = e.res /\ x.phase = "done"
            <6>1. \A z \in journal : z.seq = seq => \E d \in Phase(seq, "done") :
                      d.seq = z.seq /\ d.res = z.res /\ d.undo = z.undo /\ d.phase = "done"
              BY <5>4, PhaseForth
            <6> QED BY Zenon, <5>1, <6>1
          <5> QED BY Zenon, <4>2, <4>4, <5>1, <5>3, <5>5 DEF InForce
        <4> QED BY ZenonT(60), <2>1, <2>14, <3>1, <3>2, <4>3, <4>4 DEF Open, Applying, Changed, Sweeping
      <3>3. CASE pc' = "applyfailed" BY Zenon, <3>3 DEF Open, Applying
      <3> QED BY Zenon, <3>1, <3>2, <3>3
    <2>9. CASE EngineStart
      <3>1. /\ pc = "apply" /\ journal' = journal /\ facts' = facts /\ pc' \in {"apply", "applyfailed"}
            /\ kernel' = kernel \/ kernel' = Effect(kernel, Tun, 1)
        BY <2>9 DEF EngineStart
      <3>2. kernel \in [Res -> {0, 1}] BY Zenon DEF TypeOK
      <3>3. Effect(kernel, Tun, 1)[r] = kernel[r]
        <4> HIDE DEF IInv
        <4> QED BY <2>2, <3>2 DEF Effect
      <3>4. kernel'[r] = kernel[r] BY Zenon, <3>1, <3>3
      <3> QED BY Zenon, <2>1, <2>14, <3>1, <3>4 DEF Open, Applying, Changed, InForce, Sweeping
    <2>10. CASE Skip \/ Applied
      BY Zenon, <2>1, <2>10, <2>14 DEF Skip, Applied, Open, Applying, Changed, InForce, Sweeping
    <2>11. CASE UNCHANGED vars
      BY ZenonT(60), <2>1, <2>11 DEF vars, Open, Applying, Changed, InForce, Backed, step
    <2>12. CASE ~Open' BY ZenonT(60), <2>12 DEF Open, Applying
    <2>13. Boot \/ Recover \/ Refuse \/ Teardown \/ UndoOne \/ HoldFirewall \/ RewriteJournal \/ Kill \/ Reboot => ~Open'
      BY ZenonT(60) DEF Boot, Recover, Refuse, Teardown, UndoOne, HoldFirewall, RewriteJournal, Kill, Reboot,
         Crash, Open
    <2> QED BY ZenonT(60), <2>4, <2>5, <2>6, <2>7, <2>8, <2>9, <2>10, <2>11, <2>12, <2>13 DEF Next
  \* Fail closed, step by step: the table is loaded before the first command that
  \* could expose, and goes only when the sweep before it has put everything back.
  <1>3. FailClosed'
    <2> USE DEF IInv, disk, applying, sweep, ghosts, counters
    <2>0. base' = base /\ misread \subseteq misread' BY Grows
    <2> SUFFICES ASSUME NEW r \in Exposing \ misread', kernel'[r] = 1, base[r] = 0
                 PROVE  kernel'[Nft] = 1
      BY Zenon, <2>0 DEF FailClosed
    <2>1. r \in Res /\ r # Nft /\ r # Tun /\ HasInverse(r) /\ r \notin excused \cup misread
      <3>1. r \in Res /\ Kind[r] \in {"sysctl", "iface", "addr"} /\ r \notin misread BY Zenon, Consts, <2>0
      <3>2. r \notin excused BY <3>1 DEF Gaps
      <3> QED BY Zenon, <3>1, <3>2, Consts DEF HasInverse
    <2>2. kernel[r] = 1 => kernel[Nft] = 1 BY Zenon, <2>1 DEF FailClosed
    <2>3. CASE RunDo
      <3>0. pc = "run" BY Zenon, <2>3 DEF RunDo
      <3>1. pc = "run" /\ More
        <4>1. at \in 1..Len(plan) BY Zenon, <3>0 DEF PlanOK, InStep
        <4> HIDE DEF IInv
        <4> QED BY <3>0, <4>1 DEF More
      <3>2. kernel[Nft] = 1 => kernel'[Nft] = 1 BY Zenon, Consts, <2>3, RunDoKernel DEF Value
      <3>3. CASE r = step BY Zenon, <2>1, <3>1, <3>2, <3>3, FirstIsNft DEF Guarded, Applying
      <3>4. CASE r # step
        <4>1. r \notin Stations BY Consts DEF Stations
        <4>2. kernel[r] = 1 BY <2>1, <2>3, <3>4, <4>1, RunDoKernel
        <4> QED BY <2>2, <3>2, <4>2
      <3> QED BY Zenon, <3>3, <3>4
    <2>4. CASE EngineStart
      <3>1. kernel' = kernel \/ kernel' = Effect(kernel, Tun, 1) BY <2>4 DEF EngineStart
      <3>2. Nft # Tun /\ kernel \in [Res -> {0, 1}] BY ZenonT(60), Consts DEF TypeOK
      <3>3. kernel'[r] = kernel[r] /\ kernel'[Nft] = kernel[Nft]
        <4>1. r \in Res /\ r # Tun /\ Nft \in Res /\ Tun \in Res BY Zenon, <2>1, Consts
        <4> HIDE DEF IInv
        <4> QED BY <3>1, <3>2, <4>1, EffectFacts
      <3> QED BY Zenon, <2>2, <3>3
    <2>5. CASE Teardown \/ Kill
      <3>1. kernel' = Effect(kernel, Tun, 0) BY Zenon, <2>5 DEF Teardown, Kill, Crash
      <3>2. Nft # Tun BY Zenon, Consts
      <3>3. kernel[r] = 1 /\ kernel'[Nft] = kernel[Nft] BY Consts, <2>1, <3>1, <3>2, EngineGone
      <3> QED BY Zenon, <2>2, <3>3
    <2>6. CASE Reboot BY <2>6 DEF Reboot, Crash
    <2>7. CASE UndoOne
      <3>1. Sweeping BY Zenon, <2>7 DEF UndoOne, Sweeping
      <3>2. PICK e \in queue, a \in Answers : UndoOf(e, a) BY <2>7 DEF UndoOne
      <3>3. e \in journal /\ NeedsUndo(e) /\ e.res \in Res BY DEF SweepOK, TypeOK, Entry
      <3>4. kernel[r] = 1
        <4> HIDE DEF IInv
        <4>1. CASE e.res = r BY <2>1, <3>1, <3>2, <4>1, UndoKernel
        <4>2. CASE e.res # r BY <2>1, <3>1, <3>2, <4>2, UndoKernel
        <4> QED BY Zenon, <4>1, <4>2
      <3>5. CASE e.res # Nft
        <4>1. kernel'[Nft] = kernel[Nft] BY Zenon, Consts, <3>1, <3>2, <3>5, UndoKernel
        <4> QED BY ZenonT(60), <2>2, <3>4, <4>1
      <3>6. CASE e.res = Nft
        <4>1. \A x \in queue : x.res = Nft BY ZenonT(60), <3>2, <3>6 DEF UndoOf, NextUp
        <4>2. kept = {} BY ZenonT(60), <3>2, <3>6 DEF UndoOf, SweepOK
        <4>3. PICK x \in journal : x.res = r /\ x \in queue \cup kept
          BY <2>1, <3>1, <3>4 DEF Covered, Changed, Reversible
        <4> QED BY <2>1, <4>1, <4>2, <4>3
      <3> QED BY <3>5, <3>6
    <2>8. kernel' = kernel \/ RunDo \/ EngineStart \/ Teardown \/ UndoOne \/ Kill \/ Reboot
      BY Zenon DEF Next, vars, Boot, Recover, Refuse, Detect, Skip, Begin, Note, Applied, ApplyAgain,
             HoldFirewall, RewriteJournal
    <2> QED BY ZenonT(60), <2>2, <2>3, <2>4, <2>5, <2>6, <2>7, <2>8
  <1> QED BY <1>1, <1>2, <1>3

\* A step opens a gap in the journal only where one is allowed for.
LEMMA GapsKept == ASSUME IInv, [Next]_vars PROVE SweepHonest' /\ Gaps' /\ TornOK'
  \* replay takes a knob's inverses newest first, so that one that does not lead back
  \* is never left in the sweep without the older one that does.
  <1>1. SweepHonest'
    <2> USE DEF IInv, disk, applying, sweep, ghosts, counters
    <2>0. base' = base /\ excused \subseteq excused' /\ misread \subseteq misread' BY Grows
    <2>1. \A x, e : Beneath(x, e) <=> Beneath(x, e)' BY Zenon, <2>0 DEF Beneath
    <2>2. CASE Recover \/ Teardown
      <3>1. /\ pc \notin {"run", "note"} /\ queue' = {e \in journal : NeedsUndo(e)} /\ kept' = {}
            /\ excused' = excused /\ misread' = misread
        BY <2>2 DEF Recover, Teardown, SweepOK, Sweeping
      <3> SUFFICES ASSUME NEW e \in queue', e.res \notin excused, e.undo # base[e.res]
                   PROVE  e.res \in misread /\ \E x \in queue' : Beneath(x, e)
        BY Zenon, <2>0, <2>1, <3>1 DEF SweepHonest
      <3>2. e \in journal /\ NeedsUndo(e) BY Zenon, <3>1
      <3>3. e.res \in misread /\ \E x \in journal : Beneath(x, e) BY Zenon, <3>1, <3>2 DEF HonestInverse
      <3> QED BY Zenon, <3>1, <3>3 DEF Beneath
    <2>3. CASE UndoOne
      <3>1. PICK u \in queue, a \in Answers :
                /\ UndoOf(u, a)
                /\ excused' = IF kept' = kept /\ Outlived(u) THEN excused \cup {u.res} ELSE excused
        BY Zenon, <2>3 DEF UndoOne
      <3>2. /\ Sweeping /\ misread' = misread /\ NextUp(u) /\ queue' = queue \ {u}
            /\ kept' = kept \/ kept' = kept \cup {u}
        BY Zenon, <2>3, <3>1 DEF UndoOne, UndoOf, Sweeping
      <3>3. \A e \in queue : e.res = u.res => e.seq <= u.seq BY <3>2 DEF NextUp
      <3>4. \A x \in queue \cup kept : x \in journal /\ NeedsUndo(x) /\ x.seq \in Nat
        BY DEF SweepOK, TypeOK, Entry
      <3> SUFFICES ASSUME NEW e \in queue' \cup kept', e.res \notin excused', e.undo # base[e.res]
                   PROVE  /\ e.res \in misread
                          /\ \E x \in queue' \cup kept' : Beneath(x, e)
                          /\ e \in queue' => \E x \in queue' : Beneath(x, e)
        BY Zenon, <2>0, <2>1, <3>2 DEF SweepHonest
      <3>5. e \in queue \cup kept /\ e.res \notin excused BY Zenon, <2>0, <3>2
      <3>6. /\ e.res \in misread /\ \E x \in queue \cup kept : Beneath(x, e)
            /\ e \in queue => \E x \in queue : Beneath(x, e)
        BY Zenon, <3>2, <3>5 DEF SweepHonest
      <3>7. CASE e \in queue
        <4>1. PICK x \in queue : Beneath(x, e) BY Zenon, <3>6, <3>7
        <4>2. x # u BY <3>3, <3>4, <3>7, <4>1 DEF Beneath
        <4> QED BY Zenon, <3>2, <3>6, <4>1, <4>2
      <3>8. CASE e \in kept /\ e \notin queue
        <4>1. PICK x \in queue \cup kept : Beneath(x, e) BY Zenon, <3>6
        <4>2. CASE x # u \/ kept' = kept \cup {u} BY Zenon, <3>2, <3>6, <3>8, <4>1, <4>2
        <4>3. CASE x = u /\ kept' = kept
          <5>1. e \in Left BY Zenon, <3>4, <3>5, <3>8 DEF Left
          <5>2. e.seq > u.seq BY <3>4, <3>5, <4>1, <4>3 DEF Beneath
          <5>3. e.res = u.res /\ u.undo = base[e.res] BY Zenon, <4>1, <4>3 DEF Beneath
          <5>4. Kind[u.res] = "sysctl" BY Zenon, <3>6, <5>3 DEF Gaps
          <5>5. Outlived(u) BY Zenon, <5>1, <5>2, <5>3, <5>4 DEF Outlived
          <5> QED BY Zenon, <3>1, <4>3, <5>3, <5>5
        <4> QED BY Zenon, <3>2, <4>2, <4>3
      <3> QED BY Zenon, <3>5, <3>7, <3>8
    <2>4. CASE HoldFirewall
      <3>1. PICK u \in queue : u.res = Nft /\ queue' = queue \ {u} /\ kept' = kept \cup {u}
        BY Zenon, <2>4 DEF HoldFirewall
      <3>2. Sweeping /\ misread' = misread /\ excused' = excused BY Zenon, <2>4 DEF HoldFirewall, Sweeping
      <3> SUFFICES ASSUME NEW e \in queue' \cup kept', e.res \notin excused, e.undo # base[e.res]
                   PROVE  /\ e.res \in misread
                          /\ \E x \in queue' \cup kept' : Beneath(x, e)
                          /\ e \in queue' => \E x \in queue' : Beneath(x, e)
        BY Zenon, <2>0, <2>1, <3>2 DEF SweepHonest
      <3>3. e \in queue \cup kept BY Zenon, <3>1
      <3>4. /\ e.res \in misread /\ \E x \in queue \cup kept : Beneath(x, e)
            /\ e \in queue => \E x \in queue : Beneath(x, e)
        BY Zenon, <3>2, <3>3 DEF SweepHonest
      <3>5. e.res # Nft
        <4>1. Kind[e.res] = "sysctl" BY Zenon, <3>4 DEF Gaps
        <4> QED BY Zenon, Consts, <4>1
      <3>6. \A x : Beneath(x, e) => x # u BY Zenon, <3>1, <3>5 DEF Beneath
      <3> QED BY Zenon, <3>1, <3>4, <3>5, <3>6
    <2>5. CASE UNCHANGED vars BY Zenon, <2>5 DEF vars, SweepHonest, Sweeping, Beneath
    <2>6. CASE ~Sweeping' BY Zenon, <2>6 DEF SweepHonest
    <2>7. Recover \/ Teardown \/ UndoOne \/ HoldFirewall \/ UNCHANGED vars \/ ~Sweeping'
      BY ZenonT(60) DEF Sweeping, Next, Boot, Refuse, Detect, Skip, Begin, RunDo, Note, EngineStart, Applied,
             ApplyAgain, RewriteJournal, Kill, Reboot, Crash
    <2> QED BY Zenon, <2>2, <2>3, <2>4, <2>5, <2>6, <2>7
  \* A knob found on is never turned off.
  <1>2. ASSUME NEW r \in Res, Kind[r] = "sysctl", base[r] = 1 PROVE kernel'[r] = 1
    <2> USE DEF IInv, disk, applying, sweep, ghosts, counters
    <2>1. kernel[r] = 1 /\ r # Nft /\ r # Tun /\ r \notin excused \cup misread /\ r \notin Stations
      BY <1>2, Consts DEF Gaps, Stations
    <2>2. CASE RunDo
      <3>1. Value(r) = 1 BY <1>2 DEF Value
      <3> QED BY Zenon, <1>2, <2>1, <2>2, <3>1, RunDoKernel
    <2>3. CASE EngineStart
      <3>1. kernel' = kernel \/ kernel' = Effect(kernel, Tun, 1) BY Zenon, <2>3 DEF EngineStart
      <3>2. kernel \in [Res -> {0, 1}] BY Zenon DEF TypeOK
      <3> HIDE DEF IInv
      <3>3. Effect(kernel, Tun, 1)[r] = kernel[r] BY Zenon, <2>1, <3>2 DEF Effect
      <3> QED BY Zenon, <2>1, <3>1, <3>3
    <2>4. CASE Teardown \/ Kill
      <3>1. kernel' = Effect(kernel, Tun, 0) BY Zenon, <2>4 DEF Teardown, Kill, Crash
      <3> QED BY <1>2, <2>1, <3>1, EngineGone
    <2>5. CASE Reboot BY Zenon, <1>2, <2>5 DEF Reboot, Crash
    <2>6. CASE UndoOne
      <3>1. Sweeping BY <2>6 DEF UndoOne, Sweeping
      <3>2. PICK e \in queue, a \in Answers : UndoOf(e, a) BY ZenonT(60), <2>6 DEF UndoOne
      <3>3. CASE e.res = r BY ZenonT(60), <1>2, <2>1, <3>1, <3>2, <3>3, UndoKernel
      <3>4. CASE e.res # r BY <1>2, <2>1, <3>1, <3>2, <3>4, UndoKernel
      <3> QED BY <3>3, <3>4
    <2>7. kernel' = kernel \/ RunDo \/ EngineStart \/ Teardown \/ UndoOne \/ Kill \/ Reboot
      BY Zenon DEF Next, vars, Boot, Recover, Refuse, Detect, Skip, Begin, Note, Applied, ApplyAgain,
             HoldFirewall, RewriteJournal
    <2> HIDE DEF IInv
    <2> QED BY <2>1, <2>2, <2>3, <2>4, <2>5, <2>6, <2>7
  \* A knob is misread only where it was found off.
  <1>3. ASSUME NEW r \in misread' PROVE Kind[r] = "sysctl" /\ base[r] = 0
    <2> USE DEF IInv, disk, applying, sweep, ghosts, counters
    <2>1. CASE r \in misread BY Zenon, <2>1 DEF Gaps
    <2>2. CASE r \notin misread
      <3>1. PICK p \in Plans : Detect(p)
        BY ZenonT(60), <2>2 DEF Next, vars, Boot, Recover, Refuse, Skip, Begin, RunDo, Note, EngineStart, Applied,
             ApplyAgain, Teardown, UndoOne, HoldFirewall, RewriteJournal, Kill, Reboot, Crash
      <3>2. r \in Res /\ Kind[r] = "sysctl" /\ kernel[r] # base[r] BY ZenonT(60), <2>2, <3>1 DEF Detect
      <3>3. base[r] \in {0, 1} BY ZenonT(60), BaseFacts, <3>2 DEF TypeOK
      <3> QED BY Zenon, <3>2, <3>3 DEF Gaps
    <2> QED BY <2>1, <2>2
  \* A torn line at the start of an apply is ahead of the firewall's record.
  <1>4. ASSUME torn, pc = "apply", More PROVE step = Nft /\ ~Skippable(step)
    <2>1. at = 1 /\ journal = {} BY <1>4 DEF IInv, TornOK
    <2>2. step = Nft BY Zenon, <1>4, <2>1, FirstIsNft DEF Applying
    <2> QED BY Zenon, <2>1, <2>2, Consts DEF Skippable, Planned, InForce
  \* A step whose inverse is about to be retracted is an address or a station's.
  <1>5. ASSUME InStep \/ (pc = "apply" /\ More), Undue(step),
               Idle(step) \/ (pc = "note" /\ Outcome(step, answer) = "preexisting")
        PROVE  /\ step \in Res /\ Kind[step] \in {"addr", "station"}
               /\ Kind[step] = "addr" => base[step] = 1
    <2> USE DEF IInv
    <2>1. step \in Res BY <1>5, StepType
    <2>2. Verb(step) \in {"add", "del"} BY <1>5 DEF Idle, Outcome, Answer, Landed
    <2>3. base \in Bases BY Zenon DEF TypeOK
    <2> HIDE DEF IInv
    <2>4. Kind[step] \in {"addr", "station"} BY <2>1, <2>2, Consts DEF Verb, Kinds
    <2>5. base[step] \in {0, 1} BY <2>1, <2>3, BaseFacts
    <2>6. UndoValue(step) # base[step] BY Zenon, <1>5 DEF Undue
    <2>7. Kind[step] = "addr" => UndoValue(step) = 0
      <3>1. Kind[step] = "addr" => Value(step) = 1 BY Zenon DEF Value
      <3>2. Kind[step] = "addr" => UndoValue(step) = 1 - Value(step) BY Zenon DEF UndoValue
      <3> QED BY <3>1, <3>2
    <2> QED BY <2>1, <2>4, <2>5, <2>6, <2>7
  \* What exposes is excused only where it was found in place or misread.
  <1>6. ASSUME NEW r \in excused'
        PROVE  /\ Kind[r] = "sysctl" => r \in misread'
               /\ Kind[r] \in {"iface", "addr"} => base[r] = 1
    <2> USE DEF IInv, disk, applying, sweep, ghosts, counters
    <2>0. misread \subseteq misread' BY Grows
    <2>1. CASE r \in excused BY Zenon, <2>0, <2>1 DEF Gaps
    <2>2. CASE r \notin excused
      <3>1. CASE Begin
        <4>1. /\ pc = "apply" /\ More
              /\ r = step /\ (torn \/ (Idle(step) /\ Undue(step)))
          BY Zenon, <2>2, <3>1 DEF Begin
        <4> HIDE DEF IInv
        <4>2. CASE torn BY Zenon, Consts, <1>4, <4>1, <4>2
        <4>3. CASE Idle(step) /\ Undue(step) BY Zenon, <1>5, <4>1, <4>3
        <4> QED BY <4>1, <4>2, <4>3
      <3>2. CASE RunDo
        <4>1. pc = "run" /\ InStep /\ ((r = step /\ Idle(step) /\ Undue(step)) \/ r \in Stations)
          BY ZenonT(60), <2>2, <3>2 DEF RunDo, InStep
        <4> HIDE DEF IInv
        <4> QED BY <1>5, <4>1 DEF Stations
      <3>3. CASE Note
        <4>1. pc = "note" /\ InStep /\ r = step /\ Undue(step) /\ Outcome(step, answer) = "preexisting"
          BY Zenon, <2>2, <3>3 DEF Note, InStep
        <4> QED BY <1>5, <4>1
      <3>4. CASE Kill \/ Reboot
        <4>1. /\ InStep /\ r = step /\ Undue(step)
              /\ Idle(step) \/ (pc = "note" /\ Outcome(step, answer) = "preexisting")
          BY Zenon, <2>2, <3>4 DEF Kill, Reboot, Crash, InStep
        <4> QED BY <1>5, <4>1
      <3>5. CASE UndoOne
        <4>1. PICK u \in queue : r = u.res /\ Outlived(u) BY Zenon, <2>2, <3>5 DEF UndoOne
        <4>2. PICK x \in Left : x.res = u.res /\ x.undo # u.undo BY Zenon, <4>1 DEF Outlived
        <4>3. /\ pc \in {"teardown", "recover"} /\ u \in journal /\ NeedsUndo(u)
              /\ x \in journal /\ NeedsUndo(x) /\ Kind[r] = "sysctl"
          BY Zenon, <3>5, <4>1 DEF UndoOne, SweepOK, Left, Outlived
        <4>4. r \in misread BY Zenon, <2>2, <4>1, <4>2, <4>3 DEF HonestInverse
        <4> QED BY <2>0, <4>3, <4>4
      <3>6. Begin \/ RunDo \/ Note \/ Kill \/ Reboot \/ UndoOne
        BY ZenonT(60), <2>2 DEF Next, vars, Boot, Recover, Refuse, Detect, Skip, EngineStart, Applied,
             ApplyAgain, Teardown, HoldFirewall, RewriteJournal
      <3> QED BY Zenon, <3>1, <3>2, <3>3, <3>4, <3>5, <3>6
    <2> QED BY <2>1, <2>2
  <1>7. Gaps' BY <1>2, <1>3, <1>6, Grows DEF Gaps
  \* The first record of a start is the only one that can be lost to a torn line.
  <1>8. TornOK'
    <2> USE DEF IInv, disk, applying, sweep, ghosts, counters
    <2> SUFFICES ASSUME torn', pc' \in {"running", "clean", "apply"}
                 PROVE  pc' # "running" /\ journal' = {} /\ (pc' = "apply" => at' = 1)
      BY DEF TornOK
    <2>1. CASE Recover
      <3>1. torn /\ pc' = "clean" /\ journal' = journal /\ journal = {} BY Zenon, <2>1 DEF Recover
      <3> QED BY <3>1
    <2>2. CASE \E p \in Plans : Detect(p) BY <2>2 DEF Detect, TornOK
    <2>3. CASE Skip
      <3>1. pc = "apply" /\ More /\ Skippable(step) /\ torn BY Zenon, <2>3 DEF Skip
      <3> QED BY Zenon, <1>4, <3>1
    <2>4. CASE EngineStart
      <3>1. pc = "apply" /\ More /\ step = Tun /\ torn BY Zenon, <2>4 DEF EngineStart
      <3> QED BY Consts, <1>4, <3>1
    <2>5. CASE Applied
      <3>1. pc = "apply" /\ ~More /\ torn /\ plan \in Plans BY Zenon, <2>5 DEF Applied, PlanOK, Open
      <3>2. at = 1 /\ Len(plan) > 0 BY Zenon, <3>1, FirewallFirst DEF TornOK, FirewallFirst
      <3>3. Len(plan) \in Nat BY <3>1, ConstantsAssumption DEF ConstantsAssumption
      <3> QED BY <3>1, <3>2, <3>3 DEF More
    <2>6. CASE ApplyAgain BY Zenon, <2>6 DEF ApplyAgain, TornOK
    <2>7. CASE Note
      <3>1. pc' = "apply" => torn' = FALSE BY Zenon, <2>7 DEF Note, Write
      <3>2. pc' \in {"apply", "applyfailed"} BY Zenon, <2>7 DEF Note
      <3> QED BY <3>1, <3>2
    <2>8. CASE RewriteJournal BY Zenon, <2>8 DEF RewriteJournal
    <2>9. CASE UNCHANGED vars BY Zenon, <2>9 DEF vars, TornOK
    <2>10. \/ Recover \/ Skip \/ EngineStart \/ Applied \/ ApplyAgain \/ Note \/ RewriteJournal
           \/ UNCHANGED vars \/ \E p \in Plans : Detect(p)
      BY ZenonT(60) DEF Next, Boot, Refuse, Begin, RunDo, Teardown, UndoOne, HoldFirewall, Kill, Reboot, Crash
    <2> QED BY Zenon, <2>1, <2>2, <2>3, <2>4, <2>5, <2>6, <2>7, <2>8, <2>9, <2>10
  <1> QED BY <1>1, <1>7, <1>8

\* IInv is an inductive invariant of the Applier.
LEMMA Invariance == Spec => []IInv
  <1>1. Init => IInv
    <2> SUFFICES ASSUME Init PROVE IInv OBVIOUS
    <2> USE DEF Init
    <2>1. TypeOK
      <3>1. torn \in BOOLEAN /\ failed \in BOOLEAN /\ faulty \in BOOLEAN BY Zenon
      <3>2. base \in Bases /\ kernel \in [Res -> {0, 1}] /\ facts \in [Res -> {0, 1}] BY BaseFacts
      <3>3. journal \subseteq Entry /\ queue \subseteq Entry /\ kept \subseteq Entry
            /\ excused \subseteq Res /\ misread \subseteq Res
        OBVIOUS
      <3>4. pc \in PCs /\ answer \in Answers BY DEF PCs, Answers
      <3>5. plan \in Plans \cup {<<>>} /\ at \in Nat \ {0} OBVIOUS
      <3>6. seq \in Nat /\ starts \in Nat /\ faults \in Nat /\ crashes \in Nat OBVIOUS
      <3> QED BY <3>1, <3>2, <3>3, <3>4, <3>5, <3>6 DEF TypeOK
    <2>2. PlanOK /\ InFlight /\ OthersInFlight /\ Landed
        BY DEF PlanOK, InFlight, OthersInFlight, Landed, Open, InStep
    <2>3. Numbered /\ Shaped /\ SweepOK /\ HonestInverse /\ CleanStart
      BY Zenon DEF Numbered, Shaped, SweepOK, HonestInverse, CleanStart, Open
    <2>4. DevicesOK BY DeviceAssumption DEF DevicesOK, NoDevice
    <2>5. Covered /\ FailClosed BY DEF Covered, FailClosed, Changed
    <2>6. Guarded /\ Knobs /\ Facts BY Zenon DEF Guarded, Knobs, Facts, Applying, Open
    <2>7. SweepHonest /\ Gaps /\ TornOK BY Zenon DEF SweepHonest, Gaps, TornOK
    <2> QED BY <2>1, <2>2, <2>3, <2>4, <2>5, <2>6, <2>7 DEF IInv
  <1>2. IInv /\ [Next]_vars => IInv'
    BY BooksKept, MachineKept, CoverKept, GuardKept, GapsKept DEF IInv
  <1> QED BY <1>1, <1>2, PTL DEF Spec

\* Any number of starts, failures and crashes, over any plan and any machine.  Nothing
\* this program exposes is in the kernel without the table, but for knobs that a start
\* has read while they were changed (misread).  Every change has a live inverse on
\* disk, but for the gaps JournalCovers names (excused).  And every live inverse leads
\* back to the machine as it was found, or is a misread knob's with an older one
\* beneath it that does, the same gaps aside (apply.go, Apply and replay; journal.go).
THEOREM ApplierIsSafe == Spec => [](TypeOK /\ FailClosed /\ JournalCovers /\ HonestInverse)
  <1>1. IInv => TypeOK /\ FailClosed /\ JournalCovers /\ HonestInverse
    BY Zenon DEF IInv, Covered, JournalCovers, Changed
  <1> QED BY <1>1, Invariance, PTL

\* No step and no inverse removes what was in place before the program ran, but for
\* station addresses and for an object whose retraction did not reach the disk
\* (excused'), which a replay does remove (idempotence.go; journal.go, Preexisting).
THEOREM AlwaysFound == Spec => FoundStays
  <1> DEFINE Keeps == \A r \in Reversible \ (Stations \cup excused') :
                          base[r] = 1 /\ kernel[r] = 1 => kernel'[r] = 1
  <1>1. ASSUME IInv, [Next]_vars PROVE [Keeps]_vars
    <2> USE DEF IInv, disk, applying, sweep, ghosts, counters
    <2>0. base' = base /\ excused \subseteq excused' BY <1>1, Grows
    <2> SUFFICES ASSUME NEW r \in Reversible \ (Stations \cup excused'), base[r] = 1, kernel[r] = 1
                 PROVE  kernel'[r] = 1
      BY Zenon
    <2>1. r \in Res /\ r # Nft /\ r # Tun /\ r \notin excused \cup misread /\ r \notin Stations
      BY Consts, BaseFacts, <1>1, <2>0 DEF Reversible, HasInverse, TypeOK, Gaps
    <2>2. CASE RunDo
      <3>1. r = step => Value(step) = 1 BY <2>1 DEF Value, Stations
      <3> QED BY Zenon, <1>1, <2>1, <2>2, <3>1, RunDoKernel
    <2>3. CASE EngineStart
      <3>1. kernel' = kernel \/ kernel' = Effect(kernel, Tun, 1) BY Zenon, <2>3 DEF EngineStart
      <3>2. kernel \in [Res -> {0, 1}] BY Zenon, <1>1 DEF TypeOK
      <3> HIDE DEF IInv
      <3>3. Effect(kernel, Tun, 1)[r] = kernel[r] BY Zenon, <2>1, <3>2 DEF Effect
      <3> QED BY Zenon, <3>1, <3>3
    <2>4. CASE Teardown \/ Kill
      <3>1. kernel' = Effect(kernel, Tun, 0) BY Zenon, <2>4 DEF Teardown, Kill, Crash
      <3> QED BY Zenon, <1>1, <2>1, <3>1, EngineGone
    <2>5. CASE Reboot BY Zenon, <2>5 DEF Reboot, Crash
    <2>6. CASE UndoOne
      <3>1. Sweeping BY Zenon, <2>6 DEF UndoOne, Sweeping
      <3>2. PICK e \in queue, a \in Answers : UndoOf(e, a) BY ZenonT(60), <2>6 DEF UndoOne
      <3>3. CASE e.res = r BY ZenonT(60), <1>1, <2>1, <3>1, <3>2, <3>3, UndoKernel
      <3>4. CASE e.res # r BY Zenon, <1>1, <2>1, <3>1, <3>2, <3>4, UndoKernel
      <3> QED BY <3>3, <3>4
    <2>7. kernel' = kernel \/ RunDo \/ EngineStart \/ Teardown \/ UndoOne \/ Kill \/ Reboot
      BY Zenon, <1>1 DEF Next, vars, Boot, Recover, Refuse, Detect, Skip, Begin, Note, Applied, ApplyAgain,
             HoldFirewall, RewriteJournal
    <2> QED BY <2>2, <2>3, <2>4, <2>5, <2>6, <2>7
  <1>2. IInv /\ [Next]_vars => [Keeps]_vars BY Zenon, <1>1
  <1> HIDE DEF Keeps
  <1>3. Spec => [][Keeps]_vars BY <1>2, Invariance, PTL DEF Spec
  <1> QED BY <1>3 DEF FoundStays, Keeps

=============================================================================
