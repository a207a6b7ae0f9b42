---------------------------- MODULE PanelProofs ----------------------------
(***************************************************************************)
(* For every set of browsers, configurations and names, and any number of  *)
(* requests, failures and crashes: what was reported saved survives, no    *)
(* saved change is lost to another, and the box runs only what was stored. *)
(***************************************************************************)
EXTENDS Panel, TLAPS

\* What an update under way has copied and put in the file.
UpdateInv ==
    \/ upd = NoUpdate
    \/ /\ upd = [step |-> upd.step, edit |-> upd.edit, next |-> upd.next]
       /\ upd.next = Apply(upd.edit, mem)
       /\ upd.step \in {"write", "sync"}
       /\ upd.step = "sync" => file = upd.next /\ upd.next \in unsettled

StoreInv ==
    /\ mem = acked /\ flushed = TRUE /\ mem \in hist
    /\ file \in {acked} \cup unsettled /\ durable \in {acked} \cup unsettled
    /\ UpdateInv

\* The store is loaded with file and memory alike.
LEMMA InitStoreInv == Init => StoreInv
<1>1. ASSUME Init
      PROVE  /\ file = mem /\ flushed = TRUE /\ durable = mem /\ upd = NoUpdate
             /\ acked = mem /\ hist = {mem}
  BY <1>1, Zenon DEF Init, StoreInit
<1> QED
  BY <1>1 DEF StoreInv, UpdateInv

\* Every step of the store keeps its invariant.
LEMMA StoreSteps ==
    ASSUME StoreInv,
           \/ UNCHANGED store
           \/ \E w, e, ok : Copy(w, e, ok)
           \/ \E w : Replace(w) \/ Publish(w) \/ WriteFails(w)
           \/ Restart \/ PowerCut
    PROVE  StoreInv' /\ hist \subseteq hist'
<1>1. CASE UNCHANGED store
  BY <1>1 DEF store, StoreInv, UpdateInv
<1>2. ASSUME NEW w, NEW e, NEW ok, Copy(w, e, ok) PROVE StoreInv' /\ hist \subseteq hist'
  <2>1. UNCHANGED <<mem, file, flushed, durable, acked, unsettled, hist>>
    BY <1>2 DEF Copy
  <2>2. UNCHANGED upd \/ upd' = [step |-> "write", edit |-> e, next |-> Apply(e, mem)]
    BY <1>2 DEF Copy
  <2>3. UpdateInv'
    BY <2>1, <2>2 DEF StoreInv, UpdateInv
  <2> QED
    BY <2>1, <2>3 DEF StoreInv
<1>3. ASSUME NEW w, Replace(w) PROVE StoreInv' /\ hist \subseteq hist'
  <2>1. upd # NoUpdate
    BY <1>3 DEF Replace, NoUpdate
  <2>2. /\ upd' = [upd EXCEPT !.step = "sync"] /\ file' = upd.next /\ flushed' = TRUE
        /\ unsettled' = unsettled \cup {upd.next}
        /\ UNCHANGED <<mem, durable, acked, hist>>
    BY <1>3 DEF Replace
  <2>3. upd' = [step |-> "sync", edit |-> upd.edit, next |-> upd.next]
    BY <2>1, <2>2 DEF StoreInv, UpdateInv
  <2>4. UpdateInv'
    BY <2>1, <2>2, <2>3 DEF StoreInv, UpdateInv
  <2> QED
    BY <2>2, <2>4 DEF StoreInv
<1>4. ASSUME NEW w, Publish(w) PROVE StoreInv' /\ hist \subseteq hist'
  <2>1. upd # NoUpdate /\ upd.step = "sync"
    BY <1>4 DEF Publish, NoUpdate
  <2>2. upd.next = Apply(upd.edit, mem) /\ file = upd.next /\ mem = acked /\ flushed = TRUE
    BY <2>1 DEF StoreInv, UpdateInv
  <2>3. /\ durable' = file /\ mem' = upd.next /\ hist' = hist \cup {mem'}
        /\ acked' = Apply(upd.edit, acked) /\ upd' = NoUpdate
        /\ UNCHANGED <<file, flushed>>
    BY <1>4 DEF Publish
  <2> QED
    BY <2>2, <2>3 DEF StoreInv, UpdateInv
<1>5. ASSUME NEW w, WriteFails(w) PROVE StoreInv' /\ hist \subseteq hist'
  BY <1>5 DEF WriteFails, StoreInv, UpdateInv
<1>6. ASSUME Restart PROVE StoreInv' /\ hist \subseteq hist'
  BY <1>6 DEF Restart, Load, StoreInv, UpdateInv
<1>7. ASSUME PowerCut PROVE StoreInv' /\ hist \subseteq hist'
  BY <1>7 DEF PowerCut, Remains, Load, StoreInv, UpdateInv
<1> QED
  BY <1>1, <1>2, <1>3, <1>4, <1>5, <1>6, <1>7

\* Every action of the panel is, for the store, one of those steps.
LEMMA PanelStoreSteps ==
    ASSUME [Next]_vars
    PROVE  \/ UNCHANGED store
           \/ \E w, e, ok : Copy(w, e, ok)
           \/ \E w : Replace(w) \/ Publish(w) \/ WriteFails(w)
           \/ Restart \/ PowerCut
<1>1. ASSUME NEW b \in Writers, SaveBegins(b) PROVE \E w, e, ok : Copy(w, e, ok)
  BY <1>1 DEF SaveBegins
<1>2. ASSUME NEW b \in Writers, SaveReplaces(b) \/ SaveEnds(b) \/ SaveFails(b)
      PROVE  \E w : Replace(w) \/ Publish(w) \/ WriteFails(w)
  BY <1>2 DEF SaveReplaces, SaveEnds, SaveFails
<1>3. ASSUME PanelDies \/ MachineDies PROVE Restart \/ PowerCut
  BY <1>3 DEF PanelDies, MachineDies
<1>4. ASSUME NEW b \in Writers,
             \/ \E k, x : Arrive(b, k, x)
             \/ Read(b) \/ Fetch(b) \/ Poll(b) \/ StopBox(b) \/ Snapshot(b) \/ StartBox(b) \/ GiveUp(b)
      PROVE  UNCHANGED store
  BY <1>4 DEF Arrive, Read, Fetch, Poll, StopBox, Snapshot, StartBox, GiveUp
<1>5. ASSUME (\E r \in orphans : Late(r)) \/ BoxDies PROVE UNCHANGED store
  BY <1>5 DEF Late, BoxDies
<1>6. ASSUME UNCHANGED vars PROVE UNCHANGED store
  BY <1>6 DEF vars
<1> QED
  BY <1>1, <1>2, <1>3, <1>4, <1>5, <1>6 DEF Next

\* Whatever fails or dies, the file holds the last state reported saved or one whose
\* saving was cut short, and memory holds every change reported saved: for all browsers,
\* configurations and bounds (store.go, Update and writeAtomic).
THEOREM SavedChangesHold == Spec => [](SavedSurvives /\ NoLostUpdate)
<1>1. Init => StoreInv
  BY InitStoreInv
<1>2. StoreInv /\ [Next]_vars => StoreInv'
  BY StoreSteps, PanelStoreSteps
<1>3. StoreInv => SavedSurvives /\ NoLostUpdate
  BY DEF StoreInv, SavedSurvives, Remains, NoLostUpdate
<1> QED
  BY <1>1, <1>2, <1>3, PTL DEF Spec

-----------------------------------------------------------------------------
(* What the box runs.                                                       *)

Stored == {StartRequest(st) : st \in {x \in hist : Startable(x)}}

Args == Configs \cup Names \cup Nat \cup BOOLEAN \cup {None}
Kinds == {"on", "off", "recover", "address", "paste", "refresh", "select", "sni", "hotspot"}
Labels == {"snapshot", "stop", "read", "save", "fetch", "saving", "poll"}

\* A request on its way to a start carries what a snapshot gave it, and a start that
\* outlives its caller carries the same.
RunInv ==
    /\ req \in [Writers -> {Idle} \cup [kind : Kinds, arg : Args, pc : Labels]
                         \cup [kind : {"on"}, pc : {"start"}, start : Stored]]
    /\ on \in {Off} \cup Stored
    /\ orphans \subseteq {Off} \cup Stored

\* A request that waits for a start carries stored settings.
LEMMA StartCarries ==
    ASSUME RunInv, NEW b \in Writers, At(b, "start")
    PROVE  req[b].start \in Stored
BY DEF RunInv, At, Idle, Labels

\* Every step keeps it, since the states published only grow.
LEMMA RunSteps ==
    ASSUME RunInv, StoreInv, [Next]_vars
    PROVE  RunInv'
<1>0. hist \subseteq hist' /\ Stored \subseteq Stored'
  <2>1. hist \subseteq hist'
    BY StoreSteps, PanelStoreSteps
  <2> QED
    BY <2>1 DEF Stored
<1>1. ASSUME NEW b \in Writers, NEW l \in Labels, Goto(b, l), req[b].pc # "start", req[b].pc # "idle"
      PROVE  (req \in [Writers -> {Idle} \cup [kind : Kinds, arg : Args, pc : Labels]
                         \cup [kind : {"on"}, pc : {"start"}, start : Stored]])'
  <2>1. req[b] \in [kind : Kinds, arg : Args, pc : Labels]
    BY <1>1 DEF RunInv, Idle
  <2>2. [req[b] EXCEPT !.pc = l] \in [kind : Kinds, arg : Args, pc : Labels]
    BY <2>1
  <2> QED
    BY <1>0, <1>1, <2>2 DEF RunInv, Goto
<1>2. ASSUME NEW b \in Writers, Answer(b)
      PROVE  (req \in [Writers -> {Idle} \cup [kind : Kinds, arg : Args, pc : Labels]
                         \cup [kind : {"on"}, pc : {"start"}, start : Stored]])'
  BY <1>0, <1>2 DEF RunInv, Answer
<1>3. ASSUME NEW b \in Writers, NEW k \in Kinds, NEW x \in Args, Arrive(b, k, x) PROVE RunInv'
  BY <1>0, <1>3 DEF Arrive, RunInv, Labels
<1>4. ASSUME NEW b \in Writers, Read(b) \/ Fetch(b) \/ SaveBegins(b) \/ SaveEnds(b) \/ SaveFails(b) \/ Poll(b)
      PROVE  RunInv'
  <2>1. UNCHANGED <<on, orphans>>
    BY <1>4 DEF Read, Fetch, SaveBegins, SaveEnds, SaveFails, Poll
  <2>2. /\ req[b].pc # "start" /\ req[b].pc # "idle"
        /\ Answer(b) \/ \E l \in Labels : Goto(b, l)
    BY <1>4 DEF Read, Fetch, SaveBegins, SaveEnds, SaveFails, Poll, At, Labels
  <2> QED
    BY <1>0, <1>1, <1>2, <2>1, <2>2 DEF RunInv
<1>5. ASSUME NEW b \in Writers, SaveReplaces(b) PROVE RunInv'
  BY <1>0, <1>5 DEF SaveReplaces, RunInv
<1>6. ASSUME NEW b \in Writers, StopBox(b) PROVE RunInv'
  <2>1. /\ on' = Off /\ UNCHANGED orphans
        /\ req[b].pc # "start" /\ req[b].pc # "idle"
        /\ Answer(b) \/ \E l \in Labels : Goto(b, l)
    BY <1>6 DEF StopBox, At, Labels
  <2> QED
    BY <1>0, <1>1, <1>2, <2>1 DEF RunInv
<1>7. ASSUME NEW b \in Writers, Snapshot(b) PROVE RunInv'
  <2>1. CASE Startable(mem) /\ req' = [req EXCEPT ![b] = [kind |-> "on", pc |-> "start", start |-> StartRequest(mem)]]
    <3>1. StartRequest(mem) \in Stored'
      BY <1>0, <2>1 DEF Stored, StoreInv
    <3> QED
      BY <1>0, <1>7, <2>1, <3>1 DEF Snapshot, RunInv
  <2>2. CASE Answer(b)
    BY <1>0, <1>2, <1>7, <2>2 DEF Snapshot, RunInv
  <2> QED
    BY <1>7, <2>1, <2>2 DEF Snapshot
<1>8. ASSUME NEW b \in Writers, StartBox(b) PROVE RunInv'
  <2>1. on' \in {on, Off, req[b].start} /\ UNCHANGED orphans /\ Answer(b) /\ At(b, "start")
    BY <1>8 DEF StartBox
  <2> QED
    BY <1>0, <1>2, <2>1, StartCarries DEF RunInv
<1>9. ASSUME NEW b \in Writers, GiveUp(b) PROVE RunInv'
  <2>1. /\ req[b].pc \in {"stop", "start"} /\ Answer(b) /\ UNCHANGED on
        /\ orphans' = orphans \cup {IF At(b, "stop") THEN Off ELSE req[b].start}
    BY <1>9 DEF GiveUp
  <2> QED
    BY <1>0, <1>2, <2>1, StartCarries DEF RunInv, At
<1>10. ASSUME NEW r \in orphans, Late(r) PROVE RunInv'
  BY <1>0, <1>10 DEF Late, RunInv
<1>11. ASSUME PanelDies \/ MachineDies PROVE RunInv'
  <2>1. /\ req' = [b \in Writers |-> Idle] /\ on' \in {on, Off}
        /\ orphans' \subseteq orphans \cup {req[b].start : b \in {x \in Writers : At(x, "start")}} \cup {Off}
    BY <1>11 DEF PanelDies, MachineDies
  <2> QED
    BY <1>0, <2>1, StartCarries DEF RunInv
<1>12. ASSUME BoxDies \/ UNCHANGED vars PROVE RunInv'
  BY <1>0, <1>12 DEF BoxDies, vars, RunInv
<1>13. ASSUME NEW b \in Writers,
              \/ \E k \in {"on", "off", "recover", "address"} : Arrive(b, k, None)
              \/ \E k \in {"paste", "refresh"}, c \in Configs : Arrive(b, k, c)
              \/ \E i \in 0 .. 1 : Arrive(b, "select", i)
              \/ \E d \in BOOLEAN : Arrive(b, "sni", d)
              \/ \E h \in Names : Arrive(b, "hotspot", h)
       PROVE  RunInv'
  <2>1. /\ None \in Args /\ Configs \subseteq Args /\ Names \subseteq Args
        /\ \A i \in 0 .. 1 : i \in Args
    BY DEF Args
  <2>2. BOOLEAN \subseteq Args
    BY Zenon DEF Args
  <2>3. /\ \A k \in {"on", "off", "recover", "address", "paste", "refresh"} : k \in Kinds
        /\ "select" \in Kinds /\ "sni" \in Kinds /\ "hotspot" \in Kinds
    BY DEF Kinds
  <2>4. \A k \in Kinds, x \in Args : Arrive(b, k, x) => RunInv'
    BY <1>3
  <2>5. ASSUME \E k \in {"on", "off", "recover", "address"} : Arrive(b, k, None) PROVE RunInv'
    BY <2>1, <2>3, <2>4, <2>5
  <2>6. ASSUME \E k \in {"paste", "refresh"}, c \in Configs : Arrive(b, k, c) PROVE RunInv'
    BY <2>1, <2>3, <2>4, <2>6
  <2>7. ASSUME \/ \E i \in 0 .. 1 : Arrive(b, "select", i)
               \/ \E d \in BOOLEAN : Arrive(b, "sni", d)
               \/ \E h \in Names : Arrive(b, "hotspot", h)
        PROVE  RunInv'
    BY <2>1, <2>2, <2>3, <2>4, <2>7, Zenon
  <2> QED
    BY <1>13, <2>5, <2>6, <2>7
<1> QED
  BY <1>4, <1>5, <1>6, <1>7, <1>8, <1>9, <1>10, <1>11, <1>12, <1>13, Zenon DEF Next

\* The box only ever runs settings that were the stored ones, all of them, at one
\* moment, through any interleaving of requests, failures and crashes (bringUp takes one
\* Snapshot).
THEOREM RunsWhatWasStored == Spec => []RunsAStoredWhole
<1>1. Init => StoreInv /\ RunInv
  <2>1. Init => on = Off /\ req = [b \in Writers |-> Idle] /\ orphans = {}
    BY Zenon DEF Init
  <2> QED
    BY <2>1, InitStoreInv DEF RunInv
<1>2. StoreInv /\ RunInv /\ [Next]_vars => StoreInv' /\ RunInv'
  BY StoreSteps, PanelStoreSteps, RunSteps
<1>3. RunInv => RunsAStoredWhole
  BY DEF RunInv, RunsAStoredWhole, Stored
<1> QED
  BY <1>1, <1>2, <1>3, PTL DEF Spec
=============================================================================
