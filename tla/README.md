# Caspian in TLA+

Caspian turns a machine into a WiFi gateway whose clients' traffic leaves through
an xray tunnel. A privileged Go service changes the machine's network, runs the
engine and the hotspot; an unprivileged web panel keeps the settings and tells the
service what to do over a unix socket. This directory holds TLA+ models of both
processes, the TLC instances that check them, and the TLAPS proofs about the parts
on which the rest stands.

To repeat a run: `tlc -config MCPanel.cfg MCPanel`; a proof: `tlapm PanelProofs.tla`.
`PROJECT.json` lists every run, theorem, mutant and hazard, and for every definition
the source lines it stands for.

## The system

```
 browsers ──HTTP──> panel process ──unix socket──> privileged process
                    listeners                       opMu, fields, cached detection
                    sessions, password              ├─ planner ─> steps, firewall table, engine document
                    attempt limiter                 ├─ Applier + undo journal ─> kernel (nft, ip, sysctl)
                    state store (state.json)        ├─ engine (tun device, log), SNI forwarder
                    status page, events             └─ hotspot: hostapd, dnsmasq, rfkill; or the
                                                       sharing of macOS and Windows
```

| Part | State | Operations | What is hard | Module |
|---|---|---|---|---|
| Undo journal, Applier (`netcfg/apply.go`, `journal.go`) | journal file, kernel | Apply, Teardown, Recover | a crash between record, command and result; an inverse that fails; repeated applies | `Applier` |
| Service operations (`privsvc/start.go`, `cut.go`, `service.go`) | plan, running, fingerprint, cut flag, engine, table | Start, Recover, Stop, Cut, Restore | failure of every step and of the rollback; expired callers; the gap in Recover | `PrivService`, `PowerSwitch` |
| Planner (`netcfg/plan.go`, `facts.go`, `subnet.go`) | none (pure) | PlanNetwork, HotspotTakeover | choices that contradict each other | `Machine`, `Planner` |
| Steps, ruleset, document (`netcfg/route.go`, `nftables.go`, `xcfg/build.go`) | none (pure) | the steps, RulesetFor, Build | what slips through between rules, routes and document | `Ruleset` |
| One start on a machine that moves (`privsvc/validate.go`, `plans.go`, `readback.go`, `netcfg/detect.go`, `verify.go`) | the machine, the kernel, the plan | detect, plan, apply, check, cut | a plan from a reading that is partial or stale | `Network` |
| Hotspot supervisor (`hotspot/supervisor.go`) | config and pid files, daemons, rfkill | Start, Stop | leftovers of failed runs, strays, other people's switches | `Supervisor` |
| macOS and Windows hotspots (`hotspot/internetsharing.go`, `mobilehotspot.go`) | preferences, radio, bridge, helper | Start, Stop | a system that acts later, or not, on what it was told | `Sharing` |
| SNI forwarder (`snispoof/`) | flows, connections, packets | accept, connect, capture, inject, Close | reused ports, late packets, close during dial | `Forwarder` |
| Engine, log (`engine/`, `privsvc/diag.go`) | instance, device, rings | Start, Stop, Add, EngineLog | half a start; another program's device; two rings read apart | `Engine` |
| Socket (`privsvc/server.go`, `client.go`, `wire.go`) | path, connections | Listen, Serve, handle, call | deadlines on both ends; a second copy | `Wire` |
| State store (`state/store.go`) | memory, `state.json` | Update, Load | crash, power cut, failing write; two writers | `Store` |
| Panel handlers (`panel/handlers.go`, `sni.go`) | requests under way | on, off, recover, paste, select, settings, name, address, refresh | handlers interleave between their reads, their save and their calls; deadlines | `Panel` |
| Sessions, password (`panel/session.go`, `cmd/caspian/firstrun.go`, `password_reset.go`) | session map, password, first password's file | setup, login, logout, change, reset, handoff | a login against a change; the map at its limit; a crash in the handoff | `Access` |
| Attempt limiter (`panel/ratelimit.go`) | two levels of buckets | allow, succeed | rounding; pruning of the map | `Limiter` |
| Status page (`panel/view.go`, `words.go`, `events.go`, `assets/panel.js`) | the page, polls, events | load, poll, press, observe | answers out of order; two opinions on one page | `Page` |
| Listeners (`cmd/caspian/serve_panel.go`, `panel/listen.go`) | open listeners | reconcile | addresses and setting change during a look | `Listeners` |

## Modules

### Applier: the undo journal

A step is a resource of the kernel (a knob, an address, a rule, an interface, the
table) and the value the plan gives it; a resource holds 0 or 1. The journal is the
set of entries `LoadJournal` would rebuild from the file, and `torn` says that the
file's last line has no end. `Begin`, `RunDo` and `Note` are the three moments of one
iteration of `Apply`; `Skip` its two ways of passing a step over; `Teardown` and
`Recover` the two ways into `replay`, whose iterations are `UndoOne` and
`HoldFirewall` and whose end is `RewriteJournal`. A command may fail with or without
its effect, a record may fail or be cut short, and `Kill` and `Reboot` come anywhere.
What commands answer is taken from the repository's `simulated_kernel.go`.

The properties allow for named gaps, kept in two ghost variables. `misread` holds the
knobs that a start has read while an earlier run still had them changed; `excused` holds
a record glued to a torn line, an object found in place whose retraction was lost to a
failure or a crash, an address removed by the network manager together with the
interface it released, and a misread knob whose older inverse has gone before its newer
one. A resource gets there only in the step that opens the gap; everything else is
covered without exception. Two of the gaps are findings.

### PrivService and PowerSwitch: the operations

Two or more callers run the dispatched operations under `opMu`, one label per place
where something can fail or somebody else can step in. `net` abstracts what
`Applier` establishes: `found`, `partial` (something is left, and the journal holds
it), `pre` and `full`. `alive` is the caller's context: it may expire at any time, and
then every command fails at once, except in a rollback, which has a context of its
own. `Fail` is `rollbackLocked`. Polls and refreshes interleave without the lock.

`PowerSwitch` is what a caller may rely on: off, or on with one request, changed only
through off; and a cut that exists only while on. `ImplementsSwitch` checks that
`PrivService` implements it with `on` read from `running` and `fingerprint` and `cut`
from `forward`. `Panel` uses the service as this switch.

### Machine, Planner, Ruleset, Network: what a start does to a machine

`Machine` is the shape of detection's report and the questions asked of it, `Planner`
the plan as operators, in the order in which the code tries its choices, `Ruleset` the
plan's steps, the verdict of each generated chain on a packet, and the engine's choice
of an outbound. An address is a number and a prefix an aligned interval, so that
overlap, containment and masking are those of `netip` on a small space; a packet is
its interfaces, addresses, what its ports say and what connection tracking says.

`Network` composes them: `PlanRefused` and `Plan` (validation, a reading with one or
both of two questions unanswered, the plan, the access point's own checks), `Apply`
step by step, `CreateRefused` (the takeover with a fresh reading), `Check`,
`EngineUp`, `AccessPointUp`, `ReadBack`, `Cut` and `Restore`; meanwhile `Joins`,
`Lost` and `EngineDies` move the machine. `MainWay` and `ClientWay` are the kernel's
choice of a route.

### Supervisor and Sharing: three systems' hotspots

`Supervisor`: Start and Stop in the order `PrivService` calls them in. Per unit: the
configuration file, the daemon that read it, the pid file; per device: its switches.
The daemons die by themselves, ignore signals, outlive their pid files, and their numbers
are given to other programs; the process is killed with the daemons it started (`KillMode` in `packaging/caspian.service`);
somebody flips a switch.

`Sharing`: the same calls on macOS, through a preferences file that the system reads
when it is told to (`told`, `acting`, `target`), and on Windows, through a helper that
does one thing and exits. Both outlive the service, whose death is an action.

### Forwarder, Engine, Wire

`Forwarder` has one process per connection, the packet loop, an injector per
handshake and the caller of Close. A packet names the port it is on and the
connection whose sequence numbers it carries, which differ when a port is used again.
The first message is a sequence of record headers and bytes; `splitHello` and
`forwardHello` are modelled by what they do to it.

`Engine` has the steps of Start and Stop, the device with its kernel index among
others of the same name, the log's route, the two rings and the reader that merges
them. `Wire` has up to two copies of the service, the path between them, calls with
the deadline of each end, and frames that are whole, cut short, too long or never
sent.

### Store and Panel: settings and what becomes of them

`Store` is `Update` cut where it can be interrupted: copy and edit under the mutex,
replacement of the file, fsync of the directory and publication. `flushed` and
`durable` are what a power cut would leave. `Panel` composes it with the handlers as
processes and the service as a switch: `Read`, `Fetch`, the save, `Poll`
(`afterConfigChange`), `StopBox`, `Snapshot`, `StartBox`. A call may fail, or outlive
the panel's deadline (`GiveUp`, then `Late`); the panel, the box or the machine may die.

### Access and Limiter: who may use the panel

`Access` has the session map in order of last use, the password in memory and on
disk, the installer's first password (`seed`) with its handoff at start, and each
request as a process with `authMu` held as the handlers hold it. Time is abstracted: a
session may expire at any moment, and the limiter may refuse any attempt. `Limiter`
has the time and the arithmetic, with attempts one after the other, as `authMu` makes
them.

### Page and Listeners: what the panel shows, and where

`Page` is one browser: the page as the template renders it, polls under way in any
order, the script that applies an answer in place, forms and flash messages; and the
panel that reads the box's status in pieces and keeps the list of events. Words are
their keys. `Listeners` is `reconcile` at each tick: the question to the service, the
setting, the list of addresses, and what is closed and opened, while addresses come,
go and change places and a port is taken.

## Runs

| Run | Shows | Bounds |
|---|---|---|
| `applier` | fail closed, the journal covers and is honest, nothing found is removed, each with the gaps above | 2 starts, 2 accidents, 1 crash, 2 plans, 2 machines |
| `start` | two parts, below | |
| `panel` | five parts, below | |
| `helpers` | five parts, below | |
| `progress` | retries of the sweep end with an empty journal and no table; every call, poll and refresh is answered | 1 start, 2 accidents, 1 crash; 2 calls, 1 read, 1 failure |
| `applier_station_inverse` | violated: an inverse that can never succeed (finding) | |
| `applier_torn_first_record` | violated: a first record cut short swallows the next (finding) | |
| `applier_leak_after_recovery` | violated: forwarding comes back on without the table (finding) | 2 starts, 2 accidents, 1 crash |
| `service_cut_not_cut` | violated: a cut that reports success and cuts nothing (finding) | |
| `panel_race` | violated: a change saved during a start never reaches the box (finding) | 3 requests |
| `panel_failed_save` | violated: a save that was reported failed is in the file (finding) | 1 failure |
| `second_copy` | violated: a copy started beside a running one undoes its work (finding) | 2 copies |

`start`, `progress`, `helpers` and `panel` each check several modules that share no variable. `side`, chosen
in the initial state, says which of them moves; the others rest. A run is then the union
of the parts' behaviours, and the model values are shared so that one small symmetry
group serves all. The machines are listed in `Machines`, the page's, the listeners' and
the forwarder's cases in the MC modules.

| Side | Properties | Bounds |
|---|---|---|
| `start`: service | `AllOrNothing`, `NeverUnguarded`, `CutIsReal`, `ImplementsSwitch` | 3 calls, 2 connections, 1 failure, 1 expiry, 1 crash |
| network | `OnlyThroughTheTunnel`, `ServesItsDevices`, `ReachesItsServer`, `SparesWhatIsThere`, `RunsOnItsOwn` | 684 machines and requests, 64 addresses, up to 2 changes of the machine during a start |
| `helpers`: daemons | `CallsMeanIt`, `FaultlessStartWorks`, `RadioAsFound` | 4 calls, 2 plans, 2 radios, 2 failures, 1 crash, 1 touch |
| sharing | `SharingIsAsBelieved`, `RadioIsKept` | 4 calls, 3 networks, 1 failure, 2 deaths |
| forwarder | `ConfirmedRightly`, `StreamIsWhole`, `NothingOutlivesClose` | 3 connections, 2 ports, 2 slots, up to 2 troubles; 10 first messages |
| engine | `EngineGivesBack`, `LogIsWhole` | 4 starts, 2 callers, 2 troubles, 2 outsiders; 4 lines, rings of 2 |
| wire | `AnswerIsTrue`, `ServeReturnsLast`, `ReachesTheLiveOne` | 2 calls, 2 copies, 1 upset, a horizon of 4 ticks |
| `panel`: handlers | `SavedSurvives`, `NoLostUpdate`, `RunsAStoredWhole`, `OneAtATime` | 2 browsers, 2 configurations, 3 requests, 1 failure, 1 crash |
| access | `SessionsKnowThePassword` | 3 browsers, 2 passwords, 2 sessions, 4 requests, 1 failure, 1 restart |
| limiter | `PanelBounded`, `AddressBounded`, `WaitIsExact` | 5 addresses for 4 entries, 4 ticks |
| page | `OneOpinion`, `EventsAreReal` | 2 polls at once, 5 kinds of visit with up to 3 moves of the box |
| listeners | `FollowsTheBox` | 3 addresses, one public, 2 changes, 1 refusal |

The bounds are chosen so that what a property is about happens within them: two
starts for an inverse recorded twice, one accident inside the recovery from another,
two calls contending for a lock a third one holds, a change made between another
request's snapshot and its start, one address more than the map holds, one connection
more than there are ports, one line more than a ring holds. The limiter's bursts and
refills are such that neither of its two levels hides the other. Values are
interchangeable (symmetry) where no definition tells them apart; the run with
liveness has no symmetry. Deadlock is not checked where the bounds let everything come to
rest; that calls are answered is checked as liveness instead.

Every property of a passing run has a mutant, a definition with a plausible mistake
(`\* Mutant:` in the modules), under which TLC finds it violated.

### What the properties leave out

Some hold only under a stated condition, which the comment before each of them gives
and the hazards in `PROJECT.json` explain. Where the condition is not met, the code, and
the model with it, does what the property denies.

- `FailClosed` leaves out the misread knobs, `JournalCovers` and `HonestInverse` the
  gaps above, and `FoundStays` an object whose retraction has not reached the disk: the
  next replay removes it, although it was there before (`idempotence.go:20`).
- `CutIsReal` is about a service in which no command has failed; the finding
  `service_cut_not_cut` is about one that has.
- `EventsAreReal` says of any overlapping readings that drops and connections alternate.
  That there are no more of them than there were is claimed only where the box did not
  change under a reading: a status read in pieces across a change makes `observe` record
  a drop that did not happen.
- `OneOpinion` leaves out the next step while the stored text has a problem, which a
  load names and a poll does not (`newStatusJSON` runs without `fillConfig`, although
  `words.go:575` says that both agree), and an older answer applied after a newer one.
- `ServesItsDevices` is about a start that saw NetworkManager; one that did not answer
  the detection can take the hotspot interface afterwards. `ReachesItsServer` is about an
  uplink as it was when the plan was made.
- `FaultlessStartWorks` leaves out a process number that another program has got: the
  program is taken for the daemon, and the start fails.
- `RadioAsFound` and `RadioIsKept`: that no radio is taken away is checked through
  failures; that one is given back only where nothing failed, nobody died and nobody else
  flips switches.
- `SharingIsAsBelieved` leaves out a look at the machine that failed and was taken for an
  answer, a Windows hotspot that was on with another network, and macOS preferences that
  were written and never told to the system: the next start finds them unchanged beside
  the old bridge and reports the old network as the new one, which
  `internetsharing.go:167` says cannot be.
- `AnswerIsTrue` claims nothing for a caller that gave up or lost the service: its
  operation may have run. `ReachesTheLiveOne` is about nobody starting a second copy.
- `FollowsTheBox` allows for a public address on the local network, which with the
  setting on makes the panel drop the hotspot's address too, and for a service that does
  not answer.

The models also behave, as the code does, in ways about which nothing is claimed. A
listener whose accepts have failed is never opened again (`serve_panel.go:264`). A
refresh overwrites a configuration pasted while it was fetching (`handlers.go:646`), and
a row's index posted from an old page selects another entry of a new list
(`handlers.go:574`). The device is checked by its index and removed by its name
(`tundevice.go:167`). Two copies started at once can remove each other's socket
(`server.go:168`). A repeated start on macOS takes the network down and up
(`internetsharing.go:427`), and on Windows a hotspot with the right name is taken for the
right one (`mobilehotspot.go:132`). A takeover picks the radio's first usable channel
whatever band was asked for (`plan.go:1318`). A network chosen by hand need only have a
private address, and may reach beyond the private range (`validate.go:155`).

### Fairness

`MCLive!FairSpec`, for whichever side moves. Applier: a sweep under way goes on, systemd
restarts the service (`Restart=` in the unit), and a refused start is tried again by its
user. Service: goroutines go on, the service is restarted, and a caller that
waits for `opMu` gets it in the end (strong fairness: `sync.Mutex` hands itself to a
waiter that has starved for a millisecond). Nothing else is assumed: no crash, failure
or new call is fair.

### Findings

The seven violated properties state what a comment in the code says, and TLC's
counterexample is a behaviour of the code: an inverse `ip address add` that answers
"File exists" for ever (`apply.go:407`); a first journal record that is cut short
(`apply.go:301`); forwarding restored to the value of an earlier run, and the table then
removed (`apply.go:358`); the cut flag after a load that was reported failed
(`cut.go:116`); a configuration change beside a start (`handlers.go:540`); a save whose
directory could not be synced (`store.go:417`); and the journal of a running service
replayed by a second copy (`serve_priv.go:73`).

The third takes two starts. A recovery cannot restore `ip_forward`, and the start goes on
all the same; it reads 1, this program's value, and journals "restore 1" above the entry
that says "restore 0". At the teardown the newer inverse fails and the older one works.
The next sweep runs the newer one, which sets forwarding to 1; nothing has failed, so the
second pass removes the table.

## Proofs

For every value of the constants, that is for any plans, machines, numbers of
requests, failures and crashes:

- `ApplierProofs`: `ApplierIsSafe` (`TypeOK`, `FailClosed`, `JournalCovers` and
  `HonestInverse`, with the gaps their definitions name) and `AlwaysFound`
  (`FoundStays`, likewise). None is inductive. `FailClosed` needs that the table is
  loaded before the second step (`Guarded`) and that a sweep keeps every entry it could
  not undo (`SweepOK`); `JournalCovers` needs coverage by an entry other than one about
  to be retracted (`Covered`) and that an inverse's shape follows from its resource
  (`Shaped`); `HonestInverse` needs that a changed knob is in force, so that a second
  apply leaves the first inverse alone (`Knobs`), and, for a misread knob, that a sweep
  meets the newer inverse first and has the older one still before it (`SweepHonest`,
  `Gaps`). `IInv` is their conjunction; five lemmas carry it over a step, one per group of
  conjuncts, with one step per action. Without the gaps `FailClosed`
  and `JournalCovers` are false of the model and of the code, as the violated runs
  show. Assumptions: the firewall is
  first in every plan (`FirewallFirst`), only its step touches the table
  (`KindAssumption`), and nothing found on the machine lives on a device the program
  makes (`DeviceAssumption`).
- `LimiterProofs`: `PanelIsBounded`, from the invariant that every wrong password, and
  the one being checked, has pushed the bucket's full instant one refill further while
  `allow` never lets it run further ahead than the burst; and `TheWaitIsExact`, from
  the arithmetic of rounding up. Assumption: bursts and refills are positive.
- `PanelProofs`: `SavedChangesHold`, from what an update under way has copied and put
  into the file (`UpdateInv`); and `RunsWhatWasStored`, from the invariant that every
  start on its way, also one whose caller has given up, carries a snapshot of a
  published state, and that the published states only grow (`RunInv`).

Only model-checked: liveness (`Converges`, `EveryCallReturns`), which is out of the
prover's reach; everything about `PrivService`, `Network`, `Supervisor`, `Sharing`,
`Forwarder`, `Engine`, `Wire`, `Access`, `Page` and `Listeners`;
`OnlyStationsLinger`; `AddressBounded`, which depends on the size of the map; and
`OneAtATime`.

## Not modelled

- Text: share links and the vendored parser, engine documents beyond their routing
  rules, daemon configuration, command output, messages, languages, the QR code,
  redaction. They have no state, and what they compute is decided character by
  character.
- The network backends of Windows and macOS (`winnet.go`, `darwinnet*.go`): other
  plans behind the same `Applier`, which is modelled for any plan.
- Migrations of the state file, and the Advanced settings except the one that the
  listeners follow; `handleAdvanced` saves them and restarts nothing.
- `Status` of the three hotspots, and lease files: they only read.
- `AssertFirewallLoaded` and `AssertHotspotAddressPresent` (`verify.go`): nothing calls
  them.
- The installers, flags and diagnostics; test harnesses.
- Real time, except in `Limiter` and, in ticks, in `Wire`: elsewhere deadlines and
  lifetimes may pass at any moment.
