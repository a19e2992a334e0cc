# Windlass in TLA+

This directory specifies Windlass: a pure core that handles one event at a time,
and a shell that carries out the core's actions. It also specifies the machines of
the archived prototype under `POC/`. The modules are written from the code under
`src/`. TLC checks them on small instances. TLAPS proves the properties of five
components for every value of the constants. `PROJECT.json` maps every definition
to the lines it models, and lists runs, mutants, findings, hazards and theorems.

Paths such as `core/tunnel.rs` are relative to the repository's `src/`.

## The system

**Core.** `Core::handle` (`core/machine.rs`) takes one event with the time it
occurred, updates the state of every component, and returns actions. It is
synchronous and does no I/O. Each step first runs the event's own handler, then
forgets a lapsed lease, lets MAM and qBittorrent decide what to do next, assesses
the notifications, and counts the step's history entry.

**Shell.** `Shell::dispatch` (`shell/mod.rs`) runs every action as its own worker: a
SQLite statement on a blocking thread, an HTTP request, a NAT-PMP exchange or a
`systemctl start`. Each worker's result returns as an event in one queue of 64, in
the order the workers finish. Named timers are sleeping tasks that send their expiry
into the same queue. One more thread writes history.

**Runner.** `Runner::run` (`runner.rs`) takes the queue's events in order, hands them
to the core, records them, and dispatches the actions.

What makes this hard is time: an event is stamped where it occurs and handled later.
Whatever the core believes may have changed by then. The owner may have paused, the
VPN may have moved, a newer request may be out, or the process may have restarted
with only what SQLite holds.

**Prototype.** `POC/` is the design that Windlass replaced. Each service is a
sans-I/O machine on a common runtime (`windlass-machine`): a bounded event channel,
tasks, keyed timers, and publishes that go to subscribers by topic. Nothing builds
it now. It is modelled because the repository keeps it, and apart from the rest.

| Part | Module |
|---|---|
| Startup and the pause over MAM requests (`core/startup.rs`, `core/mam_pause.rs`) | `MamPause` |
| Timers, clock, event queue (`core/timer.rs`, `shell/mod.rs`) | `Runtime` |
| Work under way (`shell/mod.rs`) | `Jobs` |
| Tunnel and failover (`core/tunnel.rs`, `shell/tunnel.rs`) | `Tunnel` |
| Port forwarding (`core/port_forwarding.rs`, `shell/natpmp.rs`) | `PortForwarding` |
| Tunnel with port forwarding (`core/machine.rs`) | `VpnGateway` |
| History (`core/history.rs`, `shell/history.rs`) | `History` |
| Ingress and shutdown (`shell/ingress.rs`, `shell/mod.rs`, `runner.rs`) | `Ingress` |
| Saved settings (`core/settings.rs`) | `Setting`, used by `MamSession` |
| MAM session: gate, epochs, cookie, addresses (`core/mam/mod.rs`, `core/mam/network.rs`) | `MamCore`, `MamSession` |
| MAM pacing (`core/mam/budget.rs`, `core/mam/network.rs`) | `Budget`, `MamSpacing` |
| Account, VIP, ratio guard, connectability (`core/mam/`) | `Account`, `MamWork` |
| Acquisition (`core/mam/acquisition.rs`) | `Acquisition`, `MamWork` |
| Reading MAM's replies (`shell/mam.rs`, `shell/mam_reply.rs`) | `MamReply` |
| qBittorrent and the registry (`core/qbittorrent.rs`, `core/registry.rs`) | `Qbittorrent`, `Registry`, `Torrents` |
| Notifications (`core/notifications.rs`, `shell/notify.rs`) | `Notifications` |
| Prototype: runtime | `Machine` |
| Prototype: the five machines with their shells | `QbitMachine`, `MamMachine`, `DockerMachine`, `TunnelMachine`, `WindlassMachine` |
| Dashboard, console, descriptions | not modelled |

`Parts`, `Prototype` and `MCMamLink` put components that share no state beside each
other in one run: a variable `part` says which of them a behaviour is of.

## The modules

**MamPause.** `core` is `State` with the fields of `MamPreferenceState` in it, `jobs`
the storage operations on worker threads, `disk` the stored row. `Start`, `Ask`,
`Perform`, `Handle` and `Crash` are `StartupEvent::Start`, the three owner requests,
`storage::execute`, the handling of an answer, and a restart. A failed statement is
rolled back; a crash may or may not let a running one commit.

**Runtime, Tunnel, PortForwarding, VpnGateway.** An expiry that is already queued
stays there when its timer is replaced, as in the shell. The code counts timer ids up
for ever; it only compares them, so a few reused ones are enough
(`RuntimeAssumption` says how many). `Tunnel` has `Watch` and `LastSwitch` in
`tunnel`, the saved switch in `switched`, and the server really connected in
`connected`. The unit that is being started takes the tunnel over before `systemctl`
returns, and goes on after a crash (`orphan`). Saved times lose their fraction of a
second (`Second`). `VpnGateway` composes tunnel and port forwarding as `Core::handle`
does. A repair for MAM also renews the lease there (`RepairRenews`).

**History.** The core's `HistoryState` and the writer's thread, with the channel of
commands one way and the queue of events the other. `Crash` includes a power loss
that drops the newest entries (`synchronous = NORMAL`).

**Ingress.** `send_timed` and `shutdown` are split where the code can be interrupted:
at the reservation, and, for the shutdown, between marking and sending. The runner's
stop condition is read in three steps, because its conjuncts read different shared
things.

**MamCore, MamSession, Setting.** `MamCore` has what an event does to the `Mam`, as
functions; `MamSession` has the events, the workers, MAM and crashes. Every core step
ends in `Decide`, as `Core::decide_mam` does. What account and acquisition want is any
request at any time: a read or a spend. The core starts a server only while it holds
the tunnel for unprotected. One start can outlive the process that asked for it, and
then moves the server while the next process holds the tunnel for protected
(`TakeOverOrphan` in `Tunnel`): `MoveServer` allows one such move for each time that
protection is found. `exits` has the addresses used since then, and
`AddressesAreReal` says that the core believes in none but these. An address that the
provider changes under a running connection is not in `MamSession`.

**Budget, MamSpacing.** Everything that decides *when* a request leaves, over pauses,
repairs, new cookies, failed saves and restarts. `paid` is the time at which the
requests so far would all be paid for at one every `Refill`. `RateBound` says that it
is never more than `Burst * Refill` ahead of the clock. `DecideNow`, `WantedNow` and
`SendableNow` are `MamSession`'s `Decide`, `Wanted` and `Sendable` with respect to
time.

**Account, Acquisition, MamReply, MamWork.** The first two keep instants as the
questions the code asks of them: whether a reading is fresh, whether it was taken
after the last admission, whether a wait is over. `MamReply` turns a status and a
body with at most one damaged field into a reply or a failure, as `interpret` and the
readers do. Bookmarks are read page by page, up to `MaxBookmarkPages`. `MamWork` is the one request at a time, its choice and its answer, with
an account that changes, lost answers, failed saves and crashes. The session is
accepted there and the budget has a token.

**Qbittorrent, Registry, Torrents.** The web UI session with its incremental copy of
the torrent list, the rows with their batched saves, and the commands that bring
qBittorrent to match. `Torrents` joins them as `Core::handle` does, with a
qBittorrent that restarts, expires sessions and is used by its owner.

**Notifications.** Conditions with their grace, notices, the log with its saves, the
outbox, deliveries with retries, and the timers of both.

**Machine and the five machines of the prototype.** `Machine` has channel, tasks,
timers and fanout. Each machine has its events and commands as handlers that end in
`Apply`, its shell's calls, and the world that these work on. `States` is its struct.
`WindlassMachine` also has the bridge and the forwarders of `init.rs`; the other
machines are there by what they publish. The bridge sends a port by way of the VPN
machine and its loss straight to the domain, so that the loss can overtake the port.
In `MamMachine` ages count up to their limits, and the wall clock is never set back.

## What the runs check

| Run | Instance | Distinct states | Properties |
|---|---|---|---|
| `parts` | 2 gateways, lifetimes 0 to 2; 7 steps of history, buffer of 2, limits 2 and 3; 2 producers, 2 slots, 2 effects | 154,037 | `RunningIsSaved`, `PausedSurvivesRestart`, `RequestsSettle`; `RequestsGoOn`; `RetainedExact`; `NothingLeft`, `ShutdownCompletes` |
| `tunnel` | 2 servers, 2 failures, spacing 2, clock to 3, seconds of 2 ticks | 425,838 | `SwitchesSpaced`, `ChecksGoOn` |
| `vpn_gateway` | 2 servers, 1 failure, spacing 1, clock to 1 | 2,035,747 | `LeaseOfServer` |
| `mam_link` | 2 pasted cookies, 1 issued, 2 addresses, 3 epochs; burst 2, refill 2, spacings 4, 5, 6, clock to 12 | 647,065 | `AddressesAreReal`, `CookieWaitsForAddress`, `ReplacedCookieUnused`, `PastedCookieStands`; `RateBound`, `LookupsSpaced`, `RegistrationsDecided`, `RegistrationSavedFirst` |
| `torrents` | 1 torrent, 2 rows, 2 ports, 2 disturbances | 510,120 | `CopyIsShown`, `RestartAgrees`, `Converges` |
| `mam_work` | 2 torrents, 3 accounts, 2 pages of 1 bookmark, 1 disturbance | 218,585 | `WedgeOnce`, `NoSecondSale`, `UnsatisfiedKept`, `UseFoundAgain`, `NotFreeSettles`, `PurchaseSettles` |
| `notifications` | 3 conditions, outbox of 1, log of 2, 2 changes, 1 fault | 76,831 | `OutboxKept`, `HeldIsTold`, `OutboxDrains` |
| `prototype` | one to three faults, orders or moves for each machine | 1,270,234 | `OneRefreshChain`, `UpdatesSpaced`, `RestartBudget`, `TrustedIsFresh`, `UpIsFenced`, `DomainFollows` |
| `progress` | the same machines, less Docker's, with fairness | 59,948 | `QbitConverges`, `ExitRegistered`, `ComesBack`, `FailuresEnd` |

Each property has a mutant in `PROJECT.json`: a plausible slip in one definition that
makes it fail.

**Bounds.** `MamPause` is finite as it stands. In `tunnel`, spacing 2 with a clock to
3 allows two switches with a crash, a failed save or a late answer in between, and
seconds of two ticks show the rounding. `vpn_gateway` needs one failure and one tick
to reach a switch while a request or its answer is out. In the history, a limit of 2 is exceeded,
trimmed and exceeded again within seven steps, and a buffer of 2 overflows before
storage opens. A queue of two slots is full when any three of the senders want to
send. In `mam_link`, three epochs are a connection, its interruption and the next
one; the pasted cookies are symmetric, and so are the addresses. A clock of 12 holds
two registrations, three lookups and a wait of 7. In `torrents` and `mam_work`, what
the owner, MAM and faults do is drawn from a budget of disturbances: two or one of
any kind, at any step, after any start. Two disturbances are a crash after a failed
save, or a session lost after an owner's act. In `mam_work` the two torrents compete
for the last place below the unsatisfied limit, and each fills a page of bookmarks,
so that a second page is asked for and the last allowed one is reached. In `notifications`, an outbox of one
overflows with the second notice. In `prototype`, each machine's budgets are given in
`MCPrototype`. Each budget is spent on faults of any kind that the machine's module
has: for MAM's machine a lost call, a lost answer to a registration that MAM took,
and a refused registration. Three moves of the tunnel (a port, a stuck state, up
again) are enough to keep a port over an interruption.

**Fairness.** Weak fairness is given to what the code bounds. SQLite's
`busy_timeout` ends a statement; `CHECK_TIMEOUT`, `REQUEST_TIMEOUT`, `SEND_TIMEOUT`
and the NAT-PMP attempt timeouts end a request; sleeping tasks wake; the runner takes
queued events. That a unit start ends is an assumption about the connect script:
nothing in `shell/tunnel.rs` limits it. `ShutdownCompletes` assumes that spawned work
ends without a panic, and the bounds on effects, timers and losses stand for work
that does not start new work for ever. `mam_work` and `notifications` also assume
that time passes. In the prototype a call that is replaced by a newer one of its kind
is disabled again and again, so calls and keyed timers are strongly fair: the
scheduler does not starve one task for ever. `ComesBack` has its assumption about the
peers in its statement. The `mam_link`, `vpn_gateway` and `prototype` runs check
safety only.

**Deadlock** is checked in `parts`, `tunnel`, `vpn_gateway` and `mam_link`. Once the
runner has returned, the process is over, and `Ended` says so in `Parts`. The other
runs end in peace when the budget is spent and nothing is left to do.

## Disagreements with comments and documents

- `rotation`: clearing the API cookie starts no new connection epoch
  (`core/mam/mod.rs:1017`: nothing requested equals nothing issued). A cookie issued
  on a request in flight then replaces the owner's removal. The comment at
  `core/settings.rs:649` says that no change by the owner is pending then. For the
  same reason a registration that was being saved is sent with the cookie being
  removed. `ReplacedCookieUnused` and `PastedCookieStands` are therefore stated for
  cookies that the owner replaces, not for ones that the owner removes.
- `wedge_race`: `history_read` stamps the bonus history with the time its answer is
  handled (`core/mam/acquisition.rs:668`). A history asked for at the moment of a
  wedged download, and slow to arrive, counts as new enough to show the wedge when it
  is not, and a second wedge is spent. `docs/mam-rules.md:147` says "Never spend a
  wedge twice on one torrent, even after a lost answer". In `mam_work` no wedge
  attempt comes of age during a request (`Prompt`), and `WedgeOnce` holds.
- `unread_body`: a torrent file whose body is lost on the way counts as MAM's refusal
  (`shell/mam.rs:212`), and holds all downloads. The comment at `shell/mam.rs:116`
  says that such a body is no answer.

Three more were met in the modelling. The properties are stated so that they hold of
the code:

- `core/port_forwarding.rs:244` says that an outstanding request already reaches the
  new gateway. A request that the old gateway has granted, with its answer on the way,
  does not: its lease is taken as the new server's until it is renewed.
  `LeaseOfServer` therefore also allows the lease of a gateway that was left with its
  answer on the way, or by a start that outlived its process (`left`).
- In the prototype, a port goes to the domain by way of the VPN machine and its loss
  goes there directly (`POC/windlass/src/shell/tunnel_bridge.rs:53`). When the loss
  overtakes the port, the domain keeps a port that is gone. `DomainFollows` says that
  it keeps none in every other case (`overtaken`).
- The prototype's tunnel machine keeps its port over an interruption and does not
  publish it again (`POC/windlass-tunnel-core/src/machine.rs:943`), while the domain
  forgets it. `POC/docs/invariants.md:56` says that the port qBittorrent listens on is
  always the current one. In `DomainFollows`, `told` is that the port was published
  since the tunnel last went down.

The rules on VPN switches and registrations (`docs/mam-rules.md:36` and `:40`) are
checked as the code implements them, on the times of the decisions
(`SwitchesSpaced`, `RegistrationsDecided`). A save, and for a switch a unit start,
lies between a decision and its effect. The effects can therefore be closer together
than the decisions by the difference of those delays. After a restart the rounding
of saved times allows up to one second less.

## What is proved

The proofs hold for every value of the constants. There is one lemma for each action
or handler, and each set of theorems follows from one inductive invariant.

**MamPauseProofs.** `RunningSaved`, `RunningAsked`, `PausedSurvives`, `OneOperation`
and `TypeCorrect`, with no assumption. The properties are not inductive: the core may
hold a preference for saved only because of what the one outstanding job is doing.
`IInv` adds that at most one job is in flight, which one each state of the core
awaits, and what the disk holds in each of its phases.

**MamSpacingProofs.** `RequestRate` is the rate of the bucket alone
(`BudgetAssumption`: burst and refill are positive). Its strengthening `Covered`
bounds what is owed by the missing tokens, counted from the last restoring.
`RefilledCovers` shows that rounding the elapsed time down keeps this true.
`RateAcrossRestarts`, `LookupSpacingKept`, `RegistrationSpacingKept` and
`SentIsSaved` are about `MamSpacing` (`MamSpacingAssumption`). A restarted core's
bucket is full and nothing about lookups is saved. `SpacingInv` therefore says that
such a core is `Fresh`: it sends nothing until a lookup is due, and by then
everything owed has been paid for. This needs `LookupSpacing >= Burst * Refill`,
which the code's constants satisfy (a minute against half a minute).

**IngressProofs.** `ShutdownLeavesNothing`: when the runner has stopped, no accepted
event is unhandled, no effect is under way and no history entry is unwritten. It
holds for any producers, capacity and number of effects, and assumes nothing. The
invariant `IngressInv` says that `active` is exactly the work still to be answered
for: effects on workers, commands with the history writer, the result that it is
sending, and completions in the queue (`Balance`). The stop condition's three tests
are made one after another while others go on. They are enough because nothing can
become active again once a shutdown is under way and `active` is zero (`Stops`).
`Counting` has the lemmas on how many elements of a queue lie in a set.

**TunnelHandlers, TunnelProofs.** `SwitchSpacingKept`, `ChecksAreSingle` and
`TunnelTyped`, for any servers, spacings, failure threshold and clock
(`TunnelAssumption`, `RuntimeAssumption`). An answer does not say which request it
belongs to, so `TunnelInv` counts. For each kind of operation, the jobs and the
queued answers of that kind are one if the core waits for it and none otherwise
(`Balance`). Then the switch that is reported saved is the one that the core decided,
and what is on disk, known or just read is never older than the last start, to the
second (`OnDisk`, `Paced`, `Carried`). `TunnelHandlers` proves what every handler of
the core does whatever the event (`Steps`).

**MamSessionLemmas, MamSessionProofs.** `AddressesKept`, `CookieWaits`,
`ReplacedUnused`, `PastedStands`, `OneRequestInFlight` and `SavedCookieStored`. Each
theorem states its two hypotheses. `MaxEpoch` is a natural number. Cookies that the
owner pastes are not ones that MAM issues: an owner who pasted the very cookie that
MAM is issuing would find it used, and the properties could not tell. `SessionInv`
relates the one request in flight to what the core waits for (`OneRequest`), the
setting and its write to SQLite (`Agrees`), the addresses to the servers used since
protection was found (`Addressed`), and the cookie of a request on the present connection to the one in
use (`Carries`). All of it is stated of the `Mam` that an action hands to `Decide`,
so that `Decide` is treated once.

**Only model-checked.** All liveness (`RequestsSettle`, `RequestsGoOn`, `ChecksGoOn`,
`ShutdownCompletes`, `Converges`, `NotFreeSettles`, `PurchaseSettles`, `HeldIsTold`,
`OutboxDrains` and the `progress` run): fairness and ENABLED are out of the prover's
reach. `RetainedExact` of the history, and the properties of `Torrents`, `MamWork`,
`Notifications` and the prototype's machines rest on folds, sorting, selections from
sequences and bags. What these compute for every input needs an induction over data
that the prover cannot do. `LeaseOfServer` composes two components, and only
`Tunnel`'s half has an invariant proved.

## What is not modelled

- The text of pages, notices and history entries; numbers and names within a field of
  MAM's replies; the bytes of NAT-PMP packets.
- The pages of history, the dashboard and the console: they change nothing. The
  events that the dashboard submits are those that the components take.
- The four settings other than the API cookie, their validation and their readers.
  They use the automaton of `Setting`.
- The schema of the database and its migrations.
- Jumps of the wall clock, events handled out of the order of their times in
  `MamSpacing`, and panics of workers.
- All of the core's components in one step. `Core::handle` is composed where
  components interact: tunnel with port forwarding, qBittorrent with the registry,
  MAM's account with acquisition, downloads and the ratio guard.
- The prototype's dashboard, capture of exchanges, configuration and tests, and the
  handlers of its MAM machine for events that no shell sends.
