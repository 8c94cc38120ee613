# Verification of terraform-provider-alta

TLA+ models of the Terraform provider for Alta Labs routers, model-checked with TLC and, where
it says so below, proved with TLAPS. The provider writes a router's configuration through the
vendor's cloud and drives every change as one gated, commit-confirmed transaction: pause the
router's cloud agent, write to the cloud, arm a rollback timer on the router, let one push through,
probe, confirm, or put everything back. What can go wrong there goes wrong between three parties
that fail independently, and that is what the models are about.

## 1. The system

| Part | Source | State it keeps | Operations |
|---|---|---|---|
| Gate scripts | `internal/device/scripts/*.sh`, `scripts.go` | on the router: `state`, `journal.json`, `snap/`, `timer.pid`, `config.json`, `hash.txt` | `prepare`, `commit`, `confirm`, `rollback`, `rollback-now`, `release`, `status`, the detached timer |
| Gate | `internal/device/gate.go` | none | one method per script, the states and what counts as settled and in sync |
| Transaction engine | `internal/txn/engine.go` | local variables of one `Run` or `Recover` | `Ready`, `Run`, `abortStaging`, `rollback`, `restoreRouter`, `repair`, `Recover`, `revert` |
| Element | `internal/resources/element.go` | none | `apply` (plan, guard, recover, run), `put`, `drop`, `writable` |
| Router configuration resource | `internal/resources/router_config*.go`, `data.go` | Terraform state | `Create`, `Update`, `Read`, `Delete`, `ImportState`, `apply`, `unchangedSince` |
| Element resources | `internal/resources/{vlan,static_route,port_forward,firewall_rule,switch_port,dhcp_reservation}.go` | Terraform state, the provider's `applying` lock | the same five handlers each |
| Dial gate, SSH runner | `internal/device/dialgate.go`, `runner.go` | a channel of slots | `do`, `run`, dial retries |
| Document | `internal/routerconfig/*.go` | working copies of the cloud's documents | `Read`, `Plan`, `Writes`, `PreImages`, one codec per section |
| Hooks and files | `internal/device/hooks.go`, `files.go`, scripts, `internal/resources/device_hook.go`, `device_file.go` | Terraform state; on the router: the hook directory, the loader, the installed hooks, a file and its backup | `Put`, `Get`, `Delete` of hooks and files, boot-time loading |
| Probes | `internal/device/probe.go` | none | `Regressions` |
| Cloud client | `internal/cloud/client.go`, `api.go` | tokens and their end, a mutex | requests with one repeat after a refused token |
| Login | `internal/cloud/cognito` | none | `Login`, `Refresh` |
| API schema | `internal/apischema` | none | development-time fitting and conformance |

The engine calls the gate, the gate renders a script and gives it to the SSH runner, and the runner
takes the only slot of the dial gate, dials, and waits for the script. The cloud's writes go through
the cloud client. Nothing else passes between the provider and the router: a provider that finds an
unfinished transaction knows only what `status.sh` prints. The router, for its part, has processes of
its own: the cloud agent, which fetches and applies whatever the cloud has compiled, and the timer
that `commit.sh` leaves behind.

What is hard here, and what makes each part correct:

* **Gate and engine.** Sessions are lost with the script in any state, the provider dies anywhere, the
  timer acts while the provider is deciding, the agent acts whenever it runs. Correct means: the router
  never runs a mixture; whatever runs unconfirmed can be undone by the router alone; whatever was staged
  can be taken back from the router's own journal; the agent is never given back too early; a report to
  the user is true; and every apply ends.
* **Dial gate.** Slots must survive every way out of a call, hand-over must be fair, and no script
  may run twice.
* **Resources.** A document is read in two requests, changed, and written back a whole key at a time, while the
  portal writes the same keys. Correct means: the cloud is what the applies did one after the other, no change of
  the portal that nobody has seen is overwritten, and no apply leaves a transaction open or the lock taken.
* **Document.** Everything the provider does not know must come through a write untouched, applying the same
  configuration twice must write once, what was applied must read back as it was planned, and pre-images must undo
  exactly their writes.
* **Cloud client.** Requests share a token that ends, is refreshed, and is signed out under them. Correct means: no
  write is applied twice, no token ends on its way, and every request ends.
* **Hooks and files.** What the router stores, what is installed until the next boot, and what Terraform's state says
  are three things that a lost session or a changed name takes apart.

`PROJECT.json` lists every hazard with its line and the properties that cover it.

## 2. The modules

```
Router ── Engine ── EngineProperties
                       ├── EngineRefinement ── MCEngine      EngineRefinement INSTANCEs CommitConfirm
                       └── EngineInvariant ── EngineProofs      EXTENDS EngineRefinement
DialGate
   ├── MCDialGate
   └── DialGateProofs

Values ── RouterConfig ── Document ─┬─ Models ─┬─ Resources ── ResourcesProperties
                                    └─ Shapes ─┤                  ├── MCResources
                                               │                  └── ResourcesProofs ── DriftProofs      ResourcesProofs EXTENDS RouterConfigProofs
                                               └─ RouterConfigProofs
Provider
   ├── MCProvider
   └── ProviderProofs
CloudClient ── CloudClientProofs
HookFiles
   ├── MCHookFiles
   └── HookFilesProofs
```

The three groups below `DialGate` take from one another what they leave out: a transaction is many steps in `Engine`, a prepared list of
writes in `Provider`, and one step, applied or rolled back, in `Resources`; a document is a set of changed objects in
`Engine`, a value for every item in `Provider`, and itself in `Resources`; a cloud request that fails in `Provider` is a few exchanges in
`CloudClient`.

**Router** is one router and the cloud in front of it. Each statement of a script that changes
something, or that decides something, is an action named for the script (`Prep`, `Com`, `Conf`, `Rb`,
`Rel`) and for what it does. `pc[p]` is where process `p` is:
`fg` is the script whose session the provider is waiting on, `bg` one whose session has been lost and
that runs on, `timer` the detached process. The two statements of `prepare.sh` that copy the snapshot are
two actions, the state file is written by one of its own, and so on: a session can be lost between any two.
`AgentExit`, `Push`, `Reboot` and `LocalEdit` are external: the agent's daemon, the cloud's
compiler, the boot and an administrator, modelled from what the scripts rely on.

| Variable | In the code |
|---|---|
| `state`, `journal`, `snap` | `$D/state`, `$D/journal.json`, `$D/snap/` |
| `config`, `hash` | `config.json`, `hash.txt`; what `md5sum` and `cat` compare |
| `live` | what `cfg` last generated and runs |
| `agent` | `rc`: `running`, told to stop (`stopping`), `stopped` |
| `cloud` | the objects of the site, by key; `Compile` is what the cloud makes of them, and an object outside `Delivered` is one that `config.json` does not carry |
| `old` | the shell variable of `commit.sh` |
| `stdin` | the journal as `Gate.Prepare` sends it |
| `faults` | how many more faults may happen |

**Engine** is `element.apply` around `txn.Engine`. `epc` is where the apply is. A call of a gate method
is two actions, one that starts the script in `fg` and one that takes its answer, so everything on the
router interleaves with it. `change`, `todo` and `undo` are the local variables of `Run`; a crash forgets
them. `Status` reads are one step with the decision they feed, which the `Calm` and `Alone` guards
below make precise. Outcomes are named: `applied`, `unchanged`, `refused` (local edits, no answer, not ready),
`failed` (prepare failed, or the journal could not be read), `aborted` (staging failed, reverted),
`rolledback`, `recovered`, `stranded`, and `crashed` for a provider that told nobody.

**EngineProperties** holds what is claimed of them. **CommitConfirm** is what any commit-confirmed change
promises, in four actions, and **EngineRefinement** maps the engine onto it: a trial lasts from
`commit.sh` marking `committed` until `confirm.sh` marks `confirmed`, or until the restore has run `cfg`.

**EngineInvariant** is the inductive invariant behind the safety properties; **EngineProofs** proves the
types, what holds whatever goes wrong, that each step of the router and of the engine keeps the invariant, and from it the
safety properties and the refinement (section 6).

**DialGate** is `dialGate.do` around `SSHRunner.run`: the buffered channel and its queue of blocked senders,
the dial attempts, back-offs, the script, and cancellation at every one of them.

**Values**, **RouterConfig**, **Document** and **Models** hold operators and no state, one per function of `internal/routerconfig`
and of the resources' conversions. A JSON value is a tag with its content, so a number, the text of it and a missing key
are told apart exactly where the code tells them apart (`AsInt`, `PutPort`, `PutFlag`). The four list sections are one codec and four
tables, `<field, key, kind>`; switch ports and reservations have their own. `Document` says what `Plan` writes, what its
pre-images are, and what the cloud makes of a write. `Models` is Terraform's side, with null, sets and blocks. **Shapes** says which
JSON values, items and documents there are: what the constants of `Resources` are assumed to be, and what the proofs start from.

**Resources** has one action per handler of the six element resources and of `alta_router_config`, each with every conversion it
makes, and the portal, which adds, removes and retouches elements. A behaviour is about one section (`focus`).

| Variable | In the code |
|---|---|
| `cloud` | the site, the device and the clients as the API returns them |
| `tf[r]` | Terraform's state of an element resource: identity, attributes, and a VLAN's derived names |
| `conf` | Terraform's state of `alta_router_config` |
| `asked`, `held`, `fresh` | history: the configuration just applied; the element resources applied since anybody else wrote; nothing was written since `conf` was read |

**ResourcesProperties** states what they promise; its `Unknown` is everything in a document that no section models.

**Provider** is the two `apply` functions between their requests: `Acquire` is `applying.Lock`, `ReadSite` and `ReadState` the two reads
of `document`, `Writable` and `Recover` the guards, `Prepare`, `Stage`, `Commit` and `Undo` the transaction with a cloud write per step,
`RereadSite` and `RereadState` the read-back of `alta_router_config`. The portal edits between any two. `Return` is every way out, with the deferred unlock.

| Variable | In the code |
|---|---|
| `lock` | `ProviderData.applying` |
| `pc`, `want`, `doc`, `todo` | where each apply is, its plan, the document it read, the writes it has still to make or take back |
| `journal` | `journal.json` of an unfinished transaction |
| `cloud` | every item, by key; a write replaces the items of a key |
| `recorded` | the items in the state of each `alta_router_config` |
| `meant`, `raced`, `stranded` | history: the portal's and the committed changes in order; the items edited while an apply that had read them ran; a way back failed or the process died |

**CloudClient** is `Client.do` and `Client.token` around `cognito`: `Lock` decides among the cached token, a refresh and a login, as the
switch in `token` does; `RefreshCall`, `Initiate` and `Respond` are the exchanges made with the mutex held; `Serve` is
the API's answer. Time is counted in the 30 seconds no exchange outlasts, so `tokenSkew` is 2. `ends` and `signedOut` are what Cognito knows of the tokens.

**HookFiles** has one action per handler of `alta_device_hook` and `alta_device_file` and one per statement of their scripts that changes
something. `stored` is the hook directory by file name, `installed` the event scripts in `/etc`, which `Rebuild` (a boot or a
push) replaces by what the loader finds; `file` is `post-cfg.sh`, which decides whether the loader runs. A file name is a sequence: the hook, its
priority when it has an event, and `tmp` for the temporary file of a put.

## 3. Faults, races, bounds

A fault takes one of `MaxFaults`, and its kind has to be in `Faults`:

| Kind | What happens |
|---|---|
| `cut` | a session ends without an answer; its script is killed where it stands, or runs on alone; or a status read brings nothing |
| `crash` | the provider dies; the next apply is a new one |
| `reject` | the cloud refuses a write |
| `lateReply` | the cloud performs a write and the reply is lost |
| `agent` | the agent does not start, or does not stop in the time the script gives it |
| `reboot` | power is lost: every script and the timer die, boot starts the agent on `config.json` |
| `edit` | `config.json` is edited on the router |

Some orderings need timing that is possible and unlikely. They are named, and a run allows them or not:

| Race | What it allows | Without it |
|---|---|---|
| `overlap` | a script starts, or the provider acts on a status, while another script is between two of its writes | a lost script runs to its end before the next call, and nothing lands inside the milliseconds of the timer's restore |
| `slowStop` | `rollback.sh` copies the snapshot back, and returns, while the agent it told to stop is still there | the agent is gone by then |
| `slowPush` | a push arrives after `commit.sh` has given up on it | when `commit.sh` gives up, the cloud has nothing to send |
| `torn` | a lost session cuts the journal short | the whole journal had been sent |
| `lateEdit` | somebody edits the router inside a transaction | an edit comes while no transaction is open and before the engine calls `prepare.sh` |

These are assumptions, stated because the code makes them silently. What holds without a race or a kind of fault and fails
with it is listed in section 4.

Bounds. Two objects are enough for every prefix of the writes to differ from none and from all, two values
for old and new. Two faults let a fault strike the recovery of another, a transaction and its repair being
the two things a fault can strike. `Engine_recovery` has one object, because every fault and torn journals
are on and liveness is what it checks: how many writes are left changes how many steps the way back takes, not
whether it ends. `Engine_refinement` has two objects of which one is delivered, so that a transaction may also bring the
router nothing. At most one lost script runs on at a time (`bg`); a session lost while
one does is killed where it stands. Applies repeat without bound, and none of the
variables grows. A push replaces `config.json`, `hash.txt` and the running configuration in one step.
Three callers and one slot (the number the runner uses) give a queue of two, so that one caller can overtake
another; the number of attempts is the code's three.

`Resources` has two element resources, so that each has a neighbour in its list, two or three elements in the cloud, and one portal
edit. The elements have the forms the cloud uses (numbers and texts of the same port, flags
absent and explicit, sets in another order, fields nobody models), and the configurations ask for one of them, for a new one, for empty
values and for an illegal combination. One section at a time suffices because a handler touches one list, except that the
configuration of firewall rules also manages port forwards, which share its key. `Mixed` is false: a section
is declared either as elements or as a whole. Declared both ways, an authoritative section removes the elements, which is what its
documentation says.

`Provider` has two elements of one key, which is what the lock is about, and an `alta_router_config` whose items lie in that
key and in one of the second request. One edit and one fault each fall between any two steps. `Overlap` is false in the passing run: what
happens when it is true is `Provider_bug_unlocked`.

`CloudClient` has a read, a write and a request that is always refused, a token of three units, two
sign-outs (the second defeats the one repeat) and one failed call. The clock ends at the first token's end, so every request
meets fresh, old and ended tokens.

`HookFiles` has two hooks of an event with a common priority to change to and a hook of the boot, three configurations, one
lost session, one edit; applies, refreshes and rebuilds repeat without bound.

## 4. The runs

| Run | Shows |
|---|---|
| `Engine_faults` | `NoPartialPush`, `DeadMan`, `JournalRepairs`, `SettledAgrees`, `OnlyProbedIsConfirmed`, `ReleasedAfterRollback`, `VerdictHolds`, with any two of `cut`, `crash`, `reject`, `agent` |
| `Engine_recovery` | `ApplyReturns`, `RecoveryConverges` and `EditsAreRefused`, with any two faults of all seven kinds and torn journals |
| `Engine_races` | `ApplyReturns` in every overlap of scripts, timer, agent and late pushes |
| `Engine_refinement` | the engine implements `CommitConfirm`, the provider free to stop for good |
| `DialGate` | one connection at a time, one script per call, no idle slot while a caller waits, and every waiting caller gets the slot or gives up |
| `Resources` | for every section, element resources and `alta_router_config` keep what is not theirs, write once, read back what was planned, undo their writes, and never write over a change nobody reviewed |
| `Provider` | elements that share a key and a router_config applied on its own lose nothing of each other's and of the portal's, leave nothing open, and end |
| `CloudClient` | requests that share a token write at most once, never with an ended token, need one login per sign-out, and end |
| `HookFiles` | the state of hooks and files agrees with the router over lost sessions, boots and changed priorities |

The properties in words. `NoPartialPush`: the router runs the snapshot or the whole change, never
a mixture. `DeadMan`: while an unconfirmed change runs, or the agent could fetch it, a timer process is alive that
has not yet marked its rollback. `JournalRepairs`: as long as the gate is not settled, the journal's
pre-images turn the cloud into what the router was last sent. `SettledAgrees`: on a settled, quiet router the files, the running
configuration and the cloud agree, and the agent is up, unless `release.sh` settled the gate: it waits for a process of the agent, and one that was told to
stop and has not gone yet is such a process (`RelWait`). `Engine_bug_released` is where that leads. `EditsAreRefused`: a push that belongs to
a transaction never lands on a router that carries edits. `OnlyProbedIsConfirmed`,
`ReleasedAfterRollback` and `VerdictHolds` are about steps: what is confirmed is what was probed, the agent is
handed back only after the change is off the disk, and an apply's report is true when it is made.
`VerdictHolds` has two exceptions: a rolled-back transaction may be reported while the timer still
runs `cfg` on files that are already right, and of an apply that found a transaction and recovered it the agent is not claimed to run. Of one that undid its own it
is: `prepare.sh` has seen the agent gone, and the one `rollback.sh` stops is gone by the time it restores files (without `slowStop`), so the one that `release.sh` sees does not exit.

`NoPhantomDrift`: an element that was applied reads back as planned, whatever other resources applied since. That is so of a plan that the cloud
can hold (`Canonical`): a port with leading zeros loses them, the one DNS server "" reads back as none, one with a comma as several, and a reservation of no address is no reservation. The
run's configurations have such plans, and there the next plan does show a difference.
`SecondApplyIsQuiet`: applying it once more writes nothing, of any plan. `OthersKept`: an element's step, rolled back or not, leaves every other item,
every field no section models and every other section as they read before. `RolledBackReadsTheSame`: writes followed by their pre-images
change nothing that is read. `ConfigAuthoritative`: after `alta_router_config` its sections hold what it asked, item for item and in the order that is
theirs, the others what they held; items are compared as the cloud stores them (`AsStored`), and as the models that Terraform sees of them (`Alike`).
`StaleIsRefused`: it never writes when a managed section is not what its state says, compared the same way. `UntouchedIsAccepted`: in a cloud of the
portal's own form it is never refused for a change that nobody made. `PortalForm` says what that form is, of lists, ports and clients: the managed list is there and
its elements have ids, its routes are complete and in order without a tie, and no value is explicitly empty (a set may be), padded, repeated or of another type.

`SerialCloud`: outside an open transaction the cloud holds every committed change and every edit of the portal, in order, and nothing
else. The exception is in `raced`: an edit that falls between an apply's read and its write of the same item is
lost, which no lock of one process can prevent. `OneTransaction`: never two applies past the lock at once. `NothingLeftOpen`: a journal
outlives its apply only when the way back failed or the process died. `NothingUnseenIsOverwritten`: what `alta_router_config` writes over is what its
state showed.

`AppliedAtMostOnce`: the repeat of a refused request never repeats a write. `NoneEndsInFlight`: `tokenSkew` covers the age of a token
and the time a request needs. `OneSignOutIsRepaired`: a request the account may make fails as refused only after two sign-outs.
`LoginIsLastResort`: no password while a refresh token is good.

`DeletedIsGone`: of a deleted hook the next boot loads nothing. `KnownIsStored`: what the state says of a hook is what is stored, and
nothing older is installed. Both except hooks that a lost session or somebody else's edit left in doubt, and `DeletedIsGone` excepts the
files that a changed priority leaves behind (below). `OriginalKept`: the backup is what the first write found.

### Disagreements with what the repository says

Each of these runs checks one sentence of the repository, and TLC finds a behaviour of the code against it.
`PROJECT.json` quotes the sentences.

| Run | What happens |
|---|---|
| `Engine_bug_late_reply` | `abortStaging` reverts the writes before the failed one; a failed write that took effect is pushed alone when the agent is released |
| `Engine_bug_released` | a session is lost while `prepare.sh` waits for the agent to go; the next apply recovers, the start of the agent has no effect, `release.sh` sees the old process, writes `released` and the apply reports success; then the agent exits. The gate is settled and the agent stopped, which `Ready` refuses and `Recover` does not look at, so no later apply gets out of it |
| `Provider_bug_unlocked` | `alta_router_config` does not take the lock of the other resources, so one applied next to an element loses the element's change or its own |

### Disagreements without a run

Each of these was found with TLC too. To see one, give a copy of `Engine_bug_late_reply.cfg` the constants and the property in the table
(with `MaxFaults = 1`).

| What happens | Constants | Violated |
|---|---|---|
| after a crash during staging the cloud already holds the change, so the next apply plans nothing, reports success and leaves the gate closed (`element.go:130`; `docs/DESIGN.md:137`) | `Faults = {"crash"}` | `RecoversFirst` |
| the timer does not survive a reboot, and the router boots into the unconfirmed change (`commit.sh:7`; `docs/DESIGN.md:136`) | `Faults = {"reboot"}`, `RouterFairSpec` | `WindowCloses` |
| `ErrStranded` is reported with the change running and the agent up (`engine.go:208`; `engine.go:62`) | `Faults = {"cut"}` | `StrandedIsSafe` |
| a push after `pushed=0` is confirmed by probes that ran before it (`commit.sh:27`; `gate.go:107`) | `Faults = {}`, `Races = {"slowPush"}` | `OnlyProbedIsConfirmed` |
| a session lost while the journal is read leaves a closed gate and a journal that no run can parse (`prepare.sh:9`; `docs/DESIGN.md:137`) | `Faults = {"cut"}`, `Races = {"torn"}` | `JournalRepairs` |
| `rolled-back` is written before the snapshot is restored, and the provider releases the agent in between (`rollback.sh:6`; `gate.go:23`) | `Faults = {"cut"}`, `Races = {"overlap"}` | `ReleasedAfterRollback` |

Others are visible in the modules without a run, or are outside them:

* An update of `alta_router_config` is refused for "changes outside Terraform" in a cloud nobody touched, when a managed list and the objects
  around it are missing, when the cloud has explicit empty texts or flags, blanks in a list of DNS servers, or routes that
  are incomplete, out of order or tied (`router_config.go:223`, against `values.go:13-14`). `ResourcesProperties!RefreshedIsAccepted` is
  the property without these exceptions, and TLC violates it in `Resources`.
* After an apply that lists one switch port, the state of `alta_router_config` lists every port of the device (`router_config_model.go:215`;
  `docs/resources/router_config.md:79` says "other ports and port settings such as speed or PoE are left alone"). `ResourcesProperties!OnlyListedPorts` is what that would be of the state, and
  TLC violates it in `Resources` too.
* A hook whose priority changes is written under a new name, and the file of the old one stays: the loader installs it at every
  boot, after the hook is deleted too (`hooks.go:41`; `device_hook.go:241` says the effect stays until the next reboot). `DeletedIsGone` excepts it as `litter`.
* A put that is cut off between `cat` and `mv` leaves a `.tmp` file in the directory of the event hooks, and the loader's `hotplug/*` installs
  it at every boot, whatever state the next apply leaves (`hook-put.sh:11`, `files.go:127`).
* A session lost while a hook or a file is sent can move a shortened one into place, since `cat` reads the end of the session as the end of its
  input (`hook-put.sh:11`, `file-put.sh:4`; `files.go:49` says "writing atomically").
* When nothing was at a file's path at first, the second put copies the provider's own first content to `.bak-alta`
  (`file-put.sh:12`; `files.go:49-50` says "content the provider did not write").
* An edit of the portal that falls between an apply's read and its write is replaced with the whole key (`raced` in `Provider`), and a
  client's write carries all of its fields.
* `port_forward` sets `type` to `destination` on any rule of the list that it touches (`firewall.go:55`).
* A switch port that has both `all` and a list in the portal makes every put of any switch port fail, since all of the
  ports are validated on the way (`ports.go:56`).
* An empty text or list in a configuration reads back as null, so the next plan shows a difference.
* A duration below a second becomes 0 in the scripts (`gate.go:157`).
* Two requests that wait with the same refused token each log in (`client.go:92`).
* A `prepare.sh` that closes the gate and whose answer is lost leaves the agent stopped until the next apply recovers it
  (`engine.go:146` returns without a way back).
* A push of an earlier portal change that lands between the two copies of `prepare.sh:7-8` tears the snapshot. It needs a push to be under way
  when the engine starts; without `slowPush` the models have the cloud and the router in agreement by then.

## 5. Fairness

`RouterFairness` is weak fairness of each script, of the timer, and of the agent: processes of a running
router, each of whose loops counts to a limit. `FairSpec` adds weak fairness of the provider's own steps, for
`ApplyReturns` and `RecoveryConverges` only; `Begin` and every fault are never fair. The refinement uses the router's fairness
alone: what it says must hold for a provider that never comes back.
For the dial gate every wait inside a call ends (dials have a timeout, back-offs a timer, scripts their own limits);
callers need not come, and `Cancel` is not fair.

In `Provider` every request, script and transaction ends (weak fairness of `Apply`), and an element that waits for the lock gets it if
the lock is free again and again (strong fairness of `Acquire`): a `sync.Mutex` hands itself to a goroutine that has waited for a
millisecond. `Begin`, the portal and faults are not fair. In `CloudClient` every step of a request is weakly fair, since every exchange has the HTTP client's
timeout; waiting for the mutex needs no more, as each request takes it at most twice. `Resources` and `HookFiles` have safety properties only.

## 6. What is proved

Every theorem holds for any sets of objects and values, any delivered subset, any number of faults, callers, slots
and attempts, and any documents, configurations and elements.

**Types** (`EngineProofs!TypeCorrect`), from `RouterAssumption` alone, with every fault and race allowed. Most of
the work is that a plan, what is left of it and what was staged of it stay patches over `Keys` (`PatchFacts`,
`WithoutIsPatch`, `OnlyIsPatch`), and that only `fg` ever waits for an answer.

**The transaction.** None of its properties is inductive. `DeadMan`, say, needs to know
that the script about to mark `committed` or start the agent has the timer behind it; `NoPartialPush` that the agent is
gone before the first write and that what the cloud compiles to is the whole change when it comes back; `JournalRepairs` that
the journal was written from a plan of the very cloud that was then written to, and which prefix of it has been taken
back. `EngineInvariant` says all of it, in layers, each inductive on top of those before it, and each proved under as much as it can bear:

| Part | Says | Proved under |
|---|---|---|
| `OrderOK` | one script of the provider at a time, one process between two writes at a time, a lost script belongs to the call it was lost from | `Orderly` |
| `WhereOK` | what `state` reads at each step of each script and of the apply | `Orderly` |
| `StartOK` | from the check for local edits to the end of the transaction `hash.txt` describes `config.json` | `Orderly` |
| `ProbedOK` | between the probes and the confirmation nothing is left to push, so what runs cannot move | `Prompt` |
| `FilesOK` | how `config`, `hash`, `live`, the snapshot and `old` agree at each step | `Survivable` |
| `CloudOK` | what the cloud holds against the journal, and when it compiles to the snapshot or to the change | `Survivable` |
| `MemoryOK` | what `change`, `todo`, `undo` and the journal in transit have to do with the cloud | `Survivable` |
| `AgentOK` | when the agent is known to be stopped, that it runs when the gate is clean or confirmed, and `DeadMan` | `Survivable` |

`Orderly` allows every kind of fault, reboots, late replies, local edits and torn journals among them, and excludes the races `overlap` and
`lateEdit`; `Prompt` excludes `slowPush` as well. `Survivable` allows the faults `cut`, `crash`, `reject` and `agent` and no race. None of
this is for convenience: with `lateReply`, `reboot`, `overlap`, `slowPush` or `torn` allowed one of the properties below fails (section 4).

* Under `Orderly`: `ScriptsStayInOrder`, `StartsInSync`, and from them `EditsAreRefused` (`NoEditIsOverwritten`). Under `Prompt`: `OnlyProbedIsConfirmed`
  (`ConfirmsWhatWasProbed`).
* Under `Survivable`: `Inductive`, then `NoPartialPush`, `DeadMan`, `JournalRepairs`, `SettledAgrees`, `ReleasedAfterRollback` and `VerdictHolds`.
  The agent's part of `VerdictHolds` is an invariant of its own on top of `IInv`, `ResumedOK`: once an apply has begun a transaction (`Undertaken`) no agent is still stopping when
  `release.sh` starts one (`AgentIsResumed`). It is false of an apply that ends what another began, which is what `Engine_bug_released` shows.
* `EngineImplementsCommitConfirm`: the initial states of the engine are initial states of `CommitConfirm`, and each of its steps opens, tries,
  accepts or undoes a change, or is invisible. A step that matters is small (a push, the two marks, the end of a restore); the work is that all others leave
  `OnTrial`, `Offered` and the good configuration alone, which is what `IInv` is for. The liveness half of `CommitConfirm` stays with TLC.

There is one lemma per action and one step per part. Two of them need an
argument, the rest is case analysis: staging the last write makes the cloud compile to the offer (`StagedIsOffered`), and reverting the last
pre-image makes it compile to the snapshot (`RevertedIsSnapshot`).

**Dial gate** (`DialGateProofs`): types, `Serialised`, `NothingRepeated`, `NoLostSlot`. The invariant is that the queue
lists waiting callers once each, that the holders never outnumber the slots and exhaust them while anybody waits, and
that a call that has not reached its script has not run it.

**Cloud client** (`CloudClientProofs`): types, `AppliedAtMostOnce`, `NoneEndsInFlight`, `OneSignOutIsRepaired`, `LoginIsLastResort`, for any
requests, length of the run, sign-outs and faults. The invariant `IInv` adds that an exchange lasts one unit (`ClockOK`), that the client believes an id token
to last one unit longer than it does at most (`TokensOK`), and so that `Skew`, which is two, leaves the unit an exchange needs (`SentOK`); that
what was not answered was not applied (`AppliedOK`); and how many sign-outs a request has seen by its second attempt
(`SignOutsOK`).

**Provider** (`ProviderProofs`): the types and `NothingLeftOpen`, both whatever overlaps: they are about one apply
and its own way out. The rest assumes `~Overlap`, because with it the properties fail (`Provider_bug_unlocked`). `IInv` there
relates what the applies remember to the cloud:

| Part | Says |
|---|---|
| `OrderOK` | the element past the lock is its holder, and a router_config under way is alone |
| `JournalOK` | an item is what was meant, or its pre-image in the journal is |
| `ReadOK` | until an apply stages, the document it read is what is there |
| `StageOK` | the journal is the pre-images of the keys it changes, and each key holds what was read or what is asked for, as it was staged or not |
| `UndoOK` | what is left to take back has its pre-image in the journal, and the rest is back |
| `SeenOK` | a router_config that went on past `unchangedSince` has read what its state shows |

All parts but `OrderOK` except `raced`, which is what a lock in one process cannot help. `SerialCloud` is `JournalOK`, `OneTransaction` is `OrderOK`, and
`NothingUnseenIsOverwritten` is `SeenOK` at a step of staging.

**Hooks and files** (`HookFilesProofs`), for any names, priorities, scripts, contents, lost sessions and edits. `KnownIsStored` and `DeletedIsGone`
need an invariant for each hook: its files are the one its state names, the two that its put is writing, or litter (`LitterOK`), and a put
that is still heard has written what its step says (`KnownOK`). `StepKeeps` reduces a step to the one hook it is about, so that every action has a
lemma about that hook alone; only `Rebuild`, which replaces everything installed, is argued for all of them. `OriginalKept` is inductive once it
adds that there is no copy before the first write.

**Codecs and lists** (`RouterConfigProofs`), for every JSON value and every list. Writing an item over an element is a fold over the codec's rows, and a
write of a list folds over its items; what a fold does for every list needs induction, and no prover here takes an induction theorem. The module
gets it from a least counterexample instead: `NatMin` picks the smallest number with a property, and `FoldLeft`'s own recursive function
steps from the one before. Each codec is four tables, so what is proved of a row (`FieldReads`) is proved of `<field, key, kind>`, and the tables are only looked at to see that no
two rows share a key.

* `ElementReadsBack`: each field reads back as it was written. `UnknownFieldsAreKept`: a key no row names is as it was. `SecondEncodeIsQuiet`: the
  second write of the same item is the identity.
* `ListReadsBack`: of a list that is written, what reads back is the items, each of them and nothing else; in the order asked for when the order is theirs
  (firewall rules), and by metric and network for routes. That a sort is a permutation in order is proved by counting the elements before each (`Ranks`, `SortedLists`).
* `SecondWriteIsQuiet`: writing the same list again changes nothing of the document.
* `PortsReadBack`, `SecondPortsWriteIsQuiet`: the ports asked for read back as asked, those nobody named as they did, and the second write is the
  identity. A port is written at its own place in the device, so this is a fold of writes at places apart (`PutAside`, `Plugged`).
* `ReservationsReadBack`, `SecondReservationsWriteIsQuiet`: what reads back is the reservations asked for, no other, by MAC address; the second write edits no client.

The hypotheses are what the code needs. `PlainItem` excludes what no codec can hold: a list of DNS servers with the one name "", a port with leading zeros (which the
codec keeps as a number). `HoldsElements` says that what the cloud holds at the path of a list is a list of objects. `Plugged` and `Reservable` are the errors the code checks for (two
items of one port or client, all VLANs and a list of them) and the types of the fields; `IsPort` and `IsClient`, that a port or a client of the cloud is an object.

**Documents** (`ResourcesProofs`). `UndoneReadsTheSame`: for any two documents, the writes that lead from one to the other, followed by their
pre-images, leave the first reading as it did. It does not leave it as it was, since a record that the write created stays, and a key that was missing is
empty. `PlannedIsRead`: of a configuration without an error, the cloud reads after its plan as the working copy it was overlaid
on, and a plan without writes changes nothing that is read. `RollbackReadsTheSame` is the action property `RolledBackReadsTheSame`, from the
invariant that the cloud is a document (`IsDocument`) and Terraform's states are lists of what they are lists of (`Documented`).

`AppliedReadsBack`: of a whole configuration without an error, every section it manages reads back from the cloud after its plan as it was asked for, and every
section it leaves out reads as it did; the document keeps the form it had. `SecondApplyWritesNothing`: planned once more, it has no write. `Apply` folds over the
six sections, so the argument is that each is written at a place of its own: what a later section does leaves an earlier one `Aside`
(the two rule lists share `firewall`). What the cloud holds afterwards is not the working copy but says the same (`Says`), and a section that was written
stays so under anything that says the same (`ListSettledSame`, `PortsSettledSame`, `ShownReservationsAreQuiet`). `Ready` and `Fits` are the hypotheses above, of every section.

**Resources over time** (`ResourcesProofs`, second half, and `DriftProofs`, the last three), as theorems of `Spec`: for any documents, any configurations, any number of
element resources and edits, declared both ways or not. The theorems above speak of one document and have hypotheses; what follows is that the
resources and the portal never leave them, which took five invariants.

| Invariant | Says | Why it is needed |
|---|---|---|
| `Orderly` | the cloud is `Regular` and `Sortable`, the states have the types of their schemas (`Documented`), and each names its item as the cloud does and shares it with no other (`Stated`) | everything above assumes it of one document; here it is of every document a behaviour reaches |
| `Recorded` | the configuration in the state of `alta_router_config` can be asked for again | a state is written by `Read` and `ImportState` as well as by an apply, so it need not be one of `ConfWanted` |
| `HeldShown` | the section shows what each applied element asks, as the cloud stores it | `NoPhantomDrift` is about an item that other elements' writes have gone over since |
| `FreshlyRecorded` | until something is written, what `alta_router_config` has in its state is what the cloud says | `UntouchedIsAccepted` is about a state and a document that were written at different steps |
| `HeldFixed` | the objects of the section are already what writing their own items makes of them, each identity has one object, and writing the applied item over its own changes nothing | that an apply is quiet is about the bytes of the document, not about what is read |

* `CloudStaysRegular`: the cloud keeps its form whatever the resources, a rollback and the portal do. The argument is that every write ends in a document that says what one
  of its sections was asked to (`NextIs`), that a document which says the same has the same form, and that an edit of the portal adds or changes one element.
* `NoItemIsShared`: two element resources never own the same item of the router, generated identities included. This is what lets each of them go over the list without
  the other's item (`Stated`).
* `RouterConfigIsAuthoritative` states `ConfigAuthoritative`. Most of it is that a set, a null or a block of a model and the item it is converted to agree
  (`Alike`), and that items keyed by identity come back under their keys.
* `StaleUpdateIsRefused` states `StaleIsRefused`. The code compares what it would write with what is there; that no write is planned means that each section reads
  as recorded is `PlannedIsRead` used backwards.
* `AppliedReadsAsPlanned` states `NoPhantomDrift`, from `HeldShown`.
* `AppliedAgainIsQuiet` states `SecondApplyIsQuiet`, from `HeldFixed`. What one element wrote stays a fixed point of the codec under what the others write
  (`StillFixed`), until the portal or `alta_router_config` writes; a refresh may drop the element, and an item that was refreshed is fixed too (`RefreshedIsFixed`).
* `UntouchedUpdateIsAccepted` states `UntouchedIsAccepted`, from `FreshlyRecorded`. A section in the portal's form is what it reads as, item by item (`PortalIsAsRead`); the record of
  it gives every item back (`RecordRecalls`: rules in their order, the others once for each key), an item that was read and given back writes nothing over its own object
  (`RecallsFixed`), and keys sorted by text come back in the order of the list (`RecalledOrder`), so the whole configuration is no error and writes nothing (`RecordIsQuiet`).

The theorems rest on what the constants of the models are, and on nothing about what the code does with them:

| Assumption | Says | In the code |
|---|---|---|
| `DecimalAssumption`, `EmptyIsNoNumber`, `ZeroIsANumber` | a number has one text of its own, 0 among them, and the empty text is not one | `strconv` |
| `RejoinedAssumption` | a text that is split at its commas is split into names without one | `strings.Split` |
| `LexicalAssumption`, `NumbersAreOrdered` | texts are ordered, those of numbers among them | `<` of strings |
| `ClientOfAssumption`, `MACAssumption` | there are finitely many addresses, and one spelling of each | `dhcp_reservation.go:107`, `router_config_schema.go:18` refuse what does not parse |
| `CloudsAssumption`, `RegularAssumption` | the cloud is JSON to begin with: lists of objects with ids that differ, clients with a MAC address | what the API returns |
| `WantedAssumption`, `ConfWantedAssumption` | a configuration has the types of its schema, its sets are finite, and no two resources of it name the same item | the schemas and their validators; two resources of one identity are a mistake that no provider sees |
| `NewIDsAssumption` | an id that is generated is a text, and not one that is configured | random ids |
| `PortalAssumption` | the portal writes JSON, gives what it adds an id, and does not take the network off a route | the API |

**Model-checked only.** All of liveness (`ApplyReturns`, `RecoveryConverges`, `EveryoneServed`, `EveryApplyReturns`, `EveryRequestEnds`, and that of
`CommitConfirm`), since the prover has no fairness. Of `Resources`, `OthersKept`: that the *other* items of a section read exactly as before needs every one of them to be
as the cloud stores it. An element that the portal left with a padded port or a VLAN's number as a padded text is put in its one form by the first write of its neighbour, which the
run's clouds do not have and the assumptions allow.

## 7. What is not modelled

* Time in the transaction. The window of the timer may end at any moment, and limits of loops are reached when what they wait for cannot come, or,
  under a fault or race, at any moment. That a window of a few seconds expires before the probes can have run is
  therefore not visible here.
* `ModifyPlan`. What it refuses, the apply refuses again; what it fills in (the site and the device) is fixed here to one of each.
* Blanks around a DNS server's name: no validator refuses them, the text is written with them and read without (`network.go:92`, `values.go:185`), so that such a name does not come back as
  it was asked for. A name with a comma, which does not either, is modelled (`NamesIn`, by the table `Rejoined`).
* Parsing of MAC addresses, CIDR addresses, decimal numbers and import identities: tables given as constants.
* What a hook does when it runs, `destroy_script`, `run`, files with `backup = false` or drift detection by hash, and file modes.
* The comparison of two probe reports (`Regressions`): a report shows a regression or does not.
* The devices data source, the settings of the provider block other than `read_only` and `ssh`, the HTTP helper, SRP, SSH authentication: input and output,
  declarations, arithmetic.
* `internal/apischema`: development-time fitting of schemas to recorded responses, pure and used by no apply.
* The loss of writes to the router's flash that a power cut can bring: `reboot` keeps what was written.

## 8. Plan

1. Done: the router, the engine, the abstract change and its refinement, the dial gate, and their proofs.
2. Done: the documents, the configuration resources, the provider with its lock, the cloud client, hooks and files, model-checked.
3. Done: proofs about the provider, the cloud client, hooks and files.
4. Done: the safety part of the refinement of `CommitConfirm`, and the parts of the invariant that hold under every fault.
5. Done: the codecs and the list sections, rollback and planning of whole documents.
6. Done: a whole configuration reads back as it was applied and writes nothing the second time.
7. Done: the cloud keeps its form whatever the resources and the portal do, and from it every safety property of the resources but one as a theorem of `Spec`.
8. Left: an `OthersKept` that is true of every document, and its proof.
