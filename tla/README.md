# A verification of peplink-wg-bgp

The repository is a container for Peplink routers: a web dashboard that stores a
WireGuard and a BIRD configuration, and a privileged supervisor that brings up the
tunnel `wg0`, installs kernel routes and runs BIRD. This directory holds TLA+ modules
of its parts, TLC configurations for small instances, and TLAPS proofs. Paths below
are relative to `internal/` unless they say otherwise.

## 1. The system

| Part | State | Operations | Talks to |
|---|---|---|---|
| Web process (`server/`, `cmd/.../main.go`) | `s.cfg` under `s.mu`; sessions; event log | POST handlers that save settings or request routing actions; GET handlers that read | files, supervisor socket |
| Configuration files (`config/`, `bird/`, `wg/`) | `app.yaml`, `bird/bird.conf`, `wireguard/wg0.conf` | `Load`, `Save`, `Generate`, `MergeRedactedConfig`, `ValidateConfig` | written by the web process, read by both processes |
| Orchestrator (`orchestrator/routing.go`) | none | `Apply`, `Start`, `Stop`, `Restart`: sequences of supervisor actions that end at the first failure | supervisor client |
| Supervisor protocol (`supervisor/client.go`, `server.go`) | open connections, `ActionLock` | one connection per action, one goroutine per connection, one action at a time | Unix socket |
| WireGuard manager (`supervisor/wg.go`) | `m.process` | `Start`, `Stop`, `Restart` | `ip`, `wg`, `wireguard-go` |
| Route manager (`supervisor/routes.go`) | none (kernel table) | `Apply`, `PinClient` | `ip route`, DNS |
| BIRD manager (`supervisor/bird.go`) | BIRD daemons | `Start`, `birdc down`, `birdc configure` | `bird`, `birdc` |
| Authentication (`server/auth.go`, `pages.go`) | login token; sessions under `a.mu` | login, `requireAuth`, `sessionForRequest`, CSRF tokens in pages | browsers |
| Start (`docker-entrypoint.sh`, `main.go`, `Serve`) | socket file, processes | launch, bounded wait, exec, auto-start | docker, files |
| Status (`server/api_status.go`, `web/static/app.js`) | what a page shows, its event stream | `/api/status`, `/api/events`, `refreshStatus`, `runRoutingAction` | supervisor, browser |

What is hard in it:

* **Sequences are not atomic.** `ActionLock` covers one action. Between two actions of
  a request other requests' actions run, files are saved, wireguard-go or BIRD die.
* **Abandoned work.** A client gives up after 30 s; the supervisor does not notice and
  runs the queued action later.
* **Processes end on their own.** `m.process` may name a process that has died or been
  reaped, or one that has handed the device to a daemon and exited; `SIGKILL` takes
  effect after `Kill` has returned; a dead wireguard-go leaves its socket file behind.
* **Files are read several times.** `wg.restart` and `routes.apply` of one request each
  read `wg0.conf`; the POST handlers save a snapshot of `s.cfg` taken earlier; writes
  truncate first. The endpoint's name is resolved twice.
* **Text is rewritten by position.** Redacted keys are restored by section and count,
  while the user edits the text in between.
* **Starts race.** The container may stop at any moment and leaves its socket file; the
  web process and the supervisor start side by side.
* **Pages are asynchronous.** Answers overtake each other, streams are cut every 30 s,
  sessions expire between two lookups of one request.

What makes each part correct: no device comes up behind the manager's back and its
reports are true (of the device, the process handle, the config); requests that report
success have done what was asked; the endpoint of the tunnel is never routed into the
tunnel; answers belong to their calls; everything requested returns; acknowledged saves
survive; a placeholder is never stored as a key, and a key in use never shown or given
to another directive; only live sessions with their own token act; the container comes
up whatever it left behind; the page ends up showing the truth. `PROJECT.json` lists the
hazards by line with the properties that cover them.

## 2. The modules

| Module | Models | Used by |
|---|---|---|
| `WireGuardManager` | `wg.go`, one step per external command | `TunnelRefinement` |
| `BirdManager` | `bird.go`, one step per `birdc` and poll, several daemons | `MCBirdManager`, `BirdManagerProofs` |
| `RouteManager` | `routes.go`, one step per file, name and `ip` command | `MCRouteManager`, `RouteManagerProofs` |
| `SupervisorActions` | the host and every supervisor action that changes it, one step each | `RoutingStack`; implemented by the three above |
| `TunnelRefinement` | history variables and mapping from `WireGuardManager` to `SupervisorActions` | `MCTunnelRefinement`, `WireGuardManagerProofs` |
| `RoutingStack` | handlers, orchestrator, client, connections, `ActionLock` | `MCRoutingStack`, `RoutingStackProofs` |
| `ConfigStore` | `s.cfg`, the three files and the three saving handlers | `MCConfigStore`, `ConfigStoreProofs` |
| `WGConfig` | the text of `wg0.conf`: parse, validate, redact, merge, strip; the config page | `MCWGConfig`, `WGConfigProofs` |
| `Sessions` | login, sessions, `requireAuth`, CSRF tokens, restarts | `MCSessions`, `SessionsProofs` |
| `ContainerBoot` | entry script, `Serve`'s socket, `runServe` and auto-start, container restarts | `MCContainerBoot` |
| `Dashboard` | `/api/status`, `/api/events`, and what `app.js` makes of them | `MCDashboard`, `DashboardProofs` |

The three managers are described twice, and the two descriptions are tied together:
`SupervisorActions` has each operation as one step, small enough to compose with
handlers and timeouts; the manager's own module has every command; the second is
checked (section 3) and proved (section 4) to implement the first.

**WireGuardManager.** `pc` is the next command of the running operation; `process` is
`m.process`; `phase` is the life of each wireguard-go (booting, device created,
listening, killed, exited, reaped); `owner`, `conf`, `addrs` and `mtu` are the device;
`sockFile` is the UAPI socket file. `Begin` starts an operation; `ReadConfig`,
`LinkShow`, `LinkAdd`, `StartProcess`, `StatSocket`, `UserspaceInterfaceReady`,
`WaitTimeout`, `SetConf`, `AddrReplace` and `LinkUp` are the steps of `Start` (with
`FailStart` for the error paths that call `killLocked`), `LinkDelete` and `StopKill`
those of `Stop`; `Restart` is the second followed by the first, whatever the second's
outcome. Between any two steps a process may create its device, listen, detach, exit or
be reaped, and the web process may rewrite `wg0.conf`.

`wg.go:205` starts `wireguard-go wg0` without `-f`, and nothing in the repository sets
`WG_PROCESS_FOREGROUND`. Upstream then opens the device and the socket, hands both to a
daemon that it forks, and exits: the process in `m.process` is one that has ended, and
the device belongs to one that the manager never held and cannot kill. `wg.go` itself
treats it as a child that stays. The model has both (`Listen`, `Detach`), so that
nothing it says depends on which build of wireguard-go is installed. What holds in
either case is `NoLateDevice`: a wireguard-go that has yet to set up its device is the
one that the running `Start` waits for, or has been killed. That the manager holds the
owner of the device is not a property of this program. One thing is assumed: `ip link
show` of a device that exists fails only because the context of the operation has ended
(`ctxDone`). All commands of an operation share that context (`wg.go:72-91`), so those
after it fail too. Without this a `Start` could launch a wireguard-go beside a device
that is there.

**SupervisorActions.** Each supervisor action is a definition `A(ok)` that holds of the
outcomes the response `ok` may stand for. The tunnel's actions take the outcomes found
in `WireGuardManager`; `applyRoutes` stops after any prefix of its commands
(`ApplyPrefix`); BIRD may be down, booting, up or shutting down, and a second daemon
that an earlier `bird.start` gave up on may still be booting (`spare`). The constant
`Faulty` names the actions that may fail for no modelled reason.

**RoutingStack.** A handler holds the list of actions it has still to call (`todo`);
`Call`, `DialFails` and `CallTimesOut` are the three fates of a call; `Lock` and
`Execute` are the supervisor's goroutine for a connection; `Returned` is what `run` does
with an answer, and how `Apply` picks its plan from the answer to `wg.status`. The
auto-start goroutine is a handler that requests `start`. `clean` and `late` are history
variables of the properties: `SuccessMeansDone` speaks of a request that nothing else
disturbed, and for BIRD of one that found no daemon of an earlier request shutting down
or still booting (`LeftOver`), because a `bird.start` answered by such a daemon says
nothing about the moment after.

**ConfigStore.** A save is `Post`, then `Snapshot` (or `MergeKey` for `wg0.conf`), then
`Truncate` and `Write` for each of its files, then `Publish`. `Fail` is any error
return; `Crash` and `Boot` are the end and start of the process. Contents are sets of
settings and keys with special contents: missing, empty, garbled, and the
redaction placeholder. `want`, `orderly` and `bad` are history variables; `orderly` is
kept for settings and for `wg0.conf` apart, so that `SavesKept` and `KeyKept` are about
saves of one part, with those of the other overlapping them at will.

**BirdManager.** `FirstStatus`, `StartProcess`, `Poll` and `Wait` are `Start`; `Birdc` is
`birdc down` or `configure`. Each daemon boots, reads its config, answers, shuts down
and goes; only one answers on the socket at a time. Nothing keeps a daemon that was not
ready in time from becoming so later.

**RouteManager.** `LoadApp`, `ReadWG`, `Resolve`, then `ShowDefault` and `applyHostRoute`
for each endpoint address and pinned client, then `applyNet` for each advertised
network. `SetConf` is the part of `wg.start` that resolves the same name. `Remember`
keeps the history variables: `before` and `view` are the table and the config as the
rest of the system sees them until the operation returns.

**WGConfig.** A text is a sequence of lines; the operators have the names of
`config.go`. `getWGConfig` and `postWGConfig` are the handlers, each in one step (what
two saves do to each other between reading and writing the file is `ConfigStore`'s), and
the users' edits change the text area. `meant` is the text area with the key that each
placeholder stood for when it was loaded: it is what a faithful save would store. A
comment has its marker, `#` or `;`, and of its text a key or a placeholder is told apart
(`Line`), since both matter: `RedactConfig` passes comments through, so
`OnlyCommentsShowKeys` says that a key in an answer is one in a comment, and not that
there is none; and `;` comments are accepted and reach `wg setconf`, whose parser
(`WgReads`, external) knows `#` only, so `SetconfUnderstood` says that they are the only
lines of an accepted config that wg does not read. `shifted` is set by an edit that
moves placeholders against the keys they hid: a key line deleted or inserted above
another of its name, and a placeholder that the user types or pastes.

**Sessions.** A request is sent with the cookie and token of that moment (`Send`), reads
the clock (`ReadClock`), looks its session up (`requireAuth`) and, for a page, does both
again (`renderPage`). An ID stands for the session's CSRF token too, since neither is
ever generated twice.

**ContainerBoot.** `pid1` is the script and then the web process; `sup` is the supervisor,
whose socket is first bound and only then opened to the `app` user; `sock` is the file,
`stale` when its supervisor is gone. `Halt` is the end of process 1, which ends all.

**Dashboard.** A request for `/api/status` passes `requireAuth` and up to four supervisor
calls, each of which sees the host of its moment or fails, with the supervisor dead or
alive, and its answer is applied whenever it arrives. `shown` and `connected` are the
page. One answer may mix states of several moments and failed calls, and nothing says
otherwise; the claim is that the page converges (`PageCatchesUp`).

Every property has a mutant: a definition next to the one it replaces that changes it
as a plausible slip in the code would, under which TLC finds the property violated.

## 3. The runs

| Run | Asks | Instance | Distinct states |
|---|---|---|---|
| `wg_manager` | are the manager's reports true, does no device come up behind it, does every operation return; does `wg.go` implement the tunnel of `SupervisorActions` | 3 configs (own address and MTU; address; neither), 2 processes | 638 thousand |
| `bird_manager` | does `bird.go` implement its BIRD; does every operation return | 3 daemons, 2 polls | 13 thousand |
| `route_manager` | are endpoints pinned before anything is routed; are all routes there when an Apply reports success; does `routes.go` implement its routes | 2 texts (endpoint a name, an address), 2 app configs, a name that resolves to nothing, to one of two hosts, or to both and a v6 address | 1.5 million |
| `stack_faults` | does success mean done, is the endpoint outside, when any action fails, calls are abandoned, daemons die and files are saved | 1 handler, 1 connection, 2 tunnel configs with different endpoints, 2 app configs, client pinning | 5.3 million |
| `stack_concurrent` | do answers match their calls, does every handler come to the end of its calls, do accepted actions run | 2 handlers that request `start` (four calls) or `wg.stop`, 2 connections | 163 thousand |
| `config_store` | are acknowledged saves and keys kept | 2 handlers; a BIRD setting, a runtime setting, 2 keys, and the defaults | 4.0 million |
| `wg_config` | is no key in use shown, lost, given to two lines or to another directive; what of a saved config does `wg setconf` understand | 2 users, 2 edits; two peers in the file; see `MCWGConfig` for the lines and texts that may be typed and pasted, a placeholder, comments of both kinds and a key in one among them | 56 thousand |
| `sessions` | who gets through, how long, with which page; is a refusal final | 2 tabs of a browser, 3 session IDs, 2 starts | 804 thousand |
| `container_boot` | does the container come up, is the supervisor reachable | the code's ten looks and four actions | 1.8 thousand |
| `dashboard` | is the indicator honest; does the page catch up, do its buttons come back | 2 requests at a time, 2 disturbances | 225 thousand |

`stack_faults` requests the sequences and the two actions that start the tunnel;
`wg.stop`, `bird.start` and `bird.reload` occur in it as parts of the sequences.
`stack_concurrent` requests `start`, whose four calls may each be abandoned half-way and
run later, and `wg.stop`, which takes down what a start has just brought up.
`RequestsReturn` is about handlers; `http.Server`'s write timeout of 30 s (`main.go:72`) may have closed
the browser's connection by then, since one call alone may take that long.

**Refinements.** `Implements`, `ImplementsBird` and `ImplementsRoutes` substitute a
module's state into `SupervisorActions` (`INSTANCE ... WITH`). An operation takes effect
in the abstract system when it returns, with the result it reports; until then the
abstract system sees the state before it (`seen`, `Visible`, `before`), less what died
by itself. A save of a file that the operation has already read is ordered after the
operation (`read`, `unsaved`, `view`), as it would be under the lock. In `RouteManager`
a config of the abstract system is a text together with the addresses its endpoint
has, so DNS changes are saves of `wg0.conf` there.

**Bounds.** Two processes are what a dying one and a new one need, or a wireguard-go and
its daemon; two connections let an abandoned request coexist with the handler's current
one or with another handler's (`Conns` bounds the connections open at a time; a handler
waits for a free one). The proofs of section 4 are for any number of both.
Two configs with different endpoints and addresses show what a stale config does, and
the app config `a2` both pins a client and advertises the endpoint's own address,
which is the corner that the properties exempt by name. One network stands for all,
since every advertised network contains every host in the model. Symmetry is over
handlers (`config_store`), users (`wg_config`), tabs and session IDs (`sessions`), which
no definition tells apart, and is not used with liveness. `Resolutions` are the answers
that the resolver may give. `MaxPolls` (20 in the code) is 2, so that a start can give
up. `MaxEdits`
bounds the edits of a config, `MaxTime`, `MaxBoots` and `Ids` the sessions (a session
must be able to expire while another lives on), `MaxDisturb` what happens to the host,
to a page's requests and to its login: one change and one lost request, or two
changes, are enough for an old answer to overtake a new one.

**Fairness.** `WireGuardManager`: weak fairness of the operation's steps, because every
command runs under the 30 s context of `commandContext` (`exec.go:38-44`) and the wait
for wireguard-go has a 3 s deadline (`wg.go:219`); strong fairness of `WaitTimeout`,
because a deadline that has passed stays ready, and the `select` that every poll ends in
chooses among ready cases at random. `RoutingStack`: weak fairness of
handlers, of the client's deadline (`client.go:32`) and of a running action (the same
30 s context); strong fairness of `Lock` for each connection, because Go's
`sync.Mutex` hands itself to a waiter that has waited 1 ms. `BirdManager`: weak
fairness of the operation's steps, for the same contexts and the bounded polls.
`ContainerBoot`: weak fairness of the script, the supervisor's start and the web
process; they only compute, and no step of theirs waits for another. `Dashboard`: weak
fairness of requests, stream and reconnection; strong fairness where the model's bound
on concurrent requests makes an event or an action's refresh wait for a free one, which
the browser's queue serves in turn. A stream carries its events before the write
timeout (`main.go:72`) ends it, because 30 s are three intervals of 10 s; earlier ends
and lost requests are counted as disturbances. Nothing is assumed of
processes, files, users or the network. No connection has to be free for `Call`'s
fairness to be satisfied: `DialFails` is always possible.

**Disagreements found.** Two runs check what a document or test of the repository says
and end in a counterexample:

* `stack_stop` (`StopStops`): with BIRD not running, `Stop` fails at `bird.stop` and
  never reaches `wg.stop`; the tunnel stays up (`orchestrator/routing.go:59,90`).
* `wg_config_keys` (`PreservesExistingKeys`): deleting a peer above another in the
  redacted text gives the remaining peer the deleted one's key (`wg/config.go:82`).
  `EditKeepsKeys` shows that every edit that does not shift placeholders is safe, and
  `KeysStayInRole` that no edit at all makes a private key a peer's or gives one stored
  key to two lines.

Further configurations reproduce what the code does at the edge of what its passing
properties say. They are run by hand (`tlc -config <cfg> <module>`) and end in a
counterexample too:

* `MCRoutingStackLoop.cfg` of `MCRoutingStack` (`EndpointNeverLoops`, README.md:116-118): a
  `wg0.conf` saved between `wg.start` and `routes.apply` of one successful request pins
  the wrong endpoint, and the running tunnel's packets are routed into the tunnel
  (`routes.go:78`).
* `MCTunnelRefinementStop.cfg` of `MCTunnelRefinement` (`GoneMeansStopOk`,
  supervisor_test.go:719-755): `Stop` after wireguard-go died reports an error although
  the device is gone (`wg.go:172`).
* `MCConfigStoreLost.cfg` of `MCConfigStore` (`BirdSettingsPersist`, api_bird_test.go:55):
  overlapping saves undo an acknowledged one (`api_settings.go:37`).
* `MCWGConfigLong.cfg` of `MCWGConfig` (`SavedInFull`, config_test.go:165): a line of 64 KiB
  ends the merge, and the rest of the config is dropped without an error
  (`wg/config.go:137`).
* `MCWGConfigEndpoint.cfg` of `MCWGConfig` (`EveryEndpointPinned`, README.md:115-118): with
  several peers only the last endpoint is pinned (`wg/config.go:57`).
* `MCRouteManagerDNS.cfg` of `MCRouteManager` (`PeerOutsideTunnel`, README.md:116-118): the
  endpoint's name is resolved again by `routes.apply`; other addresses leave the peer's
  own unpinned (`routes.go:183`).
* `MCSessionsToken.cfg` of `MCSessions` (`PageHasToken`, auth_test.go:86-98): a session that
  expires between `requireAuth` and the page's own lookup yields a page without token
  (`pages.go:15`).
* `MCContainerBootAuto.cfg` of `MCContainerBoot` (`AutoStarts`, web/templates/config.html:23):
  auto-start dials once; TLC's shortest trace finds the socket bound and not yet opened,
  a longer one the stale file of an earlier run, which the script takes for a ready
  supervisor (`docker-entrypoint.sh:19`).

## 4. The proofs

For every value of the constants that satisfies the modules' named assumptions
(`ConstantsAssumption`, `HostAssumption`, `StackAssumption`, `ContentsAssumption`,
`RouteAssumption`, `BirdAssumption`, `TextAssumption`, `PlacedAssumption`,
`SessionAssumption`, `DashboardAssumption`: sentinels are not members of the sets, the
functions have their types, bounds are numbers). Beyond that kind there are three:
sensitive directives accept keys and the others do not (`wg/config.go:226-266`), the file a
container is provisioned with is one that would also save, and an app config advertises
something (`Generate`, which Apply calls before anything else, refuses one that does not,
`bird/config.go:55-57`; it is `None` in `RouteManager` and `NoConfig` in the composed
system then, like a missing file).

Every safety property and every refinement that a run checks is proved. Each module has
an invariant `Inv` that is inductive, with one lemma or step per action; TLC checked
every `Inv` on the instances of section 3 first.

**WireGuardManagerProofs**: `TypeOK`, `NoLateDevice`, `FailureDropsProcess`,
`StopMeansDown` and `OkMeansConfigured` hold in every behaviour. None but the first is
inductive. `Inv` adds what holds in the middle of an operation: `Control` ties `pc` to
the operation and to the config it has read, and says that `launch` is reached only
without a handle; `Ownership` says that the process that provides the device has
created it and is alive or killed, and that a delete that did not fail left no device;
`Launched` says that a wireguard-go is started when there is no device, and that one
which has not opened its own is still waited for, unless the context has ended;
`Configured` and `Addressed` say what the device, if it is still there, carries
after each command. The subtle case is a device that dies after `wg setconf` succeeded:
its absence makes the claims vacuous, and `NoLateDevice` says that no process is left
in its boot phase that could bring another, bare device.
The refinement `Implements` (theorem `TunnelRefined`) needs `RInv` as well:
`Recalled`, which config the rest of the system takes the operation to have read; and
`Foreseen`, how the device may differ from what was last seen at each command. A step is
then one of four kinds: quiet, a save, a death, or the return of an operation.

**RoutingStackProofs**: `TypeOK`, `AnswersMatch` and `EndpointOutsideTunnel`; and
`LockHeldByRunner`: whoever waits for `ActionLock` waits for an action that runs. The
invariant has two halves over disjoint variables. For the host, `PinnedFirst`: a prefix
routed to `wg0` was put there by an Apply, and every endpoint of the config of the last
such Apply, unless that Apply advertised it, has its host route on `eth0`, whatever
happened since. For the stack, `Connected`: a handler at work has actions left, a free
connection is nobody's, and a connection that is a handler's is the only one it waits on
and carries the head of its `todo`. `SuccessMeansDone` (theorem `SuccessIsReal`) is
about undisturbed requests and has a second invariant, `DoneInv`: `todo` is a tail of
one of the orchestrator's plans (`Planned`), a running Apply has read `app.yaml` as it
is (`Holding`), and what the plan has behind it is done (`Reached`).

**RouteManagerProofs**: `TypeOK`, `PinnedBeforeRouted`, `AppliedMeansRouted` and the
refinement `ImplementsRoutes`. `InOrder` and `Progress` say which routes are left to put
and that the table is the one before the Apply with the others changed, less what went
with the device: the endpoint's hosts, then the pinned clients, then the networks.
`AppliedMeansRouted` follows when nothing is left to put. It exempts hosts that the
config also advertises as networks, where the later command wins.

**BirdManagerProofs**: `TypeOK` and the refinement `ImplementsBird`. One daemon at most
has the socket (`OneAnswers`); the daemon that a Start launched is not told to stop
before that Start returns, and runs `bird.conf` as it was at some moment of it (`Launched`).

**ConfigStoreProofs**: `TypeOK`, `KeyKept`, `SavesKept`. The properties speak of moments
when no save of their part runs; the invariant has a half for each part (`OrderlyApp`,
`OrderlyKey`) and says what a save that no other one of its part overlaps was made from
and which files it has replaced (`AppSave`, `KeySave`), and that the files it has not
touched agree with the acknowledged saves (`AppAgrees`, `BirdAgrees`, `KeyAgrees`).
`AppFrame` and `KeyFrame` show once that no step of a save of one part disturbs the
other half.

**WGConfigProofs**: `TypeOK`, `OnlyCommentsShowKeys`, `RoundTrip`, `SetconfUnderstood`,
`EditKeepsKeys` and `KeysStayInRole`, for texts of any length. The file is one that
`ValidateConfig` accepts (`Accepted`), hence keys are only in comments and under the
names that are redacted. `InStep` is the heart of the other two: a form and its meaning
differ in values only, and each placeholder's `rank` (its number among the lines of its
name, in whatever section) is that of the key it hid; deleting or adding a line below
the last of its name keeps the ranks above it, and in an accepted text the rank is the
`occurrence` that the code counts. `SetconfUnderstood` rests on `Extract` keeping order,
sections and number of the lines it is given. Induction over texts is done with least
and greatest elements of sets of line numbers, which the library gives (`WFMin` of
`NatLessThanWellFounded`). `KeysStayInRole` needs no invariant of the form, whatever was
done to it: a line and its `occurrence` determine each other among lines of one
directive, so the lines that a stored line is restored to are at most one
(`RestoredOnce`), and an injection bounds the one set of lines by the other.

**SessionsProofs**: `TypeOK`, `AuthorizedOnly`, `OwnPageWorks` and `SessionLifetime`.
Cookies, pages and requests hold only sessions that were issued (`Known`), and the token
of a page is that of the session it was got with, or the session is gone (`OwnTokens`).
A session that was issued and is no longer in the map is never in it again
(`GoneForGood`), and a request is refused only when its session is out of it
(`RefusedWithout`).

**DashboardProofs**: `TypeOK` and `IndicatorHonest`. `Follows` says that the indicator
follows `statusStreamConnected`, and that the stream.

The proof attempts corrected the models in four places. In `SupervisorActions` an
`applyRoutes` could not lose the device half-way, which `RouteManager` can. In
`ConfigStore` the cases of `Mergeable` overlapped. In `WGConfig` a placeholder that the
user types has to count as shifting: it may get the key of another line
(`EditKeepsKeys` was false of it, on texts that the instance did not have then), and a
comment may hold a key. Three definitions were restated
because the provers cannot reason about the library operator they used, with the same
meaning: `Spare` of `BirdManager` (`Cardinality`), `SetconfConfig` (`SelectSeq`, now
`Extract`), and the empty table in the two tunnel-only substitutions.

Left to TLC: the liveness properties (`OperationReturns`, `RequestsReturn`,
`ConnectionsDrain`, `BootCompletes`, `SupervisorServes`, `PageCatchesUp`,
`ButtonsComeBack`), because fairness and ENABLED are out of the prover's reach. The
constants of `ContainerBoot` are the code's own numbers, so that its run, which checks
only liveness, is already the whole of it.

## 5. Abstractions, and what is not modelled

* A command either has its effect and succeeds or fails without one; a command that is
  killed by its context after it took effect is not distinguished. How wireguard-go
  detaches is one step (`Detach`); a device that it opens is its own until then.
* Read-only actions (`wg.dump`, `bird.status`, `bird.details`, `ping`), output text and
  the temporary setconf file are left out.
* The tunnel device of routes and of BIRD is `wg0`, the underlay is `eth0`; other
  interface names in `app.yaml` are not modelled. `wireGuard.mtu` of `app.yaml` is never
  passed to the manager, so `DefaultWGMTU` is what a config without MTU gets.
* In `SupervisorActions` the addresses of an endpoint belong to its config;
  `RouteManager` and `WGConfig` have names that change and several peers.
* `bird.conf` is present whenever BIRD is started.
* A garbled file may be read as anything.
* `WGConfig` leaves out white space, blank lines and letter case, and what makes a value
  well formed (`Accepts`). `Sessions` takes tokens never to repeat and compares them
  whole. `Dashboard` leaves out statistics, and models one page.
* `ContainerBoot`: the web process always runs as `app`, so `authorize` lets it through;
  that the supervisor is reachable stands for every later call, which `RoutingStack`
  models.
* Not modelled: the event log (an append and a trim in one critical section), the
  diagnostics (one read-only command each), path validation, the BIRD template and its
  field checks, the other forms and tables of the pages, build information.

## 6. Plan

Done: every part that keeps state or coordinates others, the refinements between the
managers and the composed system, and proofs of every safety property and refinement of
the runs. What could be added:

1. Properties that compose the theorems: what `SuccessMeansDone` says of the composed
   system, said of the command-level managers through the three refinements.
2. `SuccessMeansDone` for requests during which only files that they had yet to read, or
   files they do not read, were saved.
3. Lemmas about `ParseConfig` (the last value of a directive wins) for texts of any length.
