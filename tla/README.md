# Verification of aurproxy

aurproxy keeps an nginx configuration in step with what service discovery, an
HTTP API and health checks say about the endpoints behind it. This directory
holds TLA+ models of the parts of it where that can go wrong between greenlets,
between processes and between a fault and the next try; TLC configurations that
check them on small instances; and proofs, checked by TLAPS, that the most
important of the properties hold for instances of every size.

All paths are relative to `src/tellapart/aurproxy/` unless they begin with
`README`. Line numbers in the modules' comments and in `PROJECT.json` are those
of the sources.

## 1. The system

aurproxy is one Python process with gevent greenlets: a greenlet runs until it
waits (a ZooKeeper call, an HTTP request, a timer, a queue, an event), and only
then may another run. So a step of a model is what a greenlet does from one wait
to the next; this is what every module's actions are. nginx, ZooKeeper,
kazoo's watch recipes, the checked endpoints and the clients of the HTTP API are
other processes or libraries, modelled from how the code uses them.

```
 ZooKeeper ── watches ──▶ ServerSet ── on_join/on_leave ──▶ ProxySource.add/remove
 HTTP API ── PUT/DELETE/expirations ──▶ ApiSource ── add/remove ──┐    │
                                                                  ▼    ▼
 health checks, ramps, delays ── share ──▶ ShareCalculator ──▶ SourceGroupManager
          │                                                            │ endpoints, weights
          └────────── signal_update ──▶ ProxyUpdater ──▶ NginxProxyBackend ──▶ file, SIGHUP ──▶ nginx

 mirror source ── signal_update ──▶ MirrorUpdater ──▶ launch script, kill ──▶ gor (kept up by Aurora)
 run ── add ──▶ registerer ──▶ ELB, Route53, Azure ◀── synchronize (cron)
 quitquitquit ── shutdown handlers ── remove ──▶ registerer
```

### Components

| Component | State | Operations | What is hard | What makes it correct | Status |
|---|---|---|---|---|---|
| ServerSet, ServerSetSource (`source/sources/serverset.py`), AuroraProxySource, ProxySource | `_nodes`, `_members`, `_watching`, the notification queue, `_endpoints` | watch callbacks, worker, iteration, start, stop | three greenlets on the same state; reads that wait; one-shot watches; a path that is deleted and created again | every node that stays is served, every node that left is not; `_members` follows the snapshots in order | partly: all but the loss of the session |
| ProxyUpdater (`proxy.py`), NginxProxyBackend (`backends/nginx/backend.py`), `move_file`, `PeriodicTask` (`util.py`) | `_needs_update`, `_last_updated`, the file and its backup; nginx | signal, periodic update, backup, write, restart, revert, setup | one of several steps failing; nginx dying, starting or reloading between the steps; aurproxy dying | no update is forgotten; the file is replaced or put back, never lost; nginx ends with what is wanted | modelled |
| HttpHealthCheckShareAdjuster (`share/adjusters/health.py`) | `_check_results`, `_status`, the stop event | a chain of checks that schedules itself, start, stop, the share | stop while a check is in flight; thresholds; exceptions that end the chain | the hysteresis of its thresholds; every change of the share is signaled; a stopped chain ends | modelled |
| SourceGroupManager (`source/manager.py`), ShareCalculator (`share/calculator.py`) | calculators per source and endpoint, the start of weight adjustment | add and remove of endpoints, weights, the `endpoints` property | late checks of removed endpoints; constructors that raise; arithmetic of weights | one running calculator per endpoint; changes are signaled; weights follow shares | modelled |
| ApiSource (`source/sources/api.py`) | the map of managed sources, their expirations | PUT, DELETE, expiration | requests and expirations that interleave where a source is started or stopped | no source is lost or stopped twice; an expiration ends its own source; every endpoint has its calculator | partly: all but `stop` of the ApiSource, which nothing calls |
| CuratorProxySource (`source/sources/curator.py`) | as ServerSet | as ServerSet | as ServerSet; a node that cannot be read costs the whole difference, or the start | members are served, also after a start that raised; a member is dropped or its leave was given up | modelled |
| MirrorUpdater (`mirror.py`) | `_needs_update`, the launch script, the pid file; gor | signal, update, kill, set_up | gor launched in the middle of an update; a kill that fails; a script cut short, with the error or without | no update forgotten, no gor with an old command overlooked, one kill per change | modelled |
| Registration (`register/`) | the registry of a cloud provider; Azure: the network interface, `_check_states` | add, remove, synchronize, check | looks that are outdated when acted upon; synchronize racing the tasks; an interface written as a whole by several | running tasks are registered, ended ones are not; synchronize repairs the rest; a lost registration is noticed | modelled |
| Lifecycle, HTTP module, commands (`app/`, `command.py`) | registered handlers | run, /quitquitquit, /abortabortabort, /health, shutdown | handlers that raise; requests that overlap | every handler runs once | partly: as far as registration goes |
| DelayStart, Ramping adjusters (`share/adjusters/`) | start time, stop event | start, stop, share at a time, update signals | comparisons at the ends of the interval; the last signal | the share never falls, and its final value is rendered | modelled |
| MesosMasterProxySource (`source/sources/mesos.py`) | the members and the leader | join, leave | members join one by one, so the leader computed from them changes on the way | the lowest candidate is the only endpoint | modelled |
| Static sources (`source/sources/static.py`) | one fixed list | start, stop | they share endpoints with other sources | as for ApiSource | modelled, as managed sources |
| Metrics (`metrics/`) | the store | create, increment, publish | the cap of the store | - | not modelled; publishing is pure I/O |
| Configuration objects, templates | none | rendering | - | - | not modelled: a rendered configuration is a value of ProxyUpdater |

`PROJECT.json` lists them with their files, and under `hazards` each place in the
code where something can go wrong that a test would hardly reach, with the
properties that would catch it.

## 2. The modules

| Module | What it is | Lines it models |
|---|---|---|
| `ServerSet` | discovery: ZooKeeper, kazoo's watches, ServerSet, ServerSetSource | `serverset.py`, `source.py` |
| `MembershipView` | what a ServerSet promises: a view that follows a stream of snapshots | abstract; `ServerSet!MembersFollowSnapshots` shows that ServerSet implements it |
| `ProxyUpdater` | signal to reloaded nginx | `proxy.py`, `backend.py`, `move_file`, `PeriodicTask` |
| `HealthCheck` | a chain of checks | `health.py` |
| `HealthHysteresis` | what a health check promises: a status with hysteresis | abstract; `HealthCheck!FollowsHysteresis` shows the implementation |
| `SourceGroup`, `Weights` | calculators, weights, what is rendered | `manager.py`, `calculator.py`, `source.py` |
| `ApiSource` | managed sources, requests, expirations | `api.py` |
| `ManagedEndpoints` | `ApiSource` composed with the calculators of its manager | `api.py`, `static.py`, `source.py` |
| `TimedShare` | shares that follow the clock, and what is rendered of them | `delay.py`, `ramp.py` |
| `MesosMaster` | `ServerSet` with the source that serves the leader only | `mesos.py` |
| `Curator` | discovery by Curator, its error handling | `curator.py`, `source.py` |
| `Mirror` | signal to restarted gor | `mirror.py`, `command.py` |
| `Registration` | tasks, their registration with AWS, synchronize | `command.py`, `app/lifecycle.py`, `app/module/http.py`, `register/elb.py`, `elbv2.py`, `route53.py` |
| `AzureRegistration` | backend pools, several jobs on a machine, the gateway check | `register/azurelb.py`, `azuretools.py` |
| `MC...` | constants of the instances for TLC | - |
| `...Proofs` | theorems and proofs; `ApiSourceProofs` has those of `ManagedEndpoints` too, `ServerSetProofs` those of `MesosMaster`, `HealthCheckProofs` those of `TimedShare`, `RegistrationProofs` those of `AzureRegistration` | - |

### ServerSet

The runner is kazoo's callback greenlet, the worker is
`_notification_worker`, the lister is the greenlet that runs `start` and later
`stop`. A ZooKeeper call and what is done with its answer are two actions
(`DataGet`/`PathGone`..., `ListChildren`/`ChildCall`, `WorkerRead`/`WorkerNotify`,
`ListerList`/`ListerRead`/`StartAdds`). A watch is one-shot: `Fire` consumes it and
queues its callback. Node names are sequential in ZooKeeper, so a name is not used
again while the path exists (`issued`) but may be after the path was deleted and
created (`ReusedName`).

Abstracted: the data of a node is the endpoint it names; DataWatch's `exists` and
`get` are one read; the loss of the ZooKeeper session is not modelled; `Queue(0)`
has no bound in the gevent the requirements pin.

### ProxyUpdater

An update never waits for another greenlet, so no signal comes between its steps, but nginx
and Aurora are other processes and do run between them. `pc` is the next step of the update
under way: `BeginUpdate` (`_try_update` or `set_up`, the rendering, `_should_update_config`,
`_backup`), `OpenFile`, `WriteFile`, `Restart`, and after a failure `Revert`. nginx reads the
file when it starts (`NginxStarts`) and some time after a SIGHUP (`NginxReloads`), between any
two of these: it may find no file, a half-written one, or one that is about to be taken back.
It may die (`NginxDies`) and aurproxy may die (`Crash`) at any step too. `_updating` is
`pc # "idle"` as far as another call of `_try_update` could see it. The setup run (`--setup`)
comes first, by the same steps without the restart.

Three variables are history, for the properties: `seen`, which kinds of fault happened;
`before`, the file as the update under way found it; and `midway`, that nginx last looked at the
file in the middle of an update that has not succeeded. Such an nginx works with what the
update took back, or has let a SIGHUP pass, and no line of the code notices: the file is again
what it was, so if that is what the sources want next, `_should_update_config` finds nothing to
do. That is a flaw of the code and not an abstraction of the model (`UpdaterReverted.cfg`,
section 5); `NothingForgotten` and `SettlesOnWanted` except it by `midway`, which the next update
that reaches its SIGHUP ends.

### HealthCheck

`chain` is where the chain of checks is: waiting for its timer, in flight, or ended.
Results are told apart by what `_update_status` tells apart. `Flip` is the endpoint
changing, `Render` the updater.

### SourceGroup and Weights

A source's `add` and `remove`, with the manager's callback and the signal, do not
wait and are one action each. A calculator is a number; its check chain and its share
outlive the endpoint; `CalcOf` is the one an endpoint has now. A share is a number of
`1/Unit` and a factor is a fraction:
the model is exact where the code computes with floats, so differences in the last
place of a weight are not modelled.

### ApiSource

A request or an expiration runs up to where it starts or stops a source; there it may
be switched away from. The map is read before that and written after it without being
looked at again, which is what the module is about.

### ManagedEndpoints

Joins the actions of `ApiSource` with what a start or stop adds and removes; joins and
leaves of a server set come in between, also after it was stopped, since its watches go
on. A static source starts and stops without a wait (`Undivided`). An add or remove runs
down to the manager without a wait, so `has`, `calcs` and `leaked` change together. `shared`
is history: endpoints two managed sources have had at a time.

### TimedShare

`wall` is the wall clock, from which the share is computed, and `timer` the ticks until
`_update` is called: setting the clock back moves the one and not the other. A tick is the
least difference of two readings, so `now > end` differs from `now >= end` and a timer
set after the clock was read fires at least a tick later. The signals of other endpoints
(`Signal`) come at any time. `misled` is history: the clock was set back when no signal was left
that could make up for it.

### MesosMaster

`MesosMaster` takes over the actions of `ServerSet` and joins those that call `on_join` and
`on_leave` with what the source does there: `source` is `_members`, `_current_leader` and the
endpoints of the source. All callbacks of one difference run in one action, leaves first, in
any order (`Announce`). Node names are numbers, ascending while the path exists;
`MesosAssumption` says that there are finitely many, as ZooKeeper has ten digits for them.

### Curator

The greenlets are those of ServerSet, and the design is the same; the module is about
what differs. A read that fails, or data without an address or port (`Malformed`), makes
the worker give up the whole difference (`WorkerGivesUp`) and makes `start` raise
(`ListerRaises`), which releases the blocker. `lost` and `skipped` are history: whose
leave and whose join was given up. A ChildrenWatch lists and makes its callback in one
action, since only the callback greenlet uses `_nodes` and fills the queue.

### Mirror

`pc` is how far an update has come: it never yields to a greenlet, so no signal comes
between its steps, but gor and Aurora are other processes and do run between them. gor
is down, starting (the script runs, the pid file is not yet right) or running, with the
command it was launched with; `KillRunning` finds only a running one. `kills` counts
since the last change or start of aurproxy. The file is opened (`Truncated`) and written
in two steps. Of a script cut short the model says nothing but that: a gor launched from it
may end at once or run with what is left of its command.

`_update_command` sets `updated` inside the `with`, before the file is closed. An error of
`write` leaves it FALSE and fails the update (`write`); an error of closing the file, which is
where a short command leaves the buffer, is caught and logged with `updated` TRUE (`close`): the
update goes on to kill gor and counts as a success. `closeFailed` is history: the last write of
the script ended that way. `NothingForgotten` and `SettlesOnWanted` except it (`MirrorClose.cfg`,
section 5), until the script is opened again.

### Registration and AzureRegistration

In `Registration` one of three registerers is configured. A task goes through add and
remove name by name; ELB and Route53 look before they act (`Look`, `Act`), a target group
does not. `execute_shutdown_handlers` pops the handlers, so that a second request finds
none. `synchronize` is a process of its own: it reads the job's hosts once, and then
looks and writes name by name. `blamed` is history: the hosts whose task a fault has hit,
or for which synchronize wrote the opposite of what their task had become.

In `AzureRegistration` the pools are part of the machine's network interface, which is
read (`Read`, with its pools in `copy`) and written as a whole (`Save`); tasks of several
jobs share it with each other and with others. A task goes over the balancers it finds as
Azure lists them, which is a constant of the instance (`Lbs`): those of the configured names
that exist, in any order. `check` is the gateway registerer's
`_check_states`, `_last_result` and the loop over the balancers. `disturbed` is history:
jobs whose pools somebody else has changed, or whose own calls failed.

## 3. The runs

| Run | Instance | Shows |
|---|---|---|
| `ServerSetSafe` | one node name that may stand for two endpoints, the path created twice, one failing read, deletes and stop | no member orphaned or unserved, start undisturbed, and the snapshots refinement, with the watches of two incarnations of the path running at once |
| `ServerSetLive` | on `MesosMaster`: two nodes, each with either of two endpoints, one failing read, deletion of the path, stop | liveness of `ServerSet`: arrivals are served, also at the address of a node that left before, departures dropped unless the path is deleted; the lowest master served and no other, and in the end |
| `Updater` | three configurations, nginx acting between any two steps of an update, any three of nine kinds of fault | no update forgotten, the file an update found replaced or there again, nginx ends with what is wanted, unless it looked at the file of a failing update; one fault never costs both copies while nginx runs |
| `Health` | thresholds 2 and 3, stop, escaping exceptions | hysteresis, signals, the rendered share, stopped chains end |
| `Group` | two primary sources, one overflow source, one endpoint, two calculators, shares 0, 1/2, 1, threshold 80% | no leaked calculator, signals, weights, late checks |
| `Api` | on `ManagedEndpoints`: two requests at a time, two names, two sources, static or server sets, one endpoint | no lost source, one stopper, expirations; the endpoint has its calculator and none is left over, unless shared |
| `Timed` | delay 3, ramp of 4 after 2, signaled every 2, the clock set back twice | the share never falls, and the full one is rendered in the end |
| `Mirror` | two commands and the fallback, any four of seven kinds of fault | no update forgotten, one kill per change, gor ends with what is wanted, unless the script was cut short when it was closed |
| `Curator` | two instances, one registered anew, failing reads, malformed data, the path deleted, stop | orphans only where a leave was given up; members served; arrivals served and departures dropped unless given up |
| `Registration` | two hosts, two names, three registerers, two starts, one fault, synchronize at any time | registered as the task's life has it, removed once, synchronize repairs |
| `Azure` | two jobs on one machine: one with two gateways and checks, one with a load balancer; others change the interface | registered unless disturbed; who was thrown out of every pool is shut down |
| `ServerSetAtomic` | the smallest that shows it | a sentence of a comment the code does not keep (section 5) |

Bounds and why they are enough. `MaxPaths = 2` is the least with two incarnations of
the path and two ChildrenWatches; a third only repeats the second's situation.
Two nodes are what a difference needs to have both a new and a removed one. One
failed read is what the invariants speak about. Three faults allow a fault in an
update, one in its retry and one in between, and a fourth, in `Mirror`, the death of gor
besides (a start or a reload of nginx is not a fault, and comes as often as it likes); three
configurations are one that nginx has, one that is taken back and one wanted after it; the invariants of the proofs hold for any number. Thresholds 2 and 3 differ, so
that swapping them shows, and each is above one, so that a run of results has an inside.
Two calculators let an endpoint come back while the check of its first calculator is in
flight. Two API sources are what it takes to share an endpoint or to replace one by
another; a third, so that each of two concurrent PUTs has one, only adds races for a name, of
which the theorems speak for any number. The ramp of `Timed` ends at an
odd tick for its timers and begins with a delay, so that they fire before, at and after its
end; two set-backs are one before the end and one after it. In `ServerSetLive` the path
exists once: what a second one does to the leader is `MesosReborn.cfg`. In
`Curator` the path exists once, since `ServerSetSafe` looks at what a second incarnation
does to this design, and one instance registers in the run besides those that are there
at first. Two names in `Registration` let a fault come between them and an outdated
`synchronize` be right about one and wrong about the other; two starts are a host that
comes back, or two hosts. In `Azure` the load balancer's job and the gateways' job
have no pool in common, so a task can be hurt only by the interface written as a whole.

`CHECK_DEADLOCK FALSE` is set where the system may really stop: the ServerSet and Curator
runs (nothing happens in ZooKeeper any more), the Timed run (the share is full and nothing
signals), the Group run (all sources quiet) and the Registration run (every task has ended, and a target group has no synchronize).

Fairness. gevent resumes every greenlet whose wait is over, and kazoo answers every
call, so the steps of the runner, the worker and the lister are weakly fair; the
environment (ZooKeeper's other clients, stop, faults, changes of an endpoint, API
clients) is not. `PeriodicTask` reschedules itself in a `finally`, hence
`WF(UpdateStep)`; time passes, hence `WF(Elapse)`; nginx acts on a SIGHUP, hence
`WF(NginxReloads)`. Aurora starts nginx again and again, and an update takes a moment of each
period, so sooner or later a start falls between two updates: `SF(pc = "idle" /\ NginxStarts)`,
strong since every update interrupts it, and said of starts between updates only, since
nothing makes a start hit the moment within one. Aurora runs the setup and launches gor,
hence `WF(SetUp)`, `WF(GorLaunched)` for a script that is whole, and `WF(GorRuns)` of `Mirror`,
whose updater `spawn_later` calls again (`WF(BeginUpdate)` and the steps after it).
Timers fire and HTTP requests end or time out, hence `WF(BeginCheck)` and `WF(EndCheck)`. Calls
of AWS and Azure return, Aurora kills what has shut down, and service discovery forgets
the dead (`TaskStep`, `JobStep`); cron runs synchronize again and again (`SyncStep`); Aurora
asks for the health again and again and shuts down what is unhealthy (`CheckStep`,
`Unhealthy`). In `TimedShare` time passes (`Tick`), timers fire (`Update`) and the updater runs
(`RenderShare`); `MesosMaster` assumes of runner, worker and lister what `ServerSet` does. No other strong
fairness is assumed.

## 4. What is proved

All proofs are for every value of the constants, from the `ASSUME` of the module
alone, unless the theorem names a further assumption. Each module proves its type
invariant (`TypeOK`) first, which no run checks for that reason; what follows rests on it.
Every invariant and action property the runs check is a theorem, and so are both
refinements; of the liveness properties none is.

- `ServerSetProofs`: `NoOrphans`, `MembersServed`, `StartAlone`, `ViewFollows`. `NoOrphanMember` is not
  inductive: it says that a departed member has its removal queued, but not where. The
  invariant adds that the queue, read from the back, undoes `_nodes` consistently -
  behind everything that adds a node there is what removes it - and what the worker
  may hold. `MembersServed` is proved for instances in which nodes serve distinct
  endpoints (an assumption of the theorem: it is false otherwise, see section 5).
  `ViewFollows` is the refinement: ServerSet implements `MembershipView`. Its `SnapshotInv`
  says that each queued difference is the one between two consecutive snapshots, and that
  the members are nodes of the snapshot the pending work starts from; with it every
  step maps to a snapshot observed, one reflected, the path lost, or a stutter.
- `ServerSetProofs` on `MesosMaster`: `LowestServed`, `NeverTwoServed`, `MesosTypeCorrect`. The
  callbacks of a difference are a fold over a sequence; `LeavesRun` and `JoinsRun` show that a
  fold is the end of a run of single callbacks, and `LeavesEach` and `JoinsEach` carry what
  one callback keeps along that run. `SourceInv`, which holds however often the path is
  created, says that nobody but the leader is served. That the leader is the lowest member
  needs more, since `mesos.py` forgets neither a leader who has left nor what it knew of him:
  `SeenInv` and `OnceInv` say that a node joins at most once while the path exists (it is
  remembered, or was there and is gone, and is queued in one place), `DataInv` that what was
  read of it stays true, and `LeaderInv` that a leader who is not served is `Over`: he
  will not join again. The last is what a second creation of the path breaks, so `LowestServed`
  says "until the path is created a second time" (`paths <= 1`); after that `LeaderServed`
  is false (section 5, `MesosReborn.cfg`). TLC checked an invariant equivalent to `MesosInv` on
  the instance of `ServerSetLive.cfg`, and with three nodes, before it was proved.
- `ProxyUpdaterProofs`: `NeverForgotten`, `FileAllOrNothing`, `CopyKept`. The
  inductive invariant `InSync` says what holds at every step, as long as the faults that happened
  are tolerable: between updates the file is complete, and what is wanted unless an update is
  signaled, and nginx has what the file says unless it has a SIGHUP to act on or looked in the
  middle of a failed update; within one the backup is the file it found, and that is what nginx
  has. `NothingForgotten` alone is not inductive: it mentions neither the file nor the steps.
  `CopyKept` rests on `InSync` until the first fault and on `CopyInv` after it: if the fault hit
  the setup run or aurproxy itself (`OneCrash`), a running nginx keeps updates from failing, and
  otherwise (`OneFault`) the file is complete between updates and it or its backup when one is
  taken back.
- `ApiSourceProofs`: `StoppedByOne`, `NothingLost`, `ExpirationOwn`. The
  invariant `ApiInv` ties the map, the greenlets and the expirations together: what a
  greenlet stops nobody else stops and the map does not have; a name that no two
  requests raced for is free while a PUT replaces its source; every source that is not
  being stopped is listed. `NoLostSource` alone is not inductive: it says nothing of the
  PUT that is about to write the map. `ManagedIsApiSource` carries all of it over to
  `ManagedEndpoints`, of which `CalculatorsMatch` is proved: `CalcInv` says that an endpoint never shared
  has a calculator exactly while a source has it.
- `MirrorProofs`: `NoUpdateForgotten`, `OneKill`. Of `MirrorInv`, `InSync` says what holds within
  an update: nothing is signaled, and once the script is closed it is what is wanted, or
  `closeFailed`; `KillInv` says that after a kill the updater rests until the next signal, which
  is why there is no second one.
- `CuratorProofs`: `OrphansGivenUp`, `MembersServed`, by the arguments of `ServerSetProofs` with the
  differences the worker gave up accounted for.
- `HealthCheckProofs`: `NoShareUnsignaled`, `HysteresisKept`. The latter is the refinement of
  `HealthHysteresis`, for thresholds above zero. `RunInv` relates the deque of results, of
  which only `maxlen` are kept, to the length of the run of equal results the abstract
  module counts: a longest run exists, and a pushed result lengthens its own by one, up to
  the limit.
- `HealthCheckProofs` on `TimedShare`: `ShareNeverFalls`, from `ShownReached` (what is rendered
  is at most the share of the moment) and the monotony of the share, division included; and
  `LastSignalIsFull`, the safety half of `FullInTheEnd`: after the last `_update` the share is
  full, and rendered or signaled. Its `LastUpdateInv` says why: a delay's timer cannot fire
  before the clock has passed the delay, and a ramp goes on until it has passed the end.
  What is left to TLC of `FullInTheEnd` is that the last `_update` and the updater come at all.
- `SourceGroupProofs`: `NoneLeaked`, `NoChangeUnsignaled`, `LateChecksUnseen`, `WeightsAreFair`. `CalcInv` makes running
  calculators and listed endpoints correspond one to one, each calculator belonging
  to one endpoint of one source; `SignaledInv` adds to `ChangesSignaled` that weight
  adjustment, until it starts, has its trigger to come; `CheckedInv` says that no
  calculator is checked before it is made. `WeightsAreFair` is `WeightsFollowShares` for any
  number of endpoints: the factor of the primary endpoints is above zero as soon as one of
  them claims a share, since the sum of the claims is at least any of them (`SumBounds`),
  and product and division keep the order (`WeightKeeps`). That a claim gets a weight is
  stated where it cannot be rounded down to none: `Unit * Unit * Count <= SIGNIFICANCE`
  (section 5).
- `RegistrationProofs`: `DeregisteredOnce`, `RegisteredOrBlamed`. `HostInv` is the strengthening:
  how far a task has come with its names, and what it found when it last looked,
  tell under which it is registered, unless the host is blamed; `SyncInTurn` keeps
  synchronize within the configured names, and `RemovalsInv` says that a task with
  handlers left has not called remove.
- `RegistrationProofs` on `AzureRegistration`: `AzureRegistered`, `AzureTypeCorrect`.
  `RegisteredUnlessDisturbed` speaks of tasks that are done with their loops; `Intact` says
  what holds within them: what was read of the interface is still true of the task's own
  pools, the balancers behind it are done, and of every balancer the machine is in no
  pool but the one `add` chose. A write of another job that changes the task's pools makes it
  `disturbed`; one that writes back what it has read does not. The balancers of
  `Azure.cfg` have a pool each; an instance with two pools was checked by hand besides.

Induction. The library's induction theorems take an operator as a parameter, which the
provers cannot instantiate. Where a sum (`SourceGroupProofs`) or a fold (`ServerSetProofs`)
needs induction over the naturals, it is done with sets: `LeastNat` shows from the finiteness
of intervals that a set of naturals has a least element, and `NatSetInduction` that a set
with 0 and every successor has them all. The recursive functions of `Functions`, `Folds` and
`SequencesExt` are unfolded from their definitions (`SumFunctionIs`, `RunOf`).

Only model-checked: the liveness properties, fairness and ENABLED being beyond the prover.
They are `LiveNodeServed`, `DepartedUnlessDeleted` and `LeaderElected` (discovery),
`SettlesOnWanted` of `ProxyUpdater` and of `Mirror`, `ShareFollowsEndpoint`, `StoppedEnds`,
`ViewRendered`, `ExpiredUnlisted`, `InstanceServed`, `DepartedDroppedOrGivenUp`, `SafetyNet`,
`LostIsNoticed` and `FullInTheEnd`.

## 5. Where the code and its documentation part

One run TLC finds violated; `PROJECT.json` quotes the sentence.

- `ServerSetAtomic`: the deletion of the path bypasses the worker and interleaves with the
  reads it waits for, against the comment of the worker (`serverset.py:480`).

Further behaviour the models show. Those with a configuration named are checked with it
by hand; TLC finds the property violated.

- `AzureMissing.cfg` (`LostIsNoticed`): `_check_states` has an entry, TRUE at first, for every
  configured name, but only those of gateways that exist are ever written. If one does not
  exist, the check returns True whatever has become of the registration (`azurelb.py:417`),
  where `register/base.py:49` promises "whether the registerer's effect of calling add is still
  true".
- `MesosReborn.cfg` (`LeaderServed`): `_current_leader` is not reset when the last member leaves.
  When the path is created again and a master gets the name the last leader had, it is the
  lowest member and is not served (`mesos.py:64`), though "The current leader is the node with
  the lowest ID" (`mesos.py:54`).
- `ServerSetGhost.cfg` (`DepartedEndpointDropped`): `start` adds what it lists, but only the worker
  remembers members. A node that leaves between the two stays an endpoint for ever
  (`serverset.py:122`).
- `ServerSetRewatch.cfg` (`ChildrenWatched`): `_watching` is set after a ChildrenWatch that found
  no path and stopped. When the path comes back nobody watches it (`serverset.py:471`).
- `UpdaterReverted.cfg` (`SignaledMeansUpdated`): with no fault at all. aurproxy updates the file
  before nginx has been started, so `restart` raises; nginx starts, and reads the new file, just
  before `_revert` puts the old one back (`backend.py:146-169`). When the sources want the old
  configuration again before the retry, `_should_update_config` finds the file up to date
  (`backend.py:178`), and nginx keeps the other one until something else changes. The same
  follows from a SIGHUP of the update before that nginx acts on in between, where the restart
  or the write fails. `README.md:170-171`: "If need to update is signaled, update proxy
  configuration and restart proxy."
- `UpdaterRender.cfg` (`SettlesAnyway`): `_needs_update` is reset before rendering; if that
  raises once, the update is forgotten until the next signal (`proxy.py:109`).
- `MirrorClose.cfg` (`SettlesAnyway` of `Mirror`): an error of closing the launch script is
  swallowed after `updated` was set (`mirror.py:363-370`). gor is killed, the update counts as
  a success, and gor runs from the script cut short, or not at all, until the next change.
- `GroupOverflow.cfg` (`OverflowUsed`): the overflow factor is a multiple of what the primary
  endpoints claim, so it is zero when they are all unhealthy, and the upstream is rendered
  without a server (`manager.py:304`).
- A weight is `int(share * factor * 10000)` (`manager.py:328`): with enough endpoints, or a small
  enough share, an endpoint that claims a share is rounded down to the weight 0 and gets no
  traffic. That is what the condition on `SIGNIFICANCE` in `WeightsFollowShares` excludes.
- `ApiLost.cfg` (`AddedCanBeRemoved`): two PUTs for one name; one source runs on, unlisted
  (`api.py:246`).
- `CuratorLost.cfg` (`DepartedDropped`): an instance with malformed data, or a read that fails,
  in the same difference as a leave: the leave is given up with it, and the departed
  endpoint is served for ever (`curator.py`).
- `SyncSpares.cfg` (`SyncSparesRunning`): synchronize deregisters the host of a task that was
  started after it had read the job's hosts; the next synchronize puts it back.
- A node whose name comes back after its path was deleted and created again is never
  joined, because `_nodes` is not reset (`serverset.py:474`): `LiveNodeServed` with
  `CanDelete = TRUE`, `MaxPaths = 2`. In Curator the same happens to an instance whose id
  registers again before the children are listed, when the worker had found it gone.
- `ApiShared.cfg` (`EndpointsReadable`): two managed sources have the same endpoint; the manager
  keeps one calculator for both, which runs on when the second add replaces it, and the leave of
  the one source drops the entry. Reading the endpoints of the group raises from then on
  (`api.py:194`, `manager.py:247`).
- When the clock is set back while a delay counts, its only signal comes before its share is
  full, and the endpoint stays at 0 until something else signals (`delay.py:54`): `FullInTheEnd`
  without `misled`. A ramp goes on until the clock has passed its end.
- Two nodes that name one endpoint at a time: the leave of the first removes it
  (`serverset.py:194`): `LiveNodeServed` without its condition on the other nodes.
- A node whose read failed for a passing reason is not read again
  (`serverset.py:436`): `LiveNodeServed` without its condition on `errors`.
- `SettlesAnyway` of `ProxyUpdater` with `Faults = {"backup", "restart"}` and `MaxFaults = 2`:
  `move_file` only logs its failure, so a failed restart is not reverted and the retry finds
  nothing to do. With `{"crash"}`: the retry after a crash between write and SIGHUP finds the
  file up to date. With `{"setup"}`: if the very first file is cut short, every later update is
  reverted, because nginx could not start. With `{"revert", "write"}` and `MaxFaults = 2`, before
  nginx is up: the file cut short stays, is backed up over the good one, and the same follows.
- A crash in the write leaves the file cut short and a good backup; the next update backs the
  one up over the other. While nginx runs the update succeeds and that does no harm; if nginx
  has died too, no complete configuration is left, the restart fails, and every update
  puts the file cut short back. `CompleteCopyKept` speaks of one fault for this reason.
- An exception `_check` does not catch ends the checks of an endpoint
  (`health.py:256`), by `CheckEscapes`.
- `README.md:401-402` calls `healthy_threshold` a number of failed checks; the code counts
  successes.
- An endpoint whose calculator cannot be made stays listed without one, and reading the
  endpoints of its group raises from then on (`source.py:59`, `manager.py:247`): the
  condition `EndpointsReadable` is there for it.
- A registerer that fails in the middle of `add` leaves what it has added, since the
  shutdown handler is registered afterwards; and one that fails in `remove` was popped
  already: `AddRaises` and `RemoveGivesUp`, which the next synchronize repairs, except
  for target groups, which have none.
- Two jobs on one Azure machine that change its interface at a time undo each other's
  change (`azuretools.py`), by `Read` and `Save`; the gateway check notices it, the load
  balancer registerer has none.
- Outside the models: `azuretools.py` reads the machine's id as bytes (`.content`), which in
  Python 3 never equals the `vm_id` it is compared with; `mirror.py:365` gives the launch
  script the mode `0x755`, which is hexadecimal and harmless only as root;
  `run_replay --setup` updates the mirror without starting its source (`command.py`), so it
  writes the fallback, as `SetUp` does.

## 6. What is not modelled, and the plan

Not modelled: the loss of a ZooKeeper session; floats; the text of configurations,
audits and logs; publishing of metrics; `stop` of an ApiSource; configuration objects, the
template of the configuration. AWS and Azure are modelled by what their calls do to the
registrations, not by throttling or delays of visibility.

What is left, in this order:

1. The loss of a ZooKeeper session in `ServerSet`.
2. The cap of the metric store.
3. Theorems: the safety halves of the liveness properties, as `LastSignalIsFull` is that of
   `FullInTheEnd`: what must hold when a system has come to rest (a quiet worker serves what
   the children were, a quiet updater has rendered what is wanted, a synchronize that met
   nobody else leaves the registry right).
