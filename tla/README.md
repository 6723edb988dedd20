# A TLA+ model of the Meraki Dashboard Exporter

The exporter polls the Meraki Dashboard API for one organization and serves what
it learns as Prometheus metrics. It is one asyncio event loop (Python 3.14), a
thread pool for the blocking SDK calls, and a few background tasks. Nothing is
persisted. What is hard about it is not computing a metric but *when* things
happen: a dozen collectors, each with its own clock, share an admission limit,
an API budget, an inventory cache and a rate limiter; every wait may be cut off
by a deadline; a webhook writes the same series a poll is about to write; and a
scheduler keeps moving the intervals all of this is timed by.

This directory models that machinery. `PROJECT.json` maps every definition to
the lines it stands for, and lists the components, the runs, the hazards and
the theorems. Paths below are relative to `src/src/meraki_dashboard_exporter/`.

## The system

| component | state it keeps | operations | interacts with | module |
|---|---|---|---|---|
| collector manager (`collectors/manager.py`) | a lock per collector, an admission semaphore, the force flag, health counters, gauges | `run_collector_once`, its wait with a deadline, the run with a timeout, every exit path | loops, startup, trigger endpoint call it; it runs collectors | `CollectorManager`, `CollectorAdmission` |
| collector loop and gates (`app.py`, `core/scheduler.py`, `core/collector.py`) | last-ran, last-failed and last-attempt times of endpoint groups, failure streaks | sleep until due, `should_run`, `mark_ran`, `mark_failed` | the manager, the solver's plan | `CollectorLoop` |
| interval solver (`core/scheduler.py`) | the published plan: intervals, shed groups, over-budget flag | `resolve` | the rate limiter's budget, the inventory's shape of the organization | `IntervalSolver` |
| inventory cache (`services/inventory.py`) | entries with timestamps, one lock | cached reads with a filter, `invalidate` | all collectors read it | `Inventory` |
| organization health (`core/org_health.py`) | failure streaks and backoffs per domain and global | `record_success`, `record_failure`, `should_collect` | the three coordinators | `OrgHealth`, `HealthParameters` |
| metric expiration (`core/metric_expiration.py`) | timestamps and TTLs of series | `track`, `untrack`, cleanup, the cardinality budget | every write of a metric | `SeriesExpiry` |
| rate limiter (`core/rate_limiter.py`) | a token bucket per organization key, an adaptive rate | `acquire`, `record_throttle_event`, reads that recover the rate | every API attempt, the solver | `RateLimiter` |
| API calls (`core/api_facade.py`, `core/error_handling.py`, `api/client.py`) | retry counters, deadlines, the executor's threads | a decorated fetch: pace, call, retry, time out | limiter, SDK threads | `ApiCalls` |
| device availability (`collectors/device.py`, `core/webhook_handler.py`) | `device_up`, the status series, the webhook's label map | the poll, the webhook's fast path | inventory, gates, expiration | `DeviceState`, `DeviceParameters` |
| webhook receiver (`core/webhook_handler.py`) | the replay cache | `process_webhook` | device collector | `WebhookReceiver` |
| task groups (`core/async_utils.py`) | a semaphore, the set of tasks, counters | `create_task`, the exit, the completion callback | the coordinators' fan-outs and verdicts | `TaskGroup` |
| client store (`services/client_store.py`, `collectors/clients.py`) | the clients kept for each network, when it was last updated | the two caps on a list, `update_clients`, `cleanup_stale_networks` | the clients collector fills it, pages read it | `ClientStore`, `ClientParameters` |
| reverse DNS resolver (`services/dns_resolver.py`) | a cache of names, a record of the clients' addresses, threads of its own | `resolve_multiple`, `track_client`, `clear_cache` | the clients collector awaits it | `NameResolver`, `ClientParameters` |
| lifecycle (`app.py`) | the set of background tasks, two tasks apart from it, three pools | `lifespan`, the startup task, the trigger endpoint, `_shutdown` | begins and ends everything else | `Lifecycle` |
| collecting functions (`collectors/`, some hundred calls in 50 files) | timestamps per switch, network or organization beside the scheduler's; caches of values | gate, fetch, write, mark; fan-out and fallback | gates of the scheduler, inventory, API calls, expiration | `Outcomes`, the eight family modules, `ClientCollector`, `Collection` |

Not modelled, and why, component by component, is in `PROJECT.json` and under *Not
modelled* below.

What makes each correct, in one line:

* manager: a collector never overlaps itself, at most Limit run, no permit is
  lost to a deadline that races a grant, every run is accounted for once, and
  whoever queues gets out of the queue without the help of its deadline;
* loop: a group is polled neither too often nor slept past when due, failures
  are charged to whoever failed, no group starves behind a failing one;
* solver: within bounds, least important first, availability untouched, moving
  one way when the budget does, and it terminates;
* inventory: nobody is given data older than its TTL or than an invalidation,
  an entry costs one fetch as long as it lasts, unless a reader forces another, and
  every read ends;
* health: no domain is suppressed without evidence, nor polled early while
  backed off, and everything recovers;
* expiration: what is reported stays, what vanished goes, nothing leaks;
* limiter: never more than burst plus rate times time, and tokens keep flowing;
* calls: one SDK call per fetch at a time, bounded attempts and time;
* device state: one status under any labels of a device, and webhook and poll agree in the
  end;
* receiver: an alert acts once, the cache stays bounded;
* task groups: slots are conserved, no worker outlives its group, and the
  verdict counts them all;
* client store: it keeps to its bound while networks are merged side by side,
  leaves nobody out while there is room, and drops networks that are gone;
* resolver: a batch ends whatever hangs, the caches are bounded, and a name does
  not stay with an address its client has left;
* lifecycle: nothing that uses a pool or the client is left when they are closed,
  a shutdown ends if no reverse lookup hangs for ever, and a start that failed is told;
* collecting functions: a series survives one failed collection, a group is marked
  only when something of it was fetched, nothing is fetched before its time, and
  every series is written again once its calls are answered.

## Conventions

One action is what the event loop executes between two suspension points: an
`await` that may suspend ends an action, and one that does not (an uncontended
lock, a free semaphore) does not. Cancellation and timeouts are actions enabled
wherever the code awaits. Clocks are **ages**: a timestamp is kept as the time
since it, a deadline as the time until it, and `Tick` advances them, so that
behaviours are infinite and states are finite. An age is not counted beyond a
cap (`AgeCap`, `RanCap`, `StreakCap`) larger than every number it is compared
with, so nothing is lost by the cap. A bound on how often the environment acts
(`MaxRuns`, `Changes`) is a guard of the environment's action, with its name.

Type invariants are part of a module's main invariant where it has one
(`LoopInv`, `HealthInv`, `CallsInv`, `DeviceInv`, `GroupInv`, `CollectionInv`,
`ClientsInv`, `LifecycleInv`); where a theorem
proves types, no run checks them again. Definitions whose comment says "Mutants"
are bugs one could make (a dropped guard, a missing reset): the specification does
not use them, and `PROJECT.json` says which definition each would replace and
which property then fails.

There is one instance per module, chosen so that one run can check its safety,
action and liveness properties together; hence runs have fairness and no symmetry.
The components that keep to themselves share the run `services` (see below). `MCRegistry`
holds the instances of `SeriesExpiry` and `DeviceState`, each with a run in which the
other stands still. `MCCoordinators` does the same for `OrgHealth`, next to the contract of
the collecting functions (see *What is proved*), which TLC evaluates before the run.
An invariant with several parts (`RunsInv`, `AnswersSound`, `LimiterInv`, ...) is a
conjunction of named ones; the text below names the parts, a counterexample shows
which one fails, and `PROJECT.json` has mutants for more than one of them.

## The modules and their runs

### CollectorManager, CollectorAdmission: run `manager`

A task is a loop, the startup, or a trigger request. Its `pc` follows
`run_collector_once`: it takes the collector's lock or gives up (`SkipLocked`);
runs at once when the semaphore is free (`AdmitAtOnce`), or queues with a
deadline (`Enqueue`, `Expire`); is granted a permit by whoever releases one, and
resumes; and the run ends by success, or by failure, timeout
or cancellation, which are accounted for alike. The semaphore is asyncio's, with
its queue of waiters and the state between a grant and the waiter's next step,
because that is where permits get lost. `CollectorAdmission` is what is
promised: `serving` with a start and an end of service.

The loops of three collectors and two forced tasks for the first of them, Limit
2, MaxRuns 2: two permits and a third contender is the smallest instance in which
a permit is handed over while another is taken, and two forced tasks are what the
force flag must keep apart. Permits are conserved and no waiter is overlooked
(`PermitsConserved`, and `NoLostWakeup` in `RunsInv`), a forced run is the only one to
see the flag (`ForceIsolation`), health counters and gauges agree with how runs ended
(`AccountsBalance`, both also in `RunsInv`), and each step is a step of the abstract admission or none
(`ImplementsAdmission`). Weak fairness of each task's own step: the event loop
runs what is ready, and a run ends by its timeout. `NoStarvation` has no fairness
for the admission deadline, so the way out of the queue is the semaphore. The
system stands still at MaxRuns, hence no deadlock check.

### IntervalSolver: part of run `services`

`resolve` over groups with floors, pins, priorities and costs; one action per
pass of the stretch loop and of the shed loop, on integers scaled by
864 so that demand per second stays exact. The plan stays published while the
next one is computed.

Seven groups of three priorities (one pinned below its floor, two switched by the
organization's shape, one ungated), adaptive mode, budgets from 100 to 820,
MaxStretch 3, MaxInterval 96: from everything fits to nothing fits, so that the
run passes through every stage of stretching, capping and shedding. The up-ness
groups are never touched (`AvailabilityContract`) and the less important go first
(`LessImportantFirst`), together `PrioritiesKept`; a plan fits or everything that may give has given
(`FitsOrExhausted`); `BackPressureMonotone` compares consecutive plans of one
shape. `ResolveReturns` is under weak fairness of the solver's work, a synchronous
function.

### CollectorLoop: run `loop`

The loop of one collector with two gated groups in the arrangement of
`AlertsCollector`: a read before the gates that may fail, a group whose failure
raises, then one whose failures are isolated. Re-solves replace the plan at any
time, also during a cycle and during a sleep; forced runs come at any time and may
bypass the gates.

Floors 2 and 3, retry spacing 3, resolve cap 3, timeout 1, ages to 4, and three
plans: at the floors, stretched, and one that sheds a group and switches the other
off. A group is polled no faster than its interval or retry spacing
(`PollRateBounded`), failures are charged to the group that failed (`LoopInv`), and
the loop does not oversleep (`NeverOversleeps`): it sleeps on while a group is due only
when a plan, or a success of a forced run after failures, brought the group forward
during that sleep (the ghost `news`), and then for what is left of a resolve period
(`overdue` counts how long). The cap of the sleep is what the second half is about. Weak fairness of the clock, of
waking and of each cycle's step; under it both groups are served again and again
(`GroupsServed`), the second one behind a failing first one, too, provided that the
read before the gates fails, or finds nothing to collect from (`PrefetchEmpty`), only
finitely often. A timeout below the retry spacing
is needed for that and is what the defaults are (240 s, 300 s).

### Inventory: runs `inventory`, `inventory_filter`

Readers of three kinds of entry, with the look before the lock, the look after
it, the fetch under it, `force_refresh` (which skips both looks, though not those of
the networks read for a filter; no caller passes it today), the filter that itself
reads the networks, errors, cancellation and `invalidate`. TTLs are ranges
(`Early`..`Late`), as the code draws a jitter. Ages run on, also of data a reader has
in hand (`HandAged`), until the read returns: it then does so without suspending, so no
time passes at "back".

* `inventory`: two readers of all three kinds, one of which may force, TTLs of one to
  two ticks (one for availabilities, two for devices), fetches of up to one, ages to 2.
  Two readers are what the two looks and the lock are about. What a reader is handed is
  at that moment no older than its TTL or one fetch's deadline (`FreshAnswers`), than the
  read itself if it was forced (`ForcedAnswers`), or than an invalidation
  (`InvalidationHolds`), together `AnswersSound`. `DetourTime` is taken off: a devices or
  availabilities read whose filter finds no networks reads them with its own answer in
  hand, and nothing in the cache bounds that (the lock may have a line, and under the
  lock the read waits for itself until its collector times out); the answer is older by
  that time than the TTL says. From an entry's filling until a jittered look may expire
  it, the unforced reads cost one fetch (`SingleFlight`; the ghost `bought` counts the
  fetches that ended, and starts again when the entry is dropped or may be missed), and
  reads end (`ReadsEnd`), but for those that wait for the lock they hold. Weak fairness
  of each reader's own step (`Serve`): the lock is handed on and a fetch has a deadline.
* `inventory_filter` (violated): those reads; see *Findings*.

### OrgHealth: run `health`

Streaks and waits per domain and global, and the workers that start when allowed
and report when done, from a `finally` or not, cancelled or not.

Three domains (a promotion to the global streak needs them), threshold 1, waits
of 1 and 2, streaks to 2: the backoff doubles once and meets its maximum. What is
suppressed is so with evidence and the aggregate agrees with its sources
(`HealthInv`), nobody is polled early while backed off (`RetriesSpaced`), and once
workers return normally all streaks clear (`Recovers`), under weak fairness of the
clock and of each worker's beginning and end.

### SeriesExpiry: run `expiry`

Series with the TTL fixed at the write, the cleanup task with its period, the
budget with `drop`, status series that replace one another, and re-solves that
change the interval the next write is due by.

The two series of a status and one without a TTL of its own; intervals 2 and 3 at
multiplier 2, within what the multiplier leaves; cleanup every tick with a slack
of one; a budget of 2 with dropping, ages to 8. Tables agree with what is exposed,
`_metric_counts` with the tables (`NoLeak`), the gauge, which a cleanup sets between
expiring and shedding, exceeds what is tracked only if that cleanup then shed, so that
the budget is used up (`GaugeLags`), and what stopped goes in time (`StaleGoes`),
together `RegistrySound`; what is reported stays unless shed (`ReportedStays`), and shedding takes what it should
(`ShedSound`).

### RateLimiter: part of run `services`

`acquire` as in the code: refill from elapsed time, take or sleep for what is
missing with jitter, look again; the rate recovers lazily on each read and
drops with each 429 outside the cooldown. Of `LimiterInv`, `LazyIsEager` compares the lazy rate
with one that recovers on every tick; `WithinBudget` compares the tokens taken
with an eager bucket at the configured rate.

Three callers, a token of 4 units, a burst of two tokens, rates from 1 (the floor)
to 4, cooldown 2. `TokensFlow` under weak fairness of the clock and of each
caller's round: tokens are taken for ever, though not by every caller.

### ApiCalls: run `calls`

Two fetches, the attempts of the facade within the attempts of the decorator,
the limiter as a wait of any length, and threads that cannot be interrupted: one
that outlives its fetch works for an orphan.

Two SDK calls a fetch, one retry on each layer, deadline 2, pauses up to 1, two
threads: a fetch of several calls can be late though each call is in time. One SDK
call at a time per fetch, bounded attempts, none metered twice, and a fetch outlasts its
deadline in no state (`DeadlineKept`), all in `CallsInv`; and it ends
(`EveryFetchEnds`) though threads may hang for ever: weak fairness only of the
clock, of the deadlines (timers of the event loop) and of resuming.

### DeviceState: run `device`

The Dashboard's truth, the two inventory caches a poll reads (each refreshed by
anybody), the poll with its gate and awaits, and alerts that arrive anywhere in
between and are applied to the label map the last poll left.

One device that moves between two networks, is renamed, leaves and returns in two
changes, in an organization with other devices or none (an organization without
devices is not polled at all, and keeps its label map); the bound of two lets a
device go down and then leave or move with its alert under way. Networks are alike
and names are, so it begins in the first. Each device is treated by itself, so one
suffices.

A `device_up` series is labelled by serial and network, a status series by the name
as well (`device.py:1573-1634`), and a poll takes the other statuses away under the
labels of now. So `StatusConsistent`, in `DeviceInv`, is about labels: one status under any
network and name, and under those that the last writing poll used none that
contradicts a device_up of 1. A device that was moved or renamed has its old series beside the
new until they expire; that they do is in `Reconverges`.

A poll that is not due writes no series, but renews the map that the webhook goes
by (`device.py:905-934`). `WebhookFollowsPoll` says what remains of "never create a
novel series": a webhook touches a series that the last poll that was due has written
(`written`), or one of a device that joined or moved since that poll's list
(`moved`). For the latter it may write a series no poll ever wrote; see `NeverNovel`
under *Findings*. That devices stop changing is the "once it is quiet" of
`Reconverges`, which covers what remains of those that left, and of old networks and
names. Weak fairness of the refreshes (TTLs), of the poll's
steps and the gate; strong fairness of a successful availability fetch and of the
write when due, since an API that fails for ever promises nothing; weak fairness of
the expiry of series nobody feeds.

### WebhookReceiver: part of run `services`

Alerts sent with a skewed clock, delivered late and more than once; freshness
window, replay cache with its floor, TTL and eviction.

Three alerts, a cache of two, window 2, skew 1, TTL 4, the smallest that outlives
both, and one alert more than the cache holds: an alert acts again only after as many
others as the cache holds (`AgainOnlyAfterOthers`). That it acts once while the cache
holds all alerts, and that the cache stays bounded, are theorems.

### TaskGroup: part of run `services`

The body of a coordinator offering a job per organization, skipping those in
backoff, waiting for a slot; workers that return, raise or are cancelled;
callbacks that run some time after; the exit; a cancellation wherever the body
awaits; and the verdict.

Four jobs over two slots, so that the body waits while two run and one more is
handed over. Slots are conserved, no worker outlives the group, and the verdict is
passed on all of them (`JudgedByAll`), all in `GroupInv`; the group ends (`GroupEnds`, with the
batches of the resolver in `GathersEnd`) under weak fairness of the body, of each callback and of each worker's end (its
calls have deadlines: `EveryFetchEnds`). A group that has ended stays so, hence no
deadlock check.

### ClientStore: part of run `services`

A collection of the clients: the list of each network is cut by the emission caps,
waits for the names of its clients while other networks go on, and is merged into
the store under the cap over all networks. A collection may be cut short anywhere, may
find no organization, and otherwise ends with the eviction of the stale networks.

Two networks, three clients, two per network and three in all, a store TTL of one tick:
two lists may be cut for the same room before either is merged, and departed clients
may fill the store. It never holds more than its bound (`StoreBounded`, in
`ClientsInv`), a listed client is left out only when it is full (`LeftOutOnlyWhenFull`),
and a network that is not updated any more goes, unless all collections from some
point on are cut short (`StaleNetworksGo`), under weak fairness of the collection's
steps: the loop wakes again and again, fetches end, and so do batches of names.

### NameResolver: part of run `services`

`resolve_multiple` with its producer, bounded queue, workers and sentinels; the cache
of names and the record of addresses, which batches share; the executor's threads, of
which a timeout loses one; cancellation and `clear_cache`.

Two networks whose batches run side by side, two clients that move between two
addresses, one entry in each cache, one worker and one thread a pool: a batch waits in
a full queue, for a thread another batch has lost, and shares each cache entry.
Bounds and the invalidation by a move are `NamesInv` (in `ClientsInv`); it
exempts a lookup that was under way when its client left the address, since the code
caches the old name again (`vacated` leaves such addresses out). Every batch ends
(`BatchEnds`, in `GathersEnd`) though every lookup may hang for ever: weak fairness of a
batch's own steps, of which an answer or its timeout is one.

### Lifecycle: part of run `services`

How far `lifespan` and `_shutdown` are (`stage`), what is in `_background_tasks`
(`alive`) and apart from it (`apart`: the cleanup of the expiration manager and the
export loop of the metrics bridge), which of them have been cancelled and do not know
yet (`told`), who awaits work in a pool, a reverse lookup among it, and whose work has a
thread (`calls`, `resolving`, `running`), and the threads nobody waits for any more
(`lost`). There are three pools: of the SDK (the default executor of the loop), of the
scrapes, and of the resolver that the clients collector owns. A shutdown may come at any
moment: during discovery, the initial collection, a triggered run, a call or a lookup. It
drains the tasks, stops the two that are apart, exports a last time, joins the threads of
the resolver (`NamesClosed`), and then those of the SDK and of the scrapes (`Closed`), in
this order.

Two collectors, of which one is that of the clients, and one thread in the pools of the
SDK and of the resolver, so that a lost thread blocks it.
What `_shutdown` goes on to close, nobody uses any more (`NoneLeft`), and a server
whose start failed has said so (`LoopsOrUnhealthy`). `ShutdownEnds` needs weak fairness
of the shutdown's own steps and the unwinding of cancelled tasks (`Shutting`), of work in
the pools (`Working`), and of lost threads coming back (`Returning`): requests of the
SDK have `single_request_timeout`, and the analysis of the cardinality is computation.
Nothing bounds a reverse lookup: `dns_timeout` ends the wait for it, not its thread, and
`DNSResolver.close` joins the threads on the event loop (`shutdown(wait=True)`,
`app.py:323`). So no fairness is assumed of lookups, and the property says that a shutdown
ends *if those that were abandoned return* (`LookupsReturn`); without the hypothesis TLC
shows one that waits in `NamesClosed` for ever, while nothing else runs and the client is
not closed.
The timeout around the `gather` of the cancelled tasks cancels them once more and waits
for them no less, hence `Drained` has no way around it.

### Run `services`

`MCServices` instantiates the seven modules above that share no state with another:
`Init` picks one (`part`), whose actions are taken while the others stay as they began,
so that the state spaces add up and do not multiply. Properties that must happen speak
of the component picked, whose fairness is the only one that binds.

### Outcomes, the families, Collection: runs `collection`, `collection_marks`, `collection_stamps`

More than half of the program is functions that ask a gate, call the API, write series
and mark the gate, and no two do so in the same order. What they may leave behind is all
that the rest of the system sees of them. So each is a set of *outcomes*: raised or not,
gates asked, groups marked, data got, series written, and what went amiss. `Outcomes`
has the building blocks (a gate, a call, rows, a fan-out with or without isolation,
`with_error_handling`, a fallback, the three ways to mark) and a product that is
Python's sequence: an exception skips what follows. The families are made of them,
one definition per collecting function:

| module | models |
|---|---|
| `WirelessCollectors` | `collectors/devices/mr/` |
| `SwitchCollectors` | `ms.py`, `ms_power.py`, `ms_stack.py`, `base.py`, and how `device.py` falls back from the endpoint of the organization to that of each switch |
| `ApplianceCollectors` | `mx.py`, `mx_firewall.py`, `mx_ha.py`, `mx_uplink_health.py`, `mx_uplink_usage.py`, `mx_vpn.py` |
| `GatewayAndCameraCollectors` | `mg.py`, `mv.py` |
| `SensorCollectors` | `mt.py`, `mt_sensor.py`, `mt_alerts.py` |
| `OrganizationCollectors` | `organization.py` and `organization_collectors/` |
| `NetworkHealthCollectors` | `network_health.py` and `network_health_collectors/` |
| `PolicyCollectors` | `alerts.py`, `config.py`, `insight.py` |
| `ClientCollector` | `clients.py` |

`Collection` puts one of these calls (a *site*) between the scheduler's gates, with their
tolerance and retry spacing, the timestamps kept beside it, and the expiration of one of
the series that the site writes. Its `Views` reduce an outcome to what it means for that
series; a behaviour is about one site and one series, and `Init` picks every one of them.

Two items in each fan-out, intervals of ten ticks (so that the tolerance of a tenth is
one), retries after four, cycles at most two apart, TTL twice the interval as by
default. Then

* a series is gone only when the API had nothing to show or failed twice
  (`FaultTolerated`): once is enough only where a timestamp without retry is set
  whatever came of the call (`StampedRegardless`);
* a group is marked by a cycle that got none of its data only if it is one of
  `MarkedRegardless`, and every group whose calls went well is marked (`MarksHonest`, in
  `CollectionInv`);
* a series is not fetched again within its interval (`Paced`), but for those of
  `WrittenUnasked` and `StampsForgotten`, pairs of a site and a group: what a switch
  reports of its ports is fetched without a gate being asked where the endpoint of the
  organization fails or is not used (sites `ms_ports` and `ms_ports_by_switch`);
* once what a series depends on is answered it is written again and again, behind
  whatever gates and failures of others stand before it (`ItemsServed`), under weak
  fairness of the clock and of the cycles.

The fallback to each switch has one answer with the data of two groups, the states of the
ports and their usage (`PortsOf`), and sets the timestamp of the usage at its end
(`ms.py:1215`). That mark is not a hollow one: it is reached only when the switch has
answered, and its answer is the data of that group. A cycle that sets it without having
asked the gate spares the switch the next fetch of its usage, unless that cycle drops the
timestamp first (`Forgotten`). An SDK without the endpoint of the organization
(`ms.py:904`) is like one whose call fails: both end in the fallback with nothing marked.

The exceptions are sets of groups, or of sites and groups, named in the module, each a
place where the code marks without looking or writes without asking, some listed under
*Findings*. `collection_marks` and
`collection_stamps` check, for one site each, what the documentation says without
exceptions; both are violated.

## Findings

Three disagreements have a run of their own, with the text they contradict quoted in
`PROJECT.json`:

* `inventory_filter`: availabilities are filtered while the lock is held, the filter
  reads the networks, and when their entry is no longer valid that read waits for the
  lock its own task holds.
* `collection_marks`: the groups of a network-health bundle are marked in a cycle in
  which every network failed, since their collectors log failures and return.
* `collection_stamps`: the timestamps that space the packet statistics of a switch are
  all dropped at the end of a cycle that took the states of the ports from the endpoint
  of the organization, the default; so they are fetched in every cycle.

The other disagreements met while modelling are stated as properties in the
modules; each fails in the instance named here, with which no listed run checks it.

| property | module | instance | what the code does |
|---|---|---|---|
| `OverBudgetMeansAllCapped` | `IntervalSolver` | as in `services` | the stretch loop may stop over budget with groups below their caps |
| `ReadinessNeedsData`, `MarkedAfterSuccess` | `CollectorLoop` | `Unconditional = {"second"}` | a cycle without data counts as ready; a group is marked whatever its fetch returned |
| `RetriesSpaced` | `OrgHealth` | `FloatLimit = 1` | a power of two of a long streak overflows a float and the backoff is lost |
| `VerdictMirrors` | `OrgHealth` | as in `health` | a worker that is cancelled reports from its `finally` as if it had ended well |
| `AnyDomainBacksOff` | `OrgHealth` | as in `health` | a backoff is per domain where the guide has one per organization |
| `ReportedStays` | `SeriesExpiry` | `Intervals = {1, 4}`, `AgeCap = 11`, `RanCap = 6`, `Period = 2` | a stretch by more than the TTL's multiplier lets series expire between two polls |
| `ExporterWithinBudget` | `RateLimiter` | two keys | what is not attributed to an organization has a second bucket |
| `NeverAboveConfigured` | `RateLimiter` | `Conf = 2`, `Floor = 4` | a floor above the configured rate raises it |
| `EveryAttemptMetered` | `ApiCalls` | as in `calls` | a cancelled attempt is not metered |
| `EveryThrottleHeard` | `ApiCalls` | `MaxRetries = 0` | the 429 that ends a call does not reach the limiter |
| `NeverNovel` | `DeviceState`, `DeviceParameters` | as in `device` | a late alert writes a series that has expired, or one that no poll wrote, for a device that a poll not due has put into the map (against `device.py:1650-1651`) |
| `DownStands` | `DeviceState`, `DeviceParameters` | as in `device` | a poll with older availabilities takes an alert back |
| `MarkedAfterSuccess` | `Collection` | `Sites <- AllSites` | also marked whatever came of it: `mr/firewall.py:127`, `mr/signal_quality.py:177`, the DHCP and link-aggregation sweeps of `ms.py`, `ms_stp`, `mg.py:864`, `mx_vpn.py:277`, `mv.py:335` and `362`, `mt_alerts.py:281-286`, `alerts.py:332`, `insight.py:307-310`, `clients.py:1351` and `1545` |

Met while reading, and visible in the models as exceptions or not at all:

* `config_models.py:1039-1043` and `docs/config.md:191` cap the clients of a network;
  the cap cuts the list of one call, so that clients which come and go accumulate
  beyond it (`ClientStore` bounds the total only).
* The packet totals that the device collector retains "when the API returns zero"
  (`device.py:409-416`) are evicted by a cycle in which the packet-loss group is not
  due: `_active_cache_keys` is filled only while its gate is open and reset every cycle.
* The fallback timer for a first collection that stalls (`app.py:697-712`) is created
  only after `collect_initial` has ended.
* Device groups that are declared as gated and never passed to `mark_ran`
  (`device.py:90-380`) stay due, so that the loop of the device collector wakes at its
  floor of one second between cycles (`app.py:640-697`).
* A lookup in flight when its client leaves the address caches the old name again;
  lookups queued behind hung threads time out and are cached nameless for the TTL;
  `_perform_lookup` swallows the errors its retry decorator waits for.
* A clients collection merges what was listed before the wait for names, departed
  clients included.
* An organization is reported healthy by a cycle whose gates were all closed.

## What is proved

For every value of the constants, under the assumptions the modules name. A theorem
with a further condition has it as its hypothesis. `BasicLemmas` holds what several
proofs need of lines, minima and maxima of finite sets, products, minimal sets and sums.

* `CollectorManager_proofs`: types, locks, line, permits, the accounts of the runs
  (`RunsSafe`), and that every step is a step of `CollectorAdmission` or none
  (`AdmissionImplemented`). Permits are conserved only because the line holds each
  queued task once and no other, so that a wake-up grants as many permits as it takes
  tasks out of the line; the invariant (`ManagerInv`) is the conjunction of types, line
  and locks (`LockInv`) and permits. The refinement follows since a running task holds
  its collector's lock and one permit. The accounts count sets of tasks, so that one
  lemma each says what entering, ending and expiring in the line do to the sets
  (`RunsAccounted`, `PendingAccurate`); that no wake-up is lost needs the line.
* `CollectorLoop_proofs`: `LoopHolds`, `SleepHolds`, `PollRateHolds`. What the gates say
  of a group agrees with what became of its last attempt (`GateAgrees`): an attempt
  that brought nothing and was not counted belongs to an unfinished cycle, is younger
  than that cycle and newer than any success (`Vain`). Only the groups of the cycle's
  stage are fetched (`InStage`). The lemmas on `NextDue` and the sleep are about minima;
  `Napping` carries them over a whole sleep: time brings no group nearer than it passes
  (`DueInTime`), so that only a plan or a mark can, and what has been waited and what is
  left to sleep add up to a resolve period at most.
* `Inventory_proofs`: types, the lock, freshness, forced reads, invalidation and single
  flight, and `AnswersHold`. `LineInv` says who may be in the lock's line. The data
  invariant (`IInv`) says that only the holder fetches, that a reader reads its goal or
  the networks (`Goals`), that no entry, fetch or answer is outdated by an invalidation
  (`NoneOutdated`), and that a timestamp is at least as old as the data it stands for,
  while an answer in hand or on its way back is fresh but for its detour (`Freshness`;
  a tick ages the answer and the detour together). On it rest `ForcedInv` (a forced
  reader goes back with a fetch of its own) and `BoughtInv` (an entry being fetched by an
  unforced reader has cost nothing since it could last be missed).
* `Coordinators_proofs`: first `Collection`: `CollectionSound`, `FailureOutlived`,
  `WritesPaced`, for every interval, retry spacing and gap between cycles. They rest on a
  contract of the collecting functions, `OutcomesAssumption` of `MCCoordinators`: what the
  rows of the table `Views` say of each series of each site. It is an assumption, and not
  a lemma, because the rows come out of recursive functions over the items of a fan-out
  (induction over data). TLC evaluates it, for every site and every series and two items,
  when it starts the run `health`; it is kept out of the run `collection`, so that there
  a function that broke it is caught by the property and not by the assumption.
  - *The contract.* A series has at most one gate of the scheduler (its door) and one
    timestamp that decide when it is written next (`FedBy`): when both are due a cycle
    writes it, finds nothing to show or has a mishap, and a mishap leaves the timestamp
    alone unless it is one of `StampedRegardless`. It has a set of gates it is written
    through (`PacedBy`), all asked, and marked, or none. A row that is marked for nothing
    is one of `MarkedRegardless`, and no row leaves a gate open with nothing amiss.
    The usage of the ports has a contract of its own (`SparedBy`), because cycles that
    ask neither its gate nor its timestamp may write it and set the timestamp: whenever
    the timestamp is set the series has been written, a cycle that passes it over drops the
    timestamp, and a mishap leaves the gate unmarked.
  - *At the latest.* `Timed` is the invariant behind `FaultTolerated`: age and the time
    until the next cycle that finds door and timestamp due (`Within`) add up to no more
    than the `Horizon` of a write while nothing failed, and to no more than the `Grace` of
    one failure after that. A tick moves one from one to the other, since none passes
    over an open door. The timestamps that are dropped at the end of each cycle are always
    due (`FleetingDue`). `SparedTimed` is the same for the usage of the ports, whose wait
    is at most a gap longer than its gate's (`Leeway`), and after one failure a gap or a
    retry longer than that (`Pardon`).
  - *The hypothesis* of `FailureOutlived` is that two gaps between cycles fit an interval
    (`2 * CycleGap <= Interval`). With none the property is false: a timestamp has no
    retry, becomes due just after a cycle and waits a gap for the next, whose failure waits
    another; with a gap as long as the interval `ms_packet_stats` expires after one failure.
    For the usage of the ports a gap and a retry have to fit, too (`Tolerable`), since its
    failures are spaced by the scheduler.
    By default both hold as long as a cycle takes no more than three minutes: the groups of
    the device collector with timestamps of their own have floors of 600 seconds and more,
    a retry comes after 300, and its loop is woken by its availability group, with a floor
    of 120 that is never stretched (`device.py`, `endpoint_groups`), so that the gap is at
    most 300. A pin (`ms_packet_stats_interval`) may be shorter than that, and then nothing
    gives it: hence a hypothesis of one theorem, not an assumption.
  - *At the earliest.* The gates of `PacedBy` keep step (`InStep`), so that they are due
    together; a cycle that finds them due and does not leave the mark open resets them,
    and they are no older than the series since.
  Then `OrgHealth`: `HealthHolds`, and `RetriesAreSpaced` under `NoOverflow`: no streak
  that is counted has a power of two beyond a float. `GlobalCause` says why the global
  source holds what it holds (so many authentication failures, or two domains with a
  full streak), which is what a success of one domain has to take back. `Spaced`: what is
  left of a backoff and what has passed of it make up all of it.
* `Registry_proofs`: first `SeriesExpiry`: types, no leaks and the bound on stale series
  (`RegistryKept`); `ReportsStay`; `ShedsSoundly`. What is exposed is tracked and
  counted (`Tables`), the gauge is what a cleanup left before it shed (`Lagging`),
  and a tracked series is older than its TTL by no more than the time since the last
  cleanup (`Fresh`). That a series its group goes on
  reporting stays has the hypothesis `StretchBounded`, that no interval a re-solve may
  install, with the slack, exceeds a TTL an earlier one gave: without it the property
  is false (see *Findings*). Then `DeviceState`: `DeviceHolds`, and `WebhookHolds`,
  since whatever is in the map, in the poll under way, in the cache or in the Dashboard,
  where the next map comes from, is written or moved (`Foreseen`).
* `ApiCalls_proofs`: `CallsHold`. A fetch waits exactly if its SDK call is queued, on a
  thread or answered, and in one of these places (`Placed`); nobody is in the queue
  or on the threads twice (`Distinct`); and the attempts of both layers add up
  (`Spent`): what the decorator has begun, times what the SDK may retry in each.
* `Services_proofs`: the seven modules that `MCServices` runs side by side.
  `EachPart` says that a behaviour of the composition is one of each of them, so that
  what is proved of the parts is what its run checks.
  - *Solver*: bounds, availability, priority order, evenness and disabled groups
    (`PrioritiesHold`) hold of published plans and of the plan being worked on
    (`Working`): the step that publishes takes the latter for the former.
    `FitsHold`: a plan over budget has every stretchable group at its cap and every
    sheddable one shed, and none was shed without need (`Justified`). Demand is a fold
    over a set; `DemandIsSum` replaces it by the size of a set (`Area`), of which the
    library's facts about cardinality can speak. `BackPressureHolds`: that more calls
    elsewhere never shorten an interval relates two runs of the loop, so `Path`
    defines the intervals one run may reach as the smallest set closed under its
    steps: two runs take the same way, and the tighter budget stops later on it.
  - *Limiter*: types, the lazy rate, and, if the configured rate is not below the floor,
    the budget (`LimiterSafe`). `Covered` says that the lazy bucket, refilled now, would
    hold no more than the eager one, which is arithmetic over products.
  - *Receiver*: types, the bounded cache, that an alert acts at most once if
    TTL > Window + Skew and the cache holds all alerts (`AlertsAppliedOnce`), and that
    with any cache it acts again only after as many others as the cache holds
    (`AgainAfterOthers`). `Outlived` says that a seen alert is cached or can no longer be
    fresh, `Remembered` the same of one that too few others have followed.
  - *Task group*: slots, counters and verdict (`GroupSafe`). The semaphore and the
    counters count sets of jobs (`GroupBooks`), and the links between body and tasks say
    which (`GroupLinks`).
  - *Client store*: `StoreStaysBounded` and `NoneLeftOut`, whatever merges interleave:
    a list that was cut is no longer than the limit of a network (`CutsSmall`).
  - *Resolver*: `NamesKept`. No lookup under way is for an address its client has left
    since (`NamesIInv`). The tracking of clients is a fold over the list of a batch: that
    the cap and the moves hold at its end is shown by the shortest prefix at
    which they would not.
  - *Lifecycle*: `LifecycleSafe`, for finitely many collectors that are not named as
    another task, and pools of any size (`LifeAssumption`, `ClientsAssumption`). `Phases` says what each stage
    knows: nothing is begun while preparing, what is alive while draining has been told,
    and from then on nothing is alive; whoever awaits a call is alive, apart or the
    shutdown itself, so that when these have ended no call is left. That no thread is
    left at the end needs the pools to fit their sizes (`PoolsFit`): abandoning a call
    turns its thread into a lost one and changes no sum.

Only model-checked:

* everything under fairness (`NoStarvation`, `ResolveReturns`, `GroupsServed`,
  `ReadsEnd`, `Recovers`, `TokensFlow`, `EveryFetchEnds`, `Reconverges`, `GathersEnd`,
  `StaleNetworksGo`, `ShutdownEnds`, `ItemsServed`): liveness and ENABLED are out of
  the prover's reach;
* that the collecting functions keep the contract `OutcomesAssumption`: TLC evaluates it
  for two items in every fan-out.

The proofs changed the models in these places, each time towards the code: in
`CollectorLoop` a fetch that raises is told apart from one that logs its failure, and
`SeriesExpiry` states `ShedSound` of those cleanups that drop for the budget; `ApiCalls`
takes the one work item of a cancelled future out of the queue; and the parameters of
the client modules say that the length of a list is a number.

## Not modelled

* The values: which field of an answer becomes which label or number, and the small
  caches of values (packet totals, alert counts to be reset, changes counted once, zeroes
  replayed). No property here is about a value; each function is represented by
  which series it writes.
* Startup discovery and the network filter: sequential and constant after the start.
* The cardinality monitor, the status service and the pages: they read the others' state.
* OpenTelemetry: push I/O through queues of its SDK; the stop order is in `Lifecycle`.
* Configuration, API models, labels, logging, metric definitions, dashboards, docs and
  tooling: data and wording.
* In the modules listed as partly modelled: the routes and guards of the HTTP
  endpoints, the authentication and parsing of webhooks, how errors are classified, the
  statistics that only report.

## What is left

In order of what would add most:

1. A composition of loop, manager and calls: a collector that hangs against the
   readiness and liveness endpoints.
2. Several sites in one cycle of `Collection`: the order of the coordinators' calls
   and the timeout that cuts a cycle between two of them.
3. The caches of values, with their evictions.
4. Proofs: that the contract of the collecting functions holds for any number of items,
   from an outcome of a fan-out that is stated without recursion.
