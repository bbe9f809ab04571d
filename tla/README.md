# Verification of the jinja-template-operator

TLA+ models of the operator, TLC configurations that check them on small
instances, and TLAPS proofs of what holds for every instance. Source paths are
relative to the repository.

The operator reconciles `JinjaTemplate` resources (CRs): it reads sources
(ConfigMaps, Secrets, DNS names), renders templates with them, and writes one
output object, a ConfigMap, a Secret or a *raw object*, a whole manifest applied
under a ServiceAccount of the CR's namespace.

## 1. Inventory

| Part | Source | State | Operations | What makes it correct |
|---|---|---|---|---|
| Reconciler core | `internal/controller/jinjatemplate_controller.go` | the CR's status (Ready condition, `lastOutput`); informer copies; the workqueue | `Reconcile`, `reconcile`, `cleanupOldOutput`, `createOrUpdateOutput`, status update | no change is lost; Ready is the verdict on the current spec; what is written is recorded and cleaned up; nobody else's object is touched |
| RawObject outputs | `internal/controller/rawobject.go` | the finalizer, `lastOutput` with its ServiceAccount, the raw object | account check, manifest checks, finalizer, server-side apply, deletion, finalization | finalizer before apply; finalization deletes what is recorded; a denied CR turns green when the grant is there |
| DNS sources | `internal/controller/dns.go`, `MergeDNSRecords` in `internal/sources/dns.go` | `status.dnsSources`: records with `lastSeen`, `lastSuccessfulLookup`, `lastError` | lookup of every source, merge, choice of the next requeue | grace periods to the second; failures change nothing; a next lookup is always due; no hot loop |
| DNS lookups | `internal/sources/dns.go` | none | `Lookup`, `queryChain`, `parseAnswers`, `exchange` | chains followed to the limit however servers split them, loops end, minimum TTL, NXDOMAIN is an answer |
| Watch mapping | `find*`, `*Match*` in `jinjatemplate_controller.go` | none | an object event (old and new version) to the CRs it concerns, on cached CRs | no CR whose inputs or output changed is missed |
| Spec validation | `validateSpec` and below | none | accept or reject a spec | what later code relies on is checked |
| Source resolver | `internal/sources/resolver.go` | none | `Resolve`: ConfigMaps and Secrets by name or by selector, one after the other | what is rendered in the end is what all inputs are at one moment; equal inputs render to equal outputs |
| Renderer | `internal/template/renderer.go` | none | calls the template library | a failure is told |
| Configuration, wiring | `internal/config`, `cmd/main.go` | default of the owner semantics | start, watches, one worker | - |

The parts interact through the API server: `Reconcile` reads the CR and the
outputs from informer caches that lag behind it, writes with optimistic
concurrency (CR updates, ConfigMaps, Secrets) or without it (server-side apply,
deletes), and is started by events, by the backoff after an error and by the
requeue interval of DNS sources. The worker is one goroutine
(`MaxConcurrentReconciles` is left at 1), so what is concurrent with it is
everything else: users, other clients, the garbage collector, DNS, restarts.

The hard behaviours, each listed with its line under `hazards` in
`PROJECT.json`: an output is written before the status that records it; the
finalizer, the cleanup and the apply are separate calls; decisions are made on
lagging copies; ServiceAccounts, RBAC and raw objects are not watched; the
operator's own status writes wake it up; DNS records live in a status whose
update may conflict; one of several sources fails; inputs are read one by one
while they change, and their events are mapped on a CR copy that may be older
than the event; name servers answer with parts of chains that may have no end.

## 2. Modules

| Module | What it is |
|---|---|
| `OutputController` | reconciler core and RawObject path, from the rendered data to the output |
| `OutputControllerProofs` | theorems about it: types and the finalizer |
| `OutputTruthProofs` | ... : verdicts, outputs that CRs share, finalization |
| `OutputCleanupProofs` | ... : nothing is left behind |
| `MCRaw`, `MCShared` | its instances |
| `Inputs` | watches, mapping, validation, resolver and templates, from objects to the rendered data |
| `LevelTriggered` | the abstract specification that `Inputs` implements |
| `InputsProofs` | theorems about `Inputs`, the refinement among them |
| `MCInputs` | its instance |
| `DNSSources` | the DNS sources of one CR over time |
| `DNSSourcesProofs` | theorems about it |
| `MCDNS` | its instances |
| `MCHotLoop` | `MCDNS` with a history of the reconciles in a row |
| `DNSLookup` | one lookup: families, chains, TTLs |
| `DNSLookupProofs` | theorems about it |
| `MCDNSLookup` | its instance |

The four models meet at the data they hand over. `Inputs` ends with the output
written, as one step; `OutputController` starts from rendered data (`data[c]`) and
has that step in all its calls. A DNS source is one value in `Inputs`; `DNSSources`
has how its records come and go, and takes from each lookup an answer or an error,
which is what `DNSLookup` computes.

### OutputController

*State.* `api` and `objs` are what the API server stores; `cache` and `ocache`
what the informers show. `queue` is the workqueue. `pc`, `cur`, `jt`, `goal`,
`retry` are the worker inside `Reconcile`: `jt` is the Go variable of that name,
changed as the code goes and sent back by the status update. A CR record has the
fields decisions depend on: its phase, spec, finalizer, `lastOutput` and Ready
reason.

*Actions.* There is one value of `pc` before each API call of the code, so every
interleaving of others with these calls is a behaviour:

| `pc` | Action | Code |
|---|---|---|
| `idle` | `Take` | the Get of the CR and the branch on its deletion timestamp |
| `inputs` | `ResolveAndRender` | validation, sources, templates, rendering, parsing |
| `account` | `CheckServiceAccount` | `checkServiceAccount`, `isNamespacedKind`, `validateRawObjectNamespace` |
| `finalizer` | `KeepFinalizer`, `UpdateFinalizer` | `reconcileRawOutputFinalizer` |
| `cleanup` | `CleanupOldOutput` | `cleanupOldOutput`, `cleanupOldRawOutput`; failures are logged and ignored |
| `apply` | `CreateOrUpdateOutput`, `ApplyRawObject` | the output, then `lastOutput` and the condition |
| `status` | `UpdateStatus` | `Status().Update`, conflicts and errors |
| `finalAccount`, `finalDelete`, `finalRemove` | `CheckFinalAccount`, `DeleteRawOutput`, `RemoveFinalizer` | `finalizeRawOutput` |

`SyncCR` and `SyncOutput` are the informers with the watch mapping; `Collect` is
the garbage collector; users, other clients, RBAC and restarts are the actions of
`Environment`, each enabled by a member of `Faults`.

*Abstractions.* What sources and templates hold is one value of `Data` per CR, and
`Render[m][d]` the object a manifest renders to. Failures to produce it are
members of `Failures`, values `data[c]` can have besides those of `Data`. Reading the inputs is one step: they
are read from caches and every later change of them enqueues the CR. A resource
version is one bit per copy, *fresh* until somebody writes the object; an informer
delivers the latest version, so it may skip some. A CR that is gone is not
created again, and nobody removes the finalizer by hand. A raw manifest that is a
ConfigMap is a target of its own, distinct from the outputs of kind ConfigMap.
`own` is `ShouldSetOwnerReference`. The fault "error" is a call that fails for a
passing reason, before or after it took effect.

### DNSSources

One CR with the sources `1 .. N`. `stored` is the CR at the API server (its list
of sources, `status.dnsSources`, its Ready condition), `cache` the informer's
copy, `base` the copy a reconcile works on, `fresh` the source statuses it
computes, `output` the rendered values. `due` is the time the key comes out of
the queue: the queue of controller-runtime holds a key once, at the earliest time
asked for. Each lookup is a step (`LookupAnswered`, `LookupFailed`), then comes
the rest of the reconcile (`Deliver`) and the status update (`UpdateStatus`).
`SyncStatus` is the watch of the CR, which has no predicate and so reports status
writes too.

Time is counted in seconds, the unit in which the status stores it. The Go code
compares the stored second with a `now` of finer grain; as stored times and grace
periods are whole seconds, the comparison has the same result for the second
`now` lies in. The text of a failed lookup's error is kept, because it is stored
in the status, and what changes the status wakes the operator up. Each answer, an
empty one too, carries some TTL of `TTLs`, 0 for none.

`seen`, `known` and `burst` are history: when an address was last in an answer,
what the last answered lookup left, and how many reconciles ran in this second that
nothing but the operator's own writes asked for. A burst ends when a second passes,
when a lookup fails with a text the status does not have yet, or when something else
happens. `inARow` of `MCHotLoop` counts on over seconds and new texts, until the
operator rests or others do something.

The fault "finalizer" is the composition with the RawObject path: a finalizer
update between lookups and status update replaces the CR in memory by the reply:
stored source statuses replace the computed ones (`StatusesInReply`).

### Inputs

One CR and the ConfigMaps and Secrets `Objects`.

*State.* `cr`, `obj`, `told` (the reason of the Ready condition) and `out` are at
the API server. `ccr`, `cobj` are the informers' copies; `behind` and `lag` say
where a newer version exists, `crEvent` and `events` hold what informers have yet to
hand to their handlers. `queued` and `retrying` are the workqueue and its delayed
keys. `pc`, `job`, `next`, `ctx`, `texts`, `verdict`, `again` are the worker: the
spec it took, the next source, the context and the templates so far, the condition it
will write, and whether `reconcile()` returns an error.

| Action | Code |
|---|---|
| `Take` | the Get of the CR, `validateSpec` (`Valid`) |
| `ResolveDNSSources` | `resolveDNSSources`, as success or failure |
| `ResolveSource` | one turn of the loop of `Resolver.Resolve` |
| `LoadTemplate` | one turn of `loadTemplates` |
| `Render` | `renderTemplates` and the output |
| `UpdateStatus` | the condition, `Status().Update`, conflicts and errors |
| `SyncCR`, `SyncObject` | an informer's cache changes; the event is pending |
| `HandleCR`, `HandleObject` | the handlers: `findJinjaTemplatesForObject` (`Maps`) for the old and the new version |
| `Requeue` | a backoff is over |
| `EditCR`, `EditObject`, `Restart` | users, and the operator's restart |

A spec is a record with a list of sources, each with the references that are given
(`refs`, whose domain may be empty, or have several kinds, as the API allows), and
with templates inline or from a ConfigMap. `output.name` and `output.key` are one
flag, `named`; a name is a model value. Listing objects by a selector yields any order
(`Listings`). Rendering is a function with a value of its own for each template and
context, so no two inputs are confused. Two conditions with the same reason count as
one: their messages are left out. Events that are equal are one event.

*Refinement.* `Promise == INSTANCE LevelTriggered` maps what users want to
`<<cr, obj>>`, what the operator has told to `<<told, out>>` and what it owes to
`~AtRest`, with `RightAnswer` as the relation between them. `AtRest` is: no informer
lags, no event is pending, nothing queued, no reconcile under way. `LevelTriggered` says that
a controller may tell anything while it owes an answer, comes to rest only
with a right one, and owes one again after every change.

### DNSLookup

*State.* `zone` is what the DNS holds (per name an alias, or addresses per family, or
nothing, and a TTL), `host` and `recordType` the input. `pc`, `todo` (the
families left), `current`, `hop` and `chainTTL` (the loop of `queryChain`),
`transport`, and `ips`, `ttl`, `ok` (the result). `broken` is history: a query
failed.

*Actions.* `FindServer` is `serverAddr`; `Truncated` the retry over TCP;
`QueryFails` an exchange without an answer, or with another code than NOERROR and
NXDOMAIN; `PartialAnswer` an answer with a beginning of the chain only, `FullAnswer`
one with all that follows from the name queried. `FollowAlias` goes on at the alias of the name queried,
whatever later aliases the answer had, or fails at the limit; `FamilyDone` is the
end of `queryChain` and the union of the families in `Lookup`.

The zone does not change during a lookup, and has one TTL per name. An answer of
NXDOMAIN leaves the TTL as it was before it. A TTL of 0 counts as none (`LeastTTL`), as
the code has it: what `dns.go:40` says instead is `TTLIsMinimum`, which the run `TTLZero`
refutes, and what holds is `TTLIsLeast`, for lookups without a TTL of 0. An answer's records
are found by exact name, as in the code's map `cnames`; names here are model values.

## 3. What the runs check

Properties that should hold, with the runs that check them (all run to the end):

| Run | Shows | Instance and disturbances |
|---|---|---|
| `MCRaw` | `TypeOK`, `FinalizerInv`, `FinalizerBeforeApply`, `SettledTellsTruth`, `FinalizedOutputIsGone` | one CR, a namespaced and a cluster-scoped raw output and a ConfigMap; edits and deletion at any moment, data whose manifest cannot be used, templates that do not load or render, restarts, failing calls with lost replies |
| `MCShared` | `SettledTellsTruth`, `ControllerNeverChanges`, `OutputsAreRecorded`, `NothingOutlivesOwner` | two CRs that name the same ConfigMap and the same cluster-scoped object, with and without owner semantics; they change while the operator rests, no call fails; restarts, changing data, other clients that edit, delete and create the ConfigMap |
| `MCLiveRbac` | `TurnsGreen`, `TerminatingEnds` | rights that are missing and come back unnoticed, failing calls, specs and manifests that are not valid |
| `MCInputs` | `TypeOK`, `RestIsRight`, `VerdictOnStoredSpec`, `Contract`, `CatchesUp` | specs of every kind and one per rule of `validateSpec`; edits, relabelling, deletion and creation of inputs, lagging caches, pending events, failing calls, restarts |
| `MCDNSGrace` | `GraceHonoured`, `ExpiresOnTime`, `KnownRecordsStay`, `NextLookupScheduled`, `RefreshRests`, `TypeOK` | one source with two addresses, any answers, with and without a TTL, failures with two error texts, reconciles for other reasons; status updates succeed |
| `MCDNSLosses` | `NothingHeldTooLong`, `NextLookupScheduled`, `RefreshRests` | conflicts, restarts, slow reconciles, failures, edits (also of the host of a source that keeps its name), finalizer updates, a template that needs an address |
| `MCDNSLookup` | `TypeOK`, `ResultIsResolution`, `ChainLimit`, `TTLIsLeast`, `Terminates` | chains up to one alias past the limit, loops, names without addresses or that do not exist, TTLs of 0; answers with any part of the chain |

`SettledTellsTruth` is the contract of the reconciler: when the operator has
nothing left to do, each live CR's Ready condition is the verdict on its current
spec and data, and a Ready CR has its output, as rendered, recorded, with its
owner and finalizer. It fails if any wakeup, conflict or retry is lost.

`RestIsRight` is the same promise on the side of the inputs: the verdict and the
output at rest are those of the current spec and the current objects, though they
were read one after the other from a cache that changed meanwhile, and though the
mapping looked at an older spec. Its reference, `RightAnswer`, reads everything in
one go. `Contract` adds what happens between rests, `CatchesUp` that rest comes, and
`VerdictOnStoredSpec` that a condition is written only over the spec it is about.

Properties the repository's comments or documentation promise and the code does
not keep in every behaviour; the run finds the behaviour:

| Run | What happens |
|---|---|
| `OrphanOnDelete` | a CR deleted between apply and status update leaves its cluster-scoped output behind, in spite of the finalizer |
| `GraceLost` | a failing first lookup of one source makes the CR forget when it saw the addresses of the others |
| `SlowLoop` | a reconcile that ends in a later second than the last one stores a new lookup time, which starts the next reconcile: the floor on refreshes does not bound this |
| `TTLZero` | a record with a TTL of 0 does not count towards the minimum |
| `ListOrder` | the cache lists the objects of a selector in another order: a right output is replaced by another right one, whose event starts the next reconcile |

The other runs say what their properties depend on. With other disturbances than a cfg
has, TLC finds these behaviours too; each goes against a comment of the code, or shows
why a run leaves the disturbance out:

| Change of a cfg | Property that fails | Behaviour |
|---|---|---|
| `OrphanOnDelete`: `Specs <- MoveSpecs`, `Faults = {"race", "crash"}` | `RecordedGoesWithOwner` | a CR that leaves RawObject loses its finalizer before its recorded output is deleted (`jinjatemplate_controller.go:196`): deleted itself in between, with a restart of the operator, it leaves that output behind |
| `OrphanOnDelete`: `Specs <- MoveSpecs`, `Faults = {"error"}` | `OutputsAreRecorded` | a failed deletion of the old output is logged, and `lastOutput` overwritten: it is never cleaned up ("this prevents orphaned resources", `jinjatemplate_controller.go:401`) |
| `OrphanOnDelete`: `Specs <- MoveSpecs` | `OutputsAreRecorded` | the status update that would record an output conflicts with an edit that names another target: the output is never cleaned up |
| `OrphanOnDelete`: `Data = {d1, d2}`, `Render <- KindFromData`, `Faults = {"data"}` | `FinalizerBeforeApply` | data that change the scope of the rendered kind: a copy of the CR from before its finalizer was removed lets the apply through without one |
| `MCShared`: `Faults = {"race"}` | `CleansUpOwnOutput` | a cleanup deletes its old output by name (`jinjatemplate_controller.go:424`), which another CR has created since: even a reconcile on the outdated copy of a CR that is gone does |
| `SlowLoop`: `Faults = {"fail"}`, `Texts = {p1, p2}` | `NoHotLoop` | an error text that differs each time changes the status and starts the next lookup at once, instead of after the retry interval (`controller/dns.go:29`); Go's network errors name the local port of the query |
| `MCDNSGrace`: `Faults` with `"conflict"` | `KnownRecordsStay` | records that were rendered and not stored: a failed lookup brings older ones back |
| `MCDNSGrace`: `Faults` with `"finalizer"` | `KnownRecordsStay`, `GraceHonoured` | the reply of the finalizer update brings back the statuses from before the lookups |

`RefreshRests` bounds what the operator's own writes cause within a second and with error
texts that the status has; `SlowLoop`, and its variant in the table, are what happens beyond.

`NextLookupScheduled` excepts CRs whose last reconcile failed to render: such a
reconcile returns neither an error nor an interval, and nothing looks the names up
again until something else changes.

### Bounds

One CR is enough for the properties of `OutputController` that speak of one CR,
since reconciles of different CRs share only outputs; `MCShared` has two CRs for
those. The targets are one of each sort that the code treats differently, the specs the
moves between them; two values of data tell an old content from a new one. There is no bound on the number of edits, faults
or reconciles in the runs of `OutputController`: their state spaces are finite.

In `DNSSources` only time is bounded, by `MaxClock`: a grace period of 3 and a
refresh every 2 (a TTL of 1, floored) fit several refreshes, a disappearance and
an expiry between two refreshes into 5 to 7 seconds. A TTL of 0 is one the refresh
falls back from. `LoopLength`, 4, is the number of reconciles in a row taken for a loop;
`burst` stops counting there. It is one more than a finalizer update that brings older
statuses back can cause. A retry interval of 4 is longer than grace period and refresh, so
that a missing requeue shows. `SlowLoop` has the intervals of the code.

`MCInputs` has two objects of each kind but one Secret that is edited, two values, one
of which does not render, and two disturbances (`MaxDisturbances`): an edit
that overtakes another, or an edit and a failing call or restart, at any two moments. The
specs between which the CR is edited have a source by name, by selector, from a Secret
and from DNS, two sources of one name, templates inline, from ConfigMaps and under
`output.keys`, and each wrong spec breaks one rule. The theorems of section 4 need no such bound.

In `MCDNSLookup`, `MaxHops` is 2 (10 in the code): chains of 0 to 3 aliases are below,
at and above it. Of TTLs 0, 1 and 2, 0 is the special one and two more have a least.

`CHECK_DEADLOCK FALSE` is set in every run: an operator with nothing to do stops,
and so does the bounded clock.

### Fairness

The `FairSpec` of `OutputController` assumes that the worker goroutine and the informers go on
(`WF` of `Worker`, `SyncCR`, `SyncOutput`), that the garbage collector does, and
`SF` of `Take(c)`: the workqueue is first in, first out, so that a key which is
there again and again between reconciles of others is taken in its turn. The
backoff appears as the key being back in the queue after an error: it delays and
does not end, since controller-runtime has no limit of retries. Nothing is assumed
of users or the environment; the liveness properties speak of behaviours in which
they have become quiet (`calm`).

The `FairSpec` of `Inputs` assumes the same of the worker, of each informer and
its handlers, and of the timers that add delayed keys to the workqueue. Users are
not fair; `CatchesUp` says that from some moment on the operator rests with the right
answer, which holds since `MaxDisturbances` ends edits and failures. That of `DNSLookup` is that every
exchange ends, with an answer or its timeout.

## 4. What is proved

`OutputControllerProofs`, for any sets of CRs, targets, manifests, data, accounts,
specs and faults that satisfy the named assumptions of `OutputController`
(`ConstantsAssumption`, `RenderAssumption`, `SpecsAssumption`; TLC evaluates them
in every run):

- `TypeCorrect`: `Spec => []TypeOK`. Beyond shapes, `TypeOK` says which calls of
  the worker a ConfigMap, Secret or RawObject spec leads to.
- `FinalizerFirst`: under `ScopeStable`, `Spec => []FinalizerBeforeApply`.

`FinalizerBeforeApply` is not inductive: the worker sees the finalizer on an
informer copy and the stored CR may be newer. `FinalizerInv` says why this is no
harm. A copy of a live CR that shows the finalizer, with a spec that may need it
(`MayNeedFinalizer`), is right about it (`RightAboutFinalizer`): the finalizer is
removed only by a reconcile that works on a copy with the stored resource version
and a spec that does not need it, or of a CR under deletion, and afterwards copies
with the other spec are not fresh and cannot write. The proof has a lemma per
action for each of the two invariants. `ScopeStable`, that the data of a CR do not
turn a cluster-scoped output into a namespaced one, is necessary: section 3 has
the counterexample without it. TLC checks `FinalizerInv` in `MCRaw`, and `FinalizerKnown`
is the theorem about it.

`OutputTruthProofs`, under the same assumptions on the constants and without
`ScopeStable`, any faults allowed:

- `SettledRight`: `Spec => []SettledTellsTruth`.
- `ControllerKept`: `Spec => ControllerNeverChanges`, with CRs with and without owner
  semantics side by side (those without write controlled objects, and leave the
  controller as it is).
- `FinalizedGone`: `Spec => FinalizedOutputIsGone`.

The invariant of `SettledRight` is `TypeOK /\ OutputInv`. Its heart is `TruthInv`:
each live CR tells the truth, or something will wake the operator up (`Woken`: the key is
queued, or an informer has yet to deliver the CR or one of its outputs), or the worker is at
it. For the worker, `GoalInv` says that what it works towards is what spec and data
ask for, or the change of the data has queued the CR again; `VerdictInv`, that a
status about to be stored without an error is true or outdated by something that will wake
the operator. An action that makes a CR's status false leaves a wakeup behind:
that is the mapping of events, and there a handler that missed one would break the
proof. `SettledTellsTruth` itself claims the contents of a raw
output only where nobody else writes it (`RawOutputsAlone`): raw outputs are not watched.
`ControllerKept` needs little more than that a ConfigMap or Secret is
written only over the version that was read, and `FinalizedGone` needs `DeletionInv`.

`OutputCleanupProofs`:

- `AllRecorded`: under `Undisturbed`, `Spec => []OutputsAreRecorded`.
- `NothingLeft`: under `Undisturbed` and `OwnSettles`, `Spec => []NothingOutlivesOwner`.

`Undisturbed` excludes that users change CRs while the operator works, failing calls
and missing rights; each lets an output get lost, as `OrphanOnDelete` and
the table of section 3 show. Data may change at any moment as long as they do
not move the output of a manifest to another object, which would be the same as an edit
in the middle of a reconcile. Restarts and other clients' writes are allowed.
`OwnSettles` is that all specs have owner semantics, or that those which do never fail
without a retry. Otherwise there is this history: a CR without owner semantics writes a
namespaced raw output, is edited to have them and to be invalid, and is then deleted;
its output has no owner and stays. `MCShared` satisfies both assumptions.

`RecordedInv` is the core: the objects a live CR has written are the one recorded and
those that its next reconcile writes. It rests on `OutdatedInv`: a copy that shows
a spec which is no longer the stored one is a copy of the CR at rest, so that a reconcile
with it writes, at most, what is recorded. `AccessInv` says that what is recorded can be
deleted. `NothingLeft` adds `OwnedInv`, which is to owners what `TruthInv` is to
verdicts, and `LeftInv`: what a CR under deletion leaves is what the garbage collector
or the finalization will delete.

`InputsProofs`, for any specs, objects and bound on disturbances under
`InputsAssumption` and `SpecsAssumption`:

- `TypeCorrect`: `Spec => []TypeOK`.
- `RestRight`: `Spec => []RestIsRight`.
- `VerdictOnStored`: `Spec => VerdictOnStoredSpec`.
- `ContractKept`: `Spec => Contract`, the refinement of `LevelTriggered`.

The invariant is `Inv`, `TypeOK /\ Copies /\ AnswerInv`. `Copies`: what is not marked as
lagging is equal to what is stored. `AnswerInv`: unless something is left that will wake
the operator, what it has told, or is about to tell in the reconcile under way, is right by
the informers' copies. What a reconcile has read so far (context, templates,
verdict) stays right by these copies as long as no event that the mapping cares for
is pending. This rests on one lemma about the data (`SameAnswer`): a change of an
object that `Maps` sends to nobody, in its old and its new version, changes nothing a
spec can resolve to. Then each action either keeps what was read or leaves a wakeup
behind, and at rest the copies are what is stored.

`DNSSourcesProofs`, for any number of sources and addresses, any intervals, grace periods
and texts, and any `MaxClock`, under `DNSAssumption`:

- `TypeCorrect`: `Spec => []TypeOK`.
- `NextLookupKept`: `Spec => []NextLookupScheduled`.
- `NotHeldTooLong`: `Spec => NothingHeldTooLong`.
- `KnownStays`, `GraceKept`: under `NothingLost`, `Spec => KnownRecordsStay` and
  `Spec => GraceHonoured`.
- `LeavesOnTime`: under `Prompt`, `Spec => ExpiresOnTime`.
- `RestsSoon`: `Spec => []RefreshRests`.

The first three and `RestsSoon` allow every fault. `ScheduleInv` says where the next lookup is at each
point of a reconcile: in the queue, in the interval computed so far, in the error
about to be returned, or in a status the informer has yet to show. `SeenInv` says that
no copy of a record (stored, in the informer, in the reconcile under way) claims a later
moment than the one the address was last seen at; a copy may be old, and then drops
the address too early and never too late.

That it is not dropped too early needs `NothingLost`: no conflict, crash, stale copy,
finalizer update or edit comes between what a reconcile computed and the status, and
each of these does lose records (section 3, and `GraceLost`, where a source is
added). `HistoryInv` then says that the stored status has, for every source, all that the
last answer left (`Remembers`), or nothing has been looked up yet.

`Prompt` is that reconciles take no time, that intervals are not rounded up
(`MinRequeue = 1`), and that no finalizer update brings older statuses back; a late
reconcile expires late. `ExpiryInv` carries the end of the first grace period from the
lookup through the computed interval into the queue.

`BurstInv` compares the CR with what a reconcile would make of it now (`Reconciled`). Within
a second, the first reconcile of a burst gets the condition right, the second the statuses,
when the reply to a finalizer update took the first's away, and a third changes
nothing, since to reconcile twice is to reconcile once (`ReconciledTwice`). So a
burst has at most three reconciles, one below `LoopLength`. A reconcile that lasts into a
later second, or fails with a new text, does change the status; there the burst ends and
another begins, and the theorem claims nothing of how many follow: `SlowLoop` finds that
they need not end.

`DNSLookupProofs`, for any zones, limit and TTLs under `LookupAssumption` and
`ZonesAssumption`:

- `TypeCorrect`: `Spec => []TypeOK`, no hop above the limit included.
- `LookupResolves`, `LookupLimit`, `LookupTTL`: `ResultIsResolution`, `ChainLimit`
  and `TTLIsLeast`, the last about lookups that involve no TTL of 0.

A chain is not defined by recursion: `Reaches(n)` is the least set that has `n` and is
closed under aliases. From this the lemmas derive that a chain has at most one end, that the
aliases behind `current` are those of the host less those of `current`, and that
going on removes exactly one. `LookupInvariant` proves `ResolutionInv` (the addresses
so far are those of the families done), `HopInv` (`hop` counts the
aliases behind, each once, so a chain within the limit never meets it) and `TTLInv`
(`chainTTL` is the least over a set between the aliases behind and all of them).

Only model-checked: the liveness properties (`TurnsGreen`, `TerminatingEnds`, `CatchesUp`,
`Terminates`), since the prover does not reach liveness under fairness. Every safety and
action property of a passing run has a theorem.

## 5. What is not modelled

- DNS messages and names as text (case and final dots), and TTLs that differ between
  the records of one name.
- The texts of conditions and events, and what depends on them: an update that changes a
  message only.
- `GetReferencedResources` of the resolver and `Validate` of the renderer, which have no
  caller outside tests.
- The contents of templates and the template library, the decoding of Secrets,
  events, logs, metrics, probes, flags and leader election (one replica works at
  a time).
- A rendered manifest with a controller reference of its own, which makes
  `SetControllerReference` fail (`rawobject.go:263`): a failing apply like any other, with the
  same condition and retry.
- Generated code, Helm chart and manifests.
- An output that is itself an input of its CR: in `Inputs` the output is apart from
  the objects read. Cleanup of old outputs is in `OutputController` only.
- DNS refreshes inside `OutputController` and `Inputs`, and outputs of several kinds inside
  `DNSSources`: each appears in the other as an event that enqueues the CR.

## 6. Plan

Done: the four models with their runs, the abstract specification `LevelTriggered` and
its refinement, and theorems on every safety property the runs check.

Left, in this order:

1. The safety half of `TurnsGreen`: while nobody disturbs it, a settled operator
   stays settled, an invariant that needs no fairness.
2. An abstract specification of the outputs (what a CR owns, and the moments it may
   change hands), implemented by `OutputController`.
3. An output that its own selector matches, and what two CRs with one raw output promise
   their users.

## 7. Running

    tlc -config MCRaw.cfg MCRaw
    tlc -config MCInputs.cfg MCInputs
    tlc -config MCDNSLookup.cfg MCDNSLookup
    tlapm OutputControllerProofs.tla
    tlapm OutputTruthProofs.tla
    tlapm OutputCleanupProofs.tla
    tlapm DNSSourcesProofs.tla
    tlapm InputsProofs.tla
    tlapm DNSLookupProofs.tla

`PROJECT.json` lists the runs with their modules and properties, the mutants (each
an altered form of one definition, next to it in its module, that breaks the
property it is listed with), the source lines every definition stands for, the
findings, the hazards and the theorems.
