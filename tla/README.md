# A verification model of ingress-nginx-gateway-bridge

The bridge is a Kubernetes controller. It watches `Ingress` objects written for
ingress-nginx and keeps an equivalent set of Gateway API objects for NGINX
Gateway Fabric (NGF): `HTTPRoute`s and policies per Ingress, and, for the whole
cluster, one Gateway with an HTTPS listener per TLS hostname, overflow
`ListenerSet`s and the `ReferenceGrant`s of the certificates. This directory
holds TLA+ modules translated from that code, the TLC configurations that check
them on small instances, and proofs for TLAPS.

## 1. Inventory

### Components

| Component | State | Operations |
|---|---|---|
| **Listener placement** (`translator/gateway.go`: `placeListeners`, `inheritedPlacement`) | none between calls | gives every listener a parent in three passes: where it was, where a related hostname was, first fit; 63 listeners on the Gateway, 64 on a ListenerSet |
| **Gateway planner** (`BuildManagedGateway`, `resolveWildcardGroup`, `ChangedTLSHosts`) | none; its input includes the placement of the previous plan | collects TLS declarations in Ingress order, finds conflicts, collapses hostnames onto wildcard certificates, places the listeners, reports issues, lists the grants |
| **Managed Gateway reconciliation** (`reconcileManagedGateway`, `managed_gateway.go`) | `listenerPlacements`, `certificates`, both lost in a crash | plan, commit to memory, apply grants, Gateway, ListenerSets, prune ListenerSets and grants, push the Ingresses whose hostnames moved |
| **Certificate synchronisation** (`controller/certificates.go`, `translator/certificates.go`) | the cache of certificate infos | reacts to Secret events, delays renewals by ten seconds, forgets the cache |
| **Ingress lifecycle** (`Reconcile`, `apply`, `pruneSource`) | finalizer, generated objects | add the finalizer, apply the plan's objects, prune the others; release an Ingress that is deleted or not selected |
| **Status** (`controller/status.go`) | `IngressTranslation`, label, mirrored address | reads NGF's verdicts, writes status, label and address |
| **Translation** (`translator/translate.go`) | none | one Ingress to routes, filters, policies and issues |
| **Canaries** (`canary.go`, `delegatedReady`, `translationToCanaries`) | none of its own | assigns a canary Ingress to the oldest primary that covers it, derives its readiness |
| **Push of affected Ingresses** (`enqueueAffectedIngresses`) | a channel of 1024 events | queues, with priority, the Ingresses whose listener moved |
| Names (`internal/naming`), API types, `cmd/main.go`, the Helm chart | - | formatting, declarations, flags |

### Interactions

There is one worker (`MaxConcurrentReconciles: 1`). It takes requests from a
queue that keeps each key once: an Ingress, the global key, or the
certificate-sync key. Every request replans the managed Gateway for *all*
selected Ingresses; a request for an Ingress then goes on to its own objects.
The worker reads from informer caches, which lag behind the API server
independently of each other, and writes to the API server. Its writes come back
as events and queue requests again. The two pieces of memory,
`listenerPlacements` and `certificates`, survive between requests and vanish in
a crash; the placement is then rebuilt from the listeners found in the cluster.

### What is hard here

* A reconciliation is a sequence of API calls. Any of them can fail and the
  process can die between any two; the plan is committed to memory *before* it
  is applied.
* Deletions are decided on cached lists.
* A plan depends on the plan before it, so a mistake shows only over a sequence
  of plans: oscillation, listeners that move, hostnames that end up nowhere.
* Users act in the middle: opt out, opt in, delete, edit while the controller
  holds an older copy; the finalizer is patched without a resource version.
* Readiness is a claim about NGF's view of objects, made from caches.
* All status is written by the controller that watches it.

`PROJECT.json` lists these one by one, with the line each one bites at.

### What makes each component correct

Placement: no listener lost, no parent over-full, no needless move, no needless
ListenerSet. Planner: one listener per hostname, the right certificate, both
sides of a conflict told, plans stable. Reconciliation: grants before listeners, nothing wanted
removed, the cluster converges to the plan. Lifecycle: at rest exactly the
wanted objects, nothing of an Ingress that is gone. Status: at rest it tells
the truth; readiness is earned.

## 2. The modules

`Listeners` - hostnames, parents and capacities. A hostname is a number, its
rank in the order the code sorts by; which ones are wildcards and which
wildcard covers which is given. A parent is 0 (the Gateway) or the index of a
ListenerSet.

`ListenerPlacement` - the loops of `placeListeners`, one iteration per step;
`pass`, `placed`, `counts`, `unplaced` are the variables of the function (`todo`
is the rest of the slice being ranged over, `deferred` is `pass2`/`pass3`). The
previous placement is arbitrary, not only one that an earlier plan produced.
`ListenerPlacementProofs` has its theorems.

`PlacementFold` - the same function as one value, three folds over the listeners
in their order, for the planner to use. `ListenerPlacement` extends it too and
says that its loops return that value (`AgreesWithPlan`).

`PlacementContract` - the abstract specification of a placement: what the owner
of a route may expect from one plan to the next, whatever listeners are wanted.
Its three variables are the API's presence, the hostnames and their places; its
one step allows any placement in which no listener moves for another's sake,
none is refused while there is room and no ListenerSet is opened for nothing.
`ListenerPlacement` implements it (`where` is `current` until the function
returns and `placed` from then on), and so does `GatewayReplanning`, plan after
plan; both say so as `HonoursContract`. No code is mapped to it: the passes are
`ListenerPlacement`'s and `PlacementFold`'s.

`GatewayPlan` - `BuildManagedGateway` and `ChangedTLSHosts` as operators, with
folds and no recursion, on top of `PlacementFold`. `OrderedFolds` has what the
proofs need to know of folds over finite sets in order, of best elements and of
minima; `GatewayPlanProofs` proves what each stage of `BuildManagedGateway`
returns, for any input.

`GatewayReplanning` - sequences of plans when nothing fails: one Ingress or
Secret changes, a plan is made from the previous placement.
`GatewayReplanningProofs` has its theorems.

`ManagedGateway` - `reconcileManagedGateway`, one API call per step, with the
queue, the caches of ListenerSets and grants, the certificate cache, failures
and crashes. It extends `GatewayPlan`: the plan it applies is the planner's.
`ManagedGatewayProofs` has the theorems that hold whatever the planner is,
`ManagedGatewayPlanProofs` those that look into the plans.

`IngressLifecycle` - `Reconcile` for one Ingress, one API call per step, with
independent caches for the Ingress, each generated object, the
IngressTranslation and the Gateway; users who edit, opt out and in, delete and
create again; NGF, which judges each generation of each object when it likes.
What `ManagedGateway` does is one fact here: `listed`, whether the Gateway's
listeners take this Ingress into account. `Objects[body]` is what `Translate`
yields, `{}` for a fatal plan. `Restart` puts the global request of a new process
before those of the Ingress; no property depends on that order.

`IngressLifecycleProofs` has its theorems.

`Translation` - `Translate` as operators, with what `Reconcile` gives it: the
hosts and paths of an Ingress with its aliases and default backend
(`collectHosts`), the listeners each route attaches to (`applicationParentRefs`,
`matchingTLSHost`, `RouteTLSHostnames`), the redirect to HTTPS, the assignment
of canaries and their rules in the routes of the primary (`canaryAssignments`),
whether policies target a route or settings become snippets
(`ingressRouteFootprints`, `requiresSettingsSnippets`), and the fatal issues that
depend on other Ingresses.

`IngressRouting` - many Ingresses on one managed Gateway. It composes
`GatewayPlan` and `Translation` with all sources of requests: the map functions
of `SetupWithManager` and `enqueueAffectedIngresses`, whose channel may drop any
push. Canaries take their readiness from the cached IngressTranslation of their
primary (`delegatedReady`). `IngressRoutingProofs` has its theorems. Its properties
say what the code promises and no more:

* An event of an Ingress wakes the Ingresses of its namespace when its generation
  or its annotations changed (`ConcernsNamespace`); a change of labels wakes the
  Ingress alone, and concerns nobody else. A TLS declaration of another namespace is seen by the plan, and the Ingresses it concerns are not
  woken unless a listener changes. `QuietFollows` and the first part of
  `QuietDelegates` therefore leave out an Ingress whose hostnames another
  namespace may declare (`OnItsOwn`); that routes name only listeners that exist
  (`QuietRoutesAttach`), and that a canary is never ready without its rules in
  place, hold for every Ingress. An entry without a Secret declares nothing
  (`DeclaredIn`).
* A canary that cannot be translated has a verdict of its own; any other is as
  ready as its primary.
* The code notices overlaps by comparing footprints, and some of the paths that
  aliases mirror are in nobody's footprints (`MirrorsUnnoticed`): those of a
  default backend when the Ingress has no first host with a name, and those of a
  canary whose first host differs from its primary's - the canary inherits the
  primary's aliases and mirrors the paths of its own first host to them.
  `QuietPoliciesApart` is about the others; the run `NoPolicyOnOverlap` shows the
  first kind going wrong.

The `MC*` modules give constants their values. Definitions headed "Mutant" are
slips in the definition they precede; nothing uses them, and `PROJECT.json`
says which property each one breaks.

### Correspondence and abstraction

`PROJECT.json` maps each definition to its lines. Some choices to know of:

* *Times and order.* `namespace/name` order is the order of numbers. A ten
  second delay is a step that may be taken at any time.
* *The queue* of `ManagedGateway` has two keys, `Sync` and `Replan`; all others
  do the same to the Gateway. The requests for Ingresses add work of their own,
  which is `IngressLifecycle`.
* *One fact per object.* A generated object keeps its body, its generation and
  NGF's verdict on a generation. Objects pruned are deleted in any order, which
  covers the order of kinds. NGF's several conditions are one verdict.
* *Atomic reads.* `generatedReady` reads several caches in one step, and the
  lists of `pruneSource` are read together: informers may move between those
  reads in the code, not in the model.
* *Many Ingresses.* In `IngressRouting` the applies and the pruning of one plan are
  one step (`ApplyRoutes`), in which the Ingresses of the namespace are listed once
  and not, as in the code, once for canaries and once for overlaps; NGF accepts at
  once what can attach. `ManagedGateway` and `IngressLifecycle` take applies,
  pruning and verdicts apart. Only the cache of IngressTranslations lags; other events are
  delivered as they happen. An Ingress leaves in one step, by deletion or by
  opting out, and its age is its creation time. What an annotation can do wrong
  by itself (an unknown auth type, a regular expression, a rewrite) is one
  Boolean, `faulty`: it depends on nothing but the Ingress.
* *Paths.* The paths of a hostname are a set. The code counts repeated paths, and one
  path with two path types, towards the sixteen rules of a route; `MaxRules` does
  not. No property depends on how many there are.
* *Kubernetes.* A patch changes the fields it names of whatever object has that
  name (`MergeFrom` sends no resource version); deletion waits for the finalizer;
  server-side apply raises the generation when the content changes. The garbage
  collection of owned objects is not relied upon.
* *Left out:* objects edited or deleted by others and the refusal to adopt them,
  other controllers' finalizers, ListenerSet readiness, `allowedListeners`,
  regular-expression paths, the events of Services and ConfigMaps, an unmanaged
  Gateway (`--manage-gateway=false`), warnings, messages, names and labels beyond their identity.

## 3. The runs

| Run | Instance | What it shows |
|---|---|---|
| `ListenerPlacement` | 4 hostnames, one wildcard over two of them; Gateway 1, ListenerSets 2; all sets of listeners, all previous placements, with and without ListenerSets | `Partition`, `CapacityRespected`, `Sticky`, `ReportedOnlyWhenFull`, `FirstFitOnly`; the loops compute `PlaceListeners` (`AgreesWithPlan`) and implement `PlacementContract` (`HonoursContract`) |
| `GatewayReplanning` | 5 hostnames, 3 Ingresses in 2 namespaces with conflicting, inferred, blank and wildcard declarations, 3 Secrets that renew or gain and lose the wildcard; Gateway 2, ListenerSets 1 or none | `OneListenerPerHostname`, `RightCertificate`, `ServedOnceOrReported`, `ConflictReported`, `Settled` (where every hostname has a listener), and `HonoursContract` for every replan |
| `ManagedGateway` | 3 hostnames, 2 Ingresses, 2 Secrets; Gateway 1, ListenerSets 1; 2 edits, 1 failed call, 1 crash, everywhere | `GatewayGranted`, `PlannedSetsGranted`, `QuietIsCurrent`, `QuietIsApplied`, `NeverRemovesWanted`, `RestartKeepsPlaces`, and, with fairness, `Converges` |
| `IngressStatus` | a translatable and an untranslatable body, one object, a Gateway that is pending or programmed; 2 edits, so an opt-out and an opt-in can cross in a reconciliation and the caches | `QuietServes`, `QuietReleased`, `QuietReports`, and, with fairness, `Rests` |
| `IngressObjects` | two plans that share one of two objects; 1 edit, 1 failed call, 1 crash | `QuietServes`, `QuietReleased` |
| `IngressRouting` | 4 Ingresses in 2 namespaces: a primary with an alias, an older one, canaries (sound, faulty, two for one rule), one with a default backend, one that needs its sibling's TLS, and one that contends for a hostname; 4 hostnames, a wildcard over three; 3 Secrets; Gateway 1, ListenerSets 2; six sets of Ingresses to start beside, 1 edit, 1 reconciliation cut short, any push dropped | `QuietFollows`, `QuietRoutesAttach`, `QuietDelegates`, `QuietPoliciesApart`, `QuietEncrypts`, and, with fairness, `Rests` |

The bounds are the smallest at which the cases occur. A wildcard with two
covered hostnames and one that it does not cover gives every kind of
inheritance; capacities of one and two make the Gateway fill up and force a
second ListenerSet. Three Ingresses are what it takes for a conflict in which
one declaration agrees and one does not. Two edits allow a change during a
reconciliation and another one during its retry; one failure and one crash meet
at every pair of calls. More hostnames were not found to add a new kind of
case, and every invariant and action property of these six runs is proved for
every number (section 4). In `IngressRouting` the
controller starts beside Ingresses it has not reconciled yet, in any order, so
the one edit meets every stage of the first round of reconciliations: it comes
before, between and after those of the Ingresses it concerns. The six sets let
each of these come in some behaviours and go in others: an older primary, a canary
that takes its primary down, the TLS declaration a redirected route depends on, a
listener of another namespace. `IngressStatus` has two edits for
the same reason: when the watch of Ingresses passes new generations only
(`SeeGeneration`), it takes an opt-out and an opt-in to go wrong.

Runs of what the documentation says and the code does not do (`expect:
violation`; details under `findings`):

| Run | Statement | What happens |
|---|---|---|
| `NothingToMove` | architecture.md: the class that serves a wildcard is picked minimizing how many listeners change parent; a placed listener stays while there is room | hostnames that were refused for want of room count as served by the wildcard: on a full Gateway without ListenerSets the next plan, with nothing changed, gives the wildcard to another certificate |
| `ChangedIsComplete` | comment on `ChangedTLSHosts`: reports every hostname whose listener differs | not when the previous plan could not place the hostname and had a listener for its wildcard |
| `NoStaleCertificate` | comment in `certificateInfos`: dropping unreferenced entries avoids stale certificate info | not when no reconciliation runs while the Secret is unreferenced |
| `ListenersGoFirst` | README.md: the finalizer makes sure listeners are removed before an Ingress goes | the release started by an opt-out can take the finalizer of an Ingress selected again |
| `NoPolicyOnOverlap` | architecture.md: NGF rejects a route's policy when another route overlaps; such routes use snippets | a default backend that is mirrored to an alias is not counted among the rules of its Ingress, which keeps its policy beside another Ingress's rule |
| `ReadyIsEarned` | status message and hot-swap.md: Ready covers Gateway, routes, filters, policies | right after an apply, Ready can be written from the cached verdict on the old content; it is corrected once the cache catches up (`QuietReports`) |

### Fairness

`ManagedGateway` assumes that the worker takes its next step whenever it has a
request or is in the middle of one, that informers deliver and that the settle
delay ends. The queue of controller-runtime does the first (a failed request is
queued again, with a back-off), list-and-watch the second, a timer the third.
Fairness of the worker is written out as `<>[]CanReconcile =>
[]<><<Reconcile>>_vars`, which is weak fairness with the enabling condition in
plain view. `IngressLifecycle` assumes the same of its worker and its informers.
`IngressRouting` states it as `WF_phase(Working)` - every step of the worker, and
no other, moves `phase` - and `WF_seen(Delivering)` for the informer. Its `Rests`
says that the requests the controller's own writes cause run out: the Gateway
asks for all Ingresses, an IngressTranslation for the canaries of its owner, and
none of this goes round in a circle.
No fairness is assumed of users, of NGF (it may never judge an object), of
failures or of crashes; these are bounded, so they stop.

## 4. What is proved

For every set of hostnames, Ingresses and Secrets, every capacity and every
bound, from the named assumptions on the constants only. `HostAssumption`,
`CapacityAssumption`, `SecretAssumption` and `CoveringAssumption` say what names,
ranks and wildcards are; `ObjectAssumption`, `BoundAssumption`, `NilAssumption`
are those of one Ingress; `ReplanningAssumption`, `ManagedGatewayAssumption` and
`RoutingAssumption` say that Ingresses and certificates are values of their
types, and contain `EnoughSets`: the bound `MaxListenerSet` leaves room for one
listener per hostname, as the code's unbounded loop over ListenerSets always
does. Some theorems have the hypothesis `Overflow`, that the ListenerSet API is
installed: without it a full Gateway refuses hostnames, ListenerSets are not
pruned, and the theorems would be false (`NothingToMove` above, and a hostname
without a section attaches to a listener that does not exist).

*Placement* (`ListenerPlacementProofs`): `TypeCorrect`, `NoListenerLost`,
`NeverOverCapacity`, `Stickiness`, `ReportedIsFull`, `FirstFitIsNeeded`. None
of these invariants is inductive by itself. `CapacityRespected` speaks of the
listeners on a parent while the code tests a counter: the strengthening says
that the counter of a parent is the cardinality of what is placed there.
`Sticky` needs what the first pass knows about what it has already done: a
listener was deferred only because its previous parent cannot be used or was
full, and during that pass a parent carries nothing but listeners that were
there before; so a full parent was the previous parent of more than fit it
(`FullMeansTooMany`).
`ContractHonoured` is the refinement: the steps inside the three passes stutter,
and the one that returns is `PlacementContract`'s `Replan`, by the invariants
above.
`LoopsAreFolds` relates the state machine, in the middle of a pass, to a fold over
the whole of it. The invariant (`Folding`) says that what the pass has done is the
fold over the listeners it has looked at, those not in `todo`; they precede all
others, so one more iteration is one more step of the fold (`OneMore`), and
at the end of a pass the fold is the pass. `PlacementFold` and
`GatewayPlanProofs` thus stand for the loops wherever they speak of a placement.

*The planner* (`GatewayPlanProofs`, `GatewayReplanningProofs`): `OneListener`,
`Served`, `ServedRight`, `ConflictsTold`, `Settles`, `Implements`. The invariant is
that the plan is `BuildManagedGateway` of the Ingresses and certificates there
are and of some earlier placement; what remains is what a plan is, and that is
proved stage by stage as lemmas about the operators.
`Collect` folds over Ingresses and over their entries. `OrderedFolds` proves that
a fold over a finite set in order exists as a function on its subsets, unfolds at
the largest element, and that what holds of the empty set and is kept by a step
holds of every subset; so `CollectSummary` can say who owns a hostname, who
declared it and who was told: an Ingress that loses it, and with it one before it
that agreed with the owner, who need not be the first to declare it.
For `resolveWildcardGroup` it is shown that `Better` orders the classes totally (the code's three criteria, the last of which cannot
tie), so there is a winner and it is one of the classes; that a hostname then has
exactly one listener (`NameOf`) is what separates the fallbacks of one wildcard,
the exact hostnames and the other wildcards from each other. `PlaceListenersIs`
does for the passes as folds what `ListenerPlacementProofs` does for the loops.
`Settles` is the longest argument: from its own placements the plan must find the
same winner, because every hostname that has a listener votes for where it is
(`ReplanIsSame`), and then every listener is kept by the first pass.

*Reconciliation with plans* (`ManagedGatewayPlanProofs`): `TypeCorrect`,
`NoParentOverfull`, `RestartStays`, `RestMeansCurrent`. `NoParentOverfull` is about
the cluster between any two calls: a parent carries its share of the committed
plan or of the one before, and both fit. `RestMeansCurrent` needs that the plan in
memory is made of the Ingresses and certificate infos of the last reconciliation,
that any change since then has left a request, and `ReplanIsSame` for the
reconciliations that start from the plan's own placements.

*Many Ingresses* (`IngressRoutingProofs`): `TypeCorrect`, `RestMeansAttached`,
`PoliciesApart`, `RedirectedEncrypt`, `NoWakeUpLost`, `CanariesDelegate`. There are
two inductive invariants on top of the types.

`AttachInv` says that an Ingress whose routes name a listener that is not there is
queued or about to be translated with the plan that was applied, that one that is
gone has no routes or is queued, and that between the apply of a plan and the
routes of the Ingress in hand the listeners are those of the plan. Which Ingresses
`enqueueAffectedIngresses` pushes plays no part: the Gateway's own events suffice.
The plan gives a section on one of its listeners to every declared hostname
(`SectionsPlaced`), and `MatchingTLSHost` returns a declared one, because of all
the declared names that cover a hostname one is the longest (`MatchingIs`).

`FollowInv` says of every Ingress that it is queued or being worked at, or that its
routes and verdict are those `Translate` gives with its namespace as it is now and
*some* plan (`Current`, `Fresh`): one made of Ingresses that agree with today's on that
namespace, and that placed every listener where the Gateway has it. A step of another
namespace then disturbs nothing, because `Translate` depends on the Ingresses of
its own namespace and on the plan only (`TranslateLocal`, `AlikeForNeighbours`),
and a step of the same namespace queues the Ingress. `PoliciesApart` needs no
more, with or without ListenerSets: policies depend on footprints, not on
listeners, and what a route has rules for is among the footprints of its Ingress
(`MirroredNoticed`, `RulesNoticed`), so of two that overlap each finds the other.
The other three replace that plan by today's. For that, who owns a hostname and
who is told of a conflict must depend on its declarers only (`BlamedIs`,
`OnlyDeclarersCount`); every declared hostname must have a section
(`SetsPlanFor`, which is where `Overflow` comes in); and the declarers of what
concerns an Ingress must be of its namespace (`DeclarersAre`), which is what
`OnItsOwn` says. Then both plans give the Ingress the same
sections and the same verdict (`PlansAgree`, `RestPlan`). `RedirectedEncrypt` does
without `OnItsOwn`: a declaration of the namespace is in both plans, and whatever
the rest declares, the match is a listener that covers the hostname.
`CanariesDelegate` adds that the verdict of a canary was read from a translation
that has not changed since, and that the primary that reported ready carries the
rules it was made of (`CanaryVerdict`, `CanaryCarried`).

*Reconciliation* (`ManagedGatewayProofs`): `GrantsCoverGateway`,
`GrantsCoverSets`, `WantedListenersStay`, `RestMeansApplied`. The inductive
invariant says what each phase may rely on: while grants are applied, those not
in `todo` exist; from the Gateway's apply on, all grants of the committed plan
exist; what is in `todo` of a pruning phase is not wanted; ListenerSets that were
applied are what the plan says. `RestMeansApplied` follows an apply from its
commit to the end of its pruning, through failures, which leave a request in the
queue, and through late informers, which are the reason why `Quiet` asks for
caches that have caught up. The planner is never opened in these proofs: they
hold for any function in its place, so they depend on the order of the calls
only. `RestMeansApplied` is stated where ListenerSets exist (`Overflow`);
without that API ListenerSets are not pruned.

*One Ingress* (`IngressLifecycleProofs`): `TypeCorrect`, `NothingLeft`,
`ServedExactly`, `ReportedTruly`. No step of `Reconcile` establishes anything
about the cluster by itself, since it decides on caches and on copies of them.
The argument is that a cache that changes asks for the Ingress again. The
inductive invariant has two halves. `Always` holds at any time: what a phase
knows of its own variables, that a deleted Ingress is held by its finalizer, that
generations only grow and each is of one body. `WhileSeen` holds while no request
is queued: then the caches are still those that the latest reconciliation has
read, and it says what is left to do for what they hold - for an Ingress that is
gone or not selected, only what is in `todo` or has failed (`Pruned`) and what
the release has read (`Released`); for one that is served, that the copy is of
the cached generation, that every object done is the one its plan wants, and
that what was reported follows from the caches (`CopyOfSeen`, `ObjectsOfSeen`,
`ReportOfSeen`). At rest the caches equal the cluster, and the three theorems
follow. They cover every interleaving of users, failures, restarts and late
informers, in any number.

## 5. What is only model-checked

Liveness: `Converges` of `ManagedGateway`, and `Rests` of `IngressStatus` and
`IngressRouting`. TLAPS has no support for `ENABLED` and fairness. That the
controller comes to rest is the other half of every theorem about a controller at
rest, so these three are checked on instances with failures, crashes (where the
module has them) and late informers.

Every other property of a passing run is stated by a theorem, under the hypothesis
`Overflow` where section 4 says so. The violations are
TLC's: each is one behaviour of the code, and nothing is proved of them.

## 6. What is not modelled, and the plan

1. `CertificateSync`: the Secret cache and the order of events of one Secret,
   finer than in `ManagedGateway`, with the listing that decides whether the
   Secret is referenced.
2. The readiness of ListenerSets in `IngressLifecycle`, and objects edited,
   deleted or created by others. Deletion by others needs informers that tell an
   object that came and went unseen from one that never was.
3. `IngressRouting` on a Gateway that is full and without ListenerSets, where
   declared hostnames have no listener, and with late events of Ingresses.

Not planned: the parsing of annotations and certificates, the filters and issues
that one annotation makes by itself (authentication, CORS, rewrites, backend TLS,
snippets), the shape of the generated objects, names, flags, the chart -
functions and formatting without state of their own, covered by the repository's
unit tests.
