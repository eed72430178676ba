---------------------------- MODULE IngressRouting ----------------------------
(***************************************************************************)
(* Many Ingresses on one managed Gateway: what wakes which Ingress         *)
(* (internal/controller: SetupWithManager and its map functions,           *)
(* enqueueAffectedIngresses), so that routes follow the listeners, the     *)
(* canaries and the overlaps that other Ingresses decide.                  *)
(*                                                                         *)
(* It composes the planner (GatewayPlan) with Translation.  The applies of *)
(* one plan are one step here, and NGF accepts at once what it can attach: *)
(* ManagedGateway and IngressLifecycle take both apart.  Of the informers  *)
(* only that of the IngressTranslations lags; other events are delivered   *)
(* as they happen, when they have the least to tell.                       *)
(***************************************************************************)
EXTENDS Translation

CONSTANTS
    Declarations,   \* [Source -> set of the Ingress bodies it may have]
    Initially,      \* bound: the sets of Ingresses the controller may start beside
    Certificates,   \* [Secret -> CertificateInfo]
    Overflow,       \* ListenerSetsAvailable
    MaxEdits,       \* bound: changes of Ingresses
    MaxFailures     \* bound: reconciliations cut short by an error

ASSUME RoutingAssumption ==
    /\ \A s \in Source : \A b \in Declarations[s] : IsIngress(b)
    /\ \A i \in Initially : DOMAIN i \subseteq Source /\ \A s \in DOMAIN i : i[s] \in Declarations[s]
    /\ Certificates \in [Secret -> CertificateInfo]
    /\ EnoughSets
    /\ Overflow \in BOOLEAN
    /\ MaxEdits \in Nat /\ MaxFailures \in Nat

VARIABLES
    \* The cluster.
    ingresses,    \* the selected Ingresses, a function from a set of Sources
    generation,   \* [Source -> metadata.generation]
    listeners,    \* where the Gateway and the ListenerSets have each listener
    routes,       \* [Source -> its HTTPRoutes and whether policies target them]
    translations, \* [Source -> its IngressTranslation]
    \* The controller's informers, workqueue and memory.
    seen,         \* the IngressTranslations in the informer cache
    queue,
    plan,         \* the last plan; its placements are listenerPlacements
    \* The reconciliation in progress.
    phase,
    request,
    copy,         \* the Ingress as it was read: [body, generation]
    outcome,      \* what Translate made of it
    \* Bounds.
    edits, failures

cluster == <<ingresses, generation, listeners, routes, translations>>
work    == <<phase, request, copy, outcome>>
bounds  == <<edits, failures>>
vars    == <<ingresses, generation, listeners, routes, translations, seen, queue, plan,
             phase, request, copy, outcome, edits, failures>>

Global == 0      \* globalReconcileKey
NoIngresses   == [s \in {} |-> {}]
NoCopy        == [body |-> <<>>, generation |-> 0]
NoOutcome     == [fatal |-> FALSE, delegatedTo |-> NoSource]
NoTranslation == [observed |-> 0, ready |-> "none"]

Phases == {"idle", "prune", "gateway", "translate", "status"}
Status == {"True", "False", "Unknown"}

PlanFor(selected, current) == BuildManagedGateway(selected, Certificates, current, Overflow)

TypeOK ==
    /\ DOMAIN ingresses \subseteq Source /\ generation \in [Source -> Nat]
    /\ listeners \in [Host -> Placement] /\ plan.placements \in [Host -> Placement]
    /\ \A s \in Source : \A h \in Name : routes[s][h].rules \subseteq Source \X Path
    /\ \A s \in Source : \A t \in {translations[s], seen[s]} :
           t = NoTranslation \/ (t.observed \in 1 .. generation[s] /\ t.ready \in Status)
    /\ queue \subseteq Source \cup {Global}
    /\ phase \in Phases /\ request \in Source \cup {Global}
    /\ outcome.delegatedTo \in Source \cup {NoSource}
    /\ edits \in 0 .. MaxEdits /\ failures \in 0 .. MaxFailures

(* The controller starts beside Ingresses that already exist. *)
Init ==
    /\ ingresses \in Initially
    /\ generation = [s \in Source |-> 1]
    /\ listeners = NoPlacements
    /\ routes = [s \in Source |-> NoRoutes]
    /\ translations = [s \in Source |-> NoTranslation] /\ seen = translations
    /\ queue = DOMAIN ingresses \cup {Global}
    /\ plan = PlanFor(NoIngresses, NoPlacements)
    /\ phase = "idle" /\ request = Global /\ copy = NoCopy /\ outcome = NoOutcome
    /\ edits = 0 /\ failures = 0

-----------------------------------------------------------------------------
(* The users.  An Ingress leaves by deletion or by the opt-out annotation. *)

(***************************************************************************)
(* Definitions headed "Mutant" are slips in the definition they precede;   *)
(* no specification uses them.  Each breaks a property below.              *)
(***************************************************************************)

SpecOf(b)        == <<b.tls, b.rules, b.first, b.paths, b.catchAll>>
AnnotationsOf(b) == <<b.aliases, b.canary, b.redirect, b.settings, b.faulty>>

\* The namespace's watch passes new generations and annotations, not labels:
\* that it is a solver's concerns nobody but the Ingress.
ConcernsNamespace(s, new) ==
    \/ s \notin DOMAIN ingresses \cap DOMAIN new
    \/ SpecOf(new[s]) # SpecOf(ingresses[s])
    \/ AnnotationsOf(new[s]) # AnnotationsOf(ingresses[s])

\* Mutant: an Ingress event is for the Ingress itself.
WokenByItself(s, new) == {s}

\* For and ingressToNamespaceIngresses.
WokenByIngress(s, new) == {s} \cup IF ConcernsNamespace(s, new) THEN Neighbours(s, new) ELSE {}

Edit(s, new) ==
    /\ edits < MaxEdits
    /\ edits' = edits + 1
    /\ ingresses' = new
    /\ queue' = queue \cup WokenByIngress(s, new)
    /\ UNCHANGED <<listeners, routes, translations, seen, plan, work, failures>>

\* Annotations and labels can change without a new generation.
PutIngress(s) ==
    \E b \in Declarations[s] :
        /\ s \in DOMAIN ingresses => b # ingresses[s]
        /\ Edit(s, [t \in DOMAIN ingresses \cup {s} |-> IF t = s THEN b ELSE ingresses[t]])
        /\ generation' =
               IF s \in DOMAIN ingresses /\ SpecOf(b) = SpecOf(ingresses[s]) THEN generation
               ELSE [generation EXCEPT ![s] = @ + 1]

DropIngress(s) ==
    /\ s \in DOMAIN ingresses
    /\ Edit(s, [t \in DOMAIN ingresses \ {s} |-> ingresses[t]])
    /\ UNCHANGED generation

-----------------------------------------------------------------------------
(* The informer of the IngressTranslations. *)

\* Mutant: canaries do not follow their primary.
WokenByOwned(s) == {s}

\* Owns and translationToCanaries.
WokenByTranslation(s) == {s} \cup {c \in DOMAIN ingresses : AssignedTo(c, ingresses) = s}

SeeTranslation(s) ==
    /\ seen[s] # translations[s]
    /\ seen' = [seen EXCEPT ![s] = translations[s]]
    /\ queue' = queue \cup WokenByTranslation(s)
    /\ UNCHANGED <<cluster, plan, work, bounds>>

-----------------------------------------------------------------------------
(* Reconcile. *)

Start(r) ==
    /\ phase = "idle"
    /\ r \in queue
    /\ queue' = queue \ {r}
    /\ request' = r
    /\ copy' = IF r \in DOMAIN ingresses THEN [body |-> ingresses[r], generation |-> generation[r]]
               ELSE NoCopy
    /\ phase' = IF r \in DOMAIN ingresses \cup {Global} THEN "gateway" ELSE "prune"
    /\ UNCHANGED <<cluster, seen, plan, outcome, bounds>>

Return == phase' = "idle" /\ request' = Global /\ copy' = NoCopy /\ outcome' = NoOutcome

\* Mutant: every apply is an event.
WriteRoutesAnew(s, new) ==
    /\ routes' = [routes EXCEPT ![s] = new]
    /\ queue' = queue \cup {s}

\* An owned object that changes asks for its Ingress.
WriteRoutes(s, new) ==
    /\ routes' = [routes EXCEPT ![s] = new]
    /\ queue' = queue \cup IF routes[s] = new THEN {} ELSE {s}

\* pruneSource of an Ingress that is gone.
Prune ==
    /\ phase = "prune"
    /\ WriteRoutes(request, NoRoutes)
    /\ translations' = [translations EXCEPT ![request] = NoTranslation]
    /\ phase' = "gateway"
    /\ UNCHANGED <<ingresses, generation, listeners, seen, plan, request, copy, outcome, bounds>>

\* The Ingresses whose routes attach to a listener that changes.
Affected(new) ==
    {s \in DOMAIN ingresses :
        RouteTLSHostnames(ingresses[s], new.tlsHosts) \cap ChangedTLSHosts(plan.placements, new) # {}}

\* Mutant: a change of the Gateway asks for the Gateway only.
WokenByGatewayAlone(selected) == {Global}

\* gatewayToIngresses, managedGrantToIngresses and managedListenerSetToIngresses.
WokenByGateway(selected) == selected \cup {Global}

(***************************************************************************)
(* reconcileManagedGateway.  The affected Ingresses are pushed last; those *)
(* the channel has no room for are dropped.                                *)
(***************************************************************************)
ReconcileGateway ==
    /\ phase = "gateway"
    /\ plan' = PlanFor(ingresses, plan.placements)
    /\ listeners' = plan'.placements
    /\ \E pushed \in SUBSET Affected(plan') :
           queue' = queue \cup pushed
                    \cup IF listeners' = listeners THEN {} ELSE WokenByGateway(DOMAIN ingresses)
    /\ IF copy = NoCopy THEN Return
       ELSE phase' = "translate" /\ UNCHANGED <<request, copy, outcome>>
    /\ UNCHANGED <<ingresses, generation, routes, translations, seen, bounds>>

ApplyRoutes ==
    /\ phase = "translate"
    /\ LET t == Translate(request, copy.body, ingresses, plan) IN
       /\ WriteRoutes(request, t.routes)
       /\ outcome' = [fatal |-> t.fatal, delegatedTo |-> t.delegatedTo]
    /\ phase' = "status"
    /\ UNCHANGED <<ingresses, generation, listeners, translations, seen, plan, request, copy, bounds>>

\* Mutant: no matter which generation the primary's status is about.
DelegatedReadyOfAny(p) == IF p \notin DOMAIN ingresses THEN "Unknown" ELSE seen[p].ready

\* delegatedReady: the primary from one cache, its IngressTranslation from another.
DelegatedReady(p) ==
    IF p \notin DOMAIN ingresses \/ seen[p].observed # generation[p] THEN "Unknown" ELSE seen[p].ready

Listed(ref) ==
    \/ ref = HTTPSection
    \/ ref.listener # NoHost /\ listeners[ref.listener].parent = ref.parent

Attachable(s) == \A h \in Name : \A ref \in routes[s][h].refs : Listed(ref)

Ready ==
    IF outcome.fatal THEN "False"
    ELSE IF outcome.delegatedTo # NoSource THEN DelegatedReady(outcome.delegatedTo)
    ELSE IF Attachable(request) THEN "True" ELSE "Unknown"

WriteStatus ==
    /\ phase = "status"
    /\ translations' = [translations EXCEPT ![request] = [observed |-> copy.generation, ready |-> Ready]]
    /\ Return
    /\ UNCHANGED <<ingresses, generation, listeners, routes, seen, queue, plan, bounds>>

\* A call fails: the rest is not done and the request is retried.
Fail ==
    /\ failures < MaxFailures
    /\ failures' = failures + 1
    /\ phase # "idle"
    /\ queue' = queue \cup {request}
    /\ Return
    \* The plan is committed before it is applied.
    /\ plan' \in {plan} \cup IF phase = "gateway" THEN {PlanFor(ingresses, plan.placements)} ELSE {}
    /\ UNCHANGED <<cluster, seen, edits>>

Reconcile ==
    \/ \E r \in Source \cup {Global} : Start(r)
    \/ Prune \/ ReconcileGateway \/ ApplyRoutes \/ WriteStatus

Quiet == phase = "idle" /\ queue = {} /\ seen = translations

\* The only place where the controller may rest.
AtRest == Quiet /\ UNCHANGED vars

Next ==
    \/ \E s \in Source : PutIngress(s) \/ DropIngress(s)
    \/ Reconcile
    \/ \E s \in Source : SeeTranslation(s)
    \/ Fail
    \/ AtRest

Spec == Init /\ [][Next]_vars

\* Every step of the worker, and no other, moves the phase.
Working == (phase # "idle" \/ queue # {}) /\ phase' \in Phases \ {phase}

Delivering == \E s \in Source : seen[s] # translations[s] /\ seen' = [seen EXCEPT ![s] = translations[s]]

\* The worker works and the informer delivers.
FairSpec == Spec /\ WF_phase(Working) /\ WF_seen(Delivering)

-----------------------------------------------------------------------------
\* The hostnames an Ingress declares TLS for, with a Secret.
DeclaredIn(b) ==
    UNION {EffectiveTLSHosts(b, b.tls[e]) : e \in {f \in DOMAIN b.tls : b.tls[f].secret # NoSecret}}

Hosts(s) == {h \in Name : HostPaths(ingresses[s])[h] # {}}

\* The declared names that may cover a hostname.
CoverNames(h) == {h} \cup IF h = NoHost THEN {} ELSE Covering[h]

\* What any Ingress of another namespace may ever declare does not concern s.
OnItsOwn(s) ==
    \A t \in Source : \A b \in Declarations[t] :
        NamespaceOf[t] # NamespaceOf[s]
        => DeclaredIn(b) \cap (DeclaredIn(ingresses[s]) \cup UNION {CoverNames(h) : h \in Hosts(s)}) = {}

(***************************************************************************)
(* No wake-up is lost within a namespace: at rest, the routes of an        *)
(* Ingress and the verdict in its IngressTranslation are those Translate   *)
(* gives with everything as it is now - the listeners, the canaries and    *)
(* the overlaps others decide - and an Ingress that is gone has none.      *)
(* (Not so when TLS declarations of another namespace concern it: their    *)
(* events do not wake it unless a listener changes.)                       *)
(***************************************************************************)
QuietFollows ==
    Quiet => \A s \in Source :
        IF s \notin DOMAIN ingresses
        THEN routes[s] = NoRoutes /\ translations[s] = NoTranslation
        ELSE LET t == Translate(s, ingresses[s], ingresses, PlanFor(ingresses, plan.placements)) IN
             /\ translations[s].observed = generation[s]
             /\ OnItsOwn(s) =>
                   /\ routes[s] = t.routes
                   /\ t.delegatedTo = NoSource => (translations[s].ready = "False" <=> t.fatal)

\* At rest, no route names a listener that is not where the route says,
\* whichever namespace moved it.
QuietRoutesAttach ==
    Quiet => \A s \in Source, h \in Name : \A ref \in routes[s][h].refs : Listed(ref)

(***************************************************************************)
(* At rest, a canary is as ready as the oldest primary that has its rules, *)
(* never ready unless the routes of that primary carry every one of them,  *)
(* and in nobody else's routes.                                            *)
(***************************************************************************)
QuietDelegates ==
    Quiet => \A c \in {s \in DOMAIN ingresses : ingresses[s].canary} :
        LET p == AssignedTo(c, ingresses) IN
        /\ OnItsOwn(c) /\ ~Translate(c, ingresses[c], ingresses, PlanFor(ingresses, plan.placements)).fatal
               => translations[c].ready = translations[p].ready
        /\ translations[c].ready = "True"
               => \A x \in SpecFootprints(ingresses[c]) : <<c, x[2]>> \in routes[p][x[1]].rules
        /\ \A s \in Source \ {p} : \A h \in Name : \A r \in routes[s][h].rules : r[1] # c

\* Two routes, for one hostname, with a path in common.
Overlap(s, t, h) ==
    \E x \in routes[s][h].rules, y \in routes[t][h].rules : x[2] = y[2]

\* Aliases mirror paths nobody else knows of: those of the default backend, and
\* those of a canary that has another first host than its primary.
MirrorsUnnoticed(s) ==
    /\ ingresses[s].aliases # {}
    /\ \/ ingresses[s].catchAll /\ FirstHost(ingresses[s]) = NoHost
       \/ \E c \in CanariesOf(s, ingresses) : FirstHost(ingresses[c]) # FirstHost(ingresses[s])

(***************************************************************************)
(* At rest, a route that a policy targets overlaps with no route of        *)
(* another Ingress of the namespace, so NGF rejects none of them: both     *)
(* Ingresses have noticed the other.  (Some of the paths that aliases      *)
(* mirror are not noticed.)                                                *)
(***************************************************************************)
QuietPoliciesApart ==
    Quiet => \A s \in DOMAIN ingresses : \A t \in Neighbours(s, ingresses) \ {s} : \A h \in Name :
        routes[s][h].policies /\ ~MirrorsUnnoticed(s) /\ ~MirrorsUnnoticed(t) => ~Overlap(s, t, h)

(***************************************************************************)
(* At rest, an Ingress that redirects to HTTPS is reached over TLS only,   *)
(* by a listener whose hostname covers its own, as soon as an Ingress of   *)
(* its namespace declares TLS for that hostname.                           *)
(***************************************************************************)
QuietEncrypts ==
    Quiet => \A s \in DOMAIN ingresses : \A h \in Hosts(s) \ {NoHost} :
        /\ ingresses[s].redirect /\ ~ingresses[s].solver /\ routes[s] # NoRoutes
        /\ \E t \in Neighbours(s, ingresses) : DeclaredIn(ingresses[t]) \cap CoverNames(h) # {}
        => /\ routes[s][h].redirect
           /\ \A ref \in routes[s][h].refs : ref.listener \in CoverNames(h)

\* The controller comes to rest: the events of its own writes run out.
Rests == <>[]Quiet

-----------------------------------------------------------------------------
(***************************************************************************)
(* What the documentation says of the same steps and the code does not do. *)
(***************************************************************************)

\* docs/architecture.md: NGF rejects a policy when another route overlaps;
\* "Other overlapping route families use generated snippets for proxy
\* settings".
NoPolicyOnOverlap ==
    Quiet => \A s, t \in Source : \A h \in Name :
        s # t /\ routes[s][h].policies => ~Overlap(s, t, h)

=============================================================================
