---------------------------- MODULE ManagedGateway ----------------------------
(***************************************************************************)
(* reconcileManagedGateway (internal/controller) against the API server,   *)
(* one API call per step: the Ingress and Secret events that ask for it,   *)
(* the sticky planning state it keeps in memory, the calls that bring the  *)
(* cluster to the plan, and the failures, restarts and informer lag that   *)
(* can come between any two of them.                                       *)
(*                                                                         *)
(* The controller runs one reconciliation at a time                        *)
(* (MaxConcurrentReconciles 1, managedMu), so the plan being applied is    *)
(* the one last committed to `placements`.                                 *)
(***************************************************************************)
EXTENDS GatewayPlan

CONSTANTS
    Declarations,  \* [Source -> set of the Ingress bodies it may have]
    Infos,         \* [Secret -> set of the certificate infos it may hold]
    Overflow,      \* ListenerSetsAvailable: found once, when the process starts
    MaxEdits,      \* bound: changes of Ingresses and Secrets
    MaxFailures,   \* bound: API calls that fail
    MaxRestarts    \* bound: crashes of the controller

ASSUME ManagedGatewayAssumption ==
    /\ \A s \in Source : \A d \in Declarations[s] : IsBody(d)
    /\ \A k \in Secret : Infos[k] \subseteq CertificateInfo
    /\ EnoughSets
    /\ Overflow \in BOOLEAN
    /\ MaxEdits \in Nat /\ MaxFailures \in Nat /\ MaxRestarts \in Nat

VARIABLES
    \* The cluster.
    ingresses,     \* the selected Ingresses, a function from a set of Sources
    secrets,       \* the certificate each Secret holds
    listeners,     \* [Parent -> [Host -> Secret]]: HTTPS listeners, NoSecret for none
    grants,        \* the Secrets a bridge-managed ReferenceGrant names
    \* The controller's informers and workqueue.
    seenSets,      \* the ListenerSets in the informer cache
    seenGrants,    \* the ReferenceGrants in the informer cache
    queue,         \* queued requests: Sync, and Replan for every other key
    settling,      \* a Sync waits for certificateSettleDelay
    \* The controller's memory (IngressReconciler).
    bootstrapped,  \* listenerPlacements is not nil
    placements,    \* listenerPlacements
    certificates,  \* the certificates cache; Uncached is a missing entry
    \* The reconciliation in progress.
    phase,
    request,       \* the request it serves
    selected,      \* the Ingresses it listed
    todo,          \* the objects this phase has not handled yet
    \* Bounds.
    edits, failures, restarts

cluster == <<ingresses, secrets, listeners, grants>>
memory  == <<bootstrapped, placements, certificates>>
bounds  == <<edits, failures, restarts>>
vars    == <<ingresses, secrets, listeners, grants, seenSets, seenGrants, queue, settling,
             bootstrapped, placements, certificates, phase, request, selected, todo, edits, failures, restarts>>

Replan  == "replan"
Sync    == "certificate-sync"
Uncached == [fingerprint |-> NoFingerprint, wildcards |-> {NoHost}]

NoIngresses == [s \in {} |-> {}]
NoListeners == [h \in Host |-> NoSecret]

Phases == {"idle", "certificates", "plan", "grants", "sets", "pruneSets", "pruneGrants"}

\* The listeners the placements p put on parent i, and the ListenerSets they use.
Desired(p, i) == [h \in Host |-> IF p[h].parent = i THEN p[h].secret ELSE NoSecret]
UsedSets(p)   == {i \in Parent \ {GatewayParent} : Desired(p, i) # NoListeners}
\* Mutant: the Gateway carries the ListenerSets' label too.
ExistingParents == {i \in Parent : listeners[i] # NoListeners}
Existing      == {i \in Parent \ {GatewayParent} : listeners[i] # NoListeners}

Referenced(ings) ==
    UNION {{ings[s].tls[e].secret : e \in DOMAIN ings[s].tls} : s \in DOMAIN ings} \ {NoSecret}

\* What the plan is given: the cached info of every referenced Secret.
Known(ings) ==
    [k \in Secret |-> IF k \in Referenced(ings) /\ certificates[k] # Uncached
                      THEN certificates[k] ELSE NoCertificate]

TypeOK ==
    /\ DOMAIN ingresses \subseteq Source
    /\ secrets \in [Secret -> CertificateInfo]
    /\ listeners \in [Parent -> [Host -> Secret \cup {NoSecret}]]
    /\ grants \subseteq Secret /\ seenGrants \subseteq Secret
    /\ seenSets \subseteq Parent \ {GatewayParent}
    /\ queue \subseteq {Replan, Sync} /\ settling \in BOOLEAN
    /\ bootstrapped \in BOOLEAN /\ placements \in [Host -> Placement]
    /\ certificates \in [Secret -> CertificateInfo \cup {Uncached}]
    /\ phase \in Phases /\ request \in {Replan, Sync}
    /\ edits \in 0 .. MaxEdits /\ failures \in 0 .. MaxFailures /\ restarts \in 0 .. MaxRestarts

(* The bridge is installed beside Ingresses that already exist. *)
Init ==
    /\ ingresses \in UNION {[S -> UNION {Declarations[s] : s \in Source}] : S \in SUBSET Source}
    /\ \A s \in DOMAIN ingresses : ingresses[s] \in Declarations[s]
    /\ secrets \in {c \in [Secret -> UNION {Infos[k] : k \in Secret}] : \A k \in Secret : c[k] \in Infos[k]}
    /\ listeners = [i \in Parent |-> NoListeners]
    /\ grants = {}
    /\ seenSets = {} /\ seenGrants = {}
    /\ queue = {Replan} /\ settling = FALSE
    /\ bootstrapped = FALSE /\ placements = NoPlacements
    /\ certificates = [k \in Secret |-> Uncached]
    /\ phase = "idle" /\ request = Replan /\ selected = NoIngresses /\ todo = {}
    /\ edits = 0 /\ failures = 0 /\ restarts = 0

-----------------------------------------------------------------------------
(* The users: every event is delivered once the informer cache holds it. *)

(***************************************************************************)
(* Definitions headed "Mutant" are slips in the definition they precede;   *)
(* no specification uses them.  Each breaks a property below.              *)
(***************************************************************************)

\* Mutant: an event that comes during a reconciliation is dropped.
EditIngressesUnseen(new) ==
    /\ edits < MaxEdits
    /\ edits' = edits + 1
    /\ ingresses' = new
    /\ queue' = IF phase = "idle" THEN queue \cup {Replan} ELSE queue
    /\ UNCHANGED <<secrets, listeners, grants, seenSets, seenGrants, settling, memory,
                   phase, request, selected, todo, failures, restarts>>

EditIngresses(new) ==
    /\ edits < MaxEdits
    /\ edits' = edits + 1
    /\ ingresses' = new
    /\ queue' = queue \cup {Replan}
    /\ UNCHANGED <<secrets, listeners, grants, seenSets, seenGrants, settling, memory,
                   phase, request, selected, todo, failures, restarts>>

PutIngress(s) ==
    \E d \in Declarations[s] :
        EditIngresses([t \in DOMAIN ingresses \cup {s} |-> IF t = s THEN d ELSE ingresses[t]])

DropIngress(s) ==
    /\ s \in DOMAIN ingresses
    /\ EditIngresses([t \in DOMAIN ingresses \ {s} |-> ingresses[t]])

(***************************************************************************)
(* secretEventHandler: a change of the certificate asks for a Sync, unless *)
(* no selected Ingress names the Secret at that moment.  A renewal (same   *)
(* wildcards, new chain) waits for certificateSettleDelay.                 *)
(***************************************************************************)
ChangeSecret(k) ==
    /\ edits < MaxEdits
    /\ edits' = edits + 1
    /\ \E info \in Infos[k] \ {secrets[k]} :
        LET renewal == /\ NoCertificate \notin {info, secrets[k]}
                       /\ info.wildcards = secrets[k].wildcards
            asks    == k \in Referenced(ingresses)
        IN  /\ secrets' = [secrets EXCEPT ![k] = info]
            /\ queue' = queue \cup IF asks /\ ~renewal THEN {Sync} ELSE {}
            /\ settling' = (settling \/ (asks /\ renewal))
    /\ UNCHANGED <<ingresses, listeners, grants, seenSets, seenGrants, memory,
                   phase, request, selected, todo, failures, restarts>>

SettleDelayEnds ==
    /\ settling
    /\ settling' = FALSE
    /\ queue' = queue \cup {Sync}
    /\ UNCHANGED <<cluster, seenSets, seenGrants, memory, phase, request, selected, todo, bounds>>

\* Mutant: ListenerSets are not watched.
SeeSetsSilently ==
    /\ seenSets # Existing
    /\ seenSets' = Existing
    /\ UNCHANGED <<cluster, queue, seenGrants, settling, memory, phase, request, selected, todo, bounds>>

\* The informers catch up with the controller's own writes; each change they
\* bring asks for every Ingress and the global key again.
SeeSets ==
    /\ seenSets # Existing
    /\ seenSets' = Existing
    /\ queue' = queue \cup {Replan}
    /\ UNCHANGED <<cluster, seenGrants, settling, memory, phase, request, selected, todo, bounds>>

SeeGrants ==
    /\ seenGrants # grants
    /\ seenGrants' = grants
    /\ queue' = queue \cup {Replan}
    /\ UNCHANGED <<cluster, seenSets, settling, memory, phase, request, selected, todo, bounds>>

-----------------------------------------------------------------------------
(* Planning. *)

\* Reconcile takes a request; a certificate-sync forgets every certificate.
\* Then the selected Ingresses are listed.
Start(r) ==
    /\ phase = "idle"
    /\ r \in queue
    /\ queue' = queue \ {r}
    /\ request' = r
    /\ certificates' = IF r = Sync THEN [k \in Secret |-> Uncached] ELSE certificates
    /\ selected' = ingresses
    /\ phase' = "certificates"
    /\ UNCHANGED <<cluster, seenSets, seenGrants, settling, bootstrapped, placements, todo, bounds>>

\* certificateInfos: read what is not cached, forget what is not referenced.
ReadCertificates ==
    /\ phase = "certificates"
    /\ certificates' = [k \in Secret |-> IF k \notin Referenced(selected) THEN Uncached
                                         ELSE IF certificates[k] = Uncached THEN secrets[k]
                                         ELSE certificates[k]]
    /\ phase' = "plan"
    /\ UNCHANGED <<cluster, seenSets, seenGrants, queue, settling, bootstrapped, placements, request, selected, todo, bounds>>

(***************************************************************************)
(* observedListenerPlacements: where the cluster has each listener, the    *)
(* lowest parent when it has several.  The ListenerSets are not read when  *)
(* their API is missing.                                                   *)
(***************************************************************************)
Observed ==
    [h \in Host |->
        LET at == {i \in Parent : Usable(i, Overflow) /\ listeners[i][h] # NoSecret}
        IN  IF at = {} THEN NoPlacement
            ELSE [parent |-> Min(at), secret |-> listeners[Min(at)][h]]]

\* Mutant: the first plan after a start does not look at the cluster.
CommitFreshPlan ==
    /\ phase = "plan"
    /\ placements' = BuildManagedGateway(selected, Known(selected), placements, Overflow).placements
    /\ bootstrapped' = TRUE
    /\ todo' = Grants(placements')
    /\ phase' = "grants"
    /\ UNCHANGED <<cluster, seenSets, seenGrants, queue, settling, certificates, request, selected, bounds>>

\* The plan is committed to memory before any of it is applied.
CommitPlan ==
    /\ phase = "plan"
    /\ LET current == IF bootstrapped THEN placements ELSE Observed
       IN  placements' = BuildManagedGateway(selected, Known(selected), current, Overflow).placements
    /\ bootstrapped' = TRUE
    /\ todo' = Grants(placements')
    /\ phase' = "grants"
    /\ UNCHANGED <<cluster, seenSets, seenGrants, queue, settling, certificates, request, selected, bounds>>

-----------------------------------------------------------------------------
(* Applying: grants, the Gateway, the ListenerSets, then what is no longer *)
(* desired among the ListenerSets and the grants the informers show.       *)

IsNext(x) == x \in todo /\ \A y \in todo : x <= y

calls == <<ingresses, secrets, seenSets, seenGrants, queue, settling, memory, request, selected, bounds>>

ApplyGrant(k) ==
    /\ phase = "grants"
    /\ IsNext(k)
    /\ grants' = grants \cup {k}
    /\ todo' = todo \ {k}
    /\ UNCHANGED <<calls, listeners, phase>>

\* Mutant: the Gateway does not wait for the grants.
ApplyGatewayFirst ==
    /\ phase = "grants"
    /\ listeners' = [listeners EXCEPT ![GatewayParent] = Desired(placements, GatewayParent)]
    /\ todo' = UsedSets(placements)
    /\ phase' = "sets"
    /\ UNCHANGED <<calls, grants>>

ApplyGateway ==
    /\ phase = "grants"
    /\ todo = {}
    /\ listeners' = [listeners EXCEPT ![GatewayParent] = Desired(placements, GatewayParent)]
    /\ todo' = UsedSets(placements)
    /\ phase' = "sets"
    /\ UNCHANGED <<calls, grants>>

ApplyListenerSet(i) ==
    /\ phase = "sets"
    /\ IsNext(i)
    /\ listeners' = [listeners EXCEPT ![i] = Desired(placements, i)]
    /\ todo' = todo \ {i}
    /\ UNCHANGED <<calls, grants, phase>>

\* Mutant: every ListenerSet is pruned.
ListEveryListenerSet ==
    /\ phase = "sets"
    /\ todo = {}
    /\ todo' = IF Overflow THEN seenSets ELSE {}
    /\ phase' = "pruneSets"
    /\ UNCHANGED <<calls, listeners, grants>>

ListListenerSets ==
    /\ phase = "sets"
    /\ todo = {}
    /\ todo' = IF Overflow THEN seenSets \ UsedSets(placements) ELSE {}
    /\ phase' = "pruneSets"
    /\ UNCHANGED <<calls, listeners, grants>>

DeleteListenerSet(i) ==
    /\ phase = "pruneSets"
    /\ i \in todo
    /\ listeners' = [listeners EXCEPT ![i] = NoListeners]
    /\ todo' = todo \ {i}
    /\ UNCHANGED <<calls, grants, phase>>

\* Mutant: every grant is pruned.
ListEveryGrant ==
    /\ phase = "pruneSets"
    /\ todo = {}
    /\ todo' = seenGrants
    /\ phase' = "pruneGrants"
    /\ UNCHANGED <<calls, listeners, grants>>

ListGrants ==
    /\ phase = "pruneSets"
    /\ todo = {}
    /\ todo' = seenGrants \ Grants(placements)
    /\ phase' = "pruneGrants"
    /\ UNCHANGED <<calls, listeners, grants>>

DeleteGrant(k) ==
    /\ phase = "pruneGrants"
    /\ k \in todo
    /\ grants' = grants \ {k}
    /\ todo' = todo \ {k}
    /\ UNCHANGED <<calls, listeners, phase>>

Finish ==
    /\ phase = "pruneGrants"
    /\ todo = {}
    /\ phase' = "idle"
    /\ UNCHANGED <<calls, listeners, grants, todo>>

-----------------------------------------------------------------------------
(* Faults. *)

\* Mutant: a failed request is not retried.
FailForgets ==
    /\ failures < MaxFailures
    /\ failures' = failures + 1
    /\ phase # "idle"
    /\ phase' = "idle"
    /\ todo' = {}
    /\ UNCHANGED <<cluster, seenSets, seenGrants, queue, settling, memory, request, selected, edits, restarts>>

\* A call returns an error: the reconciliation ends and its request is retried.
Fail ==
    /\ failures < MaxFailures
    /\ failures' = failures + 1
    /\ phase # "idle"
    /\ phase' = "idle"
    /\ todo' = {}
    /\ queue' = queue \cup {request}
    /\ UNCHANGED <<cluster, seenSets, seenGrants, settling, memory, request, selected, edits, restarts>>

\* The process dies.  The next one syncs its caches, queues the global key and
\* every Ingress, and knows neither placements nor certificates.
Restart ==
    /\ restarts < MaxRestarts
    /\ restarts' = restarts + 1
    /\ seenSets' = Existing /\ seenGrants' = grants
    /\ queue' = {Replan} /\ settling' = FALSE
    /\ bootstrapped' = FALSE /\ placements' = NoPlacements
    /\ certificates' = [k \in Secret |-> Uncached]
    /\ phase' = "idle" /\ request' = Replan /\ selected' = NoIngresses /\ todo' = {}
    /\ UNCHANGED <<cluster, edits, failures>>

Reconcile ==
    \/ \E r \in {Replan, Sync} : Start(r)
    \/ ReadCertificates
    \/ CommitPlan
    \/ \E k \in Secret : ApplyGrant(k) \/ DeleteGrant(k)
    \/ ApplyGateway
    \/ \E i \in Parent : ApplyListenerSet(i) \/ DeleteListenerSet(i)
    \/ ListListenerSets
    \/ ListGrants
    \/ Finish

Environment ==
    \/ \E s \in Source : PutIngress(s) \/ DropIngress(s)
    \/ \E k \in Secret : ChangeSecret(k)

Quiet ==
    /\ phase = "idle" /\ queue = {} /\ ~settling
    /\ seenSets = Existing /\ seenGrants = grants

\* The only place where the controller may rest.
AtRest == Quiet /\ UNCHANGED vars

Next ==
    \/ Environment
    \/ SettleDelayEnds \/ SeeSets \/ SeeGrants
    \/ Reconcile
    \/ Fail \/ Restart
    \/ AtRest

Spec == Init /\ [][Next]_vars

(***************************************************************************)
(* The worker takes the next step of its reconciliation or the next        *)
(* request, the informers deliver and the delay ends.  Nothing makes users *)
(* act, calls fail or the process restart.  Fairness of the worker is      *)
(* WF_vars(Reconcile) with the predicate that enables it written out.      *)
(***************************************************************************)
CanReconcile == phase # "idle" \/ queue # {}

FairSpec ==
    /\ Spec
    /\ <>[]CanReconcile => []<><<Reconcile>>_vars
    /\ WF_vars(SeeSets) /\ WF_vars(SeeGrants) /\ WF_vars(SettleDelayEnds)

-----------------------------------------------------------------------------
(***************************************************************************)
(* A listener of the Gateway never names a Secret of another namespace     *)
(* that no grant covers: grants are applied before the listeners that need *)
(* them and deleted after, whatever fails or restarts in between.          *)
(***************************************************************************)
GatewayGranted ==
    \A h \in Host : listeners[GatewayParent][h] \notin LocalSecret \cup {NoSecret}
                    => listeners[GatewayParent][h] \in grants

\* The same for the ListenerSets of the plan being applied, once they carry
\* what the plan puts there.
PlannedSetsGranted ==
    phase \in {"sets", "pruneSets", "pruneGrants"} =>
        \A i \in Parent : listeners[i] = Desired(placements, i) =>
            \A h \in Host : listeners[i][h] \notin LocalSecret \cup {NoSecret}
                            => listeners[i][h] \in grants

Current ==
    /\ bootstrapped
    /\ BuildManagedGateway(ingresses, Known(ingresses), placements, Overflow).placements = placements

Applied ==
    /\ listeners = [i \in Parent |-> Desired(placements, i)]
    /\ grants = Grants(placements)

(***************************************************************************)
(* No wake-up is lost: when nothing is queued, running or undelivered, the *)
(* plan in memory is the plan reconcileManagedGateway would make of the    *)
(* Ingresses as they are ...                                               *)
(***************************************************************************)
QuietIsCurrent == Quiet => Current

\* ... and the cluster has exactly its listeners and its grants: whatever an
\* interrupted reconciliation or a late informer left behind is gone.
QuietIsApplied == Quiet => Applied

\* No call takes away a listener that the committed plan wants where it is.
NeverRemovesWanted ==
    [][bootstrapped' =>
         \A h \in Host :
            LET p == placements'[h] IN
            p.parent \in Parent /\ listeners[p.parent][h] = p.secret
            => listeners'[p.parent][h] = p.secret]_vars

\* A restart keeps every hostname on the parent where the cluster has it, even
\* when it interrupted a plan that was only partly applied.
RestartKeepsPlaces ==
    [][~bootstrapped /\ bootstrapped' =>
         \A h \in Host :
            LET at == {i \in Parent : listeners[i][h] # NoSecret} IN
            at # {} /\ placements'[h] # NoPlacement => placements'[h].parent \in at]_vars

\* Once users stop and calls stop failing, the cluster converges for good.
Converges == <>[](Quiet /\ Current /\ Applied)

(***************************************************************************)
(* certificateInfos drops unreferenced entries because "a Secret that      *)
(* changes while briefly unreferenced (the event handler intentionally     *)
(* ignores unreferenced Secrets) would serve stale certificate info        *)
(* forever once it becomes referenced again": at rest, what is cached of a *)
(* referenced Secret is what the Secret holds.                             *)
(***************************************************************************)
NoStaleCertificate ==
    Quiet => \A k \in Referenced(ingresses) : certificates[k] = secrets[k]

=============================================================================
