--------------------------- MODULE IngressLifecycle ---------------------------
(***************************************************************************)
(* Reconcile (internal/controller/ingress_controller.go) for one source    *)
(* Ingress: the finalizer, the generated objects it applies and prunes,    *)
(* the IngressTranslation, the label and the mirrored address.             *)
(*                                                                         *)
(* Writes reach the API server, one call per step; reads come from the     *)
(* informer caches, which lag behind it independently of each other and    *)
(* ask for the Ingress again whenever they change.  NGF judges each        *)
(* generation of a generated object.  The listeners of the shared Gateway  *)
(* are one fact here, `listed`; module ManagedGateway has the rest.        *)
(***************************************************************************)
EXTENDS Integers, FiniteSets, FiniteSetsExt

CONSTANTS
    Body,           \* what the Ingress asks for: spec and annotations
    Object,         \* names of generated objects, in the order of planObjects
    Objects,        \* [Body -> SUBSET Object]: its plan, {} for a fatal one
    GatewayStatus,  \* the [programmed, address] that NGF may report
    Nil,            \* an object that does not exist
    MaxEdits,       \* bound: changes by users and by NGF of the Gateway
    MaxFailures,    \* bound: API calls that fail
    MaxRestarts     \* bound: crashes of the controller

ASSUME ObjectAssumption ==
    /\ Object \subseteq Nat \ {0}
    /\ Objects \in [Body -> SUBSET Object]
    /\ \A g \in GatewayStatus : g.programmed \in {"True", "False", "Unknown"}

ASSUME BoundAssumption == MaxEdits \in Nat /\ MaxFailures \in Nat /\ MaxRestarts \in Nat

VARIABLES
    \* The cluster.
    ing,          \* the Ingress
    objects,      \* [Object -> the generated object]
    translation,  \* the IngressTranslation
    gateway,      \* the Gateway's status
    listed,       \* the Gateway's listeners take this Ingress into account
    \* The informer caches and the workqueue.
    seenIng, seenObjects, seenGateway,
    seenTranslation,  \* whether the cache has an IngressTranslation ...
    unseen,           \* ... and is behind the cluster's
    queued,       \* a request for this Ingress is queued
    \* The reconciliation in progress.
    phase,
    copy,         \* Reconcile's Ingress: from the cache, then from API responses
    serving,      \* the Ingress was selected and live when it was read
    desired,      \* the names of its plan's objects, {} for a fatal plan
    todo,         \* what this phase has not handled yet
    failed,       \* a deletion of this reconciliation failed
    \* Bounds.
    edits, failures, restarts

cluster == <<ing, objects, translation, unseen, gateway, listed>>
caches  == <<seenIng, seenObjects, seenGateway, seenTranslation>>
work    == <<copy, serving, desired, todo, failed>>
bounds  == <<edits, failures, restarts>>
vars    == <<ing, objects, translation, gateway, listed, seenIng, seenObjects, seenTranslation,
             seenGateway, unseen, queued, phase, copy, serving, desired, todo, failed, edits, failures, restarts>>

NoLabel   == "none"
NoAddress == "no address"
Translation == 0   \* the IngressTranslation among the objects to prune

Phases == {"idle", "finalizer", "gateway", "apply", "prune", "record", "status", "label", "mirror", "release"}
Status == {"True", "False", "Unknown"}
Labels == {NoLabel, "ready", "failed", "pending"}

Ingress == [uid : Nat, gen : Nat, body : Body, selected : BOOLEAN, deleting : BOOLEAN,
            finalizer : BOOLEAN, label : Labels, address : {g.address : g \in GatewayStatus} \cup {NoAddress}]
Generated == [body : Body, gen : Nat, judged : Nat, accepted : BOOLEAN]
Record    == [uid : Nat, observed : Nat, ready : Status]

\* Nil is none of the objects.
ASSUME NilAssumption == Nil \notin Ingress \cup Generated \cup Record

TypeOK ==
    /\ ing \in Ingress \cup {Nil} /\ seenIng \in Ingress \cup {Nil} /\ copy \in Ingress \cup {Nil}
    /\ objects \in [Object -> Generated \cup {Nil}] /\ seenObjects \in [Object -> Generated \cup {Nil}]
    /\ translation \in Record \cup {Nil}
    /\ gateway \in GatewayStatus /\ seenGateway \in GatewayStatus
    /\ listed \in BOOLEAN /\ queued \in BOOLEAN /\ seenTranslation \in BOOLEAN
    /\ unseen \in BOOLEAN /\ serving \in BOOLEAN /\ failed \in BOOLEAN
    /\ phase \in Phases /\ desired \subseteq Object /\ todo \subseteq Object \cup {Translation}
    /\ edits \in 0 .. MaxEdits /\ failures \in 0 .. MaxFailures /\ restarts \in 0 .. MaxRestarts

Live(i) == i # Nil /\ i.selected /\ ~i.deleting

NewIngress(uid, body) ==
    [uid |-> uid, gen |-> 1, body |-> body, selected |-> TRUE, deleting |-> FALSE,
     finalizer |-> FALSE, label |-> NoLabel, address |-> NoAddress]

Init ==
    /\ \E b \in Body : ing = NewIngress(0, b)
    /\ objects = [o \in Object |-> Nil] /\ translation = Nil
    /\ gateway \in GatewayStatus
    /\ listed = FALSE
    /\ seenIng = ing /\ seenObjects = objects /\ seenTranslation = FALSE /\ unseen = FALSE /\ seenGateway = gateway
    /\ queued = TRUE
    /\ phase = "idle" /\ copy = Nil /\ serving = FALSE /\ desired = {} /\ todo = {} /\ failed = FALSE
    /\ edits = 0 /\ failures = 0 /\ restarts = 0

-----------------------------------------------------------------------------
(* The users and NGF. *)

Edit ==
    /\ edits < MaxEdits
    /\ edits' = edits + 1
    /\ UNCHANGED <<objects, translation, unseen, listed, caches, queued, phase, work, failures, restarts>>

ChangeBody(b) ==
    /\ Edit
    /\ ing # Nil /\ b # ing.body
    /\ ing' = [ing EXCEPT !.body = b, !.gen = @ + 1]
    /\ UNCHANGED gateway

\* The class or an annotation that Selected looks at is changed.
ToggleSelected ==
    /\ Edit
    /\ ing # Nil
    /\ ing' = [ing EXCEPT !.selected = ~@]
    /\ UNCHANGED gateway

\* The API server keeps a deleted Ingress while it has the finalizer.
Delete ==
    /\ Edit
    /\ ing # Nil
    /\ ing' = IF ing.finalizer THEN [ing EXCEPT !.deleting = TRUE] ELSE Nil
    /\ UNCHANGED gateway

Create(b) ==
    /\ Edit
    /\ ing = Nil
    /\ ing' = NewIngress(edits', b)
    /\ UNCHANGED gateway

ReportGateway(g) ==
    /\ Edit
    /\ g # gateway
    /\ gateway' = g
    /\ UNCHANGED ing

\* NGF reports on the current generation of an object.
Judge(o) ==
    /\ objects[o] # Nil
    /\ objects[o].judged # objects[o].gen
    /\ \E verdict \in BOOLEAN :
          objects' = [objects EXCEPT ![o].judged = objects[o].gen, ![o].accepted = verdict]
    /\ UNCHANGED <<ing, translation, unseen, gateway, listed, caches, queued, phase, work, bounds>>

-----------------------------------------------------------------------------
(* The informers: For, Owns and the Gateway's watch. *)

(***************************************************************************)
(* Definitions headed "Mutant" are slips in the definition they precede;   *)
(* no specification uses them.  Each breaks a property below.              *)
(***************************************************************************)

\* Mutant: only a new generation, a creation or a deletion asks for the Ingress.
SeeGeneration ==
    /\ seenIng # ing
    /\ seenIng' = ing
    /\ queued' = (queued \/ Nil \in {ing, seenIng} \/ <<ing.uid, ing.gen>> # <<seenIng.uid, seenIng.gen>>)
    /\ UNCHANGED <<cluster, seenObjects, seenTranslation, seenGateway, phase, work, bounds>>

SeeIngress ==
    /\ seenIng # ing
    /\ seenIng' = ing
    /\ queued' = TRUE
    /\ UNCHANGED <<cluster, seenObjects, seenTranslation, seenGateway, phase, work, bounds>>

\* Mutant: the generated objects are not watched.
SeeObjectSilently(o) ==
    /\ seenObjects[o] # objects[o]
    /\ seenObjects' = [seenObjects EXCEPT ![o] = objects[o]]
    /\ UNCHANGED <<cluster, queued, seenIng, seenTranslation, seenGateway, phase, work, bounds>>

SeeObject(o) ==
    /\ seenObjects[o] # objects[o]
    /\ seenObjects' = [seenObjects EXCEPT ![o] = objects[o]]
    /\ queued' = TRUE
    /\ UNCHANGED <<cluster, seenIng, seenTranslation, seenGateway, phase, work, bounds>>

SeeTranslation ==
    /\ unseen
    /\ unseen' = FALSE
    /\ seenTranslation' = (translation # Nil)
    /\ queued' = TRUE
    /\ UNCHANGED <<ing, objects, translation, gateway, listed, seenIng, seenObjects, seenGateway, phase, work, bounds>>

\* gatewayToIngresses asks for the selected Ingresses only.
SeeGateway ==
    /\ seenGateway # gateway
    /\ seenGateway' = gateway
    /\ queued' = (queued \/ (seenIng # Nil /\ seenIng.selected))
    /\ UNCHANGED <<cluster, seenIng, seenObjects, seenTranslation, phase, work, bounds>>

-----------------------------------------------------------------------------
(* Reconcile. *)

\* Mutant: the IngressTranslation is never among them.
ListedObjects(withTranslation) == {o \in Object : seenObjects[o] # Nil}

\* The objects pruneSource lists, by the source's labels, in the caches.
Listed(withTranslation) ==
    {o \in Object : seenObjects[o] # Nil}
    \cup IF withTranslation /\ seenTranslation THEN {Translation} ELSE {}

Start ==
    /\ phase = "idle"
    /\ queued
    /\ queued' = FALSE
    /\ copy' = seenIng
    /\ serving' = Live(seenIng)
    /\ phase' = IF ~Live(seenIng) THEN "prune" ELSE IF ~seenIng.finalizer THEN "finalizer" ELSE "gateway"
    /\ todo' = IF Live(seenIng) THEN {} ELSE Listed(TRUE)
    /\ desired' = {} /\ failed' = FALSE
    /\ UNCHANGED <<cluster, caches, bounds>>

\* The reconciliation returns.
Return ==
    /\ phase' = "idle"
    /\ copy' = Nil /\ serving' = FALSE /\ desired' = {} /\ todo' = {} /\ failed' = FALSE

\* The answer of the patch replaces the Ingress that Reconcile works on.
AddFinalizer ==
    /\ phase = "finalizer"
    /\ ing # Nil
    /\ ing' = [ing EXCEPT !.finalizer = TRUE]
    /\ copy' = ing'
    /\ phase' = "gateway"
    /\ UNCHANGED <<objects, translation, unseen, gateway, listed, caches, queued, serving, desired, todo, failed, bounds>>

\* Mutant: an Ingress without the finalizer has nothing left to release.
NeedsReleaseOfFinalizer == copy # Nil /\ copy.finalizer

NeedsRelease == copy # Nil /\ (copy.finalizer \/ copy.label # NoLabel)

\* reconcileManagedGateway, from the Ingresses in the cache.  Translation
\* follows for an Ingress being served, the release for one that is not.
ReconcileGateway ==
    /\ phase = "gateway"
    /\ listed' = Live(seenIng)
    /\ \/ /\ serving
          /\ desired' = Objects[copy.body] /\ todo' = desired'
          /\ phase' = "apply"
          /\ UNCHANGED <<copy, serving, failed>>
       \/ /\ ~serving /\ NeedsRelease
          /\ phase' = "release"
          /\ UNCHANGED work
       \/ ~serving /\ ~NeedsRelease /\ Return
    /\ UNCHANGED <<ing, objects, translation, unseen, gateway, caches, queued, bounds>>

\* Server-side apply: a new generation when the content changes.
Applied(o, b) ==
    IF objects[o] = Nil THEN [body |-> b, gen |-> 1, judged |-> 0, accepted |-> FALSE]
    ELSE IF objects[o].body = b THEN objects[o]
    ELSE [objects[o] EXCEPT !.body = b, !.gen = @ + 1]

ApplyObject(o) ==
    /\ phase = "apply"
    /\ o \in todo /\ \A p \in todo : o <= p
    /\ objects' = [objects EXCEPT ![o] = Applied(o, copy.body)]
    /\ todo' = todo \ {o}
    /\ UNCHANGED <<ing, translation, unseen, gateway, listed, caches, queued, phase, copy, serving, desired, failed, bounds>>

WriteTranslation(t) ==
    /\ translation' = t
    /\ unseen' = (unseen \/ t # translation)

\* Mutant: an applied plan is not followed by a pruning.
ListNothing ==
    /\ phase = "apply"
    /\ todo = {}
    /\ phase' = "prune"
    /\ UNCHANGED <<cluster, caches, queued, work, bounds>>

\* pruneSource lists what the plan does not have.
ListStale ==
    /\ phase = "apply"
    /\ todo = {}
    /\ todo' = Listed(FALSE) \ desired
    /\ phase' = "prune"
    /\ UNCHANGED <<cluster, caches, queued, copy, serving, desired, failed, bounds>>

DeleteStale(o) ==
    /\ phase = "prune"
    /\ o \in todo
    /\ todo' = todo \ {o}
    /\ IF o = Translation
       THEN WriteTranslation(Nil) /\ UNCHANGED objects
       ELSE objects' = [objects EXCEPT ![o] = Nil] /\ UNCHANGED <<translation, unseen>>
    /\ UNCHANGED <<ing, gateway, listed, caches, queued, phase, copy, serving, desired, failed, bounds>>

\* A deletion that fails does not stop the others.
DeleteFails(o) ==
    /\ failures < MaxFailures
    /\ failures' = failures + 1
    /\ phase = "prune"
    /\ o \in todo
    /\ todo' = todo \ {o}
    /\ failed' = TRUE
    /\ UNCHANGED <<cluster, caches, queued, phase, copy, serving, desired, edits, restarts>>

EndPrune ==
    /\ phase = "prune"
    /\ todo = {}
    /\ ~failed
    /\ phase' = IF serving THEN "record" ELSE "gateway"
    /\ UNCHANGED <<cluster, caches, queued, work, bounds>>

\* Mutant: the status goes with the object instead of a patch of its own.
ApplyBlankTranslation ==
    /\ phase = "record"
    /\ WriteTranslation([uid |-> copy.uid, observed |-> 0, ready |-> "Unknown"])
    /\ phase' = "status"
    /\ UNCHANGED <<ing, objects, gateway, listed, caches, queued, work, bounds>>

ApplyTranslation ==
    /\ phase = "record"
    /\ WriteTranslation(IF translation = Nil
                        THEN [uid |-> copy.uid, observed |-> 0, ready |-> "Unknown"]
                        ELSE [translation EXCEPT !.uid = copy.uid])
    /\ phase' = "status"
    /\ UNCHANGED <<ing, objects, gateway, listed, caches, queued, work, bounds>>

(***************************************************************************)
(* generatedReady: the Gateway's verdict, then that of the first object    *)
(* that has not been accepted at its current generation.                   *)
(***************************************************************************)
VerdictOf(object) ==
    IF object = Nil \/ object.judged # object.gen THEN "Unknown"
    ELSE IF object.accepted THEN "True" ELSE "False"

GeneratedReady(names, objs, gw) ==
    LET waiting == {o \in names : VerdictOf(objs[o]) # "True"} IN
    IF gw.programmed # "True" THEN gw.programmed
    ELSE IF waiting = {} THEN "True" ELSE VerdictOf(objs[Min(waiting)])

\* A fatal plan is never ready.
ReadyStatus(names, objs, gw) == IF names = {} THEN "False" ELSE GeneratedReady(names, objs, gw)

\* Mutant: the condition's status as it is.
LabelOfStatus(ready) == ready

LabelFor(ready) == IF ready = "True" THEN "ready" ELSE IF ready = "Unknown" THEN "pending" ELSE "failed"

PatchStatus ==
    /\ phase = "status"
    /\ WriteTranslation([translation EXCEPT !.observed = copy.gen,
                                            !.ready = ReadyStatus(desired, seenObjects, seenGateway)])
    /\ phase' = "label"
    /\ UNCHANGED <<ing, objects, gateway, listed, caches, queued, work, bounds>>

\* The label is patched when the Ingress that was read has another one.
Relabels == copy.label # LabelFor(translation.ready)

PatchLabel ==
    /\ phase = "label"
    /\ Relabels => ing # Nil
    /\ ing' = IF Relabels THEN [ing EXCEPT !.label = LabelFor(translation.ready)] ELSE ing
    /\ \/ desired = {} /\ Return
       \/ /\ desired # {}
          /\ phase' = "mirror"
          /\ copy' = IF Relabels THEN ing' ELSE copy
          /\ UNCHANGED <<serving, desired, todo, failed>>
    /\ UNCHANGED <<objects, translation, unseen, gateway, listed, caches, queued, bounds>>

\* mirrorIngressStatus computes readiness again.
Readdresses ==
    /\ GeneratedReady(desired, seenObjects, seenGateway) = "True"
    /\ seenGateway.address \notin {NoAddress, copy.address}

Mirror ==
    /\ phase = "mirror"
    /\ Readdresses => ing # Nil
    /\ ing' = IF Readdresses THEN [ing EXCEPT !.address = seenGateway.address] ELSE ing
    /\ Return
    /\ UNCHANGED <<objects, translation, unseen, gateway, listed, caches, queued, bounds>>

\* The finalizer and the label go; a deleted Ingress goes with its finalizer.
Release ==
    /\ phase = "release"
    /\ ing # Nil
    /\ LET kept == ing.finalizer /\ ~copy.finalizer IN
       ing' = IF ing.deleting /\ ~kept THEN Nil
              ELSE [ing EXCEPT !.finalizer = kept,
                               !.label = IF copy.label # NoLabel THEN NoLabel ELSE @]
    /\ Return
    /\ UNCHANGED <<objects, translation, unseen, gateway, listed, caches, queued, bounds>>

-----------------------------------------------------------------------------
(* Errors, retries and crashes. *)

\* Mutant: a request that failed is not queued again.
Forget ==
    /\ Return
    /\ UNCHANGED <<cluster, caches, queued, edits, restarts>>

Retry ==
    /\ Return
    /\ queued' = TRUE
    /\ UNCHANGED <<cluster, caches, edits, restarts>>

PatchesIngress ==
    \/ phase \in {"finalizer", "release"}
    \/ phase = "label" /\ Relabels
    \/ phase = "mirror" /\ Readdresses

\* The Ingress to patch no longer exists, or a deletion failed.
Error ==
    /\ \/ PatchesIngress /\ ing = Nil
       \/ phase = "prune" /\ todo = {} /\ failed
    /\ Retry
    /\ UNCHANGED failures

CallFails ==
    /\ failures < MaxFailures
    /\ failures' = failures + 1
    /\ phase \notin {"idle", "prune"}
    /\ Retry

\* The next process lists everything: the Ingress and what it owns ask for it.
Restart ==
    /\ restarts < MaxRestarts
    /\ restarts' = restarts + 1
    /\ seenIng' = ing /\ seenObjects' = objects /\ seenGateway' = gateway
    /\ seenTranslation' = (translation # Nil) /\ unseen' = FALSE
    /\ queued' = (ing # Nil \/ translation # Nil \/ \E o \in Object : objects[o] # Nil)
    /\ Return
    \* The request for globalReconcileKey comes first.
    /\ listed' = Live(ing)
    /\ UNCHANGED <<ing, objects, translation, gateway, edits, failures>>

Reconcile ==
    \/ Start \/ AddFinalizer \/ ReconcileGateway
    \/ \E o \in Object : ApplyObject(o)
    \/ ListStale
    \/ \E o \in Object \cup {Translation} : DeleteStale(o)
    \/ EndPrune
    \/ ApplyTranslation \/ PatchStatus \/ PatchLabel \/ Mirror
    \/ Release
    \/ Error

Informers == SeeIngress \/ SeeTranslation \/ SeeGateway \/ \E o \in Object : SeeObject(o)

Environment ==
    \/ \E b \in Body : ChangeBody(b) \/ Create(b)
    \/ ToggleSelected \/ Delete
    \/ \E g \in GatewayStatus : ReportGateway(g)
    \/ \E o \in Object : Judge(o)

Quiet ==
    /\ phase = "idle" /\ ~queued
    /\ seenIng = ing /\ seenObjects = objects /\ seenGateway = gateway /\ ~unseen

\* The only place where the controller may rest.
AtRest == Quiet /\ UNCHANGED vars

Next ==
    \/ Environment \/ Informers
    \/ Reconcile
    \/ CallFails \/ \E o \in Object \cup {Translation} : DeleteFails(o)
    \/ Restart
    \/ AtRest

Spec == Init /\ [][Next]_vars

\* The worker works and the informers deliver.  NGF may never judge an object.
FairSpec == Spec /\ WF_vars(Reconcile) /\ WF_vars(Informers)

-----------------------------------------------------------------------------
(***************************************************************************)
(* At rest, a selected Ingress is served by exactly the objects of its     *)
(* plan with their latest content: none for a fatal plan, nothing of an    *)
(* earlier one, and its finalizer and its listeners are there.             *)
(***************************************************************************)
QuietServes ==
    Quiet /\ Live(ing) =>
        /\ ing.finalizer /\ listed
        /\ \A o \in Object :
              IF o \in Objects[ing.body] THEN objects[o] # Nil /\ objects[o].body = ing.body
              ELSE objects[o] = Nil

\* At rest, the IngressTranslation, the label and the mirrored address tell
\* what NGF says of those objects and of the Gateway.
QuietReports ==
    Quiet /\ Live(ing) =>
        LET ready == ReadyStatus(Objects[ing.body], objects, gateway) IN
        /\ translation = [uid |-> ing.uid, observed |-> ing.gen, ready |-> ready]
        /\ ing.label = LabelFor(ready)
        /\ ready = "True" /\ gateway.address # NoAddress => ing.address = gateway.address

\* At rest, an Ingress that is deleted or no longer selected has left nothing.
QuietReleased ==
    Quiet /\ ~Live(ing) =>
        /\ \A o \in Object : objects[o] = Nil
        /\ translation = Nil /\ ~listed
        /\ ing # Nil => ~ing.finalizer /\ ~ing.deleting /\ ing.label = NoLabel

(***************************************************************************)
(* Once users and NGF stop and calls stop failing, the controller comes to *)
(* rest: its own writes, which all ask for the Ingress again, do not keep  *)
(* it busy.  What it leaves then is said by the three invariants above.    *)
(***************************************************************************)
Rests == <>[]Quiet

-----------------------------------------------------------------------------
(***************************************************************************)
(* What the documentation says of the same steps and the code does not do. *)
(***************************************************************************)

\* README.md: "Deletion is protected by a finalizer so managed Gateway listeners
\* are removed."  A deleted Ingress goes away only once no listener counts on it.
ListenersGoFirst ==
    [][ing # Nil /\ ing.deleting /\ ing' = Nil => ~listed]_vars

\* generatedReady reports "Gateway, generated routes, filters, and policies are
\* programmed": when Ready is written as true, NGF has accepted every object of
\* the plan as it stands in the cluster.
ReadyIsEarned ==
    [][phase = "status" /\ phase' = "label" /\ translation'.ready = "True"
       => \A o \in desired : VerdictOf(objects[o]) = "True"]_vars

=============================================================================
