------------------------ MODULE IngressLifecycleProofs ------------------------
(***************************************************************************)
(* Proofs about Reconcile for any set of bodies and plans, any number of   *)
(* generated objects, edits, failures and restarts: what the controller    *)
(* leaves behind when it comes to rest.                                    *)
(*                                                                         *)
(* Reconcile decides on caches and on copies, so no step of it establishes *)
(* anything about the cluster by itself.  The argument is that a cache     *)
(* that changes asks for the Ingress again: while no request is queued,    *)
(* the caches are those that the latest reconciliation has read, and the   *)
(* invariant says what is still to be done for what they hold.             *)
(***************************************************************************)
EXTENDS IngressLifecycle, TLAPS

ServingPhases == {"finalizer", "apply", "record", "status", "label", "mirror"}

\* What each phase knows of the reconciliation's own variables.
Shape ==
    /\ phase \in ServingPhases => serving
    /\ phase = "release" => ~serving /\ copy # Nil
    /\ serving /\ phase # "idle" => copy # Nil
    /\ phase \in {"status", "label"} => translation # Nil

\* A cache that is not behind has what the cluster has.
CacheKnows == ~unseen => (seenTranslation <=> translation # Nil)

\* The API server holds a deleted Ingress by its finalizer only.
Held == ing # Nil /\ ing.deleting => ing.finalizer

Newer(new, old) == new.uid > old.uid \/ (new.uid = old.uid /\ new.gen > old.gen)

SameSpec(i, j) == i.uid = j.uid /\ i.gen = j.gen /\ i.body = j.body

\* A generation says which body it is of, and versions only grow.
Versions ==
    /\ ing # Nil => ing.uid <= edits
    /\ seenIng # Nil => seenIng.uid <= edits
    /\ ing # Nil /\ seenIng # Nil => Newer(ing, seenIng) \/ SameSpec(ing, seenIng)

\* While nothing asks for the Ingress again, the reconciliation is one of what
\* the cache has of it.
OfSeen ==
    ~queued /\ phase # "idle" =>
        /\ serving <=> Live(seenIng)
        /\ ~serving => copy = seenIng

GatewayDone == phase \notin {"finalizer", "gateway"} /\ (phase = "prune" => serving)

ListedAsSeen == ~queued /\ GatewayDone => (listed <=> Live(seenIng))

\* What is left to prune of an Ingress that is gone or not selected.
Pruned ==
    ~queued /\ ~Live(seenIng) =>
        /\ \A o \in Object : objects[o] # Nil /\ seenObjects[o] # Nil
                             => phase = "prune" /\ (o \in todo \/ failed)
        /\ translation # Nil /\ seenTranslation
                             => phase = "prune" /\ (Translation \in todo \/ failed)

\* A release takes the finalizer and the label it has read.
Released ==
    ~queued /\ ~Live(seenIng) /\ phase = "idle" /\ seenIng # Nil /\ ing # Nil =>
        /\ ~seenIng.finalizer \/ ~ing.finalizer
        /\ NoLabel \in {seenIng.label, ing.label}

\* The cache has the latest spec of a selected Ingress and nothing asks for it.
Serves == ~queued /\ Live(seenIng) /\ ing # Nil /\ SameSpec(ing, seenIng)

\* ... its copy has the same spec, label and address, unless they are already
\* those of the cluster,
CopyOfSeen ==
    /\ phase \notin {"idle", "finalizer", "mirror"} =>
           SameSpec(copy, seenIng) /\ copy.label \in {seenIng.label, ing.label}
    /\ phase \notin {"idle", "finalizer"} => copy.address \in {seenIng.address, ing.address}
    /\ phase # "finalizer" => seenIng.finalizer \/ ing.finalizer

\* ... its plan's objects are applied and then the others pruned,
ObjectsOfSeen ==
    /\ phase \notin {"idle", "finalizer", "gateway"} => desired = Objects[seenIng.body]
    /\ phase \notin {"finalizer", "gateway"} =>
           \A o \in Objects[seenIng.body] :
               (phase = "apply" /\ o \in todo) \/ (objects[o] # Nil /\ objects[o].body = seenIng.body)
    /\ phase = "prune" => todo \subseteq Object \ Objects[seenIng.body]
    /\ phase \notin {"finalizer", "gateway", "apply"} =>
           \A o \in Object \ Objects[seenIng.body] :
               objects[o] # Nil /\ seenObjects[o] # Nil => phase = "prune" /\ (o \in todo \/ failed)

ReadyOfSeen == ReadyStatus(Objects[seenIng.body], seenObjects, seenGateway)

\* ... and they are reported as the caches have them.
ReportOfSeen ==
    /\ phase \in {"status", "label", "mirror", "idle"} => translation # Nil /\ translation.uid = seenIng.uid
    /\ phase \in {"label", "mirror", "idle"} =>
           translation.observed = seenIng.gen /\ translation.ready = ReadyOfSeen
    /\ phase \in {"mirror", "idle"} => LabelFor(ReadyOfSeen) \in {seenIng.label, ing.label}
    /\ phase = "idle" /\ ReadyOfSeen = "True" /\ seenGateway.address # NoAddress =>
           seenGateway.address \in {seenIng.address, ing.address}

Served == Serves => CopyOfSeen /\ ObjectsOfSeen /\ ReportOfSeen

Always    == Shape /\ CacheKnows /\ Held /\ Versions
WhileSeen == OfSeen /\ ListedAsSeen /\ Pruned /\ Released /\ Served

IInv == TypeOK /\ Always /\ WhileSeen

-----------------------------------------------------------------------------
(***************************************************************************)
(* Types, and what the phases know of the reconciliation's variables.      *)
(***************************************************************************)

IngTypes    == ing \in Ingress \cup {Nil} /\ seenIng \in Ingress \cup {Nil} /\ copy \in Ingress \cup {Nil}
ObjectTypes == objects \in [Object -> Generated \cup {Nil}] /\ seenObjects \in [Object -> Generated \cup {Nil}]
StatusTypes == translation \in Record \cup {Nil} /\ gateway \in GatewayStatus /\ seenGateway \in GatewayStatus
FlagTypes ==
    /\ listed \in BOOLEAN /\ queued \in BOOLEAN /\ seenTranslation \in BOOLEAN
    /\ unseen \in BOOLEAN /\ serving \in BOOLEAN /\ failed \in BOOLEAN
WorkTypes   == phase \in Phases /\ desired \subseteq Object /\ todo \subseteq Object \cup {Translation}
BoundTypes  == edits \in 0 .. MaxEdits /\ failures \in 0 .. MaxFailures /\ restarts \in 0 .. MaxRestarts

\* TypeOK, part by part.
LEMMA TypeParts == TypeOK <=> IngTypes /\ ObjectTypes /\ StatusTypes /\ FlagTypes /\ WorkTypes /\ BoundTypes
  BY DEF TypeOK, IngTypes, ObjectTypes, StatusTypes, FlagTypes, WorkTypes, BoundTypes

\* Readiness and labels are among the values they may have.
LEMMA ReadinessTypes ==
  /\ \A object : VerdictOf(object) \in Status
  /\ \A names, objs : \A g \in GatewayStatus : ReadyStatus(names, objs, g) \in Status
  /\ \A ready : LabelFor(ready) \in Labels \ {NoLabel}
  <1>1. \A object : VerdictOf(object) \in Status
    BY DEF VerdictOf, Status
  <1>2. \A names, objs : \A g \in GatewayStatus : GeneratedReady(names, objs, g) \in Status
    BY <1>1, ObjectAssumption DEF GeneratedReady, Status
  <1>3. \A names, objs : \A g \in GatewayStatus : ReadyStatus(names, objs, g) \in Status
    BY <1>2 DEF ReadyStatus, Status
  <1>4. \A ready : LabelFor(ready) \in Labels \ {NoLabel}
    BY DEF LabelFor, Labels, NoLabel
  <1> QED
    BY <1>1, <1>3, <1>4

\* The controller starts with a new Ingress and nothing else.
LEMMA InitTypes == Init => TypeOK /\ Shape
  <1> SUFFICES ASSUME Init PROVE TypeOK /\ Shape
    OBVIOUS
  <1>1. \A b \in Body : NewIngress(0, b) \in Ingress
    BY DEF NewIngress, Ingress, Labels, NoLabel
  <1>2. Shape
    BY DEF Init, Shape, ServingPhases
  <1>3. IngTypes
    BY <1>1 DEF Init, IngTypes
  <1>4. ObjectTypes
    BY DEF Init, ObjectTypes
  <1>5. StatusTypes /\ FlagTypes
    BY DEF Init, StatusTypes, FlagTypes
  <1>6. WorkTypes
    BY DEF Init, WorkTypes, Phases
  <1>7. BoundTypes
    BY BoundAssumption DEF Init, BoundTypes
  <1> QED
    BY <1>2, <1>3, <1>4, <1>5, <1>6, <1>7, TypeParts

-----------------------------------------------------------------------------
(***************************************************************************)
(* What each write leaves.                                                 *)
(***************************************************************************)

\* A change of the body is a new generation of the same Ingress.
LEMMA NewBody ==
  ASSUME NEW i \in Ingress, NEW b \in Body
  PROVE  LET j == [i EXCEPT !.body = b, !.gen = @ + 1] IN
         /\ j \in Ingress
         /\ j.uid = i.uid /\ j.gen = i.gen + 1
         /\ j.deleting = i.deleting /\ j.finalizer = i.finalizer /\ j.label = i.label /\ j.address = i.address
  <1> DEFINE k == [i EXCEPT !.body = b]
             j == [k EXCEPT !.gen = i.gen + 1]
  <1>1. k \in Ingress /\ k.gen = i.gen
    BY DEF Ingress
  <1>2. k.uid = i.uid /\ k.deleting = i.deleting /\ k.finalizer = i.finalizer /\ k.label = i.label
        /\ k.address = i.address
    BY DEF Ingress
  <1> HIDE DEF k
  <1>3. i.gen + 1 \in Nat
    BY DEF Ingress
  <1>4. j \in Ingress /\ j.gen = i.gen + 1
    BY <1>1, <1>3 DEF Ingress
  <1>5. j.uid = k.uid /\ j.deleting = k.deleting /\ j.finalizer = k.finalizer /\ j.label = k.label
        /\ j.address = k.address
    BY <1>1 DEF Ingress
  <1> QED
    BY <1>1, <1>2, <1>4, <1>5 DEF k

\* Users and NGF have the only writes that change the spec.
LEMMA Patches ==
  ASSUME TypeOK, Shape
  PROVE  /\ AddFinalizer =>
               /\ ing \in Ingress /\ ing' \in Ingress /\ SameSpec(ing', ing)
               /\ ing'.finalizer /\ ing'.deleting = ing.deleting
               /\ ing'.label = ing.label /\ ing'.address = ing.address
         /\ PatchLabel /\ Relabels =>
               /\ ing \in Ingress /\ ing' \in Ingress /\ SameSpec(ing', ing)
               /\ ing'.finalizer = ing.finalizer /\ ing'.deleting = ing.deleting
               /\ ing'.label = LabelFor(translation.ready) /\ ing'.address = ing.address
         /\ Mirror /\ Readdresses =>
               /\ ing \in Ingress /\ ing' \in Ingress /\ SameSpec(ing', ing)
               /\ ing'.finalizer = ing.finalizer /\ ing'.deleting = ing.deleting
               /\ ing'.label = ing.label /\ ing'.address = seenGateway.address
  <1> USE TypeParts DEF IngTypes, StatusTypes
  <1>1. AddFinalizer => ing \in Ingress /\ ing' = [ing EXCEPT !.finalizer = TRUE]
    BY DEF AddFinalizer
  <1>2. PatchLabel /\ Relabels =>
            /\ ing \in Ingress /\ ing' = [ing EXCEPT !.label = LabelFor(translation.ready)]
            /\ LabelFor(translation.ready) \in Labels
    BY ReadinessTypes DEF PatchLabel
  <1>3. Mirror /\ Readdresses =>
            /\ ing \in Ingress /\ ing' = [ing EXCEPT !.address = seenGateway.address]
            /\ seenGateway.address \in {g.address : g \in GatewayStatus}
    BY DEF Mirror
  <1>4. AddFinalizer =>
            /\ ing' \in Ingress /\ SameSpec(ing', ing) /\ ing'.finalizer
            /\ ing'.deleting = ing.deleting /\ ing'.label = ing.label /\ ing'.address = ing.address
    BY <1>1 DEF SameSpec, Ingress
  <1>5. PatchLabel /\ Relabels =>
            /\ ing' \in Ingress /\ SameSpec(ing', ing) /\ ing'.label = LabelFor(translation.ready)
            /\ ing'.deleting = ing.deleting /\ ing'.finalizer = ing.finalizer /\ ing'.address = ing.address
    BY <1>2 DEF SameSpec, Ingress
  <1>6. Mirror /\ Readdresses =>
            /\ ing' \in Ingress /\ SameSpec(ing', ing) /\ ing'.address = seenGateway.address
            /\ ing'.deleting = ing.deleting /\ ing'.finalizer = ing.finalizer /\ ing'.label = ing.label
    BY <1>3 DEF SameSpec, Ingress
  <1> QED
    BY <1>1, <1>2, <1>3, <1>4, <1>5, <1>6

\* A release takes what it has read; a deleted Ingress that it has read with
\* the finalizer is gone.
LEMMA Releases ==
  ASSUME TypeOK, Shape, Release
  PROVE  /\ ing \in Ingress /\ copy \in Ingress
         /\ \/ ing' = Nil /\ ing.deleting
            \/ /\ ing' \in Ingress /\ SameSpec(ing', ing) /\ ing'.deleting = ing.deleting
               /\ ing.deleting => ing'.finalizer
               /\ ing'.finalizer => ~copy.finalizer
               /\ copy.label # NoLabel => ing'.label = NoLabel
  <1> USE TypeParts DEF IngTypes
  <1>1. ing \in Ingress /\ copy \in Ingress
    BY DEF Release, Shape
  <1> DEFINE kept == ing.finalizer /\ ~copy.finalizer
             l == IF copy.label # NoLabel THEN NoLabel ELSE ing.label
  <1>2. CASE ing.deleting /\ ~kept
    BY <1>1, <1>2 DEF Release
  <1>3. CASE ~(ing.deleting /\ ~kept)
    <2>1. ing' = [ing EXCEPT !.finalizer = kept, !.label = l]
      BY <1>3 DEF Release
    <2>2. kept \in BOOLEAN /\ l \in Labels /\ (copy.label # NoLabel => l = NoLabel)
      BY <1>1 DEF Ingress, Labels, NoLabel
    <2> DEFINE k == [ing EXCEPT !.finalizer = kept]
    <2>3. /\ k \in Ingress /\ SameSpec(k, ing) /\ k.deleting = ing.deleting
          /\ k.finalizer = kept
      BY <1>1, <2>2 DEF Ingress, SameSpec
    <2>4. ing' = [k EXCEPT !.label = l]
      BY <2>1
    <2> HIDE DEF k, l
    <2>5. /\ ing' \in Ingress /\ SameSpec(ing', k) /\ ing'.deleting = k.deleting
          /\ ing'.finalizer = k.finalizer /\ ing'.label = l
      BY <2>2, <2>3, <2>4 DEF Ingress, SameSpec
    <2>6. SameSpec(ing', ing)
      BY <2>3, <2>5 DEF SameSpec
    <2> QED
      BY <1>1, <1>3, <2>2, <2>3, <2>5, <2>6
  <1> QED
    BY <1>2, <1>3

\* What users do to an Ingress that exists, and a new one.
LEMMA UserEdits ==
  ASSUME TypeOK
  PROVE  /\ \A b \in Body : ChangeBody(b) =>
               /\ ing \in Ingress /\ ing' \in Ingress
               /\ ing'.uid = ing.uid /\ ing'.gen = ing.gen + 1
               /\ ing'.deleting = ing.deleting /\ ing'.finalizer = ing.finalizer
               /\ ing'.label = ing.label /\ ing'.address = ing.address
         /\ \A b \in Body : Create(b) =>
               /\ ing = Nil /\ ing' \in Ingress /\ ing'.uid = edits + 1
               /\ ~ing'.deleting /\ ~ing'.finalizer /\ ing'.label = NoLabel
         /\ ToggleSelected \/ Delete =>
               /\ ing \in Ingress
               /\ \/ ing' = Nil
                  \/ /\ ing' \in Ingress /\ SameSpec(ing', ing)
                     /\ ing'.deleting => ing.deleting \/ ing.finalizer
                     /\ ing'.finalizer = ing.finalizer
                     /\ ing'.label = ing.label /\ ing'.address = ing.address
  <1> USE TypeParts DEF IngTypes
  <1>1. ASSUME NEW b \in Body, ChangeBody(b)
        PROVE  ing \in Ingress /\ ing' = [ing EXCEPT !.body = b, !.gen = @ + 1]
    BY <1>1 DEF ChangeBody
  <1>2. ASSUME NEW b \in Body, Create(b)
        PROVE  ing = Nil /\ ing' = NewIngress(edits + 1, b) /\ edits + 1 \in Nat
    BY <1>2, BoundAssumption DEF Create, Edit, BoundTypes
  <1>3. \A b \in Body, n \in Nat : NewIngress(n, b) \in Ingress /\ NewIngress(n, b).uid = n
            /\ ~NewIngress(n, b).deleting /\ ~NewIngress(n, b).finalizer /\ NewIngress(n, b).label = NoLabel
    BY DEF NewIngress, Ingress, Labels, NoLabel
  <1>4. ToggleSelected => ing \in Ingress /\ ing' = [ing EXCEPT !.selected = ~@]
    BY DEF ToggleSelected
  <1>5. Delete => /\ ing \in Ingress
                  /\ ing' = Nil \/ (ing.finalizer /\ ing' = [ing EXCEPT !.deleting = TRUE])
    BY DEF Delete
  <1>6. ToggleSelected \/ Delete =>
               /\ ing \in Ingress
               /\ \/ ing' = Nil
                  \/ /\ ing' \in Ingress /\ SameSpec(ing', ing)
                     /\ ing'.deleting => ing.deleting \/ ing.finalizer
                     /\ ing'.finalizer = ing.finalizer
                     /\ ing'.label = ing.label /\ ing'.address = ing.address
    BY <1>4, <1>5 DEF SameSpec, Ingress
  <1>7. ASSUME NEW b \in Body, ChangeBody(b)
        PROVE  /\ ing \in Ingress /\ ing' \in Ingress
               /\ ing'.uid = ing.uid /\ ing'.gen = ing.gen + 1
               /\ ing'.deleting = ing.deleting /\ ing'.finalizer = ing.finalizer
               /\ ing'.label = ing.label /\ ing'.address = ing.address
    <2> DEFINE j == [ing EXCEPT !.body = b, !.gen = @ + 1]
    <2>1. ing \in Ingress /\ ing' = j
      BY <1>1, <1>7
    <2>2. /\ j \in Ingress
          /\ j.uid = ing.uid /\ j.gen = ing.gen + 1
          /\ j.deleting = ing.deleting /\ j.finalizer = ing.finalizer
          /\ j.label = ing.label /\ j.address = ing.address
      BY <2>1, NewBody
    <2> HIDE DEF j
    <2> QED
      BY <2>1, <2>2
  <1>8. ASSUME NEW b \in Body, Create(b)
        PROVE  /\ ing = Nil /\ ing' \in Ingress /\ ing'.uid = edits + 1
               /\ ~ing'.deleting /\ ~ing'.finalizer /\ ing'.label = NoLabel
    BY <1>2, <1>3, <1>8
  <1> QED
    BY <1>6, <1>7, <1>8

\* What Reconcile writes to the IngressTranslation.
LEMMA Reports ==
  ASSUME TypeOK, Shape
  PROVE  /\ ApplyTranslation =>
               copy \in Ingress /\ translation' \in Record /\ translation'.uid = copy.uid
         /\ PatchStatus =>
               /\ copy \in Ingress /\ translation \in Record /\ translation' \in Record
               /\ translation'.uid = translation.uid /\ translation'.observed = copy.gen
               /\ translation'.ready = ReadyStatus(desired, seenObjects, seenGateway)
  <1> USE TypeParts DEF IngTypes, StatusTypes
  <1>1. ASSUME ApplyTranslation
        PROVE  copy \in Ingress /\ translation' \in Record /\ translation'.uid = copy.uid
    <2>1. copy \in Ingress
      BY <1>1 DEF ApplyTranslation, Shape, ServingPhases
    <2> QED
      BY <1>1, <2>1 DEF ApplyTranslation, WriteTranslation, Record, Ingress, Status
  <1>2. ASSUME PatchStatus
        PROVE  /\ copy \in Ingress /\ translation \in Record /\ translation' \in Record
               /\ translation'.uid = translation.uid /\ translation'.observed = copy.gen
               /\ translation'.ready = ReadyStatus(desired, seenObjects, seenGateway)
    <2>1. copy \in Ingress /\ translation \in Record
      BY <1>2 DEF PatchStatus, Shape, ServingPhases
    <2>2. copy.gen \in Nat
      BY <2>1 DEF Ingress
    <2>3. ReadyStatus(desired, seenObjects, seenGateway) \in Status
      BY ReadinessTypes
    <2>4. translation' = [translation EXCEPT !.observed = copy.gen,
                                             !.ready = ReadyStatus(desired, seenObjects, seenGateway)]
      BY <1>2 DEF PatchStatus, WriteTranslation
    <2> QED
      BY <2>1, <2>2, <2>3, <2>4 DEF Record
  <1> QED
    BY <1>1, <1>2

\* What an apply leaves is the object with the content that was applied.
LEMMA AppliedObject ==
  ASSUME ObjectTypes, NEW o \in Object, NEW b \in Body
  PROVE  Applied(o, b) \in Generated /\ Applied(o, b).body = b
  <1>1. CASE objects[o] = Nil
    BY <1>1 DEF Applied, Generated
  <1>2. CASE objects[o] # Nil /\ objects[o].body = b
    BY <1>2 DEF Applied, ObjectTypes
  <1>3. CASE objects[o] # Nil /\ objects[o].body # b
    <2>1. objects[o] \in Generated
      BY <1>3 DEF ObjectTypes
    <2> DEFINE k == [objects[o] EXCEPT !.body = b]
    <2>2. k \in Generated /\ k.body = b /\ k.gen = objects[o].gen
      BY <2>1 DEF Generated
    <2>3. objects[o].gen + 1 \in Nat
      BY <2>1 DEF Generated
    <2> HIDE DEF k
    <2>4. [k EXCEPT !.gen = objects[o].gen + 1] \in Generated /\ [k EXCEPT !.gen = objects[o].gen + 1].body = b
      BY <2>2, <2>3 DEF Generated
    <2> QED
      BY <1>3, <2>4 DEF Applied, k
  <1> QED
    BY <1>1, <1>2, <1>3

-----------------------------------------------------------------------------
(***************************************************************************)
(* Every step keeps the types.                                             *)
(***************************************************************************)

\* Every copy of the Ingress is an Ingress.
LEMMA IngStep == TypeOK /\ Shape /\ [Next]_vars => IngTypes'
  <1> SUFFICES ASSUME TypeOK, Shape, [Next]_vars PROVE IngTypes'
    OBVIOUS
  <1> USE TypeParts DEF cluster, caches, work, bounds, IngTypes
  <1>1. ASSUME NEW b \in Body, ChangeBody(b) \/ Create(b)
        PROVE  IngTypes'
    BY <1>1, UserEdits DEF ChangeBody, Create, Edit
  <1>2. CASE AddFinalizer
    BY <1>2, Patches DEF AddFinalizer
  <1>3. CASE PatchLabel
    BY <1>3, Patches DEF PatchLabel, Return
  <1>4. CASE Mirror
    BY <1>4, Patches DEF Mirror, Return
  <1>5. CASE Release
    BY <1>5, Releases DEF Release, Return
  <1>6. CASE CallFails \/ Restart \/ Error
    BY <1>6 DEF CallFails, Restart, Error, Retry, Return
  <1>7. CASE Start \/ ReconcileGateway \/ ListStale \/ EndPrune
    BY <1>7 DEF Start, ReconcileGateway, ListStale, EndPrune, Return
  <1>8. CASE ApplyTranslation \/ PatchStatus
    BY <1>8 DEF ApplyTranslation, PatchStatus, WriteTranslation
  <1>9. ASSUME NEW o \in Object \cup {Translation},
               ApplyObject(o) \/ DeleteStale(o) \/ DeleteFails(o) \/ SeeObject(o) \/ Judge(o)
        PROVE  IngTypes'
    BY <1>9 DEF ApplyObject, DeleteStale, DeleteFails, SeeObject, Judge, WriteTranslation
  <1>10. CASE SeeIngress \/ SeeTranslation \/ SeeGateway
    BY <1>10 DEF SeeIngress, SeeTranslation, SeeGateway
  <1>11. ASSUME NEW g, ReportGateway(g) PROVE IngTypes'
    BY <1>11 DEF ReportGateway, Edit
  <1>12. CASE ToggleSelected \/ Delete
    BY <1>12, UserEdits DEF ToggleSelected, Delete, Edit
  <1>13. CASE UNCHANGED vars
    BY <1>13 DEF vars
  <1> QED
    BY <1>1, <1>2, <1>3, <1>4, <1>5, <1>6, <1>7, <1>8, <1>9, <1>10, <1>11, <1>12, <1>13
    DEF Next, Environment, Informers, Reconcile, AtRest

\* Every version of a generated object is one.
LEMMA ObjectStep == TypeOK /\ Shape /\ [Next]_vars => ObjectTypes'
  <1> SUFFICES ASSUME TypeOK, Shape, [Next]_vars PROVE ObjectTypes'
    OBVIOUS
  <1> USE TypeParts DEF cluster, caches, work, bounds, ObjectTypes
  <1>1. ASSUME NEW o \in Object, Judge(o) PROVE ObjectTypes'
    <2>1. objects[o] \in Generated
      BY <1>1 DEF Judge
    <2>2. \A verdict \in BOOLEAN :
              [objects[o] EXCEPT !.judged = objects[o].gen, !.accepted = verdict] \in Generated
      BY <2>1 DEF Generated
    <2> QED
      BY <1>1, <2>2 DEF Judge
  <1>2. ASSUME NEW o \in Object, ApplyObject(o) PROVE ObjectTypes'
    <2>1. copy \in Ingress
      BY <1>2 DEF ApplyObject, Shape, ServingPhases, IngTypes
    <2>2. Applied(o, copy.body) \in Generated
      BY <2>1, AppliedObject DEF Ingress
    <2> QED
      BY <1>2, <2>2 DEF ApplyObject
  <1>3. ASSUME NEW o \in Object \cup {Translation}, DeleteStale(o) PROVE ObjectTypes'
    BY <1>3 DEF DeleteStale
  <1>4. ASSUME NEW o \in Object, SeeObject(o) PROVE ObjectTypes'
    BY <1>4 DEF SeeObject
  <1>5. ASSUME NEW o, DeleteFails(o) PROVE ObjectTypes'
    BY <1>5 DEF DeleteFails
  <1>6. CASE CallFails \/ Restart \/ Error
    BY <1>6 DEF CallFails, Restart, Error, Retry, Return
  <1>7. CASE Start \/ ReconcileGateway \/ ListStale \/ EndPrune
    BY <1>7 DEF Start, ReconcileGateway, ListStale, EndPrune, Return
  <1>8. CASE ApplyTranslation \/ PatchStatus \/ SeeIngress \/ SeeTranslation \/ SeeGateway
    BY <1>8 DEF ApplyTranslation, PatchStatus, SeeIngress, SeeTranslation, SeeGateway
  <1>9. CASE AddFinalizer \/ PatchLabel \/ Mirror \/ Release
    BY <1>9 DEF AddFinalizer, PatchLabel, Mirror, Release, Return
  <1>10. ASSUME NEW x, ChangeBody(x) \/ Create(x) \/ ReportGateway(x) PROVE ObjectTypes'
    BY <1>10 DEF ChangeBody, Create, ReportGateway, Edit
  <1>11. CASE ToggleSelected \/ Delete
    BY <1>11 DEF ToggleSelected, Delete, Edit
  <1>12. CASE UNCHANGED vars
    BY <1>12 DEF vars
  <1> QED
    BY <1>1, <1>2, <1>3, <1>4, <1>5, <1>6, <1>7, <1>8, <1>9, <1>10, <1>11, <1>12
    DEF Next, Environment, Informers, Reconcile, AtRest

\* What is written to the IngressTranslation is a record, and there is one
\* where its status is patched.
LEMMA StatusStep == TypeOK /\ Shape /\ [Next]_vars => StatusTypes'
  <1> SUFFICES ASSUME TypeOK, Shape, [Next]_vars PROVE StatusTypes'
    OBVIOUS
  <1> USE TypeParts DEF cluster, caches, work, bounds, StatusTypes
  <1>1. CASE ApplyTranslation
    BY <1>1, Reports DEF ApplyTranslation
  <1>2. CASE PatchStatus
    BY <1>2, Reports DEF PatchStatus
  <1>3. ASSUME NEW o, DeleteStale(o) \/ DeleteFails(o) \/ ApplyObject(o) \/ Judge(o) \/ SeeObject(o)
        PROVE  StatusTypes'
    BY <1>3 DEF DeleteStale, DeleteFails, ApplyObject, Judge, SeeObject, WriteTranslation
  <1>4. CASE CallFails \/ Restart \/ Error
    BY <1>4 DEF CallFails, Restart, Error, Retry, Return
  <1>5. CASE Start \/ ReconcileGateway \/ ListStale \/ EndPrune
    BY <1>5 DEF Start, ReconcileGateway, ListStale, EndPrune, Return
  <1>6. CASE SeeIngress \/ SeeTranslation \/ SeeGateway
    BY <1>6 DEF SeeIngress, SeeTranslation, SeeGateway
  <1>7. CASE AddFinalizer \/ PatchLabel \/ Mirror \/ Release
    BY <1>7 DEF AddFinalizer, PatchLabel, Mirror, Release, Return
  <1>8. ASSUME NEW b, ChangeBody(b) \/ Create(b) PROVE StatusTypes'
    BY <1>8 DEF ChangeBody, Create, Edit
  <1>9. ASSUME NEW g \in GatewayStatus, ReportGateway(g) PROVE StatusTypes'
    BY <1>9 DEF ReportGateway, Edit
  <1>10. CASE ToggleSelected \/ Delete
    BY <1>10 DEF ToggleSelected, Delete, Edit
  <1>11. CASE UNCHANGED vars
    BY <1>11 DEF vars
  <1> QED
    BY <1>1, <1>2, <1>3, <1>4, <1>5, <1>6, <1>7, <1>8, <1>9, <1>10, <1>11
    DEF Next, Environment, Informers, Reconcile, AtRest

\* The flags stay flags.
LEMMA FlagStep == TypeOK /\ Shape /\ [Next]_vars => FlagTypes'
  <1> SUFFICES ASSUME TypeOK, Shape, [Next]_vars PROVE FlagTypes'
    OBVIOUS
  <1> USE TypeParts DEF cluster, caches, work, bounds, FlagTypes
  <1>1. \A i : Live(i) \in BOOLEAN
    BY DEF Live
  <1>2. ASSUME NEW o, DeleteStale(o) \/ DeleteFails(o) \/ ApplyObject(o) \/ Judge(o) \/ SeeObject(o)
        PROVE  FlagTypes'
    BY <1>2 DEF DeleteStale, DeleteFails, ApplyObject, Judge, SeeObject, WriteTranslation
  <1>3. CASE CallFails \/ Error
    BY <1>3 DEF CallFails, Error, Retry, Return
  <1>4. CASE Restart
    BY <1>1, <1>4 DEF Restart, Return
  <1>5. CASE Start \/ ReconcileGateway
    BY <1>1, <1>5 DEF Start, ReconcileGateway, Return
  <1>6. CASE ListStale \/ EndPrune
    BY <1>6 DEF ListStale, EndPrune, Return
  <1>7. CASE SeeIngress \/ SeeTranslation \/ SeeGateway
    BY <1>7 DEF SeeIngress, SeeTranslation, SeeGateway
  <1>8. CASE AddFinalizer \/ PatchLabel \/ Mirror \/ Release
    BY <1>8 DEF AddFinalizer, PatchLabel, Mirror, Release, Return
  <1>9. CASE ApplyTranslation \/ PatchStatus
    BY <1>9 DEF ApplyTranslation, PatchStatus, WriteTranslation
  <1>10. ASSUME NEW x, ChangeBody(x) \/ Create(x) \/ ReportGateway(x) PROVE FlagTypes'
    BY <1>10 DEF ChangeBody, Create, ReportGateway, Edit
  <1>11. CASE ToggleSelected \/ Delete
    BY <1>11 DEF ToggleSelected, Delete, Edit
  <1>12. CASE UNCHANGED vars
    BY <1>12 DEF vars
  <1> QED
    BY <1>2, <1>3, <1>4, <1>5, <1>6, <1>7, <1>8, <1>9, <1>10, <1>11, <1>12
    DEF Next, Environment, Informers, Reconcile, AtRest

\* The reconciliation works on objects that there may be.
LEMMA WorkStep == TypeOK /\ Shape /\ [Next]_vars => WorkTypes'
  <1> SUFFICES ASSUME TypeOK, Shape, [Next]_vars PROVE WorkTypes'
    OBVIOUS
  <1> USE TypeParts DEF cluster, caches, work, bounds, WorkTypes, Phases
  <1>1. ASSUME NEW o, DeleteStale(o) \/ DeleteFails(o) \/ ApplyObject(o) \/ Judge(o) \/ SeeObject(o)
        PROVE  WorkTypes'
    BY <1>1 DEF DeleteStale, DeleteFails, ApplyObject, Judge, SeeObject
  <1>2. CASE CallFails \/ Error \/ Restart
    BY <1>2 DEF CallFails, Error, Retry, Restart, Return
  <1>3. CASE Start \/ ListStale \/ EndPrune
    BY <1>3 DEF Start, ListStale, EndPrune, Listed
  <1>4. CASE ReconcileGateway
    <2>1. serving => Objects[copy.body] \subseteq Object
      BY <1>4, ObjectAssumption DEF ReconcileGateway, Shape, IngTypes, Ingress
    <2> QED
      BY <1>4, <2>1 DEF ReconcileGateway, Return
  <1>5. CASE SeeIngress \/ SeeTranslation \/ SeeGateway
    BY <1>5 DEF SeeIngress, SeeTranslation, SeeGateway
  <1>6. CASE AddFinalizer \/ PatchLabel \/ Mirror \/ Release
    BY <1>6 DEF AddFinalizer, PatchLabel, Mirror, Release, Return
  <1>7. CASE ApplyTranslation \/ PatchStatus
    BY <1>7 DEF ApplyTranslation, PatchStatus
  <1>8. ASSUME NEW x, ChangeBody(x) \/ Create(x) \/ ReportGateway(x) PROVE WorkTypes'
    BY <1>8 DEF ChangeBody, Create, ReportGateway, Edit
  <1>9. CASE ToggleSelected \/ Delete
    BY <1>9 DEF ToggleSelected, Delete, Edit
  <1>10. CASE UNCHANGED vars
    BY <1>10 DEF vars
  <1> QED
    BY <1>1, <1>2, <1>3, <1>4, <1>5, <1>6, <1>7, <1>8, <1>9, <1>10
    DEF Next, Environment, Informers, Reconcile, AtRest

\* The counters keep to their bounds.
LEMMA BoundStep == TypeOK /\ [Next]_vars => BoundTypes'
  <1> SUFFICES ASSUME TypeOK, [Next]_vars PROVE BoundTypes'
    OBVIOUS
  <1> USE TypeParts, BoundAssumption DEF cluster, caches, work, bounds, BoundTypes
  <1>1. ASSUME NEW o, DeleteStale(o) \/ ApplyObject(o) \/ Judge(o) \/ SeeObject(o)
        PROVE  BoundTypes'
    BY <1>1 DEF DeleteStale, ApplyObject, Judge, SeeObject
  <1>2. ASSUME NEW o, DeleteFails(o) PROVE BoundTypes'
    BY <1>2 DEF DeleteFails
  <1>3. CASE CallFails \/ Error \/ Restart
    BY <1>3 DEF CallFails, Error, Retry, Restart
  <1>4. CASE Start \/ ReconcileGateway \/ ListStale \/ EndPrune
    BY <1>4 DEF Start, ReconcileGateway, ListStale, EndPrune
  <1>5. CASE SeeIngress \/ SeeTranslation \/ SeeGateway
    BY <1>5 DEF SeeIngress, SeeTranslation, SeeGateway
  <1>6. CASE AddFinalizer \/ PatchLabel \/ Mirror \/ Release
    BY <1>6 DEF AddFinalizer, PatchLabel, Mirror, Release
  <1>7. CASE ApplyTranslation \/ PatchStatus
    BY <1>7 DEF ApplyTranslation, PatchStatus
  <1>8. ASSUME NEW x, ChangeBody(x) \/ Create(x) \/ ReportGateway(x) PROVE BoundTypes'
    BY <1>8 DEF ChangeBody, Create, ReportGateway, Edit
  <1>9. CASE ToggleSelected \/ Delete
    BY <1>9 DEF ToggleSelected, Delete, Edit
  <1>10. CASE UNCHANGED vars
    BY <1>10 DEF vars
  <1> QED
    BY <1>1, <1>2, <1>3, <1>4, <1>5, <1>6, <1>7, <1>8, <1>9, <1>10
    DEF Next, Environment, Informers, Reconcile, AtRest

\* Phases follow each other as their variables are set.
LEMMA ShapeStep == TypeOK /\ Shape /\ [Next]_vars => Shape'
  <1> SUFFICES ASSUME TypeOK, Shape, [Next]_vars PROVE Shape'
    OBVIOUS
  <1> USE NilAssumption DEF cluster, caches, work, bounds, Shape, ServingPhases
  <1>1. ASSUME NEW o, DeleteStale(o) \/ DeleteFails(o) \/ ApplyObject(o) \/ Judge(o) \/ SeeObject(o)
        PROVE  Shape'
    BY <1>1 DEF DeleteStale, DeleteFails, ApplyObject, Judge, SeeObject, WriteTranslation
  <1>2. CASE CallFails \/ Error \/ Restart
    BY <1>2 DEF CallFails, Error, Retry, Restart, Return
  <1>3. CASE Start
    <2>1. Live(seenIng) => seenIng # Nil
      BY DEF Live
    <2> QED
      BY <1>3, <2>1 DEF Start
  <1>4. CASE ReconcileGateway
    BY <1>4 DEF ReconcileGateway, Return, NeedsRelease
  <1>5. CASE SeeIngress \/ SeeTranslation \/ SeeGateway
    BY <1>5 DEF SeeIngress, SeeTranslation, SeeGateway
  <1>6. CASE AddFinalizer
    BY <1>6, Patches DEF AddFinalizer
  <1>7. CASE PatchLabel
    <2>1. CASE Return
      BY <1>7, <2>1 DEF PatchLabel, Return
    <2>2. CASE ~Return
      <3>1. phase' = "mirror" /\ serving' = serving /\ copy' \in {ing', copy} /\ (copy' # ing' => copy' = copy)
        BY <1>7, <2>2 DEF PatchLabel
      <3>2. Relabels => ing' # Nil
        BY <1>7, Patches
      <3>3. copy' = IF Relabels THEN ing' ELSE copy
        BY <1>7, <2>2 DEF PatchLabel
      <3> QED
        BY <1>7, <3>1, <3>2, <3>3 DEF PatchLabel
    <2> QED
      BY <2>1, <2>2
  <1>8. CASE Mirror \/ Release \/ ListStale
    BY <1>8 DEF Mirror, Release, Return, ListStale
  <1>9. CASE ApplyTranslation \/ PatchStatus
    BY <1>9, Reports DEF ApplyTranslation, PatchStatus
  <1>10. ASSUME NEW x, ChangeBody(x) \/ Create(x) \/ ReportGateway(x) PROVE Shape'
    BY <1>10 DEF ChangeBody, Create, ReportGateway, Edit
  <1>11. CASE ToggleSelected \/ Delete
    BY <1>11 DEF ToggleSelected, Delete, Edit
  <1>12. CASE EndPrune
    <2>1. phase' \in {"record", "gateway"} /\ (phase' = "record" => serving)
      BY <1>12 DEF EndPrune
    <2> QED
      BY <1>12, <2>1 DEF EndPrune
  <1>13. CASE UNCHANGED vars
    BY <1>13 DEF vars
  <1> QED
    BY <1>1, <1>2, <1>3, <1>4, <1>5, <1>6, <1>7, <1>8, <1>9, <1>10, <1>11, <1>12, <1>13
    DEF Next, Environment, Informers, Reconcile, AtRest

-----------------------------------------------------------------------------
(***************************************************************************)
(* Versions, the finalizer of a deleted Ingress, the cache of the          *)
(* IngressTranslation.                                                     *)
(***************************************************************************)

\* Versions are numbers.
LEMMA Numbers ==
  /\ \A i \in Ingress : i.uid \in Nat /\ i.gen \in Nat /\ i # Nil
  /\ \A g \in Generated : g # Nil
  /\ \A r \in Record : r # Nil
  /\ TypeOK => edits \in Nat
  BY NilAssumption, BoundAssumption, TypeParts DEF Ingress, BoundTypes

\* The controller starts with a cache that has everything.
LEMMA InitAlways == Init => CacheKnows /\ Held /\ Versions
  BY DEF Init, NewIngress, CacheKnows, Held, Versions, SameSpec, Newer

\* Whatever leaves the Ingress, the IngressTranslation and their caches alone.
LEMMA OthersKeepAlways ==
  ASSUME Always, UNCHANGED <<ing, seenIng, translation, seenTranslation, unseen, edits>>
  PROVE  CacheKnows' /\ Held' /\ Versions'
  BY DEF Always, CacheKnows, Held, Versions, SameSpec, Newer

\* A patch of the metadata is of the same version.
LEMMA PatchKeepsAlways ==
  ASSUME TypeOK, Always, UNCHANGED <<seenIng, translation, seenTranslation, unseen, edits>>,
         ing' # Nil => ing \in Ingress /\ ing' \in Ingress /\ SameSpec(ing', ing)
                       /\ (ing'.deleting => ing'.finalizer)
  PROVE  CacheKnows' /\ Held' /\ Versions'
  <1>1. CacheKnows' /\ Held'
    BY DEF Always, CacheKnows, Held
  <1>2. Versions'
    BY Numbers, TypeParts DEF Always, Versions, SameSpec, Newer, IngTypes
  <1> QED
    BY <1>1, <1>2

\* Versions grow, deletion waits for the finalizer, and a cache that missed a
\* change of the IngressTranslation is behind.
LEMMA AlwaysStep == TypeOK /\ Always /\ [Next]_vars => Always'
  <1> SUFFICES ASSUME TypeOK, Always, [Next]_vars PROVE CacheKnows' /\ Held' /\ Versions'
    BY ShapeStep DEF Always
  <1> USE DEF cluster, caches, work, bounds
  <1>shape. Shape /\ Held /\ Versions /\ CacheKnows
    BY DEF Always
  <1>1. ASSUME NEW b \in Body, ChangeBody(b) PROVE CacheKnows' /\ Held' /\ Versions'
    <2>1. UNCHANGED <<seenIng, translation, seenTranslation, unseen>> /\ edits' = edits + 1
      BY <1>1 DEF ChangeBody, Edit
    <2>2. /\ ing \in Ingress /\ ing' \in Ingress /\ ing'.uid = ing.uid /\ ing'.gen = ing.gen + 1
          /\ ing'.deleting = ing.deleting /\ ing'.finalizer = ing.finalizer
      BY <1>1, UserEdits
    <2>3. CacheKnows' /\ Held'
      BY <1>shape, <2>1, <2>2, Numbers DEF CacheKnows, Held
    <2>4. Versions'
      BY <1>shape, <2>1, <2>2, Numbers, TypeParts DEF Versions, Newer, SameSpec, IngTypes
    <2> QED
      BY <2>3, <2>4
  <1>2. ASSUME NEW b \in Body, Create(b) PROVE CacheKnows' /\ Held' /\ Versions'
    <2>1. UNCHANGED <<seenIng, translation, seenTranslation, unseen>> /\ edits' = edits + 1
      BY <1>2 DEF Create, Edit
    <2>2. ing = Nil /\ ing' \in Ingress /\ ing'.uid = edits + 1 /\ ~ing'.deleting
      BY <1>2, UserEdits
    <2>3. CacheKnows' /\ Held'
      BY <1>shape, <2>1, <2>2 DEF CacheKnows, Held
    <2>4. Versions'
      BY <1>shape, <2>1, <2>2, Numbers, TypeParts DEF Versions, Newer, SameSpec, IngTypes
    <2> QED
      BY <2>3, <2>4
  <1>3. CASE ToggleSelected \/ Delete
    <2>1. UNCHANGED <<seenIng, translation, seenTranslation, unseen>> /\ edits' = edits + 1
      BY <1>3 DEF ToggleSelected, Delete, Edit
    <2>2. /\ ing \in Ingress
          /\ \/ ing' = Nil
             \/ /\ ing' \in Ingress /\ SameSpec(ing', ing)
                /\ ing'.deleting => ing.deleting \/ ing.finalizer
                /\ ing'.finalizer = ing.finalizer
      BY <1>3, UserEdits
    <2>3. CacheKnows' /\ Held'
      BY <1>shape, <2>1, <2>2, Numbers DEF CacheKnows, Held
    <2>4. Versions'
      BY <1>shape, <2>1, <2>2, Numbers, TypeParts DEF Versions, Newer, SameSpec, IngTypes
    <2> QED
      BY <2>3, <2>4
  <1>4. ASSUME NEW g, ReportGateway(g) PROVE CacheKnows' /\ Held' /\ Versions'
    <2>1. UNCHANGED <<ing, seenIng, translation, seenTranslation, unseen>> /\ edits' = edits + 1
      BY <1>4 DEF ReportGateway, Edit
    <2>2. CacheKnows' /\ Held'
      BY <1>shape, <2>1 DEF CacheKnows, Held
    <2>3. Versions'
      BY <1>shape, <2>1, Numbers, TypeParts DEF Versions, Newer, SameSpec, IngTypes
    <2> QED
      BY <2>2, <2>3
  <1>5. CASE AddFinalizer
    BY <1>5, <1>shape, Patches, PatchKeepsAlways DEF AddFinalizer, Held
  <1>6. CASE PatchLabel
    <2>1. CASE Relabels
      BY <1>6, <2>1, <1>shape, Patches, Numbers, PatchKeepsAlways DEF PatchLabel, Held
    <2>2. CASE ~Relabels
      BY <1>6, <2>2, OthersKeepAlways DEF PatchLabel
    <2> QED
      BY <2>1, <2>2
  <1>7. CASE Mirror
    <2>1. CASE Readdresses
      BY <1>7, <2>1, <1>shape, Patches, Numbers, PatchKeepsAlways DEF Mirror, Held
    <2>2. CASE ~Readdresses
      BY <1>7, <2>2, OthersKeepAlways DEF Mirror
    <2> QED
      BY <2>1, <2>2
  <1>8. CASE Release
    BY <1>8, <1>shape, Releases, PatchKeepsAlways DEF Release
  <1>9. CASE SeeIngress
    BY <1>9, <1>shape, Numbers, TypeParts
    DEF SeeIngress, CacheKnows, Held, Versions, SameSpec, Newer
  <1>10. CASE SeeTranslation
    <2>1. Held' /\ Versions'
      BY <1>10, <1>shape DEF SeeTranslation, Held, Versions, SameSpec, Newer
    <2>2. CacheKnows'
      BY <1>10 DEF SeeTranslation, CacheKnows
    <2> QED
      BY <2>1, <2>2
  <1>11. CASE Restart
    <2>1. Held' /\ Versions'
      BY <1>11, <1>shape DEF Restart, Held, Versions, SameSpec, Newer
    <2>2. CacheKnows'
      BY <1>11 DEF Restart, CacheKnows
    <2> QED
      BY <2>1, <2>2
  <1>12. ASSUME NEW o, DeleteStale(o) \/ ApplyTranslation \/ PatchStatus
         PROVE  CacheKnows' /\ Held' /\ Versions'
    <2>1. UNCHANGED <<ing, seenIng, edits, seenTranslation>>
      BY <1>12 DEF DeleteStale, ApplyTranslation, PatchStatus
    <2>2. UNCHANGED <<translation, unseen>> \/ unseen' = (unseen \/ translation' # translation)
      BY <1>12 DEF DeleteStale, ApplyTranslation, PatchStatus, WriteTranslation
    <2>3. CacheKnows'
      BY <1>shape, <2>1, <2>2 DEF CacheKnows
    <2> QED
      BY <1>shape, <2>1, <2>3 DEF Held, Versions, SameSpec, Newer
  <1>13. ASSUME NEW o, DeleteFails(o) \/ ApplyObject(o) \/ Judge(o) \/ SeeObject(o)
         PROVE  CacheKnows' /\ Held' /\ Versions'
    BY <1>13, OthersKeepAlways DEF DeleteFails, ApplyObject, Judge, SeeObject
  <1>14. CASE CallFails \/ Error \/ SeeGateway
    BY <1>14, OthersKeepAlways DEF CallFails, Error, Retry, SeeGateway
  <1>15. CASE Start \/ ReconcileGateway \/ ListStale \/ EndPrune
    BY <1>15, OthersKeepAlways DEF Start, ReconcileGateway, ListStale, EndPrune
  <1>16. CASE UNCHANGED vars
    BY <1>16, OthersKeepAlways DEF vars
  <1> QED
    BY <1>1, <1>2, <1>3, <1>4, <1>5, <1>6, <1>7, <1>8, <1>9, <1>10, <1>11, <1>12, <1>13, <1>14, <1>15, <1>16
    DEF Next, Environment, Informers, Reconcile, AtRest

-----------------------------------------------------------------------------
(***************************************************************************)
(* While no request is queued, the caches are those that were read.        *)
(***************************************************************************)

\* A request that is queued is all that is to be said.
LEMMA QueuedSeesNothing == queued => WhileSeen
  BY DEF WhileSeen, OfSeen, ListedAsSeen, Pruned, Released, Served, Serves

\* Every event that could change what a reconciliation has read asks for
\* another one.
LEMMA StillSeen ==
  ASSUME [Next]_vars, ~queued'
  PROVE  \/ Start \/ Restart
         \/ /\ ~queued
            /\ UNCHANGED <<seenIng, seenObjects, seenTranslation>>
            /\ Live(seenIng) => seenGateway' = seenGateway
  <1> USE DEF cluster, caches, work, bounds
  <1>1. CASE SeeGateway
    BY <1>1 DEF SeeGateway, Live
  <1>2. CASE SeeIngress \/ SeeTranslation \/ Error \/ CallFails
    BY <1>2 DEF SeeIngress, SeeTranslation, Error, CallFails, Retry
  <1>3. CASE AddFinalizer \/ PatchLabel \/ Mirror \/ Release
    BY <1>3 DEF AddFinalizer, PatchLabel, Mirror, Release
  <1>4. CASE ReconcileGateway \/ ListStale \/ EndPrune \/ ApplyTranslation \/ PatchStatus
    BY <1>4 DEF ReconcileGateway, ListStale, EndPrune, ApplyTranslation, PatchStatus
  <1>5. ASSUME NEW o, SeeObject(o) \/ ApplyObject(o) \/ Judge(o) \/ DeleteStale(o) \/ DeleteFails(o)
        PROVE  ~queued /\ UNCHANGED <<seenIng, seenObjects, seenTranslation, seenGateway>>
    BY <1>5 DEF SeeObject, ApplyObject, Judge, DeleteStale, DeleteFails
  <1>6. ASSUME NEW x, ChangeBody(x) \/ Create(x) \/ ReportGateway(x)
        PROVE  ~queued /\ UNCHANGED <<seenIng, seenObjects, seenTranslation, seenGateway>>
    BY <1>6 DEF ChangeBody, Create, ReportGateway, Edit
  <1>7. CASE ToggleSelected \/ Delete
    BY <1>7 DEF ToggleSelected, Delete, Edit
  <1>8. CASE UNCHANGED vars
    BY <1>8 DEF vars
  <1> QED
    BY <1>1, <1>2, <1>3, <1>4, <1>5, <1>6, <1>7, <1>8 DEF Next, Environment, Informers, Reconcile, AtRest

\* A reconciliation whose request nobody repeats is of the Ingress in the cache.
LEMMA OfSeenStep == IInv /\ [Next]_vars => OfSeen'
  <1> SUFFICES ASSUME IInv, [Next]_vars, ~queued', phase' # "idle"
               PROVE  /\ serving' <=> Live(seenIng')
                      /\ ~serving' => copy' = seenIng'
    BY DEF OfSeen, Live
  <1> USE DEF cluster, caches, work, bounds
  <1>1. Shape /\ OfSeen
    BY DEF IInv, Always, WhileSeen
  <1>2. CASE Start
    BY <1>2 DEF Start
  <1>3. CASE Restart
    BY <1>3 DEF Restart, Return
  <1>4. CASE ~Start /\ ~Restart
    <2>1. ~queued /\ seenIng' = seenIng
      BY <1>4, StillSeen
    <2>2. phase # "idle" => (serving <=> Live(seenIng)) /\ (~serving => copy = seenIng)
      BY <1>1, <2>1 DEF OfSeen
    <2>3. CASE AddFinalizer \/ PatchLabel \/ Mirror \/ Release
      BY <1>1, <2>1, <2>2, <2>3 DEF AddFinalizer, PatchLabel, Mirror, Release, Return, Shape, ServingPhases
    <2>4. CASE ReconcileGateway \/ ListStale \/ EndPrune \/ ApplyTranslation \/ PatchStatus
      <3>1. phase # "idle" /\ serving' = serving /\ copy' = copy
        BY <2>4 DEF ReconcileGateway, ListStale, EndPrune, ApplyTranslation, PatchStatus, Return
      <3> QED
        BY <2>1, <2>2, <3>1
    <2>5. ASSUME NEW o, SeeObject(o) \/ ApplyObject(o) \/ Judge(o) \/ DeleteStale(o) \/ DeleteFails(o)
          PROVE  (serving' <=> Live(seenIng')) /\ (~serving' => copy' = seenIng')
      BY <2>1, <2>2, <2>5 DEF SeeObject, ApplyObject, Judge, DeleteStale, DeleteFails
    <2>6. ASSUME NEW x, ChangeBody(x) \/ Create(x) \/ ReportGateway(x)
          PROVE  (serving' <=> Live(seenIng')) /\ (~serving' => copy' = seenIng')
      BY <2>1, <2>2, <2>6 DEF ChangeBody, Create, ReportGateway, Edit
    <2>7. CASE ToggleSelected \/ Delete \/ SeeIngress \/ SeeTranslation \/ SeeGateway
      BY <2>1, <2>2, <2>7 DEF ToggleSelected, Delete, Edit, SeeIngress, SeeTranslation, SeeGateway
    <2>8. CASE Error \/ CallFails
      BY <2>8 DEF Error, CallFails, Retry
    <2>9. CASE UNCHANGED vars
      BY <2>1, <2>2, <2>9 DEF vars
    <2> QED
      BY <1>4, <2>3, <2>4, <2>5, <2>6, <2>7, <2>8, <2>9 DEF Next, Environment, Informers, Reconcile, AtRest
  <1> QED
    BY <1>2, <1>3, <1>4

\* reconcileManagedGateway takes into account what the cache has.
LEMMA ListedStep == IInv /\ [Next]_vars => ListedAsSeen'
  <1> SUFFICES ASSUME IInv, [Next]_vars, ~queued', GatewayDone'
               PROVE  listed' <=> Live(seenIng')
    BY DEF ListedAsSeen, Live
  <1> USE DEF cluster, caches, work, bounds
  <1>1. Shape /\ ListedAsSeen
    BY DEF IInv, Always, WhileSeen
  <1>2. CASE Start
    BY <1>2 DEF Start, GatewayDone
  <1>3. CASE Restart
    BY <1>3 DEF Restart
  <1>4. CASE ~Start /\ ~Restart
    <2>1. ~queued /\ seenIng' = seenIng
      BY <1>4, StillSeen
    <2>2. GatewayDone => (listed <=> Live(seenIng))
      BY <1>1, <2>1 DEF ListedAsSeen
    <2>3. CASE AddFinalizer \/ PatchLabel \/ Mirror \/ Release
      BY <1>1, <2>1, <2>2, <2>3 DEF AddFinalizer, PatchLabel, Mirror, Release, GatewayDone
    <2>4. CASE ReconcileGateway
      BY <2>1, <2>4 DEF ReconcileGateway
    <2>5. CASE ListStale \/ ApplyTranslation \/ PatchStatus
      <3>1. listed' = listed /\ phase \in {"apply", "record", "status"}
        BY <2>5 DEF ListStale, ApplyTranslation, PatchStatus
      <3> QED
        BY <2>1, <2>2, <3>1 DEF GatewayDone
    <2>6. CASE EndPrune
      <3>1. serving
        BY <2>6 DEF EndPrune, GatewayDone
      <3> QED
        BY <2>1, <2>2, <2>6, <3>1 DEF EndPrune, GatewayDone
    <2>7. ASSUME NEW o, SeeObject(o) \/ ApplyObject(o) \/ Judge(o) \/ DeleteStale(o) \/ DeleteFails(o)
          PROVE  listed' <=> Live(seenIng')
      BY <2>1, <2>2, <2>7 DEF SeeObject, ApplyObject, Judge, DeleteStale, DeleteFails, GatewayDone
    <2>8. ASSUME NEW x, ChangeBody(x) \/ Create(x) \/ ReportGateway(x)
          PROVE  listed' <=> Live(seenIng')
      BY <2>1, <2>2, <2>8 DEF ChangeBody, Create, ReportGateway, Edit, GatewayDone
    <2>9. CASE ToggleSelected \/ Delete \/ SeeIngress \/ SeeTranslation \/ SeeGateway
      BY <2>1, <2>2, <2>9
      DEF ToggleSelected, Delete, Edit, SeeIngress, SeeTranslation, SeeGateway, GatewayDone
    <2>10. CASE Error \/ CallFails
      BY <2>10 DEF Error, CallFails, Retry
    <2>11. CASE UNCHANGED vars
      BY <2>1, <2>2, <2>11 DEF vars, GatewayDone
    <2> QED
      BY <1>4, <2>3, <2>4, <2>5, <2>6, <2>7, <2>8, <2>9, <2>10, <2>11
      DEF Next, Environment, Informers, Reconcile, AtRest
  <1> QED
    BY <1>2, <1>3, <1>4

\* Whatever the caches of an Ingress that is gone hold is pruned.
LEMMA PrunedStep == IInv /\ [Next]_vars => Pruned'
  <1> SUFFICES ASSUME IInv, [Next]_vars, ~queued', ~Live(seenIng)'
               PROVE  /\ \A o \in Object : (objects'[o] # Nil /\ seenObjects'[o] # Nil)
                                           => phase' = "prune" /\ (o \in todo' \/ failed')
                      /\ (translation' # Nil /\ seenTranslation')
                                           => phase' = "prune" /\ (Translation \in todo' \/ failed')
    BY DEF Pruned
  <1> USE DEF cluster, caches, work, bounds
  <1>1. TypeOK /\ Shape /\ OfSeen /\ Pruned
    BY DEF IInv, Always, WhileSeen
  <1>2. ObjectTypes /\ ObjectTypes'
    BY <1>1, ObjectStep, TypeParts
  <1>3. CASE Start
    <2>1. phase' = "prune" /\ todo' = Listed(TRUE)
      BY <1>3 DEF Start, Live
    <2> QED
      BY <1>3, <2>1 DEF Start, Listed
  <1>4. CASE Restart
    <2>1. /\ translation' = translation /\ objects' = objects
          /\ translation = Nil /\ \A o \in Object : objects[o] = Nil
      BY <1>4 DEF Restart
    <2> QED
      BY <2>1
  <1>5. CASE ~Start /\ ~Restart
    <2>1. ~queued /\ ~Live(seenIng) /\ UNCHANGED <<seenIng, seenObjects, seenTranslation>>
      BY <1>5, StillSeen DEF Live
    <2>2. /\ \A o \in Object : (objects[o] # Nil /\ seenObjects[o] # Nil)
                               => phase = "prune" /\ (o \in todo \/ failed)
          /\ (translation # Nil /\ seenTranslation) => phase = "prune" /\ (Translation \in todo \/ failed)
      BY <1>1, <2>1 DEF Pruned
    <2>3. phase = "idle" \/ ~serving
      BY <1>1, <2>1 DEF OfSeen
    <2>4. CASE AddFinalizer \/ PatchLabel \/ Mirror \/ ListStale \/ ApplyTranslation \/ PatchStatus
      BY <1>1, <2>3, <2>4
      DEF AddFinalizer, PatchLabel, Mirror, ListStale, ApplyTranslation, PatchStatus, Shape, ServingPhases
    <2>5. CASE Release \/ ReconcileGateway
      <3>1. phase # "prune" /\ objects' = objects /\ translation' = translation
        BY <2>5 DEF Release, ReconcileGateway
      <3> QED
        BY <2>1, <2>2, <3>1
    <2>6. CASE EndPrune
      <3>1. todo = {} /\ ~failed /\ objects' = objects /\ translation' = translation
        BY <2>6 DEF EndPrune
      <3> QED
        BY <2>1, <2>2, <3>1
    <2>7. ASSUME NEW o \in Object \cup {Translation}, DeleteStale(o)
          PROVE  /\ \A p \in Object : (objects'[p] # Nil /\ seenObjects'[p] # Nil)
                                      => phase' = "prune" /\ (p \in todo' \/ failed')
                 /\ (translation' # Nil /\ seenTranslation') => phase' = "prune" /\ (Translation \in todo' \/ failed')
      <3>1. phase' = "prune" /\ todo' = todo \ {o} /\ failed' = failed
        BY <2>7 DEF DeleteStale
      <3>2. CASE o = Translation
        BY <2>1, <2>2, <2>7, <3>1, <3>2, ObjectAssumption DEF DeleteStale, WriteTranslation, Translation
      <3>3. CASE o # Translation
        <4>1. translation' = translation /\ objects' = [objects EXCEPT ![o] = Nil] /\ o \in Object
          BY <2>7, <3>3 DEF DeleteStale
        <4> QED
          BY <1>2, <2>1, <2>2, <3>1, <3>3, <4>1 DEF ObjectTypes
      <3> QED
        BY <3>2, <3>3
    <2>8. ASSUME NEW o, DeleteFails(o)
          PROVE  phase' = "prune" /\ failed'
      BY <2>8 DEF DeleteFails
    <2>9. ASSUME NEW o \in Object, Judge(o)
          PROVE  /\ \A p \in Object : (objects'[p] # Nil /\ seenObjects'[p] # Nil)
                                      => phase' = "prune" /\ (p \in todo' \/ failed')
                 /\ (translation' # Nil /\ seenTranslation') => phase' = "prune" /\ (Translation \in todo' \/ failed')
      <3>1. \A p \in Object : objects'[p] # Nil => objects[p] # Nil
        BY <1>2, <2>9 DEF Judge, ObjectTypes
      <3>2. translation' = translation /\ phase' = phase /\ todo' = todo /\ failed' = failed
        BY <2>9 DEF Judge
      <3> QED
        BY <2>1, <2>2, <3>1, <3>2
    <2>10. ASSUME NEW o, SeeObject(o) \/ ApplyObject(o)
           PROVE  FALSE
      BY <1>1, <2>1, <2>3, <2>10 DEF SeeObject, ApplyObject, Shape, ServingPhases
    <2>11. ASSUME NEW x, ChangeBody(x) \/ Create(x) \/ ReportGateway(x)
           PROVE  UNCHANGED <<objects, translation, phase, todo, failed>>
      BY <2>11 DEF ChangeBody, Create, ReportGateway, Edit
    <2>12. CASE ToggleSelected \/ Delete \/ SeeGateway
      BY <2>1, <2>2, <2>12 DEF ToggleSelected, Delete, Edit, SeeGateway
    <2>13. CASE Error \/ CallFails \/ SeeIngress \/ SeeTranslation
      BY <2>13 DEF Error, CallFails, Retry, SeeIngress, SeeTranslation
    <2>14. CASE UNCHANGED vars
      BY <2>1, <2>2, <2>14 DEF vars
    <2>15. CASE UNCHANGED <<objects, translation, phase, todo, failed>>
      BY <2>1, <2>2, <2>15
    <2> QED
      BY <1>5, <2>4, <2>5, <2>6, <2>7, <2>8, <2>9, <2>10, <2>11, <2>12, <2>13, <2>14, <2>15
      DEF Next, Environment, Informers, Reconcile, AtRest
  <1> QED
    BY <1>3, <1>4, <1>5

\* A release that nobody interrupts takes the finalizer and the label.
LEMMA ReleasedStep == IInv /\ [Next]_vars => Released'
  <1> SUFFICES ASSUME IInv, [Next]_vars, ~queued', ~Live(seenIng)', phase' = "idle", seenIng' # Nil, ing' # Nil
               PROVE  /\ ~seenIng'.finalizer \/ ~ing'.finalizer
                      /\ seenIng'.label = NoLabel \/ ing'.label = NoLabel
    BY DEF Released
  <1> USE DEF cluster, caches, work, bounds
  <1>1. TypeOK /\ Shape /\ OfSeen /\ Released
    BY DEF IInv, Always, WhileSeen
  <1>2. CASE Start
    BY <1>2 DEF Start, Live
  <1>3. CASE Restart
    <2>1. ing = Nil /\ ing' = ing
      BY <1>3 DEF Restart
    <2> QED
      BY <2>1
  <1>4. CASE ~Start /\ ~Restart
    <2>1. ~queued /\ ~Live(seenIng) /\ seenIng' = seenIng
      BY <1>4, StillSeen DEF Live
    <2>2. phase = "idle" /\ ing # Nil => /\ ~seenIng.finalizer \/ ~ing.finalizer
                                         /\ seenIng.label = NoLabel \/ ing.label = NoLabel
      BY <1>1, <2>1 DEF Released
    <2>3. phase # "idle" => ~serving /\ copy = seenIng
      BY <1>1, <2>1 DEF OfSeen
    <2>4. CASE Release
      BY <1>1, <2>1, <2>3, <2>4, Releases DEF Release
    <2>5. CASE ReconcileGateway
      <3>1. ~NeedsRelease /\ copy = seenIng
        BY <2>3, <2>5 DEF ReconcileGateway
      <3> QED
        BY <2>1, <3>1 DEF NeedsRelease
    <2>6. CASE AddFinalizer \/ PatchLabel \/ Mirror \/ ListStale \/ EndPrune \/ ApplyTranslation \/ PatchStatus
      BY <1>1, <2>3, <2>6
      DEF AddFinalizer, PatchLabel, Mirror, ListStale, EndPrune, ApplyTranslation, PatchStatus, Shape, ServingPhases
    <2>7. ASSUME NEW o, SeeObject(o) \/ ApplyObject(o) \/ Judge(o) \/ DeleteStale(o) \/ DeleteFails(o)
          PROVE  UNCHANGED <<ing, phase>>
      BY <2>7 DEF SeeObject, ApplyObject, Judge, DeleteStale, DeleteFails
    <2>8. ASSUME NEW b \in Body, ChangeBody(b) \/ Create(b)
          PROVE  /\ ~seenIng'.finalizer \/ ~ing'.finalizer
                 /\ seenIng'.label = NoLabel \/ ing'.label = NoLabel
      <3>1. phase' = phase
        BY <2>8 DEF ChangeBody, Create, Edit
      <3> QED
        BY <1>1, <2>1, <2>2, <2>8, <3>1, UserEdits, Numbers
    <2>9. CASE ToggleSelected \/ Delete
      <3>1. phase' = phase
        BY <2>9 DEF ToggleSelected, Delete, Edit
      <3> QED
        BY <1>1, <2>1, <2>2, <2>9, <3>1, UserEdits, Numbers
    <2>10. ASSUME NEW g, ReportGateway(g)
           PROVE  UNCHANGED <<ing, phase>>
      BY <2>10 DEF ReportGateway, Edit
    <2>11. CASE Error \/ CallFails \/ SeeIngress \/ SeeTranslation
      BY <2>11 DEF Error, CallFails, Retry, SeeIngress, SeeTranslation
    <2>12. CASE UNCHANGED vars \/ SeeGateway
      BY <2>1, <2>2, <2>12 DEF vars, SeeGateway
    <2>13. CASE UNCHANGED <<ing, phase>>
      BY <2>1, <2>2, <2>13
    <2> QED
      BY <1>4, <2>4, <2>5, <2>6, <2>7, <2>8, <2>9, <2>10, <2>11, <2>12, <2>13
      DEF Next, Environment, Informers, Reconcile, AtRest
  <1> QED
    BY <1>2, <1>3, <1>4

-----------------------------------------------------------------------------
(***************************************************************************)
(* A selected Ingress whose latest spec the cache has.                     *)
(***************************************************************************)

\* The cache has had the latest spec since the reconciliation began, and only
\* Reconcile itself has changed the label and the address.
LEMMA StillServes ==
  ASSUME IInv, [Next]_vars, Serves', ~Start
  PROVE  /\ Serves /\ (phase # "idle" => serving)
         /\ UNCHANGED <<seenIng, seenObjects, seenGateway>>
         /\ seenIng \in Ingress /\ ing \in Ingress /\ ing' \in Ingress
         /\ ing.finalizer => ing'.finalizer
         /\ ing'.label = ing.label \/ (PatchLabel /\ Relabels /\ ing'.label = LabelFor(translation.ready))
         /\ ing'.address = ing.address \/ (Mirror /\ Readdresses /\ ing'.address = seenGateway.address)
  <1> USE DEF cluster, caches, work, bounds
  <1>1. TypeOK /\ Shape /\ OfSeen /\ Versions
    BY DEF IInv, Always, WhileSeen
  <1>2. ~queued' /\ Live(seenIng)' /\ ing' # Nil /\ SameSpec(ing', seenIng')
    BY DEF Serves, SameSpec
  <1>3. ~Restart
    BY <1>2 DEF Restart
  <1>4. /\ ~queued /\ UNCHANGED <<seenIng, seenObjects, seenTranslation>>
        /\ Live(seenIng) => seenGateway' = seenGateway
    BY <1>2, <1>3, StillSeen
  <1>5. Live(seenIng) /\ SameSpec(ing', seenIng)
    BY <1>2, <1>4 DEF Live
  <1>6. seenIng # Nil /\ (phase # "idle" => serving)
    BY <1>1, <1>4, <1>5 DEF Live, OfSeen
  <1>7. IngTypes /\ IngTypes'
    BY <1>1, IngStep, TypeParts
  <1>8. seenIng \in Ingress /\ ing' \in Ingress /\ seenGateway' = seenGateway
    BY <1>2, <1>4, <1>5, <1>6, <1>7 DEF IngTypes
  <1> DEFINE Keeps == /\ ing \in Ingress /\ SameSpec(ing', ing)
                      /\ ing.finalizer => ing'.finalizer
                      /\ ing'.label = ing.label
                         \/ (PatchLabel /\ Relabels /\ ing'.label = LabelFor(translation.ready))
                      /\ ing'.address = ing.address
                         \/ (Mirror /\ Readdresses /\ ing'.address = seenGateway.address)
  <1>9. UNCHANGED ing => Keeps
    BY <1>2, <1>7 DEF IngTypes, SameSpec
  <1>10. ASSUME NEW b \in Body, ChangeBody(b) \/ Create(b) PROVE FALSE
    <2>1. edits \in Nat /\ seenIng.uid \in Nat /\ seenIng.gen \in Nat /\ seenIng.uid <= edits
      BY <1>1, <1>6, <1>8, Numbers DEF Versions
    <2>2. ing'.uid = seenIng.uid /\ ing'.gen = seenIng.gen
      BY <1>5 DEF SameSpec
    <2>3. CASE Create(b)
      BY <1>1, <2>1, <2>2, <2>3, UserEdits
    <2>4. CASE ChangeBody(b)
      <3>1. ing \in Ingress /\ ing'.uid = ing.uid /\ ing'.gen = ing.gen + 1
        BY <1>1, <2>4, UserEdits
      <3>2. Newer(ing, seenIng) \/ SameSpec(ing, seenIng)
        BY <1>1, <1>6, <3>1, Numbers DEF Versions
      <3>3. ing.uid \in Nat /\ ing.gen \in Nat
        BY <3>1, Numbers
      <3> QED
        BY <2>1, <2>2, <3>1, <3>2, <3>3 DEF Newer, SameSpec
    <2> QED
      BY <1>10, <2>3, <2>4
  <1>11. ASSUME ToggleSelected \/ Delete PROVE Keeps
    BY <1>1, <1>2, <1>11, UserEdits
  <1>12. ASSUME AddFinalizer PROVE Keeps
    BY <1>1, <1>12, Patches
  <1>13. ASSUME PatchLabel PROVE Keeps
    <2>1. CASE Relabels
      BY <1>1, <1>13, <2>1, Patches
    <2>2. CASE ~Relabels
      BY <1>9, <1>13, <2>2 DEF PatchLabel
    <2> QED
      BY <2>1, <2>2
  <1>14. ASSUME Mirror PROVE Keeps
    <2>1. CASE Readdresses
      BY <1>1, <1>14, <2>1, Patches
    <2>2. CASE ~Readdresses
      BY <1>9, <1>14, <2>2 DEF Mirror
    <2> QED
      BY <2>1, <2>2
  <1>15. ASSUME Release PROVE Keeps
    BY <1>1, <1>6, <1>15 DEF Release, Shape
  <1>16. ASSUME ReconcileGateway \/ ListStale \/ EndPrune \/ ApplyTranslation \/ PatchStatus PROVE Keeps
    BY <1>9, <1>16 DEF ReconcileGateway, ListStale, EndPrune, ApplyTranslation, PatchStatus
  <1>17. ASSUME NEW o, ApplyObject(o) \/ DeleteStale(o) \/ DeleteFails(o) \/ SeeObject(o) \/ Judge(o)
         PROVE  UNCHANGED ing
    BY <1>17 DEF ApplyObject, DeleteStale, DeleteFails, SeeObject, Judge
  <1>18. ASSUME NEW g, ReportGateway(g) PROVE UNCHANGED ing
    BY <1>18 DEF ReportGateway
  <1>19. ASSUME SeeIngress \/ SeeTranslation \/ SeeGateway \/ Error \/ CallFails PROVE Keeps
    BY <1>9, <1>19 DEF SeeIngress, SeeTranslation, SeeGateway, Error, CallFails, Retry
  <1>20. ASSUME UNCHANGED vars PROVE Keeps
    BY <1>9, <1>20 DEF vars
  <1>21. Keeps
    BY <1>3, <1>9, <1>10, <1>11, <1>12, <1>13, <1>14, <1>15, <1>16, <1>17, <1>18, <1>19, <1>20
    DEF Next, Environment, Informers, Reconcile, AtRest
  <1>22. Serves
    <2>1. ing # Nil /\ SameSpec(ing, seenIng)
      BY <1>5, <1>21, Numbers DEF SameSpec
    <2> QED
      BY <1>4, <1>5, <2>1 DEF Serves
  <1> QED
    BY <1>4, <1>6, <1>8, <1>21, <1>22

\* The copy keeps the spec that the cache has.
LEMMA CopyStep == IInv /\ [Next]_vars /\ Serves' /\ ~Start => CopyOfSeen'
  <1> SUFFICES ASSUME IInv, [Next]_vars, Serves', ~Start PROVE CopyOfSeen'
    OBVIOUS
  <1> USE DEF cluster, caches, work, bounds
  <1>1. TypeOK /\ Shape /\ CopyOfSeen
    BY StillServes DEF IInv, Always, WhileSeen, Served
  <1>2. /\ phase # "idle" => serving
        /\ seenIng' = seenIng
        /\ ing.finalizer => ing'.finalizer
        /\ ing'.label = ing.label \/ PatchLabel
        /\ ing'.address = ing.address \/ Mirror
        /\ SameSpec(ing', seenIng)
    BY StillServes DEF Serves, SameSpec
  <1>3. /\ phase \notin {"idle", "finalizer", "mirror"} =>
               SameSpec(copy, seenIng) /\ copy.label \in {seenIng.label, ing.label}
        /\ phase \notin {"idle", "finalizer"} => copy.address \in {seenIng.address, ing.address}
        /\ phase # "finalizer" => seenIng.finalizer \/ ing.finalizer
    BY <1>1 DEF CopyOfSeen
  <1> SUFFICES /\ phase' \notin {"idle", "finalizer", "mirror"} =>
                      SameSpec(copy', seenIng) /\ copy'.label \in {seenIng.label, ing'.label}
               /\ phase' \notin {"idle", "finalizer"} => copy'.address \in {seenIng.address, ing'.address}
               /\ phase' # "finalizer" => seenIng.finalizer \/ ing'.finalizer
    BY <1>2 DEF CopyOfSeen, SameSpec
  <1>4. CASE AddFinalizer
    <2>1. copy' = ing' /\ ing'.finalizer
      BY <1>1, <1>4, Patches DEF AddFinalizer
    <2> QED
      BY <1>2, <2>1
  <1>5. CASE PatchLabel
    <2>1. phase = "label" /\ phase' \in {"idle", "mirror"} /\ (phase' = "mirror" => copy' \in {copy, ing'})
      BY <1>5 DEF PatchLabel, Return
    <2>2. ing'.address = ing.address
      BY <1>2, <2>1 DEF Mirror
    <2> QED
      BY <1>2, <1>3, <2>1, <2>2
  <1>6. CASE Mirror \/ Release
    BY <1>2, <1>3, <1>6 DEF Mirror, Release, Return
  <1>7. CASE UNCHANGED copy /\ ~PatchLabel /\ ~Mirror /\ phase \notin {"idle", "finalizer", "mirror"}
    BY <1>2, <1>3, <1>7
  <1>8. CASE UNCHANGED <<copy, phase>>
    BY <1>2, <1>3, <1>8 DEF PatchLabel, Mirror, Return
  <1>9. CASE ReconcileGateway \/ ListStale \/ EndPrune \/ ApplyTranslation \/ PatchStatus
    BY <1>2, <1>7, <1>9
    DEF ReconcileGateway, ListStale, EndPrune, ApplyTranslation, PatchStatus, PatchLabel, Mirror
  <1>10. ASSUME NEW o, ApplyObject(o) \/ DeleteStale(o) \/ DeleteFails(o) \/ SeeObject(o) \/ Judge(o)
         PROVE  UNCHANGED <<copy, phase>>
    BY <1>10 DEF ApplyObject, DeleteStale, DeleteFails, SeeObject, Judge
  <1>11. ASSUME NEW x, ChangeBody(x) \/ Create(x) \/ ReportGateway(x)
         PROVE  UNCHANGED <<copy, phase>>
    BY <1>11 DEF ChangeBody, Create, ReportGateway, Edit
  <1>12. ASSUME ToggleSelected \/ Delete \/ SeeGateway
         PROVE  UNCHANGED <<copy, phase>>
    BY <1>12 DEF ToggleSelected, Delete, Edit, SeeGateway
  <1>13. CASE SeeIngress \/ SeeTranslation \/ Error \/ CallFails
    BY <1>13 DEF SeeIngress, SeeTranslation, Error, CallFails, Retry, Serves
  <1>14. CASE Restart
    BY <1>14 DEF Restart, Serves
  <1>15. CASE UNCHANGED vars
    BY <1>8, <1>15 DEF vars
  <1> QED
    BY <1>4, <1>5, <1>6, <1>8, <1>9, <1>10, <1>11, <1>12, <1>13, <1>14, <1>15
    DEF Next, Environment, Informers, Reconcile, AtRest

\* The plan's objects are applied before the others are listed and pruned.
LEMMA ObjectsStep == IInv /\ [Next]_vars /\ Serves' /\ ~Start => ObjectsOfSeen'
  <1> SUFFICES ASSUME IInv, [Next]_vars, Serves', ~Start PROVE ObjectsOfSeen'
    OBVIOUS
  <1> USE DEF cluster, caches, work, bounds
  <1>1. TypeOK /\ Shape /\ CopyOfSeen /\ ObjectsOfSeen
    BY StillServes DEF IInv, Always, WhileSeen, Served
  <1>2. (phase # "idle" => serving) /\ UNCHANGED <<seenIng, seenObjects>> /\ seenIng \in Ingress
    BY StillServes
  <1> DEFINE planned == Objects[seenIng.body]
  <1>3. planned \subseteq Object
    BY <1>2, ObjectAssumption DEF Ingress
  <1>4. /\ phase \notin {"idle", "finalizer", "gateway"} => desired = planned
        /\ phase \notin {"finalizer", "gateway"} =>
               \A o \in planned :
                   (phase = "apply" /\ o \in todo) \/ (objects[o] # Nil /\ objects[o].body = seenIng.body)
        /\ phase = "prune" => todo \subseteq Object \ planned
        /\ phase \notin {"finalizer", "gateway", "apply"} =>
               \A o \in Object \ planned :
                   objects[o] # Nil /\ seenObjects[o] # Nil => phase = "prune" /\ (o \in todo \/ failed)
    BY <1>1 DEF ObjectsOfSeen
  <1>5. ObjectTypes /\ ObjectTypes'
    BY <1>1, ObjectStep, TypeParts
  <1> SUFFICES /\ phase' \notin {"idle", "finalizer", "gateway"} => desired' = planned
               /\ phase' \notin {"finalizer", "gateway"} =>
                      \A o \in planned :
                          (phase' = "apply" /\ o \in todo')
                          \/ (objects'[o] # Nil /\ objects'[o].body = seenIng.body)
               /\ phase' = "prune" => todo' \subseteq Object \ planned
               /\ phase' \notin {"finalizer", "gateway", "apply"} =>
                      \A o \in Object \ planned :
                          objects'[o] # Nil /\ seenObjects[o] # Nil => phase' = "prune" /\ (o \in todo' \/ failed')
    BY <1>2 DEF ObjectsOfSeen
  <1> HIDE DEF planned
  <1>6. CASE ReconcileGateway
    <2>1. phase' = "apply" /\ desired' = Objects[copy.body] /\ todo' = desired'
      BY <1>2, <1>6 DEF ReconcileGateway
    <2>2. copy.body = seenIng.body
      BY <1>1, <1>6 DEF ReconcileGateway, CopyOfSeen, SameSpec
    <2> QED
      BY <2>1, <2>2 DEF planned
  <1>7. ASSUME NEW o \in Object, ApplyObject(o)
        PROVE  /\ phase' = "apply" /\ desired' = planned
               /\ \A p \in planned : p \in todo' \/ (objects'[p] # Nil /\ objects'[p].body = seenIng.body)
    <2>1. phase = "apply" /\ phase' = "apply" /\ desired' = desired /\ todo' = todo \ {o}
      BY <1>7 DEF ApplyObject
    <2>2. copy \in Ingress /\ copy.body = seenIng.body
      BY <1>1, <2>1, TypeParts DEF CopyOfSeen, SameSpec, Shape, ServingPhases, IngTypes
    <2>3. Applied(o, copy.body) # Nil /\ Applied(o, copy.body).body = seenIng.body
      BY <1>5, <2>2, AppliedObject, Numbers DEF Ingress
    <2>4. objects' = [objects EXCEPT ![o] = Applied(o, copy.body)]
      BY <1>7 DEF ApplyObject
    <2> QED
      BY <1>3, <1>4, <1>5, <2>1, <2>3, <2>4 DEF ObjectTypes
  <1>8. CASE ListStale
    <2>1. phase = "apply" /\ todo = {} /\ phase' = "prune" /\ objects' = objects /\ desired' = desired
          /\ todo' = Listed(FALSE) \ desired
      BY <1>8 DEF ListStale
    <2>2. Listed(FALSE) = {o \in Object : seenObjects[o] # Nil}
      BY DEF Listed
    <2> QED
      BY <1>3, <1>4, <2>1, <2>2
  <1>9. ASSUME NEW o \in Object \cup {Translation}, DeleteStale(o)
        PROVE  /\ phase' = "prune" /\ desired' = planned /\ todo' \subseteq Object \ planned
               /\ \A p \in planned : objects'[p] # Nil /\ objects'[p].body = seenIng.body
               /\ \A p \in Object \ planned :
                      objects'[p] # Nil /\ seenObjects[p] # Nil => p \in todo' \/ failed'
    <2>1. phase = "prune" /\ phase' = "prune" /\ desired' = desired /\ o \in todo /\ todo' = todo \ {o}
          /\ failed' = failed
      BY <1>9 DEF DeleteStale
    <2>2. o \in Object \ planned
      BY <1>4, <2>1
    <2>3. objects' = [objects EXCEPT ![o] = Nil]
      BY <1>9, <2>2, ObjectAssumption DEF DeleteStale, Translation
    <2> QED
      BY <1>3, <1>4, <1>5, <2>1, <2>2, <2>3 DEF ObjectTypes
  <1>10. ASSUME NEW o, DeleteFails(o)
         PROVE  /\ phase = "prune" /\ phase' = "prune" /\ objects' = objects /\ desired' = desired
                /\ todo' \subseteq todo /\ failed'
    BY <1>10 DEF DeleteFails
  <1>11. ASSUME NEW o \in Object, Judge(o)
         PROVE  /\ UNCHANGED <<phase, desired, todo, failed>>
                /\ \A p \in Object : /\ objects'[p] # Nil <=> objects[p] # Nil
                                     /\ objects[p] # Nil => objects'[p].body = objects[p].body
    <2>1. UNCHANGED <<phase, desired, todo, failed>> /\ objects[o] \in Generated
      BY <1>5, <1>11 DEF Judge, ObjectTypes
    <2>2. PICK verdict \in BOOLEAN :
              objects' = [objects EXCEPT ![o] = [@ EXCEPT !.judged = objects[o].gen, !.accepted = verdict]]
      BY <1>11 DEF Judge
    <2>3. \A v \in BOOLEAN : LET j == [objects[o] EXCEPT !.judged = objects[o].gen, !.accepted = v] IN
              j \in Generated /\ j.body = objects[o].body
      BY <2>1 DEF Generated
    <2>4. objects'[o] \in Generated /\ objects'[o].body = objects[o].body
      BY <1>5, <2>2, <2>3 DEF ObjectTypes
    <2>5. \A p \in Object : p # o => objects'[p] = objects[p]
      BY <1>5, <2>2 DEF ObjectTypes
    <2> QED
      BY <2>1, <2>4, <2>5, Numbers
  <1>12. CASE EndPrune
    <2>1. phase = "prune" /\ todo = {} /\ ~failed /\ phase' = "record" /\ objects' = objects /\ desired' = desired
      BY <1>2, <1>12 DEF EndPrune
    <2> QED
      BY <1>4, <2>1
  <1>13. CASE ApplyTranslation \/ PatchStatus
    <2>1. /\ phase \in {"record", "status"} /\ phase' \in {"status", "label"}
          /\ objects' = objects /\ desired' = desired
      BY <1>13 DEF ApplyTranslation, PatchStatus
    <2> QED
      BY <1>4, <2>1
  <1>14. CASE PatchLabel
    <2>1. /\ phase = "label" /\ objects' = objects
          /\ phase' = "idle" \/ (phase' = "mirror" /\ desired' = desired)
      BY <1>14 DEF PatchLabel, Return
    <2> QED
      BY <1>4, <2>1
  <1>15. CASE Mirror \/ Release
    <2>1. phase \in {"mirror", "release"} /\ objects' = objects /\ phase' = "idle"
      BY <1>15 DEF Mirror, Release, Return
    <2> QED
      BY <1>4, <2>1
  <1>16. CASE AddFinalizer
    BY <1>16 DEF AddFinalizer
  <1>17. CASE UNCHANGED <<objects, phase, desired, todo, failed>>
    BY <1>4, <1>17
  <1>18. ASSUME NEW x, ChangeBody(x) \/ Create(x) \/ ReportGateway(x)
         PROVE  UNCHANGED <<objects, phase, desired, todo, failed>>
    BY <1>18 DEF ChangeBody, Create, ReportGateway, Edit
  <1>19. ASSUME ToggleSelected \/ Delete \/ SeeGateway
         PROVE  UNCHANGED <<objects, phase, desired, todo, failed>>
    BY <1>19 DEF ToggleSelected, Delete, Edit, SeeGateway
  <1>20. CASE SeeIngress \/ SeeTranslation \/ Error \/ CallFails \/ \E o \in Object : SeeObject(o)
    BY <1>20 DEF SeeIngress, SeeTranslation, SeeObject, Error, CallFails, Retry, Serves
  <1>21. CASE Restart
    BY <1>21 DEF Restart, Serves
  <1>22. CASE UNCHANGED vars
    BY <1>17, <1>22 DEF vars
  <1>23. CASE \E o \in Object : Judge(o)
    BY <1>3, <1>4, <1>11, <1>23
  <1>24. CASE \E o \in Object \cup {Translation} : DeleteStale(o) \/ DeleteFails(o)
    BY <1>4, <1>9, <1>10, <1>24
  <1>25. CASE \E o \in Object : ApplyObject(o)
    BY <1>7, <1>25
  <1> QED
    BY <1>6, <1>8, <1>12, <1>13, <1>14, <1>15, <1>16, <1>17, <1>18, <1>19, <1>20, <1>21, <1>22, <1>23, <1>24, <1>25
    DEF Next, Environment, Informers, Reconcile, AtRest

\* What Reconcile writes about those objects is what the caches have of them.
LEMMA ReportStep == IInv /\ [Next]_vars /\ Serves' /\ ~Start => ReportOfSeen'
  <1> SUFFICES ASSUME IInv, [Next]_vars, Serves', ~Start PROVE ReportOfSeen'
    OBVIOUS
  <1> USE DEF cluster, caches, work, bounds
  <1>1. TypeOK /\ Shape /\ CopyOfSeen /\ ObjectsOfSeen /\ ReportOfSeen
    BY StillServes DEF IInv, Always, WhileSeen, Served
  <1>2. /\ (phase # "idle" => serving) /\ UNCHANGED <<seenIng, seenObjects, seenGateway>>
        /\ ing'.label = ing.label \/ (PatchLabel /\ Relabels /\ ing'.label = LabelFor(translation.ready))
        /\ ing'.address = ing.address \/ (Mirror /\ Readdresses /\ ing'.address = seenGateway.address)
    BY StillServes
  <1>3. ReadyOfSeen' = ReadyOfSeen
    BY <1>2 DEF ReadyOfSeen, ReadyStatus, GeneratedReady
  <1> DEFINE ready == ReadyOfSeen
  <1>4. /\ phase \in {"status", "label", "mirror", "idle"} => translation # Nil /\ translation.uid = seenIng.uid
        /\ phase \in {"label", "mirror", "idle"} => translation.observed = seenIng.gen /\ translation.ready = ready
        /\ phase \in {"mirror", "idle"} => LabelFor(ready) \in {seenIng.label, ing.label}
        /\ phase = "idle" /\ ready = "True" /\ seenGateway.address # NoAddress =>
               seenGateway.address \in {seenIng.address, ing.address}
    BY <1>1 DEF ReportOfSeen
  <1> SUFFICES
        /\ phase' \in {"status", "label", "mirror", "idle"} => translation' # Nil /\ translation'.uid = seenIng.uid
        /\ phase' \in {"label", "mirror", "idle"} => translation'.observed = seenIng.gen /\ translation'.ready = ready
        /\ phase' \in {"mirror", "idle"} => LabelFor(ready) \in {seenIng.label, ing'.label}
        /\ phase' = "idle" /\ ready = "True" /\ seenGateway.address # NoAddress =>
               seenGateway.address \in {seenIng.address, ing'.address}
    BY <1>2, <1>3 DEF ReportOfSeen
  <1> HIDE DEF ready
  <1>5. CASE ApplyTranslation
    <2>1. phase = "record" /\ phase' = "status"
      BY <1>5 DEF ApplyTranslation
    <2>2. copy.uid = seenIng.uid
      BY <1>1, <2>1 DEF CopyOfSeen, SameSpec
    <2> QED
      BY <1>1, <1>5, <2>1, <2>2, Reports, Numbers
  <1>6. CASE PatchStatus
    <2>1. phase = "status" /\ phase' = "label"
      BY <1>6 DEF PatchStatus
    <2>2. copy.gen = seenIng.gen /\ desired = Objects[seenIng.body]
      BY <1>1, <2>1 DEF CopyOfSeen, ObjectsOfSeen, SameSpec
    <2>3. ReadyStatus(desired, seenObjects, seenGateway) = ready
      BY <2>2 DEF ready, ReadyOfSeen
    <2> QED
      BY <1>1, <1>4, <1>6, <2>1, <2>2, <2>3, Reports, Numbers
  <1>7. CASE PatchLabel
    <2>1. phase = "label" /\ phase' \in {"idle", "mirror"} /\ translation' = translation
          /\ (phase' = "idle" => desired = {})
      BY <1>7 DEF PatchLabel, Return
    <2>2. LabelFor(ready) \in {seenIng.label, ing'.label}
      <3>1. CASE Relabels
        BY <1>1, <1>4, <1>7, <2>1, <3>1, Patches
      <3>2. CASE ~Relabels
        BY <1>1, <1>2, <1>4, <2>1, <3>2 DEF Relabels, CopyOfSeen
      <3> QED
        BY <3>1, <3>2
    <2>3. desired = {} => ready # "True"
      BY <1>1, <2>1 DEF ready, ReadyOfSeen, ReadyStatus, ObjectsOfSeen
    <2> QED
      BY <1>4, <2>1, <2>2, <2>3
  <1>8. CASE Mirror
    <2>1. phase = "mirror" /\ phase' = "idle" /\ translation' = translation
      BY <1>8 DEF Mirror, Return
    <2>2. ing'.label = ing.label
      BY <1>2, <2>1 DEF PatchLabel
    <2>3. ready = "True" => GeneratedReady(desired, seenObjects, seenGateway) = "True"
      BY <1>1, <2>1 DEF ready, ReadyOfSeen, ReadyStatus, ObjectsOfSeen
    <2>4. ready = "True" /\ seenGateway.address # NoAddress =>
              seenGateway.address \in {seenIng.address, ing'.address}
      <3>1. CASE Readdresses
        BY <1>1, <1>8, <3>1, Patches
      <3>2. CASE ~Readdresses
        BY <1>1, <1>2, <2>1, <2>3, <3>2 DEF Readdresses, CopyOfSeen
      <3> QED
        BY <3>1, <3>2
    <2> QED
      BY <1>4, <2>1, <2>2, <2>4
  <1>9. CASE AddFinalizer \/ ReconcileGateway \/ ListStale \/ EndPrune
    BY <1>2, <1>9 DEF AddFinalizer, ReconcileGateway, ListStale, EndPrune
  <1>10. CASE Release
    BY <1>1, <1>2, <1>10 DEF Release, Shape
  <1>11. ASSUME NEW o, ApplyObject(o) \/ DeleteStale(o) \/ DeleteFails(o)
         PROVE  phase' \in {"apply", "prune"}
    BY <1>11 DEF ApplyObject, DeleteStale, DeleteFails
  <1>12. CASE UNCHANGED <<translation, phase>> /\ ~PatchLabel /\ ~Mirror
    BY <1>2, <1>4, <1>12
  <1>13. ASSUME UNCHANGED phase PROVE ~PatchLabel /\ ~Mirror
    BY <1>13 DEF PatchLabel, Mirror, Return
  <1>14. ASSUME NEW o, Judge(o)
         PROVE  UNCHANGED <<translation, phase>>
    BY <1>14 DEF Judge
  <1>15. ASSUME NEW x, ChangeBody(x) \/ Create(x) \/ ReportGateway(x)
         PROVE  UNCHANGED <<translation, phase>>
    BY <1>15 DEF ChangeBody, Create, ReportGateway, Edit
  <1>16. ASSUME ToggleSelected \/ Delete \/ SeeGateway
         PROVE  UNCHANGED <<translation, phase>>
    BY <1>16 DEF ToggleSelected, Delete, Edit, SeeGateway
  <1>17. CASE SeeIngress \/ SeeTranslation \/ Error \/ CallFails \/ \E o \in Object : SeeObject(o)
    BY <1>17 DEF SeeIngress, SeeTranslation, SeeObject, Error, CallFails, Retry, Serves
  <1>18. CASE Restart
    BY <1>18 DEF Restart, Serves
  <1>19. CASE UNCHANGED vars
    BY <1>12, <1>13, <1>19 DEF vars
  <1> QED
    BY <1>5, <1>6, <1>7, <1>8, <1>9, <1>10, <1>11, <1>12, <1>13, <1>14, <1>15, <1>16, <1>17, <1>18, <1>19
    DEF Next, Environment, Informers, Reconcile, AtRest

\* A reconciliation begins with what the cache has.
LEMMA StartServes == IInv /\ Start /\ Serves' => (CopyOfSeen /\ ObjectsOfSeen /\ ReportOfSeen)'
  <1> SUFFICES ASSUME Start, Serves' PROVE (CopyOfSeen /\ ObjectsOfSeen /\ ReportOfSeen)'
    OBVIOUS
  <1>1. /\ UNCHANGED <<ing, seenIng>> /\ copy' = seenIng
        /\ phase' = IF ~seenIng.finalizer THEN "finalizer" ELSE "gateway"
    BY DEF Start, Serves, Live, cluster, caches
  <1>2. CopyOfSeen'
    BY <1>1 DEF CopyOfSeen, SameSpec
  <1>3. ObjectsOfSeen' /\ ReportOfSeen'
    BY <1>1 DEF ObjectsOfSeen, ReportOfSeen
  <1> QED
    BY <1>2, <1>3

-----------------------------------------------------------------------------
(***************************************************************************)
(* The theorems.                                                           *)
(***************************************************************************)

\* IInv is inductive.
LEMMA StepInvariant == IInv /\ [Next]_vars => IInv'
  <1> SUFFICES ASSUME IInv, [Next]_vars PROVE IInv'
    OBVIOUS
  <1>1. TypeOK /\ Shape /\ Always
    BY DEF IInv, Always
  <1>2. TypeOK'
    BY <1>1, IngStep, ObjectStep, StatusStep, FlagStep, WorkStep, BoundStep
    DEF TypeOK, IngTypes, ObjectTypes, StatusTypes, FlagTypes, WorkTypes, BoundTypes
  <1>3. Always'
    BY <1>1, AlwaysStep
  <1>4. Served'
    BY CopyStep, ObjectsStep, ReportStep, StartServes DEF Served
  <1>5. WhileSeen'
    BY <1>4, OfSeenStep, ListedStep, PrunedStep, ReleasedStep DEF WhileSeen
  <1> QED
    BY <1>2, <1>3, <1>5 DEF IInv

\* What holds between the caches, the reconciliation and the cluster, whoever
\* edits, fails or dies.
THEOREM InductiveInvariant == Spec => []IInv
  <1>1. Init => IInv
    <2>1. Init => queued
      BY DEF Init
    <2> QED
      BY <2>1, InitTypes, InitAlways, QueuedSeesNothing DEF IInv, Always
  <1> QED
    BY <1>1, StepInvariant, PTL DEF Spec

\* The state of Reconcile keeps its types; no copy that a phase works on is
\* missing.
THEOREM TypeCorrect == Spec => []TypeOK
  <1>1. IInv => TypeOK
    BY DEF IInv
  <1> QED
    BY <1>1, InductiveInvariant, PTL

\* At rest, nothing is left of an Ingress that was deleted or is not selected:
\* no object, no IngressTranslation, no listener, no finalizer and no label.
THEOREM NothingLeft == Spec => []QuietReleased
  <1>1. IInv => QuietReleased
    <2> SUFFICES ASSUME IInv, Quiet, ~Live(ing)
                 PROVE  /\ \A o \in Object : objects[o] = Nil
                        /\ translation = Nil /\ ~listed
                        /\ ing # Nil => ~ing.finalizer /\ ~ing.deleting /\ ing.label = NoLabel
      BY DEF QuietReleased
    <2>1. /\ phase = "idle" /\ ~queued /\ ~unseen
          /\ seenIng = ing /\ seenObjects = objects
      BY DEF Quiet
    <2>2. Held /\ CacheKnows /\ Pruned /\ ListedAsSeen /\ Released
      BY DEF IInv, Always, WhileSeen
    <2>3. \A o \in Object : objects[o] = Nil
      BY <2>1, <2>2 DEF Pruned
    <2>4. translation = Nil
      BY <2>1, <2>2 DEF Pruned, CacheKnows
    <2>5. ~listed
      BY <2>1, <2>2 DEF ListedAsSeen, GatewayDone
    <2>6. ing # Nil => ~ing.finalizer /\ ing.label = NoLabel
      BY <2>1, <2>2 DEF Released
    <2>7. ing # Nil => ~ing.deleting
      BY <2>2, <2>6 DEF Held
    <2> QED
      BY <2>3, <2>4, <2>5, <2>6, <2>7
  <1> QED
    BY <1>1, InductiveInvariant, PTL

\* At rest with a selected Ingress, the cache has its latest spec.
LEMMA QuietIsServed == IInv /\ Quiet /\ Live(ing) => CopyOfSeen /\ ObjectsOfSeen /\ ReportOfSeen
  BY DEF IInv, WhileSeen, Served, Serves, Quiet, Live, SameSpec

\* At rest, a selected Ingress has its finalizer, its listeners and exactly the
\* objects of its plan with their latest content.
THEOREM ServedExactly == Spec => []QuietServes
  <1>1. IInv => QuietServes
    <2> SUFFICES ASSUME IInv, Quiet, Live(ing)
                 PROVE  /\ ing.finalizer /\ listed
                        /\ \A o \in Object :
                              IF o \in Objects[ing.body] THEN objects[o] # Nil /\ objects[o].body = ing.body
                              ELSE objects[o] = Nil
      BY DEF QuietServes
    <2>1. phase = "idle" /\ ~queued /\ seenIng = ing /\ seenObjects = objects
      BY DEF Quiet
    <2>2. CopyOfSeen /\ ObjectsOfSeen /\ ListedAsSeen
      BY QuietIsServed DEF IInv, WhileSeen
    <2>3. ing.finalizer /\ listed
      BY <2>1, <2>2 DEF CopyOfSeen, ListedAsSeen, GatewayDone
    <2>4. ASSUME NEW o \in Objects[ing.body]
          PROVE  objects[o] # Nil /\ objects[o].body = ing.body
      BY <2>1, <2>2 DEF ObjectsOfSeen
    <2>5. ASSUME NEW o \in Object \ Objects[ing.body]
          PROVE  objects[o] = Nil
      BY <2>1, <2>2 DEF ObjectsOfSeen
    <2> QED
      BY <2>3, <2>4, <2>5
  <1> QED
    BY <1>1, InductiveInvariant, PTL

\* At rest, the IngressTranslation, the label and the mirrored address of a
\* selected Ingress are what NGF says of those objects and of the Gateway.
THEOREM ReportedTruly == Spec => []QuietReports
  <1>1. IInv => QuietReports
    <2> DEFINE ready == ReadyStatus(Objects[ing.body], objects, gateway)
    <2> SUFFICES ASSUME IInv, Quiet, Live(ing)
                 PROVE  /\ translation = [uid |-> ing.uid, observed |-> ing.gen, ready |-> ready]
                        /\ ing.label = LabelFor(ready)
                        /\ ready = "True" /\ gateway.address # NoAddress => ing.address = gateway.address
      BY DEF QuietReports
    <2>1. phase = "idle" /\ seenIng = ing /\ seenObjects = objects /\ seenGateway = gateway
      BY DEF Quiet
    <2>2. ReportOfSeen /\ StatusTypes
      BY QuietIsServed, TypeParts DEF IInv
    <2>3. ReadyOfSeen = ready
      BY <2>1 DEF ReadyOfSeen
    <2> HIDE DEF ready
    <2>4. /\ translation \in Record /\ translation.uid = ing.uid /\ translation.observed = ing.gen
          /\ translation.ready = ready
      BY <2>1, <2>2, <2>3 DEF ReportOfSeen, StatusTypes
    <2>5. translation = [uid |-> ing.uid, observed |-> ing.gen, ready |-> ready]
      BY <2>4 DEF Record
    <2>6. /\ ing.label = LabelFor(ready)
          /\ ready = "True" /\ gateway.address # NoAddress => ing.address = gateway.address
      BY <2>1, <2>2, <2>3 DEF ReportOfSeen
    <2> QED
      BY <2>5, <2>6
  <1> QED
    BY <1>1, InductiveInvariant, PTL

=============================================================================
