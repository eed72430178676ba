------------------------- MODULE ManagedGatewayProofs -------------------------
(***************************************************************************)
(* Proofs about reconcileManagedGateway for any number of hostnames,       *)
(* Secrets, ListenerSets, edits, failures and restarts.                    *)
(*                                                                         *)
(* They hold whatever plan BuildManagedGateway returns: only the order of  *)
(* the API calls, what each reads and what it does with the committed      *)
(* placements matter, so the definition of the plan is never expanded.     *)
(***************************************************************************)
EXTENDS ManagedGateway, TLAPS

Applying == {"sets", "pruneSets", "pruneGrants"}

Sets == Parent \ {GatewayParent}

\* The shape of the state: the cluster has a listener list for each parent.
Shape ==
    /\ listeners = [i \in Parent |-> listeners[i]]
    /\ seenSets \subseteq Sets

\* Grants are applied before the Gateway, the Gateway before the rest.
GrantsFirst ==
    /\ phase = "grants" => Grants(placements) \ todo \subseteq grants
    /\ phase \in Applying => /\ Grants(placements) \subseteq grants
                             /\ listeners[GatewayParent] = Desired(placements, GatewayParent)

\* What a phase still has to handle is what the plan says of its objects.
TodoPlanned ==
    /\ phase = "sets" => todo \subseteq UsedSets(placements)
    /\ phase = "pruneSets" => todo \subseteq Sets \ UsedSets(placements)
    /\ phase = "pruneGrants" => todo \cap Grants(placements) = {}

IInv == Shape /\ GrantsFirst /\ TodoPlanned /\ GatewayGranted

-----------------------------------------------------------------------------
(***************************************************************************)
(* Facts about the plan's listeners.                                       *)
(***************************************************************************)

\* The Gateway is one of the parents.
LEMMA GatewayIsParent == GatewayParent \in Parent
  BY CapacityAssumption DEF GatewayParent, Parent

\* A listener the plan wants under a Secret of another namespace has a grant
\* among those of the plan.
LEMMA DesiredGranted ==
  ASSUME NEW p, NEW i, NEW h \in Host,
         Desired(p, i)[h] \notin LocalSecret \cup {NoSecret}
  PROVE  Desired(p, i)[h] \in Grants(p)
  BY DEF Desired, Grants, NoSecret

\* The ListenerSets a plan uses are ListenerSets.
LEMMA UsedAreSets == \A p : UsedSets(p) \subseteq Sets
  BY DEF UsedSets, Sets

\* No listener is wanted on a ListenerSet that the plan does not use.
LEMMA UnusedWantsNothing ==
  ASSUME NEW p, NEW i \in Sets \ UsedSets(p)
  PROVE  Desired(p, i) = NoListeners
  BY DEF UsedSets, Sets

-----------------------------------------------------------------------------
(***************************************************************************)
(* Grants before listeners: IInv is inductive.                             *)
(***************************************************************************)

\* The bridge starts with an empty cluster.
LEMMA InitInvariant == Init => IInv
  <1> SUFFICES ASSUME Init PROVE IInv
    OBVIOUS
  <1>1. Shape
    BY DEF Init, Shape
  <1>2. GrantsFirst /\ TodoPlanned
    BY DEF Init, GrantsFirst, TodoPlanned, Applying
  <1>3. GatewayGranted
    BY GatewayIsParent DEF Init, GatewayGranted, NoListeners
  <1> QED
    BY <1>1, <1>2, <1>3 DEF IInv

\* Whatever leaves the cluster and the reconciliation's own state alone.
LEMMA OthersKeep ==
  ASSUME IInv, UNCHANGED <<listeners, grants, placements, phase, todo>>,
         seenSets' \subseteq Sets
  PROVE  IInv'
  BY DEF IInv, Shape, GrantsFirst, TodoPlanned, GatewayGranted, Desired, UsedSets, Grants, Applying, Sets

\* A reconciliation that ends, whether it fails, dies or is yet to plan,
\* leaves no obligation but the cluster's.
LEMMA RestKeeps ==
  ASSUME IInv, UNCHANGED <<listeners, grants>>, seenSets' \subseteq Sets,
         phase' \in {"idle", "certificates", "plan"}
  PROVE  IInv'
  BY DEF IInv, Shape, GrantsFirst, TodoPlanned, GatewayGranted, Applying

\* No step puts the Gateway's listeners ahead of their grants.
LEMMA StepInvariant == IInv /\ [Next]_vars => IInv'
  <1> SUFFICES ASSUME IInv, [Next]_vars PROVE IInv'
    OBVIOUS
  <1> USE DEF calls, memory, bounds, cluster
  <1>sets. Existing \subseteq Sets /\ seenSets \subseteq Sets
    BY DEF IInv, Shape, Existing, Sets
  <1>1. CASE Environment
    BY <1>1, <1>sets, OthersKeep
    DEF Environment, PutIngress, DropIngress, EditIngresses, ChangeSecret
  <1>2. CASE SettleDelayEnds \/ SeeSets \/ SeeGrants
    BY <1>2, <1>sets, OthersKeep DEF SettleDelayEnds, SeeSets, SeeGrants
  <1>3. CASE (\E r \in {Replan, Sync} : Start(r)) \/ ReadCertificates \/ Finish
    BY <1>3, <1>sets, RestKeeps DEF Start, ReadCertificates, Finish
  <1>4. CASE CommitPlan
    BY <1>4 DEF CommitPlan, IInv, Shape, GrantsFirst, TodoPlanned, GatewayGranted, Applying
  <1>5. ASSUME NEW k \in Secret, ApplyGrant(k)
        PROVE  IInv'
    BY <1>5 DEF ApplyGrant, IsNext, IInv, Shape, GrantsFirst, TodoPlanned, GatewayGranted, Applying
  <1>6. CASE ApplyGateway
    <2>1. listeners' = [listeners EXCEPT ![GatewayParent] = Desired(placements, GatewayParent)]
          /\ grants' = grants /\ placements' = placements /\ seenSets' = seenSets
          /\ phase' = "sets" /\ todo' = UsedSets(placements)
          /\ Grants(placements) \subseteq grants
      BY <1>6 DEF ApplyGateway, IInv, GrantsFirst
    <2>2. listeners'[GatewayParent] = Desired(placements, GatewayParent)
      BY <2>1, GatewayIsParent DEF IInv, Shape
    <2>3. Shape' /\ GrantsFirst' /\ TodoPlanned'
      BY <2>1, <2>2 DEF IInv, Shape, GrantsFirst, TodoPlanned, Applying
    <2>4. GatewayGranted'
      BY <2>1, <2>2, DesiredGranted DEF GatewayGranted
    <2> QED
      BY <2>3, <2>4 DEF IInv
  <1>7. ASSUME NEW i \in Parent, ApplyListenerSet(i)
        PROVE  IInv'
    <2>1. i \in Sets /\ i # GatewayParent
      BY <1>7, UsedAreSets DEF ApplyListenerSet, IsNext, IInv, TodoPlanned, Sets
    <2>2. listeners'[GatewayParent] = listeners[GatewayParent]
      BY <1>7, <2>1, GatewayIsParent DEF ApplyListenerSet, IInv, Shape
    <2> QED
      BY <1>7, <2>2 DEF ApplyListenerSet, IInv, Shape, GrantsFirst, TodoPlanned, GatewayGranted, Applying
  <1>8. CASE ListListenerSets
    BY <1>8, <1>sets DEF ListListenerSets, IInv, Shape, GrantsFirst, TodoPlanned, GatewayGranted, Applying
  <1>9. ASSUME NEW i \in Parent, DeleteListenerSet(i)
        PROVE  IInv'
    <2>1. i # GatewayParent
      BY <1>9 DEF DeleteListenerSet, IInv, TodoPlanned, Sets
    <2>2. listeners'[GatewayParent] = listeners[GatewayParent]
      BY <1>9, <2>1, GatewayIsParent DEF DeleteListenerSet, IInv, Shape
    <2> QED
      BY <1>9, <2>2 DEF DeleteListenerSet, IInv, Shape, GrantsFirst, TodoPlanned, GatewayGranted, Applying
  <1>10. CASE ListGrants
    BY <1>10 DEF ListGrants, IInv, Shape, GrantsFirst, TodoPlanned, GatewayGranted, Applying
  <1>11. ASSUME NEW k \in Secret, DeleteGrant(k)
         PROVE  IInv'
    <2>1. k \notin Grants(placements) /\ Grants(placements) \subseteq grants'
      BY <1>11 DEF DeleteGrant, IInv, TodoPlanned, GrantsFirst, Applying
    <2>2. listeners[GatewayParent] = Desired(placements, GatewayParent)
          /\ listeners' = listeners
      BY <1>11 DEF DeleteGrant, IInv, GrantsFirst, Applying
    <2>3. GatewayGranted'
      BY <2>1, <2>2, DesiredGranted DEF GatewayGranted
    <2> QED
      BY <1>11, <2>1, <2>3 DEF DeleteGrant, IInv, Shape, GrantsFirst, TodoPlanned, Applying
  <1>12. CASE Fail
    BY <1>12, <1>sets, RestKeeps DEF Fail
  <1>13. CASE Restart
    BY <1>13, <1>sets, RestKeeps DEF Restart
  <1>14. CASE UNCHANGED vars
    BY <1>14, <1>sets, OthersKeep DEF vars
  <1> QED
    BY <1>1, <1>2, <1>3, <1>4, <1>5, <1>6, <1>7, <1>8, <1>9, <1>10, <1>11, <1>12, <1>13, <1>14
    DEF Next, Reconcile, AtRest

\* The order of the calls is an invariant of every behaviour.
THEOREM InductiveInvariant == Spec => []IInv
  BY InitInvariant, StepInvariant, PTL DEF Spec

\* The Gateway never names a foreign Secret without its grant, wherever a
\* reconciliation fails or the process dies.
THEOREM GrantsCoverGateway == Spec => []GatewayGranted
  BY InductiveInvariant, PTL DEF IInv

\* Nor do the ListenerSets of the plan being applied.
THEOREM GrantsCoverSets == Spec => []PlannedSetsGranted
  <1>1. IInv => PlannedSetsGranted
    <2> SUFFICES ASSUME IInv, phase \in Applying,
                        NEW i \in Parent, listeners[i] = Desired(placements, i),
                        NEW h \in Host, listeners[i][h] \notin LocalSecret \cup {NoSecret}
                 PROVE  listeners[i][h] \in grants
      BY DEF PlannedSetsGranted, Applying
    <2> QED
      BY DesiredGranted DEF IInv, GrantsFirst
  <1> QED
    BY <1>1, InductiveInvariant, PTL

-----------------------------------------------------------------------------
(***************************************************************************)
(* No call takes away what the committed plan wants: a parent is replaced  *)
(* by what the plan wants there, or emptied when the plan wants nothing.   *)
(***************************************************************************)
THEOREM WantedListenersStay == Spec => NeverRemovesWanted
  <1> DEFINE Wanted(h) == placements'[h].parent \in Parent
                          /\ listeners[placements'[h].parent][h] = placements'[h].secret
             Stays(h)  == listeners'[placements'[h].parent][h] = placements'[h].secret
  <1>1. IInv /\ [Next]_vars => [bootstrapped' => \A h \in Host : Wanted(h) => Stays(h)]_vars
    <2> SUFFICES ASSUME IInv, [Next]_vars, bootstrapped', NEW h \in Host, Wanted(h)
                 PROVE  Stays(h)
      OBVIOUS
    <2> USE DEF calls, memory, bounds, cluster
    <2>1. CASE listeners' = listeners
      BY <2>1
    <2>2. ASSUME NEW i \in Parent, placements' = placements,
                 listeners' = [listeners EXCEPT ![i] = Desired(placements, i)]
          PROVE  Stays(h)
      <3>1. CASE placements[h].parent = i
        BY <2>2, <3>1 DEF IInv, Shape, Desired
      <3>2. CASE placements[h].parent # i
        BY <2>2, <3>2 DEF IInv, Shape
      <3> QED
        BY <3>1, <3>2
    <2>3. CASE ApplyGateway
      BY <2>2, <2>3, GatewayIsParent DEF ApplyGateway
    <2>4. ASSUME NEW i \in Parent, ApplyListenerSet(i)
          PROVE  Stays(h)
      BY <2>2, <2>4 DEF ApplyListenerSet
    <2>5. ASSUME NEW i \in Parent, DeleteListenerSet(i)
          PROVE  Stays(h)
      <3>1. Desired(placements, i) = NoListeners
        BY <2>5, UnusedWantsNothing DEF DeleteListenerSet, IInv, TodoPlanned
      <3> QED
        BY <2>2, <2>5, <3>1 DEF DeleteListenerSet
    <2> HIDE DEF Wanted, Stays
    <2>6. CASE Environment \/ SettleDelayEnds \/ SeeSets \/ SeeGrants \/ Fail \/ Restart \/ AtRest
      BY <2>1, <2>6
      DEF Environment, PutIngress, DropIngress, EditIngresses, ChangeSecret, SettleDelayEnds,
          SeeSets, SeeGrants, Fail, Restart, AtRest, vars
    <2>7. CASE Reconcile
      BY <2>1, <2>3, <2>4, <2>5, <2>7
      DEF Reconcile, Start, ReadCertificates, CommitPlan, ApplyGrant, ListListenerSets, ListGrants,
          DeleteGrant, Finish
    <2>8. CASE UNCHANGED vars
      BY <2>1, <2>8 DEF vars
    <2> QED
      BY <2>6, <2>7, <2>8 DEF Next
  <1> QED
    BY <1>1, InductiveInvariant, PTL DEF Spec, NeverRemovesWanted

-----------------------------------------------------------------------------
(***************************************************************************)
(* Nothing is left behind.  With the ListenerSet API installed, a          *)
(* reconciliation that runs while no request is queued has applied,        *)
(* at each phase, all that comes before it: what the informers do not show *)
(* yet will bring a request when they do.                                  *)
(***************************************************************************)
Leftover == Existing \ UsedSets(placements)

GatewayDone == listeners[GatewayParent] = Desired(placements, GatewayParent)
SetsDone    == \A i \in UsedSets(placements) : listeners[i] = Desired(placements, i)
GrantsDone  == Grants(placements) \subseteq grants

Progress ==
    /\ phase = "sets" => \A i \in UsedSets(placements) \ todo : listeners[i] = Desired(placements, i)
    /\ phase \in {"pruneSets", "pruneGrants"} => SetsDone
    /\ queue = {} =>
        /\ phase = "pruneSets" => Leftover \cap seenSets \subseteq todo
        /\ phase = "pruneGrants" => /\ Leftover \cap seenSets = {}
                                    /\ (grants \cap seenGrants) \ Grants(placements) \subseteq todo
        /\ phase = "idle" => /\ GatewayDone /\ SetsDone /\ GrantsDone
                             /\ Leftover \cap seenSets = {}
                             /\ (grants \cap seenGrants) \subseteq Grants(placements)

\* Every step keeps what the phases before it have applied.
LEMMA StepProgress ==
  ASSUME Overflow, IInv, Progress, [Next]_vars
  PROVE  Progress'
  <1> USE DEF calls, memory, bounds, cluster
  <1>fresh. ASSUME phase' \in {"certificates", "plan", "grants"}
            PROVE  Progress'
    BY <1>fresh DEF Progress
  <1>queued. ASSUME queue' # {}, UNCHANGED <<listeners, placements, phase, todo>>
             PROVE  Progress'
    BY <1>queued DEF Progress, SetsDone, UsedSets, Desired
  <1>same. ASSUME UNCHANGED <<listeners, grants, placements, phase, todo, queue, seenSets, seenGrants>>
           PROVE  Progress'
    BY <1>same DEF Progress, SetsDone, GatewayDone, GrantsDone, Leftover, Existing, UsedSets, Desired, Grants
  <1>1. CASE Environment
    BY <1>1, <1>queued, <1>same
    DEF Environment, PutIngress, DropIngress, EditIngresses, ChangeSecret
  <1>2. CASE SettleDelayEnds \/ SeeSets \/ SeeGrants
    BY <1>2, <1>queued DEF SettleDelayEnds, SeeSets, SeeGrants
  <1>3. CASE (\E r \in {Replan, Sync} : Start(r)) \/ ReadCertificates \/ CommitPlan
    BY <1>3, <1>fresh DEF Start, ReadCertificates, CommitPlan
  <1>4. ASSUME NEW k \in Secret, ApplyGrant(k)
        PROVE  Progress'
    BY <1>4, <1>fresh DEF ApplyGrant
  <1>5. CASE ApplyGateway
    BY <1>5 DEF ApplyGateway, Progress
  <1>6. ASSUME NEW i \in Parent, ApplyListenerSet(i)
        PROVE  Progress'
    BY <1>6 DEF ApplyListenerSet, IsNext, Progress, IInv, Shape
  <1>7. CASE ListListenerSets
    <2>1. SetsDone'
      BY <1>7 DEF ListListenerSets, Progress, SetsDone
    <2>2. (Leftover \cap seenSets \subseteq todo)'
      BY <1>7 DEF ListListenerSets, Leftover, Existing
    <2> QED
      BY <1>7, <2>1, <2>2 DEF ListListenerSets, Progress
  <1>8. ASSUME NEW i \in Parent, DeleteListenerSet(i)
        PROVE  Progress'
    <2>1. i \notin UsedSets(placements) /\ UsedSets(placements) \subseteq Parent
      BY <1>8, UsedAreSets DEF DeleteListenerSet, IInv, TodoPlanned, Sets
    <2>2. SetsDone'
      BY <1>8, <2>1 DEF DeleteListenerSet, Progress, SetsDone, IInv, Shape
    <2>3. Leftover' \subseteq Leftover \ {i}
      BY <1>8 DEF DeleteListenerSet, Leftover, Existing, IInv, Shape
    <2> QED
      BY <1>8, <2>2, <2>3 DEF DeleteListenerSet, Progress
  <1>9. CASE ListGrants
    BY <1>9 DEF ListGrants, Progress, SetsDone, Leftover, Existing
  <1>10. ASSUME NEW k \in Secret, DeleteGrant(k)
         PROVE  Progress'
    <2>1. SetsDone' /\ Leftover' = Leftover
      BY <1>10 DEF DeleteGrant, Progress, SetsDone, Leftover, Existing
    <2> QED
      BY <1>10, <2>1 DEF DeleteGrant, Progress
  <1>11. CASE Finish
    <2>1. GatewayDone' /\ SetsDone' /\ GrantsDone' /\ Leftover' = Leftover
      BY <1>11 DEF Finish, Progress, IInv, GrantsFirst, Applying, SetsDone, GatewayDone, GrantsDone, Leftover, Existing
    <2> QED
      BY <1>11, <2>1 DEF Finish, Progress
  <1>12. CASE Fail \/ Restart
    BY <1>12 DEF Fail, Restart, Progress
  <1>13. CASE UNCHANGED vars
    BY <1>13, <1>same DEF vars
  <1> QED
    BY <1>1, <1>2, <1>3, <1>4, <1>5, <1>6, <1>7, <1>8, <1>9, <1>10, <1>11, <1>12, <1>13
    DEF Next, Reconcile, AtRest

\* With the ListenerSet API installed, a controller at rest has applied its
\* plan to the letter: no listener and no grant is missing, stale or left over.
THEOREM RestMeansApplied == ASSUME Overflow PROVE Spec => []QuietIsApplied
  <1>1. Init => Progress
    BY DEF Init, Progress
  <1>2. IInv /\ Progress /\ [Next]_vars => Progress'
    BY StepProgress
  <1>3. IInv /\ Progress => QuietIsApplied
    <2> SUFFICES ASSUME IInv, Progress, Quiet PROVE Applied
      BY DEF QuietIsApplied
    <2>1. GatewayDone /\ SetsDone /\ GrantsDone /\ Leftover = {} /\ grants \subseteq Grants(placements)
      BY DEF Quiet, Progress, Leftover
    <2>2. ASSUME NEW i \in Parent
          PROVE  listeners[i] = Desired(placements, i)
      <3>1. CASE i = GatewayParent \/ i \in UsedSets(placements)
        BY <3>1, <2>1 DEF GatewayDone, SetsDone
      <3>2. CASE i \in Sets \ UsedSets(placements)
        BY <3>2, <2>1, UnusedWantsNothing DEF Leftover, Existing, Sets
      <3> QED
        BY <3>1, <3>2 DEF Sets
    <2>3. listeners = [i \in Parent |-> Desired(placements, i)]
      BY <2>2 DEF IInv, Shape
    <2> QED
      BY <2>1, <2>3 DEF Applied, GrantsDone
  <1> QED
    BY <1>1, <1>2, <1>3, InductiveInvariant, PTL DEF Spec

=============================================================================
