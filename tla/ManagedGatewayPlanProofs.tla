----------------------- MODULE ManagedGatewayPlanProofs -----------------------
(***************************************************************************)
(* Proofs about reconcileManagedGateway that turn on what a plan is: the   *)
(* placements the controller remembers and the listeners of the cluster    *)
(* are those of plans BuildManagedGateway makes, so what GatewayPlanProofs *)
(* shows of every plan holds of them, across failures and restarts.        *)
(*                                                                         *)
(* ManagedGatewayProofs has the theorems about the order of the API calls, *)
(* which hold whatever the plan is.                                        *)
(***************************************************************************)
EXTENDS ManagedGatewayProofs, GatewayPlanProofs

\* What a plan is made from has its type.
Typed == TypeOK /\ Selection(ingresses) /\ Selection(selected)

-----------------------------------------------------------------------------
(***************************************************************************)
(* Types: the placements and the observed listeners are among the inputs   *)
(* of a plan.                                                              *)
(***************************************************************************)
\* A missing entry is not a certificate: its wildcards are the blank hostname.
LEMMA UncachedIsNone == Uncached \notin CertificateInfo
  <1>1. NoHost \notin Wildcard
    BY HostAssumption DEF NoHost
  <1> QED
    BY <1>1 DEF Uncached, CertificateInfo

\* What the plan is given of the certificates.
LEMMA KnownType ==
  ASSUME certificates \in [Secret -> CertificateInfo \cup {Uncached}], NEW ings
  PROVE  Known(ings) \in [Secret -> CertificateInfo]
  <1>1. NoCertificate \in CertificateInfo
    BY DEF NoCertificate, CertificateInfo
  <1> QED
    BY <1>1 DEF Known

\* What the cluster shows of a hostname is on a parent that has its listener.
LEMMA ObservedIs ==
  ASSUME listeners \in [Parent -> [Host -> Secret \cup {NoSecret}]]
  PROVE  /\ Observed \in [Host -> Placement]
         /\ \A h \in Host : LET i == Observed[h].parent IN
               IF \E j \in Parent : Usable(j, Overflow) /\ listeners[j][h] # NoSecret
               THEN i \in Parent /\ listeners[i][h] # NoSecret /\ i # Nowhere
               ELSE i = Nowhere
  <1> DEFINE at(h) == {i \in Parent : Usable(i, Overflow) /\ listeners[i][h] # NoSecret}
             place(h) == IF at(h) = {} THEN NoPlacement
                         ELSE [parent |-> Min(at(h)), secret |-> listeners[Min(at(h))][h]]
  <1>1. Observed = [h \in Host |-> place(h)]
    BY DEF Observed
  <1>2. ASSUME NEW h \in Host, at(h) # {}
        PROVE  Min(at(h)) \in at(h)
    <2>1. at(h) \subseteq Nat
      BY CapacityAssumption DEF Parent
    <2> HIDE DEF at
    <2> QED
      BY <1>2, <2>1, MinOfNaturals
  <1>3. Nowhere \notin Parent
    BY CapacityAssumption DEF Parent, Nowhere
  <1>4. ASSUME NEW h \in Host
        PROVE  /\ place(h) \in Placement
               /\ IF at(h) # {}
                  THEN place(h).parent \in Parent /\ listeners[place(h).parent][h] # NoSecret
                       /\ place(h).parent # Nowhere
                  ELSE place(h).parent = Nowhere
    <2>1. CASE at(h) = {}
      BY <2>1 DEF NoPlacement, Placement
    <2>2. CASE at(h) # {}
      <3> DEFINE m == Min(at(h))
      <3>1. m \in Parent /\ listeners[m][h] # NoSecret
        BY <1>2, <2>2
      <3>2. listeners[m][h] \in Secret \cup {NoSecret}
        BY <3>1
      <3>3. place(h) = [parent |-> m, secret |-> listeners[m][h]]
        BY <2>2
      <3> HIDE DEF m, place, at
      <3> QED
        BY <1>3, <2>2, <3>1, <3>2, <3>3 DEF Placement
    <2> QED
      BY <2>1, <2>2
  <1>5. \A h \in Host : at(h) # {} <=> \E j \in Parent : Usable(j, Overflow) /\ listeners[j][h] # NoSecret
    OBVIOUS
  <1> HIDE DEF at, place
  <1> QED
    BY <1>1, <1>4, <1>5

\* The plan that is committed next, and what it starts from.
Planning == IF bootstrapped THEN placements ELSE Observed

\* What the next plan starts from is what BuildManagedGateway expects.
LEMMA PlanningInputs ==
  ASSUME Typed
  PROVE  PlanInputs(selected, Known(selected), Planning, Overflow)
  <1>1. Known(selected) \in [Secret -> CertificateInfo]
    BY KnownType DEF Typed, TypeOK
  <1>2. Planning \in [Host -> Placement]
    BY ObservedIs DEF Planning, Typed, TypeOK
  <1> QED
    BY <1>1, <1>2, ManagedGatewayAssumption DEF PlanInputs, Typed

\* What the plan wants on a parent are Secrets.
LEMMA DesiredType ==
  ASSUME NEW p \in [Host -> Placement], NEW i
  PROVE  Desired(p, i) \in [Host -> Secret \cup {NoSecret}]
  BY DEF Desired, Placement

\* The bridge starts with typed Ingresses and certificates.
LEMMA InitTyped == Init => Typed
  <1> SUFFICES ASSUME Init PROVE Typed
    OBVIOUS
  <1>1. Selection(ingresses)
    <2>1. PICK S \in SUBSET Source : ingresses \in [S -> UNION {Declarations[s] : s \in Source}]
      BY DEF Init
    <2>2. DOMAIN ingresses = S /\ \A s \in S : ingresses[s] \in Declarations[s]
      BY <2>1 DEF Init
    <2> QED
      BY <2>2, ManagedGatewayAssumption DEF Selection
  <1>2. Selection(selected)
    BY DEF Init, Selection, NoIngresses
  <1>3. secrets \in [Secret -> CertificateInfo]
    <2>1. secrets \in [Secret -> UNION {Infos[k] : k \in Secret}] /\ \A k \in Secret : secrets[k] \in Infos[k]
      BY DEF Init
    <2> QED
      BY <2>1, ManagedGatewayAssumption
  <1>4. listeners \in [Parent -> [Host -> Secret \cup {NoSecret}]]
    BY DEF Init, NoListeners
  <1>5. placements \in [Host -> Placement]
    BY DEF Init, NoPlacements, NoPlacement, Placement
  <1>6. certificates \in [Secret -> CertificateInfo \cup {Uncached}]
    BY DEF Init
  <1>7. edits \in 0 .. MaxEdits /\ failures \in 0 .. MaxFailures /\ restarts \in 0 .. MaxRestarts
    BY ManagedGatewayAssumption DEF Init
  <1>8. phase \in Phases /\ request \in {Replan, Sync} /\ queue \subseteq {Replan, Sync}
        /\ settling \in BOOLEAN /\ bootstrapped \in BOOLEAN
        /\ grants \subseteq Secret /\ seenGrants \subseteq Secret /\ seenSets \subseteq Parent \ {GatewayParent}
    BY DEF Init, Phases
  <1> QED
    BY <1>1, <1>2, <1>3, <1>4, <1>5, <1>6, <1>7, <1>8 DEF Typed, TypeOK, Selection

\* Every step keeps the types.
LEMMA StepTyped == Typed /\ [Next]_vars => Typed'
  <1> SUFFICES ASSUME Typed, [Next]_vars PROVE Typed'
    OBVIOUS
  <1> USE DEF calls, memory, bounds, cluster
  <1>existing. Existing \subseteq Parent \ {GatewayParent}
    BY DEF Existing
  <1>1. ASSUME NEW new, EditIngresses(new), Selection(new)
        PROVE  Typed'
    <2>1. edits' \in 0 .. MaxEdits
      BY <1>1, ManagedGatewayAssumption DEF EditIngresses, Typed, TypeOK
    <2>2. Selection(ingresses') /\ DOMAIN ingresses' \subseteq Source
      BY <1>1 DEF EditIngresses, Selection
    <2> QED
      BY <1>1, <2>1, <2>2 DEF EditIngresses, Typed, TypeOK
  <1>2. ASSUME NEW s \in Source, PutIngress(s)
        PROVE  Typed'
    <2>1. PICK d \in Declarations[s] :
             EditIngresses([t \in DOMAIN ingresses \cup {s} |-> IF t = s THEN d ELSE ingresses[t]])
      BY <1>2 DEF PutIngress
    <2>2. IsBody(d)
      BY ManagedGatewayAssumption
    <2>3. Selection([t \in DOMAIN ingresses \cup {s} |-> IF t = s THEN d ELSE ingresses[t]])
      BY <2>2 DEF Selection, Typed
    <2> QED
      BY <1>1, <2>1, <2>3
  <1>3. ASSUME NEW s \in Source, DropIngress(s)
        PROVE  Typed'
    <2>1. Selection([t \in DOMAIN ingresses \ {s} |-> ingresses[t]])
      BY DEF Selection, Typed
    <2> QED
      BY <1>1, <1>3, <2>1 DEF DropIngress
  <1>4. ASSUME NEW k \in Secret, ChangeSecret(k)
        PROVE  Typed'
    <2>1. edits' \in 0 .. MaxEdits
      BY <1>4, ManagedGatewayAssumption DEF ChangeSecret, Typed, TypeOK
    <2>2. secrets' \in [Secret -> CertificateInfo]
      <3>1. PICK info \in Infos[k] : secrets' = [secrets EXCEPT ![k] = info]
        BY <1>4 DEF ChangeSecret
      <3> QED
        BY <3>1, ManagedGatewayAssumption DEF Typed, TypeOK
    <2>3. queue' \subseteq {Replan, Sync} /\ settling' \in BOOLEAN
      BY <1>4 DEF ChangeSecret, Typed, TypeOK
    <2> QED
      BY <1>4, <2>1, <2>2, <2>3 DEF ChangeSecret, Typed, TypeOK
  <1>5. CASE SettleDelayEnds \/ SeeSets \/ SeeGrants
    BY <1>5, <1>existing DEF SettleDelayEnds, SeeSets, SeeGrants, Typed, TypeOK
  <1>6. ASSUME NEW r \in {Replan, Sync}, Start(r)
        PROVE  Typed'
    BY <1>6 DEF Start, Typed, TypeOK, Phases
  <1>7. CASE ReadCertificates
    BY <1>7 DEF ReadCertificates, Typed, TypeOK, Phases
  <1>8. CASE CommitPlan
    <2>1. placements' \in [Host -> Placement]
      BY <1>8, PlanningInputs, PlacementsAre, ManagedGatewayAssumption DEF CommitPlan, Planning
    <2> QED
      BY <1>8, <2>1 DEF CommitPlan, Typed, TypeOK, Phases
  <1>9. ASSUME NEW k \in Secret, ApplyGrant(k) \/ DeleteGrant(k)
        PROVE  Typed'
    BY <1>9 DEF ApplyGrant, DeleteGrant, Typed, TypeOK
  <1>10. ASSUME NEW i \in Parent, NEW l \in [Host -> Secret \cup {NoSecret}], listeners' = [listeners EXCEPT ![i] = l],
                phase' \in Phases, UNCHANGED <<calls, grants>>
         PROVE  Typed'
    <2>1. listeners' \in [Parent -> [Host -> Secret \cup {NoSecret}]]
      BY <1>10 DEF Typed, TypeOK
    <2> QED
      BY <1>10, <2>1 DEF Typed, TypeOK
  <1>11. CASE ApplyGateway
    BY <1>10, <1>11, DesiredType, GatewayIsParent DEF ApplyGateway, Typed, TypeOK, Phases
  <1>12. ASSUME NEW i \in Parent, ApplyListenerSet(i)
         PROVE  Typed'
    BY <1>10, <1>12, DesiredType DEF ApplyListenerSet, Typed, TypeOK
  <1>13. ASSUME NEW i \in Parent, DeleteListenerSet(i)
         PROVE  Typed'
    <2>1. NoListeners \in [Host -> Secret \cup {NoSecret}]
      BY DEF NoListeners
    <2> QED
      BY <1>10, <1>13, <2>1 DEF DeleteListenerSet, Typed, TypeOK
  <1>14. CASE ListListenerSets \/ ListGrants \/ Finish
    BY <1>14 DEF ListListenerSets, ListGrants, Finish, Typed, TypeOK, Phases
  <1>15. CASE Fail
    <2>1. failures' \in 0 .. MaxFailures
      BY <1>15, ManagedGatewayAssumption DEF Fail, Typed, TypeOK
    <2> QED
      BY <1>15, <2>1 DEF Fail, Typed, TypeOK, Phases
  <1>16. CASE Restart
    <2>1. restarts' \in 0 .. MaxRestarts
      BY <1>16, ManagedGatewayAssumption DEF Restart, Typed, TypeOK
    <2>2. placements' \in [Host -> Placement]
      BY <1>16 DEF Restart, NoPlacements, NoPlacement, Placement
    <2>3. certificates' \in [Secret -> CertificateInfo \cup {Uncached}]
      BY <1>16 DEF Restart
    <2>4. Selection(selected')
      BY <1>16 DEF Restart, Selection, NoIngresses
    <2> QED
      BY <1>16, <1>existing, <2>1, <2>2, <2>3, <2>4 DEF Restart, Typed, TypeOK, Phases
  <1>17. CASE UNCHANGED vars
    BY <1>17 DEF vars, Typed, TypeOK
  <1> QED
    BY <1>2, <1>3, <1>4, <1>5, <1>6, <1>7, <1>8, <1>9, <1>11, <1>12, <1>13, <1>14, <1>15, <1>16, <1>17
    DEF Next, Reconcile, Environment, AtRest

\* The types and the plan in memory are right in every reachable state.
LEMMA AlwaysTyped == Spec => []Typed
  BY InitTyped, StepTyped, PTL DEF Spec

\* Every variable keeps its type: the placements of any plan, and those read
\* back from the cluster, are places of listeners and their Secrets.
THEOREM TypeCorrect == Spec => []TypeOK
  BY AlwaysTyped, PTL DEF Typed

-----------------------------------------------------------------------------
(***************************************************************************)
(* A restart reads back from the cluster what a plan put there, and the    *)
(* next plan starts from it.  Each parent carries no more listeners than   *)
(* it takes, because what is written to it is what one plan wants on it;   *)
(* so the plan has no reason to move any.                                  *)
(***************************************************************************)
Carried(i) == {h \in Host : listeners[i][h] # NoSecret}

CarriesWhatFits ==
    /\ Fits(ParentsOf(placements), Overflow)
    /\ \A i \in Parent : /\ Cardinality(Carried(i)) <= Capacity(i)
                         /\ Carried(i) # {} => Usable(i, Overflow)

\* A parent with no listeners fits.
LEMMA EmptyFits == Cardinality({}) = 0 /\ \A i \in Parent : Cardinality({}) <= Capacity(i)
  <1>1. \A i \in Parent : Capacity(i) \in Nat
    BY CapacityIsNat
  <1>2. Cardinality({}) = 0
    BY FS_EmptySet
  <1> QED
    BY <1>1, <1>2

\* No placement at all fits.
LEMMA NoPlacementsFit == Fits(ParentsOf(NoPlacements), Overflow)
  <1>1. \A i \in Parent : At(ParentsOf(NoPlacements), i) = {}
    BY CapacityAssumption DEF At, ParentsOf, NoPlacements, NoPlacement, Parent, Nowhere
  <1> QED
    BY <1>1, EmptyFits DEF Fits

\* What a plan that fits wants on a parent is no more than the parent takes.
LEMMA DesiredFits ==
  ASSUME NEW p \in [Host -> Placement], Fits(ParentsOf(p), Overflow), NEW i \in Parent
  PROVE  LET carried == {h \in Host : Desired(p, i)[h] # NoSecret} IN
         /\ Cardinality(carried) <= Capacity(i)
         /\ carried # {} => Usable(i, Overflow)
  <1> DEFINE carried == {h \in Host : Desired(p, i)[h] # NoSecret}
             here == At(ParentsOf(p), i)
  <1>1. carried \subseteq here
    BY DEF Desired, At, ParentsOf
  <1>2. IsFiniteSet(here) /\ Cardinality(here) \in Nat
    BY AtFinite
  <1>3. Cardinality(here) <= Capacity(i) /\ (here # {} => Usable(i, Overflow))
    BY DEF Fits
  <1>4. Cardinality(carried) <= Cardinality(here) /\ Cardinality(carried) \in Nat
    BY <1>1, <1>2, FS_Subset, FS_CardinalityType
  <1>5. Capacity(i) \in Nat
    BY CapacityIsNat
  <1> HIDE DEF carried, here
  <1>6. Cardinality(carried) <= Capacity(i)
    BY <1>2, <1>3, <1>4, <1>5
  <1>7. carried # {} => Usable(i, Overflow)
    BY <1>1, <1>3
  <1> QED
    BY <1>6, <1>7 DEF carried

\* The bridge starts with an empty cluster.
LEMMA InitCarries == Init => CarriesWhatFits
  <1> SUFFICES ASSUME Init PROVE CarriesWhatFits
    OBVIOUS
  <1>1. \A i \in Parent : Carried(i) = {}
    BY DEF Init, Carried, NoListeners
  <1>2. placements = NoPlacements
    BY DEF Init
  <1> QED
    BY <1>1, <1>2, NoPlacementsFit, EmptyFits DEF CarriesWhatFits

\* Every write to a parent is what a plan wants there, or nothing.
LEMMA StepCarries == Typed /\ CarriesWhatFits /\ [Next]_vars => CarriesWhatFits'
  <1> SUFFICES ASSUME Typed, CarriesWhatFits, [Next]_vars PROVE CarriesWhatFits'
    OBVIOUS
  <1> USE DEF calls, memory, bounds, cluster
  <1>1. CASE UNCHANGED <<listeners, placements>>
    BY <1>1 DEF CarriesWhatFits, Carried
  <1>2. ASSUME NEW i \in Parent, NEW l \in [Host -> Secret \cup {NoSecret}],
               listeners' = [listeners EXCEPT ![i] = l], placements' = placements,
               Cardinality({h \in Host : l[h] # NoSecret}) <= Capacity(i),
               {h \in Host : l[h] # NoSecret} # {} => Usable(i, Overflow)
        PROVE  CarriesWhatFits'
    <2>1. listeners'[i] = l /\ \A j \in Parent \ {i} : listeners'[j] = listeners[j]
      BY <1>2 DEF Typed, TypeOK
    <2>2. Carried(i)' = {h \in Host : l[h] # NoSecret}
      BY <2>1 DEF Carried
    <2>3. \A j \in Parent \ {i} : Carried(j)' = Carried(j)
      BY <2>1 DEF Carried
    <2>4. ASSUME NEW j \in Parent
          PROVE  /\ Cardinality(Carried(j)') <= Capacity(j)
                 /\ Carried(j)' # {} => Usable(j, Overflow)
      <3>1. CASE j = i
        BY <1>2, <2>2, <3>1
      <3>2. CASE j # i
        BY <2>3, <3>2 DEF CarriesWhatFits
      <3> QED
        BY <3>1, <3>2
    <2> QED
      BY <1>2, <2>4 DEF CarriesWhatFits
  <1>3. ASSUME NEW i \in Parent, listeners' = [listeners EXCEPT ![i] = Desired(placements, i)],
               placements' = placements
        PROVE  CarriesWhatFits'
    <2>1. placements \in [Host -> Placement] /\ Fits(ParentsOf(placements), Overflow)
      BY DEF Typed, TypeOK, CarriesWhatFits
    <2>2. Desired(placements, i) \in [Host -> Secret \cup {NoSecret}]
      BY <2>1, DesiredType
    <2>3. LET carried == {h \in Host : Desired(placements, i)[h] # NoSecret} IN
          /\ Cardinality(carried) <= Capacity(i)
          /\ carried # {} => Usable(i, Overflow)
      BY <2>1, DesiredFits
    <2> QED
      BY <1>2, <1>3, <2>2, <2>3
  <1>4. CASE ApplyGateway
    BY <1>3, <1>4, GatewayIsParent DEF ApplyGateway
  <1>5. ASSUME NEW i \in Parent, ApplyListenerSet(i)
        PROVE  CarriesWhatFits'
    BY <1>3, <1>5 DEF ApplyListenerSet
  <1>6. ASSUME NEW i \in Parent, DeleteListenerSet(i)
        PROVE  CarriesWhatFits'
    <2>1. {h \in Host : NoListeners[h] # NoSecret} = {} /\ NoListeners \in [Host -> Secret \cup {NoSecret}]
      BY DEF NoListeners
    <2>2. listeners' = [listeners EXCEPT ![i] = NoListeners] /\ placements' = placements
      BY <1>6 DEF DeleteListenerSet
    <2> QED
      BY <1>2, <2>1, <2>2, EmptyFits
  <1>7. CASE CommitPlan
    <2>1. Fits(ParentsOf(placements'), Overflow)
      BY <1>7, PlanningInputs, PlacementsAre, ManagedGatewayAssumption DEF CommitPlan, Planning
    <2>2. listeners' = listeners
      BY <1>7 DEF CommitPlan
    <2> QED
      BY <2>1, <2>2 DEF CarriesWhatFits, Carried
  <1>8. CASE Restart
    <2>1. placements' = NoPlacements /\ listeners' = listeners
      BY <1>8 DEF Restart
    <2> QED
      BY <2>1, NoPlacementsFit DEF CarriesWhatFits, Carried
  <1>9. CASE Environment \/ SettleDelayEnds \/ SeeSets \/ SeeGrants \/ Fail \/ AtRest
    BY <1>1, <1>9
    DEF Environment, PutIngress, DropIngress, EditIngresses, ChangeSecret, SettleDelayEnds,
        SeeSets, SeeGrants, Fail, AtRest, vars
  <1>10. CASE Reconcile
    BY <1>1, <1>4, <1>5, <1>6, <1>7, <1>10
    DEF Reconcile, Start, ReadCertificates, ApplyGrant, ListListenerSets, ListGrants, DeleteGrant, Finish
  <1>11. CASE UNCHANGED vars
    BY <1>1, <1>11 DEF vars
  <1> QED
    BY <1>8, <1>9, <1>10, <1>11 DEF Next

\* Neither the Gateway nor a ListenerSet ever carries more listeners than it
\* takes, whatever mixture of plans failures and restarts leave in the cluster.
THEOREM NoParentOverfull == Spec => []CarriesWhatFits
  BY InitCarries, StepCarries, AlwaysTyped, PTL DEF Spec

\* A controller that has no memory of its placements takes them from the
\* cluster: wherever the process died, the first plan of the next one keeps
\* every hostname on a parent that has its listener.
THEOREM RestartStays == Spec => RestartKeepsPlaces
  <1> DEFINE at(h) == {i \in Parent : listeners[i][h] # NoSecret}
             Kept(h) == at(h) # {} /\ placements'[h] # NoPlacement => placements'[h].parent \in at(h)
  <1>1. Typed /\ CarriesWhatFits /\ [Next]_vars
          => [~bootstrapped /\ bootstrapped' => \A h \in Host : Kept(h)]_vars
    <2> SUFFICES ASSUME Typed, CarriesWhatFits, Next, ~bootstrapped, bootstrapped', NEW h \in Host,
                        at(h) # {}, placements'[h] # NoPlacement
                 PROVE  placements'[h].parent \in at(h)
      BY DEF vars
    <2> USE DEF calls, memory, bounds, cluster
    <2>1. CommitPlan
      <3>1. CASE bootstrapped' = bootstrapped
        BY <3>1
      <3>2. CASE Environment \/ SettleDelayEnds \/ SeeSets \/ SeeGrants \/ Fail \/ Restart \/ AtRest
        BY <3>2
        DEF Environment, PutIngress, DropIngress, EditIngresses, ChangeSecret, SettleDelayEnds,
            SeeSets, SeeGrants, Fail, Restart, AtRest, vars
      <3>3. CASE Reconcile
        BY <3>3
        DEF Reconcile, Start, ReadCertificates, ApplyGrant, ApplyGateway, ApplyListenerSet,
            ListListenerSets, DeleteListenerSet, ListGrants, DeleteGrant, Finish
      <3> QED
        BY <3>2, <3>3 DEF Next
    <2>2. /\ Observed \in [Host -> Placement]
          /\ \A g \in Host : LET i == Observed[g].parent IN
                IF \E j \in Parent : Usable(j, Overflow) /\ listeners[j][g] # NoSecret
                THEN i \in Parent /\ listeners[i][g] # NoSecret /\ i # Nowhere
                ELSE i = Nowhere
      BY ObservedIs DEF Typed, TypeOK
    <2>3. Fits(ParentsOf(Observed), Overflow)
      <3> SUFFICES ASSUME NEW i \in Parent
                   PROVE  /\ Cardinality(At(ParentsOf(Observed), i)) <= Capacity(i)
                          /\ At(ParentsOf(Observed), i) # {} => Usable(i, Overflow)
        BY DEF Fits
      <3> DEFINE here == At(ParentsOf(Observed), i)
      <3>1. here \subseteq Carried(i)
        <4>1. i # Nowhere
          BY CapacityAssumption DEF Parent, Nowhere
        <4> QED
          BY <2>2, <4>1 DEF At, ParentsOf, Carried
      <3>2. IsFiniteSet(Carried(i))
        BY HostAssumption, FS_Subset DEF Carried
      <3>3. Cardinality(here) <= Cardinality(Carried(i)) /\ Cardinality(here) \in Nat /\ Cardinality(Carried(i)) \in Nat
        BY <3>1, <3>2, FS_Subset, FS_CardinalityType
      <3>4. Cardinality(Carried(i)) <= Capacity(i) /\ (Carried(i) # {} => Usable(i, Overflow))
        BY DEF CarriesWhatFits
      <3>5. Capacity(i) \in Nat
        BY CapacityIsNat
      <3> HIDE DEF here
      <3>6. Cardinality(here) <= Capacity(i)
        BY <3>3, <3>4, <3>5
      <3>7. here # {} => Usable(i, Overflow)
        BY <3>1, <3>4
      <3> QED
        BY <3>6, <3>7 DEF here
    <2>4. placements' = BuildManagedGateway(selected, Known(selected), Observed, Overflow).placements
      BY <2>1 DEF CommitPlan
    <2>5. PlanInputs(selected, Known(selected), Observed, Overflow)
      BY PlanningInputs DEF Planning
    <2>6. /\ placements'[h].parent = Nowhere => placements'[h] = NoPlacement
          /\ placements'[h].parent # Nowhere /\ Observed[h].parent # Nowhere
             => placements'[h].parent = Observed[h].parent
      BY <2>3, <2>4, <2>5, PlacementsAre, ManagedGatewayAssumption
    <2>7. \E j \in Parent : Usable(j, Overflow) /\ listeners[j][h] # NoSecret
      BY DEF CarriesWhatFits, Carried
    <2> QED
      BY <2>2, <2>6, <2>7
  <1> QED
    BY <1>1, NoParentOverfull, AlwaysTyped, PTL DEF Spec, RestartKeepsPlaces

-----------------------------------------------------------------------------
(***************************************************************************)
(* No wake-up is lost.  Whatever changes the Ingresses queues a request,   *)
(* a request is answered with the Ingresses there are when it starts, and  *)
(* a plan made again with nothing changed is the same plan.                *)
(***************************************************************************)
\* The placements are those of a plan of the Ingresses listed last and of the
\* certificates the cache holds of them.
Made ==
    \E cu \in [Host -> Placement] :
        placements = BuildManagedGateway(selected, Known(selected), cu, Overflow).placements

UpToDate ==
    /\ phase \in {"grants"} \cup Applying => bootstrapped /\ Made
    /\ queue = {} => /\ phase # "idle" => selected = ingresses
                     /\ phase = "idle" => bootstrapped /\ selected = ingresses /\ Made

\* Every step keeps the plan that of the Ingresses, or leaves a request queued.
LEMMA StepUpToDate ==
  ASSUME Typed, UpToDate, [Next]_vars
  PROVE  UpToDate'
  <1> USE DEF calls, memory, bounds, cluster
  <1>1. ASSUME UNCHANGED <<phase, bootstrapped, placements, certificates, selected>>,
               queue' = {} => queue = {} /\ ingresses' = ingresses
        PROVE  UpToDate'
    <2>1. Made' <=> Made
      BY <1>1 DEF Made, Known
    <2> QED
      BY <1>1, <2>1 DEF UpToDate, Applying
  <1>2. CASE Environment
    <2>1. ASSUME NEW new, EditIngresses(new)
          PROVE  UpToDate'
      BY <1>1, <2>1 DEF EditIngresses
    <2>2. ASSUME NEW k \in Secret, ChangeSecret(k)
          PROVE  UpToDate'
      <3>1. queue \subseteq queue' /\ UNCHANGED <<ingresses, phase, memory, selected>>
        BY <2>2 DEF ChangeSecret
      <3> QED
        BY <1>1, <3>1
    <2> QED
      BY <1>2, <2>1, <2>2 DEF Environment, PutIngress, DropIngress
  <1>3. CASE SettleDelayEnds \/ SeeSets \/ SeeGrants
    BY <1>1, <1>3 DEF SettleDelayEnds, SeeSets, SeeGrants
  <1>4. ASSUME NEW r \in {Replan, Sync}, Start(r)
        PROVE  UpToDate'
    BY <1>4 DEF Start, UpToDate, Applying
  <1>5. CASE ReadCertificates
    BY <1>5 DEF ReadCertificates, UpToDate, Applying
  <1>6. CASE CommitPlan
    <2>1. placements' = BuildManagedGateway(selected, Known(selected), Planning, Overflow).placements
          /\ bootstrapped' /\ phase' = "grants"
          /\ UNCHANGED <<ingresses, queue, certificates, selected>>
      BY <1>6 DEF CommitPlan, Planning
    <2>2. Planning \in [Host -> Placement]
      BY PlanningInputs DEF PlanInputs
    <2>3. Made'
      BY <2>1, <2>2 DEF Made, Known
    <2> QED
      BY <1>6, <2>1, <2>3 DEF CommitPlan, UpToDate, Applying
  <1>7. ASSUME UNCHANGED calls, phase \in {"grants"} \cup Applying, phase' \in {"idle", "grants"} \cup Applying
        PROVE  UpToDate'
    <2>1. bootstrapped' /\ Made'
      BY <1>7 DEF UpToDate, Made, Known
    <2> QED
      BY <1>7, <2>1 DEF UpToDate, Applying
  <1>8. CASE \/ \E k \in Secret : ApplyGrant(k) \/ DeleteGrant(k)
             \/ ApplyGateway
             \/ \E i \in Parent : ApplyListenerSet(i) \/ DeleteListenerSet(i)
             \/ ListListenerSets \/ ListGrants \/ Finish
    BY <1>7, <1>8
    DEF ApplyGrant, DeleteGrant, ApplyGateway, ApplyListenerSet, DeleteListenerSet,
        ListListenerSets, ListGrants, Finish, Applying
  <1>9. CASE Fail
    BY <1>9 DEF Fail, UpToDate, Applying
  <1>10. CASE Restart
    BY <1>10 DEF Restart, UpToDate, Applying
  <1>11. CASE UNCHANGED vars
    BY <1>1, <1>11 DEF vars
  <1> QED
    BY <1>2, <1>3, <1>4, <1>5, <1>6, <1>8, <1>9, <1>10, <1>11 DEF Next, Reconcile, AtRest

\* With the ListenerSet API installed, a controller at rest has the plan it
\* would make of the Ingresses as they are: no change of them was missed.
THEOREM RestMeansCurrent == ASSUME Overflow PROVE Spec => []QuietIsCurrent
  <1>1. Init => UpToDate
    BY DEF Init, UpToDate, Applying
  <1>2. Typed /\ UpToDate => QuietIsCurrent
    <2> SUFFICES ASSUME Typed, UpToDate, Quiet PROVE Current
      BY DEF QuietIsCurrent
    <2>1. bootstrapped /\ selected = ingresses /\ Made
      BY DEF UpToDate, Quiet
    <2>2. PICK cu \in [Host -> Placement] :
             placements = BuildManagedGateway(ingresses, Known(ingresses), cu, Overflow).placements
      BY <2>1 DEF Made
    <2> DEFINE p == BuildManagedGateway(ingresses, Known(ingresses), cu, Overflow)
    <2>3. PlanInputs(ingresses, Known(ingresses), cu, Overflow)
      BY KnownType, ManagedGatewayAssumption DEF PlanInputs, Typed, TypeOK
    <2>4. \A h \in p.tlsHosts : p.sections[h] # NoSection
      BY <2>3, SetsServeAll, ManagedGatewayAssumption
    <2>5. BuildManagedGateway(ingresses, Known(ingresses), p.placements, Overflow) = p
      BY <2>3, <2>4, ReplanIsSame, ManagedGatewayAssumption
    <2> QED
      BY <2>1, <2>2, <2>5 DEF Current
  <1>3. Typed /\ UpToDate /\ [Next]_vars => UpToDate'
    BY StepUpToDate
  <1> QED
    BY <1>1, <1>2, <1>3, AlwaysTyped, PTL DEF Spec

=============================================================================
