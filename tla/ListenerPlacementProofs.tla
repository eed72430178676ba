----------------------- MODULE ListenerPlacementProofs -----------------------
(***************************************************************************)
(* Proofs about placeListeners for every set of hostnames, every previous  *)
(* placement and every capacity.  The inductive invariant adds three facts *)
(* to the properties: counts[i] is the number of listeners on i, a         *)
(* listener placed during the first pass is where it was before, and the   *)
(* listeners the first pass defers are those its parent cannot keep.       *)
(***************************************************************************)
EXTENDS ListenerPlacement, GatewayPlanProofs

CountsExact ==
    \A i \in Parent : /\ counts[i] = Cardinality(On(i))
                      /\ counts[i] <= Capacity(i)
                      /\ counts[i] > 0 => Usable(i, overflow)

\* The listeners whose previous parent can keep every listener it had.
KeptWhole(h) ==
    LET here == {g \in Listener : current[g] = current[h]}
    IN  /\ current[h] # Nowhere
        /\ Usable(current[h], overflow)
        /\ Cardinality(here) <= Capacity(current[h])

FirstPassKeeps ==
    /\ pass = 1 => \A h \in Host : placed[h] # Nowhere => placed[h] = current[h]
    /\ \A h \in Listener : KeptWhole(h) => placed[h] = current[h] \/ (pass = 1 /\ h \in todo)

FullWhenReported ==
    unplaced # {} => ~overflow /\ counts[GatewayParent] >= Capacity(GatewayParent)

FullWhenFirstFit ==
    \A h \in Host :
        LET i == placed[h] IN
        i > 0 /\ i # current[h] /\ i \notin Inherited(h, serves[h], current)
        => \A j \in Parent : j < i => counts[j] >= Capacity(j)

IInv ==
    /\ TypeOK
    /\ Partition
    /\ CountsExact
    /\ FirstPassKeeps
    /\ FullWhenReported
    /\ FullWhenFirstFit

-----------------------------------------------------------------------------
\* A capacity is a natural number.
LEMMA CapacityType == \A i \in Parent : Capacity(i) \in Nat
  BY CapacityAssumption DEF Capacity, Parent, GatewayParent

\* The listeners of one parent can be counted.
LEMMA OnFinite ==
  ASSUME TypeOK, NEW i
  PROVE  IsFiniteSet(On(i)) /\ Cardinality(On(i)) \in Nat
  <1>1. On(i) \subseteq Host
    BY DEF On
  <1> QED
    BY <1>1, HostAssumption, FS_Subset, FS_CardinalityType

\* One listener more on i raises the number of listeners on i, and no other.
LEMMA PlaceCounts ==
  ASSUME TypeOK, CountsExact,
         NEW h \in todo, placed[h] = Nowhere,
         NEW i \in Parent, HasRoom(i), Place(h, i)
  PROVE  CountsExact'
  <1> SUFFICES ASSUME NEW j \in Parent
               PROVE  /\ counts'[j] = Cardinality(On(j)')
                      /\ counts'[j] <= Capacity(j)
                      /\ counts'[j] > 0 => Usable(j, overflow)
    BY DEF CountsExact, Place, inputs
  <1>1. placed' = [placed EXCEPT ![h] = i] /\ counts' = [counts EXCEPT ![i] = @ + 1] /\ h \in Host
    BY DEF Place, TypeOK
  <1>2. IsFiniteSet(On(j)) /\ Cardinality(On(j)) \in Nat
    BY OnFinite
  <1>3. counts[j] \in Nat /\ Capacity(j) \in Nat
    BY CapacityType DEF TypeOK
  <1>4. CASE j = i
    <2>1. On(j)' = On(j) \cup {h}
      BY <1>1, <1>4 DEF On, TypeOK
    <2>2. h \notin On(j)
      BY DEF On, Nowhere, Parent
    <2>3. Cardinality(On(j)') = Cardinality(On(j)) + 1
      BY <1>2, <2>1, <2>2, FS_AddElement
    <2>4. counts'[j] = counts[j] + 1
      BY <1>1, <1>4 DEF TypeOK
    <2> QED
      BY <1>3, <1>4, <2>3, <2>4 DEF CountsExact, HasRoom
  <1>5. CASE j # i
    <2>1. On(j)' = On(j)
      BY <1>1, <1>5 DEF On, TypeOK, Nowhere, Parent
    <2>2. counts'[j] = counts[j]
      BY <1>1, <1>5 DEF TypeOK
    <2> QED
      BY <2>1, <2>2 DEF CountsExact
  <1> QED
    BY <1>4, <1>5

(***************************************************************************)
(* During the first pass every listener on a parent was there before, so a *)
(* listener that finds its previous parent full shares it with more        *)
(* listeners than fit.                                                     *)
(***************************************************************************)
LEMMA FullMeansTooMany ==
  ASSUME TypeOK, Partition, CountsExact, FirstPassKeeps, pass = 1,
         NEW h \in todo, ~HasRoom(current[h])
  PROVE  ~KeptWhole(h)
  <1> SUFFICES ASSUME KeptWhole(h) PROVE FALSE
    OBVIOUS
  <1> DEFINE c    == current[h]
             here == {g \in Listener : current[g] = c}
  <1>1. h \in Host /\ h \in Listener /\ placed[h] = Nowhere
    BY DEF TypeOK, Partition
  <1>2. c \in Parent /\ Usable(c, overflow) /\ Cardinality(here) <= Capacity(c)
    BY <1>1 DEF KeptWhole, TypeOK
  <1>3. counts[c] >= Capacity(c) /\ counts[c] = Cardinality(On(c))
    BY <1>2, CapacityType DEF HasRoom, CountsExact, TypeOK
  <1>4. IsFiniteSet(here) /\ h \in here
    <2>1. here \subseteq Host
      BY DEF Listener
    <2> QED
      BY <1>1, <2>1, HostAssumption, FS_Subset
  <1>5. On(c) \subseteq here \ {h}
    <2> SUFFICES ASSUME NEW g \in Host, placed[g] = c
                 PROVE  g \in Listener /\ current[g] = c /\ g # h
      BY DEF On
    <2>1. placed[g] # Nowhere
      BY <1>2 DEF Parent, Nowhere
    <2> QED
      BY <1>1, <2>1 DEF FirstPassKeeps, Partition
  <1>6. Cardinality(On(c)) <= Cardinality(here \ {h}) /\ Cardinality(here \ {h}) = Cardinality(here) - 1
    <2>1. IsFiniteSet(here \ {h}) /\ Cardinality(here \ {h}) = Cardinality(here) - 1
      BY <1>4, FS_RemoveElement
    <2> QED
      BY <1>5, <2>1, FS_Subset
  <1>7. Cardinality(here) \in Nat /\ Cardinality(On(c)) \in Nat /\ Capacity(c) \in Nat
    BY <1>2, <1>4, OnFinite, CapacityType, FS_CardinalityType
  <1> QED
    BY <1>2, <1>3, <1>6, <1>7

-----------------------------------------------------------------------------
\* The invariant holds before the first pass.
LEMMA InitInvariant == Init => IInv
  <1> SUFFICES ASSUME Init PROVE IInv
    OBVIOUS
  <1>1. TypeOK
    BY DEF Init, TypeOK, Done, Listener, Parent, Nowhere
  <1>2. Partition
    BY DEF Init, Partition, Listener
  <1>3. CountsExact
    <2> SUFFICES ASSUME NEW i \in Parent
                 PROVE  counts[i] = 0 /\ Cardinality(On(i)) = 0 /\ 0 <= Capacity(i)
      BY DEF CountsExact
    <2>1. On(i) = {}
      BY DEF Init, On, Parent, Nowhere
    <2>2. Cardinality(On(i)) = 0
      BY <2>1, FS_EmptySet
    <2> QED
      BY <2>2, CapacityType DEF Init
  <1>4. FirstPassKeeps
    BY DEF Init, FirstPassKeeps
  <1>5. FullWhenReported /\ FullWhenFirstFit
    BY DEF Init, FullWhenReported, FullWhenFirstFit, Nowhere
  <1> QED
    BY <1>1, <1>2, <1>3, <1>4, <1>5 DEF IInv

\* A placement keeps the invariant whichever pass makes it.
LEMMA PlaceKeeps ==
  ASSUME IInv,
         NEW h \in todo, NEW i \in Parent, HasRoom(i), Place(h, i),
         pass = 1 => i = current[h],
         \/ i = current[h] \/ i \in Inherited(h, serves[h], current)
         \/ \A j \in Parent : j < i => ~HasRoom(j)
  PROVE  IInv'
  <1> USE DEF IInv
  <1>1. h \in Host /\ placed[h] = Nowhere
    BY DEF TypeOK, Partition
  <1>2. /\ placed' = [placed EXCEPT ![h] = i]
        /\ counts' = [counts EXCEPT ![i] = @ + 1]
        /\ todo' = todo \ {h}
        /\ serves' = serves /\ current' = current /\ overflow' = overflow
        /\ pass' = pass /\ deferred' = deferred /\ unplaced' = unplaced
    BY DEF Place, inputs
  <1>3. TypeOK'
    BY <1>1, <1>2 DEF TypeOK
  <1>4. Partition'
    BY <1>1, <1>2 DEF Partition, TypeOK, Listener, Parent, Nowhere
  <1>5. CountsExact'
    BY <1>1, PlaceCounts
  <1>6. FirstPassKeeps'
    <2>1. pass' = 1 => \A g \in Host : placed'[g] # Nowhere => placed'[g] = current'[g]
      BY <1>1, <1>2 DEF FirstPassKeeps, TypeOK
    <2>2. Listener' = Listener /\ \A g : KeptWhole(g)' <=> KeptWhole(g)
      BY <1>2 DEF KeptWhole, Listener
    <2>3. ASSUME NEW g \in Listener, KeptWhole(g)
          PROVE  placed'[g] = current[g] \/ (pass = 1 /\ g \in todo')
      BY <1>1, <1>2, <2>3 DEF FirstPassKeeps, TypeOK, Listener, KeptWhole
    <2> QED
      BY <1>2, <2>1, <2>2, <2>3 DEF FirstPassKeeps
  <1>7. FullWhenReported'
    <2>1. counts'[GatewayParent] >= counts[GatewayParent]
      BY <1>2, CapacityAssumption DEF TypeOK, GatewayParent, Parent
    <2> QED
      BY <1>2, <1>3, <2>1, CapacityType, CapacityAssumption
      DEF FullWhenReported, TypeOK, GatewayParent, Parent
  <1>8. FullWhenFirstFit'
    <2> SUFFICES ASSUME NEW g \in Host, placed'[g] > 0, placed'[g] # current[g],
                        placed'[g] \notin Inherited(g, serves[g], current),
                        NEW j \in Parent, j < placed'[g]
                 PROVE  counts'[j] >= Capacity(j)
      BY <1>2 DEF FullWhenFirstFit
    <2>1. counts'[j] >= counts[j] /\ counts[j] \in Nat /\ counts'[j] \in Nat /\ Capacity(j) \in Nat
      BY <1>2, CapacityType DEF TypeOK
    <2>2. CASE g # h
      <3>1. placed'[g] = placed[g]
        BY <1>1, <1>2, <2>2 DEF TypeOK
      <3> QED
        BY <2>1, <3>1 DEF FullWhenFirstFit
    <2>3. CASE g = h
      <3>1. placed'[g] = i
        BY <1>1, <1>2, <2>3 DEF TypeOK
      <3>2. ~HasRoom(j) /\ overflow
        BY <2>3, <3>1 DEF HasRoom, Usable, GatewayParent
      <3> QED
        BY <2>1, <3>2 DEF HasRoom, Usable
    <2> QED
      BY <2>2, <2>3
  <1> QED
    BY <1>3, <1>4, <1>5, <1>6, <1>7, <1>8

\* A listener the pass skips goes to the next pass.
LEMMA DeferKeeps ==
  ASSUME IInv, NEW h \in todo, pass < 3, Defer(h),
         pass = 1 => ~KeptWhole(h)
  PROVE  IInv'
  <1> USE DEF IInv
  <1>1. h \in Host /\ h \in Listener /\ placed[h] = Nowhere
    BY DEF TypeOK, Partition
  <1>2. /\ todo' = todo \ {h} /\ deferred' = deferred \cup {h}
        /\ serves' = serves /\ current' = current /\ overflow' = overflow
        /\ pass' = pass /\ placed' = placed /\ counts' = counts /\ unplaced' = unplaced
    BY DEF Defer, inputs
  <1>3. TypeOK'
    BY <1>1, <1>2 DEF TypeOK
  <1>4. Partition'
    BY <1>1, <1>2 DEF Partition, Listener
  <1>5. CountsExact'
    BY <1>2 DEF CountsExact, On
  <1>6. FirstPassKeeps'
    BY <1>2 DEF FirstPassKeeps, Listener, KeptWhole
  <1>7. FullWhenReported' /\ FullWhenFirstFit'
    BY <1>2 DEF FullWhenReported, FullWhenFirstFit
  <1> QED
    BY <1>3, <1>4, <1>5, <1>6, <1>7

\* Every iteration of the three passes keeps the invariant.
LEMMA StepInvariant == IInv /\ [Next]_vars => IInv'
  <1> SUFFICES ASSUME IInv, [Next]_vars PROVE IInv'
    OBVIOUS
  <1> USE DEF IInv
  <1>1. ASSUME NEW h \in Host, IsNext(h), KeepPrevious(h)
        PROVE  IInv'
    <2>1. h \in todo /\ pass = 1
      BY <1>1 DEF IsNext, KeepPrevious
    <2>2. CASE HasRoom(current[h])
      BY <1>1, <2>1, <2>2, PlaceKeeps DEF KeepPrevious, HasRoom
    <2>3. CASE ~HasRoom(current[h])
      BY <1>1, <2>1, <2>3, FullMeansTooMany, DeferKeeps DEF KeepPrevious
    <2> QED
      BY <2>2, <2>3
  <1>2. ASSUME NEW h \in Host, IsNext(h), Inherit(h)
        PROVE  IInv'
    <2>1. h \in todo /\ pass = 2
      BY <1>2 DEF IsNext, Inherit
    <2>2. CASE \E i \in Inherited(h, serves[h], current) : HasRoom(i) /\ Place(h, i)
      BY <2>1, <2>2, PlaceKeeps DEF HasRoom
    <2>3. CASE Defer(h)
      BY <2>1, <2>3, DeferKeeps
    <2> QED
      BY <1>2, <2>2, <2>3 DEF Inherit
  <1>3. ASSUME NEW h \in Host, IsNext(h), FirstFit(h)
        PROVE  IInv'
    BY <1>3, PlaceKeeps DEF IsNext, FirstFit
  <1>4. ASSUME NEW h \in Host, IsNext(h), Report(h)
        PROVE  IInv'
    <2>1. h \in todo /\ h \in Listener /\ placed[h] = Nowhere /\ pass = 3
      BY <1>4 DEF IsNext, Report, Partition
    <2>2. /\ todo' = todo \ {h} /\ unplaced' = unplaced \cup {h}
          /\ serves' = serves /\ current' = current /\ overflow' = overflow
          /\ pass' = pass /\ deferred' = deferred /\ placed' = placed /\ counts' = counts
      BY <1>4 DEF Report, inputs
    <2>3. TypeOK'
      BY <2>2 DEF TypeOK
    <2>4. Partition'
      BY <2>1, <2>2 DEF Partition, Listener
    <2>5. CountsExact'
      BY <2>2 DEF CountsExact, On
    <2>6. FirstPassKeeps'
      BY <2>1, <2>2 DEF FirstPassKeeps, Listener, KeptWhole
    <2>7. ~overflow /\ counts[GatewayParent] >= Capacity(GatewayParent)
      BY <1>4, CapacityAssumption, CapacityType
      DEF Report, HasRoom, Usable, Parent, GatewayParent, TypeOK
    <2>8. FullWhenReported' /\ FullWhenFirstFit'
      BY <2>2, <2>7 DEF FullWhenReported, FullWhenFirstFit
    <2> QED
      BY <2>3, <2>4, <2>5, <2>6, <2>8
  <1>5. ASSUME EndPass PROVE IInv'
    <2>1. /\ todo = {} /\ todo' = deferred /\ deferred' = {} /\ pass' = pass + 1 /\ pass < Done
          /\ serves' = serves /\ current' = current /\ overflow' = overflow
          /\ placed' = placed /\ counts' = counts /\ unplaced' = unplaced
      BY <1>5 DEF EndPass, inputs
    <2>2. TypeOK'
      BY <2>1 DEF TypeOK, Done
    <2>3. Partition'
      BY <2>1 DEF Partition, Listener
    <2>4. CountsExact'
      BY <2>1 DEF CountsExact, On
    <2>5. FirstPassKeeps'
      BY <2>1 DEF FirstPassKeeps, Listener, KeptWhole, TypeOK
    <2>6. FullWhenReported' /\ FullWhenFirstFit'
      BY <2>1 DEF FullWhenReported, FullWhenFirstFit
    <2> QED
      BY <2>2, <2>3, <2>4, <2>5, <2>6
  <1>6. CASE UNCHANGED vars
    <2>1. /\ todo' = todo /\ deferred' = deferred /\ pass' = pass
          /\ serves' = serves /\ current' = current /\ overflow' = overflow
          /\ placed' = placed /\ counts' = counts /\ unplaced' = unplaced
      BY <1>6 DEF vars
    <2>2. TypeOK' /\ Partition' /\ CountsExact'
      BY <2>1 DEF TypeOK, Partition, Listener, CountsExact, On
    <2>3. FirstPassKeeps' /\ FullWhenReported' /\ FullWhenFirstFit'
      BY <2>1 DEF FirstPassKeeps, Listener, KeptWhole, FullWhenReported, FullWhenFirstFit
    <2> QED
      BY <2>2, <2>3
  <1> QED
    BY <1>1, <1>2, <1>3, <1>4, <1>5, <1>6 DEF Next, Terminated

\* The strengthened invariant holds throughout placeListeners.
THEOREM InductiveInvariant == Spec => []IInv
  BY InitInvariant, StepInvariant, PTL DEF Spec

-----------------------------------------------------------------------------
\* The state placeListeners keeps is well typed at every iteration.
THEOREM TypeCorrect == Spec => []TypeOK
  BY InductiveInvariant, PTL DEF IInv

\* Every projected listener ends with one parent or is reported, never both.
THEOREM NoListenerLost == Spec => []Partition
  BY InductiveInvariant, PTL DEF IInv

\* No parent is ever given more listeners than the Gateway API accepts.
THEOREM NeverOverCapacity == Spec => []CapacityRespected
  <1>1. IInv => CapacityRespected
    <2> SUFFICES ASSUME IInv, NEW i \in Parent
                 PROVE  /\ Cardinality(On(i)) <= Capacity(i)
                        /\ On(i) # {} => Usable(i, overflow)
      BY DEF CapacityRespected
    <2>1. counts[i] = Cardinality(On(i)) /\ counts[i] <= Capacity(i)
          /\ (counts[i] > 0 => Usable(i, overflow))
      BY DEF IInv, CountsExact
    <2>2. IsFiniteSet(On(i)) /\ Cardinality(On(i)) \in Nat
      BY OnFinite DEF IInv
    <2>3. On(i) # {} => counts[i] > 0
      BY <2>1, <2>2, FS_EmptySet
    <2> QED
      BY <2>1, <2>3
  <1> QED
    BY <1>1, InductiveInvariant, PTL

(***************************************************************************)
(* A listener keeps the parent the previous plan gave it unless that       *)
(* parent is unusable or could not hold the listeners it had: no newcomer  *)
(* ever displaces a listener.                                              *)
(***************************************************************************)
THEOREM Stickiness == Spec => []Sticky
  <1>1. IInv => Sticky
    BY DEF IInv, FirstPassKeeps, Sticky, KeptWhole, TypeOK
  <1> QED
    BY <1>1, InductiveInvariant, PTL

\* placeListeners reports a hostname only when every parent it could use is full.
THEOREM ReportedIsFull == Spec => []ReportedOnlyWhenFull
  <1>1. IInv => ReportedOnlyWhenFull
    BY CapacityAssumption, CapacityType
    DEF IInv, CountsExact, FullWhenReported, ReportedOnlyWhenFull, Parent, GatewayParent, TypeOK
  <1> QED
    BY <1>1, InductiveInvariant, PTL

\* A new listener reaches a ListenerSet only past parents that are all full.
THEOREM FirstFitIsNeeded == Spec => []FirstFitOnly
  <1>1. IInv => FirstFitOnly
    <2> SUFFICES ASSUME IInv, NEW h \in Host, placed[h] > 0, placed[h] # current[h],
                        placed[h] \notin Inherited(h, serves[h], current),
                        NEW j \in Parent, j < placed[h]
                 PROVE  Cardinality(On(j)) = Capacity(j)
      BY DEF FirstFitOnly
    <2>1. counts[j] >= Capacity(j)
      BY DEF IInv, FullWhenFirstFit
    <2>2. counts[j] = Cardinality(On(j)) /\ counts[j] <= Capacity(j)
      BY DEF IInv, CountsExact
    <2> QED
      BY <2>1, <2>2, CapacityType DEF IInv, TypeOK
  <1> QED
    BY <1>1, InductiveInvariant, PTL

-----------------------------------------------------------------------------
\* The third pass leaves nothing to a later one.
LastPassEnds == pass \in 1 .. Done /\ (pass > 2 => deferred = {})

\* That holds of every reachable state.
LEMMA LastPass == Spec => []LastPassEnds
  <1>1. Init => LastPassEnds
    BY DEF Init, LastPassEnds, Done
  <1>2. LastPassEnds /\ [Next]_vars => LastPassEnds'
    BY DEF LastPassEnds, Next, vars, inputs, KeepPrevious, Inherit, FirstFit, Report, EndPass,
           Terminated, Place, Defer, Done
  <1> QED
    BY <1>1, <1>2, PTL DEF Spec

\* The contract and placeListeners speak of the same parents.
LEMMA SameVocabulary ==
    /\ Contract!Parent = Parent /\ Contract!Nowhere = Nowhere
    /\ Contract!GatewayParent = GatewayParent
    /\ \A i : Contract!Capacity(i) = Capacity(i)
    /\ \A i, o : Contract!Usable(i, o) <=> Usable(i, o)
    /\ \A S : Contract!Cardinality(S) = Cardinality(S)
  BY DEF Contract!Parent, Parent, Contract!Nowhere, Nowhere, Contract!GatewayParent, GatewayParent,
         Contract!Capacity, Capacity, Contract!Usable, Usable, Contract!Cardinality, Cardinality

\* What the end of the last pass knows of the places it returns.
LEMMA EndPlaces ==
  ASSUME TypeOK, Partition, CapacityRespected, Sticky, ReportedOnlyWhenFull, FirstFitOnly,
         LastPassEnds, EndPass, pass' = Done
  PROVE  Contract!Replan
  <1>1. /\ pass = 3 /\ todo = {} /\ deferred = {}
        /\ serves' = serves /\ current' = current /\ overflow' = overflow /\ placed' = placed
    BY DEF EndPass, LastPassEnds, Done, inputs, TypeOK
  <1> DEFINE old == IF pass = Done THEN placed ELSE current
             new == IF pass' = Done THEN placed' ELSE current'
  <1>2. old = current /\ new = placed /\ Listener' = Listener
    BY <1>1 DEF Done, Listener
  <1>3. Listener \in SUBSET Host /\ placed \in [Host -> Parent \cup {Nowhere}]
    BY DEF Listener, TypeOK
  <1>4. \A h \in Host : placed[h] # Nowhere => h \in Listener
    BY DEF Partition
  <1>5. \A i : Contract!OnParent(placed, i) = On(i)
    BY DEF Contract!OnParent, On
  <1>6. Contract!WithinCapacity(placed)
    BY <1>5, SameVocabulary DEF Contract!WithinCapacity, CapacityRespected
  <1>7. \A h \in Listener : Contract!CanStay(h, Listener) => placed[h] = current[h]
    BY <1>1, <1>2, SameVocabulary DEF Contract!CanStay, Sticky, Done
  <1>8. \A h \in Listener : placed[h] = Nowhere
                           => ~overflow /\ Contract!Full(placed, GatewayParent)
    BY <1>1, <1>5, SameVocabulary DEF Partition, ReportedOnlyWhenFull, Contract!Full, Listener
  <1>9. ASSUME NEW i \in Parent, NEW j \in Parent, j < i,
               Contract!OnParent(current, i) = {}, Contract!OnParent(placed, i) # {}
        PROVE  Contract!Full(placed, j)
    <2>1. PICK h \in Host : placed[h] = i
      BY <1>9, <1>5 DEF On
    <2>2. i # current[h] /\ i > 0
      BY <1>9, <2>1 DEF Contract!OnParent, Parent
    <2>3. i \notin Inherited(h, serves[h], current)
      BY <1>9, HostAssumption DEF Contract!OnParent, Inherited, Relatives, TypeOK, NoHost
    <2> QED
      BY <1>5, <1>9, <2>1, <2>2, <2>3, SameVocabulary DEF FirstFitOnly, Contract!Full
  <1>10. Contract!NobodyMoves(Listener', new)
    BY <1>1, <1>2, <1>7 DEF Contract!NobodyMoves, Contract!CanStay
  <1>11. Contract!NoNeedlessRefusal(Listener', new)
    BY <1>2, <1>8, SameVocabulary DEF Contract!NoNeedlessRefusal
  <1>12. Contract!NoNeedlessSet(new)
    BY <1>2, <1>9, SameVocabulary DEF Contract!NoNeedlessSet
  <1>13. Contract!WithinCapacity(new)
    BY <1>2, <1>6
  <1> QED
    BY <1>1, <1>2, <1>3, <1>4, <1>10, <1>11, <1>12, <1>13, SameVocabulary DEF Contract!Replan

\* placeListeners implements the contract: whatever the previous plan, its
\* three passes come to one step of PlacementContract.
THEOREM ContractHonoured == Spec => HonoursContract
  <1>1. Init => Contract!Init
    BY SameVocabulary DEF Init, Contract!Init, Done, Listener
  <1>2. ASSUME TypeOK, Partition, CapacityRespected, Sticky, ReportedOnlyWhenFull, FirstFitOnly,
               LastPassEnds, [Next]_vars
        PROVE  [Contract!Replan]_(Contract!vars)
    <2>1. CASE EndPass /\ pass' = Done
      BY <1>2, <2>1, EndPlaces
    <2>2. CASE ~(EndPass /\ pass' = Done)
      <3>1. /\ serves' = serves /\ current' = current /\ overflow' = overflow
            /\ pass' = Done <=> pass = Done
            /\ pass = Done => placed' = placed
        BY <1>2, <2>2 DEF Next, vars, inputs, KeepPrevious, Inherit, FirstFit, Report, EndPass,
                          Terminated, Place, Defer, Done
      <3> QED
        BY <3>1 DEF Contract!vars, Listener
    <2> QED
      BY <2>1, <2>2
  <1> QED
    BY <1>1, <1>2, TypeCorrect, NoListenerLost, NeverOverCapacity, Stickiness, ReportedIsFull,
       FirstFitIsNeeded, LastPass, PTL
    DEF Spec, HonoursContract, Contract!Spec


-----------------------------------------------------------------------------
(***************************************************************************)
(* The loops and the folds.  The planner has placeListeners as the folds   *)
(* of PlacementFold.  A pass goes through its listeners in ascending       *)
(* order, so what it has done at any moment is the value of its fold on    *)
(* the listeners it has looked at.                                         *)
(***************************************************************************)
\* The parents pass n tries for each listener.
Tried(n) ==
    IF n = 1 THEN [h \in Host |-> {current[h]} \ {Nowhere}]
    ELSE IF n = 2 THEN [h \in Host |-> Inherited(h, serves[h], current)]
    ELSE [h \in Host |-> Parent]

First  == NothingPlaced(Listener)
Second == Pass(First, Tried(1), overflow)
Third  == Pass(Second, Tried(2), overflow)
Result == Pass(Third, Tried(3), overflow)

\* What pass n starts from, and what the passes end with.
Given(n) == IF n = 1 THEN First ELSE IF n = 2 THEN Second ELSE IF n = 3 THEN Third ELSE Result

SoFar == [placed |-> placed, counts |-> counts, left |-> deferred \cup unplaced]

\* The pass has looked at the first listeners of D, and rest are the others.
Ascending(rest, D) == rest \subseteq D /\ \A g \in D \ rest, h \in rest : g < h

HalfFolded(acc, C, rest, value) ==
    \E it : UnfoldsPass(it, acc, C, overflow) /\ it[acc.left \ rest] = value

Folding ==
    /\ pass < 3 => unplaced = {}
    /\ pass > 2 => deferred = {}
    /\ Given(pass) \in Places
    /\ IF pass = Done THEN SoFar = Given(Done)
       ELSE /\ Ascending(todo, Given(pass).left)
            /\ HalfFolded(Given(pass), Tried(pass), todo, SoFar)

\* The passes try parents only.
LEMMA ChoicesAreParents ==
  ASSUME TypeOK, NEW n
  PROVE  \A h \in Host : Tried(n)[h] \subseteq Parent
  <1>1. \A h \in Host : current[h] \in Parent \cup {Nowhere} /\ serves[h] \subseteq Host
    BY DEF TypeOK
  <1>2. \A h \in Host : Inherited(h, serves[h], current) \subseteq Parent
    BY InheritedIs DEF TypeOK
  <1> QED
    BY <1>1, <1>2 DEF Tried

\* The next listener of a pass is one step of its fold.
LEMMA OneMore ==
  ASSUME NEW acc \in Places, NEW C, NEW value, NEW rest, HalfFolded(acc, C, rest, value),
         Ascending(rest, acc.left), NEW h \in rest, \A g \in rest : h <= g
  PROVE  /\ Ascending(rest \ {h}, acc.left)
         /\ HalfFolded(acc, C, rest \ {h}, TryPlace(value, h, C[h], overflow))
  <1> DEFINE D == acc.left
             T == D \ (rest \ {h})
  <1>1. rest \subseteq D /\ \A g \in D \ rest, x \in rest : g < x
    BY DEF Ascending
  <1>2. D \subseteq Host /\ IsFiniteSet(D) /\ D \subseteq Nat
    <2>1. D \subseteq Host
      BY DEF Places
    <2> QED
      BY <2>1, HostAssumption, FS_Subset
  <1> HIDE DEF D
  <1>3. T = (D \ rest) \cup {h} /\ T \ {h} = D \ rest /\ T \in SUBSET D /\ T # {}
    BY <1>1
  <1>4. \A g \in T : g <= h
    BY <1>1, <1>2, <1>3
  <1>5. Max(T) = h
    <2> HIDE DEF T
    <2>1. IsFiniteSet(T) /\ T \subseteq Nat
      BY <1>2, <1>3, FS_Subset
    <2>2. Max(T) \in T /\ \A x \in T : x <= Max(T)
      BY <1>3, <2>1, MaxOfNaturals
    <2>3. Max(T) <= h /\ h <= Max(T) /\ Max(T) \in Nat /\ h \in Nat
      BY <1>3, <1>4, <2>1, <2>2
    <2> QED
      BY <2>3
  <1>6. Ascending(rest \ {h}, D)
    <2> SUFFICES ASSUME NEW g \in D \ (rest \ {h}), NEW x \in rest \ {h}
                 PROVE  g < x
      BY <1>1 DEF Ascending
    <2>1. g = h \/ g \in D \ rest
      OBVIOUS
    <2>2. h <= x /\ h # x /\ h \in Nat /\ x \in Nat
      BY <1>1, <1>2
    <2> QED
      BY <1>1, <2>1, <2>2
  <1>7. PICK it : UnfoldsPass(it, acc, C, overflow) /\ it[D \ rest] = value
    BY DEF HalfFolded, D
  <1>8. it[T] = TryPlace(it[T \ {Max(T)}], Max(T), C[Max(T)], overflow)
    <2> HIDE DEF T
    <2> QED
      BY <1>3, <1>7 DEF UnfoldsPass, D
  <1>9. it[T] = TryPlace(value, h, C[h], overflow)
    BY <1>3, <1>5, <1>7, <1>8
  <1> QED
    BY <1>6, <1>7, <1>9 DEF HalfFolded, D

\* A pass that has looked at all of its listeners is over, and the next begins.
LEMMA PassOver ==
  ASSUME NEW acc, NEW C, NEW value, HalfFolded(acc, C, {}, value)
  PROVE  Pass(acc, C, overflow) = value /\ (acc \in Places => value \in Places)
  <1>1. PICK it : UnfoldsPass(it, acc, C, overflow) /\ it[acc.left \ {}] = value
    BY DEF HalfFolded
  <1>2. acc.left \ {} = acc.left
    OBVIOUS
  <1> QED
    BY <1>1, <1>2 DEF UnfoldsPass

\* A pass begins with all of its listeners to look at and none of them left.
LEMMA PassBegins ==
  ASSUME NEW acc \in Places, NEW C, \A h \in Host : C[h] \subseteq Parent
  PROVE  /\ Ascending(acc.left, acc.left)
         /\ HalfFolded(acc, C, acc.left, [placed |-> acc.placed, counts |-> acc.counts, left |-> {}])
  <1>1. PICK it : UnfoldsPass(it, acc, C, overflow)
    BY PassUnfolds
  <1>2. it[{}] = [acc EXCEPT !.left = {}] /\ acc.left \ acc.left = {}
    BY <1>1 DEF UnfoldsPass
  <1>3. [acc EXCEPT !.left = {}] = [placed |-> acc.placed, counts |-> acc.counts, left |-> {}]
    <2>1. acc = [placed |-> acc.placed, counts |-> acc.counts, left |-> acc.left]
      BY DEF Places
    <2> QED
      BY <2>1
  <1>4. HalfFolded(acc, C, acc.left, [placed |-> acc.placed, counts |-> acc.counts, left |-> {}])
    BY <1>1, <1>2, <1>3 DEF HalfFolded
  <1> QED
    BY <1>4 DEF Ascending


\* With the same inputs the passes have the same folds.
LEMMA SameFolds ==
  ASSUME UNCHANGED inputs
  PROVE  /\ \A n : Tried(n)' = Tried(n) /\ Given(n)' = Given(n)
         /\ \A acc, C, rest, value : HalfFolded(acc, C, rest, value) => HalfFolded(acc, C, rest, value)'
  <1>1. serves' = serves /\ current' = current /\ overflow' = overflow
    BY DEF inputs
  <1>2. \A n : Tried(n)' = Tried(n)
    BY <1>1 DEF Tried
  <1>3. First' = First
    BY <1>1 DEF First, Listener
  <1>4. Second' = Second
    BY <1>1, <1>2, <1>3 DEF Second
  <1>5. Third' = Third
    BY <1>1, <1>2, <1>4 DEF Third
  <1>6. Result' = Result
    BY <1>1, <1>2, <1>5 DEF Result
  <1>7. \A n : Given(n)' = Given(n)
    BY <1>3, <1>4, <1>5, <1>6 DEF Given
  <1>8. \A acc, C, rest, value : HalfFolded(acc, C, rest, value) => HalfFolded(acc, C, rest, value)'
    BY <1>1 DEF HalfFolded
  <1> QED
    BY <1>2, <1>7, <1>8

\* An iteration that does what tryPlace does keeps step with the fold.
LEMMA KeepsStep ==
  ASSUME TypeOK, Folding, pass < Done, UNCHANGED <<inputs, pass>>,
         NEW h \in Host, IsNext(h), todo' = todo \ {h},
         SoFar' = TryPlace(SoFar, h, Tried(pass)[h], overflow),
         pass < 3 => unplaced' = unplaced, pass > 2 => deferred' = deferred
  PROVE  Folding'
  <1>1. PICK n, acc, C, value : n = pass /\ acc = Given(n) /\ C = Tried(n) /\ value = SoFar
    OBVIOUS
  <1>2. acc \in Places /\ Ascending(todo, acc.left) /\ HalfFolded(acc, C, todo, value) /\ n # Done
    BY <1>1 DEF Folding, Done, TypeOK
  <1>3. h \in todo /\ \A g \in todo : h <= g
    BY DEF IsNext
  <1>4. PICK new : new = TryPlace(value, h, C[h], overflow)
    OBVIOUS
  <1>5. Ascending(todo', acc.left) /\ HalfFolded(acc, C, todo', new)
    BY <1>2, <1>3, <1>4, OneMore
  <1>6. /\ Tried(n)' = C /\ Given(n)' = acc /\ pass' = n
        /\ SoFar' = new
    BY <1>1, <1>4, SameFolds
  <1>7. PICK rest : rest = todo'
    OBVIOUS
  <1>8. HalfFolded(acc, C, rest, new)'
    BY <1>5, <1>7, SameFolds
  <1>9. HalfFolded(Given(pass), Tried(pass), todo, SoFar)'
    BY <1>6, <1>7, <1>8 DEF HalfFolded
  <1>10. Given(pass)' = acc
    BY <1>6
  <1>11. (pass < 3 => unplaced = {})' /\ (pass > 2 => deferred = {})'
    BY DEF Folding
  <1> QED
    BY <1>1, <1>2, <1>5, <1>6, <1>9, <1>10, <1>11 DEF Folding

\* tryPlace where there is room: the first open choice.
LEMMA PlacedByFold ==
  ASSUME TypeOK, NEW h \in todo, NEW C, C \subseteq Parent,
         NEW i \in C, HasRoom(i), \A j \in C : HasRoom(j) => i <= j, Place(h, i)
  PROVE  SoFar' = TryPlace(SoFar, h, C, overflow)
  <1> DEFINE O == Open(SoFar, C, overflow)
  <1>1. O = {j \in C : HasRoom(j)}
    BY DEF Open, HasRoom, SoFar
  <1>2. O \subseteq Nat /\ O # {} /\ i \in O
    <2>1. Parent \subseteq Nat
      BY CapacityAssumption DEF Parent
    <2> QED
      BY <1>1, <2>1
  <1>3. Min(O) = i
    <2>1. Min(O) \in O /\ \A j \in O : Min(O) <= j
      <3> HIDE DEF O
      <3> QED
        BY <1>2, MinOfNaturals
    <2>2. i <= Min(O) /\ Min(O) <= i /\ i \in Nat /\ Min(O) \in Nat
      BY <1>1, <1>2, <2>1
    <2> QED
      BY <2>2
  <1>4. TryPlace(SoFar, h, C, overflow) = [SoFar EXCEPT !.placed[h] = i, !.counts[i] = @ + 1]
    BY <1>2, <1>3 DEF TryPlace
  <1>5. /\ placed' = [placed EXCEPT ![h] = i] /\ counts' = [counts EXCEPT ![i] = @ + 1]
        /\ deferred' = deferred /\ unplaced' = unplaced
    BY DEF Place
  <1> QED
    BY <1>4, <1>5 DEF SoFar

\* tryPlace where there is none.
LEMMA LeftByFold ==
  ASSUME NEW h, NEW C, C \subseteq Parent, \A j \in C : ~HasRoom(j),
         placed' = placed, counts' = counts,
         deferred' \cup unplaced' = deferred \cup unplaced \cup {h}
  PROVE  SoFar' = TryPlace(SoFar, h, C, overflow)
  <1>1. Open(SoFar, C, overflow) = {}
    BY DEF Open, HasRoom, SoFar
  <1>2. TryPlace(SoFar, h, C, overflow) = [SoFar EXCEPT !.left = @ \cup {h}]
    BY <1>1 DEF TryPlace
  <1> QED
    BY <1>2 DEF SoFar

\* Two parents a listener may inherit are one.
LEMMA InheritsOne ==
  ASSUME TypeOK, NEW h \in Host, NEW i \in Inherited(h, serves[h], current),
         NEW j \in Inherited(h, serves[h], current)
  PROVE  i = j
  <1>1. Relatives(h, serves[h]) \subseteq Nat
    BY HostAssumption DEF Relatives, TypeOK
  <1> DEFINE known == {r \in Relatives(h, serves[h]) : current[r] # Nowhere}
  <1>2. PICK k \in known : i = current[k] /\ \A r \in known : k <= r
    BY DEF Inherited
  <1>3. PICK l \in known : j = current[l] /\ \A r \in known : l <= r
    BY DEF Inherited
  <1>4. k = l
    BY <1>1, <1>2, <1>3
  <1> QED
    BY <1>2, <1>3, <1>4

\* Before the first pass nothing is folded.
LEMMA InitFolding == Init => Folding
  <1> SUFFICES ASSUME Init PROVE Folding
    OBVIOUS
  <1>1. TypeOK
    BY InitInvariant DEF IInv
  <1>2. First = [placed |-> placed, counts |-> counts, left |-> todo] /\ deferred = {} /\ unplaced = {} /\ pass = 1
    BY DEF Init, First, NothingPlaced
  <1>3. First \in Places
    BY <1>1, <1>2 DEF Places, TypeOK
  <1>4. /\ Ascending(First.left, First.left)
        /\ HalfFolded(First, Tried(1), First.left,
                      [placed |-> First.placed, counts |-> First.counts, left |-> {}])
    BY <1>1, <1>3, PassBegins, ChoicesAreParents
  <1>5. SoFar = [placed |-> First.placed, counts |-> First.counts, left |-> {}] /\ First.left = todo
    BY <1>2 DEF SoFar
  <1>6. Given(pass) = First
    BY <1>2 DEF Given
  <1> QED
    BY <1>2, <1>3, <1>4, <1>5, <1>6 DEF Folding, Done

\* The end of a pass gives its value to the next one.
LEMMA EndFolding ==
  ASSUME TypeOK, Folding, EndPass
  PROVE  Folding'
  <1>1. /\ pass < Done /\ todo = {} /\ pass' = pass + 1 /\ todo' = deferred /\ deferred' = {}
        /\ UNCHANGED <<inputs, placed, counts, unplaced>>
    BY DEF EndPass
  <1>2. PICK n, acc, C, value : n = pass /\ acc = Given(n) /\ C = Tried(n) /\ value = SoFar
    OBVIOUS
  <1>3. n \in {1, 2, 3}
    BY <1>1, <1>2 DEF TypeOK, Done
  <1>4. acc \in Places /\ HalfFolded(acc, C, {}, value)
    BY <1>1, <1>2, <1>3 DEF Folding, Done
  <1>5. Pass(acc, C, overflow) = value /\ value \in Places
    BY <1>4, PassOver
  <1>6. Given(n + 1) = value
    BY <1>2, <1>3, <1>5 DEF Given, Second, Third, Result, Tried
  <1>7. Given(n + 1)' = value /\ pass' = n + 1
    BY <1>1, <1>2, <1>6, SameFolds
  <1>8. Given(pass)' = value
    BY <1>7
  <1>9. CASE n = 3
    <2>1. pass' = Done /\ deferred = {} /\ deferred' = {}
      BY <1>1, <1>2, <1>9 DEF Folding, Done
    <2>2. SoFar' = value
      BY <1>1, <1>2, <2>1 DEF SoFar
    <2>3. Given(Done)' = value
      BY <1>7, <2>1
    <2> QED
      BY <1>5, <1>8, <2>1, <2>2, <2>3 DEF Folding, Done
  <1>10. CASE n \in {1, 2}
    <2>1. unplaced = {} /\ pass' \in {2, 3} /\ pass' # Done
      BY <1>1, <1>2, <1>10 DEF Folding, Done
    <2>2. value = [placed |-> placed, counts |-> counts, left |-> deferred]
      BY <1>2, <2>1 DEF SoFar
    <2>3. SoFar' = [placed |-> value.placed, counts |-> value.counts, left |-> {}] /\ todo' = value.left
      BY <1>1, <2>1, <2>2 DEF SoFar
    <2>4. PICK D : D = Tried(n + 1)
      OBVIOUS
    <2>5. PICK rest, none : rest = todo' /\ none = SoFar'
      OBVIOUS
    <2>6. Ascending(rest, value.left) /\ HalfFolded(value, D, rest, none)
      BY <1>5, <2>3, <2>4, <2>5, PassBegins, ChoicesAreParents
    <2>7. HalfFolded(value, D, rest, none)'
      BY <1>1, <2>6, SameFolds
    <2>8. Tried(n + 1)' = D
      BY <1>1, <2>4, SameFolds
    <2>9. Tried(pass)' = D
      BY <1>7, <2>8
    <2>10. HalfFolded(Given(pass), Tried(pass), todo, SoFar)'
      BY <1>8, <2>5, <2>7, <2>9 DEF HalfFolded
    <2> QED
      BY <1>1, <1>5, <1>8, <2>1, <2>5, <2>6, <2>10 DEF Folding
  <1> QED
    BY <1>3, <1>9, <1>10


\* Every iteration of the loops is the next step of a fold.
LEMMA StepFolding == IInv /\ Folding /\ [Next]_vars => Folding'
  <1> SUFFICES ASSUME IInv, Folding, [Next]_vars PROVE Folding'
    OBVIOUS
  <1>1. TypeOK
    BY DEF IInv
  <1>2. \A i \in Parent : i # Nowhere /\ i \in Nat
    BY CapacityAssumption DEF Parent, Nowhere
  <1>3. ASSUME NEW h \in Host, IsNext(h), KeepPrevious(h)
        PROVE  Folding'
    <2> DEFINE C == Tried(pass)[h]
    <2>1. /\ h \in todo /\ pass = 1 /\ C \subseteq Parent
          /\ C = {current[h]} \ {Nowhere}
      BY <1>1, <1>3, ChoicesAreParents DEF IsNext, KeepPrevious, Tried
    <2> HIDE DEF C
    <2>2. CASE HasRoom(current[h])
      <3>1. current[h] \in C /\ \A j \in C : HasRoom(j) => current[h] <= j
        BY <1>2, <2>1, <2>2 DEF HasRoom
      <3>2. Place(h, current[h])
        BY <1>3, <2>2 DEF KeepPrevious
      <3>3. SoFar' = TryPlace(SoFar, h, C, overflow)
        BY <1>1, <2>1, <2>2, <3>1, <3>2, PlacedByFold
      <3> QED
        BY <1>1, <1>3, <2>1, <3>2, <3>3, KeepsStep DEF Place, Done, C
    <2>3. CASE ~HasRoom(current[h])
      <3>1. \A j \in C : ~HasRoom(j)
        BY <2>1, <2>3
      <3>2. Defer(h)
        BY <1>3, <2>3 DEF KeepPrevious
      <3>3. SoFar' = TryPlace(SoFar, h, C, overflow)
        BY <2>1, <3>1, <3>2, LeftByFold DEF Defer
      <3> QED
        BY <1>1, <1>3, <2>1, <3>2, <3>3, KeepsStep DEF Defer, Done, C
    <2> QED
      BY <2>2, <2>3
  <1>4. ASSUME NEW h \in Host, IsNext(h), Inherit(h)
        PROVE  Folding'
    <2> DEFINE C == Tried(pass)[h]
    <2>1. /\ h \in todo /\ pass = 2 /\ C \subseteq Parent
          /\ C = Inherited(h, serves[h], current)
      BY <1>1, <1>4, ChoicesAreParents DEF IsNext, Inherit, Tried
    <2> HIDE DEF C
    <2>2. CASE \E i \in C : HasRoom(i)
      <3>1. PICK i \in C : HasRoom(i) /\ Place(h, i)
        BY <1>4, <2>1, <2>2 DEF Inherit
      <3>2. \A j \in C : HasRoom(j) => i <= j
        <4>1. \A j \in C : i = j
          BY <1>1, <2>1, InheritsOne
        <4> QED
          BY <1>2, <2>1, <4>1
      <3>3. SoFar' = TryPlace(SoFar, h, C, overflow)
        BY <1>1, <2>1, <3>1, <3>2, PlacedByFold
      <3> QED
        BY <1>1, <1>4, <2>1, <3>1, <3>3, KeepsStep DEF Place, Done, C
    <2>3. CASE \A i \in C : ~HasRoom(i)
      <3>1. Defer(h)
        BY <1>4, <2>1, <2>3 DEF Inherit
      <3>2. SoFar' = TryPlace(SoFar, h, C, overflow)
        BY <2>1, <2>3, <3>1, LeftByFold DEF Defer
      <3> QED
        BY <1>1, <1>4, <2>1, <3>1, <3>2, KeepsStep DEF Defer, Done, C
    <2> QED
      BY <2>2, <2>3
  <1>5. ASSUME NEW h \in Host, IsNext(h), FirstFit(h)
        PROVE  Folding'
    <2> DEFINE C == Tried(pass)[h]
    <2>1. h \in todo /\ pass = 3 /\ C = Parent
      BY <1>5 DEF IsNext, FirstFit, Tried
    <2> HIDE DEF C
    <2>2. PICK i \in Parent : HasRoom(i) /\ Place(h, i) /\ \A j \in Parent : j < i => ~HasRoom(j)
      BY <1>5 DEF FirstFit
    <2>3. \A j \in C : HasRoom(j) => i <= j
      BY <1>2, <2>1, <2>2
    <2>4. SoFar' = TryPlace(SoFar, h, C, overflow)
      BY <1>1, <2>1, <2>2, <2>3, PlacedByFold
    <2> QED
      BY <1>1, <1>5, <2>1, <2>2, <2>4, KeepsStep DEF Place, Done, C
  <1>6. ASSUME NEW h \in Host, IsNext(h), Report(h)
        PROVE  Folding'
    <2> DEFINE C == Tried(pass)[h]
    <2>1. h \in todo /\ pass = 3 /\ C = Parent
      BY <1>6 DEF IsNext, Report, Tried
    <2> HIDE DEF C
    <2>2. \A j \in C : ~HasRoom(j)
      BY <1>6, <2>1 DEF Report, HasRoom, Usable
    <2>3. SoFar' = TryPlace(SoFar, h, C, overflow)
      BY <1>6, <2>1, <2>2, LeftByFold DEF Report
    <2> QED
      BY <1>1, <1>6, <2>1, <2>3, KeepsStep DEF Report, Done, C
  <1>7. ASSUME EndPass PROVE Folding'
    BY <1>1, <1>7, EndFolding
  <1>8. CASE UNCHANGED vars
    <2>1. UNCHANGED <<inputs, pass, todo, deferred, placed, counts, unplaced>>
      BY <1>8 DEF vars, inputs
    <2>2. PICK n, acc, C, rest, value : n = pass /\ acc = Given(n) /\ C = Tried(n) /\ rest = todo /\ value = SoFar
      OBVIOUS
    <2>3. SoFar' = value /\ todo' = rest /\ pass' = n
      BY <2>1, <2>2 DEF SoFar
    <2>4. Given(n)' = acc /\ Tried(n)' = C /\ Given(Done)' = Given(Done)
      BY <2>1, <2>2, SameFolds
    <2>5. Given(pass)' = acc /\ Tried(pass)' = C
      BY <2>3, <2>4
    <2>6. n # Done => HalfFolded(acc, C, rest, value)
      BY <2>2 DEF Folding
    <2>7. n # Done => HalfFolded(acc, C, rest, value)'
      BY <2>1, <2>6, SameFolds
    <2>8. n # Done => HalfFolded(Given(pass), Tried(pass), todo, SoFar)'
      BY <2>3, <2>5, <2>7 DEF HalfFolded
    <2> QED
      BY <2>1, <2>2, <2>3, <2>4, <2>5, <2>8 DEF Folding
  <1> QED
    BY <1>3, <1>4, <1>5, <1>6, <1>7, <1>8 DEF Next, Terminated

\* The loops of placeListeners, one iteration at a time, end with the value the
\* plan is built from: what is proved of one is true of the other.
THEOREM LoopsAreFolds == Spec => []AgreesWithPlan
  <1>1. Folding => AgreesWithPlan
    <2> SUFFICES ASSUME Folding, pass = Done
                 PROVE  PlaceListeners(serves, current, overflow) = [placed |-> placed, unplaced |-> unplaced]
      BY DEF AgreesWithPlan
    <2>1. SoFar = Result
      BY DEF Folding, Given, Done
    <2>2. deferred = {}
      BY DEF Folding, Done
    <2>3. Result.placed = placed /\ Result.left = unplaced
      BY <2>1, <2>2 DEF SoFar
    <2>4. PlaceListeners(serves, current, overflow) = [placed |-> Result.placed, unplaced |-> Result.left]
      BY DEF PlaceListeners, Result, Third, Second, First, Listener, Tried
    <2> QED
      BY <2>3, <2>4
  <1>2. IInv /\ Folding /\ [Next]_vars => Folding'
    BY StepFolding
  <1> QED
    BY <1>1, <1>2, InitFolding, InductiveInvariant, PTL DEF Spec

=============================================================================
