-------------------------- MODULE ListenerPlacement --------------------------
(***************************************************************************)
(* placeListeners (internal/translator/gateway.go), one loop iteration per *)
(* step.  It gives every projected listener a parent in three passes over  *)
(* the hostnames in ascending order: the previous parent, then a parent    *)
(* inherited from a related hostname, then the first parent with room.     *)
(* Without the ListenerSet API a listener that does not fit the Gateway is *)
(* reported instead of placed.                                             *)
(***************************************************************************)
EXTENDS PlacementFold

VARIABLES
    serves,    \* input: the hostnames a listener serves, {} for no listener
    current,   \* input: previous parent of each listener hostname, or Nowhere
    overflow,  \* input: the ListenerSet API is installed
    pass,      \* the pass being run; Done after the third
    todo,      \* listeners this pass has not looked at
    deferred,  \* listeners this pass leaves to the next one
    placed,    \* the parent given to each listener, or Nowhere
    counts,    \* listeners placed on each parent
    unplaced   \* listeners the last pass could not place

inputs == <<serves, current, overflow>>
vars   == <<serves, current, overflow, pass, todo, deferred, placed, counts, unplaced>>

Done == 4

Listener == {h \in Host : serves[h] # {}}

On(i) == {h \in Host : placed[h] = i}

TypeOK ==
    /\ serves \in [Host -> SUBSET Host]
    /\ current \in [Host -> Parent \cup {Nowhere}]
    /\ overflow \in BOOLEAN
    /\ pass \in 1 .. Done
    /\ todo \subseteq Host
    /\ deferred \subseteq Host
    /\ placed \in [Host -> Parent \cup {Nowhere}]
    /\ counts \in [Parent -> Nat]
    /\ unplaced \subseteq Host

-----------------------------------------------------------------------------
(***************************************************************************)
(* An exact listener serves its own hostname; a wildcard listener serves   *)
(* hostnames it covers, its own included when an Ingress declares it.      *)
(* `current` is whatever the last plan or the labelled objects found in    *)
(* the cluster say, so it is not assumed to respect the capacities.        *)
(***************************************************************************)
CanServe(h) ==
    {h} \cup IF h \in Wildcard THEN {m \in Host \ Wildcard : WildcardOf[m] = h} ELSE {}

Init ==
    /\ \E pairs \in SUBSET {p \in Host \X Host : p[2] \in CanServe(p[1])} :
          serves = [h \in Host |-> {m \in Host : <<h, m>> \in pairs}]
    /\ current \in [Host -> Parent \cup {Nowhere}]
    /\ overflow \in BOOLEAN
    /\ pass = 1
    /\ todo = Listener
    /\ deferred = {}
    /\ placed = [h \in Host |-> Nowhere]
    /\ counts = [i \in Parent |-> 0]
    /\ unplaced = {}

IsNext(h) == h \in todo /\ \A g \in todo : h <= g

(***************************************************************************)
(* Definitions headed "Mutant" are slips a maintainer could make in the    *)
(* definition they precede; no specification uses them.  Each breaks a     *)
(* property below, which shows that the property depends on that code.     *)
(***************************************************************************)

\* Mutant: one listener too many.
HasRoomForOneMore(i) == i \in Parent /\ Usable(i, overflow) /\ counts[i] <= Capacity(i)

\* tryPlace's test: the parent can be used and is not full.
HasRoom(i) == i \in Parent /\ Usable(i, overflow) /\ counts[i] < Capacity(i)

\* Mutant: ListenerSets numbered from one too high.
PlaceOneSetOn(h, i) ==
    /\ placed' = [placed EXCEPT ![h] = i + 1]
    /\ counts' = [counts EXCEPT ![i] = @ + 1]
    /\ todo' = todo \ {h}
    /\ UNCHANGED <<inputs, pass, deferred, unplaced>>

Place(h, i) ==
    /\ placed' = [placed EXCEPT ![h] = i]
    /\ counts' = [counts EXCEPT ![i] = @ + 1]
    /\ todo' = todo \ {h}
    /\ UNCHANGED <<inputs, pass, deferred, unplaced>>

Defer(h) ==
    /\ deferred' = deferred \cup {h}
    /\ todo' = todo \ {h}
    /\ UNCHANGED <<inputs, pass, placed, counts, unplaced>>

\* Mutant: the previous plan is not consulted.
KeepNothing(h) == pass = 1 /\ Defer(h)

\* First pass: stay where the previous plan put the listener.
KeepPrevious(h) ==
    /\ pass = 1
    /\ IF HasRoom(current[h]) THEN Place(h, current[h]) ELSE Defer(h)

\* Mutant: only the listener's own history counts.
InheritNothing(h) == pass = 2 /\ Defer(h)

\* Second pass: go where a related hostname was.
Inherit(h) ==
    /\ pass = 2
    /\ LET from == {i \in Inherited(h, serves[h], current) : HasRoom(i)}
       IN  IF from # {} THEN \E i \in from : Place(h, i) ELSE Defer(h)

\* Mutant: any parent with room, not the first.
AnyFit(h) == pass = 3 /\ \E i \in Parent : HasRoom(i) /\ Place(h, i)

\* Third pass: the Gateway, else the first ListenerSet with room.
FirstFit(h) ==
    /\ pass = 3
    /\ \E i \in Parent : /\ HasRoom(i)
                         /\ \A j \in Parent : j < i => ~HasRoom(j)
                         /\ Place(h, i)

\* Mutant: the listener is dropped in silence.
ReportNothing(h) ==
    /\ pass = 3
    /\ ~HasRoom(GatewayParent)
    /\ ~overflow
    /\ todo' = todo \ {h}
    /\ UNCHANGED <<inputs, pass, deferred, placed, counts, unplaced>>

\* Mutant: without ListenerSets, what is new is reported before the Gateway is full.
ReportEarly(h) ==
    /\ pass = 3
    /\ ~overflow
    /\ unplaced' = unplaced \cup {h}
    /\ todo' = todo \ {h}
    /\ UNCHANGED <<inputs, pass, deferred, placed, counts>>

Report(h) ==
    /\ pass = 3
    /\ ~HasRoom(GatewayParent)
    /\ ~overflow
    /\ unplaced' = unplaced \cup {h}
    /\ todo' = todo \ {h}
    /\ UNCHANGED <<inputs, pass, deferred, placed, counts>>

EndPass ==
    /\ pass < Done
    /\ todo = {}
    /\ pass' = pass + 1
    /\ todo' = deferred
    /\ deferred' = {}
    /\ UNCHANGED <<inputs, placed, counts, unplaced>>

Terminated == pass = Done /\ UNCHANGED vars

Next ==
    \/ \E h \in Host : IsNext(h) /\ (KeepPrevious(h) \/ Inherit(h) \/ FirstFit(h) \/ Report(h))
    \/ EndPass
    \/ Terminated

Spec == Init /\ [][Next]_vars

-----------------------------------------------------------------------------
(***************************************************************************)
(* No listener is lost or handled twice: placeListeners splits the         *)
(* projected listeners into those with a parent and those reported.        *)
(***************************************************************************)
Partition ==
    /\ Listener = todo \cup deferred \cup unplaced \cup {h \in Host : placed[h] # Nowhere}
    /\ todo \cap (deferred \cup unplaced) = {}
    /\ deferred \cap unplaced = {}
    /\ \A h \in todo \cup deferred \cup unplaced : placed[h] = Nowhere

\* No parent ever carries more listeners than the Gateway API accepts, and no
\* ListenerSet is used when its API is missing.
CapacityRespected ==
    \A i \in Parent : /\ Cardinality(On(i)) <= Capacity(i)
                      /\ On(i) # {} => Usable(i, overflow)

(***************************************************************************)
(* Stickiness.  Once the first pass is over, a listener is where the       *)
(* previous plan had it, unless that parent cannot be used or was the      *)
(* previous parent of more listeners than fit it: newcomers and listeners  *)
(* that move never displace one that was there.                            *)
(***************************************************************************)
Sticky ==
    pass > 1 =>
        \A h \in Listener :
            LET here == {g \in Listener : current[g] = current[h]} IN
            /\ current[h] # Nowhere
            /\ Usable(current[h], overflow)
            /\ Cardinality(here) <= Capacity(current[h])
            => placed[h] = current[h]

\* A listener is reported only when there is nowhere to put it: the API of the
\* ListenerSets is missing and the Gateway is full, and stays full.
ReportedOnlyWhenFull ==
    unplaced # {} => /\ ~overflow
                     /\ Cardinality(On(GatewayParent)) = Capacity(GatewayParent)

(***************************************************************************)
(* No needless ListenerSet: a listener that is on one without being kept   *)
(* or inherited there found the Gateway and every earlier set full.        *)
(***************************************************************************)
FirstFitOnly ==
    \A h \in Host :
        LET i == placed[h] IN
        i > 0 /\ i # current[h] /\ i \notin Inherited(h, serves[h], current)
        => \A j \in Parent : j < i => Cardinality(On(j)) = Capacity(j)

\* The loops of placeListeners end with the value the plan is built from.
AgreesWithPlan ==
    pass = Done => PlaceListeners(serves, current, overflow) = [placed |-> placed, unplaced |-> unplaced]

Contract ==
    INSTANCE PlacementContract
        WITH wanted <- Listener,
             where  <- IF pass = Done THEN placed ELSE current

\* The three passes together are one step of PlacementContract, from the
\* places the previous plan left to those placeListeners returns.
HonoursContract == Contract!Spec

=============================================================================
