-------------------------- MODULE PlacementContract --------------------------
(***************************************************************************)
(* What the owner of a route may expect of the places of the listeners,    *)
(* from one plan of the managed Gateway to the next, whatever listeners    *)
(* are wanted: no listener moves for another's sake, none is refused while *)
(* there is room, no ListenerSet is opened for nothing.  Which hostnames   *)
(* want a listener, and in which order they are looked at, is not said.    *)
(***************************************************************************)
EXTENDS Listeners

VARIABLES
    overflow,  \* the ListenerSet API is installed
    wanted,    \* the hostnames of the listeners the plan needs
    where      \* [Host -> the parent of each listener, or Nowhere]

vars == <<overflow, wanted, where>>

OnParent(places, i) == {h \in Host : places[h] = i}

Full(places, i) == Cardinality(OnParent(places, i)) = Capacity(i)

\* The parent of h can keep every listener it has that is still wanted.
CanStay(h, hosts) ==
    /\ where[h] # Nowhere
    /\ Usable(where[h], overflow)
    /\ Cardinality({g \in hosts : where[g] = where[h]}) <= Capacity(where[h])

WithinCapacity(places) ==
    \A i \in Parent : /\ Cardinality(OnParent(places, i)) <= Capacity(i)
                      /\ OnParent(places, i) # {} => Usable(i, overflow)

NobodyMoves(hosts, places) ==
    \A h \in hosts : CanStay(h, hosts) => places[h] = where[h]

NoNeedlessRefusal(hosts, places) ==
    \A h \in hosts : places[h] = Nowhere => ~overflow /\ Full(places, GatewayParent)

NoNeedlessSet(places) ==
    \A i, j \in Parent :
        j < i /\ OnParent(where, i) = {} /\ OnParent(places, i) # {} => Full(places, j)

(* The places found when the controller starts are anything. *)
Init ==
    /\ overflow \in BOOLEAN
    /\ wanted \in SUBSET Host
    /\ where \in [Host -> Parent \cup {Nowhere}]

Replan ==
    /\ wanted' \in SUBSET Host
    /\ where' \in [Host -> Parent \cup {Nowhere}]
    /\ \A h \in Host : where'[h] # Nowhere => h \in wanted'
    /\ WithinCapacity(where')
    /\ NobodyMoves(wanted', where')
    /\ NoNeedlessRefusal(wanted', where')
    /\ NoNeedlessSet(where')
    /\ UNCHANGED overflow

Spec == Init /\ [][Replan]_vars

=============================================================================
