---------------------------- MODULE PlacementFold ----------------------------
(***************************************************************************)
(* placeListeners (internal/translator/gateway.go) as one value, for the   *)
(* planner; module ListenerPlacement takes its loops one iteration at a    *)
(* time.                                                                   *)
(***************************************************************************)
EXTENDS Listeners, SequencesExt

\* Fold step over the naturals of S in ascending order.
InOrder(step(_, _), base, S) ==
    MapThenFoldSet(LAMBDA x, acc : step(acc, x), base, LAMBDA x : x, LAMBDA T : Max(T), S)

-----------------------------------------------------------------------------
\* Mutant: every plan is packed anew.
PlaceListenersAnew(serves, current, overflow) ==
    LET hosts == {h \in Host : serves[h] # {}}
        rank(h) == Cardinality({g \in hosts : g < h})
        parent(h) == IF rank(h) < Capacity(GatewayParent) THEN GatewayParent
                     ELSE 1 + ((rank(h) - Capacity(GatewayParent)) \div ListenerSetCapacity)
        fits(h) == h \in hosts /\ Usable(parent(h), overflow)
    IN  [placed   |-> [h \in Host |-> IF fits(h) THEN parent(h) ELSE Nowhere],
         unplaced |-> {h \in hosts : ~fits(h)}]

\* The value carries where each listener is, how many each parent has and the
\* listeners left to the next pass.
NothingPlaced(listeners) ==
    [placed |-> [h \in Host |-> Nowhere], counts |-> [i \in Parent |-> 0], left |-> listeners]

Open(acc, choices, overflow) ==
    {i \in choices : Usable(i, overflow) /\ acc.counts[i] < Capacity(i)}

TryPlace(acc, h, choices, overflow) ==
    LET i == Min(Open(acc, choices, overflow)) IN
    IF Open(acc, choices, overflow) = {} THEN [acc EXCEPT !.left = @ \cup {h}]
    ELSE [acc EXCEPT !.placed[h] = i, !.counts[i] = @ + 1]

\* choices[h]: the parents this pass tries for h.
Pass(acc, choices, overflow) ==
    InOrder(LAMBDA a, h : TryPlace(a, h, choices[h], overflow), [acc EXCEPT !.left = {}], acc.left)

\* serves[h] is what the listener h serves, {} when there is none.
PlaceListeners(serves, current, overflow) ==
    LET first  == Pass(NothingPlaced({h \in Host : serves[h] # {}}),
                       [h \in Host |-> {current[h]} \ {Nowhere}], overflow)
        second == Pass(first, [h \in Host |-> Inherited(h, serves[h], current)], overflow)
        third  == Pass(second, [h \in Host |-> Parent], overflow)
    IN  [placed |-> third.placed, unplaced |-> third.left]

=============================================================================
