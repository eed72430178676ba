------------------------------ MODULE Listeners ------------------------------
(***************************************************************************)
(* The vocabulary of the managed Gateway's HTTPS listeners: hostnames, the *)
(* parents that can carry a listener (the Gateway and the bridge-managed   *)
(* overflow ListenerSets) and how many listeners each parent takes.        *)
(*                                                                         *)
(* A hostname is a positive natural number: its rank in the string order   *)
(* the code sorts by.  Nothing else of its spelling matters, except which  *)
(* hostnames start with "*." (Wildcard) and which wildcard replaces the    *)
(* first label of an exact hostname (WildcardOf).                          *)
(***************************************************************************)
EXTENDS Integers, FiniteSets

CONSTANTS
    Host,                  \* every TLS hostname an Ingress may declare
    Wildcard,              \* those of the form "*.suffix"
    WildcardOf,            \* "a.b.c" |-> "*.b.c"; NoHost for a single label
    GatewayHTTPSCapacity,  \* HTTPS listeners the Gateway takes (63 in the code)
    ListenerSetCapacity,   \* listeners one ListenerSet takes (64 in the code)
    MaxListenerSet         \* bound: highest ListenerSet index considered

NoHost == 0

\* The parent of a listener: 0 is the Gateway, i >= 1 the i-th ListenerSet.
GatewayParent == 0
Parent  == 0 .. MaxListenerSet
Nowhere == -1

ASSUME HostAssumption ==
    /\ Host \subseteq Nat \ {0}
    /\ IsFiniteSet(Host)
    /\ Wildcard \subseteq Host
    /\ WildcardOf \in [Host \ Wildcard -> Wildcard \cup {NoHost}]

ASSUME CapacityAssumption ==
    /\ GatewayHTTPSCapacity \in Nat
    /\ ListenerSetCapacity \in Nat \ {0}
    /\ MaxListenerSet \in Nat

\* There is no highest ListenerSet in the code: the bound must not be reached.
EnoughSets == Cardinality(Host) <= GatewayHTTPSCapacity + MaxListenerSet * ListenerSetCapacity

Capacity(i) == IF i = GatewayParent THEN GatewayHTTPSCapacity ELSE ListenerSetCapacity

\* A ListenerSet is a parent only when its API is installed.
Usable(i, overflow) == i = GatewayParent \/ overflow

(***************************************************************************)
(* inheritedPlacement: the parents (none or one) a listener that has never *)
(* been placed itself may inherit.  A wildcard listener inherits from the  *)
(* first hostname it serves that was placed, an exact listener from its    *)
(* wildcard.  current[h] is the previous parent of h's listener, or        *)
(* Nowhere.                                                                *)
(***************************************************************************)
Relatives(h, hosts) ==
    IF h \in Wildcard THEN hosts \ {h} ELSE {WildcardOf[h]} \ {NoHost}

Inherited(h, hosts, current) ==
    LET known == {r \in Relatives(h, hosts) : current[r] # Nowhere}
    IN  {current[r] : r \in {k \in known : \A j \in known : k <= j}}

=============================================================================
