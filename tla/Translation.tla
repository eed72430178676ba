----------------------------- MODULE Translation -----------------------------
(***************************************************************************)
(* Translate (internal/translator/translate.go) and what Reconcile gives   *)
(* it: one Ingress, the plan of the managed Gateway and the selected       *)
(* Ingresses of its namespace become the routes of that Ingress, or none   *)
(* when an issue is fatal.                                                 *)
(*                                                                         *)
(* A route has a hostname (NoHost for the default server), the listeners   *)
(* its parentRefs name, its rules - whose path each is - and whether       *)
(* policies target it.  Sources are ordered by name.  An Ingress is        *)
(*                                                                         *)
(*   [tls, rules  |-> as in GatewayPlan; rules are the hosts it has rules  *)
(*                    for, NoHost for a rule without a host,               *)
(*    first       |-> the host of the first rule,                          *)
(*    paths       |-> [Name -> SUBSET Path], {} where there is no rule,    *)
(*    catchAll    |-> there is a spec.defaultBackend,                      *)
(*    aliases     |-> server-alias, redirect |-> ssl-redirect,             *)
(*    canary      |-> it is a canary, solver |-> it is an ACME solver's,   *)
(*    settings    |-> "none", "proxy" settings, or also a "body" size,     *)
(*    faulty      |-> something else in it cannot be translated]           *)
(***************************************************************************)
EXTENDS GatewayPlan

CONSTANTS
    NamespaceOf,  \* [Source -> namespace]
    Age,          \* [Source -> creation time]
    Covering,     \* [Host -> the wildcards whose suffix it ends with]
    Path,         \* paths; Root is "/"
    MaxRules      \* rules an HTTPRoute may have (16 in the code)

Root     == 0
Name     == Host \cup {NoHost}
NoSource == 0

\* Of two suffixes of one hostname the longer ends with the shorter, and
\* what ends with a suffix ends with the suffixes of that suffix.
ASSUME CoveringAssumption ==
    /\ Covering \in [Host -> SUBSET Wildcard]
    /\ \A h \in Host : \A w \in Covering[h] : Covering[w] \subseteq Covering[h]
    /\ \A h \in Host : \A v, w \in Covering[h] : v = w \/ v \in Covering[w] \/ w \in Covering[v]
    /\ \A h \in Host \ Wildcard : WildcardOf[h] \in Covering[h] \cup {NoHost}

ASSUME TranslationAssumption ==
    /\ Path \subseteq Nat /\ Root \in Path
    /\ Age \in [Source -> Nat]
    /\ DOMAIN NamespaceOf = Source
    /\ MaxRules \in Nat \ {0}

\* What Translate reads of an Ingress.
IsIngress(b) ==
    /\ IsBody(b)
    /\ b.paths \in [Name -> SUBSET Path] /\ \A h \in Name \ b.rules : b.paths[h] = {}
    /\ b.rules # {} => b.first \in b.rules
    /\ b.aliases \subseteq Host
    /\ {b.catchAll, b.redirect, b.canary, b.solver, b.faulty} \subseteq BOOLEAN
    /\ b.settings \in {"none", "proxy", "body"}

-----------------------------------------------------------------------------
(* Hosts and paths (collectHosts). *)

BasePaths(b) ==
    [h \in Name |-> b.paths[h] \cup IF b.catchAll /\ h = NoHost THEN {Root} ELSE {}]

FirstHost(b) == IF b.rules = {} THEN NoHost ELSE b.first

\* An alias mirrors the first host, unless it has rules of its own.
HostPaths(b) ==
    [h \in Name |-> IF h \in b.aliases /\ BasePaths(b)[h] = {} THEN BasePaths(b)[FirstHost(b)]
                    ELSE BasePaths(b)[h]]

Pairs(paths) == {x \in Name \X Path : x[2] \in paths[x[1]]}

\* ingressSpecRouteFootprints.
SpecFootprints(b) == Pairs(BasePaths(b))

\* ingressRouteFootprints: with the aliases, but of the rules of the first host.
RouteFootprints(b) ==
    SpecFootprints(b) \cup IF b.rules = {} THEN {} ELSE b.aliases \X b.paths[b.first]

\* The longest declared name that covers the host.
MatchingTLSHost(h, tlsHosts) ==
    IF h = NoHost \/ h \in tlsHosts THEN h
    ELSE LET covers == Covering[h] \cap tlsHosts
         IN  IF covers = {} THEN NoHost
             ELSE CHOOSE w \in covers : covers \ {w} \subseteq Covering[w]

RouteTLSHostnames(b, tlsHosts) ==
    {MatchingTLSHost(h, tlsHosts) : h \in b.rules \cup b.aliases} \ {NoHost}

-----------------------------------------------------------------------------
(* Canaries and overlaps among the selected Ingresses. *)

Neighbours(s, ingresses) == {t \in DOMAIN ingresses : NamespaceOf[t] = NamespaceOf[s]}

Older(s, t) == Age[s] < Age[t] \/ (Age[s] = Age[t] /\ s < t)

\* canaryAssignments: the oldest primary that has every rule of the canary.
AssignedTo(c, ingresses) ==
    LET wanted == SpecFootprints(ingresses[c])
        candidates == {p \in Neighbours(c, ingresses) :
                          ~ingresses[p].canary /\ wanted \subseteq SpecFootprints(ingresses[p])}
    IN  IF ~ingresses[c].canary \/ wanted = {} \/ candidates = {} THEN NoSource
        ELSE CHOOSE p \in candidates : \A q \in candidates \ {p} : Older(p, q)

CanariesOf(p, ingresses) == {c \in Neighbours(p, ingresses) : AssignedTo(c, ingresses) = p}

\* A canary inherits every annotation but its own three.
InheritedCanary(primary, canary) == [canary EXCEPT !.aliases = primary.aliases]

\* Mutant: only rules count, not the paths mirrored to aliases.
RequiresSettingsSnippetsOfSpec(s, b, ingresses) ==
    \E t \in Neighbours(s, ingresses) \ ({s} \cup CanariesOf(s, ingresses)) :
        SpecFootprints(ingresses[t]) \cap SpecFootprints(b) # {}

RequiresSettingsSnippets(s, b, ingresses) ==
    \E t \in Neighbours(s, ingresses) \ ({s} \cup CanariesOf(s, ingresses)) :
        RouteFootprints(ingresses[t]) \cap RouteFootprints(b) # {}

-----------------------------------------------------------------------------
(* Routes. *)

HTTPSection == [listener |-> NoHost, parent |-> GatewayParent]
NoRoute     == [refs |-> {}, rules |-> {}, policies |-> FALSE, redirect |-> FALSE]
NoRoutes    == [h \in Name |-> NoRoute]

\* Mutant: a route with TLS stays on the HTTP listener too.
ParentRefsOfBoth(b, h, gateway) ==
    LET t == MatchingTLSHost(h, gateway.tlsHosts)
    IN  IF b.solver \/ t = NoHost THEN {HTTPSection} ELSE {gateway.sections[t], HTTPSection}

(***************************************************************************)
(* applicationParentRefs.  NoSection stands for the configured HTTPS       *)
(* section name, which is used when no listener serves the hostname; a     *)
(* managed Gateway has no listener of that name.                           *)
(***************************************************************************)
ParentRefs(b, h, gateway) ==
    LET t == MatchingTLSHost(h, gateway.tlsHosts)
    IN  IF b.solver \/ t = NoHost THEN {HTTPSection}
        ELSE {gateway.sections[t]} \cup IF b.redirect THEN {} ELSE {HTTPSection}

Redirected(b, h, gateway) ==
    MatchingTLSHost(h, gateway.tlsHosts) # NoHost /\ b.redirect /\ ~b.canary /\ ~b.solver

\* The rules of the route for h: the primary's and those of its canaries.
Rules(s, b, ingresses, h) ==
    ({s} \X HostPaths(b)[h]) \cup
    UNION {{c} \X HostPaths(InheritedCanary(b, ingresses[c]))[h] : c \in CanariesOf(s, ingresses)}

Routes(s, b, ingresses, gateway) ==
    LET policies == b.settings # "none" /\ ~RequiresSettingsSnippets(s, b, ingresses) IN
    [h \in Name |->
        IF HostPaths(b)[h] = {} THEN NoRoute
        ELSE [refs     |-> ParentRefs(b, h, gateway),
              rules    |-> Rules(s, b, ingresses, h),
              policies |-> policies,
              redirect |-> Redirected(b, h, gateway)]]

\* ValidateCanary.
FaultyCanary(b) == b.canary /\ (b.faulty \/ b.catchAll)

\* Two canaries of one primary for one rule.
CanariesClash(s, b, ingresses) ==
    \E c, d \in CanariesOf(s, ingresses) :
        c # d /\ Pairs(HostPaths(InheritedCanary(b, ingresses[c])))
                 \cap Pairs(HostPaths(InheritedCanary(b, ingresses[d]))) # {}

FatalPrimary(s, b, ingresses) ==
    \/ b.faulty
    \/ Pairs(HostPaths(b)) = {}
    \/ \E c \in CanariesOf(s, ingresses) : FaultyCanary(ingresses[c])
    \/ CanariesClash(s, b, ingresses)
    \/ \E h \in Name : HostPaths(b)[h] # {} /\ Cardinality(Rules(s, b, ingresses, h)) > MaxRules
    \/ b.settings = "body" /\ RequiresSettingsSnippets(s, b, ingresses)

FatalCanary(s, b, ingresses) ==
    FaultyCanary(b) \/ s \notin DOMAIN ingresses \/ AssignedTo(s, ingresses) = NoSource

(***************************************************************************)
(* What Reconcile makes of s, read as b, with the Ingresses it lists after *)
(* the plan of the Gateway: a primary's routes, a canary's delegation, or  *)
(* nothing.                                                                *)
(***************************************************************************)
Translate(s, b, ingresses, gateway) ==
    LET told  == \E i \in gateway.issues : i.source = s
        fatal == told \/ IF b.canary THEN FatalCanary(s, b, ingresses) ELSE FatalPrimary(s, b, ingresses)
    IN  [fatal       |-> fatal,
         delegatedTo |-> IF b.canary /\ ~fatal THEN AssignedTo(s, ingresses) ELSE NoSource,
         routes      |-> IF fatal \/ b.canary THEN NoRoutes ELSE Routes(s, b, ingresses, gateway)]

=============================================================================
