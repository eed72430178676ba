----------------------------- MODULE GatewayPlan -----------------------------
(***************************************************************************)
(* BuildManagedGateway (internal/translator/gateway.go): the projection of *)
(* every selected Ingress's TLS entries onto the HTTPS listeners of the    *)
(* managed Gateway, its overflow ListenerSets and the ReferenceGrants of   *)
(* their certificates.                                                     *)
(*                                                                         *)
(* Sources (Ingresses) and Secrets are positive natural numbers too: their *)
(* rank in the order of "namespace/name".  A Secret stands for a           *)
(* (namespace, name) pair, so two Secrets are equal when both are.         *)
(*                                                                         *)
(*   ingresses     a function from the selected, non-deleting Ingresses to *)
(*                 [tls: Seq of [secret, hosts], rules: SUBSET of hosts];  *)
(*                 NoSecret and NoHost are the blank strings               *)
(*   certificates  [Secret -> CertificateInfo]; NoCertificate is a missing *)
(*                 map entry (or the whole map missing: no collapsing)     *)
(*   current       CurrentPlacements, [Host -> Placement]; NoPlacement is  *)
(*                 a missing map entry                                     *)
(***************************************************************************)
EXTENDS PlacementFold, Sequences

CONSTANTS
    Source,        \* the Ingresses
    Secret,        \* the TLS Secrets
    LocalSecret,   \* the Secrets in the Gateway's own namespace
    Fingerprint    \* fingerprints of certificate chains

NoSecret == 0
NoFingerprint == 0

ASSUME SecretAssumption ==
    /\ Source \subseteq Nat \ {0}
    /\ IsFiniteSet(Source)
    /\ Secret \subseteq Nat \ {0}
    /\ LocalSecret \subseteq Secret
    /\ Fingerprint \subseteq Nat \ {0}

CertificateInfo == [fingerprint : Fingerprint \cup {NoFingerprint}, wildcards : SUBSET Wildcard]
NoCertificate   == [fingerprint |-> NoFingerprint, wildcards |-> {}]

\* What the planner reads of an Ingress.
Entry == [secret : Secret \cup {NoSecret}, hosts : SUBSET (Host \cup {NoHost})]
IsBody(ing) == ing.tls \in Seq(Entry) /\ ing.rules \subseteq Host \cup {NoHost}

Placement   == [parent : Parent \cup {Nowhere}, secret : Secret \cup {NoSecret}]
NoPlacement == [parent |-> Nowhere, secret |-> NoSecret]
NoPlacements == [h \in Host |-> NoPlacement]

-----------------------------------------------------------------------------
(***************************************************************************)
(* Collecting the declarations, in Ingress order.  The first Ingress to    *)
(* name a Secret for a hostname owns it; a later one that agrees becomes   *)
(* the remembered source, a later one that disagrees is a conflict         *)
(* reported on itself and on the remembered source.                        *)
(***************************************************************************)
EffectiveTLSHosts(ing, entry) ==
    (IF entry.hosts # {} THEN entry.hosts ELSE ing.rules) \ {NoHost}

NoOwner == [secret |-> NoSecret, source |-> 0]

(***************************************************************************)
(* Definitions headed "Mutant" are slips in the definition they precede;   *)
(* no specification uses them.  Each breaks a property of the plans.       *)
(***************************************************************************)

\* Mutant: only the last Ingress to declare a hostname is remembered.
DeclareLast(acc, source, secret, hosts) ==
    LET conflicts == {h \in hosts : acc.owner[h].secret \notin {NoSecret, secret}} IN
    IF secret = NoSecret \/ hosts = {}
    THEN [acc EXCEPT !.issues = @ \cup {[source |-> source, host |-> NoHost]}]
    ELSE [owner      |-> [h \in Host |-> IF h \in hosts \ conflicts
                                         THEN [secret |-> secret, source |-> source]
                                         ELSE acc.owner[h]],
          declaredBy |-> [h \in Host |-> IF h \in hosts THEN {source} ELSE acc.declaredBy[h]],
          issues     |-> acc.issues \cup
                         UNION {[source : {source, acc.owner[h].source}, host : {h}] : h \in conflicts}]

\* Mutant: a conflict is reported on the newcomer only.
DeclareBlamesNewcomer(acc, source, secret, hosts) ==
    LET conflicts == {h \in hosts : acc.owner[h].secret \notin {NoSecret, secret}} IN
    [owner      |-> [h \in Host |-> IF secret # NoSecret /\ h \in hosts \ conflicts
                                    THEN [secret |-> secret, source |-> source]
                                    ELSE acc.owner[h]],
     declaredBy |-> [h \in Host |-> acc.declaredBy[h] \cup IF h \in hosts THEN {source} ELSE {}],
     issues     |-> acc.issues \cup [source : {source}, host : conflicts]]

Declare(acc, source, secret, hosts) ==
    LET conflicts == {h \in hosts : acc.owner[h].secret \notin {NoSecret, secret}} IN
    IF secret = NoSecret \/ hosts = {}
    THEN [acc EXCEPT !.issues = @ \cup {[source |-> source, host |-> NoHost]}]
    ELSE [owner      |-> [h \in Host |-> IF h \in hosts \ conflicts
                                         THEN [secret |-> secret, source |-> source]
                                         ELSE acc.owner[h]],
          declaredBy |-> [h \in Host |-> acc.declaredBy[h]
                                         \cup IF h \in hosts THEN {source} ELSE {}],
          issues     |-> acc.issues \cup
                         UNION {[source : {source, acc.owner[h].source}, host : {h}] : h \in conflicts}]

NothingDeclared ==
    [owner |-> [h \in Host |-> NoOwner], declaredBy |-> [h \in Host |-> {}], issues |-> {}]

CollectIngress(acc, source, ing) ==
    FoldLeft(LAMBDA a, entry : Declare(a, source, entry.secret, EffectiveTLSHosts(ing, entry)),
             acc, ing.tls)

Collect(ingresses) ==
    InOrder(LAMBDA acc, s : CollectIngress(acc, s, ingresses[s]), NothingDeclared, DOMAIN ingresses)

-----------------------------------------------------------------------------
(***************************************************************************)
(* Collapsing.  A hostname whose certificate carries its one-label         *)
(* wildcard claims that wildcard's listener.  secretOf[h] is the Secret of *)
(* each declared hostname, NoSecret for the others.                        *)
(***************************************************************************)
CoveringWildcard(h, info) ==
    IF h \in Wildcard THEN NoHost
    ELSE IF WildcardOf[h] \in info.wildcards THEN WildcardOf[h] ELSE NoHost

Target(h, secretOf, certificates) ==
    LET w == CoveringWildcard(h, certificates[secretOf[h]])
    IN  IF w = NoHost THEN h ELSE w

\* Mutant: any certificate with the wildcard will do.
ClassOfAny(secret, certificates) == <<"any", 0>>

\* Secrets holding the same chain are one class of certificates.
ClassOf(secret, certificates) ==
    IF certificates[secret].fingerprint # NoFingerprint
    THEN <<"fp", certificates[secret].fingerprint>>
    ELSE <<"secret", secret>>

ExactListener(h, secretOf) == [hostname |-> h, secret |-> secretOf[h], hosts |-> {h}]

\* The listener a claim had before: its own, else the wildcard's.
Previous(h, w, current) ==
    IF current[h].parent # Nowhere THEN h
    ELSE IF current[w].parent # Nowhere THEN w ELSE NoHost

\* Mutant: the claims that would stay are counted.
Stayers(members, w, claims, current) ==
    Cardinality({h \in claims : Previous(h, w, current) = IF h \in members THEN w ELSE h})

\* How many claims change listener when `members` win the wildcard.
Churn(members, w, claims, current) ==
    Cardinality({h \in claims :
        Previous(h, w, current) \notin {NoHost, IF h \in members THEN w ELSE h}})

(***************************************************************************)
(* resolveWildcardGroup: one class wins the wildcard listener, every claim *)
(* of the others falls back to its own exact listener.  A declared         *)
(* wildcard wins outright; else the class that moves the fewest hostnames, *)
(* then the one with the most hostnames, then with the first Secret.       *)
(***************************************************************************)
Members(c, claims, secretOf, certificates) ==
    {h \in claims : ClassOf(secretOf[h], certificates) = c}

SecretsOf(hosts, secretOf) == {secretOf[h] : h \in hosts}

\* Whether the hostnames m win the wildcard rather than the hostnames n.
Better(m, n, w, claims, secretOf, current) ==
    LET churn(hosts) == Churn(hosts, w, claims, current)
        first(hosts) == Min(SecretsOf(hosts, secretOf))
    IN  \/ churn(m) < churn(n)
        \/ churn(m) = churn(n) /\ Cardinality(m) > Cardinality(n)
        \/ churn(m) = churn(n) /\ Cardinality(m) = Cardinality(n) /\ first(m) < first(n)

\* The hostnames of the winning class.
Winner(w, claims, secretOf, certificates, current) ==
    LET class(h) == Members(ClassOf(secretOf[h], certificates), claims, secretOf, certificates)
        classes  == {class(h) : h \in claims}
    IN  IF w \in claims THEN class(w)
        ELSE CHOOSE m \in classes : \A n \in classes \ {m} : Better(m, n, w, claims, secretOf, current)

WildcardGroup(w, claims, secretOf, certificates, current) ==
    LET winner    == Winner(w, claims, secretOf, certificates, current)
        secrets   == SecretsOf(winner, secretOf)
        canonical == IF current[w].secret \in secrets THEN current[w].secret ELSE Min(secrets)
    IN  {[hostname |-> w, secret |-> canonical, hosts |-> winner]}
        \cup {ExactListener(h, secretOf) : h \in claims \ winner}

\* Mutant: the claims of a wildcard are grouped by Secret first.
ProjectedPerSecret(secretOf, certificates, current) ==
    LET declared  == {h \in Host : secretOf[h] # NoSecret}
        target(h) == Target(h, secretOf, certificates)
        claims(h) == {g \in declared : target(g) = target(h) /\ secretOf[g] = secretOf[h]}
        listeners(h) == IF target(h) \in Wildcard
                        THEN WildcardGroup(target(h), claims(h), secretOf, certificates, current)
                        ELSE {ExactListener(h, secretOf)}
    IN  UNION {listeners(h) : h \in declared}

Projected(secretOf, certificates, current) ==
    LET declared  == {h \in Host : secretOf[h] # NoSecret}
        claims(t) == {h \in declared : Target(h, secretOf, certificates) = t}
        listeners(t) == IF t \in Wildcard
                        THEN WildcardGroup(t, claims(t), secretOf, certificates, current)
                        ELSE {ExactListener(t, secretOf)}
    IN  UNION {listeners(Target(h, secretOf, certificates)) : h \in declared}

-----------------------------------------------------------------------------
(***************************************************************************)
(* The plan.  tlsHosts, sections (the listener and parent serving each     *)
(* declared hostname), placements, issues (source and hostname of each)    *)
(* and the Secrets a ReferenceGrant is needed for.  What the Gateway and   *)
(* the ListenerSets list follows from the placements.                      *)
(***************************************************************************)
NoSection == [listener |-> NoHost, parent |-> Nowhere]

\* Mutant: a listener that is no more still asks for a grant.
GrantsOfAll(placements) == {placements[h].secret : h \in Host} \ LocalSecret

Grants(placements) == {placements[h].secret : h \in Host} \ (LocalSecret \cup {NoSecret})

\* What the listeners and their places come to.
PlanOf(collected, projected, serves, outcome) ==
    LET secret(n) == (CHOOSE l \in projected : l.hostname = n).secret
        servedBy(h) == {n \in Host : outcome.placed[n] # Nowhere /\ h \in serves[n]}
        section(n) == [listener |-> n, parent |-> outcome.placed[n]]
        placements == [n \in Host |-> IF outcome.placed[n] = Nowhere THEN NoPlacement
                                      ELSE [parent |-> outcome.placed[n], secret |-> secret(n)]]
        rejected   == UNION {serves[n] : n \in outcome.unplaced}
    IN  [tlsHosts   |-> {h \in Host : collected.owner[h].secret # NoSecret},
         projected  |-> projected,
         sections   |-> [h \in Host |-> IF servedBy(h) = {} THEN NoSection
                                        ELSE section(CHOOSE n \in servedBy(h) : TRUE)],
         placements |-> placements,
         issues     |-> collected.issues \cup
                        UNION {[source : collected.declaredBy[h], host : {h}] : h \in rejected},
         grants     |-> Grants(placements)]

PlaceProjected(collected, projected, current, overflow) ==
    LET serves == [n \in Host |-> UNION {l.hosts : l \in {m \in projected : m.hostname = n}}]
        parents == [h \in Host |-> current[h].parent]
    IN  PlanOf(collected, projected, serves, PlaceListeners(serves, parents, overflow))

BuildManagedGateway(ingresses, certificates, current, overflow) ==
    LET collected == Collect(ingresses)
        secretOf  == [h \in Host |-> collected.owner[h].secret]
    IN  PlaceProjected(collected, Projected(secretOf, certificates, current), current, overflow)

(***************************************************************************)
(* ChangedTLSHosts: the declared hostnames whose serving listener is not   *)
(* the one the previous placements give: the hostname's own, else its      *)
(* wildcard's.                                                             *)
(***************************************************************************)
ListenerRefFor(h, placements) ==
    LET names == {h} \cup Relatives(h, {}) IN
    IF placements[h].parent # Nowhere THEN [listener |-> h, parent |-> placements[h].parent]
    ELSE IF \E n \in names : placements[n].parent # Nowhere
    THEN LET n == CHOOSE n \in names : placements[n].parent # Nowhere
         IN  [listener |-> n, parent |-> placements[n].parent]
    ELSE NoSection

ChangedTLSHosts(previous, plan) ==
    {h \in Host : /\ plan.sections[h] # NoSection
                  /\ plan.sections[h] # ListenerRefFor(h, previous)}

=============================================================================
