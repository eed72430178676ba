-------------------------- MODULE GatewayReplanning --------------------------
(***************************************************************************)
(* What successive plans of the managed Gateway promise when nothing       *)
(* fails: Ingresses and certificates change one at a time and each change  *)
(* is followed by a replan that starts from the placements of the plan     *)
(* before it.  Module ManagedGateway adds the API calls, the failures, the *)
(* restarts and the caches between a change and its plan.                  *)
(***************************************************************************)
EXTENDS GatewayPlan

CONSTANTS
    Declarations,  \* [Source -> set of the Ingress bodies it may have]
    Infos          \* [Secret -> set of the certificate infos it may hold]

ASSUME ReplanningAssumption ==
    /\ \A s \in Source : \A d \in Declarations[s] : IsBody(d)
    /\ \A k \in Secret : Infos[k] \subseteq CertificateInfo
    /\ EnoughSets

VARIABLES
    overflow,      \* the ListenerSet API is installed: found once, at the start
    ingresses,     \* the selected Ingresses: a function from a set of Sources
    certificates,  \* what is known of every Secret
    plan           \* the last plan

vars == <<overflow, ingresses, certificates, plan>>

NoIngresses == [s \in {} |-> {}]

Replan(i, c) ==
    /\ ingresses' = i
    /\ certificates' = c
    /\ plan' = BuildManagedGateway(i, c, plan.placements, overflow)
    /\ UNCHANGED overflow

Init ==
    /\ overflow \in BOOLEAN
    /\ ingresses = NoIngresses
    /\ certificates \in {c \in [Secret -> UNION {Infos[k] : k \in Secret}] : \A k \in Secret : c[k] \in Infos[k]}
    /\ plan = BuildManagedGateway(ingresses, certificates, NoPlacements, overflow)

\* An Ingress is created or edited.
PutIngress(s) ==
    \E d \in Declarations[s] :
        Replan([t \in DOMAIN ingresses \cup {s} |-> IF t = s THEN d ELSE ingresses[t]], certificates)

\* An Ingress is deleted or no longer selected.
DropIngress(s) ==
    /\ s \in DOMAIN ingresses
    /\ Replan([t \in DOMAIN ingresses \ {s} |-> ingresses[t]], certificates)

\* A Secret is created, renewed, replaced or removed.
ChangeCertificate(k) ==
    \E info \in Infos[k] : Replan(ingresses, [certificates EXCEPT ![k] = info])

Next ==
    \/ \E s \in Source : PutIngress(s) \/ DropIngress(s)
    \/ \E k \in Secret : ChangeCertificate(k)

Spec == Init /\ [][Next]_vars

-----------------------------------------------------------------------------
TypeOK ==
    /\ overflow \in BOOLEAN
    /\ DOMAIN ingresses \subseteq Source
    /\ certificates \in [Secret -> CertificateInfo]
    /\ plan.placements \in [Host -> Placement]
    /\ plan.tlsHosts \subseteq Host
    /\ plan.grants \subseteq Secret

Declarers(h) ==
    {s \in DOMAIN ingresses : \E e \in DOMAIN ingresses[s].tls :
        /\ ingresses[s].tls[e].secret # NoSecret
        /\ h \in EffectiveTLSHosts(ingresses[s], ingresses[s].tls[e])}

\* BuildManagedGateway's "every declared hostname is served by exactly one
\* listener" or, when no parent has room for it, reported on every Ingress
\* that declares it.
ServedOnceOrReported ==
    \A h \in plan.tlsHosts :
        /\ Cardinality({l \in plan.projected : h \in l.hosts}) = 1
        /\ plan.sections[h] = NoSection =>
               \A s \in Declarers(h) : [source |-> s, host |-> h] \in plan.issues

\* "hostnames never duplicate across parents": no two listeners share a
\* hostname, whichever certificates compete for a wildcard.
OneListenerPerHostname ==
    \A l, m \in plan.projected : l.hostname = m.hostname => l = m

SameChain(k, l) ==
    \/ k = l
    \/ /\ certificates[k].fingerprint = certificates[l].fingerprint
       /\ certificates[k].fingerprint # NoFingerprint

(***************************************************************************)
(* A hostname is only ever served under the certificate its own Ingress    *)
(* named: through its own listener or a wildcard one that covers it, with  *)
(* a Secret that holds the same chain as the one first declared for it.    *)
(***************************************************************************)
RightCertificate ==
    \A h \in Host :
        LET n == plan.sections[h].listener
            first == CHOOSE s \in Declarers(h) : \A t \in Declarers(h) : s <= t
        IN  plan.sections[h] # NoSection =>
                /\ n = h \/ (h \notin Wildcard /\ n = WildcardOf[h])
                /\ \E e \in DOMAIN ingresses[first].tls :
                      /\ h \in EffectiveTLSHosts(ingresses[first], ingresses[first].tls[e])
                      /\ SameChain(ingresses[first].tls[e].secret, plan.placements[n].secret)

\* The Secrets that an Ingress names for a hostname.
NamedFor(s, h) ==
    {ingresses[s].tls[e].secret : e \in {f \in DOMAIN ingresses[s].tls :
        h \in EffectiveTLSHosts(ingresses[s], ingresses[s].tls[f])}} \ {NoSecret}

(***************************************************************************)
(* "Conflicting Secrets for the same hostname are fatal for both source    *)
(* Ingresses" (docs/architecture.md): an Ingress whose Secret for a        *)
(* hostname is not one the first declarer names is told, and so is one no  *)
(* later than it, not always the first, that names one of those.           *)
(***************************************************************************)
ConflictReported ==
    \A h \in Host : \A s, first \in Declarers(h) :
        (\A t \in Declarers(h) : first <= t) /\ NamedFor(s, h) \ NamedFor(first, h) # {}
        => \E w \in Declarers(h) :
              /\ w <= s /\ NamedFor(w, h) \cap NamedFor(first, h) # {}
              /\ {[source |-> x, host |-> h] : x \in {s, w}} \subseteq plan.issues

Again == BuildManagedGateway(ingresses, certificates, plan.placements, overflow)

(***************************************************************************)
(* Planning again with nothing changed changes nothing and moves no route, *)
(* so repeated reconciliations do not oscillate between certificate        *)
(* classes.  Only where some hostname has to do without a listener may the *)
(* next plan differ: NothingToMove below.                                  *)
(***************************************************************************)
Settled ==
    overflow \/ (\A h \in plan.tlsHosts : plan.sections[h] # NoSection)
    => /\ Again.placements = plan.placements
       /\ Again.sections = plan.sections
       /\ Again.issues = plan.issues
       /\ ChangedTLSHosts(plan.placements, Again) = {}

Contract ==
    INSTANCE PlacementContract
        WITH wanted <- {l.hostname : l \in plan.projected},
             where  <- [h \in Host |-> plan.placements[h].parent]

\* Whatever Ingresses and certificates do, the places of the listeners change
\* as PlacementContract says: no route has to follow a listener that stays
\* wanted, and BuildManagedGateway refuses a hostname for want of room only.
HonoursContract == Contract!Spec

-----------------------------------------------------------------------------
(***************************************************************************)
(* What the documentation says of the same steps and the code does not do. *)
(***************************************************************************)

(***************************************************************************)
(* docs/architecture.md: the certificate class that serves a wildcard is   *)
(* picked "minimizing how many listeners change parent versus the previous *)
(* plan", and a listener stays where it is "as long as there is room".  So *)
(* with nothing changed no hostname that is served changes listener.       *)
(***************************************************************************)
NothingToMove ==
    \A h \in plan.tlsHosts :
        plan.sections[h] # NoSection => Again.sections[h] = plan.sections[h]

\* ChangedTLSHosts "reports every declared TLS hostname whose serving listener
\* differs between the previous and the newly built plan".
ChangedIsComplete ==
    [][\A h \in plan.tlsHosts :
         plan'.sections[h] \notin {NoSection, plan.sections[h]}
         => h \in ChangedTLSHosts(plan.placements, plan')]_vars

=============================================================================
