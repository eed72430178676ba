------------------------ MODULE GatewayReplanningProofs ------------------------
(***************************************************************************)
(* Proofs about GatewayReplanning, for every set of Ingresses, hostnames,  *)
(* Secrets and capacities: whatever plan the properties speak of, it is    *)
(* one that BuildManagedGateway makes of Ingresses and certificates of the *)
(* right types from some previous placements (Planned), and what such a    *)
(* plan is like is what GatewayPlanProofs shows.                           *)
(***************************************************************************)
EXTENDS GatewayReplanning, GatewayPlanProofs

\* The plan is that of the Ingresses and certificates there are.
Planned ==
    \E cu \in [Host -> Placement] : plan = BuildManagedGateway(ingresses, certificates, cu, overflow)

IInv ==
    /\ overflow \in BOOLEAN
    /\ Selection(ingresses)
    /\ certificates \in [Secret -> CertificateInfo]
    /\ Planned

\* Whatever was placed before, the placements of a plan have their type.
LEMMA PlacementsType ==
  ASSUME NEW ings, NEW ce, NEW cu, NEW ov, PlanInputs(ings, ce, cu, ov)
  PROVE  BuildManagedGateway(ings, ce, cu, ov).placements \in [Host -> Placement]
  BY PlanIs, ReplanningAssumption

\* A first plan.
LEMMA InitPlanned == Init => IInv
  <1> SUFFICES ASSUME Init PROVE IInv
    OBVIOUS
  <1>1. overflow \in BOOLEAN /\ ingresses = NoIngresses
        /\ plan = BuildManagedGateway(ingresses, certificates, NoPlacements, overflow)
    BY DEF Init
  <1>2. Selection(ingresses)
    BY <1>1 DEF Selection, NoIngresses
  <1>3. certificates \in [Secret -> CertificateInfo]
    <2>1. certificates \in [Secret -> UNION {Infos[k] : k \in Secret}] /\ \A k \in Secret : certificates[k] \in Infos[k]
      BY DEF Init
    <2> QED
      BY <2>1, ReplanningAssumption
  <1>4. NoPlacements \in [Host -> Placement]
    BY DEF NoPlacements, NoPlacement, Placement
  <1> QED
    BY <1>1, <1>2, <1>3, <1>4 DEF IInv, Planned

\* Every change is followed by a plan of what it leaves.
LEMMA NextPlans ==
  IInv /\ Next => /\ PlanInputs(ingresses', certificates', plan.placements, overflow)
                  /\ plan' = BuildManagedGateway(ingresses', certificates', plan.placements, overflow)
                  /\ overflow' = overflow
  <1> SUFFICES ASSUME IInv, Next
               PROVE  /\ PlanInputs(ingresses', certificates', plan.placements, overflow)
                      /\ plan' = BuildManagedGateway(ingresses', certificates', plan.placements, overflow)
                      /\ overflow' = overflow
    OBVIOUS
  <1>1. overflow \in BOOLEAN /\ Selection(ingresses) /\ certificates \in [Secret -> CertificateInfo]
    BY DEF IInv
  <1>2. plan.placements \in [Host -> Placement]
    <2>1. PICK cu \in [Host -> Placement] : plan = BuildManagedGateway(ingresses, certificates, cu, overflow)
      BY DEF IInv, Planned
    <2>2. PlanInputs(ingresses, certificates, cu, overflow)
      BY <1>1 DEF PlanInputs
    <2> QED
      BY <2>1, <2>2, PlacementsType
  <1>3. ASSUME NEW i, NEW c, Replan(i, c), Selection(i), c \in [Secret -> CertificateInfo]
        PROVE  /\ PlanInputs(ingresses', certificates', plan.placements, overflow)
               /\ plan' = BuildManagedGateway(ingresses', certificates', plan.placements, overflow)
               /\ overflow' = overflow
    BY <1>1, <1>2, <1>3 DEF Replan, PlanInputs
  <1>4. ASSUME NEW s \in Source, PutIngress(s)
        PROVE  \E i, c : Replan(i, c) /\ Selection(i) /\ c \in [Secret -> CertificateInfo]
    <2>1. PICK d \in Declarations[s] :
             Replan([t \in DOMAIN ingresses \cup {s} |-> IF t = s THEN d ELSE ingresses[t]], certificates)
      BY <1>4 DEF PutIngress
    <2>2. IsBody(d)
      BY ReplanningAssumption
    <2>3. Selection([t \in DOMAIN ingresses \cup {s} |-> IF t = s THEN d ELSE ingresses[t]])
      BY <1>1, <2>2 DEF Selection
    <2> QED
      BY <1>1, <2>1, <2>3
  <1>5. ASSUME NEW s \in Source, DropIngress(s)
        PROVE  \E i, c : Replan(i, c) /\ Selection(i) /\ c \in [Secret -> CertificateInfo]
    <2>1. Replan([t \in DOMAIN ingresses \ {s} |-> ingresses[t]], certificates)
      BY <1>5 DEF DropIngress
    <2>2. Selection([t \in DOMAIN ingresses \ {s} |-> ingresses[t]])
      BY <1>1 DEF Selection
    <2> QED
      BY <1>1, <2>1, <2>2
  <1>6. ASSUME NEW k \in Secret, ChangeCertificate(k)
        PROVE  \E i, c : Replan(i, c) /\ Selection(i) /\ c \in [Secret -> CertificateInfo]
    <2>1. PICK info \in Infos[k] : Replan(ingresses, [certificates EXCEPT ![k] = info])
      BY <1>6 DEF ChangeCertificate
    <2>2. [certificates EXCEPT ![k] = info] \in [Secret -> CertificateInfo]
      BY <1>1, ReplanningAssumption
    <2> QED
      BY <1>1, <2>1, <2>2
  <1>7. \E i, c : Replan(i, c) /\ Selection(i) /\ c \in [Secret -> CertificateInfo]
    BY <1>4, <1>5, <1>6 DEF Next
  <1> QED
    BY <1>3, <1>7

\* IInv is inductive.
LEMMA NextPlanned == IInv /\ [Next]_vars => IInv'
  <1> SUFFICES ASSUME IInv, [Next]_vars PROVE IInv'
    OBVIOUS
  <1>1. CASE Next
    BY <1>1, NextPlans DEF IInv, Planned, PlanInputs
  <1>2. CASE UNCHANGED vars
    BY <1>2 DEF vars, IInv, Planned
  <1> QED
    BY <1>1, <1>2

\* In every reachable state the plan is one BuildManagedGateway made for the
\* Ingresses and certificates there are, from the placements before it.
THEOREM AlwaysPlanned == Spec => []IInv
  <1> QED
    BY InitPlanned, NextPlanned, PTL DEF Spec

-----------------------------------------------------------------------------
(***************************************************************************)
(* What every plan is like.                                                *)
(***************************************************************************)
\* The plan as the lemmas of GatewayPlanProofs know it.
LEMMA PlanOfState ==
  IInv => \E cu : /\ PlanInputs(ingresses, certificates, cu, overflow)
                  /\ plan = BuildManagedGateway(ingresses, certificates, cu, overflow)
  BY DEF IInv, Planned, PlanInputs

\* Declarers is DeclarersOf.
LEMMA DeclarersIs == \A h : Declarers(h) = DeclarersOf(ingresses, h)
  BY DEF Declarers, DeclarersOf, Declares

\* Such a plan has the types.
LEMMA PlannedTypeOK == IInv => TypeOK
  <1> SUFFICES ASSUME IInv PROVE TypeOK
    OBVIOUS
  <1>1. PICK cu : /\ PlanInputs(ingresses, certificates, cu, overflow)
                  /\ plan = BuildManagedGateway(ingresses, certificates, cu, overflow)
    BY PlanOfState
  <1>2. /\ plan.tlsHosts = Declared(SecretOf(ingresses))
        /\ plan.placements \in [Host -> Placement]
        /\ plan.grants = {plan.placements[h].secret : h \in Host} \ (LocalSecret \cup {NoSecret})
    BY <1>1, PlanIs, ReplanningAssumption
  <1>3. \A h \in Host : plan.placements[h].secret \in Secret \cup {NoSecret}
    BY <1>2 DEF Placement
  <1>4. plan.grants \subseteq Secret
    BY <1>2, <1>3
  <1>5. plan.tlsHosts \subseteq Host
    BY <1>2 DEF Declared
  <1> QED
    BY <1>2, <1>4, <1>5 DEF TypeOK, IInv, Selection

\* In such a plan no hostname has two listeners.
LEMMA PlannedOneListener == IInv => OneListenerPerHostname
  <1> SUFFICES ASSUME IInv, NEW l \in plan.projected, NEW m \in plan.projected, l.hostname = m.hostname
               PROVE  l = m
    BY DEF OneListenerPerHostname
  <1>1. PICK cu : /\ PlanInputs(ingresses, certificates, cu, overflow)
                  /\ plan = BuildManagedGateway(ingresses, certificates, cu, overflow)
    BY PlanOfState
  <1> DEFINE so == SecretOf(ingresses)
  <1>2. Inputs(so, certificates, cu)
    BY <1>1, InputsOf
  <1>3. plan.projected = ListenersOf(so, certificates, cu)
    BY <1>1, PlanIs, ReplanningAssumption
  <1> HIDE DEF so
  <1>4. PICK g \in Declared(so) : l = ListenerOf(g, so, certificates, cu)
    BY <1>3 DEF ListenersOf
  <1>5. PICK h \in Declared(so) : m = ListenerOf(h, so, certificates, cu)
    BY <1>3 DEF ListenersOf
  <1> QED
    BY <1>2, <1>4, <1>5, OneName

\* Such a plan serves every declared hostname once, or reports it to all who
\* declare it.
LEMMA PlannedServed == IInv => ServedOnceOrReported
  <1> SUFFICES ASSUME IInv, NEW h \in plan.tlsHosts
               PROVE  /\ Cardinality({l \in plan.projected : h \in l.hosts}) = 1
                      /\ plan.sections[h] = NoSection =>
                             \A s \in Declarers(h) : [source |-> s, host |-> h] \in plan.issues
    BY DEF ServedOnceOrReported
  <1>1. PICK cu : /\ PlanInputs(ingresses, certificates, cu, overflow)
                  /\ plan = BuildManagedGateway(ingresses, certificates, cu, overflow)
    BY PlanOfState
  <1> DEFINE so == SecretOf(ingresses)
             out == Outcome(so, certificates, cu, overflow)
             n == NameOf(h, so, certificates, cu)
  <1>2. Inputs(so, certificates, cu)
    BY <1>1, InputsOf
  <1>3. /\ plan.tlsHosts = Declared(so)
        /\ plan.projected = ListenersOf(so, certificates, cu)
        /\ \A g \in Host : plan.sections[g] =
               IF g \in Declared(so) /\ out.placed[NameOf(g, so, certificates, cu)] # Nowhere
               THEN [listener |-> NameOf(g, so, certificates, cu),
                     parent |-> out.placed[NameOf(g, so, certificates, cu)]] ELSE NoSection
        /\ \A g \in Declared(so) : out.placed[NameOf(g, so, certificates, cu)] = Nowhere =>
               \A s \in Collect(ingresses).declaredBy[g] : [source |-> s, host |-> g] \in plan.issues
    BY <1>1, PlanIs, ReplanningAssumption
  <1>4. h \in Declared(so) /\ h \in Host
    BY <1>3 DEF Declared
  <1>5. Collect(ingresses).declaredBy[h] = Declarers(h)
    BY <1>1, <1>4, CollectSummary, DeclarersIs DEF PlanInputs
  <1> HIDE DEF so, out
  <1>6. {l \in plan.projected : h \in l.hosts} = {ListenerOf(h, so, certificates, cu)}
    <2>1. h \in ListenerOf(h, so, certificates, cu).hosts
      BY <1>2, <1>4, ListenerOfIs
    <2>2. ASSUME NEW l \in plan.projected, h \in l.hosts
          PROVE  l = ListenerOf(h, so, certificates, cu)
      <3>1. PICK g \in Declared(so) : l = ListenerOf(g, so, certificates, cu)
        BY <1>3 DEF ListenersOf
      <3> QED
        BY <1>2, <2>2, <3>1, ListenerOfIs
    <2>3. ListenerOf(h, so, certificates, cu) \in plan.projected
      BY <1>3, <1>4 DEF ListenersOf
    <2> QED
      BY <2>1, <2>2, <2>3
  <1>7. Cardinality({l \in plan.projected : h \in l.hosts}) = 1
    BY <1>6, FS_Singleton
  <1>8. ASSUME plan.sections[h] = NoSection
        PROVE  \A s \in Declarers(h) : [source |-> s, host |-> h] \in plan.issues
    <2>1. out.placed[n] = Nowhere
      <3> SUFFICES ASSUME out.placed[n] # Nowhere PROVE FALSE
        OBVIOUS
      <3>1. plan.sections[h] = [listener |-> n, parent |-> out.placed[n]]
        BY <1>3, <1>4
      <3>2. plan.sections[h].parent = out.placed[n] /\ plan.sections[h].parent = Nowhere
        BY <1>8, <3>1 DEF NoSection
      <3> QED
        BY <3>2
    <2> QED
      BY <1>3, <1>4, <1>5, <2>1
  <1> QED
    BY <1>7, <1>8

\* Secrets of one class hold one chain.
LEMMA OneClassOneChain ==
  ASSUME NEW k \in Secret, NEW l \in Secret, ClassOf(k, certificates) = ClassOf(l, certificates)
  PROVE  SameChain(k, l)
  <1> DEFINE fp(s) == certificates[s].fingerprint
             class(s) == ClassOf(s, certificates)
  <1>1. \A s : class(s) = IF fp(s) # NoFingerprint THEN <<"fp", fp(s)>> ELSE <<"secret", s>>
    BY DEF ClassOf
  <1>2. class(k)[1] = class(l)[1] /\ class(k)[2] = class(l)[2]
    OBVIOUS
  <1> HIDE DEF class
  <1>3. CASE fp(k) # NoFingerprint /\ fp(l) # NoFingerprint
    <2>1. class(k)[2] = fp(k) /\ class(l)[2] = fp(l)
      BY <1>1, <1>3
    <2> QED
      BY <1>2, <1>3, <2>1 DEF SameChain
  <1>4. CASE fp(k) = NoFingerprint /\ fp(l) = NoFingerprint
    <2>1. class(k)[2] = k /\ class(l)[2] = l
      BY <1>1, <1>4
    <2> QED
      BY <1>2, <2>1 DEF SameChain
  <1>5. CASE ~(fp(k) = NoFingerprint <=> fp(l) = NoFingerprint)
    <2>1. class(k)[1] # class(l)[1]
      <3>1. \A s : fp(s) # NoFingerprint => class(s)[1] = "fp"
        BY <1>1
      <3>2. \A s : fp(s) = NoFingerprint => class(s)[1] = "secret"
        BY <1>1
      <3>3. "fp" # "secret"
        OBVIOUS
      <3> QED
        BY <1>5, <3>1, <3>2, <3>3
    <2> QED
      BY <1>2, <2>1
  <1> QED
    BY <1>3, <1>4, <1>5

\* Such a plan serves a hostname with the chain that its first declarer named.
LEMMA PlannedCertificate == IInv => RightCertificate
  <1> SUFFICES ASSUME IInv, NEW h \in Host, plan.sections[h] # NoSection
               PROVE  LET n == plan.sections[h].listener
                          first == CHOOSE s \in Declarers(h) : \A t \in Declarers(h) : s <= t
                      IN  /\ n = h \/ (h \notin Wildcard /\ n = WildcardOf[h])
                          /\ \E e \in DOMAIN ingresses[first].tls :
                                /\ h \in EffectiveTLSHosts(ingresses[first], ingresses[first].tls[e])
                                /\ SameChain(ingresses[first].tls[e].secret, plan.placements[n].secret)
    BY DEF RightCertificate
  <1>1. PICK cu : /\ PlanInputs(ingresses, certificates, cu, overflow)
                  /\ plan = BuildManagedGateway(ingresses, certificates, cu, overflow)
    BY PlanOfState
  <1> DEFINE so == SecretOf(ingresses)
             out == Outcome(so, certificates, cu, overflow)
             n == NameOf(h, so, certificates, cu)
             l == ListenerOf(h, so, certificates, cu)
             first == CHOOSE s \in Declarers(h) : \A t \in Declarers(h) : s <= t
  <1>2. Inputs(so, certificates, cu)
    BY <1>1, InputsOf
  <1>3. /\ \A g \in Host : plan.sections[g] =
               IF g \in Declared(so) /\ out.placed[NameOf(g, so, certificates, cu)] # Nowhere
               THEN [listener |-> NameOf(g, so, certificates, cu),
                     parent |-> out.placed[NameOf(g, so, certificates, cu)]] ELSE NoSection
        /\ \A g \in Declared(so) : out.placed[NameOf(g, so, certificates, cu)] # Nowhere =>
               plan.placements[NameOf(g, so, certificates, cu)].secret = ListenerOf(g, so, certificates, cu).secret
    BY <1>1, PlanIs, ReplanningAssumption
  <1>4. /\ h \in Declared(so) /\ so[h] # NoSecret /\ so[h] = Collect(ingresses).owner[h].secret
        /\ plan.sections[h].listener = n
        /\ plan.placements[n].secret = l.secret
    <2>1. h \in Declared(so) /\ out.placed[n] # Nowhere
      <3> HIDE DEF so, out
      <3> QED
        BY <1>3
    <2>2. plan.sections[h] = [listener |-> n, parent |-> out.placed[n]]
      <3> HIDE DEF so, out
      <3> QED
        BY <1>3, <2>1
    <2>3. so[h] # NoSecret /\ so[h] = Collect(ingresses).owner[h].secret
      BY <2>1 DEF Declared, SecretOf
    <2>4. plan.placements[n].secret = l.secret
      <3> HIDE DEF so, out
      <3> QED
        BY <1>3, <2>1
    <2> QED
      BY <2>1, <2>2, <2>3, <2>4
  <1>5. Selection(ingresses)
    BY DEF IInv
  <1>6. PICK s \in Declarers(h) :
           /\ \A t \in Declarers(h) : s <= t
           /\ \E e \in DOMAIN ingresses[s].tls :
                 Declares(ingresses[s], e, h) /\ so[h] = ingresses[s].tls[e].secret
    BY <1>4, <1>5, CollectSummary, DeclarersIs
  <1>7. first = s
    <2>1. \A t \in Declarers(h) : t \in Nat
      BY <1>5, SecretAssumption DEF Selection, Declarers
    <2>2. \A t \in Declarers(h) : (\A u \in Declarers(h) : t <= u) => t = s
      BY <1>6, <2>1
    <2> QED
      BY <1>6, <2>2
  <1>8. PICK e \in DOMAIN ingresses[s].tls : Declares(ingresses[s], e, h) /\ so[h] = ingresses[s].tls[e].secret
    BY <1>6
  <1> HIDE DEF so, first
  <1>9. /\ l.secret \in Secret /\ so[h] \in Secret
        /\ n = h \/ (h \notin Wildcard /\ n = WildcardOf[h])
        /\ ClassOf(so[h], certificates) = ClassOf(l.secret, certificates)
    <2>1. so[h] \in Secret
      BY <1>2, <1>4 DEF Inputs
    <2> QED
      BY <1>2, <1>4, <2>1, ListenerOfIs DEF NameOf
  <1>10. SameChain(so[h], l.secret)
    BY <1>9, OneClassOneChain
  <1>11. h \in EffectiveTLSHosts(ingresses[s], ingresses[s].tls[e])
    BY <1>8 DEF Declares
  <1>12. \E f \in DOMAIN ingresses[first].tls :
            /\ h \in EffectiveTLSHosts(ingresses[first], ingresses[first].tls[f])
            /\ SameChain(ingresses[first].tls[f].secret, plan.placements[n].secret)
    BY <1>4, <1>7, <1>8, <1>10, <1>11
  <1> QED
    BY <1>4, <1>9, <1>12 DEF first

\* Such a plan tells both sides of every conflict.
LEMMA PlannedConflict == IInv => ConflictReported
  <1> SUFFICES ASSUME IInv, NEW h \in Host, NEW s \in Declarers(h), NEW t \in Declarers(h),
                      \A u \in Declarers(h) : t <= u, NEW k \in NamedFor(s, h) \ NamedFor(t, h)
               PROVE  \E w \in Declarers(h) :
                         /\ w <= s /\ NamedFor(w, h) \cap NamedFor(t, h) # {}
                         /\ {[source |-> x, host |-> h] : x \in {s, w}} \subseteq plan.issues
    BY DEF ConflictReported
  <1> DEFINE c == Collect(ingresses)
  <1>named. \A u \in DOMAIN ingresses : \A x :
               x \in NamedFor(u, h) <=> \E f \in DOMAIN ingresses[u].tls :
                                           Declares(ingresses[u], f, h) /\ x = ingresses[u].tls[f].secret
    BY DEF NamedFor, Declares
  <1>in. \A u \in Declarers(h) : u \in DOMAIN ingresses
    BY DEF Declarers
  <1>1. PICK cu : /\ PlanInputs(ingresses, certificates, cu, overflow)
                  /\ plan = BuildManagedGateway(ingresses, certificates, cu, overflow)
    BY PlanOfState
  <1>2. c.issues \subseteq plan.issues
    BY <1>1, PlanIs, ReplanningAssumption
  <1>3. Selection(ingresses)
    BY DEF IInv
  <1>4. PICK r \in Declarers(h) :
           /\ \A u \in Declarers(h) : r <= u
           /\ \E f \in DOMAIN ingresses[r].tls :
                 Declares(ingresses[r], f, h) /\ c.owner[h].secret = ingresses[r].tls[f].secret
    BY <1>3, CollectSummary, DeclarersIs
  <1>5. r = t
    <2>1. \A u \in Declarers(h) : u \in Nat
      BY <1>3, SecretAssumption DEF Selection, Declarers
    <2>2. r <= t /\ t <= r /\ r \in Nat /\ t \in Nat
      BY <1>4, <2>1
    <2> QED
      BY <2>2
  <1>6. c.owner[h].secret \in NamedFor(t, h)
    BY <1>4, <1>5, <1>named, <1>in
  <1>7. PICK e \in DOMAIN ingresses[s].tls : Declares(ingresses[s], e, h) /\ k = ingresses[s].tls[e].secret
    BY <1>named, <1>in
  <1>8. c.owner[h].secret # ingresses[s].tls[e].secret
    BY <1>6, <1>7
  <1>9. PICK w \in Declarers(h) :
           /\ w <= s
           /\ \E f \in DOMAIN ingresses[w].tls :
                 Declares(ingresses[w], f, h) /\ c.owner[h].secret = ingresses[w].tls[f].secret
           /\ [source |-> s, host |-> h] \in c.issues /\ [source |-> w, host |-> h] \in c.issues
    BY <1>3, <1>7, <1>8, <1>in, CollectSummary, DeclarersIs
  <1>10. c.owner[h].secret \in NamedFor(w, h)
    BY <1>9, <1>named, <1>in
  <1> QED
    BY <1>2, <1>6, <1>9, <1>10

\* A reconciliation with nothing changed moves nobody.
LEMMA PlannedSettled == IInv => Settled
  <1> SUFFICES ASSUME IInv, overflow \/ \A h \in plan.tlsHosts : plan.sections[h] # NoSection
               PROVE  Again = plan /\ ChangedTLSHosts(plan.placements, plan) = {}
    BY DEF Settled
  <1>1. PICK cu : /\ PlanInputs(ingresses, certificates, cu, overflow)
                  /\ plan = BuildManagedGateway(ingresses, certificates, cu, overflow)
    BY PlanOfState
  <1>2. \A h \in plan.tlsHosts : plan.sections[h] # NoSection
    <2>1. CASE overflow
      BY <1>1, <2>1, SetsServeAll, ReplanningAssumption
    <2> QED
      BY <2>1
  <1> QED
    BY <1>1, <1>2, ReplanIsSame, ReplanningAssumption DEF Again

-----------------------------------------------------------------------------
(***************************************************************************)
(* The theorems.                                                           *)
(***************************************************************************)
\* The plan, the Ingresses and the certificates have their types.
THEOREM TypeCorrect == Spec => []TypeOK
  <1> QED
    BY AlwaysPlanned, PlannedTypeOK, PTL

\* "hostnames never duplicate across parents".
THEOREM OneListener == Spec => []OneListenerPerHostname
  <1> QED
    BY AlwaysPlanned, PlannedOneListener, PTL

\* "every declared hostname is served by exactly one listener", or reported on
\* every Ingress that declares it.
THEOREM Served == Spec => []ServedOnceOrReported
  <1> QED
    BY AlwaysPlanned, PlannedServed, PTL

\* A hostname is served under the certificate its first Ingress named.
THEOREM ServedRight == Spec => []RightCertificate
  <1> QED
    BY AlwaysPlanned, PlannedCertificate, PTL

\* Both sides of a contested hostname are told.
THEOREM ConflictsTold == Spec => []ConflictReported
  <1> QED
    BY AlwaysPlanned, PlannedConflict, PTL

\* A reconciliation with nothing changed moves nobody.
THEOREM Settles == Spec => []Settled
  <1> QED
    BY AlwaysPlanned, PlannedSettled, PTL

(***************************************************************************)
(* Each plan is one step of the contract on places.                        *)
(***************************************************************************)
\* The contract speaks of the same parents.
LEMMA SameVocabulary ==
    /\ Contract!Parent = Parent /\ Contract!Nowhere = Nowhere
    /\ Contract!GatewayParent = GatewayParent
    /\ \A i : Contract!Capacity(i) = Capacity(i)
    /\ \A i, o : Contract!Usable(i, o) <=> Usable(i, o)
    /\ \A S : Contract!Cardinality(S) = Cardinality(S)
  BY DEF Contract!Parent, Parent, Contract!Nowhere, Nowhere, Contract!GatewayParent, GatewayParent,
         Contract!Capacity, Capacity, Contract!Usable, Usable, Contract!Cardinality, Cardinality

\* Any places are a start.
LEMMA PlacesInit == IInv => Contract!Init
  <1> SUFFICES ASSUME IInv PROVE Contract!Init
    OBVIOUS
  <1>1. PICK cu : /\ PlanInputs(ingresses, certificates, cu, overflow)
                  /\ plan = BuildManagedGateway(ingresses, certificates, cu, overflow)
    BY PlanOfState
  <1> DEFINE so == SecretOf(ingresses)
  <1>2. Inputs(so, certificates, cu)
    BY <1>1, InputsOf
  <1>3. plan.projected = ListenersOf(so, certificates, cu) /\ plan.placements \in [Host -> Placement]
    BY <1>1, PlanIs, ReplanningAssumption
  <1> HIDE DEF so
  <1>4. {l.hostname : l \in plan.projected} \subseteq Host
    <2>1. {n \in Host : Listening(so, certificates, cu)[n] # {}}
            = {l.hostname : l \in ListenersOf(so, certificates, cu)}
      BY <1>2, ServesIs
    <2> QED
      BY <1>3, <2>1
  <1>5. [h \in Host |-> plan.placements[h].parent] \in [Host -> Parent \cup {Nowhere}]
    BY <1>3 DEF Placement
  <1> QED
    BY <1>4, <1>5, SameVocabulary DEF Contract!Init, IInv

\* From any places to those of the plan made from them.
Honours(p, previous, ov) ==
    LET names == {l.hostname : l \in p.projected}
        where == [h \in Host |-> p.placements[h].parent]
        old   == [h \in Host |-> previous[h].parent]
    IN  /\ names \in SUBSET Host
        /\ where \in [Host -> Parent \cup {Nowhere}]
        /\ \A h \in Host : where[h] # Nowhere => h \in names
        /\ \A i \in Parent : /\ Cardinality(At(where, i)) <= Capacity(i)
                             /\ At(where, i) # {} => Usable(i, ov)
        /\ \A h \in names : MayStay(h, names, old, ov) => where[h] = old[h]
        /\ \A h \in names : where[h] = Nowhere =>
               ~ov /\ Cardinality(At(where, GatewayParent)) = Capacity(GatewayParent)
        /\ \A i, j \in Parent : j < i /\ At(old, i) = {} /\ At(where, i) # {} =>
               Cardinality(At(where, j)) = Capacity(j)

\* Every plan is a step of PlacementContract from the placements before it.
LEMMA PlanHonours ==
  ASSUME NEW ings, NEW ce, NEW cu, NEW ov, PlanInputs(ings, ce, cu, ov)
  PROVE  Honours(BuildManagedGateway(ings, ce, cu, ov), cu, ov)
  <1> DEFINE p == BuildManagedGateway(ings, ce, cu, ov)
             names == {l.hostname : l \in p.projected}
             where == [h \in Host |-> p.placements[h].parent]
             old == [h \in Host |-> cu[h].parent]
             so == SecretOf(ings)
             out == Outcome(so, ce, cu, ov)
             serves == Listening(so, ce, cu)
  <1>1. Inputs(so, ce, cu) /\ old \in [Host -> Parent \cup {Nowhere}] /\ old = ParentsOf(cu)
    BY InputsOf DEF ParentsOf
  <1>2. p.projected = ListenersOf(so, ce, cu) /\ \A n \in Host : p.placements[n].parent = out.placed[n]
    BY PlanIs, ReplanningAssumption
  <1>3. /\ WithinLimits(out, {NameOf(h, so, ce, cu) : h \in Declared(so)}, ov)
        /\ Stays(out, {NameOf(h, so, ce, cu) : h \in Declared(so)}, ParentsOf(cu), ov)
        /\ RefusesForRoom(out, ov)
        /\ OpensForRoom(out, serves, ParentsOf(cu))
    BY OutcomeIs, ReplanningAssumption
  <1> HIDE DEF so
  <1>4. serves \in [Host -> SUBSET Host] /\ {NameOf(h, so, ce, cu) : h \in Declared(so)} = names
        /\ names \subseteq Host
    <2> HIDE DEF p, names, where, old, out
    <2>1. /\ serves \in [Host -> SUBSET Host]
          /\ {n \in Host : serves[n] # {}} = {l.hostname : l \in ListenersOf(so, ce, cu)}
          /\ {n \in Host : serves[n] # {}} = {NameOf(h, so, ce, cu) : h \in Declared(so)}
      BY <1>1, ServesIs
    <2> HIDE DEF serves
    <2>2. names = {l.hostname : l \in ListenersOf(so, ce, cu)}
      BY <1>2 DEF names
    <2> QED
      BY <2>1, <2>2
  <1>5. out.placed \in [Host -> Parent \cup {Nowhere}]
    BY <1>3 DEF WithinLimits
  <1>6. where = out.placed
    BY <1>2, <1>5
  <1> HIDE DEF p, names, where, old, out, serves
  <1>7. WithinLimits(out, names, ov) /\ Stays(out, names, old, ov) /\ RefusesForRoom(out, ov)
        /\ OpensForRoom(out, serves, old)
    BY <1>1, <1>3, <1>4
  <1>8. /\ \A h \in Host : where[h] # Nowhere => h \in names
        /\ \A h \in names : where[h] = Nowhere => h \in out.unplaced
    BY <1>4, <1>6, <1>7 DEF WithinLimits
  <1>9. \A i \in Parent : /\ Cardinality(At(where, i)) <= Capacity(i)
                          /\ At(where, i) # {} => Usable(i, ov)
    BY <1>6, <1>7 DEF WithinLimits
  <1>10. \A h \in names : MayStay(h, names, old, ov) => where[h] = old[h]
    BY <1>6, <1>7 DEF Stays
  <1>11. \A h \in names : where[h] = Nowhere =>
            ~ov /\ Cardinality(At(where, GatewayParent)) = Capacity(GatewayParent)
    BY <1>6, <1>7, <1>8 DEF RefusesForRoom
  <1>12. ASSUME NEW i \in Parent, NEW j \in Parent, j < i, At(old, i) = {}, At(where, i) # {}
         PROVE  Cardinality(At(where, j)) = Capacity(j)
    <2>1. PICK h \in Host : where[h] = i
      BY <1>12 DEF At
    <2>2. \A g \in Host : old[g] # i
      BY <1>12 DEF At
    <2>3. i # Nowhere
      BY CapacityAssumption DEF Parent, Nowhere
    <2>4. i \notin Inherited(h, serves[h], old)
      <3>1. Relatives(h, serves[h]) \subseteq Host
        BY <1>4, HostAssumption DEF Relatives
      <3> QED
        BY <2>2, <3>1 DEF Inherited
    <2> QED
      BY <1>6, <1>7, <1>12, <2>1, <2>2, <2>3, <2>4 DEF OpensForRoom
  <1> QED
    BY <1>1, <1>4, <1>5, <1>6, <1>8, <1>9, <1>10, <1>11, <1>12 DEF p, names, where, old, Honours

\* A change and its plan are a step of PlacementContract, or change no place.
LEMMA PlacesStep == IInv /\ [Next]_vars => [Contract!Replan]_(Contract!vars)
  <1> SUFFICES ASSUME IInv, [Next]_vars PROVE [Contract!Replan]_(Contract!vars)
    OBVIOUS
  <1>1. CASE UNCHANGED vars
    BY <1>1 DEF vars, Contract!vars
  <1>2. CASE Next
    <2> DEFINE names == {l.hostname : l \in plan'.projected}
               where == [h \in Host |-> plan'.placements[h].parent]
               old == [h \in Host |-> plan.placements[h].parent]
    <2>1. /\ PlanInputs(ingresses', certificates', plan.placements, overflow)
          /\ plan' = BuildManagedGateway(ingresses', certificates', plan.placements, overflow)
          /\ overflow' = overflow
      BY <1>2, NextPlans
    <2>honours. Honours(plan', plan.placements, overflow)
      BY <2>1, PlanHonours
    <2>2. /\ names \in SUBSET Host
          /\ where \in [Host -> Parent \cup {Nowhere}]
          /\ \A h \in Host : where[h] # Nowhere => h \in names
          /\ \A i \in Parent : /\ Cardinality(At(where, i)) <= Capacity(i)
                               /\ At(where, i) # {} => Usable(i, overflow)
          /\ \A h \in names : MayStay(h, names, old, overflow) => where[h] = old[h]
          /\ \A h \in names : where[h] = Nowhere =>
                 ~overflow /\ Cardinality(At(where, GatewayParent)) = Capacity(GatewayParent)
          /\ \A i, j \in Parent : j < i /\ At(old, i) = {} /\ At(where, i) # {} =>
                 Cardinality(At(where, j)) = Capacity(j)
      BY <2>honours DEF Honours
    <2> HIDE DEF names, where, old
    <2>3. \A places, i : Contract!OnParent(places, i) = At(places, i)
      BY DEF Contract!OnParent, At
    <2>4. \A places, i : Contract!Full(places, i) <=> Cardinality(At(places, i)) = Capacity(i)
      BY <2>3, SameVocabulary DEF Contract!Full
    <2>5. Contract!WithinCapacity(where)
      BY <2>2, <2>3, SameVocabulary DEF Contract!WithinCapacity
    <2>6. Contract!NobodyMoves(names, where)
      <3>1. \A h : Contract!CanStay(h, names) <=> MayStay(h, names, old, overflow)
        BY SameVocabulary DEF Contract!CanStay, MayStay, old
      <3>2. \A h \in names : MayStay(h, names, old, overflow) => where[h] = old[h]
        BY <2>2
      <3> QED
        BY <3>1, <3>2 DEF Contract!NobodyMoves, old
    <2>7. Contract!NoNeedlessRefusal(names, where)
      BY <2>2, <2>4, SameVocabulary DEF Contract!NoNeedlessRefusal
    <2>8. Contract!NoNeedlessSet(where)
      BY <2>2, <2>3, <2>4, SameVocabulary DEF Contract!NoNeedlessSet, old
    <2>9. Contract!Replan
      BY <2>1, <2>2, <2>5, <2>6, <2>7, <2>8, SameVocabulary DEF Contract!Replan, names, where
    <2> QED
      BY <2>9
  <1> QED
    BY <1>1, <1>2

(***************************************************************************)
(* Whatever Ingresses and certificates do, the places of the listeners     *)
(* change as PlacementContract says: GatewayReplanning implements it.      *)
(***************************************************************************)
THEOREM Implements == Spec => HonoursContract
  <1>1. Init => Contract!Init
    BY InitPlanned, PlacesInit
  <1> QED
    BY <1>1, AlwaysPlanned, PlacesStep, PTL DEF Spec, HonoursContract, Contract!Spec

=============================================================================
