------------------------- MODULE IngressRoutingProofs -------------------------
(***************************************************************************)
(* Proofs about the Ingresses that share a managed Gateway, for any number *)
(* of Ingresses, namespaces, hostnames, paths, edits and failures.         *)
(***************************************************************************)
EXTENDS IngressRouting, GatewayPlanProofs

\* Ingresses the users may have.
Selected(ings) == DOMAIN ings \subseteq Source /\ \A s \in DOMAIN ings : ings[s] \in Declarations[s]

-----------------------------------------------------------------------------
(***************************************************************************)
(* What Translate returns.                                                 *)
(***************************************************************************)
\* Sources are not the absence of one.
LEMMA SourceType == \A s \in Source : s \in Nat /\ s # Global /\ s # NoSource
  BY SecretAssumption DEF Global, NoSource

\* The Ingresses can be planned for.
LEMMA SelectedIs ==
  ASSUME NEW ings, Selected(ings)
  PROVE  Selection(ings) /\ \A s \in DOMAIN ings : s \in Source /\ IsIngress(ings[s])
  BY RoutingAssumption DEF Selected, Selection, IsIngress

\* The hostname whose listeners a route uses is declared, and there is one if
\* a declared hostname covers that of the route.
LEMMA MatchingIs ==
  ASSUME NEW h \in Name, NEW tls \in SUBSET Host
  PROVE  LET t == MatchingTLSHost(h, tls) IN
         /\ t # NoHost => t \in tls /\ h \in Host /\ (t = h \/ t \in Covering[h])
         /\ t = NoHost => h = NoHost \/ CoverNames(h) \cap tls = {}
  <1> DEFINE covers == Covering[h] \cap tls
             t == MatchingTLSHost(h, tls)
  <1>1. CASE h = NoHost \/ h \in tls
    <2>1. t = h
      BY <1>1 DEF MatchingTLSHost
    <2> QED
      BY <1>1, <2>1
  <1>2. CASE ~(h = NoHost \/ h \in tls) /\ covers = {}
    <2>1. t = NoHost
      BY <1>2 DEF MatchingTLSHost
    <2> QED
      BY <1>2, <2>1 DEF CoverNames
  <1>3. CASE ~(h = NoHost \/ h \in tls) /\ covers # {}
    <2> DEFINE R == {p \in covers \X covers : p[1] = p[2] \/ p[2] \in Covering[p[1]]}
    <2>1. h \in Host
      BY <1>3 DEF Name
    <2>2. covers \subseteq Host /\ IsFiniteSet(covers)
      BY <2>1, HostAssumption, CoveringAssumption, FS_Subset
    <2>3. ASSUME NEW v \in covers, NEW w \in covers
          PROVE  <<v, w>> \in R \/ <<w, v>> \in R
      BY <2>1, CoveringAssumption
    <2>4. ASSUME NEW v \in covers, NEW w \in covers, NEW x \in covers, <<v, w>> \in R, <<w, x>> \in R
          PROVE  <<v, x>> \in R
      <3>1. v = w \/ w \in Covering[v]
        BY <2>4
      <3>2. w = x \/ x \in Covering[w]
        BY <2>4
      <3>3. v \in Host
        BY <2>2
      <3>4. v = x \/ x \in Covering[v]
        BY <3>1, <3>2, <3>3, CoveringAssumption
      <3> QED
        BY <3>4
    <2> HIDE DEF R, covers
    <2>5. \E v \in covers : \A w \in covers : <<v, w>> \in R
      BY <1>3, <2>2, <2>3, <2>4, BestExists
    <2>6. \E v \in covers : covers \ {v} \subseteq Covering[v]
      BY <2>5 DEF R
    <2>7. t = CHOOSE v \in covers : covers \ {v} \subseteq Covering[v]
      BY <1>3 DEF MatchingTLSHost, covers
    <2>8. t \in covers
      BY <2>6, <2>7
    <2> QED
      BY <2>1, <2>2, <2>8, HostAssumption DEF covers, NoHost
  <1> QED
    BY <1>1, <1>2, <1>3

\* The primaries that have every rule of a canary.
Candidates(c, ings) ==
    {p \in Neighbours(c, ings) : ~ings[p].canary /\ SpecFootprints(ings[c]) \subseteq SpecFootprints(ings[p])}

\* A canary is assigned to a primary that has every rule of it, or to nobody.
LEMMA AssignedIs ==
  ASSUME NEW ings, Selected(ings), NEW c \in DOMAIN ings
  PROVE  LET p == AssignedTo(c, ings) IN p # NoSource => ings[c].canary /\ p \in Candidates(c, ings)
  <1> DEFINE all == Candidates(c, ings)
             p == AssignedTo(c, ings)
             R == {x \in all \X all : x[1] = x[2] \/ Older(x[1], x[2])}
  <1>1. p = IF ~ings[c].canary \/ SpecFootprints(ings[c]) = {} \/ all = {} THEN NoSource
            ELSE CHOOSE x \in all : \A y \in all \ {x} : Older(x, y)
    BY DEF AssignedTo, Candidates
  <1>2. CASE all # {}
    <2>1. all \subseteq Source /\ IsFiniteSet(all)
      <3>1. all \subseteq Source
        BY DEF Candidates, Neighbours, Selected
      <3> QED
        BY <3>1, SecretAssumption, FS_Subset
    <2> HIDE DEF all
    <2>2. \A x \in all : Age[x] \in Nat /\ x \in Nat
      BY <2>1, TranslationAssumption, SecretAssumption
    <2>3. ASSUME NEW x \in all, NEW y \in all
          PROVE  <<x, y>> \in R \/ <<y, x>> \in R
      <3>1. x = y \/ Older(x, y) \/ Older(y, x)
        BY <2>2 DEF Older
      <3> QED
        BY <3>1
    <2>4. ASSUME NEW x \in all, NEW y \in all, NEW z \in all, <<x, y>> \in R, <<y, z>> \in R
          PROVE  <<x, z>> \in R
      <3>1. (x = y \/ Older(x, y)) /\ (y = z \/ Older(y, z))
        BY <2>4
      <3>2. x = z \/ Older(x, z)
        BY <2>2, <3>1 DEF Older
      <3> QED
        BY <3>2
    <2> HIDE DEF R
    <2>5. \E x \in all : \A y \in all : <<x, y>> \in R
      BY <1>2, <2>1, <2>3, <2>4, BestExists
    <2>6. \E x \in all : \A y \in all \ {x} : Older(x, y)
      BY <2>5 DEF R
    <2>7. (CHOOSE x \in all : \A y \in all \ {x} : Older(x, y)) \in all
      BY <2>6
    <2> QED
      BY <1>1, <2>7 DEF all
  <1>3. CASE all = {}
    BY <1>1, <1>3
  <1> QED
    BY <1>2, <1>3

\* The paths a route has rules for.
LEMMA HostPathsType ==
  ASSUME NEW b, IsIngress(b), NEW A \in SUBSET Host
  PROVE  /\ HostPaths([b EXCEPT !.aliases = A]) \in [Name -> SUBSET Path]
         /\ HostPaths(b) \in [Name -> SUBSET Path]
  <1>1. ASSUME NEW d, d.paths \in [Name -> SUBSET Path], d.rules # {} => d.first \in Name
        PROVE  HostPaths(d) \in [Name -> SUBSET Path]
    <2>1. BasePaths(d) \in [Name -> SUBSET Path]
      BY <1>1, TranslationAssumption DEF BasePaths
    <2>2. FirstHost(d) \in Name
      BY <1>1 DEF FirstHost, Name
    <2> QED
      BY <2>1, <2>2 DEF HostPaths
  <1>2. b.paths \in [Name -> SUBSET Path] /\ (b.rules # {} => b.first \in Name)
    BY DEF IsIngress, IsBody, Name
  <1> DEFINE d == [b EXCEPT !.aliases = A]
  <1>3. d.paths = b.paths /\ d.rules = b.rules /\ d.first = b.first
    OBVIOUS
  <1> HIDE DEF d
  <1>4. HostPaths(d) \in [Name -> SUBSET Path]
    BY <1>1, <1>2, <1>3
  <1> QED
    BY <1>1, <1>2, <1>4 DEF d

\* The rules of a route are those of Ingresses.
LEMMA RulesType ==
  ASSUME NEW ings, Selected(ings), NEW s \in Source, NEW b, IsIngress(b), NEW h \in Name
  PROVE  Rules(s, b, ings, h) \subseteq Source \X Path
  <1>1. HostPaths(b)[h] \subseteq Path
    BY HostPathsType
  <1>2. ASSUME NEW c \in CanariesOf(s, ings)
        PROVE  c \in Source /\ HostPaths(InheritedCanary(b, ings[c]))[h] \subseteq Path
    <2>1. c \in DOMAIN ings
      BY DEF CanariesOf, Neighbours
    <2>2. c \in Source /\ IsIngress(ings[c]) /\ b.aliases \in SUBSET Host
      BY <2>1, SelectedIs DEF IsIngress
    <2> QED
      BY <2>2, HostPathsType DEF InheritedCanary
  <1> QED
    BY <1>1, <1>2 DEF Rules

\* What Reconcile makes of an Ingress: routes whose rules are of Ingresses, and
\* a primary among them.
LEMMA TranslateType ==
  ASSUME NEW ings, Selected(ings), NEW s \in Source, NEW b, IsIngress(b), NEW p
  PROVE  LET t == Translate(s, b, ings, p) IN
         /\ \A h \in Name : t.routes[h].rules \subseteq Source \X Path
         /\ t.delegatedTo \in Source \cup {NoSource}
  <1> DEFINE t == Translate(s, b, ings, p)
  <1>1. t.routes = NoRoutes \/ t.routes = Routes(s, b, ings, p)
    BY DEF Translate
  <1>2. ASSUME NEW h \in Name
        PROVE  t.routes[h].rules \subseteq Source \X Path
    <2>1. NoRoutes[h].rules \subseteq Source \X Path
      BY DEF NoRoutes, NoRoute
    <2>2. Routes(s, b, ings, p)[h].rules \subseteq Source \X Path
      <3>1. CASE HostPaths(b)[h] = {}
        BY <3>1 DEF Routes, NoRoute
      <3>2. CASE HostPaths(b)[h] # {}
        <4>1. Routes(s, b, ings, p)[h].rules = Rules(s, b, ings, h)
          BY <3>2 DEF Routes
        <4> QED
          BY <4>1, RulesType
      <3> QED
        BY <3>1, <3>2
    <2> QED
      BY <1>1, <2>1, <2>2
  <1>3. t.delegatedTo \in Source \cup {NoSource}
    <2> SUFFICES ASSUME t.delegatedTo # NoSource PROVE t.delegatedTo \in Source
      OBVIOUS
    <2>1. t.delegatedTo = AssignedTo(s, ings) /\ b.canary /\ ~FatalCanary(s, b, ings)
      BY DEF Translate
    <2>2. s \in DOMAIN ings
      BY <2>1 DEF FatalCanary
    <2>3. AssignedTo(s, ings) \in Candidates(s, ings)
      BY <2>1, <2>2, AssignedIs
    <2> QED
      BY <2>1, <2>3 DEF Candidates, Neighbours, Selected
  <1> QED
    BY <1>2, <1>3

-----------------------------------------------------------------------------
(***************************************************************************)
(* Types.  A reconciliation that has read an Ingress has read one there    *)
(* was, at a generation that is not ahead of the Ingress; the plan is one  *)
(* BuildManagedGateway made; and the controller never reports a readiness  *)
(* it has not worked out: delegatedReady passes on what the primary's      *)
(* IngressTranslation says only when it is about the primary there is.     *)
(***************************************************************************)
PlanMade ==
    \E ings, cu : /\ PlanInputs(ings, Certificates, cu, Overflow)
                  /\ plan = PlanFor(ings, cu)

Reading ==
    /\ phase = "prune" => request \in Source /\ copy = NoCopy
    /\ phase \in {"translate", "status"} => copy # NoCopy
    /\ copy # NoCopy => /\ phase # "idle" /\ request \in Source
                        /\ copy.body \in Declarations[request]
                        /\ copy.generation \in 1 .. generation[request]

Reported(t, g) == t = NoTranslation \/ (t.observed \in 1 .. g /\ t.ready \in Status)

Typed ==
    /\ TypeOK
    /\ Selected(ingresses)
    /\ \A s \in Source : generation[s] > 0
    /\ routes = [s \in Source |-> routes[s]]
    /\ translations = [s \in Source |-> translations[s]]
    /\ seen = [s \in Source |-> seen[s]]
    /\ Reading
    /\ PlanMade

\* A plan for the Ingresses there are is one BuildManagedGateway makes.
LEMMA PlanForIs ==
  ASSUME NEW ings, Selected(ings), NEW cu \in [Host -> Placement]
  PROVE  /\ PlanInputs(ings, Certificates, cu, Overflow)
         /\ PlanFor(ings, cu).placements \in [Host -> Placement]
  <1>1. PlanInputs(ings, Certificates, cu, Overflow)
    BY SelectedIs, RoutingAssumption DEF PlanInputs
  <1> QED
    BY <1>1, PlacementsAre, RoutingAssumption DEF PlanFor

\* No Ingress is a selection, and no placement the start of a plan.
LEMMA NothingSelected == Selected(NoIngresses) /\ NoPlacements \in [Host -> Placement]
  BY DEF Selected, NoIngresses, NoPlacements, NoPlacement, Placement

\* The bridge starts with typed Ingresses and a plan of none of them.
LEMMA InitTyped == Init => Typed
  <1> SUFFICES ASSUME Init PROVE Typed
    OBVIOUS
  <1>1. Selected(ingresses)
    BY RoutingAssumption DEF Init, Selected
  <1>2. PlanInputs(NoIngresses, Certificates, NoPlacements, Overflow)
        /\ plan.placements \in [Host -> Placement]
    BY NothingSelected, PlanForIs DEF Init
  <1>3. PlanMade
    BY <1>2 DEF PlanMade, Init
  <1>4. \A s \in Source : \A h \in Name : routes[s][h].rules \subseteq Source \X Path
    BY DEF Init, NoRoutes, NoRoute
  <1>5. edits \in 0 .. MaxEdits /\ failures \in 0 .. MaxFailures
    BY RoutingAssumption DEF Init
  <1>6. listeners \in [Host -> Placement]
    BY NothingSelected DEF Init
  <1>7. outcome.delegatedTo \in Source \cup {NoSource}
    BY DEF Init, NoOutcome
  <1>8. \A s \in Source : translations[s] = NoTranslation /\ seen[s] = NoTranslation
    BY DEF Init
  <1>9. TypeOK
    BY <1>1, <1>2, <1>4, <1>5, <1>6, <1>7, <1>8 DEF Init, TypeOK, Selected, Phases
  <1>10. Reading
    BY DEF Init, Reading
  <1> QED
    BY <1>1, <1>3, <1>9, <1>10 DEF Init, Typed

\* What is reported of an Ingress stays so when the Ingress is edited.
LEMMA ReportedGrows ==
  ASSUME NEW g \in Nat, NEW k \in Nat, g <= k, NEW t, Reported(t, g)
  PROVE  Reported(t, k)
  BY DEF Reported

\* An edit of one Ingress.
LEMMA EditTyped ==
  ASSUME Typed, NEW s \in Source, NEW new, Edit(s, new), Selected(new),
         generation' \in [Source -> Nat], \A t \in Source : generation[t] <= generation'[t]
  PROVE  Typed'
  <1>1. /\ ingresses' = new /\ edits' = edits + 1 /\ edits < MaxEdits
        /\ queue' = queue \cup WokenByIngress(s, new)
        /\ UNCHANGED <<listeners, routes, translations, seen, plan, phase, request, copy, outcome, failures>>
    BY DEF Edit, work
  <1>2. queue' \subseteq Source \cup {Global}
    <2>1. WokenByIngress(s, new) \subseteq Source
      BY DEF WokenByIngress, Neighbours, Selected
    <2> QED
      BY <1>1, <2>1 DEF Typed, TypeOK
  <1>3. edits' \in 0 .. MaxEdits
    BY <1>1, RoutingAssumption DEF Typed, TypeOK
  <1>4. \A t \in Source : /\ generation[t] \in Nat /\ generation'[t] \in Nat
                          /\ generation[t] <= generation'[t] /\ generation[t] > 0
    BY DEF Typed, TypeOK
  <1>5. \A t \in Source : generation'[t] > 0
    BY <1>4
  <1>6. ASSUME NEW t \in Source
        PROVE  Reported(translations[t], generation'[t]) /\ Reported(seen[t], generation'[t])
    <2>1. Reported(translations[t], generation[t]) /\ Reported(seen[t], generation[t])
      BY DEF Typed, TypeOK, Reported
    <2> QED
      BY <1>4, <2>1, ReportedGrows
  <1>7. TypeOK'
    <2>1. DOMAIN ingresses' \subseteq Source
      BY <1>1 DEF Selected
    <2> QED
      BY <1>1, <1>2, <1>3, <1>6, <2>1 DEF Typed, TypeOK, Reported
  <1>8. Reading'
    <2>1. Reading
      BY DEF Typed
    <2>2. copy # NoCopy => copy.generation \in 1 .. generation'[request]
      <3> SUFFICES ASSUME copy # NoCopy PROVE copy.generation \in 1 .. generation'[request]
        OBVIOUS
      <3>1. request \in Source /\ copy.generation \in 1 .. generation[request]
        BY <2>1 DEF Reading
      <3>2. generation[request] \in Nat /\ generation'[request] \in Nat /\ generation[request] <= generation'[request]
        BY <1>4, <3>1
      <3> QED
        BY <3>1, <3>2
    <2> QED
      BY <1>1, <2>1, <2>2 DEF Reading
  <1>9. PlanMade'
    BY <1>1 DEF Typed, PlanMade
  <1> QED
    BY <1>1, <1>5, <1>7, <1>8, <1>9 DEF Typed

\* New routes of an Ingress.
LEMMA WriteRoutesTyped ==
  ASSUME Typed, NEW s \in Source, NEW new, WriteRoutes(s, new),
         \A h \in Name : new[h].rules \subseteq Source \X Path
  PROVE  /\ routes' = [t \in Source |-> routes'[t]]
         /\ \A t \in Source : \A h \in Name : routes'[t][h].rules \subseteq Source \X Path
         /\ queue' \subseteq Source \cup {Global}
  <1>1. routes' = [routes EXCEPT ![s] = new] /\ routes = [t \in Source |-> routes[t]]
    BY DEF WriteRoutes, Typed
  <1>2. \A t \in Source : routes'[t] = IF t = s THEN new ELSE routes[t]
    BY <1>1
  <1>3. routes' = [t \in Source |-> routes'[t]]
    BY <1>1
  <1>4. queue' \subseteq Source \cup {Global}
    BY DEF WriteRoutes, Typed, TypeOK
  <1>5. \A t \in Source : \A h \in Name : routes[t][h].rules \subseteq Source \X Path
    BY DEF Typed, TypeOK
  <1> QED
    BY <1>2, <1>3, <1>4, <1>5

\* Status reports what has been worked out.
LEMMA ReadyIsStatus ==
  ASSUME Typed, phase = "status"
  PROVE  Ready \in Status
  <1>1. CASE outcome.fatal \/ outcome.delegatedTo = NoSource
    BY <1>1 DEF Ready, Status
  <1>2. CASE ~outcome.fatal /\ outcome.delegatedTo # NoSource
    <2> DEFINE p == outcome.delegatedTo
    <2>1. p \in Source
      BY <1>2 DEF Typed, TypeOK
    <2>2. Ready = DelegatedReady(p)
      BY <1>2 DEF Ready
    <2> HIDE DEF p
    <2>3. CASE p \notin DOMAIN ingresses \/ seen[p].observed # generation[p]
      BY <2>2, <2>3 DEF DelegatedReady, Status
    <2>4. CASE p \in DOMAIN ingresses /\ seen[p].observed = generation[p]
      <3>1. Reported(seen[p], generation[p]) /\ generation[p] > 0
        BY <2>1 DEF Typed, TypeOK, Reported
      <3>2. seen[p] # NoTranslation
        BY <2>4, <3>1 DEF NoTranslation
      <3> QED
        BY <2>2, <2>4, <3>1, <3>2 DEF DelegatedReady, Reported
    <2> QED
      BY <2>3, <2>4
  <1> QED
    BY <1>1, <1>2

\* Every step keeps the types.
LEMMA StepTyped == Typed /\ [Next]_vars => Typed'
  <1> SUFFICES ASSUME Typed, [Next]_vars PROVE Typed'
    OBVIOUS
  <1> USE DEF cluster, work, bounds
  <1>1. ASSUME NEW s \in Source, PutIngress(s)
        PROVE  Typed'
    <2>1. PICK b \in Declarations[s] :
             /\ Edit(s, [t \in DOMAIN ingresses \cup {s} |-> IF t = s THEN b ELSE ingresses[t]])
             /\ generation' =
                   IF s \in DOMAIN ingresses /\ SpecOf(b) = SpecOf(ingresses[s]) THEN generation
                   ELSE [generation EXCEPT ![s] = @ + 1]
      BY <1>1 DEF PutIngress
    <2>2. Selected([t \in DOMAIN ingresses \cup {s} |-> IF t = s THEN b ELSE ingresses[t]])
      BY DEF Typed, Selected
    <2>3. generation \in [Source -> Nat]
      BY DEF Typed, TypeOK
    <2>4. generation' \in [Source -> Nat] /\ \A t \in Source : generation[t] <= generation'[t]
      BY <2>1, <2>3
    <2> QED
      BY <2>1, <2>2, <2>4, EditTyped
  <1>2. ASSUME NEW s \in Source, DropIngress(s)
        PROVE  Typed'
    <2>1. Selected([t \in DOMAIN ingresses \ {s} |-> ingresses[t]])
      BY DEF Typed, Selected
    <2>2. generation' \in [Source -> Nat] /\ \A t \in Source : generation[t] <= generation'[t]
      BY <1>2 DEF DropIngress, Typed, TypeOK
    <2> QED
      BY <1>2, <2>1, <2>2, EditTyped DEF DropIngress
  <1>3. ASSUME NEW r \in Source \cup {Global}, Start(r)
        PROVE  Typed'
    <2>1. Reading'
      <3>1. CASE r \in DOMAIN ingresses
        <4>1. r \in Source /\ ingresses[r] \in Declarations[r] /\ generation[r] \in 1 .. generation[r]
          BY <3>1 DEF Typed, TypeOK, Selected
        <4> QED
          BY <1>3, <3>1, <4>1 DEF Start, Reading
      <3>2. CASE r \notin DOMAIN ingresses
        BY <1>3, <3>2, SourceType DEF Start, Reading
      <3> QED
        BY <3>1, <3>2
    <2>2. TypeOK'
      BY <1>3 DEF Start, Typed, TypeOK, Phases
    <2>3. PlanMade'
      BY <1>3 DEF Start, Typed, PlanMade
    <2> QED
      BY <1>3, <2>1, <2>2, <2>3 DEF Start, Typed
  <1>4. CASE Prune
    <2>1. request \in Source /\ copy = NoCopy
      BY <1>4 DEF Prune, Typed, Reading
    <2>2. \A h \in Name : NoRoutes[h].rules \subseteq Source \X Path
      BY DEF NoRoutes, NoRoute
    <2>3. /\ routes' = [t \in Source |-> routes'[t]]
          /\ \A t \in Source : \A h \in Name : routes'[t][h].rules \subseteq Source \X Path
          /\ queue' \subseteq Source \cup {Global}
      BY <1>4, <2>1, <2>2, WriteRoutesTyped DEF Prune
    <2>4. /\ translations' = [t \in Source |-> translations'[t]]
          /\ \A t \in Source : translations'[t] = IF t = request THEN NoTranslation ELSE translations[t]
      BY <1>4, <2>1 DEF Prune, Typed
    <2>5. TypeOK'
      BY <1>4, <2>3, <2>4 DEF Prune, Typed, TypeOK, Phases
    <2>6. Reading'
      BY <1>4, <2>1 DEF Prune, Reading
    <2>7. PlanMade'
      BY <1>4 DEF Prune, Typed, PlanMade
    <2> QED
      BY <1>4, <2>3, <2>4, <2>5, <2>6, <2>7 DEF Prune, Typed
  <1>5. CASE ReconcileGateway
    <2>1. plan' = PlanFor(ingresses, plan.placements) /\ listeners' = plan'.placements
      BY <1>5 DEF ReconcileGateway
    <2>2. PlanInputs(ingresses, Certificates, plan.placements, Overflow)
          /\ plan'.placements \in [Host -> Placement]
      BY <2>1, PlanForIs DEF Typed, TypeOK
    <2>3. PlanMade'
      BY <2>1, <2>2 DEF PlanMade
    <2>4. queue' \subseteq Source \cup {Global}
      <3>1. Affected(plan') \subseteq Source /\ WokenByGateway(DOMAIN ingresses) \subseteq Source \cup {Global}
        BY DEF Affected, WokenByGateway, Typed, Selected
      <3> QED
        BY <1>5, <3>1 DEF ReconcileGateway, Typed, TypeOK
    <2>5. CASE copy = NoCopy
      BY <1>5, <2>1, <2>2, <2>3, <2>4, <2>5
      DEF ReconcileGateway, Return, Typed, TypeOK, Phases, Reading, NoOutcome
    <2>6. CASE copy # NoCopy
      BY <1>5, <2>1, <2>2, <2>3, <2>4, <2>6 DEF ReconcileGateway, Typed, TypeOK, Phases, Reading
    <2> QED
      BY <2>5, <2>6
  <1>6. CASE ApplyRoutes
    <2> DEFINE t == Translate(request, copy.body, ingresses, plan)
    <2>1. phase = "translate" /\ copy # NoCopy /\ request \in Source /\ copy.body \in Declarations[request]
      BY <1>6 DEF ApplyRoutes, Typed, Reading
    <2>2. IsIngress(copy.body) /\ Selected(ingresses)
      BY <2>1, RoutingAssumption DEF Typed
    <2>3. /\ \A h \in Name : t.routes[h].rules \subseteq Source \X Path
          /\ t.delegatedTo \in Source \cup {NoSource}
      BY <2>1, <2>2, TranslateType
    <2>4. /\ WriteRoutes(request, t.routes) /\ outcome'.delegatedTo = t.delegatedTo /\ phase' = "status"
          /\ UNCHANGED <<ingresses, generation, listeners, translations, seen, plan, request, copy, bounds>>
      BY <1>6 DEF ApplyRoutes
    <2> HIDE DEF t
    <2>5. /\ routes' = [u \in Source |-> routes'[u]]
          /\ \A u \in Source : \A h \in Name : routes'[u][h].rules \subseteq Source \X Path
          /\ queue' \subseteq Source \cup {Global}
      BY <2>1, <2>3, <2>4, WriteRoutesTyped
    <2>6. TypeOK'
      BY <2>3, <2>4, <2>5 DEF Typed, TypeOK, Phases
    <2>7. Reading'
      BY <2>1, <2>4 DEF Typed, Reading
    <2>8. PlanMade'
      BY <2>4 DEF Typed, PlanMade
    <2> QED
      BY <2>4, <2>5, <2>6, <2>7, <2>8 DEF Typed
  <1>7. CASE WriteStatus
    <2>1. request \in Source /\ copy.generation \in 1 .. generation[request] /\ Ready \in Status
      BY <1>7, ReadyIsStatus DEF WriteStatus, Typed, Reading
    <2> DEFINE report == [observed |-> copy.generation, ready |-> Ready]
    <2>2. report.observed \in 1 .. generation[request] /\ report.ready \in Status
      BY <2>1
    <2>3. translations' = [translations EXCEPT ![request] = report]
      BY <1>7 DEF WriteStatus
    <2> HIDE DEF report
    <2>4. /\ translations' = [t \in Source |-> translations'[t]]
          /\ \A t \in Source : translations'[t] = IF t = request THEN report ELSE translations[t]
      BY <2>1, <2>3 DEF Typed
    <2>5. TypeOK'
      BY <1>7, <2>2, <2>4 DEF WriteStatus, Return, NoOutcome, Typed, TypeOK, Phases
    <2>6. Reading'
      BY <1>7 DEF WriteStatus, Return, Reading
    <2>7. PlanMade'
      BY <1>7 DEF WriteStatus, Typed, PlanMade
    <2> QED
      BY <1>7, <2>4, <2>5, <2>6, <2>7 DEF WriteStatus, Typed
  <1>8. ASSUME NEW s \in Source, SeeTranslation(s)
        PROVE  Typed'
    <2>1. /\ seen' = [t \in Source |-> seen'[t]]
          /\ \A t \in Source : seen'[t] = IF t = s THEN translations[t] ELSE seen[t]
      BY <1>8 DEF SeeTranslation, Typed
    <2>2. queue' \subseteq Source \cup {Global}
      BY <1>8 DEF SeeTranslation, WokenByTranslation, Typed, TypeOK
    <2>3. TypeOK'
      BY <1>8, <2>1, <2>2 DEF SeeTranslation, Typed, TypeOK
    <2>4. Reading' /\ PlanMade'
      BY <1>8 DEF SeeTranslation, Typed, Reading, PlanMade
    <2> QED
      BY <1>8, <2>1, <2>3, <2>4 DEF SeeTranslation, Typed
  <1>9. CASE Fail
    <2>1. plan' = plan \/ plan' = PlanFor(ingresses, plan.placements)
      BY <1>9 DEF Fail
    <2>2. PlanMade' /\ plan'.placements \in [Host -> Placement]
      <3>1. CASE plan' = plan
        BY <3>1 DEF Typed, TypeOK, PlanMade
      <3>2. CASE plan' = PlanFor(ingresses, plan.placements)
        BY <3>2, PlanForIs DEF Typed, TypeOK, PlanMade
      <3> QED
        BY <2>1, <3>1, <3>2
    <2>3. failures' \in 0 .. MaxFailures
      BY <1>9, RoutingAssumption DEF Fail, Typed, TypeOK
    <2>4. TypeOK'
      BY <1>9, <2>2, <2>3 DEF Fail, Return, NoOutcome, Typed, TypeOK, Phases
    <2>5. Reading'
      BY <1>9 DEF Fail, Return, Reading
    <2> QED
      BY <1>9, <2>2, <2>4, <2>5 DEF Fail, Typed
  <1>10. CASE UNCHANGED vars
    BY <1>10 DEF vars, Typed, TypeOK, Reading, PlanMade
  <1> QED
    BY <1>1, <1>2, <1>3, <1>4, <1>5, <1>6, <1>7, <1>8, <1>9, <1>10 DEF Next, Reconcile, AtRest

\* The types and what the phases know of their variables hold of every reachable
\* state.
LEMMA AlwaysTyped == Spec => []Typed
  BY InitTyped, StepTyped, PTL DEF Spec

\* Every variable keeps its type; in particular a status is never ahead of its
\* Ingress, and a readiness passed on by a canary is one its primary reported.
THEOREM TypeCorrect == Spec => []TypeOK
  BY AlwaysTyped, PTL DEF Typed

-----------------------------------------------------------------------------
(***************************************************************************)
(* Routes attach.  The pushes of one plan may be dropped, but a change of  *)
(* the Gateway or of its ListenerSets brings every selected Ingress, and   *)
(* nothing else does any harm: an Ingress whose routes name a listener     *)
(* that has gone is queued or about to be translated with the plan that    *)
(* was applied.                                                            *)
(***************************************************************************)
\* What s has is about to be replaced.
Pending(s) ==
    \/ s \in queue
    \/ request = s /\ phase = "prune"
    \/ request = s /\ phase \in {"gateway", "translate"} /\ copy # NoCopy

Attached(s) == \A h \in Name : \A ref \in routes[s][h].refs : Listed(ref)

\* An Ingress that is gone has nothing, unless its removal is to come.
Removed ==
    \A s \in Source \ DOMAIN ingresses :
        \/ s \in queue
        \/ request = s /\ phase = "prune"
        \/ /\ routes[s] = NoRoutes /\ translations[s] = NoTranslation
           /\ request = s => copy = NoCopy

AttachInv ==
    /\ Removed
    /\ \A s \in Source : Pending(s) \/ Attached(s)
    /\ phase \in {"translate", "status"} => listeners = plan.placements

\* With ListenerSets every section of a plan is on a listener of the plan.
LEMMA SectionsListed ==
  ASSUME Overflow, PlanMade, NEW h \in plan.tlsHosts
  PROVE  h \in Host /\ SectionPlaced(plan, h)
  <1>1. PICK ings, cu : PlanInputs(ings, Certificates, cu, Overflow) /\ plan = PlanFor(ings, cu)
    BY DEF PlanMade
  <1> DEFINE p == BuildManagedGateway(ings, Certificates, cu, Overflow)
  <1>2. plan = p
    BY <1>1 DEF PlanFor
  <1>3. \A g \in p.tlsHosts : g \in Host /\ SectionPlaced(p, g)
    BY <1>1, SectionsPlaced, RoutingAssumption
  <1> QED
    BY <1>2, <1>3

\* What has just been translated with the plan that was applied attaches.
LEMMA TranslatedAttach ==
  ASSUME Overflow, PlanMade, listeners = plan.placements,
         NEW s, NEW b, NEW h \in Name,
         NEW ref \in Translate(s, b, ingresses, plan).routes[h].refs
  PROVE  Listed(ref)
  <1> DEFINE t == MatchingTLSHost(h, plan.tlsHosts)
  <1>1. plan.tlsHosts \in SUBSET Host
    BY SectionsListed
  <1>2. ref \in ParentRefs(b, h, plan)
    <2>1. Translate(s, b, ingresses, plan).routes \in {NoRoutes, Routes(s, b, ingresses, plan)}
      BY DEF Translate
    <2>2. NoRoutes[h].refs = {}
      BY DEF NoRoutes, NoRoute
    <2>3. Routes(s, b, ingresses, plan)[h].refs \in {{}, ParentRefs(b, h, plan)}
      BY DEF Routes, NoRoute
    <2> QED
      BY <2>1, <2>2, <2>3
  <1>3. t # NoHost => t \in plan.tlsHosts
    BY <1>1, MatchingIs
  <1>4. ref = HTTPSection \/ (t # NoHost /\ ref = plan.sections[t])
    BY <1>2 DEF ParentRefs
  <1> HIDE DEF t
  <1>5. ASSUME t # NoHost, ref = plan.sections[t]
        PROVE  Listed(ref)
    <2>1. plan.sections[t].listener \in Host
          /\ plan.placements[plan.sections[t].listener].parent = plan.sections[t].parent
      BY <1>3, <1>5, SectionsListed DEF SectionPlaced
    <2>2. NoHost \notin Host
      BY HostAssumption DEF NoHost
    <2> QED
      BY <1>5, <2>1, <2>2 DEF Listed
  <1> QED
    BY <1>4, <1>5 DEF Listed

\* The bridge starts with no routes, and every Ingress queued.
LEMMA InitAttach == Init => AttachInv
  <1> SUFFICES ASSUME Init PROVE AttachInv
    OBVIOUS
  <1>1. \A s \in Source : Attached(s)
    BY DEF Init, Attached, NoRoutes, NoRoute
  <1>2. Removed
    BY DEF Init, Removed
  <1> QED
    BY <1>1, <1>2 DEF AttachInv, Init

\* Every step keeps routes attached, or leaves their Ingress queued.
LEMMA StepAttach ==
  ASSUME Overflow, Typed, AttachInv, [Next]_vars
  PROVE  AttachInv'
  <1> USE DEF cluster, work, bounds
  <1>1. ASSUME NEW s \in Source, PutIngress(s) \/ DropIngress(s)
        PROVE  AttachInv'
    <2>1. PICK new : /\ Edit(s, new)
                     /\ \A t \in Source \ {s} : t \in DOMAIN new <=> t \in DOMAIN ingresses
      <3> DEFINE put(b) == [t \in DOMAIN ingresses \cup {s} |-> IF t = s THEN b ELSE ingresses[t]]
                 drop == [t \in DOMAIN ingresses \ {s} |-> ingresses[t]]
      <3>1. (\E b \in Declarations[s] : Edit(s, put(b))) \/ Edit(s, drop)
        BY <1>1 DEF PutIngress, DropIngress
      <3>2. \A b : DOMAIN put(b) = DOMAIN ingresses \cup {s}
        OBVIOUS
      <3>3. DOMAIN drop = DOMAIN ingresses \ {s}
        OBVIOUS
      <3> HIDE DEF put, drop
      <3> QED
        BY <3>1, <3>2, <3>3
    <2>2. /\ ingresses' = new /\ queue \subseteq queue' /\ s \in queue'
          /\ UNCHANGED <<listeners, routes, translations, seen, plan, phase, request, copy, outcome>>
      BY <2>1 DEF Edit, WokenByIngress
    <2>3. \A t \in Source : Pending(t) => Pending(t)'
      BY <2>2 DEF Pending
    <2>4. \A t \in Source : Attached(t)' <=> Attached(t)
      BY <2>2 DEF Attached, Listed
    <2>5. Removed'
      BY <2>1, <2>2 DEF AttachInv, Removed
    <2> QED
      BY <2>2, <2>3, <2>4, <2>5 DEF AttachInv
  <1>2. ASSUME NEW s \in Source, SeeTranslation(s)
        PROVE  AttachInv'
    <2>1. queue \subseteq queue'
          /\ UNCHANGED <<ingresses, listeners, routes, translations, plan, phase, request, copy, outcome>>
      BY <1>2 DEF SeeTranslation
    <2>2. \A t \in Source : Pending(t) => Pending(t)'
      BY <2>1 DEF Pending
    <2>3. \A t \in Source : Attached(t)' <=> Attached(t)
      BY <2>1 DEF Attached, Listed
    <2>4. Removed'
      BY <2>1 DEF AttachInv, Removed
    <2> QED
      BY <2>1, <2>2, <2>3, <2>4 DEF AttachInv
  <1>3. ASSUME NEW r \in Source \cup {Global}, Start(r)
        PROVE  AttachInv'
    <2>1. /\ phase = "idle" /\ queue' = queue \ {r} /\ request' = r
          /\ UNCHANGED <<ingresses, listeners, routes, translations, plan>>
          /\ r \in Source => IF r \in DOMAIN ingresses THEN copy' # NoCopy /\ phase' = "gateway"
                             ELSE copy' = NoCopy /\ phase' = "prune"
          /\ phase' \in {"gateway", "prune"}
      <3>1. r \in DOMAIN ingresses => generation[r] > 0 /\ generation[r] \in Nat
        BY DEF Typed, TypeOK, Selected
      <3>2. r \in DOMAIN ingresses => [body |-> ingresses[r], generation |-> generation[r]] # NoCopy
        BY <3>1 DEF NoCopy
      <3> QED
        BY <1>3, <3>2, SourceType DEF Start
    <2>2. copy = NoCopy
      BY <2>1 DEF Typed, Reading
    <2>3. \A t \in Source : Pending(t) => t \in queue
      BY <2>1 DEF Pending
    <2>4. \A t \in Source : Pending(t) => Pending(t)'
      BY <2>1, <2>3 DEF Pending
    <2>5. \A t \in Source : Attached(t)' <=> Attached(t)
      BY <2>1 DEF Attached, Listed
    <2>6. Removed'
      BY <2>1, <2>2 DEF AttachInv, Removed
    <2> QED
      BY <2>1, <2>4, <2>5, <2>6 DEF AttachInv
  <1>4. CASE Prune
    <2>1. /\ phase = "prune" /\ request \in Source /\ copy = NoCopy
          /\ routes' = [routes EXCEPT ![request] = NoRoutes]
          /\ translations' = [translations EXCEPT ![request] = NoTranslation]
          /\ queue \subseteq queue' /\ phase' = "gateway"
          /\ UNCHANGED <<ingresses, listeners, plan, request, copy>>
      BY <1>4 DEF Prune, WriteRoutes, Typed, Reading
    <2>2. /\ routes'[request] = NoRoutes /\ translations'[request] = NoTranslation
          /\ \A t \in Source \ {request} : routes'[t] = routes[t] /\ translations'[t] = translations[t]
      BY <2>1 DEF Typed
    <2>3. Attached(request)'
      BY <2>1, <2>2 DEF Attached, NoRoutes, NoRoute
    <2>4. \A t \in Source \ {request} : Attached(t)' <=> Attached(t)
      BY <2>1, <2>2 DEF Attached, Listed
    <2>5. \A t \in Source \ {request} : Pending(t) => Pending(t)'
      BY <2>1 DEF Pending
    <2>6. Removed'
      BY <2>1, <2>2 DEF AttachInv, Removed
    <2>7. \A t \in Source : Pending(t)' \/ Attached(t)'
      BY <2>1, <2>3, <2>4, <2>5 DEF AttachInv
    <2> QED
      BY <2>1, <2>6, <2>7 DEF AttachInv
  <1>5. CASE ReconcileGateway
    <2>1. /\ phase = "gateway" /\ listeners' = plan'.placements /\ queue \subseteq queue'
          /\ listeners' # listeners => DOMAIN ingresses \subseteq queue'
          /\ UNCHANGED <<ingresses, routes, translations>>
          /\ IF copy = NoCopy THEN phase' = "idle" /\ copy' = NoCopy
             ELSE phase' = "translate" /\ request' = request /\ copy' = copy
      BY <1>5 DEF ReconcileGateway, WokenByGateway, Return
    <2>2. \A t \in Source : Pending(t) => Pending(t)'
      BY <2>1 DEF Pending
    <2>3. ASSUME NEW t \in Source, Attached(t)
          PROVE  t \in queue' \/ Attached(t)'
      <3>1. CASE listeners' = listeners
        BY <2>1, <2>3, <3>1 DEF Attached, Listed
      <3>2. CASE listeners' # listeners /\ t \in DOMAIN ingresses
        BY <2>1, <3>2
      <3>3. CASE t \notin DOMAIN ingresses
        <4>1. t \in queue \/ routes[t] = NoRoutes
          BY <2>1, <3>3 DEF AttachInv, Removed
        <4>2. routes[t] = NoRoutes => Attached(t)'
          BY <2>1 DEF Attached, NoRoutes, NoRoute
        <4> QED
          BY <2>1, <4>1, <4>2
      <3> QED
        BY <3>1, <3>2, <3>3
    <2>4. Removed'
      BY <2>1 DEF AttachInv, Removed
    <2>5. \A t \in Source : Pending(t)' \/ Attached(t)'
      BY <2>2, <2>3 DEF AttachInv, Pending
    <2> QED
      BY <2>1, <2>4, <2>5 DEF AttachInv
  <1>6. CASE ApplyRoutes
    <2> DEFINE t == Translate(request, copy.body, ingresses, plan)
    <2>1. /\ phase = "translate" /\ copy # NoCopy /\ request \in Source
          /\ listeners = plan.placements
          /\ routes' = [routes EXCEPT ![request] = t.routes]
          /\ queue \subseteq queue' /\ phase' = "status"
          /\ UNCHANGED <<ingresses, listeners, translations, plan, request, copy>>
      BY <1>6 DEF ApplyRoutes, WriteRoutes, Typed, Reading, AttachInv
    <2>2. routes'[request] = t.routes /\ \A u \in Source \ {request} : routes'[u] = routes[u]
      BY <2>1 DEF Typed
    <2>3. Attached(request)'
      <3>1. \A h \in Name : \A ref \in t.routes[h].refs : Listed(ref)
        BY <2>1, TranslatedAttach DEF Typed
      <3> HIDE DEF t
      <3> QED
        BY <2>1, <2>2, <3>1 DEF Attached, Listed
    <2> HIDE DEF t
    <2>4. \A u \in Source \ {request} : Attached(u)' <=> Attached(u)
      BY <2>1, <2>2 DEF Attached, Listed
    <2>5. \A u \in Source \ {request} : Pending(u) => Pending(u)'
      BY <2>1 DEF Pending
    <2>6. Removed'
      BY <2>1, <2>2 DEF AttachInv, Removed
    <2>7. \A u \in Source : Pending(u)' \/ Attached(u)'
      BY <2>1, <2>3, <2>4, <2>5 DEF AttachInv
    <2> QED
      BY <2>1, <2>6, <2>7 DEF AttachInv
  <1>7. CASE WriteStatus
    <2>1. /\ phase = "status" /\ copy # NoCopy /\ phase' = "idle" /\ copy' = NoCopy
          /\ UNCHANGED <<ingresses, listeners, routes, queue, plan>>
          /\ \A t \in Source \ {request} : translations'[t] = translations[t]
      BY <1>7 DEF WriteStatus, Return, Typed, Reading
    <2>2. \A t \in Source : Pending(t) => Pending(t)'
      BY <2>1 DEF Pending
    <2>3. \A t \in Source : Attached(t)' <=> Attached(t)
      BY <2>1 DEF Attached, Listed
    <2>4. Removed'
      BY <2>1 DEF AttachInv, Removed
    <2> QED
      BY <2>1, <2>2, <2>3, <2>4 DEF AttachInv
  <1>8. CASE Fail
    <2>1. /\ queue' = queue \cup {request} /\ phase' = "idle" /\ copy' = NoCopy
          /\ UNCHANGED <<ingresses, listeners, routes, translations>>
      BY <1>8 DEF Fail, Return
    <2>2. \A t \in Source : Pending(t) => Pending(t)'
      BY <2>1 DEF Pending
    <2>3. \A t \in Source : Attached(t)' <=> Attached(t)
      BY <2>1 DEF Attached, Listed
    <2>4. Removed'
      BY <2>1 DEF AttachInv, Removed
    <2> QED
      BY <2>1, <2>2, <2>3, <2>4 DEF AttachInv
  <1>9. CASE UNCHANGED vars
    <2>1. UNCHANGED <<ingresses, listeners, routes, translations, plan, phase, request, copy, queue>>
      BY <1>9 DEF vars
    <2>2. \A t \in Source : (Pending(t)' <=> Pending(t)) /\ (Attached(t)' <=> Attached(t))
      BY <2>1 DEF Pending, Attached, Listed
    <2>3. Removed'
      BY <2>1 DEF AttachInv, Removed
    <2> QED
      BY <2>1, <2>2, <2>3 DEF AttachInv
  <1> QED
    BY <1>1, <1>2, <1>3, <1>4, <1>5, <1>6, <1>7, <1>8, <1>9 DEF Next, Reconcile, AtRest

\* With the ListenerSet API installed, a controller at rest leaves no route on a
\* listener that is not where the route says: whoever moved the listener, the
\* Ingress has followed.
THEOREM RestMeansAttached == ASSUME Overflow PROVE Spec => []QuietRoutesAttach
  <1>1. AttachInv => QuietRoutesAttach
    BY DEF AttachInv, QuietRoutesAttach, Quiet, Pending, Attached
  <1>2. Typed /\ AttachInv /\ [Next]_vars => AttachInv'
    BY StepAttach
  <1> QED
    BY <1>1, <1>2, InitAttach, AlwaysTyped, PTL DEF Spec


-----------------------------------------------------------------------------
(***************************************************************************)
(* Namespaces.  What Reconcile makes of an Ingress depends on the Ingress, *)
(* on the plan and on the Ingresses of its namespace, not on their labels. *)
(***************************************************************************)
Twins(b, d) == SpecOf(b) = SpecOf(d) /\ AnnotationsOf(b) = AnnotationsOf(d)

Alike(i, j, s) ==
    /\ Neighbours(s, i) = Neighbours(s, j)
    /\ \A t \in Neighbours(s, j) : Twins(i[t], j[t])

\* What differs in the label only is the same to the others.
LEMMA TwinsRead ==
  ASSUME NEW b, NEW d, Twins(b, d)
  PROVE  /\ b.tls = d.tls /\ b.rules = d.rules /\ b.canary = d.canary
         /\ SpecFootprints(b) = SpecFootprints(d) /\ RouteFootprints(b) = RouteFootprints(d)
         /\ FaultyCanary(b) = FaultyCanary(d) /\ DeclaredIn(b) = DeclaredIn(d)
         /\ \A p : HostPaths(InheritedCanary(p, b)) = HostPaths(InheritedCanary(p, d))
  <1>1. /\ b.tls = d.tls /\ b.rules = d.rules /\ b.first = d.first /\ b.paths = d.paths
        /\ b.catchAll = d.catchAll /\ b.aliases = d.aliases /\ b.canary = d.canary /\ b.faulty = d.faulty
    BY DEF Twins, SpecOf, AnnotationsOf
  <1>2. BasePaths(b) = BasePaths(d) /\ FirstHost(b) = FirstHost(d)
    BY <1>1 DEF BasePaths, FirstHost
  <1>3. SpecFootprints(b) = SpecFootprints(d)
    BY <1>2 DEF SpecFootprints
  <1>4. RouteFootprints(b) = RouteFootprints(d)
    BY <1>1, <1>3 DEF RouteFootprints
  <1>5. FaultyCanary(b) = FaultyCanary(d)
    BY <1>1 DEF FaultyCanary
  <1>6. DeclaredIn(b) = DeclaredIn(d)
    BY <1>1 DEF DeclaredIn, EffectiveTLSHosts
  <1>7. ASSUME NEW p
        PROVE  HostPaths(InheritedCanary(p, b)) = HostPaths(InheritedCanary(p, d))
    <2> DEFINE x == InheritedCanary(p, b)
               y == InheritedCanary(p, d)
    <2>1. /\ x.aliases = y.aliases /\ x.paths = y.paths /\ x.rules = y.rules
          /\ x.first = y.first /\ x.catchAll = y.catchAll
      BY <1>1 DEF InheritedCanary
    <2> HIDE DEF x, y
    <2>2. BasePaths(x) = BasePaths(y) /\ FirstHost(x) = FirstHost(y)
      BY <2>1 DEF BasePaths, FirstHost
    <2>3. HostPaths(x) = HostPaths(y)
      BY <2>1, <2>2 DEF HostPaths
    <2> QED
      BY <2>3 DEF x, y
  <1> QED
    BY <1>1, <1>3, <1>4, <1>5, <1>6, <1>7

\* Ingresses that are alike for s are alike for its neighbours.
LEMMA AlikeForNeighbours ==
  ASSUME NEW i, NEW j, NEW s, Alike(i, j, s), NEW t \in Neighbours(s, j)
  PROVE  Alike(i, j, t) /\ Neighbours(t, i) = Neighbours(s, j) /\ Twins(i[t], j[t])
  <1>1. \A k : Neighbours(t, k) = Neighbours(s, k)
    BY DEF Neighbours
  <1> QED
    BY <1>1 DEF Alike

\* The primary of a canary is found in its namespace.
LEMMA AssignedLocal ==
  ASSUME NEW i, NEW j, NEW s, s \in DOMAIN j, Alike(i, j, s)
  PROVE  AssignedTo(s, i) = AssignedTo(s, j)
  <1>1. s \in Neighbours(s, j)
    BY DEF Neighbours
  <1>2. /\ Neighbours(s, i) = Neighbours(s, j)
        /\ \A t \in Neighbours(s, j) : /\ i[t].canary = j[t].canary
                                       /\ SpecFootprints(i[t]) = SpecFootprints(j[t])
    BY TwinsRead DEF Alike
  <1>3. Candidates(s, i) = Candidates(s, j)
    BY <1>1, <1>2 DEF Candidates
  <1> DEFINE none(k) == ~k[s].canary \/ SpecFootprints(k[s]) = {} \/ Candidates(s, k) = {}
             oldest(k) == CHOOSE x \in Candidates(s, k) : \A y \in Candidates(s, k) \ {x} : Older(x, y)
  <1>4. /\ AssignedTo(s, i) = IF none(i) THEN NoSource ELSE oldest(i)
        /\ AssignedTo(s, j) = IF none(j) THEN NoSource ELSE oldest(j)
    BY DEF AssignedTo, Candidates
  <1>5. none(i) = none(j) /\ oldest(i) = oldest(j)
    BY <1>1, <1>2, <1>3
  <1> HIDE DEF none, oldest
  <1> QED
    BY <1>4, <1>5

\* And so are its canaries.
LEMMA CanariesLocal ==
  ASSUME NEW i, NEW j, NEW s, Alike(i, j, s)
  PROVE  CanariesOf(s, i) = CanariesOf(s, j) /\ \A c \in CanariesOf(s, j) : Twins(i[c], j[c])
  <1>1. ASSUME NEW c \in Neighbours(s, j)
        PROVE  AssignedTo(c, i) = AssignedTo(c, j)
    <2>1. c \in DOMAIN j
      BY DEF Neighbours
    <2> QED
      BY <2>1, AlikeForNeighbours, AssignedLocal
  <1>2. Neighbours(s, i) = Neighbours(s, j) /\ \A c \in Neighbours(s, j) : Twins(i[c], j[c])
    BY DEF Alike
  <1> QED
    BY <1>1, <1>2 DEF CanariesOf

\* The whole of Translate.
LEMMA TranslateLocal ==
  ASSUME NEW i, NEW j, NEW s, s \in DOMAIN j, Alike(i, j, s), NEW b, NEW p
  PROVE  Translate(s, b, i, p) = Translate(s, b, j, p)
  <1>1. /\ CanariesOf(s, i) = CanariesOf(s, j)
        /\ \A c \in CanariesOf(s, j) : /\ FaultyCanary(i[c]) = FaultyCanary(j[c])
                                        /\ HostPaths(InheritedCanary(b, i[c])) = HostPaths(InheritedCanary(b, j[c]))
    BY CanariesLocal, TwinsRead
  <1>2. /\ Neighbours(s, i) = Neighbours(s, j)
        /\ \A t \in Neighbours(s, j) : RouteFootprints(i[t]) = RouteFootprints(j[t])
    BY TwinsRead DEF Alike
  <1>3. s \in DOMAIN i
    BY <1>2 DEF Neighbours
  <1>4. AssignedTo(s, i) = AssignedTo(s, j)
    BY AssignedLocal
  <1>5. FatalCanary(s, b, i) = FatalCanary(s, b, j)
    BY <1>3, <1>4 DEF FatalCanary
  <1>6. \A h : Rules(s, b, i, h) = Rules(s, b, j, h)
    BY <1>1 DEF Rules
  <1>7. RequiresSettingsSnippets(s, b, i) = RequiresSettingsSnippets(s, b, j)
    BY <1>1, <1>2 DEF RequiresSettingsSnippets
  <1>8. CanariesClash(s, b, i) = CanariesClash(s, b, j)
    BY <1>1 DEF CanariesClash
  <1>9. FatalPrimary(s, b, i) = FatalPrimary(s, b, j)
    BY <1>1, <1>6, <1>7, <1>8 DEF FatalPrimary
  <1>10. Routes(s, b, i, p) = Routes(s, b, j, p)
    BY <1>6, <1>7 DEF Routes
  <1> QED
    BY <1>4, <1>5, <1>9, <1>10 DEF Translate


-----------------------------------------------------------------------------
(***************************************************************************)
(* Wake-ups.  An Ingress is queued or being worked at, or its routes and   *)
(* its verdict are those of Translate with the Ingresses of its namespace  *)
(* as they are, and with a plan made of them whose placements are those of *)
(* the Gateway.  A plan made of other Ingresses of another namespace may   *)
(* do: nobody wakes an Ingress for those.                                  *)
(***************************************************************************)
AsOf(p, s) ==
    /\ \E i, cu : /\ Selected(i) /\ cu \in [Host -> Placement]
                  /\ Alike(i, ingresses, s)
                  /\ p = PlanFor(i, cu)
    /\ p.placements = listeners

Verdict(s, t) ==
    /\ translations[s].observed = generation[s]
    /\ translations[s].ready \in IF t.fatal THEN {"False"}
                                 ELSE IF t.delegatedTo # NoSource THEN {DelegatedReady(t.delegatedTo)}
                                 ELSE {"True", "Unknown"}

FollowedBy(s, t) ==
    /\ routes[s] = t.routes
    /\ IF phase = "status" /\ request = s
       THEN outcome = [fatal |-> t.fatal, delegatedTo |-> t.delegatedTo]
       ELSE Verdict(s, t)

Followed(s) == \E p : AsOf(p, s) /\ FollowedBy(s, Translate(s, ingresses[s], ingresses, p))

\* What has been read is what there is, unless it will be read again.
Fresh ==
    request \notin queue =>
        /\ phase = "prune" => request \notin DOMAIN ingresses
        /\ copy # NoCopy => /\ request \in DOMAIN ingresses
                            /\ copy.body = ingresses[request] /\ copy.generation = generation[request]
        /\ phase = "translate" => AsOf(plan, request)

\* The last plan is of the Ingresses there are, unless another is to come.
Current ==
    \/ queue # {} \/ phase \in {"prune", "gateway"}
    \/ \E cu \in [Host -> Placement] : plan = PlanFor(ingresses, cu) /\ listeners = plan.placements

FollowInv ==
    /\ \A s \in DOMAIN ingresses : Pending(s) \/ Followed(s)
    /\ Fresh
    /\ Current

\* Its routes are applied, its status is to be written.
Halfway(s) == phase = "status" /\ request = s

\* What an Ingress follows is still so when nothing it comes from has changed.
LEMMA FollowedStays ==
  ASSUME NEW s, s \in DOMAIN ingresses, Followed(s),
         Alike(ingresses, ingresses', s), ingresses'[s] = ingresses[s], listeners' = listeners,
         routes'[s] = routes[s], translations'[s] = translations[s], generation'[s] = generation[s],
         Halfway(s)' <=> Halfway(s), Halfway(s) => outcome' = outcome,
         \A q : q = AssignedTo(s, ingresses) /\ q # NoSource => DelegatedReady(q)' = DelegatedReady(q)
  PROVE  Followed(s)'
  <1>1. PICK p : AsOf(p, s) /\ FollowedBy(s, Translate(s, ingresses[s], ingresses, p))
    BY DEF Followed
  <1>2. PICK t : t = Translate(s, ingresses[s], ingresses, p)
    OBVIOUS
  <1>3. /\ \A i : Alike(i, ingresses, s) => Alike(i, ingresses', s)
        /\ s \in DOMAIN ingresses'
    BY DEF Alike, Neighbours, Twins
  <1>4. AsOf(p, s)'
    BY <1>1, <1>3 DEF AsOf
  <1>5. t = Translate(s, ingresses'[s], ingresses', p)
    BY <1>2, <1>3, TranslateLocal
  <1>6. t.delegatedTo # NoSource => DelegatedReady(t.delegatedTo)' = DelegatedReady(t.delegatedTo)
    <2>1. t.delegatedTo # NoSource => t.delegatedTo = AssignedTo(s, ingresses)
      BY <1>2 DEF Translate
    <2> QED
      BY <2>1
  <1>7. FollowedBy(s, t)
    BY <1>1, <1>2
  <1>8. FollowedBy(s, t)'
    BY <1>6, <1>7 DEF FollowedBy, Verdict, Halfway
  <1>9. FollowedBy(s, Translate(s, ingresses[s], ingresses, p))'
    BY <1>5, <1>8 DEF FollowedBy, Verdict, DelegatedReady
  <1> QED
    BY <1>4, <1>9 DEF Followed


\* In particular when the Ingresses and what is seen of them stay.
LEMMA FollowedKept ==
  ASSUME NEW s, s \in DOMAIN ingresses, Followed(s),
         UNCHANGED <<ingresses, generation, listeners, seen>>,
         routes'[s] = routes[s], translations'[s] = translations[s],
         Halfway(s)' <=> Halfway(s), Halfway(s) => outcome' = outcome
  PROVE  Followed(s)'
  <1>1. Alike(ingresses, ingresses', s)
    BY DEF Alike, Twins
  <1>2. \A q : DelegatedReady(q)' = DelegatedReady(q)
    BY DEF DelegatedReady
  <1>3. generation'[s] = generation[s] /\ listeners' = listeners
    OBVIOUS
  <1> QED
    BY <1>1, <1>2, <1>3, FollowedStays

\* The bridge starts with every Ingress queued.
LEMMA InitFollow == Init => FollowInv
  <1> SUFFICES ASSUME Init PROVE FollowInv
    OBVIOUS
  <1>1. \A s \in DOMAIN ingresses : Pending(s)
    BY DEF Init, Pending
  <1>2. Fresh
    BY DEF Init, Fresh
  <1>3. Current
    BY DEF Init, Current
  <1> QED
    BY <1>1, <1>2, <1>3 DEF FollowInv

\* An edit wakes the namespace; what it leaves asleep has not changed.
LEMMA EditFollow ==
  ASSUME Typed, FollowInv, NEW s \in Source, PutIngress(s) \/ DropIngress(s)
  PROVE  FollowInv'
  <1> USE DEF work
  <1>1. PICK new : /\ Edit(s, new) /\ DOMAIN new \subseteq Source
                   /\ \A t \in Source \ {s} : /\ t \in DOMAIN new <=> t \in DOMAIN ingresses
                                              /\ t \in DOMAIN ingresses => new[t] = ingresses[t]
                                              /\ generation'[t] = generation[t]
                   /\ ConcernsNamespace(s, new) \/ generation'[s] = generation[s]
    <2> DEFINE put(b) == [t \in DOMAIN ingresses \cup {s} |-> IF t = s THEN b ELSE ingresses[t]]
               drop == [t \in DOMAIN ingresses \ {s} |-> ingresses[t]]
               counts(b) == generation' = IF s \in DOMAIN ingresses /\ SpecOf(b) = SpecOf(ingresses[s])
                                          THEN generation ELSE [generation EXCEPT ![s] = @ + 1]
    <2>1. (\E b \in Declarations[s] : Edit(s, put(b)) /\ counts(b)) \/ (Edit(s, drop) /\ generation' = generation)
      BY DEF PutIngress, DropIngress
    <2>2. \A b : /\ DOMAIN put(b) = DOMAIN ingresses \cup {s} /\ put(b)[s] = b
                 /\ \A t \in DOMAIN ingresses \ {s} : put(b)[t] = ingresses[t]
      OBVIOUS
    <2>3. DOMAIN drop = DOMAIN ingresses \ {s} /\ \A t \in DOMAIN ingresses \ {s} : drop[t] = ingresses[t]
      OBVIOUS
    <2>4. \A t \in Source \ {s} : generation'[t] = generation[t]
      BY DEF PutIngress, DropIngress, Typed, TypeOK
    <2>5. DOMAIN ingresses \subseteq Source
      BY DEF Typed, Selected
    <2> HIDE DEF put, drop
    <2>6. \A b : counts(b) => ConcernsNamespace(s, put(b)) \/ generation'[s] = generation[s]
      BY <2>2 DEF ConcernsNamespace
    <2> HIDE DEF counts
    <2> QED
      BY <2>1, <2>2, <2>3, <2>4, <2>5, <2>6
  <1>2. /\ ingresses' = new /\ queue' = queue \cup WokenByIngress(s, new)
        /\ UNCHANGED <<listeners, routes, translations, seen, plan, phase, request, copy, outcome>>
    BY <1>1 DEF Edit
  <1>3. DOMAIN ingresses \subseteq Source
    BY DEF Typed, Selected
  <1>4. ASSUME NEW t \in Source, t \notin queue'
        PROVE  /\ t \notin queue /\ (t \in DOMAIN new <=> t \in DOMAIN ingresses)
               /\ generation'[t] = generation[t]
               /\ t \in DOMAIN ingresses => /\ new[t] = ingresses[t] /\ Alike(ingresses, new, t)
                                            /\ \A q \in Neighbours(t, ingresses) :
                                                  q \in DOMAIN new /\ generation'[q] = generation[q]
    <2>1. t \notin queue /\ t # s /\ (ConcernsNamespace(s, new) => t \notin Neighbours(s, new))
      BY <1>2, <1>4 DEF WokenByIngress
    <2>2. /\ t \in DOMAIN new <=> t \in DOMAIN ingresses
          /\ t \in DOMAIN ingresses => new[t] = ingresses[t]
          /\ generation'[t] = generation[t]
      BY <1>1, <2>1
    <2>3. ASSUME t \in DOMAIN ingresses
          PROVE  /\ Alike(ingresses, new, t)
                 /\ \A q \in Neighbours(t, ingresses) : q \in DOMAIN new /\ generation'[q] = generation[q]
      <3>1. Neighbours(t, ingresses) \subseteq Source /\ Neighbours(t, new) \subseteq Source
        BY <1>1, <1>3 DEF Neighbours
      <3>2. \/ s \notin Neighbours(t, ingresses) /\ s \notin Neighbours(t, new)
            \/ /\ s \in DOMAIN ingresses /\ s \in DOMAIN new /\ generation'[s] = generation[s]
               /\ Twins(ingresses[s], new[s])
        <4>1. CASE ConcernsNamespace(s, new)
          <5>1. NamespaceOf[s] # NamespaceOf[t]
            BY <2>1, <2>2, <2>3, <4>1 DEF Neighbours
          <5> QED
            BY <5>1 DEF Neighbours
        <4>2. CASE ~ConcernsNamespace(s, new)
          BY <1>1, <4>2 DEF ConcernsNamespace, Twins
        <4> QED
          BY <4>1, <4>2
      <3>3. Neighbours(t, ingresses) = Neighbours(t, new)
        BY <1>1, <3>1, <3>2 DEF Neighbours
      <3>4. \A u \in Neighbours(t, new) : Twins(ingresses[u], new[u])
        BY <1>1, <3>1, <3>2, <3>3 DEF Neighbours, Twins
      <3>5. \A q \in Neighbours(t, ingresses) : q \in DOMAIN new /\ generation'[q] = generation[q]
        BY <1>1, <3>1, <3>2, <3>3 DEF Neighbours
      <3> QED
        BY <3>3, <3>4, <3>5 DEF Alike
    <2> QED
      BY <2>1, <2>2, <2>3
  <1>5. ASSUME NEW t \in DOMAIN new
        PROVE  Pending(t)' \/ Followed(t)'
    <2>1. CASE t \in queue'
      BY <2>1 DEF Pending
    <2>2. CASE t \notin queue'
      <3>1. /\ t \in Source /\ t \in DOMAIN ingresses /\ t \notin queue /\ new[t] = ingresses[t]
            /\ Alike(ingresses, new, t) /\ generation'[t] = generation[t]
            /\ \A q \in Neighbours(t, ingresses) : q \in DOMAIN new /\ generation'[q] = generation[q]
        BY <1>1, <1>4, <2>2
      <3>2. CASE Pending(t)
        BY <1>2, <3>2 DEF Pending
      <3>3. CASE Followed(t)
        <4>1. ASSUME NEW q, q = AssignedTo(t, ingresses) /\ q # NoSource
              PROVE  DelegatedReady(q)' = DelegatedReady(q)
          <5>1. q \in Neighbours(t, ingresses)
            BY <3>1, <4>1, AssignedIs DEF Typed, Candidates
          <5>2. q \in DOMAIN ingresses
            BY <5>1 DEF Neighbours
          <5>3. q \in DOMAIN new /\ generation'[q] = generation[q]
            BY <3>1, <5>1
          <5> QED
            BY <1>2, <5>2, <5>3 DEF DelegatedReady
        <4>2. Alike(ingresses, ingresses', t) /\ ingresses'[t] = ingresses[t]
          BY <1>2, <3>1
        <4>3. Halfway(t)' <=> Halfway(t)
          BY <1>2 DEF Halfway
        <4> QED
          BY <1>2, <3>1, <3>3, <4>1, <4>2, <4>3, FollowedStays
      <3> QED
        BY <3>1, <3>2, <3>3 DEF FollowInv
    <2> QED
      BY <2>1, <2>2
  <1>6. Fresh'
    <2> SUFFICES ASSUME request \notin queue'
                 PROVE  /\ phase = "prune" => request \notin DOMAIN new
                        /\ copy # NoCopy => /\ request \in DOMAIN new
                                            /\ copy.body = new[request] /\ copy.generation = generation'[request]
                        /\ phase = "translate" => AsOf(plan, request)'
      BY <1>2 DEF Fresh
    <2>1. CASE request \in Source
      <3>1. /\ request \notin queue /\ (request \in DOMAIN new <=> request \in DOMAIN ingresses)
            /\ generation'[request] = generation[request]
            /\ request \in DOMAIN ingresses => new[request] = ingresses[request] /\ Alike(ingresses, new, request)
        BY <1>4, <2>1
      <3>2. /\ phase = "prune" => request \notin DOMAIN ingresses
            /\ copy # NoCopy => /\ request \in DOMAIN ingresses
                                /\ copy.body = ingresses[request] /\ copy.generation = generation[request]
            /\ phase = "translate" => AsOf(plan, request)
        BY <3>1 DEF FollowInv, Fresh
      <3>3. ASSUME phase = "translate"
            PROVE  AsOf(plan, request)'
        <4>1. copy # NoCopy
          BY <3>3 DEF Typed, Reading
        <4>2. \A i : Alike(i, ingresses, request) => Alike(i, new, request)
          BY <3>1, <3>2, <4>1 DEF Alike, Twins
        <4> QED
          BY <1>2, <3>2, <3>3, <4>2 DEF AsOf
      <3> QED
        BY <3>1, <3>2, <3>3
    <2>2. CASE request \notin Source
      BY <2>2 DEF Typed, Reading
    <2> QED
      BY <2>1, <2>2
  <1>7. Current'
    <2>1. s \in queue'
      BY <1>2 DEF WokenByIngress
    <2> QED
      BY <2>1 DEF Current
  <1> QED
    BY <1>2, <1>5, <1>6, <1>7 DEF FollowInv


\* Every step leaves who does not follow queued, or being worked at.
LEMMA StepFollow ==
  ASSUME Typed, FollowInv, [Next]_vars
  PROVE  FollowInv'
  <1> USE DEF cluster, work, bounds
  <1>1. ASSUME NEW s \in Source, PutIngress(s) \/ DropIngress(s)
        PROVE  FollowInv'
    BY <1>1, EditFollow
  <1>2. ASSUME NEW s \in Source, SeeTranslation(s)
        PROVE  FollowInv'
    <2>1. /\ queue' = queue \cup {s} \cup {c \in DOMAIN ingresses : AssignedTo(c, ingresses) = s}
          /\ UNCHANGED <<ingresses, generation, listeners, routes, translations, plan, phase, request, copy, outcome>>
          /\ \A t \in Source \ {s} : seen'[t] = seen[t]
      BY <1>2 DEF SeeTranslation, WokenByTranslation, Typed
    <2>2. ASSUME NEW t \in DOMAIN ingresses
          PROVE  Pending(t)' \/ Followed(t)'
      <3>1. CASE Pending(t) \/ t \in queue'
        BY <2>1, <3>1 DEF Pending
      <3>2. CASE Followed(t) /\ t \notin queue'
        <4>1. AssignedTo(t, ingresses) # s
          BY <2>1, <3>2
        <4>2. ASSUME NEW q, q = AssignedTo(t, ingresses) /\ q # NoSource
              PROVE  DelegatedReady(q)' = DelegatedReady(q)
          <5>1. q \in Candidates(t, ingresses)
            BY <4>2, AssignedIs DEF Typed
          <5>2. q \in Source \ {s}
            BY <4>1, <4>2, <5>1 DEF Candidates, Neighbours, Typed, Selected
          <5> QED
            BY <2>1, <5>2 DEF DelegatedReady
        <4>3. Alike(ingresses, ingresses', t) /\ (Halfway(t)' <=> Halfway(t))
          BY <2>1 DEF Alike, Twins, Halfway
        <4> QED
          BY <2>1, <3>2, <4>2, <4>3, FollowedStays
      <3> QED
        BY <3>1, <3>2 DEF FollowInv
    <2>3. Fresh'
      BY <2>1 DEF FollowInv, Fresh, AsOf
    <2>4. Current'
      BY <2>1 DEF Current
    <2> QED
      BY <2>1, <2>2, <2>3, <2>4 DEF FollowInv
  <1>3. ASSUME NEW r \in Source \cup {Global}, Start(r)
        PROVE  FollowInv'
    <2>1. /\ phase = "idle" /\ queue' = queue \ {r} /\ request' = r /\ phase' \in {"gateway", "prune"}
          /\ UNCHANGED <<ingresses, generation, listeners, routes, translations, seen, plan, outcome>>
          /\ copy' = IF r \in DOMAIN ingresses THEN [body |-> ingresses[r], generation |-> generation[r]] ELSE NoCopy
          /\ phase' = "prune" => r \notin DOMAIN ingresses
          /\ r \in DOMAIN ingresses => phase' = "gateway"
      BY <1>3 DEF Start
    <2>2. r \in DOMAIN ingresses => copy' # NoCopy
      <3>1. r \in DOMAIN ingresses => generation[r] > 0 /\ generation[r] \in Nat
        BY DEF Typed, TypeOK, Selected
      <3> QED
        BY <2>1, <3>1 DEF NoCopy
    <2>3. ASSUME NEW t \in DOMAIN ingresses
          PROVE  Pending(t)' \/ Followed(t)'
      <3>1. CASE t = r
        BY <2>1, <2>2, <3>1 DEF Pending
      <3>2. CASE t # r /\ Pending(t)
        BY <2>1, <3>2 DEF Pending
      <3>3. CASE Followed(t)
        <4>1. ~Halfway(t) /\ ~Halfway(t)'
          BY <2>1 DEF Halfway
        <4> QED
          BY <2>1, <3>3, <4>1, FollowedKept
      <3> QED
        BY <3>1, <3>2, <3>3 DEF FollowInv
    <2>4. Fresh'
      BY <2>1 DEF Fresh
    <2>5. Current'
      BY <2>1 DEF Current
    <2> QED
      BY <2>1, <2>3, <2>4, <2>5 DEF FollowInv
  <1>4. CASE Prune
    <2>1. /\ phase = "prune" /\ request \in Source /\ copy = NoCopy
          /\ routes' = [routes EXCEPT ![request] = NoRoutes]
          /\ translations' = [translations EXCEPT ![request] = NoTranslation]
          /\ queue \subseteq queue' /\ phase' = "gateway"
          /\ UNCHANGED <<ingresses, generation, listeners, seen, plan, request, copy, outcome>>
      BY <1>4 DEF Prune, WriteRoutes, Typed, Reading
    <2>2. \A t \in Source \ {request} : routes'[t] = routes[t] /\ translations'[t] = translations[t]
      BY <2>1 DEF Typed
    <2>3. request \in queue \/ request \notin DOMAIN ingresses
      BY <2>1 DEF FollowInv, Fresh
    <2>4. ASSUME NEW t \in DOMAIN ingresses
          PROVE  Pending(t)' \/ Followed(t)'
      <3>1. CASE t \in queue
        BY <2>1, <3>1 DEF Pending
      <3>2. CASE t \notin queue
        <4>1. t # request /\ t \in Source
          BY <2>3, <3>2 DEF Typed, Selected
        <4>2. Followed(t)
          BY <2>1, <3>2, <4>1 DEF FollowInv, Pending
        <4>3. ~Halfway(t) /\ ~Halfway(t)'
          BY <2>1 DEF Halfway
        <4> QED
          BY <2>1, <2>2, <4>1, <4>2, <4>3, FollowedKept
      <3> QED
        BY <3>1, <3>2
    <2>5. Fresh' /\ Current'
      BY <2>1 DEF Fresh, Current
    <2> QED
      BY <2>1, <2>4, <2>5 DEF FollowInv
  <1>5. CASE ReconcileGateway
    <2>1. /\ phase = "gateway" /\ listeners' = plan'.placements /\ queue \subseteq queue'
          /\ plan' = PlanFor(ingresses, plan.placements)
          /\ listeners' # listeners => DOMAIN ingresses \subseteq queue'
          /\ UNCHANGED <<ingresses, generation, routes, translations, seen>>
          /\ IF copy = NoCopy THEN phase' = "idle" /\ copy' = NoCopy
             ELSE phase' = "translate" /\ request' = request /\ copy' = copy
      BY <1>5 DEF ReconcileGateway, WokenByGateway, Return
    <2>2. Selected(ingresses) /\ plan.placements \in [Host -> Placement]
      BY DEF Typed, TypeOK
    <2>3. ASSUME NEW t \in DOMAIN ingresses
          PROVE  Pending(t)' \/ Followed(t)'
      <3>1. CASE t \in queue'
        BY <3>1 DEF Pending
      <3>2. CASE Pending(t)
        BY <2>1, <3>2 DEF Pending
      <3>3. CASE Followed(t) /\ t \notin queue'
        <4>1. listeners' = listeners
          BY <2>1, <3>3
        <4>2. ~Halfway(t) /\ ~Halfway(t)'
          BY <2>1 DEF Halfway
        <4> QED
          BY <2>1, <3>3, <4>1, <4>2, FollowedKept
      <3> QED
        BY <3>1, <3>2, <3>3 DEF FollowInv
    <2>4. Fresh'
      <3> SUFFICES ASSUME request' \notin queue', copy # NoCopy
                   PROVE  /\ request \in DOMAIN ingresses
                          /\ copy.body = ingresses[request] /\ copy.generation = generation[request]
                          /\ AsOf(plan, request)'
        BY <2>1 DEF Fresh
      <3>1. \A t : Alike(ingresses, ingresses, t)
        BY DEF Alike, Twins
      <3>2. request' = request
        BY <2>1
      <3>3. AsOf(plan, request)'
        BY <2>1, <2>2, <3>1, <3>2 DEF AsOf
      <3> QED
        BY <2>1, <3>2, <3>3 DEF FollowInv, Fresh
    <2>5. Current'
      BY <2>1, <2>2 DEF Current
    <2> QED
      BY <2>1, <2>3, <2>4, <2>5 DEF FollowInv
  <1>6. CASE ApplyRoutes
    <2>1. PICK t : t = Translate(request, copy.body, ingresses, plan)
      OBVIOUS
    <2>2. /\ phase = "translate" /\ copy # NoCopy /\ request \in Source
          /\ routes' = [routes EXCEPT ![request] = t.routes]
          /\ outcome' = [fatal |-> t.fatal, delegatedTo |-> t.delegatedTo]
          /\ queue \subseteq queue' /\ phase' = "status"
          /\ UNCHANGED <<ingresses, generation, listeners, translations, seen, plan, request, copy>>
      BY <1>6, <2>1 DEF ApplyRoutes, WriteRoutes, Typed, Reading
    <2>3. routes'[request] = t.routes /\ \A u \in Source \ {request} : routes'[u] = routes[u]
      BY <2>2 DEF Typed
    <2>4. ASSUME NEW u \in DOMAIN ingresses
          PROVE  Pending(u)' \/ Followed(u)'
      <3>1. CASE u \in queue
        BY <2>2, <3>1 DEF Pending
      <3>2. CASE u = request /\ u \notin queue
        <4>1. copy.body = ingresses[u] /\ AsOf(plan, u)
          BY <2>2, <3>2 DEF FollowInv, Fresh
        <4>2. AsOf(plan, u)'
          BY <2>2, <4>1 DEF AsOf
        <4>3. t = Translate(u, ingresses'[u], ingresses', plan')
          BY <2>1, <2>2, <3>2, <4>1
        <4>4. FollowedBy(u, t)'
          BY <2>2, <2>3, <3>2 DEF FollowedBy
        <4>5. FollowedBy(u, Translate(u, ingresses[u], ingresses, plan))'
          BY <4>3, <4>4 DEF FollowedBy, Verdict, DelegatedReady
        <4> QED
          BY <4>2, <4>5 DEF Followed
      <3>3. CASE u # request /\ u \notin queue
        <4>1. Followed(u)
          BY <2>2, <3>3 DEF FollowInv, Pending
        <4>2. ~Halfway(u) /\ ~Halfway(u)' /\ u \in Source
          BY <2>2, <3>3 DEF Halfway, Typed, Selected
        <4> QED
          BY <2>2, <2>3, <3>3, <4>1, <4>2, FollowedKept
      <3> QED
        BY <3>1, <3>2, <3>3
    <2>5. Fresh'
      BY <2>2 DEF FollowInv, Fresh
    <2>6. Current'
      BY <2>2 DEF FollowInv, Current
    <2> QED
      BY <2>2, <2>4, <2>5, <2>6 DEF FollowInv
  <1>7. CASE WriteStatus
    <2>1. /\ phase = "status" /\ copy # NoCopy /\ phase' = "idle" /\ copy' = NoCopy /\ request \in Source
          /\ translations' = [translations EXCEPT ![request] = [observed |-> copy.generation, ready |-> Ready]]
          /\ UNCHANGED <<ingresses, generation, listeners, routes, seen, queue, plan>>
      BY <1>7 DEF WriteStatus, Return, Typed, Reading
    <2>2. /\ translations'[request] = [observed |-> copy.generation, ready |-> Ready]
          /\ \A t \in Source \ {request} : translations'[t] = translations[t]
      BY <2>1 DEF Typed
    <2>3. ASSUME NEW t \in DOMAIN ingresses
          PROVE  Pending(t)' \/ Followed(t)'
      <3>1. CASE t \in queue
        BY <2>1, <3>1 DEF Pending
      <3>2. CASE t # request /\ t \notin queue
        <4>1. Followed(t)
          BY <2>1, <3>2 DEF FollowInv, Pending
        <4>2. ~Halfway(t) /\ ~Halfway(t)' /\ t \in Source
          BY <2>1, <3>2 DEF Halfway, Typed, Selected
        <4> QED
          BY <2>1, <2>2, <3>2, <4>1, <4>2, FollowedKept
      <3>3. CASE t = request /\ t \notin queue
        <4>1. Followed(t) /\ copy.generation = generation[t]
          BY <2>1, <3>3 DEF FollowInv, Fresh, Pending
        <4>2. PICK p : AsOf(p, t) /\ FollowedBy(t, Translate(t, ingresses[t], ingresses, p))
          BY <4>1 DEF Followed
        <4>3. PICK u : u = Translate(t, ingresses[t], ingresses, p)
          OBVIOUS
        <4>4. routes[t] = u.routes /\ outcome = [fatal |-> u.fatal, delegatedTo |-> u.delegatedTo]
          BY <2>1, <3>3, <4>2, <4>3 DEF FollowedBy
        <4>5. Ready \in IF u.fatal THEN {"False"}
                        ELSE IF u.delegatedTo # NoSource THEN {DelegatedReady(u.delegatedTo)}
                        ELSE {"True", "Unknown"}
          BY <4>4 DEF Ready
        <4>6. DelegatedReady(u.delegatedTo)' = DelegatedReady(u.delegatedTo)
          BY <2>1 DEF DelegatedReady
        <4>7. Verdict(t, u)'
          BY <2>1, <2>2, <3>3, <4>1, <4>5, <4>6 DEF Verdict
        <4>8. FollowedBy(t, u)'
          BY <2>1, <4>4, <4>7 DEF FollowedBy
        <4>9. AsOf(p, t)' /\ u = Translate(t, ingresses'[t], ingresses', p)
          BY <2>1, <4>2, <4>3 DEF AsOf
        <4>10. FollowedBy(t, Translate(t, ingresses[t], ingresses, p))'
          BY <4>8, <4>9 DEF FollowedBy, Verdict, DelegatedReady
        <4> QED
          BY <4>9, <4>10 DEF Followed
      <3> QED
        BY <3>1, <3>2, <3>3
    <2>4. Fresh'
      BY <2>1 DEF Fresh
    <2>5. Current'
      BY <2>1 DEF FollowInv, Current
    <2> QED
      BY <2>1, <2>3, <2>4, <2>5 DEF FollowInv
  <1>8. CASE Fail
    <2>1. /\ queue' = queue \cup {request} /\ phase' = "idle" /\ copy' = NoCopy
          /\ UNCHANGED <<ingresses, generation, listeners, routes, translations, seen>>
      BY <1>8 DEF Fail, Return
    <2>2. ASSUME NEW t \in DOMAIN ingresses
          PROVE  Pending(t)' \/ Followed(t)'
      <3>1. CASE t \in queue'
        BY <3>1 DEF Pending
      <3>2. CASE t \notin queue'
        <4>1. t # request /\ t \notin queue
          BY <2>1, <3>2
        <4>2. Followed(t)
          BY <4>1 DEF FollowInv, Pending
        <4>3. ~Halfway(t) /\ ~Halfway(t)'
          BY <2>1, <4>1 DEF Halfway
        <4> QED
          BY <2>1, <4>2, <4>3, FollowedKept
      <3> QED
        BY <3>1, <3>2
    <2>3. Fresh' /\ Current'
      BY <2>1 DEF Fresh, Current
    <2> QED
      BY <2>1, <2>2, <2>3 DEF FollowInv
  <1>9. CASE UNCHANGED vars
    <2>1. UNCHANGED <<ingresses, generation, listeners, routes, translations, seen, plan, phase, request, copy,
                      outcome, queue>>
      BY <1>9 DEF vars
    <2>2. ASSUME NEW t \in DOMAIN ingresses
          PROVE  Pending(t)' \/ Followed(t)'
      <3>1. CASE Pending(t)
        BY <2>1, <3>1 DEF Pending
      <3>2. CASE Followed(t)
        <4>1. Halfway(t)' <=> Halfway(t)
          BY <2>1 DEF Halfway
        <4> QED
          BY <2>1, <3>2, <4>1, FollowedKept
      <3> QED
        BY <3>1, <3>2 DEF FollowInv
    <2>3. Fresh'
      BY <2>1 DEF FollowInv, Fresh, AsOf
    <2>4. Current'
      BY <2>1 DEF FollowInv, Current
    <2> QED
      BY <2>1, <2>2, <2>3, <2>4 DEF FollowInv
  <1> QED
    BY <1>1, <1>2, <1>3, <1>4, <1>5, <1>6, <1>7, <1>8, <1>9 DEF Next, Reconcile, AtRest


\* Whatever the ListenerSets, no wake-up is lost.
LEMMA AlwaysFollow == Spec => []FollowInv
  <1>1. Typed /\ FollowInv /\ [Next]_vars => FollowInv'
    BY StepFollow
  <1> QED
    BY <1>1, InitFollow, AlwaysTyped, PTL DEF Spec

\* At rest every Ingress follows, with a status about the Ingress there is.
LEMMA RestFollows ==
  ASSUME FollowInv, Quiet, NEW s, s \in DOMAIN ingresses
  PROVE  \E p : /\ AsOf(p, s)
                /\ routes[s] = Translate(s, ingresses[s], ingresses, p).routes
                /\ Verdict(s, Translate(s, ingresses[s], ingresses, p))
  <1>1. ~Pending(s) /\ phase # "status"
    BY DEF Pending, Quiet
  <1>2. PICK p : AsOf(p, s) /\ FollowedBy(s, Translate(s, ingresses[s], ingresses, p))
    BY <1>1 DEF FollowInv, Followed
  <1> QED
    BY <1>1, <1>2 DEF FollowedBy

\* And its routes are none, or those of a primary that nothing is wrong with.
LEMMA RoutesOf ==
  ASSUME NEW s, NEW b, NEW i, NEW p
  PROVE  LET t == Translate(s, b, i, p) IN
         /\ b.canary => t.routes = NoRoutes
         /\ t.fatal => t.routes = NoRoutes
         /\ t.routes # NoRoutes => t.routes = Routes(s, b, i, p)
         /\ \A h \in Name :
               /\ t.routes[h].rules \in {{}, Rules(s, b, i, h)}
               /\ t.routes[h].refs \in {{}, ParentRefs(b, h, p)}
               /\ t.routes[h].policies => b.settings # "none" /\ ~RequiresSettingsSnippets(s, b, i)
  <1> DEFINE t == Translate(s, b, i, p)
  <1>1. /\ b.canary => t.routes = NoRoutes
        /\ t.fatal => t.routes = NoRoutes
        /\ t.routes # NoRoutes => t.routes = Routes(s, b, i, p)
    BY DEF Translate
  <1>2. \A h \in Name : NoRoutes[h] = NoRoute
    BY DEF NoRoutes
  <1>3. \A h \in Name : /\ Routes(s, b, i, p)[h].rules \in {{}, Rules(s, b, i, h)}
                        /\ Routes(s, b, i, p)[h].refs \in {{}, ParentRefs(b, h, p)}
                        /\ Routes(s, b, i, p)[h].policies
                           => b.settings # "none" /\ ~RequiresSettingsSnippets(s, b, i)
    BY DEF Routes, NoRoute
  <1> HIDE DEF t
  <1>4. ASSUME NEW h \in Name
        PROVE  /\ t.routes[h].rules \in {{}, Rules(s, b, i, h)}
               /\ t.routes[h].refs \in {{}, ParentRefs(b, h, p)}
               /\ t.routes[h].policies => b.settings # "none" /\ ~RequiresSettingsSnippets(s, b, i)
    <2>1. CASE t.routes = NoRoutes
      BY <1>2, <2>1 DEF NoRoute
    <2>2. CASE t.routes # NoRoutes
      BY <1>1, <1>3, <2>2
    <2> QED
      BY <2>1, <2>2
  <1> QED
    BY <1>1, <1>4 DEF t


-----------------------------------------------------------------------------
(***************************************************************************)
(* Policies.  Whatever a route has rules for, RequiresSettingsSnippets     *)
(* finds in the Ingress it is of, unless aliases mirror what they should   *)
(* not; so of two Ingresses whose routes overlap each finds the other.     *)
(***************************************************************************)
\* What the aliases of s mirror is known of the rules of s.
LEMMA MirroredNoticed ==
  ASSUME NEW b, IsIngress(b), ~(b.catchAll /\ FirstHost(b) = NoHost),
         NEW h \in b.aliases, NEW q \in BasePaths(b)[FirstHost(b)]
  PROVE  <<h, q>> \in RouteFootprints(b)
  <1>1. FirstHost(b) \in Name /\ b.paths \in [Name -> SUBSET Path] /\ NoHost \in Name
    BY DEF FirstHost, IsIngress, IsBody, Name
  <1>2. q \in b.paths[FirstHost(b)]
    BY <1>1 DEF BasePaths
  <1>3. b.rules # {}
    <2> SUFFICES ASSUME b.rules = {} PROVE FALSE
      OBVIOUS
    <2>1. FirstHost(b) = NoHost
      BY DEF FirstHost
    <2>2. b.paths[NoHost] = {}
      BY <1>1 DEF IsIngress
    <2> QED
      BY <1>2, <2>1, <2>2
  <1>4. <<h, q>> \in b.aliases \X b.paths[b.first]
    BY <1>2, <1>3 DEF FirstHost
  <1> QED
    BY <1>3, <1>4 DEF RouteFootprints

\* What an Ingress has paths for, and its footprints.
LEMMA BasePathsType ==
  ASSUME NEW b, IsIngress(b), NEW h \in Name, NEW q \in BasePaths(b)[h]
  PROVE  q \in Path /\ <<h, q>> \in SpecFootprints(b)
  <1>1. b.paths[h] \subseteq Path
    BY DEF IsIngress
  <1>2. q \in Path
    BY <1>1, TranslationAssumption DEF BasePaths
  <1> QED
    BY <1>2 DEF SpecFootprints, Pairs

\* The rules of the routes of s are among the footprints of s.
LEMMA RulesNoticed ==
  ASSUME Typed, NEW s \in DOMAIN ingresses, ~MirrorsUnnoticed(s),
         NEW h \in Name, NEW x \in Rules(s, ingresses[s], ingresses, h)
  PROVE  <<h, x[2]>> \in RouteFootprints(ingresses[s])
  <1> DEFINE b == ingresses[s]
  <1> SUFFICES <<h, x[2]>> \in RouteFootprints(b)
    OBVIOUS
  <1>1. IsIngress(b) /\ s \in Source
    BY SelectedIs DEF Typed
  <1>2. SpecFootprints(b) \subseteq RouteFootprints(b)
    BY DEF RouteFootprints
  <1>3. CASE x \in {s} \X HostPaths(b)[h]
    <2>1. CASE h \in b.aliases /\ BasePaths(b)[h] = {}
      <3>1. x[2] \in BasePaths(b)[FirstHost(b)]
        BY <1>3, <2>1 DEF HostPaths
      <3>2. ~(b.catchAll /\ FirstHost(b) = NoHost)
        BY <2>1 DEF MirrorsUnnoticed
      <3> HIDE DEF b
      <3> QED
        BY <1>1, <2>1, <3>1, <3>2, MirroredNoticed
    <2>2. CASE ~(h \in b.aliases /\ BasePaths(b)[h] = {})
      <3>1. x[2] \in BasePaths(b)[h]
        BY <1>3, <2>2 DEF HostPaths
      <3> HIDE DEF b
      <3> QED
        BY <1>1, <1>2, <3>1, BasePathsType
    <2> QED
      BY <2>1, <2>2
  <1>4. ASSUME NEW c \in CanariesOf(s, ingresses), x \in {c} \X HostPaths(InheritedCanary(b, ingresses[c]))[h]
        PROVE  <<h, x[2]>> \in RouteFootprints(b)
    <2> DEFINE d == ingresses[c]
               e == InheritedCanary(b, d)
    <2>1. c \in DOMAIN ingresses /\ AssignedTo(c, ingresses) = s
      BY DEF CanariesOf, Neighbours
    <2>2. IsIngress(d) /\ s # NoSource /\ Selected(ingresses)
      BY <1>1, <2>1, SelectedIs, SourceType DEF Typed
    <2>3. SpecFootprints(d) \subseteq SpecFootprints(b)
      BY <2>1, <2>2, AssignedIs DEF Candidates
    <2>4. e.aliases = b.aliases /\ BasePaths(e) = BasePaths(d) /\ FirstHost(e) = FirstHost(d)
      <3>1. e.rules = d.rules /\ e.first = d.first /\ e.paths = d.paths /\ e.catchAll = d.catchAll
        BY DEF InheritedCanary
      <3>2. e.aliases = b.aliases
        BY <2>2 DEF InheritedCanary, IsIngress
      <3> HIDE DEF e
      <3> QED
        BY <3>1, <3>2 DEF BasePaths, FirstHost
    <2>5. x[2] \in HostPaths(e)[h]
      BY <1>4
    <2> HIDE DEF e
    <2>6. CASE h \in b.aliases /\ BasePaths(d)[h] = {}
      <3>1. x[2] \in BasePaths(d)[FirstHost(d)]
        BY <2>4, <2>5, <2>6 DEF HostPaths
      <3>2. ~(b.catchAll /\ FirstHost(b) = NoHost) /\ FirstHost(d) = FirstHost(b)
        BY <1>4, <2>6 DEF MirrorsUnnoticed
      <3>3. FirstHost(d) \in Name
        BY <2>2 DEF FirstHost, IsIngress, IsBody, Name
      <3>4. <<FirstHost(d), x[2]>> \in SpecFootprints(b)
        BY <2>2, <2>3, <3>1, <3>3, BasePathsType
      <3>5. x[2] \in BasePaths(b)[FirstHost(b)]
        BY <3>2, <3>4 DEF SpecFootprints, Pairs
      <3> HIDE DEF b
      <3> QED
        BY <1>1, <2>6, <3>2, <3>5, MirroredNoticed
    <2>7. CASE ~(h \in b.aliases /\ BasePaths(d)[h] = {})
      <3>1. x[2] \in BasePaths(d)[h]
        BY <2>4, <2>5, <2>7 DEF HostPaths
      <3> HIDE DEF b, d
      <3> QED
        BY <1>2, <2>2, <2>3, <3>1, BasePathsType
    <2> QED
      BY <2>6, <2>7
  <1> QED
    BY <1>3, <1>4 DEF Rules

\* No route a policy targets overlaps with a route of another Ingress of the
\* namespace, once the controller is at rest.
THEOREM PoliciesApart == Spec => []QuietPoliciesApart
  <1>1. ASSUME Typed, FollowInv, Quiet,
               NEW s \in DOMAIN ingresses, NEW t \in Neighbours(s, ingresses) \ {s}, NEW h \in Name,
               routes[s][h].policies, ~MirrorsUnnoticed(s), ~MirrorsUnnoticed(t),
               NEW x \in routes[s][h].rules, NEW y \in routes[t][h].rules, x[2] = y[2]
        PROVE  FALSE
    <2>1. t \in DOMAIN ingresses /\ Selected(ingresses)
      BY <1>1 DEF Neighbours, Typed
    <2>2. PICK p : routes[s] = Translate(s, ingresses[s], ingresses, p).routes
      BY <1>1, RestFollows
    <2>3. PICK q : routes[t] = Translate(t, ingresses[t], ingresses, q).routes
      BY <1>1, <2>1, RestFollows
    <2>4. /\ x \in Rules(s, ingresses[s], ingresses, h)
          /\ ~RequiresSettingsSnippets(s, ingresses[s], ingresses)
      BY <1>1, <2>2, RoutesOf
    <2>5. y \in Rules(t, ingresses[t], ingresses, h) /\ ~ingresses[t].canary
      <3>1. routes[t][h].rules # {} /\ NoRoutes[h].rules = {}
        BY <1>1 DEF NoRoutes, NoRoute
      <3> QED
        BY <1>1, <2>3, <3>1, RoutesOf
    <2>6. <<h, x[2]>> \in RouteFootprints(ingresses[s]) /\ <<h, y[2]>> \in RouteFootprints(ingresses[t])
      BY <1>1, <2>1, <2>4, <2>5, RulesNoticed
    <2>7. t \notin CanariesOf(s, ingresses)
      <3> SUFFICES ASSUME AssignedTo(t, ingresses) = s PROVE FALSE
        BY DEF CanariesOf
      <3>1. s # NoSource
        BY <2>1, SourceType DEF Selected
      <3> QED
        BY <2>1, <2>5, <3>1, AssignedIs
    <2> QED
      BY <1>1, <2>4, <2>6, <2>7 DEF RequiresSettingsSnippets
  <1>2. Typed /\ FollowInv => QuietPoliciesApart
    BY <1>1 DEF QuietPoliciesApart, Overlap
  <1> QED
    BY <1>2, AlwaysTyped, AlwaysFollow, PTL


-----------------------------------------------------------------------------
(***************************************************************************)
(* With ListenerSets a plan is a function of what is declared and of the   *)
(* placements it comes to.                                                 *)
(***************************************************************************)
\* Who declares a hostname.
LEMMA DeclarersAre ==
  ASSUME NEW i, NEW t \in DOMAIN i, NEW g
  PROVE  t \in DeclarersOf(i, g) <=> g \in DeclaredIn(i[t])
  BY DEF DeclarersOf, DeclaredIn, Declares

\* SetsPlan, for the plans made here.
LEMMA SetsPlanFor ==
  ASSUME Overflow, NEW i, Selected(i), NEW cu \in [Host -> Placement], NEW p, p = PlanFor(i, cu)
  PROVE  /\ \A h : h \in p.tlsHosts <=> h \in Host /\ \E t \in DOMAIN i : h \in DeclaredIn(i[t])
         /\ p.issues = Collect(i).issues
         /\ PlanFor(i, p.placements) = p
         /\ \A h \in p.tlsHosts : /\ p.sections[h] = ListenerRefFor(h, p.placements)
                                  /\ p.sections[h].listener \in CoverNames(h)
  <1>1. PlanInputs(i, Certificates, cu, Overflow) /\ EnoughSets
    BY PlanForIs, RoutingAssumption
  <1>2. p = BuildManagedGateway(i, Certificates, cu, Overflow)
    BY DEF PlanFor
  <1>3. /\ p.tlsHosts = Declared(SecretOf(i))
        /\ p.issues = Collect(i).issues
        /\ BuildManagedGateway(i, Certificates, p.placements, Overflow) = p
        /\ \A h \in p.tlsHosts : h \in Host /\ FollowsPlacements(p, h)
    <2> DEFINE q == BuildManagedGateway(i, Certificates, cu, Overflow)
    <2>1. Overflow => /\ q.tlsHosts = Declared(SecretOf(i))
                      /\ q.issues = Collect(i).issues
                      /\ q.placements \in [Host -> Placement]
                      /\ BuildManagedGateway(i, Certificates, q.placements, Overflow) = q
                      /\ \A h \in q.tlsHosts : h \in Host /\ FollowsPlacements(q, h)
      BY <1>1, SetsPlan
    <2>2. p = q
      BY <1>2
    <2> HIDE DEF q
    <2> QED
      BY <2>1, <2>2
  <1>4. \A h \in p.tlsHosts : SectionPlaced(p, h)
    BY <1>1, <1>2, SectionsPlaced
  <1>5. Selection(i)
    BY SelectedIs
  <1>6. ASSUME NEW h \in Host
        PROVE  h \in p.tlsHosts <=> \E t \in DOMAIN i : h \in DeclaredIn(i[t])
    <2>1. h \in p.tlsHosts <=> Collect(i).owner[h].secret # NoSecret
      BY <1>3 DEF Declared, SecretOf
    <2>2. Collect(i).owner[h].secret = NoSecret <=> DeclarersOf(i, h) = {}
      BY <1>5, CollectSummary
    <2>3. DeclarersOf(i, h) \subseteq DOMAIN i
      BY DEF DeclarersOf
    <2> QED
      BY <2>1, <2>2, <2>3, DeclarersAre
  <1>7. ASSUME NEW h \in p.tlsHosts
        PROVE  p.sections[h].listener \in CoverNames(h)
    <2>1. /\ p.sections[h].listener \in Host /\ h \in Host
          /\ p.sections[h].listener \in {h} \cup IF h \in Wildcard THEN {} ELSE {WildcardOf[h]}
      BY <1>3, <1>4 DEF SectionPlaced, FollowsPlacements
    <2>2. NoHost \notin Host
      BY HostAssumption DEF NoHost
    <2>3. h \notin Wildcard => WildcardOf[h] \in Covering[h] \cup {NoHost}
      BY <2>1, CoveringAssumption
    <2> QED
      BY <2>1, <2>2, <2>3 DEF CoverNames
  <1>8. \A h \in p.tlsHosts : h \in Host /\ p.sections[h] = ListenerRefFor(h, p.placements)
    BY <1>3 DEF FollowsPlacements
  <1>9. PlanFor(i, p.placements) = p
    BY <1>3 DEF PlanFor
  <1> QED
    BY <1>3, <1>6, <1>7, <1>8, <1>9

\* What an Ingress that follows is reached by.
LEMMA EncryptedBy ==
  ASSUME Overflow, Typed, NEW s \in DOMAIN ingresses, NEW p, AsOf(p, s),
         NEW h \in Hosts(s) \ {NoHost}, ingresses[s].redirect, ~ingresses[s].solver, ~ingresses[s].canary,
         NEW t \in Neighbours(s, ingresses), NEW g \in DeclaredIn(ingresses[t]) \cap CoverNames(h),
         NEW r, r = Routes(s, ingresses[s], ingresses, p)
  PROVE  r[h].redirect /\ \A ref \in r[h].refs : ref.listener \in CoverNames(h)
  <1>1. PICK i, cu : /\ Selected(i) /\ cu \in [Host -> Placement]
                     /\ Alike(i, ingresses, s)
                     /\ p = PlanFor(i, cu)
    BY DEF AsOf
  <1> DEFINE m == MatchingTLSHost(h, p.tlsHosts)
  <1>2. t \in DOMAIN i /\ g \in DeclaredIn(i[t])
    BY <1>1, TwinsRead DEF Alike, Neighbours
  <1>3. h \in Host /\ h \in Name /\ HostPaths(ingresses[s])[h] # {}
    BY DEF Hosts, Name
  <1>4. g \in Host
    BY <1>3, CoveringAssumption, HostAssumption DEF CoverNames
  <1>5. g \in p.tlsHosts /\ p.tlsHosts \in SUBSET Host
    BY <1>1, <1>2, <1>4, SetsPlanFor
  <1>6. m \in p.tlsHosts /\ m # NoHost /\ (m = h \/ m \in Covering[h])
    BY <1>3, <1>5, MatchingIs
  <1>7. p.sections[m].listener \in CoverNames(m)
    BY <1>1, <1>6, SetsPlanFor
  <1>8. CoverNames(m) \subseteq CoverNames(h)
    BY <1>3, <1>5, <1>6, CoveringAssumption DEF CoverNames
  <1>9. ParentRefs(ingresses[s], h, p) = {p.sections[m]} /\ Redirected(ingresses[s], h, p)
    BY <1>6 DEF ParentRefs, Redirected
  <1>10. r[h].refs = {p.sections[m]} /\ r[h].redirect
    BY <1>3, <1>9 DEF Routes
  <1> QED
    BY <1>7, <1>8, <1>10

\* At rest, an Ingress that redirects to HTTPS is on no HTTP listener as soon as
\* its namespace has a certificate declared for its hostname.
THEOREM RedirectedEncrypt == ASSUME Overflow PROVE Spec => []QuietEncrypts
  <1>1. ASSUME Typed, FollowInv, Quiet,
               NEW s \in DOMAIN ingresses, NEW h \in Hosts(s) \ {NoHost},
               ingresses[s].redirect, ~ingresses[s].solver, routes[s] # NoRoutes,
               NEW t \in Neighbours(s, ingresses), NEW g \in DeclaredIn(ingresses[t]) \cap CoverNames(h)
        PROVE  routes[s][h].redirect /\ \A ref \in routes[s][h].refs : ref.listener \in CoverNames(h)
    <2>1. PICK p : AsOf(p, s) /\ routes[s] = Translate(s, ingresses[s], ingresses, p).routes
      BY <1>1, RestFollows
    <2>2. ~ingresses[s].canary /\ routes[s] = Routes(s, ingresses[s], ingresses, p)
      BY <1>1, <2>1, RoutesOf
    <2> QED
      BY <1>1, <2>1, <2>2, EncryptedBy
  <1>2. Typed /\ FollowInv => QuietEncrypts
    BY <1>1 DEF QuietEncrypts
  <1> QED
    BY <1>2, AlwaysTyped, AlwaysFollow, PTL


-----------------------------------------------------------------------------
(***************************************************************************)
(* An Ingress on its own.  Two plans made of Ingresses that are alike for  *)
(* it, with the listeners at the same places, are the same to it: nobody   *)
(* else declares what it declares or what covers it.                       *)
(***************************************************************************)
\* The names that matter to s.
Concerns(s) == DeclaredIn(ingresses[s]) \cup UNION {CoverNames(h) : h \in Hosts(s)}

\* Those who declare such a name are of the namespace of s.
LEMMA DeclarersClose ==
  ASSUME NEW s \in DOMAIN ingresses, OnItsOwn(s), NEW i, Selected(i), Alike(i, ingresses, s), NEW g \in Concerns(s)
  PROVE  DeclarersOf(i, g) = {t \in Neighbours(s, ingresses) : g \in DeclaredIn(ingresses[t])}
  <1>1. ASSUME NEW t \in DeclarersOf(i, g)
        PROVE  t \in Neighbours(s, ingresses) /\ g \in DeclaredIn(ingresses[t])
    <2>1. t \in DOMAIN i /\ t \in Source /\ i[t] \in Declarations[t]
      BY DEF DeclarersOf, Selected
    <2>2. g \in DeclaredIn(i[t])
      BY <2>1, DeclarersAre
    <2>3. NamespaceOf[t] = NamespaceOf[s]
      BY <2>1, <2>2 DEF OnItsOwn, Concerns
    <2>4. t \in Neighbours(s, i)
      BY <2>1, <2>3 DEF Neighbours
    <2> QED
      BY <2>2, <2>4, TwinsRead DEF Alike
  <1>2. ASSUME NEW t \in Neighbours(s, ingresses), g \in DeclaredIn(ingresses[t])
        PROVE  t \in DeclarersOf(i, g)
    <2>1. t \in DOMAIN i /\ DeclaredIn(i[t]) = DeclaredIn(ingresses[t])
      BY TwinsRead DEF Alike, Neighbours
    <2> QED
      BY <1>2, <2>1, DeclarersAre
  <1> QED
    BY <1>1, <1>2

\* What one plan reports on s the other reports too.
LEMMA ToldAlike ==
  ASSUME NEW s \in DOMAIN ingresses, Selected(ingresses), OnItsOwn(s),
         NEW i, Selected(i), Alike(i, ingresses, s),
         NEW j, Selected(j), Alike(j, ingresses, s),
         NEW x \in Collect(i).issues, x.source = s
  PROVE  x \in Collect(j).issues
  <1>1. Selection(i) /\ Selection(j) /\ s \in Source
    BY SelectedIs
  <1>2. Collect(i) \in Collected /\ Collect(j) \in Collected
    BY <1>1, BlamedIs
  <1>3. x.host \in Host \cup {NoHost} /\ x = [source |-> s, host |-> x.host]
    BY <1>2 DEF Collected
  <1>4. /\ s \in DOMAIN i /\ s \in DOMAIN j
        /\ i[s].tls = j[s].tls /\ i[s].rules = j[s].rules
        /\ DeclaredIn(i[s]) = DeclaredIn(ingresses[s])
    BY TwinsRead DEF Alike, Neighbours
  <1>5. CASE x.host = NoHost
    <2>1. [source |-> s, host |-> NoHost] \in Collect(i).issues
      BY <1>3, <1>5
    <2>2. \E e \in DOMAIN i[s].tls : Blank(i[s], e)
      BY <1>1, <2>1, BlamedIs
    <2>3. \E e \in DOMAIN j[s].tls : Blank(j[s], e)
      BY <1>4, <2>2 DEF Blank, EffectiveTLSHosts
    <2>4. [source |-> s, host |-> NoHost] \in Collect(j).issues
      BY <1>1, <1>4, <2>3, BlamedIs
    <2> QED
      BY <1>3, <1>5, <2>4
  <1>6. CASE x.host \in Host
    <2>1. PICK h \in Host : h = x.host
      BY <1>6
    <2>2. [source |-> s, host |-> h] \in Collect(i).issues
      BY <1>3, <2>1
    <2>3. s \in DeclarersOf(i, h)
      BY <1>1, <2>2, BlamedIs
    <2>4. h \in Concerns(s)
      BY <1>4, <2>3, DeclarersAre DEF Concerns
    <2>5. DeclarersOf(i, h) = DeclarersOf(j, h)
      BY <2>4, DeclarersClose
    <2>6. \A t \in DeclarersOf(i, h) : i[t].tls = j[t].tls /\ i[t].rules = j[t].rules
      <3>1. DeclarersOf(i, h) \subseteq Neighbours(s, ingresses)
        BY <2>4, DeclarersClose
      <3> QED
        BY <3>1, TwinsRead DEF Alike
    <2>7. Only(i, h) = Only(j, h)
      BY <2>5, <2>6 DEF Only
    <2>8. Seen(Collect(i), h) = Seen(Collect(j), h)
      BY <1>1, <2>7, OnlyDeclarersCount
    <2>9. Seen(Collect(i), h).blamed = Seen(Collect(j), h).blamed
      BY <2>8
    <2>10. s \in Seen(Collect(i), h).blamed
      BY <1>1, <2>2 DEF Seen
    <2>11. [source |-> s, host |-> h] \in Collect(j).issues
      BY <2>9, <2>10 DEF Seen
    <2> QED
      BY <1>3, <2>1, <2>11
  <1> QED
    BY <1>3, <1>5, <1>6

\* The declared names that cover a hostname of s are in both plans.
LEMMA CoveredAlike ==
  ASSUME Overflow, NEW s \in DOMAIN ingresses, OnItsOwn(s), NEW p, AsOf(p, s), NEW q, AsOf(q, s),
         NEW h \in Hosts(s), NEW g \in CoverNames(h), g \in p.tlsHosts
  PROVE  g \in q.tlsHosts
  <1>1. PICK i, cu : Selected(i) /\ cu \in [Host -> Placement] /\ Alike(i, ingresses, s) /\ p = PlanFor(i, cu)
    BY DEF AsOf
  <1>2. PICK j, cv : Selected(j) /\ cv \in [Host -> Placement] /\ Alike(j, ingresses, s) /\ q = PlanFor(j, cv)
    BY DEF AsOf
  <1>3. g \in Concerns(s)
    BY DEF Concerns
  <1>4. PICK t \in DOMAIN i : g \in DeclaredIn(i[t])
    BY <1>1, SetsPlanFor
  <1>5. t \in DeclarersOf(i, g)
    BY <1>4, DeclarersAre
  <1>6. t \in DeclarersOf(j, g)
    BY <1>1, <1>2, <1>3, <1>5, DeclarersClose
  <1>7. t \in DOMAIN j /\ g \in DeclaredIn(j[t])
    BY <1>6, DeclarersAre DEF DeclarersOf
  <1>8. g \in Host
    BY <1>1, SetsPlanFor
  <1> QED
    BY <1>2, <1>7, <1>8, SetsPlanFor

\* So a hostname of s has the same listener.
LEMMA SectionsAlike ==
  ASSUME Overflow, NEW s \in DOMAIN ingresses, OnItsOwn(s), NEW p, AsOf(p, s), NEW q, AsOf(q, s),
         NEW h \in Hosts(s), NEW b
  PROVE  ParentRefs(b, h, p) = ParentRefs(b, h, q) /\ Redirected(b, h, p) = Redirected(b, h, q)
  <1>1. PICK i, cu : Selected(i) /\ cu \in [Host -> Placement] /\ p = PlanFor(i, cu)
    BY DEF AsOf
  <1>2. PICK j, cv : Selected(j) /\ cv \in [Host -> Placement] /\ q = PlanFor(j, cv)
    BY DEF AsOf
  <1>3. p.placements = q.placements
    BY DEF AsOf
  <1>4. CoverNames(h) \cap p.tlsHosts = CoverNames(h) \cap q.tlsHosts
    BY CoveredAlike
  <1>5. h \in Name /\ p.tlsHosts \in SUBSET Host
    BY <1>1, SetsPlanFor DEF Hosts
  <1>6. PICK m : m = MatchingTLSHost(h, p.tlsHosts)
    OBVIOUS
  <1>7. m = MatchingTLSHost(h, q.tlsHosts)
    <2>1. CASE h = NoHost
      BY <1>6, <2>1 DEF MatchingTLSHost
    <2>2. CASE h # NoHost
      <3>1. (h \in p.tlsHosts <=> h \in q.tlsHosts) /\ Covering[h] \cap p.tlsHosts = Covering[h] \cap q.tlsHosts
        BY <1>4, <2>2 DEF CoverNames
      <3> DEFINE longest(covers) == IF covers = {} THEN NoHost
                                    ELSE CHOOSE w \in covers : covers \ {w} \subseteq Covering[w]
      <3>2. \A tls : MatchingTLSHost(h, tls) = IF h \in tls THEN h ELSE longest(Covering[h] \cap tls)
        BY <2>2 DEF MatchingTLSHost
      <3> HIDE DEF longest
      <3> QED
        BY <1>6, <3>1, <3>2
    <2> QED
      BY <2>1, <2>2
  <1>8. m # NoHost => p.sections[m] = q.sections[m]
    <2> SUFFICES ASSUME m # NoHost PROVE p.sections[m] = q.sections[m]
      OBVIOUS
    <2>1. m \in p.tlsHosts /\ m \in CoverNames(h)
      BY <1>5, <1>6, MatchingIs, HostAssumption DEF CoverNames, NoHost
    <2>2. m \in q.tlsHosts
      BY <1>4, <2>1
    <2>3. p.sections[m] = ListenerRefFor(m, p.placements)
      BY <1>1, <2>1, SetsPlanFor
    <2>4. q.sections[m] = ListenerRefFor(m, q.placements)
      BY <1>2, <2>2, SetsPlanFor
    <2> QED
      BY <1>3, <2>3, <2>4
  <1> QED
    BY <1>6, <1>7, <1>8 DEF ParentRefs, Redirected

\* And Translate makes the same of s with either.
LEMMA PlansAgree ==
  ASSUME Overflow, Typed, NEW s \in DOMAIN ingresses, OnItsOwn(s), NEW p, AsOf(p, s), NEW q, AsOf(q, s)
  PROVE  Translate(s, ingresses[s], ingresses, p) = Translate(s, ingresses[s], ingresses, q)
  <1> DEFINE b == ingresses[s]
             told(g) == \E x \in g.issues : x.source = s
  <1>1. ASSUME NEW f, AsOf(f, s), NEW g, AsOf(g, s), told(f)
        PROVE  told(g)
    <2>1. PICK i, cu : Selected(i) /\ cu \in [Host -> Placement] /\ Alike(i, ingresses, s) /\ f = PlanFor(i, cu)
      BY <1>1 DEF AsOf
    <2>2. PICK j, cv : Selected(j) /\ cv \in [Host -> Placement] /\ Alike(j, ingresses, s) /\ g = PlanFor(j, cv)
      BY <1>1 DEF AsOf
    <2>3. f.issues = Collect(i).issues
      BY <2>1, SetsPlanFor
    <2>4. g.issues = Collect(j).issues
      BY <2>2, SetsPlanFor
    <2>5. PICK x \in Collect(i).issues : x.source = s
      BY <1>1, <2>3
    <2>6. x \in Collect(j).issues
      BY <2>1, <2>2, <2>5, ToldAlike DEF Typed
    <2> QED
      BY <2>4, <2>5, <2>6
  <1>2. told(p) <=> told(q)
    BY <1>1
  <1>3. Routes(s, b, ingresses, p) = Routes(s, b, ingresses, q)
    <2>1. \A h \in Name : HostPaths(b)[h] # {} => h \in Hosts(s)
      BY DEF Hosts
    <2>2. \A h \in Name : HostPaths(b)[h] # {} => /\ ParentRefs(b, h, p) = ParentRefs(b, h, q)
                                                   /\ Redirected(b, h, p) = Redirected(b, h, q)
      BY <2>1, SectionsAlike
    <2> HIDE DEF b
    <2> QED
      BY <2>2 DEF Routes
  <1> HIDE DEF b
  <1>4. Translate(s, b, ingresses, p) = Translate(s, b, ingresses, q)
    BY <1>2, <1>3 DEF Translate
  <1> QED
    BY <1>4 DEF b

\* The last plan is as good as any at rest, and a plan made now is that one.
LEMMA RestPlan ==
  ASSUME Overflow, Typed, FollowInv, Quiet, NEW s
  PROVE  AsOf(plan, s) /\ PlanFor(ingresses, plan.placements) = plan
  <1>1. PICK cu \in [Host -> Placement] : plan = PlanFor(ingresses, cu) /\ listeners = plan.placements
    BY DEF FollowInv, Current, Quiet
  <1>2. Selected(ingresses) /\ Alike(ingresses, ingresses, s)
    BY DEF Typed, Alike, Twins
  <1>3. AsOf(plan, s)
    BY <1>1, <1>2 DEF AsOf
  <1> QED
    BY <1>1, <1>2, <1>3, SetsPlanFor


-----------------------------------------------------------------------------
(***************************************************************************)
(* Nothing is missed, and canaries are where they should be.               *)
(***************************************************************************)
\* Nobody who is gone has routes or a status.
LEMMA RestRemoved ==
  ASSUME AttachInv, Quiet, NEW s \in Source \ DOMAIN ingresses
  PROVE  routes[s] = NoRoutes /\ translations[s] = NoTranslation
  BY DEF AttachInv, Removed, Quiet

\* With ListenerSets, AttachInv always.
LEMMA AlwaysAttach == ASSUME Overflow PROVE Spec => []AttachInv
  <1>1. Typed /\ AttachInv /\ [Next]_vars => AttachInv'
    BY StepAttach
  <1> QED
    BY <1>1, InitAttach, AlwaysTyped, PTL DEF Spec

\* What a namespace decides of an Ingress is what its routes and its status say
\* at rest: whatever the order of the edits, the plans, the failures and the
\* late informer, no wake-up has been lost.
THEOREM NoWakeUpLost == ASSUME Overflow PROVE Spec => []QuietFollows
  <1>1. ASSUME Typed, AttachInv, FollowInv, Quiet, NEW s \in Source, s \notin DOMAIN ingresses
        PROVE  routes[s] = NoRoutes /\ translations[s] = NoTranslation
    BY <1>1, RestRemoved
  <1>2. ASSUME Typed, FollowInv, Quiet, NEW s \in Source, s \in DOMAIN ingresses,
               NEW t, t = Translate(s, ingresses[s], ingresses, PlanFor(ingresses, plan.placements))
        PROVE  /\ translations[s].observed = generation[s]
               /\ OnItsOwn(s) =>
                     /\ routes[s] = t.routes
                     /\ t.delegatedTo = NoSource => (translations[s].ready = "False" <=> t.fatal)
    <2>1. PICK p : /\ AsOf(p, s)
                   /\ routes[s] = Translate(s, ingresses[s], ingresses, p).routes
                   /\ Verdict(s, Translate(s, ingresses[s], ingresses, p))
      BY <1>2, RestFollows
    <2>2. AsOf(plan, s) /\ PlanFor(ingresses, plan.placements) = plan
      BY <1>2, RestPlan
    <2>3. OnItsOwn(s) => t = Translate(s, ingresses[s], ingresses, p)
      BY <1>2, <2>1, <2>2, PlansAgree
    <2>4. translations[s].observed = generation[s]
      BY <2>1 DEF Verdict
    <2>5. OnItsOwn(s) => routes[s] = t.routes /\ Verdict(s, t)
      BY <2>1, <2>3
    <2>6. Verdict(s, t) /\ t.delegatedTo = NoSource => (translations[s].ready = "False" <=> t.fatal)
      BY DEF Verdict
    <2> QED
      BY <2>4, <2>5, <2>6
  <1>3. Typed /\ AttachInv /\ FollowInv => QuietFollows
    BY <1>1, <1>2 DEF QuietFollows
  <1> QED
    BY <1>3, AlwaysTyped, AlwaysAttach, AlwaysFollow, PTL

\* A canary nothing is wrong with delegates to its primary, and at rest says what
\* the primary says.
LEMMA CanaryVerdict ==
  ASSUME Typed, FollowInv, Quiet, NEW c \in DOMAIN ingresses, ingresses[c].canary,
         NEW t, NEW q, t = Translate(c, ingresses[c], ingresses, q), ~t.fatal, Verdict(c, t)
  PROVE  LET p == AssignedTo(c, ingresses) IN
         /\ p \in Candidates(c, ingresses) /\ p \in DOMAIN ingresses
         /\ translations[c].ready = translations[p].ready
  <1> DEFINE p == AssignedTo(c, ingresses)
  <1>1. t.delegatedTo = p /\ ~FatalCanary(c, ingresses[c], ingresses)
    BY DEF Translate
  <1>2. p # NoSource
    BY <1>1 DEF FatalCanary
  <1>3. p \in Candidates(c, ingresses)
    BY <1>2, AssignedIs DEF Typed
  <1>4. p \in DOMAIN ingresses
    BY <1>3 DEF Candidates, Neighbours
  <1>5. translations[p].observed = generation[p]
    BY <1>4, RestFollows DEF Verdict
  <1>6. translations[c].ready = DelegatedReady(p)
    BY <1>1, <1>2 DEF Verdict
  <1>7. seen = translations
    BY DEF Quiet
  <1> HIDE DEF p
  <1>8. DelegatedReady(p) = translations[p].ready
    BY <1>4, <1>5, <1>7 DEF DelegatedReady
  <1> QED
    BY <1>3, <1>4, <1>6, <1>8 DEF p

\* The routes of a primary carry every rule of a canary that is assigned to it.
LEMMA CanaryCarried ==
  ASSUME Typed, NEW c \in DOMAIN ingresses, NEW p \in DOMAIN ingresses, p = AssignedTo(c, ingresses),
         NEW g, NEW x \in SpecFootprints(ingresses[c])
  PROVE  <<c, x[2]>> \in Routes(p, ingresses[p], ingresses, g)[x[1]].rules
  <1> DEFINE b == ingresses[p]
             d == ingresses[c]
             e == InheritedCanary(b, d)
  <1>1. x[1] \in Name /\ x[2] \in Path /\ x[2] \in BasePaths(d)[x[1]]
    BY DEF SpecFootprints, Pairs
  <1>2. p # NoSource
    BY SourceType DEF Typed, Selected
  <1>3. p \in Candidates(c, ingresses)
    BY <1>2, AssignedIs DEF Typed
  <1>4. x[2] \in BasePaths(b)[x[1]]
    BY <1>3 DEF Candidates, SpecFootprints, Pairs
  <1>5. HostPaths(b)[x[1]] # {}
    BY <1>1, <1>4 DEF HostPaths
  <1>6. c \in CanariesOf(p, ingresses)
    BY <1>3 DEF CanariesOf, Candidates, Neighbours
  <1>7. e.paths = d.paths /\ e.catchAll = d.catchAll
    BY DEF InheritedCanary
  <1> HIDE DEF e
  <1>8. BasePaths(e) = BasePaths(d)
    BY <1>7 DEF BasePaths
  <1>9. x[2] \in HostPaths(e)[x[1]]
    BY <1>1, <1>8 DEF HostPaths
  <1>10. <<c, x[2]>> \in Rules(p, b, ingresses, x[1])
    BY <1>6, <1>9 DEF Rules, e
  <1> HIDE DEF b
  <1>11. <<c, x[2]>> \in Routes(p, b, ingresses, g)[x[1]].rules
    BY <1>1, <1>5, <1>10 DEF Routes
  <1> QED
    BY <1>11 DEF b

\* At rest a canary says what its primary says, is never ready unless the
\* primary's routes carry it, and is in no other route.
THEOREM CanariesDelegate == ASSUME Overflow PROVE Spec => []QuietDelegates
  <1>1. ASSUME Typed, FollowInv, Quiet, NEW c \in DOMAIN ingresses, ingresses[c].canary, OnItsOwn(c),
               ~Translate(c, ingresses[c], ingresses, PlanFor(ingresses, plan.placements)).fatal
        PROVE  translations[c].ready = translations[AssignedTo(c, ingresses)].ready
    <2>1. PICK q : AsOf(q, c) /\ Verdict(c, Translate(c, ingresses[c], ingresses, q))
      BY <1>1, RestFollows
    <2>2. AsOf(plan, c) /\ PlanFor(ingresses, plan.placements) = plan
      BY <1>1, RestPlan
    <2>3. Translate(c, ingresses[c], ingresses, plan) = Translate(c, ingresses[c], ingresses, q)
      BY <1>1, <2>1, <2>2, PlansAgree
    <2>4. PICK t : t = Translate(c, ingresses[c], ingresses, q)
      OBVIOUS
    <2>5. ~t.fatal /\ Verdict(c, t)
      BY <1>1, <2>1, <2>2, <2>3, <2>4
    <2> QED
      BY <1>1, <2>4, <2>5, CanaryVerdict
  <1>2. ASSUME Typed, FollowInv, Quiet, NEW c \in DOMAIN ingresses, ingresses[c].canary,
               translations[c].ready = "True", NEW x \in SpecFootprints(ingresses[c])
        PROVE  <<c, x[2]>> \in routes[AssignedTo(c, ingresses)][x[1]].rules
    <2>1. PICK q : Verdict(c, Translate(c, ingresses[c], ingresses, q))
      BY <1>2, RestFollows
    <2>2. PICK t : t = Translate(c, ingresses[c], ingresses, q)
      OBVIOUS
    <2>3. Verdict(c, t)
      BY <2>1, <2>2
    <2>4. ~t.fatal
      BY <1>2, <2>3 DEF Verdict
    <2>5. PICK p : p = AssignedTo(c, ingresses)
      OBVIOUS
    <2>6. p \in Candidates(c, ingresses) /\ p \in DOMAIN ingresses /\ translations[p].ready = "True"
      BY <1>2, <2>2, <2>3, <2>4, <2>5, CanaryVerdict
    <2>7. PICK g : /\ routes[p] = Translate(p, ingresses[p], ingresses, g).routes
                   /\ Verdict(p, Translate(p, ingresses[p], ingresses, g))
      BY <1>2, <2>6, RestFollows
    <2>8. ~Translate(p, ingresses[p], ingresses, g).fatal
      BY <2>6, <2>7 DEF Verdict
    <2>9. routes[p] = Routes(p, ingresses[p], ingresses, g)
      BY <2>6, <2>7, <2>8 DEF Translate, Candidates
    <2>10. <<c, x[2]>> \in Routes(p, ingresses[p], ingresses, g)[x[1]].rules
      BY <1>2, <2>5, <2>6, CanaryCarried
    <2> QED
      BY <2>5, <2>9, <2>10
  <1>3. ASSUME Typed, AttachInv, FollowInv, Quiet, NEW c \in DOMAIN ingresses, ingresses[c].canary,
               NEW s \in Source, s # AssignedTo(c, ingresses), NEW h \in Name, NEW r \in routes[s][h].rules
        PROVE  r[1] # c
    <2> SUFFICES ASSUME r[1] = c PROVE FALSE
      OBVIOUS
    <2>1. NoRoutes[h].rules = {}
      BY DEF NoRoutes, NoRoute
    <2>2. s \in DOMAIN ingresses
      BY <1>3, <2>1, RestRemoved
    <2>3. PICK q : routes[s] = Translate(s, ingresses[s], ingresses, q).routes
      BY <1>3, <2>2, RestFollows
    <2>4. r \in Rules(s, ingresses[s], ingresses, h) /\ ~ingresses[s].canary
      BY <1>3, <2>1, <2>3, RoutesOf
    <2>5. r[1] = s \/ r[1] \in CanariesOf(s, ingresses)
      BY <2>4 DEF Rules
    <2> QED
      BY <1>3, <2>4, <2>5 DEF CanariesOf
  <1>4. Typed /\ AttachInv /\ FollowInv => QuietDelegates
    BY <1>1, <1>2, <1>3 DEF QuietDelegates
  <1> QED
    BY <1>4, AlwaysTyped, AlwaysAttach, AlwaysFollow, PTL

=============================================================================
