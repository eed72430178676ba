--------------------------- MODULE GatewayPlanProofs ---------------------------
(***************************************************************************)
(* Lemmas about BuildManagedGateway, for every set of Ingresses, every     *)
(* certificate and every previous placement: what the collected            *)
(* declarations, the projected listeners, their places and the plan made   *)
(* of them are.  The folds over Ingresses, TLS entries and listeners are   *)
(* reasoned about with the induction of OrderedFolds.                      *)
(***************************************************************************)
EXTENDS GatewayPlan, OrderedFolds

-----------------------------------------------------------------------------
(***************************************************************************)
(* Collecting the declarations.                                            *)
(***************************************************************************)
Selection(ings) == DOMAIN ings \subseteq Source /\ \A s \in DOMAIN ings : IsBody(ings[s])

Declares(ing, e, h) == ing.tls[e].secret # NoSecret /\ h \in EffectiveTLSHosts(ing, ing.tls[e])

Blank(ing, e) == ing.tls[e].secret = NoSecret \/ EffectiveTLSHosts(ing, ing.tls[e]) = {}

DeclarersOf(ings, h) ==
    {s \in DOMAIN ings : \E e \in DOMAIN ings[s].tls : Declares(ings[s], e, h)}

Collected ==
    [owner      : [Host -> [secret : Secret \cup {NoSecret}, source : Source \cup {0}]],
     declaredBy : [Host -> SUBSET Source],
     issues     : SUBSET [source : Source \cup {0}, host : Host \cup {NoHost}]]

\* Every TLS entry, as a pair of an Ingress and an index.
EntriesOf(ings, S) == {p \in S \X Nat : p[2] \in DOMAIN ings[p[1]].tls}

(***************************************************************************)
(* What is collected once the entries P have been looked at: a hostname's  *)
(* Secret is one its first declarer names, and an entry that names another *)
(* has an issue, as one has that names it; an entry that declares nothing  *)
(* has one; nobody else has one but who declares the hostname too.         *)
(***************************************************************************)
KnowsDeclarers(acc, P, ings) ==
    \A h \in Host : acc.declaredBy[h] = {s \in Source : \E e \in Nat : <<s, e>> \in P /\ Declares(ings[s], e, h)}

OwnedByFirst(acc, P, ings) ==
    \A h \in Host :
        IF acc.declaredBy[h] = {} THEN acc.owner[h].secret = NoSecret
        ELSE \E s \in Source, e \in Nat :
                /\ <<s, e>> \in P /\ Declares(ings[s], e, h)
                /\ acc.owner[h].secret = ings[s].tls[e].secret
                /\ \A t \in acc.declaredBy[h] : s <= t

\* The entries P has for the Secret that h goes to.
Agrees(acc, P, ings, w, f, h) ==
    <<w, f>> \in P /\ Declares(ings[w], f, h) /\ acc.owner[h].secret = ings[w].tls[f].secret

OwnerAgrees(acc, P, ings) ==
    \A h \in Host : acc.owner[h].secret # NoSecret
                     => \E f \in Nat : Agrees(acc, P, ings, acc.owner[h].source, f, h)

ConflictsReported(acc, P, ings) ==
    \A h \in Host : \A s \in Source, e \in Nat :
        /\ <<s, e>> \in P /\ Declares(ings[s], e, h)
        /\ acc.owner[h].secret # ings[s].tls[e].secret
        => \E w \in Source, f \in Nat :
              /\ w <= s /\ Agrees(acc, P, ings, w, f, h)
              /\ [source |-> s, host |-> h] \in acc.issues /\ [source |-> w, host |-> h] \in acc.issues

BlanksReported(acc, P, ings) ==
    \A s \in Source : [source |-> s, host |-> NoHost] \in acc.issues
                       <=> \E e \in Nat : <<s, e>> \in P /\ Blank(ings[s], e)

DeclarersBlamed(acc) ==
    \A h \in Host :
        /\ acc.owner[h].secret # NoSecret => acc.owner[h].source \in acc.declaredBy[h]
        /\ \A s : [source |-> s, host |-> h] \in acc.issues => s \in acc.declaredBy[h]

CollectedFrom(acc, P, ings) ==
    /\ acc \in Collected
    /\ KnowsDeclarers(acc, P, ings)
    /\ OwnedByFirst(acc, P, ings)
    /\ OwnerAgrees(acc, P, ings)
    /\ ConflictsReported(acc, P, ings)
    /\ BlanksReported(acc, P, ings)
    /\ DeclarersBlamed(acc)

\* What a TLS entry of an Ingress is.
LEMMA EntryType ==
  ASSUME NEW ings, Selection(ings), NEW s \in DOMAIN ings, NEW e \in DOMAIN ings[s].tls
  PROVE  /\ s \in Source /\ s \in Nat /\ s # 0
         /\ e \in Nat
         /\ ings[s].tls[e].secret \in Secret \cup {NoSecret}
         /\ EffectiveTLSHosts(ings[s], ings[s].tls[e]) \subseteq Host
  <1> DEFINE tls == ings[s].tls
  <1>1. s \in Source /\ tls \in Seq(Entry) /\ ings[s].rules \subseteq Host \cup {NoHost}
    BY DEF Selection, IsBody
  <1>2. DOMAIN tls = 1 .. Len(tls) /\ Len(tls) \in Nat
    BY <1>1
  <1>3. e \in Nat /\ tls[e] \in Entry
    <2> HIDE DEF tls
    <2>1. e \in 1 .. Len(tls)
      BY <1>2 DEF tls
    <2> QED
      BY <1>1, <1>2, <2>1
  <1>4. tls[e].secret \in Secret \cup {NoSecret} /\ tls[e].hosts \subseteq Host \cup {NoHost}
    BY <1>3 DEF Entry
  <1> QED
    BY <1>1, <1>3, <1>4, SecretAssumption DEF EffectiveTLSHosts

\* The entries of an Ingress are numbered, and finitely many.
LEMMA EntriesFinite ==
  ASSUME NEW ings, Selection(ings), NEW s \in DOMAIN ings
  PROVE  IsFiniteSet(DOMAIN ings[s].tls) /\ DOMAIN ings[s].tls \subseteq Nat
  <1> DEFINE tls == ings[s].tls
  <1>1. tls \in Seq(Entry)
    BY DEF Selection, IsBody
  <1>2. DOMAIN tls = 1 .. Len(tls) /\ Len(tls) \in Nat
    BY <1>1
  <1> QED
    BY <1>2, FS_Interval

\* Declaring one entry gives a record of the same type.
LEMMA DeclareType ==
  ASSUME NEW acc \in Collected, NEW s \in Source, NEW k \in Secret \cup {NoSecret}, NEW H \in SUBSET Host
  PROVE  Declare(acc, s, k, H) \in Collected
  <1> DEFINE conflicts == {h \in H : acc.owner[h].secret \notin {NoSecret, k}}
             lost == UNION {[source : {s, acc.owner[h].source}, host : {h}] : h \in conflicts}
  <1>1. CASE k = NoSecret \/ H = {}
    BY <1>1 DEF Declare, Collected
  <1>2. CASE ~(k = NoSecret \/ H = {})
    <2>1. lost \subseteq [source : Source \cup {0}, host : Host \cup {NoHost}]
      BY DEF Collected
    <2>2. [h \in Host |-> IF h \in H \ conflicts THEN [secret |-> k, source |-> s] ELSE acc.owner[h]]
            \in [Host -> [secret : Secret \cup {NoSecret}, source : Source \cup {0}]]
      BY DEF Collected
    <2>3. [h \in Host |-> acc.declaredBy[h] \cup IF h \in H THEN {s} ELSE {}] \in [Host -> SUBSET Source]
      BY DEF Collected
    <2>4. acc.issues \cup lost \in SUBSET [source : Source \cup {0}, host : Host \cup {NoHost}]
      BY <2>1 DEF Collected
    <2>5. Declare(acc, s, k, H) =
            [owner |-> [h \in Host |-> IF h \in H \ conflicts THEN [secret |-> k, source |-> s] ELSE acc.owner[h]],
             declaredBy |-> [h \in Host |-> acc.declaredBy[h] \cup IF h \in H THEN {s} ELSE {}],
             issues |-> acc.issues \cup lost]
      BY <1>2 DEF Declare
    <2> HIDE DEF lost, conflicts
    <2> QED
      BY <2>2, <2>3, <2>4, <2>5 DEF Collected
  <1> QED
    BY <1>1, <1>2

\* An entry collected after those of P, which come from no later Ingress.
LEMMA DeclareKeeps ==
  ASSUME NEW ings, Selection(ings), NEW s \in DOMAIN ings, NEW e \in DOMAIN ings[s].tls,
         NEW P, P \subseteq EntriesOf(ings, DOMAIN ings), \A p \in P : p[1] <= s,
         NEW acc, CollectedFrom(acc, P, ings)
  PROVE  CollectedFrom(Declare(acc, s, ings[s].tls[e].secret, EffectiveTLSHosts(ings[s], ings[s].tls[e])),
                       P \cup {<<s, e>>}, ings)
  <1> DEFINE k == ings[s].tls[e].secret
             H == EffectiveTLSHosts(ings[s], ings[s].tls[e])
             new == Declare(acc, s, k, H)
             Q == P \cup {<<s, e>>}
             conflicts == {h \in H : acc.owner[h].secret \notin {NoSecret, k}}
             lost == UNION {[source : {s, acc.owner[h].source}, host : {h}] : h \in conflicts}
  <1>1. /\ s \in Source /\ s \in Nat /\ s # 0 /\ e \in Nat
        /\ k \in Secret \cup {NoSecret} /\ H \subseteq Host
    BY EntryType
  <1>2. /\ acc \in Collected /\ KnowsDeclarers(acc, P, ings) /\ OwnedByFirst(acc, P, ings)
        /\ OwnerAgrees(acc, P, ings) /\ ConflictsReported(acc, P, ings)
        /\ BlanksReported(acc, P, ings) /\ DeclarersBlamed(acc)
    BY DEF CollectedFrom
  <1>none. NoHost \notin Host
    BY HostAssumption DEF NoHost
  <1>3. new \in Collected
    BY <1>1, <1>2, DeclareType
  <1>4. CASE k = NoSecret \/ H = {}
    <2>1. new = [acc EXCEPT !.issues = @ \cup {[source |-> s, host |-> NoHost]}]
      BY <1>4 DEF Declare
    <2>2. /\ new.owner = acc.owner /\ new.declaredBy = acc.declaredBy /\ acc.issues \subseteq new.issues
          /\ new.issues = acc.issues \cup {[source |-> s, host |-> NoHost]}
      BY <1>2, <2>1 DEF Collected
    <2>3. \A h \in Host : ~Declares(ings[s], e, h)
      BY <1>4 DEF Declares
    <2>4. \A t, f, h : h \in Host /\ Declares(ings[t], f, h) /\ <<t, f>> \in Q => <<t, f>> \in P
      BY <2>3
    <2> HIDE DEF new, Q
    <2>5. P \subseteq Q
      BY DEF Q
    <2>6. KnowsDeclarers(new, Q, ings)
      BY <1>2, <2>2, <2>4, <2>5 DEF KnowsDeclarers
    <2>7. OwnedByFirst(new, Q, ings)
      BY <1>2, <2>2, <2>5 DEF OwnedByFirst
    <2>8. OwnerAgrees(new, Q, ings)
      BY <1>2, <2>2, <2>5 DEF OwnerAgrees, Agrees
    <2>loss. ConflictsReported(new, Q, ings)
      <3> SUFFICES ASSUME NEW h \in Host, NEW t \in Source, NEW f \in Nat, <<t, f>> \in Q, Declares(ings[t], f, h),
                          new.owner[h].secret # ings[t].tls[f].secret
                   PROVE  \E w \in Source, g \in Nat :
                             /\ w <= t /\ Agrees(new, Q, ings, w, g, h)
                             /\ [source |-> t, host |-> h] \in new.issues /\ [source |-> w, host |-> h] \in new.issues
        BY DEF ConflictsReported
      <3>1. <<t, f>> \in P /\ acc.owner[h].secret # ings[t].tls[f].secret
        BY <2>2, <2>4
      <3>2. PICK w \in Source, g \in Nat :
               /\ w <= t /\ Agrees(acc, P, ings, w, g, h)
               /\ [source |-> t, host |-> h] \in acc.issues /\ [source |-> w, host |-> h] \in acc.issues
        BY <1>2, <3>1 DEF ConflictsReported
      <3> QED
        BY <2>2, <2>5, <3>2 DEF Agrees
    <2>9. BlanksReported(new, Q, ings)
      <3> SUFFICES ASSUME NEW t \in Source
                   PROVE  [source |-> t, host |-> NoHost] \in new.issues
                          <=> \E f \in Nat : <<t, f>> \in Q /\ Blank(ings[t], f)
        BY DEF BlanksReported
      <3>1. [source |-> t, host |-> NoHost] \in acc.issues
            <=> \E f \in Nat : <<t, f>> \in P /\ Blank(ings[t], f)
        BY <1>2 DEF BlanksReported
      <3>2. [source |-> t, host |-> NoHost] \in new.issues
            <=> [source |-> t, host |-> NoHost] \in acc.issues \/ t = s
        BY <2>2
      <3>3. Blank(ings[s], e)
        BY <1>4 DEF Blank
      <3>4. \A f : <<t, f>> \in Q <=> <<t, f>> \in P \/ (t = s /\ f = e)
        BY DEF Q
      <3> QED
        BY <1>1, <3>1, <3>2, <3>3, <3>4
    <2>10. DeclarersBlamed(new)
      <3> SUFFICES ASSUME NEW h \in Host
                   PROVE  /\ new.owner[h].secret # NoSecret => new.owner[h].source \in new.declaredBy[h]
                          /\ \A t : [source |-> t, host |-> h] \in new.issues => t \in new.declaredBy[h]
        BY DEF DeclarersBlamed
      <3>1. h # NoHost
        BY <1>none
      <3>2. \A t : [source |-> t, host |-> h] \in new.issues => [source |-> t, host |-> h] \in acc.issues
        <4> SUFFICES ASSUME NEW t, [source |-> t, host |-> h] \in new.issues, [source |-> t, host |-> h] \notin acc.issues
                     PROVE FALSE
          OBVIOUS
        <4>1. [source |-> t, host |-> h] = [source |-> s, host |-> NoHost]
          BY <2>2
        <4> QED
          BY <3>1, <4>1
      <3> QED
        BY <1>2, <2>2, <3>2 DEF DeclarersBlamed
    <2> QED
      BY <1>3, <2>6, <2>7, <2>8, <2>loss, <2>9, <2>10 DEF CollectedFrom, new, Q, k, H
  <1>5. CASE ~(k = NoSecret \/ H = {})
    <2>1. new = [owner |-> [h \in Host |-> IF h \in H \ conflicts THEN [secret |-> k, source |-> s] ELSE acc.owner[h]],
                 declaredBy |-> [h \in Host |-> acc.declaredBy[h] \cup IF h \in H THEN {s} ELSE {}],
                 issues |-> acc.issues \cup lost]
      BY <1>5 DEF Declare
    <2>2. /\ \A h \in Host : new.owner[h] = IF h \in H \ conflicts THEN [secret |-> k, source |-> s] ELSE acc.owner[h]
          /\ \A h \in Host : new.declaredBy[h] = acc.declaredBy[h] \cup IF h \in H THEN {s} ELSE {}
          /\ new.issues = acc.issues \cup lost
      BY <2>1
    <2>3. \A h \in Host : Declares(ings[s], e, h) <=> h \in H
      BY <1>5 DEF Declares
    <2> HIDE DEF new
    <2>4. \A h \in Host : acc.owner[h].secret # NoSecret => new.owner[h].secret = acc.owner[h].secret
      BY <2>2
    <2>5. \A t, f : <<t, f>> \in Q <=> <<t, f>> \in P \/ (t = s /\ f = e)
      OBVIOUS
    <2>6. \A t, f : <<t, f>> \in P => t <= s
      OBVIOUS
    <2> HIDE DEF Q, k, H
    <2>7. KnowsDeclarers(new, Q, ings)
      <3> SUFFICES ASSUME NEW h \in Host
                   PROVE  new.declaredBy[h] = {t \in Source : \E f \in Nat : <<t, f>> \in Q /\ Declares(ings[t], f, h)}
        BY DEF KnowsDeclarers
      <3>1. acc.declaredBy[h] = {t \in Source : \E f \in Nat : <<t, f>> \in P /\ Declares(ings[t], f, h)}
        BY <1>2 DEF KnowsDeclarers
      <3> QED
        BY <1>1, <2>2, <2>3, <2>5, <3>1
    <2>8. OwnedByFirst(new, Q, ings)
      <3> SUFFICES ASSUME NEW h \in Host
                   PROVE  IF new.declaredBy[h] = {} THEN new.owner[h].secret = NoSecret
                          ELSE \E t \in Source, f \in Nat :
                                  /\ <<t, f>> \in Q /\ Declares(ings[t], f, h)
                                  /\ new.owner[h].secret = ings[t].tls[f].secret
                                  /\ \A u \in new.declaredBy[h] : t <= u
        BY DEF OwnedByFirst
      <3>1. CASE h \notin H
        <4>1. new.owner[h] = acc.owner[h] /\ new.declaredBy[h] = acc.declaredBy[h]
          BY <2>2, <3>1
        <4> QED
          BY <1>2, <2>5, <4>1 DEF OwnedByFirst
      <3>2. CASE h \in H /\ acc.declaredBy[h] = {}
        <4>1. new.declaredBy[h] = {s} /\ new.owner[h].secret = k
          BY <1>2, <2>2, <3>2 DEF OwnedByFirst
        <4> QED
          BY <1>1, <2>3, <2>5, <3>2, <4>1 DEF k
      <3>3. CASE h \in H /\ acc.declaredBy[h] # {}
        <4>1. PICK t \in Source, f \in Nat :
                  /\ <<t, f>> \in P /\ Declares(ings[t], f, h)
                  /\ acc.owner[h].secret = ings[t].tls[f].secret
                  /\ \A u \in acc.declaredBy[h] : t <= u
          BY <1>2, <3>3 DEF OwnedByFirst
        <4>2. acc.owner[h].secret # NoSecret
          BY <4>1 DEF Declares
        <4>3. \A u \in new.declaredBy[h] : t <= u
          BY <2>2, <2>6, <4>1
        <4> QED
          BY <2>4, <2>5, <4>1, <4>2, <4>3, <2>2, <3>3
      <3> QED
        BY <3>1, <3>2, <3>3
    <2>agree. OwnerAgrees(new, Q, ings)
      <3> SUFFICES ASSUME NEW h \in Host, new.owner[h].secret # NoSecret
                   PROVE  \E f \in Nat : Agrees(new, Q, ings, new.owner[h].source, f, h)
        BY DEF OwnerAgrees
      <3>1. CASE new.owner[h] = acc.owner[h]
        BY <1>2, <2>5, <3>1 DEF OwnerAgrees, Agrees
      <3>2. CASE h \in H /\ new.owner[h] = [secret |-> k, source |-> s]
        BY <1>1, <2>3, <2>5, <3>2 DEF Agrees, k
      <3> QED
        BY <2>2, <3>1, <3>2
    <2>9. ConflictsReported(new, Q, ings)
      <3> SUFFICES ASSUME NEW h \in Host, NEW t \in Source, NEW f \in Nat, <<t, f>> \in Q, Declares(ings[t], f, h),
                          new.owner[h].secret # ings[t].tls[f].secret
                   PROVE  \E w \in Source, g \in Nat :
                             /\ w <= t /\ Agrees(new, Q, ings, w, g, h)
                             /\ [source |-> t, host |-> h] \in new.issues /\ [source |-> w, host |-> h] \in new.issues
        BY DEF ConflictsReported
      <3>1. CASE <<t, f>> \in P
        <4>1. t \in acc.declaredBy[h]
          BY <1>2, <3>1 DEF KnowsDeclarers
        <4>2. acc.owner[h].secret # NoSecret
          BY <1>2, <4>1 DEF OwnedByFirst, Declares
        <4>3. new.owner[h].secret = acc.owner[h].secret
          BY <2>4, <4>2
        <4>4. PICK w \in Source, g \in Nat :
                 /\ w <= t /\ Agrees(acc, P, ings, w, g, h)
                 /\ [source |-> t, host |-> h] \in acc.issues /\ [source |-> w, host |-> h] \in acc.issues
          BY <1>2, <3>1, <4>3 DEF ConflictsReported
        <4>5. Agrees(new, Q, ings, w, g, h)
          BY <2>5, <4>3, <4>4 DEF Agrees
        <4> QED
          BY <2>2, <4>4, <4>5
      <3>2. CASE t = s /\ f = e
        <4>1. h \in H /\ ings[t].tls[f].secret = k
          BY <2>3, <3>2 DEF k
        <4>2. h \in conflicts
          BY <2>2, <4>1
        <4> DEFINE w == acc.owner[h].source
        <4>3. \A x \in {s, w} : [source |-> x, host |-> h] \in [source : {s, acc.owner[h].source}, host : {h}]
          OBVIOUS
        <4>4. \A x \in {s, w} : [source |-> x, host |-> h] \in lost
          BY <4>2, <4>3
        <4>5. acc.owner[h].secret # NoSecret /\ new.owner[h] = acc.owner[h]
          BY <2>2, <4>2
        <4>6. PICK g \in Nat : Agrees(acc, P, ings, w, g, h)
          BY <1>2, <4>5 DEF OwnerAgrees
        <4>7. w \in Source
          BY <1>2, <4>5 DEF DeclarersBlamed, Collected
        <4>8. w <= s /\ Agrees(new, Q, ings, w, g, h)
          BY <2>5, <2>6, <4>5, <4>6 DEF Agrees
        <4> HIDE DEF w, lost
        <4> QED
          BY <2>2, <3>2, <4>4, <4>7, <4>8
      <3> QED
        BY <2>5, <3>1, <3>2
    <2>10. \A t, h : [source |-> t, host |-> h] \in lost
                    => h \in conflicts /\ t \in {s, acc.owner[h].source}
      <3> SUFFICES ASSUME NEW t, NEW h, [source |-> t, host |-> h] \in lost
                   PROVE  h \in conflicts /\ t \in {s, acc.owner[h].source}
        OBVIOUS
      <3>1. PICK g \in conflicts : [source |-> t, host |-> h] \in [source : {s, acc.owner[g].source}, host : {g}]
        OBVIOUS
      <3> HIDE DEF conflicts, lost
      <3>2. h = g /\ t \in {s, acc.owner[g].source}
        BY <3>1
      <3> QED
        BY <3>2
    <2>11. \A h \in conflicts : h \in H /\ acc.owner[h].secret # NoSecret
      OBVIOUS
    <2>12. BlanksReported(new, Q, ings)
      <3> SUFFICES ASSUME NEW t \in Source
                   PROVE  [source |-> t, host |-> NoHost] \in new.issues
                          <=> \E f \in Nat : <<t, f>> \in Q /\ Blank(ings[t], f)
        BY DEF BlanksReported
      <3>1. [source |-> t, host |-> NoHost] \in acc.issues
            <=> \E f \in Nat : <<t, f>> \in P /\ Blank(ings[t], f)
        BY <1>2 DEF BlanksReported
      <3>2. [source |-> t, host |-> NoHost] \notin lost
        BY <1>1, <1>none, <2>10, <2>11
      <3>3. ~Blank(ings[s], e)
        BY <1>5 DEF Blank, k, H
      <3> QED
        BY <2>2, <2>5, <3>1, <3>2, <3>3
    <2>13. DeclarersBlamed(new)
      <3> SUFFICES ASSUME NEW h \in Host
                   PROVE  /\ new.owner[h].secret # NoSecret => new.owner[h].source \in new.declaredBy[h]
                          /\ \A t : [source |-> t, host |-> h] \in new.issues => t \in new.declaredBy[h]
        BY DEF DeclarersBlamed
      <3>1. /\ acc.owner[h].secret # NoSecret => acc.owner[h].source \in acc.declaredBy[h]
            /\ \A t : [source |-> t, host |-> h] \in acc.issues => t \in acc.declaredBy[h]
        BY <1>2 DEF DeclarersBlamed
      <3>2. acc.declaredBy[h] \subseteq new.declaredBy[h] /\ (h \in H => s \in new.declaredBy[h])
        BY <2>2
      <3>3. new.owner[h] = acc.owner[h] \/ (h \in H /\ new.owner[h].source = s)
        BY <2>2
      <3>4. ASSUME NEW t, [source |-> t, host |-> h] \in new.issues
            PROVE  t \in new.declaredBy[h]
        <4>1. CASE [source |-> t, host |-> h] \in acc.issues
          BY <3>1, <3>2, <4>1
        <4>2. CASE [source |-> t, host |-> h] \in lost
          <5>1. h \in conflicts /\ t \in {s, acc.owner[h].source}
            BY <2>10, <4>2
          <5>2. h \in H /\ acc.owner[h].secret # NoSecret
            BY <2>11, <5>1
          <5> QED
            BY <3>1, <3>2, <5>1, <5>2
        <4> QED
          BY <2>2, <3>4, <4>1, <4>2
      <3> QED
        BY <3>1, <3>2, <3>3, <3>4
    <2> QED
      BY <1>3, <2>7, <2>8, <2>agree, <2>9, <2>12, <2>13 DEF CollectedFrom, new, Q, k, H
  <1> QED
    BY <1>4, <1>5

\* The fold over the entries of one Ingress, one entry at a time.
UnfoldsIngress(it, acc, s, ing) ==
    LET D == DOMAIN ing.tls
        declare(a, e) == Declare(a, s, ing.tls[e].secret, EffectiveTLSHosts(ing, ing.tls[e]))
    IN  /\ it \in [SUBSET D -> Collected]
        /\ CollectIngress(acc, s, ing) = it[D]
        /\ it[{}] = acc
        /\ \A T \in SUBSET D : T # {} => it[T] = declare(it[T \ {Max(T)}], Max(T))

\* Collecting the entries of an Ingress can be taken apart entry by entry.
LEMMA CollectIngressUnfolds ==
  ASSUME NEW ings, Selection(ings), NEW s \in DOMAIN ings, NEW acc \in Collected
  PROVE  \E it : UnfoldsIngress(it, acc, s, ings[s])
  <1> DEFINE tls == ings[s].tls
             D == DOMAIN tls
             declare(a, e) == Declare(a, s, tls[e].secret, EffectiveTLSHosts(ings[s], tls[e]))
             Step == [x \in D \X Collected |-> declare(x[2], x[1])]
             Solves(f) == f = [T \in SUBSET D |-> IF T = {} THEN acc ELSE declare(f[T \ {Max(T)}], Max(T))]
             it == CHOOSE f : Solves(f)
             Good == {T \in SUBSET D : it[T] \in Collected}
  <1>1. CollectIngress(acc, s, ings[s]) = it[D]
    BY DEF CollectIngress, FoldLeft, MapThenFoldSet
  <1>2. IsFiniteSet(D) /\ D \subseteq Nat
    BY EntriesFinite
  <1>3. \A e \in D : \A a \in Collected : declare(a, e) \in Collected
    BY EntryType, DeclareType
  <1>4. Step \in [D \X Collected -> Collected]
    BY <1>3
  <1>max. \A T \in SUBSET D : T # {} => Max(T) \in D
    BY <1>2, MaxOfNaturals, FS_Subset
  <1>5. \E f : Solves(f)
    <2> HIDE DEF Step, declare, D
    <2>1. PICK f : Unfolds(f, D, Collected, acc, Step)
      BY <1>2, <1>4, FoldExists
    <2>2. ASSUME NEW T \in SUBSET D, T # {}
          PROVE  f[T] = declare(f[T \ {Max(T)}], Max(T))
      <3>1. Max(T) \in D /\ f[T \ {Max(T)}] \in Collected
        BY <1>max, <2>1, <2>2 DEF Unfolds
      <3> QED
        BY <2>1, <2>2, <3>1 DEF Step, Unfolds
    <2>3. f = [T \in SUBSET D |-> IF T = {} THEN acc ELSE declare(f[T \ {Max(T)}], Max(T))]
      BY <2>1, <2>2 DEF Unfolds
    <2> QED
      BY <2>3
  <1>6. Solves(it)
    <2> HIDE DEF Solves
    <2> QED
      BY <1>5
  <1> HIDE DEF it, declare
  <1>7. /\ it = [T \in SUBSET D |-> it[T]]
        /\ it[{}] = acc
        /\ \A T \in SUBSET D : T # {} => it[T] = declare(it[T \ {Max(T)}], Max(T))
    BY <1>6
  <1>8. {} \in Good
    BY <1>7
  <1>9. ASSUME NEW T \in SUBSET D, T # {} /\ T \ {Max(T)} \in Good
        PROVE  T \in Good
    <2>1. Max(T) \in D /\ it[T \ {Max(T)}] \in Collected
      BY <1>9, <1>max
    <2>2. it[T] = declare(it[T \ {Max(T)}], Max(T))
      BY <1>7, <1>9
    <2>3. it[T] \in Collected
      BY <1>3, <2>1, <2>2
    <2> QED
      BY <2>3
  <1>10. \A T \in SUBSET D : T \in Good
    <2> HIDE DEF Good, D
    <2> QED
      BY <1>2, <1>8, <1>9, AscendingInduction
  <1>11. it \in [SUBSET D -> Collected]
    BY <1>7, <1>10
  <1>12. UnfoldsIngress(it, acc, s, ings[s])
    BY <1>1, <1>7, <1>11 DEF UnfoldsIngress, declare
  <1> QED
    BY <1>12

\* The entries of one Ingress, after those of earlier ones.
LEMMA CollectIngressKeeps ==
  ASSUME NEW ings, Selection(ings), NEW s \in DOMAIN ings,
         NEW P, P \subseteq EntriesOf(ings, DOMAIN ings), \A p \in P : p[1] <= s,
         NEW acc, CollectedFrom(acc, P, ings)
  PROVE  CollectedFrom(CollectIngress(acc, s, ings[s]), P \cup {<<s, e>> : e \in DOMAIN ings[s].tls}, ings)
  <1> DEFINE tls == ings[s].tls
             D == DOMAIN tls
             declare(a, e) == Declare(a, s, tls[e].secret, EffectiveTLSHosts(ings[s], tls[e]))
             After(T) == P \cup {<<s, e>> : e \in T}
  <1>1. acc \in Collected
    BY DEF CollectedFrom
  <1>2. IsFiniteSet(D) /\ D \subseteq Nat
    BY EntriesFinite
  <1>it. PICK it : UnfoldsIngress(it, acc, s, ings[s])
    BY <1>1, CollectIngressUnfolds
  <1>3. /\ CollectIngress(acc, s, ings[s]) = it[D]
        /\ it[{}] = acc
        /\ \A T \in SUBSET D : T # {} => it[T] = declare(it[T \ {Max(T)}], Max(T))
    BY <1>it DEF UnfoldsIngress
  <1> DEFINE Good == {T \in SUBSET D : CollectedFrom(it[T], After(T), ings)}
  <1>4. {} \in Good
    BY <1>3
  <1>5. ASSUME NEW T \in SUBSET D, T # {} /\ T \ {Max(T)} \in Good
        PROVE  T \in Good
    <2> DEFINE m == Max(T)
               R == T \ {m}
    <2>1. m \in T
      BY <1>2, <1>5, MaxOfNaturals, FS_Subset
    <2>2. CollectedFrom(it[R], After(R), ings)
      BY <1>5
    <2>3. After(R) \subseteq EntriesOf(ings, DOMAIN ings) /\ \A p \in After(R) : p[1] <= s
      BY EntryType DEF EntriesOf
    <2>4. m \in D
      BY <2>1
    <2> HIDE DEF R, m, After
    <2>5. CollectedFrom(declare(it[R], m), After(R) \cup {<<s, m>>}, ings)
      BY <2>2, <2>3, <2>4, DeclareKeeps
    <2>6. it[T] = declare(it[R], m)
      BY <1>3, <1>5 DEF R, m
    <2>7. After(R) \cup {<<s, m>>} = After(T)
      BY <2>1 DEF After, R
    <2> HIDE DEF declare
    <2> QED
      BY <2>5, <2>6, <2>7 DEF After
  <1>6. D \in Good
    <2> HIDE DEF Good, D
    <2> QED
      BY <1>2, <1>4, <1>5, AscendingInduction
  <1> QED
    BY <1>3, <1>6

\* The fold over the Ingresses, one Ingress at a time.
UnfoldsIngresses(it, ings) ==
    LET D == DOMAIN ings
    IN  /\ it \in [SUBSET D -> Collected]
        /\ Collect(ings) = it[D]
        /\ it[{}] = NothingDeclared
        /\ \A T \in SUBSET D : T # {} => it[T] = CollectIngress(it[T \ {Max(T)}], Max(T), ings[Max(T)])

\* Collecting the Ingresses can be taken apart Ingress by Ingress.
LEMMA CollectUnfolds ==
  ASSUME NEW ings, Selection(ings)
  PROVE  \E it : UnfoldsIngresses(it, ings)
  <1> DEFINE D == DOMAIN ings
             collect(a, s) == CollectIngress(a, s, ings[s])
             Step == [x \in D \X Collected |-> collect(x[2], x[1])]
             Solves(f) == f = [T \in SUBSET D |-> IF T = {} THEN NothingDeclared ELSE collect(f[T \ {Max(T)}], Max(T))]
             it == CHOOSE f : Solves(f)
             Good == {T \in SUBSET D : it[T] \in Collected}
  <1>1. Collect(ings) = it[D]
    BY DEF Collect, InOrder, MapThenFoldSet
  <1>2. IsFiniteSet(D) /\ D \subseteq Nat
    BY SecretAssumption, FS_Subset DEF Selection
  <1>3. ASSUME NEW s \in D, NEW a \in Collected
        PROVE  collect(a, s) \in Collected
    <2>1. PICK it1 : UnfoldsIngress(it1, a, s, ings[s])
      BY CollectIngressUnfolds
    <2> QED
      BY <2>1 DEF UnfoldsIngress
  <1>4. Step \in [D \X Collected -> Collected]
    BY <1>3
  <1>max. \A T \in SUBSET D : T # {} => Max(T) \in D
    BY <1>2, MaxOfNaturals, FS_Subset
  <1>base. NothingDeclared \in Collected
    BY DEF NothingDeclared, Collected, NoOwner
  <1>5. \E f : Solves(f)
    <2> HIDE DEF Step, collect, D
    <2>1. PICK f : Unfolds(f, D, Collected, NothingDeclared, Step)
      BY <1>2, <1>4, <1>base, FoldExists
    <2>2. ASSUME NEW T \in SUBSET D, T # {}
          PROVE  f[T] = collect(f[T \ {Max(T)}], Max(T))
      <3>1. Max(T) \in D /\ f[T \ {Max(T)}] \in Collected
        BY <1>max, <2>1, <2>2 DEF Unfolds
      <3> QED
        BY <2>1, <2>2, <3>1 DEF Step, Unfolds
    <2>3. f = [T \in SUBSET D |-> IF T = {} THEN NothingDeclared ELSE collect(f[T \ {Max(T)}], Max(T))]
      BY <2>1, <2>2 DEF Unfolds
    <2> QED
      BY <2>3
  <1>6. Solves(it)
    <2> HIDE DEF Solves
    <2> QED
      BY <1>5
  <1> HIDE DEF it, collect
  <1>7. /\ it = [T \in SUBSET D |-> it[T]]
        /\ it[{}] = NothingDeclared
        /\ \A T \in SUBSET D : T # {} => it[T] = collect(it[T \ {Max(T)}], Max(T))
    BY <1>6
  <1>8. {} \in Good
    BY <1>7, <1>base
  <1>9. ASSUME NEW T \in SUBSET D, T # {} /\ T \ {Max(T)} \in Good
        PROVE  T \in Good
    <2>1. Max(T) \in D /\ it[T \ {Max(T)}] \in Collected
      BY <1>9, <1>max
    <2>2. it[T] = collect(it[T \ {Max(T)}], Max(T))
      BY <1>7, <1>9
    <2>3. it[T] \in Collected
      BY <1>3, <2>1, <2>2
    <2> QED
      BY <2>3
  <1>10. \A T \in SUBSET D : T \in Good
    <2> HIDE DEF Good, D
    <2> QED
      BY <1>2, <1>8, <1>9, AscendingInduction
  <1>11. it \in [SUBSET D -> Collected]
    BY <1>7, <1>10
  <1>12. UnfoldsIngresses(it, ings)
    BY <1>1, <1>7, <1>11 DEF UnfoldsIngresses, collect
  <1> QED
    BY <1>12

\* Every entry of every Ingress, in Ingress order.
LEMMA CollectGives ==
  ASSUME NEW ings, Selection(ings)
  PROVE  CollectedFrom(Collect(ings), EntriesOf(ings, DOMAIN ings), ings)
  <1> DEFINE D == DOMAIN ings
             From(T) == EntriesOf(ings, T)
  <1>1. IsFiniteSet(D) /\ D \subseteq Nat
    BY SecretAssumption, FS_Subset DEF Selection
  <1>it. PICK it : UnfoldsIngresses(it, ings)
    BY CollectUnfolds
  <1>2. /\ Collect(ings) = it[D]
        /\ it[{}] = NothingDeclared
        /\ \A T \in SUBSET D : T # {} => it[T] = CollectIngress(it[T \ {Max(T)}], Max(T), ings[Max(T)])
    BY <1>it DEF UnfoldsIngresses
  <1> DEFINE Good == {T \in SUBSET D : CollectedFrom(it[T], From(T), ings)}
  <1>3. {} \in Good
    <2>1. From({}) = {}
      BY DEF EntriesOf
    <2>2. /\ KnowsDeclarers(NothingDeclared, {}, ings) /\ ConflictsReported(NothingDeclared, {}, ings)
          /\ BlanksReported(NothingDeclared, {}, ings) /\ DeclarersBlamed(NothingDeclared)
          /\ OwnerAgrees(NothingDeclared, {}, ings)
      BY DEF KnowsDeclarers, OwnerAgrees, ConflictsReported, BlanksReported, DeclarersBlamed, NothingDeclared, NoOwner
    <2>3. OwnedByFirst(NothingDeclared, {}, ings)
      BY DEF OwnedByFirst, NothingDeclared, NoOwner
    <2>4. NothingDeclared \in Collected
      BY <1>it, <1>2 DEF UnfoldsIngresses
    <2> QED
      BY <1>2, <2>1, <2>2, <2>3, <2>4 DEF CollectedFrom
  <1>4. ASSUME NEW T \in SUBSET D, T # {} /\ T \ {Max(T)} \in Good
        PROVE  T \in Good
    <2> DEFINE m == Max(T)
               R == T \ {m}
    <2>1. m \in T /\ \A x \in T : x <= m
      BY <1>1, <1>4, MaxOfNaturals, FS_Subset
    <2>2. CollectedFrom(it[R], From(R), ings)
      BY <1>4
    <2> HIDE DEF m
    <2>3. From(R) \subseteq EntriesOf(ings, DOMAIN ings) /\ \A p \in From(R) : p[1] <= m
      BY <2>1 DEF EntriesOf
    <2>4. m \in D
      BY <2>1
    <2>5. From(R) \cup {<<m, e>> : e \in DOMAIN ings[m].tls} = From(T)
      BY <2>1, EntryType DEF EntriesOf
    <2> HIDE DEF R, From
    <2>6. CollectedFrom(CollectIngress(it[R], m, ings[m]), From(R) \cup {<<m, e>> : e \in DOMAIN ings[m].tls}, ings)
      BY <2>2, <2>3, <2>4, CollectIngressKeeps
    <2>7. it[T] = CollectIngress(it[R], m, ings[m])
      BY <1>2, <1>4 DEF R, m
    <2> QED
      BY <2>5, <2>6, <2>7 DEF From
  <1>5. D \in Good
    <2> HIDE DEF Good, D
    <2> QED
      BY <1>1, <1>3, <1>4, AscendingInduction
  <1> QED
    BY <1>2, <1>5

\* In a word: each declared hostname is under a Secret its first declarer
\* names, and whoever names another has an issue, as has one that names it.
LEMMA CollectSummary ==
  ASSUME NEW ings, Selection(ings), NEW h \in Host
  PROVE  LET c == Collect(ings) IN
         /\ c \in Collected
         /\ c.declaredBy[h] = DeclarersOf(ings, h)
         /\ c.owner[h].secret = NoSecret <=> DeclarersOf(ings, h) = {}
         /\ DeclarersOf(ings, h) # {} =>
               \E s \in DeclarersOf(ings, h) :
                  /\ \A t \in DeclarersOf(ings, h) : s <= t
                  /\ \E e \in DOMAIN ings[s].tls :
                        Declares(ings[s], e, h) /\ c.owner[h].secret = ings[s].tls[e].secret
         /\ \A s \in DOMAIN ings : \A e \in DOMAIN ings[s].tls :
               Declares(ings[s], e, h) /\ c.owner[h].secret # ings[s].tls[e].secret
               => \E w \in DeclarersOf(ings, h) :
                     /\ w <= s
                     /\ \E f \in DOMAIN ings[w].tls :
                           Declares(ings[w], f, h) /\ c.owner[h].secret = ings[w].tls[f].secret
                     /\ [source |-> s, host |-> h] \in c.issues /\ [source |-> w, host |-> h] \in c.issues
  <1> DEFINE c == Collect(ings)
             P == EntriesOf(ings, DOMAIN ings)
  <1>1. c \in Collected /\ KnowsDeclarers(c, P, ings) /\ OwnedByFirst(c, P, ings) /\ ConflictsReported(c, P, ings)
    BY CollectGives DEF CollectedFrom
  <1>2. \A s \in DOMAIN ings : s \in Source /\ \A e \in DOMAIN ings[s].tls : e \in Nat
    BY EntryType DEF Selection
  <1>3. \A s, e : <<s, e>> \in P <=> s \in DOMAIN ings /\ e \in Nat /\ e \in DOMAIN ings[s].tls
    BY DEF EntriesOf
  <1> HIDE DEF c, P
  <1>4. c.declaredBy[h] = DeclarersOf(ings, h)
    BY <1>1, <1>2, <1>3 DEF KnowsDeclarers, DeclarersOf
  <1>5. DeclarersOf(ings, h) = {} => c.owner[h].secret = NoSecret
    BY <1>1, <1>4 DEF OwnedByFirst
  <1>6. ASSUME DeclarersOf(ings, h) # {}
        PROVE  /\ c.owner[h].secret # NoSecret
               /\ \E s \in DeclarersOf(ings, h) :
                  /\ \A t \in DeclarersOf(ings, h) : s <= t
                  /\ \E e \in DOMAIN ings[s].tls :
                        Declares(ings[s], e, h) /\ c.owner[h].secret = ings[s].tls[e].secret
    <2>1. PICK s \in Source, e \in Nat :
             /\ <<s, e>> \in P /\ Declares(ings[s], e, h)
             /\ c.owner[h].secret = ings[s].tls[e].secret
             /\ \A t \in c.declaredBy[h] : s <= t
      BY <1>1, <1>4, <1>6 DEF OwnedByFirst
    <2>2. s \in DeclarersOf(ings, h) /\ e \in DOMAIN ings[s].tls
      BY <1>3, <2>1 DEF DeclarersOf
    <2>3. c.owner[h].secret # NoSecret
      BY <2>1 DEF Declares
    <2> QED
      BY <1>4, <2>1, <2>2, <2>3
  <1>7. ASSUME NEW s \in DOMAIN ings, NEW e \in DOMAIN ings[s].tls,
               Declares(ings[s], e, h), c.owner[h].secret # ings[s].tls[e].secret
        PROVE  \E w \in DeclarersOf(ings, h) :
                  /\ w <= s
                  /\ \E f \in DOMAIN ings[w].tls :
                        Declares(ings[w], f, h) /\ c.owner[h].secret = ings[w].tls[f].secret
                  /\ [source |-> s, host |-> h] \in c.issues /\ [source |-> w, host |-> h] \in c.issues
    <2>1. <<s, e>> \in P /\ s \in Source /\ e \in Nat
      BY <1>2, <1>3
    <2>2. PICK w \in Source, f \in Nat :
             /\ w <= s /\ Agrees(c, P, ings, w, f, h)
             /\ [source |-> s, host |-> h] \in c.issues /\ [source |-> w, host |-> h] \in c.issues
      BY <1>1, <1>7, <2>1 DEF ConflictsReported
    <2>3. w \in DeclarersOf(ings, h) /\ f \in DOMAIN ings[w].tls
      BY <1>3, <2>2 DEF Agrees, DeclarersOf
    <2> QED
      BY <2>2, <2>3 DEF Agrees
  <1> QED
    BY <1>1, <1>4, <1>5, <1>6, <1>7 DEF c

\* Who has an issue: whoever has an entry that declares nothing, and nobody for
\* a hostname but its declarers.
LEMMA BlamedIs ==
  ASSUME NEW ings, Selection(ings)
  PROVE  LET c == Collect(ings) IN
         /\ c \in Collected
         /\ \A s \in Source : [source |-> s, host |-> NoHost] \in c.issues
                              <=> s \in DOMAIN ings /\ \E e \in DOMAIN ings[s].tls : Blank(ings[s], e)
         /\ \A h \in Host : \A s : [source |-> s, host |-> h] \in c.issues => s \in DeclarersOf(ings, h)
  <1> DEFINE c == Collect(ings)
             P == EntriesOf(ings, DOMAIN ings)
  <1>1. c \in Collected /\ BlanksReported(c, P, ings) /\ DeclarersBlamed(c)
    BY CollectGives DEF CollectedFrom
  <1>2. \A s \in DOMAIN ings : s \in Source /\ \A e \in DOMAIN ings[s].tls : e \in Nat
    BY EntryType DEF Selection
  <1>3. \A s, e : <<s, e>> \in P <=> s \in DOMAIN ings /\ e \in Nat /\ e \in DOMAIN ings[s].tls
    BY DEF EntriesOf
  <1>4. \A h \in Host : c.declaredBy[h] = DeclarersOf(ings, h)
    BY CollectSummary
  <1> HIDE DEF c, P
  <1>5. \A s \in Source : [source |-> s, host |-> NoHost] \in c.issues
                          <=> s \in DOMAIN ings /\ \E e \in DOMAIN ings[s].tls : Blank(ings[s], e)
    BY <1>1, <1>2, <1>3 DEF BlanksReported
  <1>6. \A h \in Host : \A s : [source |-> s, host |-> h] \in c.issues => s \in DeclarersOf(ings, h)
    BY <1>1, <1>4 DEF DeclarersBlamed
  <1> QED
    BY <1>1, <1>5, <1>6 DEF c

(***************************************************************************)
(* What is collected about one hostname comes from those who declare it,   *)
(* and from nobody else.                                                   *)
(***************************************************************************)
Seen(acc, h) ==
    [owner  |-> acc.owner[h],
     blamed |-> {s \in Source \cup {0} : [source |-> s, host |-> h] \in acc.issues}]

\* One more declaration, by s with the Secret k.
SeenNext(v, s, k) ==
    IF v.owner.secret \in {NoSecret, k}
    THEN [owner |-> [secret |-> k, source |-> s], blamed |-> v.blamed]
    ELSE [owner |-> v.owner, blamed |-> v.blamed \cup {s, v.owner.source}]

\* What is read of those who declare a hostname.
Only(ings, h) == [s \in DeclarersOf(ings, h) |-> [tls |-> ings[s].tls, rules |-> ings[s].rules]]

\* Of an Ingress only its TLS entries and the hosts of its rules are read.
LEMMA CollectIngressReads ==
  ASSUME NEW acc, NEW s, NEW x, NEW y, x.tls = y.tls, x.rules = y.rules
  PROVE  CollectIngress(acc, s, x) = CollectIngress(acc, s, y)
  <1> DEFINE Of(tls, rules) ==
                FoldLeft(LAMBDA a, entry : Declare(a, s, entry.secret,
                            (IF entry.hosts # {} THEN entry.hosts ELSE rules) \ {NoHost}), acc, tls)
  <1>1. CollectIngress(acc, s, x) = Of(x.tls, x.rules) /\ CollectIngress(acc, s, y) = Of(y.tls, y.rules)
    BY DEF CollectIngress, EffectiveTLSHosts
  <1> HIDE DEF Of
  <1> QED
    BY <1>1

\* An entry changes what is collected about the hostnames it declares.
LEMMA DeclareSeen ==
  ASSUME NEW acc \in Collected, NEW s \in Source, NEW k \in Secret \cup {NoSecret},
         NEW H \in SUBSET Host, NEW h \in Host
  PROVE  Seen(Declare(acc, s, k, H), h)
           = IF k # NoSecret /\ h \in H THEN SeenNext(Seen(acc, h), s, k) ELSE Seen(acc, h)
  <1> DEFINE conflicts == {g \in H : acc.owner[g].secret \notin {NoSecret, k}}
             lost == UNION {[source : {s, acc.owner[g].source}, host : {g}] : g \in conflicts}
             new == Declare(acc, s, k, H)
             issue(t) == [source |-> t, host |-> h]
  <1>1. h # NoHost
    BY HostAssumption DEF NoHost
  <1>2. CASE k = NoSecret \/ H = {}
    <2>1. new = [acc EXCEPT !.issues = @ \cup {[source |-> s, host |-> NoHost]}]
      BY <1>2 DEF Declare
    <2>2. new.owner = acc.owner /\ new.issues = acc.issues \cup {[source |-> s, host |-> NoHost]}
      BY <2>1 DEF Collected
    <2>3. \A t : issue(t) \in new.issues <=> issue(t) \in acc.issues
      <3>1. \A t : issue(t) # [source |-> s, host |-> NoHost]
        BY <1>1
      <3> HIDE DEF issue, new
      <3> QED
        BY <2>2, <3>1
    <2> HIDE DEF new
    <2>4. Seen(new, h) = Seen(acc, h)
      BY <2>2, <2>3 DEF Seen
    <2> QED
      BY <1>2, <2>4 DEF new
  <1>3. CASE ~(k = NoSecret \/ H = {})
    <2>1. /\ new.owner[h] = IF h \in H \ conflicts THEN [secret |-> k, source |-> s] ELSE acc.owner[h]
          /\ new.issues = acc.issues \cup lost
      BY <1>3 DEF Declare
    <2>2. \A t : issue(t) \in lost <=> h \in conflicts /\ t \in {s, acc.owner[h].source}
      <3>1. \A t : h \in conflicts /\ t \in {s, acc.owner[h].source}
                   => issue(t) \in [source : {s, acc.owner[h].source}, host : {h}]
        OBVIOUS
      <3>2. ASSUME NEW t, NEW g \in conflicts, issue(t) \in [source : {s, acc.owner[g].source}, host : {g}]
            PROVE  h = g /\ t \in {s, acc.owner[g].source}
        BY <3>2
      <3> HIDE DEF conflicts, issue
      <3> QED
        BY <3>1, <3>2
    <2>3. acc.owner[h].source \in Source \cup {0}
      BY DEF Collected
    <2>4. h \in conflicts <=> h \in H /\ acc.owner[h].secret \notin {NoSecret, k}
      OBVIOUS
    <2>5. /\ Seen(acc, h).owner = acc.owner[h]
          /\ \A t \in Source \cup {0} : t \in Seen(acc, h).blamed <=> issue(t) \in acc.issues
          /\ Seen(acc, h).blamed \subseteq Source \cup {0}
      BY DEF Seen
    <2>6. Seen(new, h) = [owner |-> new.owner[h], blamed |-> {t \in Source \cup {0} : issue(t) \in new.issues}]
      BY DEF Seen
    <2> HIDE DEF new, lost, issue, conflicts
    <2>7. CASE h \in conflicts
      <3>1. {t \in Source \cup {0} : issue(t) \in new.issues} = Seen(acc, h).blamed \cup {s, acc.owner[h].source}
        BY <2>1, <2>2, <2>3, <2>5, <2>7
      <3>2. new.owner[h] = acc.owner[h]
        BY <2>1, <2>7
      <3> QED
        BY <1>3, <2>4, <2>5, <2>6, <2>7, <3>1, <3>2 DEF SeenNext, new
    <2>8. CASE h \notin conflicts
      <3>1. {t \in Source \cup {0} : issue(t) \in new.issues} = Seen(acc, h).blamed
        BY <2>1, <2>2, <2>5, <2>8
      <3>2. Seen(acc, h) = [owner |-> acc.owner[h], blamed |-> Seen(acc, h).blamed]
        BY DEF Seen
      <3>3. CASE h \in H
        BY <1>3, <2>1, <2>4, <2>5, <2>6, <2>8, <3>1, <3>3 DEF SeenNext, new
      <3>4. CASE h \notin H
        BY <2>1, <2>6, <3>1, <3>2, <3>4 DEF new
      <3> QED
        BY <3>3, <3>4
    <2> QED
      BY <2>7, <2>8
  <1> QED
    BY <1>2, <1>3

\* So do the entries of an Ingress.
LEMMA CollectIngressSeen ==
  ASSUME NEW ings, Selection(ings), NEW s \in DOMAIN ings, NEW h \in Host,
         NEW a \in Collected, NEW b \in Collected
  PROVE  /\ CollectIngress(a, s, ings[s]) \in Collected
         /\ Seen(a, h) = Seen(b, h)
               => Seen(CollectIngress(a, s, ings[s]), h) = Seen(CollectIngress(b, s, ings[s]), h)
         /\ s \notin DeclarersOf(ings, h) => Seen(CollectIngress(a, s, ings[s]), h) = Seen(a, h)
  <1> DEFINE D == DOMAIN ings[s].tls
             K(e) == ings[s].tls[e].secret
             H(e) == EffectiveTLSHosts(ings[s], ings[s].tls[e])
             next(v, e) == IF K(e) # NoSecret /\ h \in H(e) THEN SeenNext(v, s, K(e)) ELSE v
  <1>1. IsFiniteSet(D) /\ D \subseteq Nat
    BY EntriesFinite
  <1>2. \A e \in D : s \in Source /\ K(e) \in Secret \cup {NoSecret} /\ H(e) \in SUBSET Host
    BY EntryType
  <1>3. PICK f : UnfoldsIngress(f, a, s, ings[s])
    BY CollectIngressUnfolds
  <1>4. PICK g : UnfoldsIngress(g, b, s, ings[s])
    BY CollectIngressUnfolds
  <1>5. /\ f \in [SUBSET D -> Collected] /\ g \in [SUBSET D -> Collected]
        /\ CollectIngress(a, s, ings[s]) = f[D] /\ CollectIngress(b, s, ings[s]) = g[D]
        /\ f[{}] = a /\ g[{}] = b
        /\ \A T \in SUBSET D : T # {} =>
              /\ f[T] = Declare(f[T \ {Max(T)}], s, K(Max(T)), H(Max(T)))
              /\ g[T] = Declare(g[T \ {Max(T)}], s, K(Max(T)), H(Max(T)))
    BY <1>3, <1>4 DEF UnfoldsIngress
  <1>6. \A e \in D : K(e) # NoSecret /\ h \in H(e) <=> Declares(ings[s], e, h)
    BY DEF Declares
  <1>7. ASSUME NEW T \in SUBSET D, T # {}
        PROVE  /\ Max(T) \in D
               /\ Seen(f[T], h) = next(Seen(f[T \ {Max(T)}], h), Max(T))
               /\ Seen(g[T], h) = next(Seen(g[T \ {Max(T)}], h), Max(T))
    <2>1. Max(T) \in D
      BY <1>1, <1>7, MaxOfNaturals, FS_Subset
    <2> DEFINE m == Max(T)
               R == T \ {m}
    <2>2. f[R] \in Collected /\ g[R] \in Collected
      BY <1>5
    <2>3. f[T] = Declare(f[R], s, K(m), H(m)) /\ g[T] = Declare(g[R], s, K(m), H(m))
      BY <1>5, <1>7
    <2>4. s \in Source /\ K(m) \in Secret \cup {NoSecret} /\ H(m) \in SUBSET Host
      BY <1>2, <2>1
    <2> HIDE DEF K, H, m, R, D
    <2>5. ASSUME NEW x \in Collected
          PROVE  Seen(Declare(x, s, K(m), H(m)), h) = next(Seen(x, h), m)
      BY <2>4, DeclareSeen
    <2>6. /\ Seen(Declare(f[R], s, K(m), H(m)), h) = next(Seen(f[R], h), m)
          /\ Seen(Declare(g[R], s, K(m), H(m)), h) = next(Seen(g[R], h), m)
      BY <2>2, <2>5
    <2> QED
      BY <2>1, <2>3, <2>6 DEF m, R
  <1> DEFINE Same == {T \in SUBSET D : Seen(f[T], h) = Seen(g[T], h)}
             Stays == {T \in SUBSET D : Seen(f[T], h) = Seen(a, h)}
  <1> HIDE DEF K, H
  <1>8. ASSUME Seen(a, h) = Seen(b, h)
        PROVE  D \in Same
    <2>1. {} \in Same
      BY <1>5, <1>8
    <2>2. \A T \in SUBSET D : T # {} /\ T \ {Max(T)} \in Same => T \in Same
      BY <1>7
    <2> HIDE DEF Same, D
    <2> QED
      BY <1>1, <2>1, <2>2, AscendingInduction
  <1>9. ASSUME s \notin DeclarersOf(ings, h)
        PROVE  D \in Stays
    <2>1. {} \in Stays
      BY <1>5
    <2>2. \A e \in D : ~(K(e) # NoSecret /\ h \in H(e))
      BY <1>6, <1>9 DEF DeclarersOf
    <2>3. \A T \in SUBSET D : T # {} /\ T \ {Max(T)} \in Stays => T \in Stays
      BY <1>7, <2>2
    <2> HIDE DEF Stays, D
    <2> QED
      BY <1>1, <2>1, <2>3, AscendingInduction
  <1>10. f[D] \in Collected
    BY <1>5
  <1> QED
    BY <1>5, <1>8, <1>9, <1>10

\* The Ingresses that do not declare a hostname do not matter to it.
LEMMA OnlyDeclarersCount ==
  ASSUME NEW ings, Selection(ings), NEW h \in Host
  PROVE  Selection(Only(ings, h)) /\ Seen(Collect(ings), h) = Seen(Collect(Only(ings, h)), h)
  <1> DEFINE D == DOMAIN ings
             K == DeclarersOf(ings, h)
             only == Only(ings, h)
  <1>1. /\ K \subseteq D /\ DOMAIN only = K
        /\ \A s \in K : only[s].tls = ings[s].tls /\ only[s].rules = ings[s].rules
    BY DEF DeclarersOf, Only
  <1>2. Selection(only)
    BY <1>1 DEF Selection, IsBody
  <1>3. IsFiniteSet(D) /\ D \subseteq Nat
    BY SecretAssumption, FS_Subset DEF Selection
  <1> HIDE DEF only, K
  <1>4. PICK f : UnfoldsIngresses(f, ings)
    BY CollectUnfolds
  <1>5. PICK g : UnfoldsIngresses(g, only)
    BY <1>2, CollectUnfolds
  <1>6. /\ f \in [SUBSET D -> Collected] /\ g \in [SUBSET K -> Collected]
        /\ Collect(ings) = f[D] /\ Collect(only) = g[K]
        /\ f[{}] = NothingDeclared /\ g[{}] = NothingDeclared
        /\ \A T \in SUBSET D : T # {} => f[T] = CollectIngress(f[T \ {Max(T)}], Max(T), ings[Max(T)])
        /\ \A T \in SUBSET K : T # {} => g[T] = CollectIngress(g[T \ {Max(T)}], Max(T), only[Max(T)])
    BY <1>1, <1>4, <1>5 DEF UnfoldsIngresses
  <1> DEFINE Good == {T \in SUBSET D : Seen(f[T], h) = Seen(g[T \cap K], h)}
  <1>7. {} \in Good
    BY <1>6
  <1>8. ASSUME NEW T \in SUBSET D, T # {} /\ T \ {Max(T)} \in Good
        PROVE  T \in Good
    <2> DEFINE m == Max(T)
               R == T \ {m}
    <2>1. m \in T /\ m \in D /\ \A x \in T : x <= m
      BY <1>3, <1>8, MaxOfNaturals, FS_Subset
    <2>2. Seen(f[R], h) = Seen(g[R \cap K], h)
      BY <1>8
    <2>3. f[R] \in Collected /\ g[R \cap K] \in Collected
      BY <1>6
    <2>4. f[T] = CollectIngress(f[R], m, ings[m])
      BY <1>6, <1>8
    <2>5. CASE m \notin K
      <3>1. T \cap K = R \cap K
        BY <2>5
      <3> HIDE DEF m, R
      <3>2. Seen(CollectIngress(f[R], m, ings[m]), h) = Seen(f[R], h)
        BY <2>1, <2>3, <2>5, CollectIngressSeen DEF K
      <3> QED
        BY <2>2, <2>4, <3>1, <3>2
    <2>6. CASE m \in K
      <3> DEFINE U == T \cap K
      <3>1. U \in SUBSET K /\ U # {} /\ U \ {m} = R \cap K
        BY <2>1, <2>6
      <3>2. Max(U) = m
        <4>1. U \subseteq Nat /\ IsFiniteSet(U)
          BY <1>3, FS_Subset
        <4>2. Max(U) \in U /\ m <= Max(U)
          BY <2>1, <2>6, <3>1, <4>1, MaxOfNaturals
        <4>3. Max(U) <= m /\ Max(U) \in Nat /\ m \in Nat
          BY <1>3, <2>1, <4>2
        <4> HIDE DEF U, m
        <4> QED
          BY <4>2, <4>3
      <3> HIDE DEF U
      <3>3. g[U] = CollectIngress(g[U \ {m}], m, only[m])
        BY <1>6, <3>1, <3>2
      <3>4. g[U] = CollectIngress(g[R \cap K], m, ings[m])
        <4>1. only[m].tls = ings[m].tls /\ only[m].rules = ings[m].rules
          BY <1>1, <2>6
        <4>2. CollectIngress(g[R \cap K], m, only[m]) = CollectIngress(g[R \cap K], m, ings[m])
          BY <4>1, CollectIngressReads
        <4> QED
          BY <3>1, <3>3, <4>2
      <3> HIDE DEF m, R
      <3>5. Seen(CollectIngress(f[R], m, ings[m]), h) = Seen(CollectIngress(g[R \cap K], m, ings[m]), h)
        BY <2>1, <2>2, <2>3, CollectIngressSeen
      <3> QED
        BY <2>4, <3>4, <3>5 DEF U
    <2> QED
      BY <2>5, <2>6
  <1>9. D \in Good
    <2> HIDE DEF Good, D
    <2> QED
      BY <1>3, <1>7, <1>8, AscendingInduction
  <1>10. D \cap K = K
    BY <1>1
  <1> QED
    BY <1>2, <1>6, <1>9, <1>10 DEF only

-----------------------------------------------------------------------------
(***************************************************************************)
(* Collapsing.  One listener serves each declared hostname: ListenerOf.    *)
(***************************************************************************)
Inputs(secretOf, certificates, current) ==
    /\ secretOf \in [Host -> Secret \cup {NoSecret}]
    /\ certificates \in [Secret -> CertificateInfo]
    /\ current \in [Host -> Placement]

Declared(secretOf) == {h \in Host : secretOf[h] # NoSecret}

ClaimsOf(t, secretOf, certificates) == {h \in Declared(secretOf) : Target(h, secretOf, certificates) = t}

WinnerOf(t, secretOf, certificates, current) ==
    Winner(t, ClaimsOf(t, secretOf, certificates), secretOf, certificates, current)

Canonical(t, secretOf, certificates, current) ==
    LET secrets == SecretsOf(WinnerOf(t, secretOf, certificates, current), secretOf)
    IN  IF current[t].secret \in secrets THEN current[t].secret ELSE Min(secrets)

Collapsed(h, secretOf, certificates, current) ==
    LET t == Target(h, secretOf, certificates)
    IN  t \in Wildcard /\ h \in WinnerOf(t, secretOf, certificates, current)

WildcardListener(t, secretOf, certificates, current) ==
    [hostname |-> t,
     secret   |-> Canonical(t, secretOf, certificates, current),
     hosts    |-> WinnerOf(t, secretOf, certificates, current)]

ListenerOf(h, secretOf, certificates, current) ==
    IF Collapsed(h, secretOf, certificates, current)
    THEN WildcardListener(Target(h, secretOf, certificates), secretOf, certificates, current)
    ELSE ExactListener(h, secretOf)

\* A hostname claims its own listener or that of its wildcard.
LEMMA TargetIs ==
  ASSUME NEW so, NEW ce, NEW cu, Inputs(so, ce, cu), NEW h \in Declared(so)
  PROVE  LET t == Target(h, so, ce) IN
         /\ t \in Host
         /\ t = h \/ (h \notin Wildcard /\ t = WildcardOf[h] /\ t \in Wildcard)
  <1>1. h \in Host /\ so[h] \in Secret
    BY DEF Declared, Inputs
  <1>2. ce[so[h]].wildcards \subseteq Wildcard
    BY <1>1 DEF Inputs, CertificateInfo
  <1> QED
    BY <1>1, <1>2, HostAssumption DEF Target, CoveringWildcard, NoHost

\* The claims of one class, and how many change listener when they win.
LEMMA ChurnType ==
  ASSUME NEW claims, claims \subseteq Host, NEW m, NEW w, NEW cu
  PROVE  Churn(m, w, claims, cu) \in Nat
  <1>1. {h \in claims : Previous(h, w, cu) \notin {NoHost, IF h \in m THEN w ELSE h}} \subseteq Host
    OBVIOUS
  <1> QED
    BY <1>1, HostAssumption, FS_Subset, FS_CardinalityType DEF Churn

(***************************************************************************)
(* The order that picks the winner is total: two classes share no Secret,  *)
(* so the first Secret breaks every tie.                                   *)
(***************************************************************************)
LEMMA WinnerIsClass ==
  ASSUME NEW so, NEW ce, NEW cu, Inputs(so, ce, cu),
         NEW w, NEW claims, claims \subseteq Declared(so), claims # {}
  PROVE  LET W == Winner(w, claims, so, ce, cu) IN
         /\ \E g \in W : W = Members(ClassOf(so[g], ce), claims, so, ce)
         /\ W \subseteq claims
         /\ w \in claims => w \in W
  <1> DEFINE M(h) == Members(ClassOf(so[h], ce), claims, so, ce)
             classes == {M(h) : h \in claims}
             C(h) == Churn(M(h), w, claims, cu)
             N(h) == Cardinality(M(h))
             F(h) == Min(SecretsOf(M(h), so))
             R == {p \in claims \X claims :
                     M(p[1]) = M(p[2]) \/ Better(M(p[1]), M(p[2]), w, claims, so, cu)}
             W == Winner(w, claims, so, ce, cu)
  <1>1. \A h \in claims : h \in M(h) /\ M(h) \subseteq claims
    BY DEF Members
  <1>2. claims \subseteq Host /\ \A h \in claims : so[h] \in Secret /\ so[h] \in Nat
    BY SecretAssumption DEF Declared, Inputs
  <1>3. IsFiniteSet(claims)
    BY <1>2, HostAssumption, FS_Subset
  <1>4. \E m \in classes : \A n \in classes \ {m} : Better(m, n, w, claims, so, cu)
    <2>1. ASSUME NEW h \in claims
          PROVE  C(h) \in Nat /\ N(h) \in Nat /\ F(h) \in Nat /\ \E x \in M(h) : F(h) = so[x]
      <3>1. C(h) \in Nat
        BY <1>2, ChurnType
      <3>2. N(h) \in Nat
        BY <1>1, <1>3, FS_Subset, FS_CardinalityType
      <3>3. SecretsOf(M(h), so) \subseteq Nat /\ SecretsOf(M(h), so) # {}
        BY <1>1, <1>2 DEF SecretsOf
      <3>4. F(h) \in SecretsOf(M(h), so)
        <4> HIDE DEF M
        <4> QED
          BY <3>3, MinOfNaturals
      <3> QED
        BY <3>1, <3>2, <3>3, <3>4 DEF SecretsOf
    <2>2. \A g, h \in claims : Better(M(g), M(h), w, claims, so, cu)
             <=> \/ C(g) < C(h)
                 \/ C(g) = C(h) /\ N(g) > N(h)
                 \/ C(g) = C(h) /\ N(g) = N(h) /\ F(g) < F(h)
      BY DEF Better
    <2>3. ASSUME NEW g \in claims, NEW h \in claims, F(g) = F(h)
          PROVE  M(g) = M(h)
      <3>1. PICK x \in M(g), y \in M(h) : so[x] = so[y]
        BY <2>1, <2>3
      <3>2. ClassOf(so[g], ce) = ClassOf(so[x], ce) /\ ClassOf(so[h], ce) = ClassOf(so[y], ce)
        BY <3>1 DEF Members
      <3> QED
        BY <3>1, <3>2
    <2>4. \A g, h \in claims : M(g) = M(h) => C(g) = C(h) /\ N(g) = N(h) /\ F(g) = F(h)
      OBVIOUS
    <2>5. \A g, h : <<g, h>> \in R <=> g \in claims /\ h \in claims
                                       /\ (M(g) = M(h) \/ Better(M(g), M(h), w, claims, so, cu))
      OBVIOUS
    <2> HIDE DEF C, N, F, R, M
    <2>6. ASSUME NEW g \in claims, NEW h \in claims
          PROVE  <<g, h>> \in R <=> \/ C(g) < C(h)
                                    \/ C(g) = C(h) /\ N(g) > N(h)
                                    \/ C(g) = C(h) /\ N(g) = N(h) /\ F(g) <= F(h)
      BY <2>1, <2>2, <2>3, <2>4, <2>5
    <2>7. ASSUME NEW g \in claims, NEW h \in claims
          PROVE  <<g, h>> \in R \/ <<h, g>> \in R
      BY <2>1, <2>6
    <2>8. ASSUME NEW g \in claims, NEW h \in claims, NEW i \in claims, <<g, h>> \in R, <<h, i>> \in R
          PROVE  <<g, i>> \in R
      BY <2>1, <2>6, <2>8
    <2>9. PICK b \in claims : \A h \in claims : <<b, h>> \in R
      BY <1>3, <2>7, <2>8, BestExists
    <2>10. \A n \in classes \ {M(b)} : Better(M(b), n, w, claims, so, cu)
      BY <2>5, <2>9
    <2> QED
      BY <2>10
  <1>5. W \in classes /\ (w \in claims => w \in W)
    <2>1. CASE w \in claims
      <3>1. W = M(w)
        BY <2>1 DEF Winner
      <3> QED
        BY <1>1, <2>1, <3>1
    <2>2. CASE w \notin claims
      <3>1. W = CHOOSE m \in classes : \A n \in classes \ {m} : Better(m, n, w, claims, so, cu)
        BY <2>2 DEF Winner
      <3> HIDE DEF W, classes
      <3> QED
        BY <1>4, <2>2, <3>1
    <2> QED
      BY <2>1, <2>2
  <1>6. PICK g \in claims : W = M(g)
    BY <1>5
  <1> QED
    BY <1>1, <1>5, <1>6

\* The hostnames of a wildcard's winner.
LEMMA WinnerOfIs ==
  ASSUME NEW so, NEW ce, NEW cu, Inputs(so, ce, cu),
         NEW t, ClaimsOf(t, so, ce) # {}
  PROVE  LET W == WinnerOf(t, so, ce, cu) IN
         /\ W # {} /\ W \subseteq ClaimsOf(t, so, ce)
         /\ \A g, h \in W : ClassOf(so[g], ce) = ClassOf(so[h], ce)
         /\ t \in ClaimsOf(t, so, ce) => t \in W
         /\ Canonical(t, so, ce, cu) \in SecretsOf(W, so)
  <1> DEFINE W == WinnerOf(t, so, ce, cu)
             claims == ClaimsOf(t, so, ce)
  <1>1. claims \subseteq Declared(so)
    BY DEF ClaimsOf
  <1>2. PICK g \in W : W = Members(ClassOf(so[g], ce), claims, so, ce)
    <2> HIDE DEF claims
    <2> QED
      BY <1>1, WinnerIsClass DEF WinnerOf, claims
  <1>3. W \subseteq claims /\ (t \in claims => t \in W)
    BY <1>1, WinnerIsClass DEF WinnerOf
  <1>4. \A h \in W : ClassOf(so[h], ce) = ClassOf(so[g], ce)
    BY <1>2 DEF Members
  <1>5. SecretsOf(W, so) \subseteq Nat /\ SecretsOf(W, so) # {}
    <2>1. \A h \in Declared(so) : so[h] \in Nat
      BY SecretAssumption DEF Declared, Inputs
    <2> HIDE DEF W, claims
    <2> QED
      BY <1>1, <1>2, <1>3, <2>1 DEF SecretsOf
  <1>6. Canonical(t, so, ce, cu) \in SecretsOf(W, so)
    BY <1>5, MinOfNaturals DEF Canonical
  <1> QED
    BY <1>2, <1>3, <1>4, <1>6

\* The projected listeners are those that serve the declared hostnames.
LEMMA ProjectedIs ==
  ASSUME NEW so, NEW ce, NEW cu, Inputs(so, ce, cu)
  PROVE  Projected(so, ce, cu) = {ListenerOf(h, so, ce, cu) : h \in Declared(so)}
  <1> DEFINE T(h) == Target(h, so, ce)
             W(t) == WinnerOf(t, so, ce, cu)
             group(t) == IF t \in Wildcard THEN WildcardGroup(t, ClaimsOf(t, so, ce), so, ce, cu)
                         ELSE {ExactListener(t, so)}
             L(h) == ListenerOf(h, so, ce, cu)
  <1>1. Projected(so, ce, cu) = UNION {group(T(h)) : h \in Declared(so)}
    BY DEF Projected, Declared, ClaimsOf
  <1>2. \A t \in Wildcard : group(t) = {WildcardListener(t, so, ce, cu)}
                                       \cup {ExactListener(h, so) : h \in ClaimsOf(t, so, ce) \ W(t)}
    BY DEF WildcardGroup, WildcardListener, Canonical, WinnerOf
  <1>3. ASSUME NEW h \in Declared(so)
        PROVE  L(h) \in group(T(h))
    <2>1. T(h) \notin Wildcard => T(h) = h
      BY TargetIs
    <2>2. CASE T(h) \notin Wildcard
      BY <2>1, <2>2 DEF ListenerOf, Collapsed
    <2>3. CASE T(h) \in Wildcard /\ h \in W(T(h))
      <3>1. L(h) = WildcardListener(T(h), so, ce, cu)
        BY <2>3 DEF ListenerOf, Collapsed
      <3> HIDE DEF group, L
      <3> QED
        BY <1>2, <2>3, <3>1
    <2>4. CASE T(h) \in Wildcard /\ h \notin W(T(h))
      <3>1. L(h) = ExactListener(h, so)
        BY <2>4 DEF ListenerOf, Collapsed
      <3>2. h \in ClaimsOf(T(h), so, ce) \ W(T(h))
        BY <2>4 DEF ClaimsOf
      <3> HIDE DEF group, L, T
      <3> QED
        BY <1>2, <2>4, <3>1, <3>2
    <2> QED
      BY <2>2, <2>3, <2>4
  <1>4. ASSUME NEW g \in Declared(so), NEW l \in group(T(g))
        PROVE  \E h \in Declared(so) : l = L(h)
    <2> DEFINE t == T(g)
    <2>1. g \in ClaimsOf(t, so, ce)
      BY DEF ClaimsOf
    <2>2. CASE t \notin Wildcard
      <3>1. t = g
        BY <2>2, TargetIs
      <3>2. l = ExactListener(g, so)
        BY <2>2, <3>1
      <3>3. L(g) = ExactListener(g, so)
        BY <2>2 DEF ListenerOf, Collapsed
      <3> QED
        BY <3>2, <3>3
    <2>3. CASE t \in Wildcard /\ l = WildcardListener(t, so, ce, cu)
      <3>1. PICK h \in W(t) : h \in ClaimsOf(t, so, ce)
        BY <2>1, WinnerOfIs
      <3>2. h \in Declared(so) /\ T(h) = t
        BY <3>1 DEF ClaimsOf
      <3>3. L(h) = l
        BY <2>3, <3>1, <3>2 DEF ListenerOf, Collapsed
      <3> QED
        BY <3>2, <3>3
    <2>4. ASSUME t \in Wildcard, NEW h \in ClaimsOf(t, so, ce) \ W(t), l = ExactListener(h, so)
          PROVE  \E d \in Declared(so) : l = L(d)
      <3>1. h \in Declared(so) /\ T(h) = t
        BY <2>4 DEF ClaimsOf
      <3>2. L(h) = l
        BY <2>4, <3>1 DEF ListenerOf, Collapsed
      <3> QED
        BY <3>1, <3>2
    <2>5. t \in Wildcard => l = WildcardListener(t, so, ce, cu)
                            \/ \E h \in ClaimsOf(t, so, ce) \ W(t) : l = ExactListener(h, so)
      <3> HIDE DEF group
      <3> QED
        BY <1>2
    <2> QED
      BY <2>2, <2>3, <2>4, <2>5
  <1> HIDE DEF group, L
  <1> QED
    BY <1>1, <1>3, <1>4 DEF L

(***************************************************************************)
(* Each declared hostname is served by one listener, of its own name or    *)
(* its wildcard's, under a certificate of its own class; and no two        *)
(* listeners have one name.                                                *)
(***************************************************************************)
LEMMA ListenerOfIs ==
  ASSUME NEW so, NEW ce, NEW cu, Inputs(so, ce, cu), NEW h \in Declared(so)
  PROVE  LET l == ListenerOf(h, so, ce, cu) IN
         /\ l.hostname \in Host /\ l.secret \in Secret
         /\ h \in l.hosts /\ l.hosts \subseteq Declared(so)
         /\ l.hostname = h \/ (h \notin Wildcard /\ l.hostname = WildcardOf[h] /\ l.hostname \in Wildcard)
         /\ ClassOf(so[h], ce) = ClassOf(l.secret, ce)
         /\ \A g \in l.hosts : ListenerOf(g, so, ce, cu) = l
         /\ l.hostname \in Declared(so) => l.hostname \in l.hosts
  <1> DEFINE t == Target(h, so, ce)
             l == ListenerOf(h, so, ce, cu)
             W == WinnerOf(t, so, ce, cu)
  <1>1. h \in Host /\ so[h] \in Secret
    BY DEF Declared, Inputs
  <1>2. t \in Host /\ (t = h \/ (h \notin Wildcard /\ t = WildcardOf[h] /\ t \in Wildcard))
    BY TargetIs
  <1>3. h \in ClaimsOf(t, so, ce)
    BY DEF ClaimsOf
  <1>4. CASE Collapsed(h, so, ce, cu)
    <2>1. t \in Wildcard /\ h \in W
      BY <1>4 DEF Collapsed
    <2>2. l.hostname = t /\ l.secret = Canonical(t, so, ce, cu) /\ l.hosts = W
      BY <1>4 DEF ListenerOf, WildcardListener
    <2>3. W \subseteq ClaimsOf(t, so, ce) /\ (t \in ClaimsOf(t, so, ce) => t \in W)
      BY <1>3, WinnerOfIs
    <2>4. PICK g \in W : Canonical(t, so, ce, cu) = so[g]
      BY <1>3, WinnerOfIs DEF SecretsOf
    <2>5. ClassOf(so[h], ce) = ClassOf(so[g], ce)
      BY <1>3, <2>1, WinnerOfIs
    <2>6. g \in Declared(so) /\ so[g] \in Secret
      BY <2>3 DEF ClaimsOf, Declared, Inputs
    <2>7. ASSUME NEW x \in W
          PROVE  ListenerOf(x, so, ce, cu) = l
      <3>1. Target(x, so, ce) = t
        BY <2>3 DEF ClaimsOf
      <3>2. Collapsed(x, so, ce, cu)
        BY <2>1, <3>1 DEF Collapsed
      <3> QED
        BY <1>4, <3>1, <3>2 DEF ListenerOf
    <2>8. t \in Declared(so) => t \in ClaimsOf(t, so, ce)
      BY <2>1 DEF ClaimsOf, Target, CoveringWildcard
    <2>9. W \subseteq Declared(so)
      BY <2>3 DEF ClaimsOf
    <2> HIDE DEF l, t, W
    <2> QED
      BY <1>2, <2>1, <2>2, <2>3, <2>4, <2>5, <2>6, <2>7, <2>8, <2>9 DEF l, t, W
  <1>5. CASE ~Collapsed(h, so, ce, cu)
    <2>1. l.hostname = h /\ l.secret = so[h] /\ l.hosts = {h}
      BY <1>5 DEF ListenerOf, ExactListener
    <2> HIDE DEF l
    <2> QED
      BY <1>1, <2>1 DEF l
  <1> QED
    BY <1>4, <1>5

\* Two listeners of one name are one listener.
LEMMA OneName ==
  ASSUME NEW so, NEW ce, NEW cu, Inputs(so, ce, cu), NEW g \in Declared(so), NEW h \in Declared(so),
         ListenerOf(g, so, ce, cu).hostname = ListenerOf(h, so, ce, cu).hostname
  PROVE  ListenerOf(g, so, ce, cu) = ListenerOf(h, so, ce, cu)
  <1> DEFINE L(x) == ListenerOf(x, so, ce, cu)
             T(x) == Target(x, so, ce)
             C(x) == Collapsed(x, so, ce, cu)
  <1>1. \A x \in Declared(so) : L(x).hostname = IF C(x) THEN T(x) ELSE x
    BY DEF ListenerOf, WildcardListener, ExactListener
  <1>2. \A x \in Declared(so) : x \in Wildcard => T(x) = x
    BY DEF Target, CoveringWildcard
  <1>3. \A x \in Declared(so) : x \in Wildcard => C(x)
    <2> SUFFICES ASSUME NEW x \in Declared(so), x \in Wildcard PROVE C(x)
      OBVIOUS
    <2>1. T(x) = x /\ x \in ClaimsOf(x, so, ce)
      BY <1>2 DEF ClaimsOf
    <2> QED
      BY <2>1, WinnerOfIs DEF Collapsed
  <1>4. \A x \in Declared(so) : C(x) => T(x) \in Wildcard
    BY DEF Collapsed
  <1>5. \A x, y \in Declared(so) : C(x) /\ C(y) /\ T(x) = T(y) => L(x) = L(y)
    BY DEF ListenerOf
  <1> HIDE DEF L, T, C
  <1>6. L(g).hostname = L(h).hostname
    BY DEF L
  <1>7. CASE C(g) /\ C(h)
    BY <1>1, <1>5, <1>6, <1>7 DEF L
  <1>8. CASE ~C(g) /\ ~C(h)
    BY <1>1, <1>6, <1>8 DEF L
  <1>9. CASE C(g) /\ ~C(h)
    BY <1>1, <1>3, <1>4, <1>6, <1>9
  <1>10. CASE ~C(g) /\ C(h)
    BY <1>1, <1>3, <1>4, <1>6, <1>10
  <1> QED
    BY <1>7, <1>8, <1>9, <1>10

-----------------------------------------------------------------------------
(***************************************************************************)
(* Placing the listeners.                                                  *)
(***************************************************************************)
Places ==
    [placed : [Host -> Parent \cup {Nowhere}], counts : [Parent -> Nat], left : SUBSET Host]

At(placed, i) == {h \in Host : placed[h] = i}

\* The listeners are shared out between those a pass has yet to look at, those
\* it leaves and those that are placed; counts[i] is the number of those on i.
Shared(acc, todo, listeners, ov) ==
    /\ acc \in Places
    /\ listeners = todo \cup acc.left \cup {h \in Host : acc.placed[h] # Nowhere}
    /\ todo \cap acc.left = {}
    /\ \A h \in todo \cup acc.left : acc.placed[h] = Nowhere
    /\ \A i \in Parent : /\ acc.counts[i] = Cardinality(At(acc.placed, i))
                         /\ acc.counts[i] <= Capacity(i)
                         /\ acc.counts[i] > 0 => Usable(i, ov)

Closed(acc, i, ov) == Usable(i, ov) => acc.counts[i] >= Capacity(i)

\* What a pass has made of `old`: nobody moves, whoever is placed is on the
\* first of its choices that was open, whoever is left has no choice open.
Advances(old, acc, choices, ov) ==
    /\ \A h \in Host : old.placed[h] # Nowhere => acc.placed[h] = old.placed[h]
    /\ \A h \in Host : old.placed[h] = Nowhere /\ acc.placed[h] # Nowhere =>
          /\ acc.placed[h] \in choices[h]
          /\ \A j \in choices[h] : j < acc.placed[h] => Closed(acc, j, ov)
    /\ \A h \in acc.left : \A j \in choices[h] : Closed(acc, j, ov)

\* A capacity is a natural number.
LEMMA CapacityIsNat == \A i \in Parent : Capacity(i) \in Nat
  BY CapacityAssumption DEF Capacity, Parent, GatewayParent

\* The listeners of one parent can be counted.
LEMMA AtFinite == \A placed, i : IsFiniteSet(At(placed, i)) /\ Cardinality(At(placed, i)) \in Nat
  <1>1. \A placed, i : At(placed, i) \subseteq Host
    BY DEF At
  <1> QED
    BY <1>1, HostAssumption, FS_Subset, FS_CardinalityType

\* tryPlace for one listener: it goes to the first open choice, or is left.
LeftOpen(new, acc, h, C, ov) ==
    /\ new.placed = acc.placed /\ new.counts = acc.counts /\ new.left = acc.left \cup {h}
    /\ \A j \in C : Closed(acc, j, ov)

PutOn(new, acc, h, C, ov, i) ==
    /\ Usable(i, ov) /\ acc.counts[i] < Capacity(i)
    /\ \A j \in C : j < i => Closed(acc, j, ov)
    /\ new.placed = [acc.placed EXCEPT ![h] = i]
    /\ new.counts = [acc.counts EXCEPT ![i] = @ + 1]
    /\ new.left = acc.left

\* tryPlace leaves a listener that finds no parent open, or puts it on the first
\* one with room.
LEMMA TryPlaceIs ==
  ASSUME NEW acc \in Places, NEW h \in Host, NEW C, C \subseteq Parent, NEW ov
  PROVE  LET new == TryPlace(acc, h, C, ov) IN
         /\ new \in Places
         /\ LeftOpen(new, acc, h, C, ov) \/ \E i \in C : PutOn(new, acc, h, C, ov, i)
  <1> DEFINE new == TryPlace(acc, h, C, ov)
             O == Open(acc, C, ov)
             m == Min(O)
  <1>1. /\ acc = [placed |-> acc.placed, counts |-> acc.counts, left |-> acc.left]
        /\ acc.placed \in [Host -> Parent \cup {Nowhere}]
        /\ acc.counts \in [Parent -> Nat] /\ acc.left \in SUBSET Host
    BY DEF Places
  <1>2. \A j \in Parent : j \in Nat /\ acc.counts[j] \in Nat /\ Capacity(j) \in Nat
    <2>1. \A j \in Parent : j \in Nat
      BY CapacityAssumption DEF Parent
    <2> QED
      BY <1>1, <2>1, CapacityIsNat
  <1>3. \A j \in C : j \in O <=> Usable(j, ov) /\ acc.counts[j] < Capacity(j)
    BY DEF Open
  <1>4. \A j \in C : j \notin O => Closed(acc, j, ov)
    BY <1>2, <1>3 DEF Closed
  <1>5. CASE O = {}
    <2>1. new = [acc EXCEPT !.left = @ \cup {h}]
      BY <1>5 DEF TryPlace
    <2>2. new.placed = acc.placed /\ new.counts = acc.counts /\ new.left = acc.left \cup {h}
      BY <1>1, <2>1
    <2>3. new \in Places
      BY <1>1, <2>1 DEF Places
    <2> QED
      BY <1>4, <1>5, <2>2, <2>3 DEF LeftOpen
  <1>6. CASE O # {}
    <2>1. O \subseteq C /\ O \subseteq Nat
      BY <1>2 DEF Open
    <2>2. m \in O /\ \A j \in O : m <= j
      <3> HIDE DEF O
      <3> QED
        BY <1>6, <2>1, MinOfNaturals
    <2> HIDE DEF m
    <2>3. new = [acc EXCEPT !.placed[h] = m, !.counts[m] = @ + 1]
      BY <1>6 DEF TryPlace, m
    <2> HIDE DEF O
    <2>4. /\ new.placed = [acc.placed EXCEPT ![h] = m]
          /\ new.counts = [acc.counts EXCEPT ![m] = @ + 1]
          /\ new.left = acc.left
          /\ new = [placed |-> new.placed, counts |-> new.counts, left |-> new.left]
      BY <1>1, <2>3
    <2>5. m \in Parent /\ m \in C
      BY <2>1, <2>2
    <2>6. new.placed \in [Host -> Parent \cup {Nowhere}] /\ new.counts \in [Parent -> Nat] /\ new.left \in SUBSET Host
      BY <1>1, <1>2, <2>4, <2>5
    <2>7. new \in Places
      <3> HIDE DEF new
      <3> QED
        BY <2>4, <2>6 DEF Places
    <2>8. \A j \in C : j < m => Closed(acc, j, ov)
      BY <1>2, <1>4, <2>1, <2>2
    <2> QED
      BY <1>3, <2>2, <2>4, <2>5, <2>7, <2>8 DEF PutOn
  <1> QED
    BY <1>5, <1>6

\* One listener of a pass.
LEMMA TryPlaceKeeps ==
  ASSUME NEW old \in Places, NEW choices, \A g \in Host : choices[g] \subseteq Parent,
         NEW acc, NEW todo \in SUBSET Host, NEW L, NEW ov,
         Shared(acc, todo, L, ov), Advances(old, acc, choices, ov), NEW h \in todo
  PROVE  LET new == TryPlace(acc, h, choices[h], ov) IN
         Shared(new, todo \ {h}, L, ov) /\ Advances(old, new, choices, ov)
  <1> DEFINE new == TryPlace(acc, h, choices[h], ov)
             rest == todo \ {h}
  <1>1. h \in Host /\ acc \in Places /\ choices[h] \subseteq Parent /\ acc.placed[h] = Nowhere
    BY DEF Shared
  <1>2. /\ acc.placed \in [Host -> Parent \cup {Nowhere}]
        /\ acc.counts \in [Parent -> Nat] /\ acc.left \in SUBSET Host
    BY <1>1 DEF Places
  <1>3. \A j \in Parent : j \in Nat /\ acc.counts[j] \in Nat /\ Capacity(j) \in Nat /\ j # Nowhere
    <2>1. \A j \in Parent : j \in Nat /\ j # Nowhere
      BY CapacityAssumption DEF Parent, Nowhere
    <2> QED
      BY <1>2, <2>1, CapacityIsNat
  <1>4. new \in Places
    BY <1>1, TryPlaceIs
  <1>left. ASSUME new.placed = acc.placed, new.counts = acc.counts, new.left = acc.left \cup {h},
                  \A j \in choices[h] : Closed(acc, j, ov)
           PROVE  Shared(new, rest, L, ov) /\ Advances(old, new, choices, ov)
    <2> HIDE DEF new
    <2>1. Shared(new, rest, L, ov)
      BY <1>1, <1>4, <1>left DEF Shared
    <2>2. Advances(old, new, choices, ov)
      BY <1>left DEF Advances, Closed
    <2> QED
      BY <2>1, <2>2
  <1>placed. ASSUME NEW i \in choices[h], Usable(i, ov), acc.counts[i] < Capacity(i),
                    \A j \in choices[h] : j < i => Closed(acc, j, ov),
                    new.placed = [acc.placed EXCEPT ![h] = i],
                    new.counts = [acc.counts EXCEPT ![i] = @ + 1],
                    new.left = acc.left
             PROVE  Shared(new, rest, L, ov) /\ Advances(old, new, choices, ov)
    <2> HIDE DEF new
    <2>1. /\ new.placed[h] = i /\ \A g \in Host : g # h => new.placed[g] = acc.placed[g]
          /\ new.counts[i] = acc.counts[i] + 1 /\ \A j \in Parent : j # i => new.counts[j] = acc.counts[j]
          /\ i \in Parent /\ i # Nowhere
      BY <1>1, <1>2, <1>3, <1>placed
    <2>2. ASSUME NEW j \in Parent
          PROVE  /\ new.counts[j] = Cardinality(At(new.placed, j))
                 /\ new.counts[j] <= Capacity(j)
                 /\ new.counts[j] > 0 => Usable(j, ov)
      <3>1. acc.counts[j] = Cardinality(At(acc.placed, j)) /\ acc.counts[j] <= Capacity(j)
            /\ (acc.counts[j] > 0 => Usable(j, ov))
        BY DEF Shared
      <3>2. CASE j = i
        <4>1. At(new.placed, j) = At(acc.placed, j) \cup {h} /\ h \notin At(acc.placed, j)
          BY <1>1, <2>1, <3>2 DEF At
        <4>2. Cardinality(At(new.placed, j)) = Cardinality(At(acc.placed, j)) + 1
          BY <4>1, AtFinite, FS_AddElement
        <4>3. new.counts[j] = acc.counts[j] + 1 /\ acc.counts[j] \in Nat /\ Capacity(j) \in Nat
          BY <1>3, <2>1, <3>2
        <4> QED
          BY <1>placed, <3>1, <3>2, <4>2, <4>3
      <3>3. CASE j # i
        <4>1. At(new.placed, j) = At(acc.placed, j)
          BY <1>1, <1>3, <2>1, <3>3 DEF At
        <4> QED
          BY <2>1, <3>1, <3>3, <4>1
      <3> QED
        BY <3>2, <3>3
    <2>3. L = rest \cup new.left \cup {g \in Host : new.placed[g] # Nowhere}
      BY <1>1, <1>placed, <2>1 DEF Shared
    <2>4. Shared(new, rest, L, ov)
      BY <1>1, <1>4, <1>placed, <2>1, <2>2, <2>3 DEF Shared
    <2>5. \A j \in Parent : Closed(acc, j, ov) => Closed(new, j, ov)
      <3> SUFFICES ASSUME NEW j \in Parent, Usable(j, ov), acc.counts[j] >= Capacity(j)
                   PROVE  new.counts[j] >= Capacity(j)
        BY DEF Closed
      <3> QED
        BY <1>3, <1>placed, <2>1
    <2>6. \A g \in Host : old.placed[g] # Nowhere => new.placed[g] = old.placed[g]
      BY <1>1, <2>1 DEF Advances
    <2>7. ASSUME NEW g \in Host, old.placed[g] = Nowhere, new.placed[g] # Nowhere
          PROVE  new.placed[g] \in choices[g] /\ \A j \in choices[g] : j < new.placed[g] => Closed(new, j, ov)
      <3>1. CASE g = h
        BY <1>1, <1>placed, <2>1, <2>5, <3>1
      <3>2. CASE g # h
        <4>1. acc.placed[g] \in choices[g] /\ \A j \in choices[g] : j < acc.placed[g] => Closed(acc, j, ov)
          BY <2>1, <2>7, <3>2 DEF Advances
        <4> QED
          BY <2>1, <2>5, <3>2, <4>1
      <3> QED
        BY <3>1, <3>2
    <2>8. ASSUME NEW g \in new.left, NEW j \in choices[g]
          PROVE  Closed(new, j, ov)
      <3>1. Closed(acc, j, ov) /\ j \in Parent
        BY <1>2, <1>placed, <2>8 DEF Advances
      <3> QED
        BY <2>5, <3>1
    <2>9. Advances(old, new, choices, ov)
      BY <2>6, <2>7, <2>8 DEF Advances
    <2> QED
      BY <2>4, <2>9
  <1> HIDE DEF rest
  <1>5. LeftOpen(new, acc, h, choices[h], ov) \/ \E i \in choices[h] : PutOn(new, acc, h, choices[h], ov, i)
    BY <1>1, TryPlaceIs
  <1> HIDE DEF new
  <1>6. Shared(new, rest, L, ov) /\ Advances(old, new, choices, ov)
    BY <1>5, <1>left, <1>placed DEF LeftOpen, PutOn
  <1> QED
    BY <1>6 DEF new, rest

\* The fold over the listeners of a pass, one listener at a time.
UnfoldsPass(it, acc, choices, ov) ==
    LET D == acc.left
    IN  /\ it \in [SUBSET D -> Places]
        /\ Pass(acc, choices, ov) = it[D]
        /\ it[{}] = [acc EXCEPT !.left = {}]
        /\ \A T \in SUBSET D : T # {} => it[T] = TryPlace(it[T \ {Max(T)}], Max(T), choices[Max(T)], ov)

\* A pass can be taken apart listener by listener.
LEMMA PassUnfolds ==
  ASSUME NEW acc \in Places, NEW choices, \A g \in Host : choices[g] \subseteq Parent, NEW ov
  PROVE  \E it : UnfoldsPass(it, acc, choices, ov)
  <1> DEFINE D == acc.left
             base == [acc EXCEPT !.left = {}]
             try(a, h) == TryPlace(a, h, choices[h], ov)
             Step == [x \in D \X Places |-> try(x[2], x[1])]
             Solves(f) == f = [T \in SUBSET D |-> IF T = {} THEN base ELSE try(f[T \ {Max(T)}], Max(T))]
             it == CHOOSE f : Solves(f)
             Good == {T \in SUBSET D : it[T] \in Places}
  <1>1. Pass(acc, choices, ov) = it[D]
    BY DEF Pass, InOrder, MapThenFoldSet
  <1>2. IsFiniteSet(D) /\ D \subseteq Nat /\ D \subseteq Host
    <2>1. D \subseteq Host
      BY DEF Places
    <2> QED
      BY <2>1, HostAssumption, FS_Subset
  <1>3. \A h \in D : \A a \in Places : try(a, h) \in Places
    BY <1>2, TryPlaceIs
  <1>4. Step \in [D \X Places -> Places]
    BY <1>3
  <1>max. \A T \in SUBSET D : T # {} => Max(T) \in D
    BY <1>2, MaxOfNaturals, FS_Subset
  <1>base. base \in Places
    <2>1. acc = [placed |-> acc.placed, counts |-> acc.counts, left |-> acc.left]
      BY DEF Places
    <2>2. base = [placed |-> acc.placed, counts |-> acc.counts, left |-> {}]
      BY <2>1
    <2> QED
      BY <2>2 DEF Places
  <1>5. \E f : Solves(f)
    <2> HIDE DEF Step, try, D, base
    <2>1. PICK f : Unfolds(f, D, Places, base, Step)
      BY <1>2, <1>4, <1>base, FoldExists
    <2>2. ASSUME NEW T \in SUBSET D, T # {}
          PROVE  f[T] = try(f[T \ {Max(T)}], Max(T))
      <3>1. Max(T) \in D /\ f[T \ {Max(T)}] \in Places
        BY <1>max, <2>1, <2>2 DEF Unfolds
      <3> QED
        BY <2>1, <2>2, <3>1 DEF Step, Unfolds
    <2>3. f = [T \in SUBSET D |-> IF T = {} THEN base ELSE try(f[T \ {Max(T)}], Max(T))]
      BY <2>1, <2>2 DEF Unfolds
    <2> QED
      BY <2>3
  <1>6. Solves(it)
    <2> HIDE DEF Solves
    <2> QED
      BY <1>5
  <1> HIDE DEF it, try, base
  <1>7. /\ it = [T \in SUBSET D |-> it[T]]
        /\ it[{}] = base
        /\ \A T \in SUBSET D : T # {} => it[T] = try(it[T \ {Max(T)}], Max(T))
    BY <1>6
  <1>8. {} \in Good
    BY <1>7, <1>base
  <1>9. ASSUME NEW T \in SUBSET D, T # {} /\ T \ {Max(T)} \in Good
        PROVE  T \in Good
    <2>1. Max(T) \in D /\ it[T \ {Max(T)}] \in Places
      BY <1>9, <1>max
    <2>2. it[T] = try(it[T \ {Max(T)}], Max(T))
      BY <1>7, <1>9
    <2>3. it[T] \in Places
      BY <1>3, <2>1, <2>2
    <2> QED
      BY <2>3
  <1>10. \A T \in SUBSET D : T \in Good
    <2> HIDE DEF Good, D
    <2> QED
      BY <1>2, <1>8, <1>9, AscendingInduction
  <1>11. it \in [SUBSET D -> Places]
    BY <1>7, <1>10
  <1>12. UnfoldsPass(it, acc, choices, ov)
    BY <1>1, <1>7, <1>11 DEF UnfoldsPass, try, base
  <1> QED
    BY <1>12

\* A whole pass.
LEMMA PassIs ==
  ASSUME NEW acc, NEW L, NEW choices, \A g \in Host : choices[g] \subseteq Parent, NEW ov,
         Shared(acc, {}, L, ov)
  PROVE  LET new == Pass(acc, choices, ov) IN
         Shared(new, {}, L, ov) /\ Advances(acc, new, choices, ov)
  <1> DEFINE D == acc.left
             base == [acc EXCEPT !.left = {}]
  <1>1. acc \in Places /\ D \subseteq Host
    BY DEF Shared, Places
  <1>2. IsFiniteSet(D) /\ D \subseteq Nat
    BY <1>1, HostAssumption, FS_Subset
  <1>3. PICK it : UnfoldsPass(it, acc, choices, ov)
    BY <1>1, PassUnfolds
  <1> DEFINE Good == {T \in SUBSET D : Shared(it[T], D \ T, L, ov) /\ Advances(acc, it[T], choices, ov)}
  <1>4. {} \in Good
    <2>1. acc = [placed |-> acc.placed, counts |-> acc.counts, left |-> acc.left]
      BY <1>1 DEF Places
    <2>2. it[{}].placed = acc.placed /\ it[{}].counts = acc.counts /\ it[{}].left = {}
      BY <1>3, <2>1 DEF UnfoldsPass
    <2>3. it[{}] \in Places
      BY <1>3 DEF UnfoldsPass
    <2>4. Shared(it[{}], D, L, ov)
      BY <2>2, <2>3 DEF Shared
    <2>5. Advances(acc, it[{}], choices, ov)
      BY <2>2 DEF Advances
    <2> QED
      BY <2>4, <2>5
  <1>5. ASSUME NEW T \in SUBSET D, T # {} /\ T \ {Max(T)} \in Good
        PROVE  T \in Good
    <2> DEFINE m == Max(T)
               R == T \ {m}
               todo == D \ R
    <2>1. m \in T
      BY <1>2, <1>5, MaxOfNaturals, FS_Subset
    <2>2. Shared(it[R], todo, L, ov) /\ Advances(acc, it[R], choices, ov)
      BY <1>5
    <2>3. it[T] = TryPlace(it[R], m, choices[m], ov)
      BY <1>3, <1>5 DEF UnfoldsPass
    <2>4. m \in todo /\ todo \in SUBSET Host /\ todo \ {m} = D \ T
      BY <1>1, <2>1
    <2> HIDE DEF R, m, todo
    <2>5. Shared(it[T], todo \ {m}, L, ov) /\ Advances(acc, it[T], choices, ov)
      BY <1>1, <2>2, <2>3, <2>4, TryPlaceKeeps
    <2> QED
      BY <2>4, <2>5
  <1>6. D \in Good
    <2> HIDE DEF Good, D
    <2> QED
      BY <1>2, <1>4, <1>5, AscendingInduction
  <1>7. Pass(acc, choices, ov) = it[D]
    BY <1>3 DEF UnfoldsPass
  <1> QED
    BY <1>6, <1>7

(***************************************************************************)
(* What the three passes come to.                                          *)
(***************************************************************************)
WithinLimits(out, L, ov) ==
    /\ out.placed \in [Host -> Parent \cup {Nowhere}]
    /\ out.unplaced \subseteq L
    /\ \A h \in Host : out.placed[h] # Nowhere <=> h \in L \ out.unplaced
    /\ \A i \in Parent : /\ Cardinality(At(out.placed, i)) <= Capacity(i)
                         /\ At(out.placed, i) # {} => Usable(i, ov)

\* The parent h had can keep every listener of L it had.
MayStay(h, L, current, ov) ==
    /\ current[h] # Nowhere
    /\ Usable(current[h], ov)
    /\ Cardinality({g \in L : current[g] = current[h]}) <= Capacity(current[h])

Stays(out, L, current, ov) == \A h \in L : MayStay(h, L, current, ov) => out.placed[h] = current[h]

RefusesForRoom(out, ov) ==
    out.unplaced # {} => ~ov /\ Cardinality(At(out.placed, GatewayParent)) = Capacity(GatewayParent)

OpensForRoom(out, serves, current) ==
    \A h \in Host :
        /\ out.placed[h] # Nowhere /\ out.placed[h] # current[h]
        /\ out.placed[h] \notin Inherited(h, serves[h], current)
        => \A j \in Parent : j < out.placed[h] => Cardinality(At(out.placed, j)) = Capacity(j)

\* When every parent is full, the listeners are as many as the parents take.
LEMMA Packed ==
  ASSUME NEW placed \in [Host -> Parent \cup {Nowhere}],
         \A i \in Parent : Cardinality(At(placed, i)) = Capacity(i)
  PROVE  Cardinality({h \in Host : placed[h] # Nowhere})
           >= GatewayHTTPSCapacity + MaxListenerSet * ListenerSetCapacity
  <1> DEFINE S == 1 .. MaxListenerSet
             In(T) == {h \in Host : placed[h] \in T \cup {0}}
             Good == {T \in SUBSET S : Cardinality(In(T)) = GatewayHTTPSCapacity + Cardinality(T) * ListenerSetCapacity}
  <1>1. IsFiniteSet(S) /\ S \subseteq Nat /\ Cardinality(S) = MaxListenerSet
    BY CapacityAssumption, FS_Interval
  <1>2. \A T : IsFiniteSet(In(T)) /\ Cardinality(In(T)) \in Nat
    <2>1. \A T : In(T) \subseteq Host
      OBVIOUS
    <2> HIDE DEF In
    <2> QED
      BY <2>1, HostAssumption, FS_Subset, FS_CardinalityType
  <1>3. {} \in Good
    <2>1. In({}) = At(placed, 0)
      BY DEF At
    <2>2. 0 \in Parent /\ Capacity(0) = GatewayHTTPSCapacity
      BY CapacityAssumption DEF Parent, Capacity, GatewayParent
    <2>3. Cardinality({}) * ListenerSetCapacity = 0
      BY FS_EmptySet, CapacityAssumption
    <2> HIDE DEF In
    <2> QED
      BY <2>1, <2>2, <2>3, CapacityAssumption
  <1>4. ASSUME NEW T \in SUBSET S, T # {} /\ T \ {Max(T)} \in Good
        PROVE  T \in Good
    <2> DEFINE m == Max(T)
               R == T \ {m}
    <2>1. m \in T /\ IsFiniteSet(T)
      BY <1>1, <1>4, MaxOfNaturals, FS_Subset
    <2> HIDE DEF m
    <2>2. m \in Parent /\ m # 0 /\ Capacity(m) = ListenerSetCapacity
      <3>1. m \in 1 .. MaxListenerSet
        BY <2>1
      <3> QED
        BY <3>1, CapacityAssumption DEF Parent, Capacity, GatewayParent
    <2>3. In(T) = In(R) \cup At(placed, m) /\ In(R) \cap At(placed, m) = {}
      BY <2>1, <2>2 DEF At
    <2>4. Cardinality(In(T)) = Cardinality(In(R)) + Cardinality(At(placed, m)) - Cardinality(In(R) \cap At(placed, m))
      <3> HIDE DEF In, R
      <3> QED
        BY <1>2, <2>3, AtFinite, FS_Union
    <2>5. Cardinality(In(R) \cap At(placed, m)) = 0
      BY <2>3, FS_EmptySet
    <2>6. Cardinality(R) = Cardinality(T) - 1 /\ Cardinality(T) \in Nat
      BY <2>1, FS_RemoveElement, FS_CardinalityType
    <2>7. Cardinality(In(R)) = GatewayHTTPSCapacity + Cardinality(R) * ListenerSetCapacity
      BY <1>4 DEF m
    <2>8. Cardinality(At(placed, m)) = ListenerSetCapacity
      BY <2>2
    <2> HIDE DEF In, R
    <2>9. Cardinality(In(T)) = GatewayHTTPSCapacity + Cardinality(T) * ListenerSetCapacity
      <3>1. \A n \in Nat, k \in Nat, g \in Nat : g + (n - 1) * k + k - 0 = g + n * k
        OBVIOUS
      <3> QED
        BY <2>4, <2>5, <2>6, <2>7, <2>8, <3>1, CapacityAssumption
    <2> QED
      BY <2>9
  <1>5. S \in Good
    <2> HIDE DEF Good, S
    <2> QED
      BY <1>1, <1>3, <1>4, AscendingInduction
  <1>6. In(S) \subseteq {h \in Host : placed[h] # Nowhere}
    BY CapacityAssumption DEF Nowhere
  <1>7. IsFiniteSet({h \in Host : placed[h] # Nowhere})
    BY HostAssumption, FS_Subset
  <1>8. Cardinality(In(S)) <= Cardinality({h \in Host : placed[h] # Nowhere})
    <2> HIDE DEF In
    <2> QED
      BY <1>6, <1>7, FS_Subset
  <1>9. Cardinality({h \in Host : placed[h] # Nowhere}) \in Nat
    BY <1>7, FS_CardinalityType
  <1> HIDE DEF In, S
  <1>10. Cardinality(In(S)) = GatewayHTTPSCapacity + MaxListenerSet * ListenerSetCapacity
    BY <1>1, <1>5
  <1> QED
    BY <1>2, <1>8, <1>9, <1>10

\* inheritedPlacement gives parents.
LEMMA InheritedIs ==
  ASSUME NEW h \in Host, NEW hosts \in SUBSET Host, NEW current \in [Host -> Parent \cup {Nowhere}]
  PROVE  Inherited(h, hosts, current) \subseteq Parent
  <1>1. Relatives(h, hosts) \subseteq Host
    BY HostAssumption DEF Relatives
  <1> QED
    BY <1>1 DEF Inherited

(***************************************************************************)
(* placeListeners: capacities are respected, what can stay stays, a        *)
(* listener is refused or put on a further ListenerSet for room only.      *)
(***************************************************************************)
LEMMA PlaceListenersIs ==
  ASSUME NEW serves \in [Host -> SUBSET Host], NEW current \in [Host -> Parent \cup {Nowhere}],
         NEW ov \in BOOLEAN, EnoughSets
  PROVE  LET out == PlaceListeners(serves, current, ov)
             L   == {h \in Host : serves[h] # {}}
         IN  /\ WithinLimits(out, L, ov)
             /\ Stays(out, L, current, ov)
             /\ RefusesForRoom(out, ov)
             /\ OpensForRoom(out, serves, current)
  <1> DEFINE out == PlaceListeners(serves, current, ov)
             L == {h \in Host : serves[h] # {}}
             c1 == [h \in Host |-> {current[h]} \ {Nowhere}]
             c2 == [h \in Host |-> Inherited(h, serves[h], current)]
             c3 == [h \in Host |-> Parent]
             p0 == NothingPlaced(L)
             p1 == Pass(p0, c1, ov)
             p2 == Pass(p1, c2, ov)
             p3 == Pass(p2, c3, ov)
  <1>1. out.placed = p3.placed /\ out.unplaced = p3.left
    BY DEF PlaceListeners
  <1>2. Shared(p0, {}, L, ov)
    <2>1. /\ p0.placed = [h \in Host |-> Nowhere] /\ p0.counts = [i \in Parent |-> 0] /\ p0.left = L
          /\ p0 = [placed |-> p0.placed, counts |-> p0.counts, left |-> p0.left]
      BY DEF NothingPlaced
    <2>L. L \in SUBSET Host
      OBVIOUS
    <2> HIDE DEF p0, L, p1, p2, p3
    <2>2. p0 \in Places
      <3>2. p0.placed \in [Host -> Parent \cup {Nowhere}] /\ p0.counts \in [Parent -> Nat] /\ p0.left \in SUBSET Host
        BY <2>1, <2>L
      <3> QED
        BY <2>1, <3>2 DEF Places
    <2>3. \A i \in Parent : i # Nowhere /\ Capacity(i) \in Nat
      <3>1. \A i \in Parent : i # Nowhere
        BY CapacityAssumption DEF Parent, Nowhere
      <3> QED
        BY <3>1, CapacityIsNat
    <2>4. \A i \in Parent : At(p0.placed, i) = {}
      BY <2>1, <2>3 DEF At
    <2>5. \A i \in Parent : p0.counts[i] = Cardinality(At(p0.placed, i)) /\ p0.counts[i] = 0
      BY <2>1, <2>4, FS_EmptySet
    <2>6. \A i \in Parent : p0.counts[i] <= Capacity(i) /\ ~(p0.counts[i] > 0)
      BY <2>3, <2>5
    <2>7. \A h \in Host : p0.placed[h] = Nowhere
      BY <2>1
    <2>8. L = {} \cup p0.left \cup {h \in Host : p0.placed[h] # Nowhere} /\ {} \cap p0.left = {}
      BY <2>1, <2>7
    <2>9. \A h \in {} \cup p0.left : p0.placed[h] = Nowhere
      BY <2>1, <2>L, <2>7
    <2> QED
      BY <2>2, <2>5, <2>6, <2>8, <2>9 DEF Shared
  <1>c1. \A h \in Host : c1[h] \subseteq Parent
    OBVIOUS
  <1>c2. \A h \in Host : c2[h] \subseteq Parent
    BY InheritedIs
  <1>c3. \A h \in Host : c3[h] \subseteq Parent
    OBVIOUS
  <1> HIDE DEF p0, p1, p2, p3, c1, c2, c3, L
  <1>3. Shared(p1, {}, L, ov) /\ Advances(p0, p1, c1, ov)
    BY <1>2, <1>c1, PassIs DEF p1
  <1>4. Shared(p2, {}, L, ov) /\ Advances(p1, p2, c2, ov)
    BY <1>3, <1>c2, PassIs DEF p2
  <1>5. Shared(p3, {}, L, ov) /\ Advances(p2, p3, c3, ov)
    BY <1>4, <1>c3, PassIs DEF p3
  <1>6. \A j \in Parent : j \in Nat /\ j # Nowhere /\ Capacity(j) \in Nat
    <2>1. \A j \in Parent : j \in Nat /\ j # Nowhere
      BY CapacityAssumption DEF Parent, Nowhere
    <2> QED
      BY <2>1, CapacityIsNat
  <1>7. /\ p3 \in Places
        /\ p3.placed \in [Host -> Parent \cup {Nowhere}] /\ p3.left \in SUBSET Host
        /\ L = p3.left \cup {h \in Host : p3.placed[h] # Nowhere}
        /\ \A h \in p3.left : p3.placed[h] = Nowhere
    BY <1>5 DEF Shared, Places
  <1>counts. ASSUME NEW j \in Parent
             PROVE  /\ p3.counts[j] = Cardinality(At(p3.placed, j)) /\ p3.counts[j] \in Nat
                    /\ p3.counts[j] <= Capacity(j)
                    /\ p3.counts[j] > 0 => Usable(j, ov)
    BY <1>5, AtFinite DEF Shared
  <1>8. \A j \in Parent : At(p3.placed, j) # {} => p3.counts[j] > 0
    <2> SUFFICES ASSUME NEW j \in Parent, At(p3.placed, j) # {} PROVE p3.counts[j] > 0
      OBVIOUS
    <2>1. p3.counts[j] = Cardinality(At(p3.placed, j)) /\ p3.counts[j] \in Nat
      BY <1>counts
    <2>2. Cardinality(At(p3.placed, j)) # 0
      BY AtFinite, FS_EmptySet
    <2> QED
      BY <2>1, <2>2
  <1>9. WithinLimits(out, L, ov)
    BY <1>1, <1>7, <1>counts, <1>8 DEF WithinLimits
  <1>10. Stays(out, L, current, ov)
    <2> SUFFICES ASSUME NEW h \in L, MayStay(h, L, current, ov)
                 PROVE  p3.placed[h] = current[h]
      BY <1>1 DEF Stays
    <2> DEFINE c == current[h]
               here == {g \in L : current[g] = c}
    <2>1. h \in Host /\ L \subseteq Host
      BY DEF L
    <2>2. c \in Parent /\ c # Nowhere /\ Usable(c, ov) /\ Cardinality(here) <= Capacity(c)
      BY <2>1 DEF MayStay
    <2>3. c1[h] = {c}
      BY <2>1, <2>2 DEF c1
    <2>4. p0.placed[h] = Nowhere
      BY <2>1 DEF p0, NothingPlaced
    <2>5. CASE p1.placed[h] # Nowhere
      <3>1. p1.placed[h] = c
        BY <1>3, <2>1, <2>3, <2>4, <2>5 DEF Advances
      <3>2. p2.placed[h] = c
        BY <1>4, <2>1, <2>5, <3>1 DEF Advances
      <3> QED
        BY <1>5, <2>1, <2>2, <3>2 DEF Advances
    <2>6. CASE p1.placed[h] = Nowhere
      <3>1. h \in p1.left
        BY <1>3, <2>1, <2>6 DEF Shared
      <3>2. Closed(p1, c, ov)
        BY <1>3, <2>3, <3>1 DEF Advances
      <3>3. Cardinality(At(p1.placed, c)) >= Capacity(c)
        BY <1>3, <2>2, <3>2 DEF Closed, Shared
      <3>4. ASSUME NEW g \in At(p1.placed, c) PROVE g \in here \ {h}
        <4>1. g \in Host /\ p1.placed[g] = c
          BY DEF At
        <4>2. g \in L
          BY <1>3, <2>2, <4>1 DEF Shared
        <4>3. p0.placed[g] = Nowhere
          BY <4>1 DEF p0, NothingPlaced
        <4>4. c \in c1[g]
          BY <1>3, <2>2, <4>1, <4>3 DEF Advances
        <4>5. current[g] = c
          BY <4>1, <4>4 DEF c1
        <4> QED
          BY <2>2, <2>6, <4>1, <4>2, <4>5
      <3>5. IsFiniteSet(here) /\ h \in here
        BY <2>1, HostAssumption, FS_Subset
      <3>6. Cardinality(here \ {h}) = Cardinality(here) - 1 /\ IsFiniteSet(here \ {h})
            /\ Cardinality(here) \in Nat
        BY <3>5, FS_RemoveElement, FS_CardinalityType
      <3>7. At(p1.placed, c) \subseteq here \ {h}
        BY <3>4
      <3> HIDE DEF here, c
      <3>8. Cardinality(At(p1.placed, c)) <= Cardinality(here \ {h})
        BY <3>6, <3>7, FS_Subset
      <3>9. Cardinality(At(p1.placed, c)) \in Nat /\ Capacity(c) \in Nat
        BY <1>6, <2>2, AtFinite
      <3> QED
        BY <2>2, <3>3, <3>6, <3>8, <3>9
    <2> QED
      BY <2>5, <2>6
  <1>11. RefusesForRoom(out, ov)
    <2> SUFFICES ASSUME NEW h \in p3.left
                 PROVE  ~ov /\ p3.counts[GatewayParent] = Capacity(GatewayParent)
      <3>1. GatewayParent \in Parent
        BY CapacityAssumption DEF Parent, GatewayParent
      <3> QED
        BY <1>1, <1>7, <1>counts, <3>1 DEF RefusesForRoom
    <2>1. \A j \in Parent : Closed(p3, j, ov)
      <3>1. h \in Host
        BY <1>7
      <3>2. c3[h] = Parent
        BY <3>1 DEF c3
      <3> QED
        BY <1>5, <3>2 DEF Advances
    <2>2. \A j \in Parent : Usable(j, ov) => p3.counts[j] = Capacity(j)
      <3> SUFFICES ASSUME NEW j \in Parent, Usable(j, ov) PROVE p3.counts[j] = Capacity(j)
        OBVIOUS
      <3>1. p3.counts[j] >= Capacity(j) /\ p3.counts[j] <= Capacity(j)
        BY <1>counts, <2>1 DEF Closed
      <3> QED
        BY <1>6, <1>counts, <3>1
    <2>3. GatewayParent \in Parent /\ Usable(GatewayParent, ov)
      BY CapacityAssumption DEF Parent, GatewayParent, Usable
    <2>4. ASSUME ov PROVE FALSE
      <3> DEFINE P == {g \in Host : p3.placed[g] # Nowhere}
      <3>1. \A j \in Parent : Cardinality(At(p3.placed, j)) = Capacity(j)
        BY <1>counts, <2>2, <2>4 DEF Usable
      <3>2. Cardinality(P) >= GatewayHTTPSCapacity + MaxListenerSet * ListenerSetCapacity
        BY <1>7, <3>1, Packed
      <3>3. P \subseteq Host /\ h \in Host /\ h \notin P
        BY <1>7
      <3>4. Cardinality(P) < Cardinality(Host)
        <4>1. P # Host /\ P \subseteq Host
          BY <3>3
        <4>2. Cardinality(P) <= Cardinality(Host) /\ Cardinality(P) # Cardinality(Host)
              /\ Cardinality(P) \in Nat /\ Cardinality(Host) \in Nat
          <5>1. IsFiniteSet(Host) /\ IsFiniteSet(P)
            BY HostAssumption, <4>1, FS_Subset
          <5> HIDE DEF P
          <5> QED
            BY <4>1, <5>1, FS_Subset, FS_CardinalityType
        <4> HIDE DEF P
        <4> QED
          BY <4>2
      <3>5. Cardinality(P) \in Nat /\ Cardinality(Host) \in Nat
        BY <3>3, HostAssumption, FS_Subset, FS_CardinalityType
      <3>6. GatewayHTTPSCapacity + MaxListenerSet * ListenerSetCapacity \in Nat
        BY CapacityAssumption
      <3> HIDE DEF P
      <3> QED
        BY <3>2, <3>4, <3>5, <3>6 DEF EnoughSets
    <2> QED
      BY <2>2, <2>3, <2>4
  <1>12. OpensForRoom(out, serves, current)
    <2> SUFFICES ASSUME NEW h \in Host, p3.placed[h] # Nowhere, p3.placed[h] # current[h],
                        p3.placed[h] \notin Inherited(h, serves[h], current),
                        NEW j \in Parent, j < p3.placed[h]
                 PROVE  Cardinality(At(p3.placed, j)) = Capacity(j)
      BY <1>1 DEF OpensForRoom
    <2>1. p1.placed[h] = Nowhere
      <3> SUFFICES ASSUME p1.placed[h] # Nowhere PROVE FALSE
        OBVIOUS
      <3>1. p0.placed[h] = Nowhere
        BY DEF p0, NothingPlaced
      <3>2. p1.placed[h] = current[h]
        BY <1>3, <3>1 DEF Advances, c1
      <3>3. p2.placed[h] = p1.placed[h] /\ p3.placed[h] = p2.placed[h]
        BY <1>4, <1>5 DEF Advances
      <3> QED
        BY <3>2, <3>3
    <2>2. p2.placed[h] = Nowhere
      <3> SUFFICES ASSUME p2.placed[h] # Nowhere PROVE FALSE
        OBVIOUS
      <3>1. p2.placed[h] \in c2[h]
        BY <1>4, <2>1 DEF Advances
      <3>2. p2.placed[h] \in Inherited(h, serves[h], current)
        BY <3>1 DEF c2
      <3>3. p3.placed[h] = p2.placed[h]
        BY <1>5 DEF Advances
      <3> QED
        BY <3>2, <3>3
    <2>3. Closed(p3, j, ov)
      BY <1>5, <2>2 DEF Advances, c3
    <2>4. p3.placed[h] \in Parent /\ h \in At(p3.placed, p3.placed[h])
      BY <1>7 DEF At
    <2>5. Usable(p3.placed[h], ov)
      BY <1>counts, <1>8, <2>4
    <2>6. p3.placed[h] # GatewayParent
      BY <1>6, <2>4 DEF GatewayParent
    <2>7. Usable(j, ov)
      BY <2>5, <2>6 DEF Usable
    <2>8. p3.counts[j] >= Capacity(j) /\ p3.counts[j] <= Capacity(j)
      BY <1>counts, <2>3, <2>7 DEF Closed
    <2> QED
      BY <1>6, <1>counts, <2>8
  <1> QED
    BY <1>9, <1>10, <1>11, <1>12 DEF L

-----------------------------------------------------------------------------
(***************************************************************************)
(* The plan.                                                               *)
(***************************************************************************)
SecretOf(ings) == [h \in Host |-> Collect(ings).owner[h].secret]

NameOf(h, secretOf, certificates, current) == ListenerOf(h, secretOf, certificates, current).hostname

Listening(secretOf, certificates, current) ==
    [n \in Host |-> {h \in Declared(secretOf) : NameOf(h, secretOf, certificates, current) = n}]

ParentsOf(current) == [h \in Host |-> current[h].parent]

Outcome(secretOf, certificates, current, ov) ==
    PlaceListeners(Listening(secretOf, certificates, current), ParentsOf(current), ov)

ListenersOf(secretOf, certificates, current) ==
    {ListenerOf(h, secretOf, certificates, current) : h \in Declared(secretOf)}

\* What BuildManagedGateway is given.
PlanInputs(ings, certificates, current, ov) ==
    /\ Selection(ings)
    /\ certificates \in [Secret -> CertificateInfo]
    /\ current \in [Host -> Placement]
    /\ ov \in BOOLEAN

\* What the planner collects and is given has the types the lemmas above ask for.
LEMMA InputsOf ==
  ASSUME NEW ings, NEW ce, NEW cu, NEW ov, PlanInputs(ings, ce, cu, ov)
  PROVE  /\ Inputs(SecretOf(ings), ce, cu)
         /\ ParentsOf(cu) \in [Host -> Parent \cup {Nowhere}]
         /\ Collect(ings) \in Collected
  <1>1. \A h \in Host : Collect(ings) \in Collected
    BY CollectSummary DEF PlanInputs
  <1>2. Collect(ings) \in Collected
    BY CollectGives DEF CollectedFrom, PlanInputs
  <1>3. SecretOf(ings) \in [Host -> Secret \cup {NoSecret}]
    BY <1>2 DEF SecretOf, Collected
  <1>4. ParentsOf(cu) \in [Host -> Parent \cup {Nowhere}]
    BY DEF ParentsOf, PlanInputs, Placement
  <1> QED
    BY <1>2, <1>3, <1>4 DEF Inputs, PlanInputs

\* What each listener serves.
LEMMA ServesIs ==
  ASSUME NEW so, NEW ce, NEW cu, Inputs(so, ce, cu)
  PROVE  /\ [n \in Host |-> UNION {l.hosts : l \in {m \in ListenersOf(so, ce, cu) : m.hostname = n}}]
              = Listening(so, ce, cu)
         /\ Listening(so, ce, cu) \in [Host -> SUBSET Host]
         /\ {n \in Host : Listening(so, ce, cu)[n] # {}} = {l.hostname : l \in ListenersOf(so, ce, cu)}
         /\ {n \in Host : Listening(so, ce, cu)[n] # {}} = {NameOf(h, so, ce, cu) : h \in Declared(so)}
         /\ \A h \in Declared(so) : h \in Host /\ NameOf(h, so, ce, cu) \in Host
                                     /\ h \in Listening(so, ce, cu)[NameOf(h, so, ce, cu)]
  <1> DEFINE L(h) == ListenerOf(h, so, ce, cu)
             D == Declared(so)
             All == ListenersOf(so, ce, cu)
  <1>1. \A h \in D : /\ h \in Host /\ L(h).hostname \in Host
                     /\ h \in L(h).hosts /\ L(h).hosts \subseteq D
                     /\ \A g \in L(h).hosts : L(g) = L(h)
    BY ListenerOfIs DEF Declared
  <1>2. All = {L(h) : h \in D}
    BY DEF ListenersOf
  <1>3. Listening(so, ce, cu) = [n \in Host |-> {h \in D : L(h).hostname = n}]
    BY DEF Listening, NameOf
  <1> HIDE DEF L, D, All
  <1>4. ASSUME NEW n \in Host
        PROVE  UNION {l.hosts : l \in {m \in All : m.hostname = n}} = {h \in D : L(h).hostname = n}
    <2>1. ASSUME NEW h \in D, L(h).hostname = n
          PROVE  \E l \in All : l.hostname = n /\ h \in l.hosts
      BY <1>1, <1>2, <2>1
    <2>2. ASSUME NEW l \in All, l.hostname = n, NEW h \in l.hosts
          PROVE  h \in D /\ L(h).hostname = n
      <3>1. PICK g \in D : l = L(g)
        BY <1>2
      <3> QED
        BY <1>1, <2>2, <3>1
    <2> QED
      BY <2>1, <2>2
  <1>5. [n \in Host |-> UNION {l.hosts : l \in {m \in All : m.hostname = n}}] = Listening(so, ce, cu)
    BY <1>3, <1>4
  <1>6. Listening(so, ce, cu) \in [Host -> SUBSET Host]
    BY <1>1, <1>3
  <1>7. {n \in Host : Listening(so, ce, cu)[n] # {}} = {L(h).hostname : h \in D}
    BY <1>1, <1>3
  <1>8. {L(h).hostname : h \in D} = {l.hostname : l \in All}
    BY <1>2
  <1>9. \A h \in D : h \in Listening(so, ce, cu)[L(h).hostname]
    BY <1>1, <1>3
  <1> QED
    BY <1>1, <1>5, <1>6, <1>7, <1>8, <1>9 DEF L, D, All, NameOf

\* BuildManagedGateway is the plan of the listeners of ListenersOf and of their
\* places.
LEMMA BuildIs ==
  ASSUME NEW ings, NEW ce, NEW cu, NEW ov, PlanInputs(ings, ce, cu, ov)
  PROVE  BuildManagedGateway(ings, ce, cu, ov)
           = PlanOf(Collect(ings), ListenersOf(SecretOf(ings), ce, cu),
                    Listening(SecretOf(ings), ce, cu), Outcome(SecretOf(ings), ce, cu, ov))
  <1> DEFINE so == SecretOf(ings)
  <1>1. Inputs(so, ce, cu)
    BY InputsOf
  <1>2. BuildManagedGateway(ings, ce, cu, ov)
          = PlaceProjected(Collect(ings), Projected(so, ce, cu), cu, ov)
    BY DEF BuildManagedGateway, SecretOf
  <1> HIDE DEF so
  <1>3. Projected(so, ce, cu) = ListenersOf(so, ce, cu)
    BY <1>1, ProjectedIs DEF ListenersOf
  <1>4. PlaceProjected(Collect(ings), ListenersOf(so, ce, cu), cu, ov)
          = PlanOf(Collect(ings), ListenersOf(so, ce, cu), Listening(so, ce, cu), Outcome(so, ce, cu, ov))
    BY <1>1, ServesIs DEF PlaceProjected, Outcome, ParentsOf
  <1> QED
    BY <1>2, <1>3, <1>4 DEF so

\* What the listeners and their places come to, hostname by hostname.
LEMMA PlanIs ==
  ASSUME NEW ings, NEW ce, NEW cu, NEW ov, PlanInputs(ings, ce, cu, ov), EnoughSets
  PROVE  LET so  == SecretOf(ings)
             out == Outcome(so, ce, cu, ov)
             p   == BuildManagedGateway(ings, ce, cu, ov)
             name(h) == NameOf(h, so, ce, cu)
         IN  /\ p.tlsHosts = Declared(so)
             /\ p.projected = ListenersOf(so, ce, cu)
             /\ p.sections \in [Host -> [listener : Host \cup {NoHost}, parent : Parent \cup {Nowhere}]]
             /\ \A h \in Host : p.sections[h] =
                    IF h \in Declared(so) /\ out.placed[name(h)] # Nowhere
                    THEN [listener |-> name(h), parent |-> out.placed[name(h)]] ELSE NoSection
             /\ p.placements \in [Host -> Placement]
             /\ \A n \in Host : p.placements[n].parent = out.placed[n]
             /\ \A h \in Declared(so) : out.placed[name(h)] # Nowhere =>
                    p.placements[name(h)].secret = ListenerOf(h, so, ce, cu).secret
             /\ Collect(ings).issues \subseteq p.issues
             /\ \A h \in Declared(so) : out.placed[name(h)] = Nowhere =>
                    \A s \in Collect(ings).declaredBy[h] : [source |-> s, host |-> h] \in p.issues
             /\ p.grants = {p.placements[h].secret : h \in Host} \ (LocalSecret \cup {NoSecret})
  <1> DEFINE so == SecretOf(ings)
             c == Collect(ings)
             D == Declared(so)
             serves == Listening(so, ce, cu)
             all == ListenersOf(so, ce, cu)
             out == Outcome(so, ce, cu, ov)
             L(h) == ListenerOf(h, so, ce, cu)
             name(h) == NameOf(h, so, ce, cu)
             p == BuildManagedGateway(ings, ce, cu, ov)
             secret(n) == (CHOOSE l \in all : l.hostname = n).secret
             servedBy(h) == {n \in Host : out.placed[n] # Nowhere /\ h \in serves[n]}
             placements == [n \in Host |-> IF out.placed[n] = Nowhere THEN NoPlacement
                                           ELSE [parent |-> out.placed[n], secret |-> secret(n)]]
             section(n) == [listener |-> n, parent |-> out.placed[n]]
             rejected == UNION {serves[n] : n \in out.unplaced}
             LS == {n \in Host : serves[n] # {}}
  <1>1. Inputs(so, ce, cu) /\ ParentsOf(cu) \in [Host -> Parent \cup {Nowhere}] /\ ov \in BOOLEAN
    BY InputsOf DEF PlanInputs
  <1>2. p = PlanOf(c, all, serves, out)
    BY BuildIs
  <1>3. /\ p.tlsHosts = {h \in Host : c.owner[h].secret # NoSecret}
        /\ p.projected = all
        /\ p.sections = [h \in Host |-> IF servedBy(h) = {} THEN NoSection
                                        ELSE section(CHOOSE n \in servedBy(h) : TRUE)]
        /\ p.placements = placements
        /\ p.issues = c.issues \cup UNION {[source : c.declaredBy[h], host : {h}] : h \in rejected}
        /\ p.grants = Grants(placements)
    <2> HIDE DEF so, c, D, serves, all, out, L, p
    <2> QED
      BY <1>2 DEF PlanOf
  <1>4. {h \in Host : c.owner[h].secret # NoSecret} = D
    BY DEF Declared, SecretOf
  <1> HIDE DEF so
  <1>5. /\ serves \in [Host -> SUBSET Host]
        /\ \A h \in D : h \in Host /\ name(h) \in Host /\ h \in serves[name(h)]
        /\ LS = {name(h) : h \in D}
    BY <1>1, ServesIs
  <1>6. serves = [n \in Host |-> {h \in D : name(h) = n}]
    BY DEF Listening
  <1>7. WithinLimits(out, LS, ov)
    BY <1>1, <1>5, PlaceListenersIs DEF Outcome
  <1>8. all = {L(h) : h \in D} /\ \A h \in D : name(h) = L(h).hostname /\ L(h).secret \in Secret
    BY <1>1, ListenerOfIs DEF ListenersOf, NameOf
  <1>9. \A g, h \in D : name(g) = name(h) => L(g) = L(h)
    BY <1>1, OneName DEF NameOf
  <1> HIDE DEF c, D, serves, all, out, L, name, p, LS
  <1>10. /\ out.placed \in [Host -> Parent \cup {Nowhere}]
         /\ \A n \in Host : out.placed[n] # Nowhere <=> n \in LS /\ n \notin out.unplaced
         /\ out.unplaced \subseteq LS
    BY <1>7 DEF WithinLimits
  <1>11. ASSUME NEW h \in D
         PROVE  secret(name(h)) = L(h).secret
    <2>1. L(h) \in all /\ L(h).hostname = name(h)
      BY <1>8
    <2>2. \A l \in all : l.hostname = name(h) => l = L(h)
      BY <1>8, <1>9
    <2> QED
      BY <2>1, <2>2
  <1>12. \A n \in Host : out.placed[n] # Nowhere => \E h \in D : n = name(h)
    BY <1>5, <1>10
  <1>13. \A n \in Host : out.placed[n] # Nowhere => secret(n) \in Secret
    BY <1>8, <1>11, <1>12
  <1>14. p.placements \in [Host -> Placement]
    <2>1. \A n \in Host : placements[n] \in Placement
      <3> HIDE DEF secret
      <3> QED
        BY <1>10, <1>13 DEF Placement, NoPlacement, NoSecret
    <2> HIDE DEF secret
    <2> QED
      BY <1>3, <2>1
  <1>15. \A n \in Host : p.placements[n].parent = out.placed[n]
    <2> HIDE DEF secret
    <2> QED
      BY <1>3 DEF NoPlacement
  <1>16. ASSUME NEW h \in D, out.placed[name(h)] # Nowhere
         PROVE  p.placements[name(h)].secret = L(h).secret
    <2>1. p.placements[name(h)].secret = secret(name(h))
      <3> HIDE DEF secret
      <3> QED
        BY <1>3, <1>5, <1>16
    <2> QED
      BY <1>11, <2>1
  <1>17. ASSUME NEW h \in Host
         PROVE  p.sections[h] = IF h \in D /\ out.placed[name(h)] # Nowhere
                                THEN section(name(h)) ELSE NoSection
    <2>1. servedBy(h) = IF h \in D /\ out.placed[name(h)] # Nowhere THEN {name(h)} ELSE {}
      BY <1>5, <1>6
    <2>2. \A x : (CHOOSE n \in {x} : TRUE) = x
      OBVIOUS
    <2>3. p.sections[h] = IF servedBy(h) = {} THEN NoSection
                          ELSE section(CHOOSE n \in servedBy(h) : TRUE)
      <3> HIDE DEF servedBy, section
      <3> QED
        BY <1>3
    <2> HIDE DEF servedBy, section
    <2> QED
      BY <2>1, <2>2, <2>3
  <1>18. p.sections \in [Host -> [listener : Host \cup {NoHost}, parent : Parent \cup {Nowhere}]]
    <2>1. \A h \in Host : p.sections[h] \in [listener : Host \cup {NoHost}, parent : Parent \cup {Nowhere}]
      <3> SUFFICES ASSUME NEW h \in Host
                   PROVE  p.sections[h] \in [listener : Host \cup {NoHost}, parent : Parent \cup {Nowhere}]
        OBVIOUS
      <3> HIDE DEF section, servedBy
      <3>1. p.sections[h] = IF h \in D /\ out.placed[name(h)] # Nowhere THEN section(name(h)) ELSE NoSection
        BY <1>17
      <3>2. CASE h \in D /\ out.placed[name(h)] # Nowhere
        <4>1. name(h) \in Host /\ out.placed[name(h)] \in Parent \cup {Nowhere}
          BY <1>5, <1>10, <3>2
        <4>2. p.sections[h] = [listener |-> name(h), parent |-> out.placed[name(h)]]
          BY <3>1, <3>2 DEF section
        <4> QED
          BY <4>1, <4>2
      <3>3. CASE ~(h \in D /\ out.placed[name(h)] # Nowhere)
        <4>1. p.sections[h] = NoSection
          BY <3>1, <3>3
        <4> QED
          BY <4>1 DEF NoSection
      <3> QED
        BY <3>2, <3>3
    <2> HIDE DEF section, servedBy
    <2> QED
      BY <1>3, <2>1
  <1>19. ASSUME NEW h \in D, out.placed[name(h)] = Nowhere, NEW s \in c.declaredBy[h]
         PROVE  [source |-> s, host |-> h] \in p.issues
    <2>1. name(h) \in out.unplaced
      BY <1>5, <1>10, <1>19
    <2>2. h \in rejected
      BY <1>5, <2>1
    <2> HIDE DEF rejected
    <2> QED
      BY <1>3, <2>2
  <1>20. p.grants = {p.placements[h].secret : h \in Host} \ (LocalSecret \cup {NoSecret})
    BY <1>3 DEF Grants
  <1>21. \A h \in Host : p.sections[h] = IF h \in D /\ out.placed[name(h)] # Nowhere
                                       THEN [listener |-> name(h), parent |-> out.placed[name(h)]]
                                       ELSE NoSection
    BY <1>17
  <1>22. p.tlsHosts = D /\ p.projected = all /\ c.issues \subseteq p.issues
    BY <1>3, <1>4
  <1> HIDE DEF secret, servedBy, section, placements, rejected
  <1> QED
    BY <1>14, <1>15, <1>16, <1>18, <1>19, <1>20, <1>21, <1>22
       DEF c, D, all, out, L, name, p, so

-----------------------------------------------------------------------------
(***************************************************************************)
(* Planning again from the placements of a plan that refused nobody.       *)
(***************************************************************************)
\* The placements are those of the listeners, and every listener has one.
AllPlaced(placements, secretOf, certificates, current) ==
    /\ placements \in [Host -> Placement]
    /\ \A n \in Host : placements[n].parent # Nowhere
                       <=> \E h \in Declared(secretOf) : n = NameOf(h, secretOf, certificates, current)
    /\ \A h \in Declared(secretOf) :
          placements[NameOf(h, secretOf, certificates, current)].secret
            = ListenerOf(h, secretOf, certificates, current).secret

\* A hostname under its wildcard has no listener of its own.
LEMMA NoneOfItsOwn ==
  ASSUME NEW so, NEW ce, NEW cu, Inputs(so, ce, cu), NEW P, AllPlaced(P, so, ce, cu),
         NEW h \in Declared(so), NameOf(h, so, ce, cu) # h
  PROVE  P[h].parent = Nowhere
  <1> SUFFICES ASSUME P[h].parent # Nowhere PROVE FALSE
    OBVIOUS
  <1>1. h \in Host
    BY DEF Declared
  <1>2. PICK g \in Declared(so) : h = NameOf(g, so, ce, cu)
    BY <1>1 DEF AllPlaced
  <1>3. h \in ListenerOf(g, so, ce, cu).hosts
    BY <1>2, ListenerOfIs DEF NameOf
  <1>4. ListenerOf(h, so, ce, cu) = ListenerOf(g, so, ce, cu)
    BY <1>3, ListenerOfIs
  <1> QED
    BY <1>2, <1>4 DEF NameOf

\* The claims of a wildcard are where the plan put them.
LEMMA PreviousIs ==
  ASSUME NEW so, NEW ce, NEW cu, Inputs(so, ce, cu), NEW P, AllPlaced(P, so, ce, cu),
         NEW t \in Wildcard, NEW h \in ClaimsOf(t, so, ce), t \notin ClaimsOf(t, so, ce)
  PROVE  /\ Previous(h, t, P) = IF h \in WinnerOf(t, so, ce, cu) THEN t ELSE h
         /\ h # t /\ h # NoHost /\ t # NoHost
  <1>1. h \in Declared(so) /\ h \in Host /\ Target(h, so, ce) = t /\ h # t /\ t \in Host
    BY HostAssumption DEF ClaimsOf, Declared
  <1>2. h # NoHost /\ t # NoHost
    BY <1>1, HostAssumption DEF NoHost
  <1>3. Collapsed(h, so, ce, cu) <=> h \in WinnerOf(t, so, ce, cu)
    BY <1>1 DEF Collapsed
  <1>4. NameOf(h, so, ce, cu) = IF h \in WinnerOf(t, so, ce, cu) THEN t ELSE h
    BY <1>1, <1>3 DEF NameOf, ListenerOf, WildcardListener, ExactListener
  <1>5. P[NameOf(h, so, ce, cu)].parent # Nowhere
    BY <1>1, <1>4 DEF AllPlaced
  <1>6. CASE h \in WinnerOf(t, so, ce, cu)
    <2>1. P[h].parent = Nowhere
      BY <1>1, <1>4, <1>6, NoneOfItsOwn
    <2> QED
      BY <1>1, <1>2, <1>4, <1>5, <1>6, <2>1 DEF Previous
  <1>7. CASE h \notin WinnerOf(t, so, ce, cu)
    BY <1>1, <1>2, <1>4, <1>5, <1>7 DEF Previous
  <1> QED
    BY <1>1, <1>2, <1>6, <1>7

\* The class that won a wildcard moves nobody, any other one somebody.
LEMMA WinnerStays ==
  ASSUME NEW so, NEW ce, NEW cu, Inputs(so, ce, cu), NEW P, AllPlaced(P, so, ce, cu),
         NEW t \in Wildcard, ClaimsOf(t, so, ce) # {}
  PROVE  WinnerOf(t, so, ce, P) = WinnerOf(t, so, ce, cu)
  <1> DEFINE claims == ClaimsOf(t, so, ce)
             class(h) == Members(ClassOf(so[h], ce), claims, so, ce)
             classes == {class(h) : h \in claims}
             W == WinnerOf(t, so, ce, cu)
             churn(m) == Churn(m, t, claims, P)
             better(m, n) == Better(m, n, t, claims, so, P)
  <1>1. CASE t \in claims
    BY <1>1 DEF WinnerOf, Winner
  <1>2. CASE t \notin claims
    <2>1. claims \subseteq Declared(so) /\ claims \subseteq Host
      BY DEF ClaimsOf, Declared
    <2>2. \E g \in W : W = class(g)
      <3> HIDE DEF claims
      <3> QED
        BY <2>1, WinnerIsClass DEF WinnerOf, claims
    <2>3. W \subseteq claims
      BY WinnerOfIs
    <2>4. WinnerOf(t, so, ce, P) = CHOOSE m \in classes : \A n \in classes \ {m} : better(m, n)
      BY <1>2 DEF WinnerOf, Winner
    <2>5. \A h \in claims : /\ Previous(h, t, P) = IF h \in W THEN t ELSE h
                            /\ h # t /\ h # NoHost /\ t # NoHost
      BY <1>2, PreviousIs
    <2>6. \A h \in claims : h \in class(h)
      BY DEF Members
    <2>7. \A g, h \in claims : g \in class(h) => class(g) = class(h)
      BY DEF Members
    <2>8. \A m : churn(m) \in Nat
      <3> HIDE DEF claims
      <3> QED
        BY <2>1, ChurnType
    <2>9. churn(W) = 0
      <3>1. {h \in claims : Previous(h, t, P) \notin {NoHost, IF h \in W THEN t ELSE h}} = {}
        BY <2>5
      <3> QED
        BY <3>1, FS_EmptySet DEF Churn
    <2>10. ASSUME NEW m \in classes, m # W
           PROVE  churn(m) # 0
      <3> DEFINE moved == {h \in claims : Previous(h, t, P) \notin {NoHost, IF h \in m THEN t ELSE h}}
      <3>1. PICK x \in claims : m = class(x)
        OBVIOUS
      <3>2. x \in m
        BY <2>6, <3>1
      <3>3. x \notin W
        BY <2>2, <2>3, <2>7, <2>10, <3>1
      <3>4. x \in moved
        BY <2>5, <3>2, <3>3
      <3>5. IsFiniteSet(moved)
        BY <2>1, HostAssumption, FS_Subset
      <3> HIDE DEF moved
      <3>6. Cardinality(moved) # 0
        BY <3>4, <3>5, FS_EmptySet
      <3> QED
        BY <3>6 DEF Churn, moved
    <2>11. W \in classes
      BY <2>2, <2>3
    <2> HIDE DEF claims, class, classes, W, churn
    <2>12. \A m, n : better(m, n) => churn(m) <= churn(n)
      BY <2>8 DEF Better, churn
    <2>13. \A m, n : churn(m) < churn(n) => better(m, n)
      BY DEF Better, churn
    <2> HIDE DEF better
    <2>14. \A n \in classes \ {W} : better(W, n)
      <3> SUFFICES ASSUME NEW n \in classes, n # W PROVE churn(W) < churn(n)
        BY <2>13
      <3> QED
        BY <2>8, <2>9, <2>10
    <2>15. ASSUME NEW m \in classes, m # W, \A n \in classes \ {m} : better(m, n)
           PROVE  FALSE
      <3>1. churn(m) <= churn(W)
        BY <2>11, <2>12, <2>15
      <3> QED
        BY <2>8, <2>9, <2>10, <2>15, <3>1
    <2> QED
      BY <2>4, <2>11, <2>14, <2>15 DEF W
  <1> QED
    BY <1>1, <1>2

\* So the same listeners are projected.
LEMMA ListenersStay ==
  ASSUME NEW so, NEW ce, NEW cu, Inputs(so, ce, cu), NEW P, AllPlaced(P, so, ce, cu)
  PROVE  \A h \in Declared(so) : ListenerOf(h, so, ce, P) = ListenerOf(h, so, ce, cu)
  <1> SUFFICES ASSUME NEW h \in Declared(so)
               PROVE  ListenerOf(h, so, ce, P) = ListenerOf(h, so, ce, cu)
    OBVIOUS
  <1> DEFINE t == Target(h, so, ce)
             W == WinnerOf(t, so, ce, cu)
  <1>1. h \in ClaimsOf(t, so, ce)
    BY DEF ClaimsOf
  <1>2. CASE t \notin Wildcard
    BY <1>2 DEF ListenerOf, Collapsed
  <1>3. CASE t \in Wildcard
    <2>1. WinnerOf(t, so, ce, P) = W
      BY <1>1, <1>3, WinnerStays
    <2>2. CASE h \notin W
      BY <2>1, <2>2 DEF ListenerOf, Collapsed
    <2>3. CASE h \in W
      <3>1. ListenerOf(h, so, ce, cu) = WildcardListener(t, so, ce, cu)
            /\ ListenerOf(h, so, ce, P) = WildcardListener(t, so, ce, P)
        BY <1>3, <2>1, <2>3 DEF ListenerOf, Collapsed
      <3>2. NameOf(h, so, ce, cu) = t /\ ListenerOf(h, so, ce, cu).secret = Canonical(t, so, ce, cu)
        BY <3>1 DEF NameOf, WildcardListener
      <3>3. P[t].secret = Canonical(t, so, ce, cu)
        BY <3>2 DEF AllPlaced
      <3>4. Canonical(t, so, ce, cu) \in SecretsOf(W, so)
        BY <1>1, WinnerOfIs
      <3>5. Canonical(t, so, ce, P) = Canonical(t, so, ce, cu)
        <4> HIDE DEF W, t
        <4>1. Canonical(t, so, ce, P) = IF P[t].secret \in SecretsOf(W, so) THEN P[t].secret
                                        ELSE Min(SecretsOf(W, so))
          BY <2>1 DEF Canonical
        <4> QED
          BY <3>3, <3>4, <4>1
      <3> QED
        BY <2>1, <3>1, <3>5 DEF WildcardListener
    <2> QED
      BY <2>2, <2>3
  <1> QED
    BY <1>2, <1>3

\* The places of the listeners of a plan.
LEMMA OutcomeIs ==
  ASSUME NEW ings, NEW ce, NEW cu, NEW ov, PlanInputs(ings, ce, cu, ov), EnoughSets
  PROVE  LET so    == SecretOf(ings)
             out   == Outcome(so, ce, cu, ov)
             names == {NameOf(h, so, ce, cu) : h \in Declared(so)}
         IN  /\ WithinLimits(out, names, ov)
             /\ Stays(out, names, ParentsOf(cu), ov)
             /\ RefusesForRoom(out, ov)
             /\ OpensForRoom(out, Listening(so, ce, cu), ParentsOf(cu))
  <1> DEFINE so == SecretOf(ings)
             serves == Listening(so, ce, cu)
  <1>1. Inputs(so, ce, cu) /\ ParentsOf(cu) \in [Host -> Parent \cup {Nowhere}] /\ ov \in BOOLEAN
    BY InputsOf DEF PlanInputs
  <1> HIDE DEF so
  <1>2. serves \in [Host -> SUBSET Host]
        /\ {n \in Host : serves[n] # {}} = {NameOf(h, so, ce, cu) : h \in Declared(so)}
    BY <1>1, ServesIs
  <1> HIDE DEF serves
  <1>3. LET out == PlaceListeners(serves, ParentsOf(cu), ov)
            L   == {h \in Host : serves[h] # {}}
        IN  /\ WithinLimits(out, L, ov)
            /\ Stays(out, L, ParentsOf(cu), ov)
            /\ RefusesForRoom(out, ov)
            /\ OpensForRoom(out, serves, ParentsOf(cu))
    BY <1>1, <1>2, PlaceListenersIs
  <1>4. Outcome(so, ce, cu, ov) = PlaceListeners(serves, ParentsOf(cu), ov)
    BY DEF Outcome, serves
  <1> QED
    BY <1>2, <1>3, <1>4 DEF so, serves

\* Whoever is refused knows of it, so a plan without refusals has a section for
\* every declared hostname and a place for every listener.
LEMMA PlacedWhenServed ==
  ASSUME NEW ings, NEW ce, NEW cu, NEW ov, PlanInputs(ings, ce, cu, ov), EnoughSets,
         LET p == BuildManagedGateway(ings, ce, cu, ov) IN \A h \in p.tlsHosts : p.sections[h] # NoSection
  PROVE  /\ AllPlaced(BuildManagedGateway(ings, ce, cu, ov).placements, SecretOf(ings), ce, cu)
         /\ Outcome(SecretOf(ings), ce, cu, ov).unplaced = {}
  <1> DEFINE so == SecretOf(ings)
             p == BuildManagedGateway(ings, ce, cu, ov)
             out == Outcome(so, ce, cu, ov)
             name(h) == NameOf(h, so, ce, cu)
             D == Declared(so)
             names == {name(h) : h \in D}
  <1>1. /\ p.tlsHosts = D
        /\ \A h \in Host : p.sections[h] =
                IF h \in D /\ out.placed[name(h)] # Nowhere
                THEN [listener |-> name(h), parent |-> out.placed[name(h)]] ELSE NoSection
        /\ p.placements \in [Host -> Placement]
        /\ \A n \in Host : p.placements[n].parent = out.placed[n]
        /\ \A h \in D : out.placed[name(h)] # Nowhere =>
               p.placements[name(h)].secret = ListenerOf(h, so, ce, cu).secret
    BY PlanIs
  <1>2. WithinLimits(out, names, ov)
    BY OutcomeIs
  <1>3. \A h \in D : h \in Host /\ name(h) \in Host
    <2>1. Inputs(so, ce, cu)
      BY InputsOf
    <2> HIDE DEF so
    <2> QED
      BY <2>1, ListenerOfIs DEF NameOf, Declared
  <1>4. \A h \in D : p.sections[h] # NoSection
    BY <1>1
  <1> HIDE DEF so, p, out, name, D
  <1>5. \A h \in D : out.placed[name(h)] # Nowhere
    BY <1>1, <1>3, <1>4
  <1>6. /\ \A n \in Host : out.placed[n] # Nowhere <=> n \in names /\ n \notin out.unplaced
        /\ out.unplaced \subseteq names
    BY <1>2 DEF WithinLimits
  <1>7. out.unplaced = {}
    BY <1>3, <1>5, <1>6
  <1>8. \A n \in Host : p.placements[n].parent # Nowhere <=> \E h \in D : n = name(h)
    BY <1>1, <1>6, <1>7
  <1>9. \A h \in D : p.placements[name(h)].secret = ListenerOf(h, so, ce, cu).secret
    BY <1>1, <1>5
  <1>10. AllPlaced(p.placements, so, ce, cu)
    BY <1>1, <1>8, <1>9 DEF AllPlaced, D, name
  <1> QED
    BY <1>7, <1>10 DEF p, out, so

(***************************************************************************)
(* With ListenerSets there is room for every listener, so every declared   *)
(* hostname has a section.                                                 *)
(***************************************************************************)
LEMMA SetsServeAll ==
  ASSUME NEW ings, NEW ce, NEW cu, NEW ov, PlanInputs(ings, ce, cu, ov), EnoughSets
  PROVE  LET p == BuildManagedGateway(ings, ce, cu, ov) IN ov => \A h \in p.tlsHosts : p.sections[h] # NoSection
  <1> DEFINE p == BuildManagedGateway(ings, ce, cu, ov)
             so == SecretOf(ings)
             out == Outcome(so, ce, cu, ov)
             D == Declared(so)
             name(h) == NameOf(h, so, ce, cu)
             names == {name(h) : h \in D}
  <1>1. /\ p.tlsHosts = D
        /\ \A h \in Host : p.sections[h] =
               IF h \in D /\ out.placed[name(h)] # Nowhere
               THEN [listener |-> name(h), parent |-> out.placed[name(h)]] ELSE NoSection
    BY PlanIs
  <1>2. WithinLimits(out, names, ov) /\ RefusesForRoom(out, ov)
    BY OutcomeIs
  <1>3. Inputs(so, ce, cu)
    BY InputsOf
  <1> HIDE DEF so
  <1>4. \A h \in D : h \in Host /\ name(h) \in Host
    BY <1>3, ListenerOfIs DEF NameOf, Declared
  <1> HIDE DEF p, out, D, name
  <1> SUFFICES ASSUME ov PROVE \A h \in p.tlsHosts : p.sections[h] # NoSection
    BY DEF p
  <1>5. out.unplaced = {}
    BY <1>2 DEF RefusesForRoom
  <1>6. \A h \in D : out.placed[name(h)] # Nowhere
    BY <1>2, <1>4, <1>5 DEF WithinLimits
  <1>7. ASSUME NEW h \in D PROVE p.sections[h] # NoSection
    <2>1. p.sections[h] = [listener |-> name(h), parent |-> out.placed[name(h)]]
      BY <1>1, <1>4, <1>6
    <2>2. p.sections[h].parent # Nowhere
      BY <1>6, <2>1
    <2> QED
      BY <2>2 DEF NoSection
  <1> QED
    BY <1>1, <1>7

\* The section of h in a plan names a listener that is where the plan says.
SectionPlaced(p, h) ==
    /\ p.sections[h].listener \in Host
    /\ p.placements[p.sections[h].listener].parent = p.sections[h].parent

\* With ListenerSets all sections are such.
LEMMA SectionsPlaced ==
  ASSUME NEW ings, NEW ce, NEW cu, NEW ov, PlanInputs(ings, ce, cu, ov), EnoughSets
  PROVE  LET p == BuildManagedGateway(ings, ce, cu, ov) IN
         ov => \A h \in p.tlsHosts : h \in Host /\ SectionPlaced(p, h)
  <1> DEFINE p == BuildManagedGateway(ings, ce, cu, ov)
             so == SecretOf(ings)
             out == Outcome(so, ce, cu, ov)
             D == Declared(so)
             name(h) == NameOf(h, so, ce, cu)
  <1>1. /\ p.tlsHosts = D
        /\ \A h \in Host : p.sections[h] =
               IF h \in D /\ out.placed[name(h)] # Nowhere
               THEN [listener |-> name(h), parent |-> out.placed[name(h)]] ELSE NoSection
    BY PlanIs
  <1>2. \A n \in Host : p.placements[n].parent = out.placed[n]
    BY PlanIs
  <1>3. ov => \A h \in p.tlsHosts : p.sections[h] # NoSection
    BY SetsServeAll
  <1>4. Inputs(so, ce, cu)
    BY InputsOf
  <1> HIDE DEF so
  <1>5. \A h \in D : h \in Host /\ name(h) \in Host
    BY <1>4, ListenerOfIs DEF NameOf, Declared
  <1> HIDE DEF p, out, D, name
  <1>6. ASSUME ov, NEW h \in p.tlsHosts
        PROVE  h \in Host /\ SectionPlaced(p, h)
    <2>1. h \in D /\ h \in Host /\ name(h) \in Host
      BY <1>1, <1>5, <1>6
    <2>2. p.sections[h] = [listener |-> name(h), parent |-> out.placed[name(h)]]
      BY <1>1, <1>3, <1>6, <2>1
    <2> QED
      BY <1>2, <2>1, <2>2 DEF SectionPlaced
  <1> QED
    BY <1>6 DEF p

(***************************************************************************)
(* The placements of a plan: nothing but places and their Secrets, no      *)
(* parent beyond its capacity, and no listener taken from a parent that    *)
(* had room for all of its own.                                            *)
(***************************************************************************)
Fits(parents, ov) ==
    \A i \in Parent : /\ Cardinality(At(parents, i)) <= Capacity(i)
                      /\ At(parents, i) # {} => Usable(i, ov)

\* The statement above holds of every plan.
LEMMA PlacementsAre ==
  ASSUME NEW ings, NEW ce, NEW cu, NEW ov, PlanInputs(ings, ce, cu, ov), EnoughSets
  PROVE  LET new == BuildManagedGateway(ings, ce, cu, ov).placements
         IN  /\ new \in [Host -> Placement]
             /\ Fits(ParentsOf(new), ov)
             /\ \A h \in Host : new[h].parent = Nowhere => new[h] = NoPlacement
             /\ Fits(ParentsOf(cu), ov) =>
                   \A h \in Host : new[h].parent # Nowhere /\ cu[h].parent # Nowhere
                                   => new[h].parent = cu[h].parent
  <1> DEFINE so == SecretOf(ings)
             p == BuildManagedGateway(ings, ce, cu, ov)
             out == Outcome(so, ce, cu, ov)
             names == {NameOf(h, so, ce, cu) : h \in Declared(so)}
             old == ParentsOf(cu)
  <1>1. p.placements \in [Host -> Placement] /\ \A n \in Host : p.placements[n].parent = out.placed[n]
    BY PlanIs
  <1>2. WithinLimits(out, names, ov) /\ Stays(out, names, old, ov)
    BY OutcomeIs
  <1>3. ASSUME NEW n \in Host, out.placed[n] = Nowhere
        PROVE  p.placements[n] = NoPlacement
    <2> DEFINE secret(m) == (CHOOSE l \in ListenersOf(so, ce, cu) : l.hostname = m).secret
    <2>1. p.placements = [m \in Host |-> IF out.placed[m] = Nowhere THEN NoPlacement
                                         ELSE [parent |-> out.placed[m], secret |-> secret(m)]]
      BY BuildIs DEF PlanOf
    <2> HIDE DEF p, out, so
    <2> QED
      BY <1>3, <2>1
  <1>4. old \in [Host -> Parent \cup {Nowhere}] /\ \A h \in Host : old[h] = cu[h].parent
    BY InputsOf DEF ParentsOf
  <1>5. names \subseteq Host
    <2>1. Inputs(so, ce, cu)
      BY InputsOf
    <2> HIDE DEF so
    <2> QED
      BY <2>1, ServesIs
  <1> HIDE DEF so, p, out, names, old
  <1>6. ParentsOf(p.placements) = out.placed
    BY <1>1, <1>2 DEF ParentsOf, WithinLimits
  <1>7. Fits(out.placed, ov)
    BY <1>2 DEF WithinLimits, Fits
  <1>8. ASSUME Fits(old, ov), NEW h \in Host, out.placed[h] # Nowhere, old[h] # Nowhere
        PROVE  out.placed[h] = old[h]
    <2> DEFINE i == old[h]
               here == {g \in names : old[g] = old[h]}
    <2>1. i \in Parent /\ h \in At(old, i) /\ h \in names
      BY <1>2, <1>4, <1>8 DEF WithinLimits, At
    <2>2. At(old, i) # {}
      BY <2>1
    <2>3. Cardinality(At(old, i)) <= Capacity(i) /\ Usable(i, ov)
      BY <1>8, <2>1, <2>2 DEF Fits
    <2>4. here \subseteq At(old, i)
      BY <1>5 DEF At
    <2>5. Cardinality(here) <= Capacity(i)
      <3>1. IsFiniteSet(At(old, i)) /\ Cardinality(At(old, i)) \in Nat
        BY AtFinite
      <3>2. Cardinality(here) <= Cardinality(At(old, i)) /\ Cardinality(here) \in Nat
        BY <2>4, <3>1, FS_Subset, FS_CardinalityType
      <3>3. Capacity(i) \in Nat
        BY <2>1, CapacityIsNat
      <3> QED
        BY <2>3, <3>1, <3>2, <3>3
    <2>6. MayStay(h, names, old, ov)
      BY <1>8, <2>3, <2>5 DEF MayStay
    <2> QED
      BY <1>2, <2>1, <2>6 DEF Stays
  <1> QED
    BY <1>1, <1>3, <1>4, <1>6, <1>7, <1>8 DEF p, old

(***************************************************************************)
(* A plan that refused nobody, made again from its own placements, is the  *)
(* same plan, and asks nobody to follow a listener.                        *)
(***************************************************************************)
LEMMA ReplanIsSame ==
  ASSUME NEW ings, NEW ce, NEW cu, NEW ov, PlanInputs(ings, ce, cu, ov), EnoughSets,
         LET p == BuildManagedGateway(ings, ce, cu, ov) IN \A h \in p.tlsHosts : p.sections[h] # NoSection
  PROVE  LET p == BuildManagedGateway(ings, ce, cu, ov) IN
         /\ BuildManagedGateway(ings, ce, p.placements, ov) = p
         /\ ChangedTLSHosts(p.placements, p) = {}
  <1> DEFINE so == SecretOf(ings)
             p == BuildManagedGateway(ings, ce, cu, ov)
             P == p.placements
             out == Outcome(so, ce, cu, ov)
             new == Outcome(so, ce, P, ov)
             name(h) == NameOf(h, so, ce, cu)
             D == Declared(so)
             names == {name(h) : h \in D}
  <1>1. Inputs(so, ce, cu) /\ ov \in BOOLEAN
    BY InputsOf DEF PlanInputs
  <1>2. AllPlaced(P, so, ce, cu) /\ out.unplaced = {}
    BY PlacedWhenServed
  <1>3. PlanInputs(ings, ce, P, ov)
    BY <1>2 DEF PlanInputs, AllPlaced
  <1>4. /\ \A h \in Host : p.sections[h] =
                IF h \in D /\ out.placed[name(h)] # Nowhere
                THEN [listener |-> name(h), parent |-> out.placed[name(h)]] ELSE NoSection
        /\ \A n \in Host : P[n].parent = out.placed[n]
    BY PlanIs
  <1>5. WithinLimits(out, names, ov)
    BY OutcomeIs
  <1>6. p = PlanOf(Collect(ings), ListenersOf(so, ce, cu), Listening(so, ce, cu), out)
    BY BuildIs
  <1>7. \A h \in D : h \in Host /\ name(h) \in Host
    <2> HIDE DEF so
    <2> QED
      BY <1>1, ListenerOfIs DEF NameOf, Declared
  <1> HIDE DEF p, P
  <1>8. WithinLimits(new, {NameOf(h, so, ce, P) : h \in D}, ov)
        /\ Stays(new, {NameOf(h, so, ce, P) : h \in D}, ParentsOf(P), ov)
    BY <1>3, OutcomeIs
  <1>9. BuildManagedGateway(ings, ce, P, ov)
          = PlanOf(Collect(ings), ListenersOf(so, ce, P), Listening(so, ce, P), new)
    BY <1>3, BuildIs
  <1> HIDE DEF so
  <1>10. \A h \in D : ListenerOf(h, so, ce, P) = ListenerOf(h, so, ce, cu)
    BY <1>1, <1>2, ListenersStay
  <1>11. \A h \in D : NameOf(h, so, ce, P) = name(h)
    BY <1>10 DEF NameOf
  <1>12. ListenersOf(so, ce, P) = ListenersOf(so, ce, cu) /\ Listening(so, ce, P) = Listening(so, ce, cu)
    BY <1>10, <1>11 DEF ListenersOf, Listening
  <1>13. {NameOf(h, so, ce, P) : h \in D} = names
    BY <1>11
  <1>14. new = out
    <2> DEFINE c == ParentsOf(P)
    <2>1. \A n \in Host : c[n] = out.placed[n]
      BY <1>4 DEF ParentsOf
    <2>2. WithinLimits(new, names, ov) /\ Stays(new, names, c, ov)
      BY <1>8, <1>13
    <2>3. names \subseteq Host
      BY <1>7
    <2>4. /\ new = [placed |-> new.placed, unplaced |-> new.unplaced]
          /\ out = [placed |-> out.placed, unplaced |-> out.unplaced]
      BY DEF Outcome, PlaceListeners
    <2> HIDE DEF new, out, names, c
    <2>5. /\ out.placed \in [Host -> Parent \cup {Nowhere}]
          /\ \A h \in Host : out.placed[h] # Nowhere <=> h \in names
      BY <1>2, <1>5 DEF WithinLimits
    <2>limit. ASSUME NEW i \in Parent, At(out.placed, i) # {}
              PROVE  Cardinality(At(out.placed, i)) <= Capacity(i) /\ Usable(i, ov)
      BY <1>5, <2>limit DEF WithinLimits
    <2>6. ASSUME NEW h \in names
          PROVE  new.placed[h] = out.placed[h]
      <3> DEFINE i == out.placed[h]
                 here == {g \in names : c[g] = c[h]}
      <3>1. h \in Host /\ i \in Parent /\ c[h] = i /\ i # Nowhere /\ h \in At(out.placed, i)
        BY <2>1, <2>3, <2>5 DEF At
      <3>2. here = At(out.placed, i)
        <4>1. \A g \in Host : out.placed[g] = i => g \in names
          BY <2>5, <3>1
        <4> QED
          BY <2>1, <2>3, <3>1, <4>1 DEF At
      <3> HIDE DEF here, i
      <3>3. Usable(c[h], ov) /\ Cardinality(here) <= Capacity(c[h])
        <4>1. Usable(i, ov) /\ Cardinality(At(out.placed, i)) <= Capacity(i)
          <5>1. At(out.placed, i) # {}
            BY <3>1
          <5> QED
            BY <2>limit, <3>1, <5>1
        <4> QED
          BY <3>1, <3>2, <4>1
      <3>4. MayStay(h, names, c, ov)
        BY <3>1, <3>3 DEF MayStay, here
      <3> QED
        BY <2>2, <3>1, <3>4 DEF Stays, i
    <2>7. /\ new.placed \in [Host -> Parent \cup {Nowhere}]
          /\ new.unplaced \subseteq names
          /\ \A h \in Host : new.placed[h] # Nowhere <=> h \in names /\ h \notin new.unplaced
      BY <2>2 DEF WithinLimits
    <2>8. new.unplaced = {}
      BY <2>3, <2>5, <2>6, <2>7
    <2>9. \A h \in Host : new.placed[h] = out.placed[h]
      BY <2>5, <2>6, <2>7
    <2>10. new.placed = out.placed
      BY <2>5, <2>7, <2>9
    <2> QED
      BY <1>2, <2>4, <2>8, <2>10
  <1>15. BuildManagedGateway(ings, ce, P, ov) = p
    BY <1>6, <1>9, <1>12, <1>14
  <1>16. ASSUME NEW h \in Host, p.sections[h] # NoSection
         PROVE  p.sections[h] = ListenerRefFor(h, P)
    <2> DEFINE n == name(h)
    <2> HIDE DEF out, D
    <2>1. h \in D /\ out.placed[n] # Nowhere /\ p.sections[h] = [listener |-> n, parent |-> out.placed[n]]
      BY <1>4, <1>16
    <2>2. n \in Host /\ P[n].parent = out.placed[n] /\ P[n].parent # Nowhere
      BY <1>4, <1>7, <2>1
    <2>3. n # h => P[h].parent = Nowhere
      BY <1>1, <1>2, <2>1, NoneOfItsOwn DEF D
    <2>4. n # h => h \notin Wildcard /\ n = WildcardOf[h] /\ n \in Wildcard
      BY <1>1, <2>1, ListenerOfIs DEF NameOf, D
    <2> HIDE DEF n, name
    <2>5. CASE n = h
      BY <2>1, <2>2, <2>5 DEF ListenerRefFor
    <2>6. CASE n # h
      <3> DEFINE candidates == {h} \cup Relatives(h, {})
      <3>1. n # NoHost
        BY <2>2, HostAssumption DEF NoHost
      <3>2. candidates = {h, n}
        BY <2>4, <2>6, <3>1 DEF Relatives
      <3>3. \A m \in candidates : P[m].parent # Nowhere <=> m = n
        BY <2>2, <2>3, <2>6, <3>2
      <3>4. (CHOOSE m \in candidates : P[m].parent # Nowhere) = n
        BY <3>2, <3>3
      <3>5. \E m \in candidates : P[m].parent # Nowhere
        BY <3>2, <3>3
      <3>6. ListenerRefFor(h, P) = LET m == CHOOSE m \in candidates : P[m].parent # Nowhere
                                   IN  [listener |-> m, parent |-> P[m].parent]
        BY <2>3, <2>6, <3>5 DEF ListenerRefFor
      <3> HIDE DEF candidates
      <3> QED
        BY <2>1, <2>2, <3>4, <3>6
    <2> QED
      BY <2>5, <2>6
  <1>17. ChangedTLSHosts(P, p) = {}
    BY <1>16 DEF ChangedTLSHosts
  <1> QED
    BY <1>15, <1>17 DEF p, P


(***************************************************************************)
(* With ListenerSets a plan says nothing but what its declarations and its *)
(* placements say: the issues are those of the declarations, and the       *)
(* section of a hostname is the listener the placements have for it.       *)
(***************************************************************************)
FollowsPlacements(p, h) ==
    /\ p.sections[h] = ListenerRefFor(h, p.placements)
    /\ p.sections[h].listener \in {h} \cup IF h \in Wildcard THEN {} ELSE {WildcardOf[h]}

\* The statement above holds of every such plan.
LEMMA SetsPlan ==
  ASSUME NEW ings, NEW ce, NEW cu, NEW ov, PlanInputs(ings, ce, cu, ov), EnoughSets
  PROVE  LET p == BuildManagedGateway(ings, ce, cu, ov) IN
         ov =>
         /\ p.tlsHosts = Declared(SecretOf(ings))
         /\ p.issues = Collect(ings).issues
         /\ p.placements \in [Host -> Placement]
         /\ BuildManagedGateway(ings, ce, p.placements, ov) = p
         /\ \A h \in p.tlsHosts : h \in Host /\ FollowsPlacements(p, h)
  <1> DEFINE p == BuildManagedGateway(ings, ce, cu, ov)
             so == SecretOf(ings)
             out == Outcome(so, ce, cu, ov)
             D == Declared(so)
             name(h) == NameOf(h, so, ce, cu)
  <1>places. p.placements \in [Host -> Placement]
    BY PlanIs
  <1>1. /\ p.tlsHosts = D
        /\ \A h \in Host : p.sections[h] =
               IF h \in D /\ out.placed[name(h)] # Nowhere
               THEN [listener |-> name(h), parent |-> out.placed[name(h)]] ELSE NoSection
    BY PlanIs
  <1>2. ov => \A h \in p.tlsHosts : p.sections[h] # NoSection
    BY SetsServeAll
  <1>3. ov => BuildManagedGateway(ings, ce, p.placements, ov) = p /\ ChangedTLSHosts(p.placements, p) = {}
    BY <1>2, ReplanIsSame
  <1>4. ov => p.issues = Collect(ings).issues
    <2>1. RefusesForRoom(out, ov)
      BY OutcomeIs
    <2>2. ov => out.unplaced = {}
      BY <2>1 DEF RefusesForRoom
    <2>3. p = PlanOf(Collect(ings), ListenersOf(so, ce, cu), Listening(so, ce, cu), out)
      BY BuildIs
    <2> HIDE DEF p, out, so
    <2>4. ov => PlanOf(Collect(ings), ListenersOf(so, ce, cu), Listening(so, ce, cu), out).issues = Collect(ings).issues
      BY <2>2 DEF PlanOf
    <2> QED
      BY <2>3, <2>4
  <1>5. \A h \in D : h \in Host /\ (name(h) = h \/ (h \notin Wildcard /\ name(h) = WildcardOf[h]))
    <2>1. Inputs(so, ce, cu)
      BY InputsOf
    <2> HIDE DEF so
    <2> QED
      BY <2>1, ListenerOfIs DEF NameOf, Declared
  <1> HIDE DEF p, out, so, D, name
  <1>6. ASSUME ov, NEW h \in p.tlsHosts
        PROVE  h \in Host /\ FollowsPlacements(p, h)
    <2>1. h \in D /\ h \in Host
      BY <1>1, <1>5
    <2>2. p.sections[h] = ListenerRefFor(h, p.placements)
      BY <1>2, <1>3, <1>6, <2>1 DEF ChangedTLSHosts
    <2>3. p.sections[h] = [listener |-> name(h), parent |-> out.placed[name(h)]]
      BY <1>1, <1>2, <1>6, <2>1
    <2>4. p.sections[h].listener = name(h)
      BY <2>3
    <2> QED
      BY <1>5, <2>1, <2>2, <2>4 DEF FollowsPlacements
  <1> QED
    BY <1>1, <1>places, <1>3, <1>4, <1>6 DEF p, so, D

=============================================================================
