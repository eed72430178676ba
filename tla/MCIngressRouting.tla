--------------------------- MODULE MCIngressRouting ---------------------------
(***************************************************************************)
(* The wildcard 1 covers 2, 3 and 4 by one label.  Ingresses 1, 2 and 3    *)
(* share a namespace, Ingress 4 is in another.  Every Secret carries the   *)
(* wildcard; 2 and 3 hold one chain, Secret 1, which comes first, another. *)
(* Shop and Foreign share the wildcard's listener, Shop and Rival do not:  *)
(* Rival has it, and Shop's hostname a listener of its own.  Elder is the  *)
(* older candidate for the rule of Canary; Broken takes its primary down.  *)
(* Plain declares no TLS: it is redirected while Broad covers it.          *)
(***************************************************************************)
EXTENDS IngressRouting

MCHost       == 1 .. 4
MCWildcard   == {1}
MCWildcardOf == [h \in 2 .. 4 |-> 1]
MCCovering   == [h \in 1 .. 4 |-> IF h = 1 THEN {} ELSE {1}]
MCNamespaceOf == (1 :> "a") @@ (2 :> "a") @@ (3 :> "a") @@ (4 :> "b")
MCAge         == (1 :> 1) @@ (2 :> 2) @@ (3 :> 0) @@ (4 :> 3)

Collapsible == [fingerprint |-> 1, wildcards |-> {1}]
MCCertificates == (1 :> [Collapsible EXCEPT !.fingerprint = 2]) @@ (2 :> Collapsible) @@ (3 :> Collapsible)

Body(tls, paths) ==
    [tls |-> tls, rules |-> DOMAIN paths, first |-> Min(DOMAIN paths \cup {99}),
     paths |-> [h \in Name |-> IF h \in DOMAIN paths THEN paths[h] ELSE {}],
     catchAll |-> FALSE, aliases |-> {}, canary |-> FALSE, redirect |-> TRUE, solver |-> FALSE,
     settings |-> "none", faulty |-> FALSE]

TLS(secret, hosts) == <<[secret |-> secret, hosts |-> hosts]>>

Shop    == [Body(TLS(2, {2}), 2 :> {0, 1}) EXCEPT !.settings = "proxy", !.aliases = {3}]
Broad   == [Shop EXCEPT !.tls = TLS(2, {1}), !.aliases = {}]
Canary  == [Body(<<>>, 2 :> {1}) EXCEPT !.canary = TRUE]
Broken  == [Canary EXCEPT !.faulty = TRUE]
Plain   == Body(<<>>, 3 :> {0})
Elder   == Body(<<>>, 2 :> {1})
Foreign == Body(TLS(3, {4}), (2 :> {0}) @@ (4 :> {0}))
Rival   == [Foreign EXCEPT !.tls = TLS(1, {4})]
Mirror  == [Body(<<>>, NoIngresses) EXCEPT !.catchAll = TRUE, !.aliases = {2}, !.settings = "proxy"]

MCDeclarations ==
    (1 :> {Shop, [Shop EXCEPT !.faulty = TRUE], Broad}) @@
    (2 :> {Canary, Broken, [Canary EXCEPT !.canary = FALSE, !.settings = "body"]}) @@
    (3 :> {Plain, [Plain EXCEPT !.solver = TRUE], Mirror, Elder, Canary}) @@
    (4 :> {Foreign, Rival})

MCInitially ==
    {(1 :> Shop) @@ (2 :> Canary), (1 :> Shop) @@ (2 :> Broken), (1 :> Shop) @@ (2 :> Canary) @@ (3 :> Elder),
     (1 :> Shop) @@ (4 :> Rival), 3 :> Plain, (1 :> Broad) @@ (3 :> Plain)}

MCMirrored == {(1 :> Shop) @@ (3 :> Mirror)}

=============================================================================
