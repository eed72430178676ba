------------------------- MODULE MCGatewayReplanning -------------------------
(* Hostnames 2, 3 and 4 are covered by the wildcard 1; 5 is not.  Ingresses  *)
(* 1 and 2 share a namespace, Ingress 3 is in the Gateway's.                 *)
EXTENDS GatewayReplanning

MCHost       == 1 .. 5
MCWildcard   == {1}
MCWildcardOf == [h \in 2 .. 5 |-> IF h = 5 THEN NoHost ELSE 1]

One(secret, hosts) == [tls |-> <<[secret |-> secret, hosts |-> hosts]>>, rules |-> {}]

MCDeclarations ==
    (1 :> {One(1, {2}), One(1, {2, 5}), One(2, {3})}) @@
    (2 :> {One(2, {3}), One(1, {2, 3}), One(1, {1}),
           [tls |-> <<[secret |-> 1, hosts |-> {3}], [secret |-> 2, hosts |-> {NoHost, 2}]>>, rules |-> {}]}) @@
    (3 :> {One(3, {4}), One(3, {2}), One(NoSecret, {5}),
           [tls |-> <<[secret |-> 3, hosts |-> {}]>>, rules |-> {3, 4}]})

Covers(f) == [fingerprint |-> f, wildcards |-> {1}]
Exact(f)  == [fingerprint |-> f, wildcards |-> {}]

MCInfos ==
    (1 :> {NoCertificate, Covers(1)}) @@
    (2 :> {Exact(1), Covers(1), Covers(2)}) @@
    (3 :> {NoCertificate, Covers(3)})

(* A Gateway too small for hostnames that gain a wildcard: 2 to 5 are        *)
(* covered by the wildcard 1, 6 is not.                                      *)
SmallHost       == 1 .. 6
SmallWildcardOf == [h \in 2 .. 6 |-> IF h = 6 THEN NoHost ELSE 1]

SmallDeclarations ==
    (1 :> {One(1, {2})}) @@ (2 :> {One(2, {3, 4, 5})}) @@ (3 :> {One(3, {6})})

SmallInfos ==
    (1 :> {Covers(1)}) @@ (2 :> {NoCertificate, Covers(2)}) @@ (3 :> {NoCertificate})

=============================================================================
