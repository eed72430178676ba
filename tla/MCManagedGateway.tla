--------------------------- MODULE MCManagedGateway ---------------------------
(* Hostnames 2 and 3 are covered by the wildcard 1.  Ingresses 1 and 2 and   *)
(* their Secrets are outside the Gateway's namespace.                        *)
EXTENDS ManagedGateway

MCHost       == 1 .. 3
MCWildcard   == {1}
MCWildcardOf == [h \in 2 .. 3 |-> 1]

One(secret, hosts) == [tls |-> <<[secret |-> secret, hosts |-> hosts]>>, rules |-> {}]

MCDeclarations ==
    (1 :> {One(1, {2, 3})}) @@
    (2 :> {One(2, {2}), One(2, {1})})

Covers(f) == [fingerprint |-> f, wildcards |-> {1}]
Exact(f)  == [fingerprint |-> f, wildcards |-> {}]

MCInfos ==
    (1 :> {Exact(1), Covers(1)}) @@
    (2 :> {Covers(1), Covers(2)})

=============================================================================
