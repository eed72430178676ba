------------------------- MODULE MCListenerPlacement -------------------------
(* One wildcard hostname, two hostnames it covers, one it does not. *)
EXTENDS ListenerPlacement

MCHost       == 1 .. 4
MCWildcard   == {1}
MCWildcardOf == [h \in 2 .. 4 |-> IF h <= 3 THEN 1 ELSE NoHost]

=============================================================================
