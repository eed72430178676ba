-------------------------- MODULE MCIngressLifecycle --------------------------
(* Two plans that share an object, and a body that cannot be translated. *)
EXTENDS IngressLifecycle

CONSTANTS first, second, unsupported

MCObjects == [b \in Body |->
                IF b = first THEN {1} ELSE IF b = second THEN {1, 2} ELSE {}]

Programmed(address) == [programmed |-> "True", address |-> address]
Pending             == [programmed |-> "Unknown", address |-> NoAddress]

OnlyPending  == {Pending}
TwoStatuses  == {Pending, Programmed("address 1")}

=============================================================================
