----------------------------- MODULE MCRouting -----------------------------
(***************************************************************************)
(* A small instance of Routing: two backends of each type and two ways     *)
(* the kernel may give them ports, so that a restart gives a port to a     *)
(* backend of the same type, of another type or to nobody.                 *)
(***************************************************************************)
EXTENDS Routing

Rank == [edge |-> 0, http |-> 1, reencrypt |-> 2, passthrough |-> 3]
Number(b) == Nbackends * Rank[b[1]] + b[2]

InOrder == [b \in Backends |-> Number(b)]
Shifted == [b \in Backends |-> Number(b) + 1]

SomeBindings == {InOrder, Shifted}
=============================================================================
