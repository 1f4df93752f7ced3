------------------------------ MODULE MCPools -------------------------------
(* Constants for checking Pools with TLC. *)
EXTENDS Pools, TLC

P(a, b) == [addr |-> a, bits |-> b]

\* 8 addresses: a /1 and its second half.  As siblings they overlap, and the
\* second nests in the first.
MCCIDRs == {P(0, 1), P(2, 2)}

\* The top block is reserved, like 224.0.0.0/4 in the code
MCReserved == {P(6, 2)}

E(cidr, ref) == [cidr |-> cidr, parentRef |-> ref]

MCNoSchemas == {}

\* A parent with a wider child, under which a third pool fits; a self-reference
\* that validation lets through, with a child under it
MCSchemas == {<<E(P(2, 2), 0), E(P(0, 1), 1)>>,
              <<E(P(0, 1), 1), E(P(2, 2), 1)>>}

Symmetry == Permutations(Clients)

=============================================================================
