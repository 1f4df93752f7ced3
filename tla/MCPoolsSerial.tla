--------------------------- MODULE MCPoolsSerial ----------------------------
(* Constants for checking PoolsSerial with TLC. *)
EXTENDS PoolsSerial

P(a, b) == [addr |-> a, bits |-> b]
E(cidr, ref) == [cidr |-> cidr, parentRef |-> ref]

\* 8 addresses: a /1, its second half, an address with host bits set (not
\* canonical) and one in the reserved block, both refused
MCCIDRs == {P(0, 1), P(2, 2), P(1, 2), P(6, 2)}

MCReserved == {P(6, 2)}

\* A chain of three; a self-reference with a child under it
MCSchemas == {<<E(P(0, 1), 0), E(P(2, 2), 1), E(P(2, 2), 2)>>,
              <<E(P(0, 1), 1), E(P(2, 2), 1)>>}

=============================================================================
