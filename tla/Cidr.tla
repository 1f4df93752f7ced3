-------------------------------- MODULE Cidr --------------------------------
(***************************************************************************)
(* IPv4 prefix arithmetic of CloudPAM: the part of internal/api/cidr.go,   *)
(* internal/cidr/cidr.go and internal/validation/validation.go that the    *)
(* pool handlers rely on.                                                  *)
(*                                                                         *)
(* A prefix is [addr |-> a, bits |-> b], the netip.Prefix of the code.     *)
(* Addresses are uint32 in the code; AddrBits is their width (32 there,    *)
(* small for TLC), and every sum or shift wraps modulo 2^AddrBits exactly  *)
(* as the uint32 arithmetic does.  Text is out of the model: a string that *)
(* does not parse never gets past the first check of a handler.            *)
(***************************************************************************)
EXTENDS Integers

CONSTANTS AddrBits,      \* width of an address: 32 in the code
          MinPrefix,     \* validation.MinPrefixLength: 8 in the code
          MaxPrefix,     \* validation.MaxPrefixLength: 30 in the code
          Reserved       \* reservedIPv4Ranges

AddrSpace == 2 ^ AddrBits

Addrs == 0 .. AddrSpace - 1

Prefixes == [addr : Addrs, bits : 0 .. AddrBits]

ASSUME CidrAssumption ==
  /\ AddrBits \in Nat \ {0}
  /\ MinPrefix \in 0 .. AddrBits
  /\ MaxPrefix \in MinPrefix .. AddrBits
  /\ Reserved \subseteq Prefixes

\* uint32(1) << (32 - bits): the block size, 0 for a /0
BlockSize(bits) == (2 ^ (AddrBits - bits)) % AddrSpace

\* p.Masked().Addr() of net/netip: the host bits are cleared
Masked(p) == p.addr - (p.addr % (2 ^ (AddrBits - p.bits)))

\* p.Contains(a) of net/netip: a has p's leading bits
Contains(p, a) == Masked([addr |-> a, bits |-> p.bits]) = Masked(p)

\* The broadcast address; base + size - 1 wraps for a /0
lastAddr(p) == (Masked(p) + BlockSize(p.bits) - 1 + AddrSpace) % AddrSpace

prefixesOverlapIPv4(a, b) ==
  /\ lastAddr(a) >= Masked(b)
  /\ lastAddr(b) >= Masked(a)

validateChildCIDR(parent, child) ==
  /\ child.bits > parent.bits
  /\ Contains(parent, Masked(child))
  /\ Contains(parent, lastAddr(child))

\* internal/cidr.PrefixContains: like validateChildCIDR, but equality passes
PrefixContains(outer, inner) ==
  /\ inner.bits >= outer.bits
  /\ Contains(outer, Masked(inner))
  /\ Contains(outer, lastAddr(inner))

\* The overlap test of the validation package, one Contains each way
prefixOverlaps(a, b) == Contains(a, b.addr) \/ Contains(b, a.addr)

\* ValidateCIDRWithOptions with the defaults every pool handler passes:
\* canonical form, no reserved range, prefix length within bounds
ValidateCIDR(p) ==
  /\ p.addr = Masked(p)
  /\ \A r \in Reserved : ~ prefixOverlaps(p, r)
  /\ p.bits \in MinPrefix .. MaxPrefix

=============================================================================
