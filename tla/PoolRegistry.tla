---------------------------- MODULE PoolRegistry ----------------------------
(***************************************************************************)
(* What the pool API promises a client that works alone: an address        *)
(* registry.  A block is allocated in one step, under a parent that is     *)
(* live, inside it, and beside no live sibling that overlaps it; a release *)
(* takes a whole live subtree.  Blocks planned in bulk (schema apply) are  *)
(* only tied to a live parent.  Handlers, store calls and requests do not  *)
(* exist at this level; Pools with a single request at a time implements   *)
(* it.                                                                     *)
(***************************************************************************)
EXTENDS Cidr

CONSTANTS CIDRs, MaxPools, None

VARIABLE blocks     \* id -> [cidr, parent, live, planned]

BlockIds == DOMAIN blocks

LiveBlock(i) == i \in BlockIds /\ blocks[i].live

Add(b) ==
  \E n \in 1 .. MaxPools :
    /\ BlockIds = 1 .. n - 1
    /\ blocks' = [i \in 1 .. n |-> IF i = n THEN b ELSE blocks[i]]

\* POST /pools
Allocate(cidr, parent) ==
  /\ parent # None =>
       LiveBlock(parent) /\ validateChildCIDR(blocks[parent].cidr, cidr)
  /\ \A i \in BlockIds :
       blocks[i].live /\ blocks[i].parent = parent /\ blocks[i].cidr # cidr
         => ~ prefixesOverlapIPv4(blocks[i].cidr, cidr)
  /\ Add([cidr |-> cidr, parent |-> parent, live |-> TRUE, planned |-> FALSE])

\* One entry of POST /schema/apply
Plan(cidr, parent) ==
  /\ parent # None => LiveBlock(parent)
  /\ Add([cidr |-> cidr, parent |-> parent, live |-> TRUE, planned |-> TRUE])

\* DELETE of a pool or of an account, forced or not
Release(S) ==
  /\ \A i \in S : LiveBlock(i)
  /\ \A i \in BlockIds : blocks[i].live /\ blocks[i].parent \in S => i \in S
  /\ blocks' = [i \in BlockIds |->
                  IF i \in S THEN [blocks[i] EXCEPT !.live = FALSE] ELSE blocks[i]]

Init == blocks = <<>>

Next ==
  \/ \E cidr \in CIDRs, parent \in {None} \cup BlockIds :
       Allocate(cidr, parent) \/ Plan(cidr, parent)
  \/ \E S \in SUBSET BlockIds : Release(S)

Spec == Init /\ [][Next]_blocks

=============================================================================
