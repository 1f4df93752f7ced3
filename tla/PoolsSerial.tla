---------------------------- MODULE PoolsSerial -----------------------------
(***************************************************************************)
(* Pools, when a single request is in flight at a time, implements         *)
(* PoolRegistry: the intermediate states of a handler are invisible and    *)
(* the insert or the delete is the step of the registry.                   *)
(***************************************************************************)
EXTENDS Pools

ASSUME OneClient == \E c \in Clients : Clients = {c}

\* The refinement mapping: what a pool is to a client of the API
Block(p) ==
  [cidr |-> p.cidr, parent |-> p.parent, live |-> ~ p.deleted,
   planned |-> ~ p.checked]

blocksBar == [i \in Ids |-> Block(pools[i])]

Registry == INSTANCE PoolRegistry WITH blocks <- blocksBar

\* The pool API, one request at a time, is the atomic registry: checks made in
\* earlier store calls of createPool and schema apply still hold at the
\* insert, and deletes release whole subtrees.
ImplementsRegistry == Registry!Spec

\* What the registry gives its user, on the store itself: a live pool has a
\* live parent (the recursive views reach every live pool), and live siblings
\* made by POST /pools are equal or disjoint.
RegistryIntegrity == NoOrphan /\ NoSiblingOverlap

=============================================================================
