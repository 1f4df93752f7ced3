---------------------------- MODULE AddressSpace ----------------------------
(***************************************************************************)
(* What is free in a pool, computed twice by CloudPAM: the gap analysis of *)
(* internal/planning (gaps.go, cidr_helpers.go), which merges the children *)
(* as intervals and cuts what is left into prefixes, and the block grid of *)
(* GET /pools/{id}/blocks (internal/api/cidr.go, block_handlers.go), which *)
(* splits the pool evenly and tests each block against each child.         *)
(*                                                                         *)
(* Addresses are uint32 in both; every sum wraps modulo AddrSpace.  A      *)
(* parameter "children" is the set of CIDRs of a pool's live children.     *)
(***************************************************************************)
EXTENDS Cidr, FiniteSets, Sequences

Seqs == INSTANCE SequencesExt
Sets == INSTANCE FiniteSetsExt

CONSTANT MaxSubnetExpansion   \* blocks of one response: 65536 in the code

ASSUME AddressSpaceAssumption == MaxSubnetExpansion \in Nat \ {0}

-----------------------------------------------------------------------------
(* Gap analysis. *)

prefixToInterval(p) == [start |-> Masked(p), end |-> lastAddr(p)]

MergeIntervalShrinks(merged, c) ==   \* mutant: the end of the later one wins
  LET n == Len(merged)
      last == merged[n]
  IN IF n > 0 /\ c.start <= (last.end + 1) % AddrSpace
     THEN [merged EXCEPT ![n].end = c.end]
     ELSE Append(merged, c)

\* One turn of the merge loop: c extends the last interval when it overlaps
\* or touches it; last.end + 1 wraps
MergeInterval(merged, c) ==
  LET n == Len(merged)
      last == merged[n]
  IN IF n > 0 /\ c.start <= (last.end + 1) % AddrSpace
     THEN [merged EXCEPT ![n].end = IF c.end > @ THEN c.end ELSE @]
     ELSE Append(merged, c)

\* The children by start address, merged
MergedIntervals(intervals) ==
  Seqs!FoldLeft(MergeInterval, <<>>,
                Seqs!SetToSortSeq(intervals, LAMBDA a, b : a.start < b.start))

Larger(a, b) == IF a > b THEN a ELSE b
Smaller(a, b) == IF a < b THEN a ELSE b

\* The walk along the parent: cursor is the first address not seen yet, and
\* stays 0 once it has wrapped
WalkParent(parent, walk, m) ==
  IF walk.done \/ m.end < parent.start \/ m.start > parent.end
  THEN walk
  ELSE LET start == Larger(m.start, parent.start)
           end == Smaller(m.end, parent.end)
           cursor == (end + 1) % AddrSpace
       IN [gaps |-> IF walk.cursor < start
                    THEN Append(walk.gaps, [start |-> walk.cursor, end |-> start - 1])
                    ELSE walk.gaps,
           cursor |-> cursor,
           done |-> cursor = 0]

findFreeRanges(parent, intervals) ==
  LET step(walk, m) == WalkParent(parent, walk, m)
      walk == Seqs!FoldLeft(step, [gaps |-> <<>>, cursor |-> parent.start, done |-> FALSE],
                            MergedIntervals(intervals))
  IN IF ~ walk.done /\ walk.cursor <= parent.end
     THEN Append(walk.gaps, [start |-> walk.cursor, end |-> parent.end])
     ELSE walk.gaps

\* The largest block at start that is aligned and does not pass end
FitBits(start, end) ==
  Sets!Max({b \in 0 .. AddrBits : start % (2 ^ b) = 0 /\ 2 ^ b <= end - start + 1})

\* The prefixes that cover start .. end; AddrSpace is the start that wrapped
rangeToCIDRs(range) ==
  LET from[s \in range.start .. AddrSpace] ==
        IF s > range.end THEN <<>>
        ELSE LET b == FitBits(s, range.end)
             IN <<[addr |-> s, bits |-> AddrBits - b]>> \o from[s + 2 ^ b]
  IN from[range.start]

prefixAddressCount(p) == 2 ^ (AddrBits - p.bits)

\* The arithmetic of AnalyzeGaps once pool and children are read
GapAnalysis(cidr, children) ==
  LET free == findFreeRanges(prefixToInterval(cidr),
                             {prefixToInterval(c) : c \in children})
      available == Seqs!FlattenSeq([k \in DOMAIN free |-> rangeToCIDRs(free[k])])
      add(sum, p) == sum + prefixAddressCount(p)
      freeAddrs == Seqs!FoldLeft(add, 0, available)
  IN [available |-> available,
      free |-> freeAddrs,
      used |-> prefixAddressCount(cidr) - freeAddrs]

-----------------------------------------------------------------------------
(* The block grid. *)

\* computeSubnetsIPv4Window: the blocks of a page, or all when limit is 0;
\* asking for all of too many is refused (None here is the empty answer)
SubnetsWindow(cidr, newLen, offset, limit) ==
  LET count == 2 ^ (newLen - cidr.bits)
      first == IF limit > 0 THEN Smaller(offset, count) ELSE 0
      last == IF limit > 0
              THEN Smaller(first + Smaller(limit, MaxSubnetExpansion), count)
              ELSE count
  IN IF limit = 0 /\ count > MaxSubnetExpansion
     THEN <<>>
     ELSE [k \in 1 .. last - first |->
             [addr |-> (Masked(cidr) + (first + k - 1) * BlockSize(newLen)) % AddrSpace,
              bits |-> newLen]]

\* blocksForPool: page and page_size of the query, page_size 0 for all
BlocksPage(cidr, newLen, pageSize, page) ==
  SubnetsWindow(cidr, newLen, (page - 1) * pageSize, pageSize)

BlockTakenByEqual(block, children) == block \in children   \* mutant: Used only

\* blocksForPool: the block is a child (Used) or overlaps one (ExistsElsewhere)
BlockTaken(block, children) ==
  \/ block \in children
  \/ \E c \in children : prefixesOverlapIPv4(c, block)

-----------------------------------------------------------------------------
(* The reference: sets of addresses. *)

AddressesOf(p) == {a \in Addrs : Contains(p, a)}

Covered(prefixes) == UNION {AddressesOf(p) : p \in prefixes}

=============================================================================
