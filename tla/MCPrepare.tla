----------------------------- MODULE MCPrepare ------------------------------
(***************************************************************************)
(* The instance of Prepare that TLC checks: sectors of two units, pages of *)
(* two sectors.  The scatter-gather lists are those of a buffer of one or   *)
(* four sectors that is virtually contiguous: at every offset of its first *)
(* page, over three pages of memory that are neighbours, or of which only  *)
(* the last two are, with an element for each page or one for neighbours.  *)
(***************************************************************************)
EXTENDS Prepare

CONSTANTS r1, w1

\* The elements of a buffer of len units at off of its first page, over these pages.
PerPage(off, len, pages) ==
  LET count == (off + len + PageSize - 1) \div PageSize
      from(k) == IF k = 1 THEN off ELSE 0
      to(k) == IF k = count THEN off + len - (count - 1) * PageSize ELSE PageSize
  IN  [k \in 1 .. count |-> [addr |-> pages[k] * PageSize + from(k), len |-> to(k) - from(k)]]
Merge(l) ==
  FoldLeft(LAMBDA m, x : IF m # <<>> /\ m[Len(m)].addr + m[Len(m)].len = x.addr
                         THEN [m EXCEPT ![Len(m)].len = @ + x.len] ELSE Append(m, x), <<>>, l)

Orders == {<<0, 1, 2>>, <<2, 0, 1>>}
ListsOf(sectors, offs, orders) ==
  LET separate == {PerPage(off, n * SectorSize, p) : off \in offs, n \in sectors, p \in orders}
  IN  separate \cup {Merge(l) : l \in separate}

MCLists == (r1 :> ListsOf({1, 4}, 0 .. 3, Orders)) @@ (w1 :> ListsOf({2}, {1}, {<<1, 0, 2>>}))
Symmetric == Permutations(Cpus)
=============================================================================
