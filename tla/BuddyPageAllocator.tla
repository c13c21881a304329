-------------------------- MODULE BuddyPageAllocator --------------------------
(***************************************************************************)
(* The free pages of src/BuddyPageAllocator.cpp.  free is freeBuddy_: for  *)
(* each class k, the starts of the free runs of 2^k pages, in the order of *)
(* the vector.  All callers but the migration of version 1 files take and  *)
(* free one page at a time; the operators are for one page.                *)
(*                                                                         *)
(* The bitmap allocated_ is read by loadFreeRuns only, where it is the     *)
(* complement of the runs loaded so far.                                   *)
(***************************************************************************)
EXTENDS Naturals, SequencesExt

CONSTANT MAX_CLASS    \* runs have at most 2^MAX_CLASS pages

ASSUME ClassAssumption == MAX_CLASS \in Nat

Class == 0..MAX_CLASS
NothingFree == [k \in Class |-> <<>>]

Run(start, k) == start..(start + 2^k - 1)
FreePages(free) == UNION {UNION {Run(s, k) : s \in Range(free[k])} : k \in Class}

-----------------------------------------------------------------------------
(* allocatePages: the last run of the smallest class that has one is split *)
(* down; the lower halves are parked, the page is the highest of the run.  *)

FoundClass(free) == Min({k \in Class : free[k] # <<>>})

\* Mutant: descends into the half that is parked.
BugTakenPage(free) == Last(free[FoundClass(free)])

TakenPage(free) == LET k == FoundClass(free) IN Last(free[k]) + 2^k - 1

Take(free) ==
    LET k == FoundClass(free)
    IN  [j \in Class |-> IF j = k THEN Front(free[j])
                         ELSE IF j < k THEN Append(free[j], Last(free[k]) + 2^k - 2^(j + 1))
                         ELSE free[j]]

-----------------------------------------------------------------------------
(* freePages: the run is merged with its buddy, upward, as long as the     *)
(* buddy is in the list of the same class.                                 *)

\* start XOR 2^k
buddyOf(start, k) == IF (start \div 2^k) % 2 = 0 THEN start + 2^k ELSE start - 2^k

\* Below class k the merged runs keep the lower start: page with k bits cleared.
Free(free, page) ==
    LET at(k) == page - (page % 2^k)
        top == Min({k \in Class : \/ k = MAX_CLASS
                                  \/ buddyOf(at(k), k) \notin Range(free[k])})
    IN  [k \in Class |-> IF k < top THEN RemoveFirst(free[k], buddyOf(at(k), k))
                         ELSE IF k = top THEN Append(free[k], at(k))
                         ELSE free[k]]

-----------------------------------------------------------------------------
(* The snapshot that the pager keeps in page 0.                            *)

saveFreeRuns(free) ==
    FlattenSeq([i \in 1..(MAX_CLASS + 1) |->
        [j \in DOMAIN free[i - 1] |-> [start |-> free[i - 1][j], slabClass |-> i - 1]]])

\* A run that does not start in the file, or that has a page of an earlier one,
\* is skipped.
LoadRun(free, run, count) ==
    IF \/ run.start \notin 1..(count - 1)
       \/ Run(run.start, run.slabClass) \cap FreePages(free) \cap 0..(count - 1) # {}
    THEN free
    ELSE [free EXCEPT ![run.slabClass] = Append(@, run.start)]

loadFreeRuns(runs, count) == FoldLeft(LAMBDA f, r : LoadRun(f, r, count), NothingFree, runs)

=============================================================================
