-------------------------------- MODULE Pager --------------------------------
(***************************************************************************)
(* src/Pager.cpp over the allocator.  A pager p is a record of             *)
(*                                                                         *)
(*   count, free    header_.pageCount and the allocator: in memory         *)
(*   page0, page    the header page and the data pages: in the file        *)
(*                                                                         *)
(* Page 1 is the provider's and is not in page.  A page is what a node     *)
(* saved in it; its bytes and checksum are left out.                       *)
(***************************************************************************)
EXTENDS BuddyPageAllocator, TLC

CONSTANT kMaxPersistedRuns    \* runs that fit page 0

ASSUME PersistedRunsAssumption == kMaxPersistedRuns \in Nat

Zeros == "zeros"    \* what extendFile writes

\* The header page: the page count and as many free runs as fit.
flushHeader(p) ==
    LET runs == saveFreeRuns(p.free)
    IN  [p EXCEPT !.page0 = [count |-> p.count,
                             runs |-> SubSeq(runs, 1, Min({Len(runs), kMaxPersistedRuns}))]]

\* One more page, and the header at once.
extendFile(p) ==
    flushHeader([p EXCEPT !.count = @ + 1, !.page = @ @@ (p.count :> Zeros)])

\* allocatePage is AllocatedPage, the page it returns, and allocatePage, its
\* effect.  A free run is taken without a write to page 0.
AllocatedPage(p) == IF p.free = NothingFree THEN p.count ELSE TakenPage(p.free)

allocatePage(p) ==
    IF p.free = NothingFree THEN extendFile(p) ELSE [p EXCEPT !.free = Take(@)]

freePage(p, id) ==
    IF id = 0 \/ id >= p.count THEN p ELSE [p EXCEPT !.free = Free(@, id)]

writePage(p, id, data) == [p EXCEPT !.page[id] = data]

\* Mutant: open takes the page count and forgets the free runs.
BugLoadHeader(p) == [p EXCEPT !.count = p.page0.count, !.free = NothingFree]

\* The pager of a new process on an existing file.
loadHeader(p) ==
    [p EXCEPT !.count = p.page0.count, !.free = loadFreeRuns(p.page0.runs, p.page0.count)]

\* A new file, with page 1 allocated for the provider's metadata.
NewPager ==
    [count |-> 2, free |-> NothingFree, page0 |-> [count |-> 2, runs |-> <<>>], page |-> <<>>]

=============================================================================
