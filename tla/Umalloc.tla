------------------------------ MODULE Umalloc ------------------------------
(***************************************************************************)
(* The user library's allocator (user/umalloc.c): malloc() and free() of   *)
(* one program over the memory sbrk() hands out.  Addresses and sizes are  *)
(* in units of one header.  The static header `base' is address 0, below   *)
(* the heap.  A header's ptr exists while its block is on the free list,   *)
(* its size while the block is on the list or held by the program.         *)
(***************************************************************************)
EXTENDS Integers, FiniteSets

CONSTANTS NALLOC,    \* the least number of units morecore() asks for (4096)
          MAXBRK,    \* bound: the break sbrk() refuses to pass
          Requests   \* the sizes asked for, in units with the header

ASSUME UmallocAssumption ==
    /\ NALLOC \in Nat \ {0} /\ MAXBRK \in Nat \ {0}
    /\ Requests \subseteq Nat \ {0}

VARIABLES ptr,    \* s.ptr of the headers on the free list
          size,   \* s.size of every header
          freep,  \* where the next search starts; -1 before the first call
          brk,    \* the program break
          held,   \* the blocks the program holds
          arena,  \* units ever obtained from sbrk() by morecore()
          denied  \* the last malloc() returned 0: the size it wanted, else 0

umVars == <<ptr, size, freep, brk, held, arena, denied>>

base == 0
Heap == [ptr |-> ptr, size |-> size, freep |-> freep]

Without(f, S) == [x \in DOMAIN f \ S |-> f[x]]
With(f, a, v) == [x \in DOMAIN f \cup {a} |-> IF x = a THEN v ELSE f[x]]

-----------------------------------------------------------------------------
\* The search loop of free(): the list node after which bp belongs.
RECURSIVE Place(_, _, _)
Place(h, p, bp) ==
    LET n == h.ptr[p] IN
    IF \/ bp > p /\ bp < n
       \/ p >= n /\ (bp > p \/ bp < n)
    THEN p
    ELSE Place(h, n, bp)

JoinsUpperNot(h, bp, n) == FALSE                              \* mutant
JoinsUpper(h, bp, n) == bp + h.size[bp] = n

\* free(): link the block in address order, merging it with its neighbours.
Freed(h, bp) ==
    LET p == Place(h, h.freep, bp)
        n == h.ptr[p]
        up == JoinsUpper(h, bp, n)
        bsize == h.size[bp] + IF up THEN h.size[n] ELSE 0
        bptr == IF up THEN h.ptr[n] ELSE n
        gone == IF up THEN {n} ELSE {}
        rest == [ptr |-> Without(h.ptr, gone), size |-> Without(h.size, gone)]
    IN IF p + h.size[p] = bp
       THEN [ptr |-> With(rest.ptr, p, bptr),
             size |-> With(Without(rest.size, {bp}), p, h.size[p] + bsize),
             freep |-> p]
       ELSE [ptr |-> With(With(rest.ptr, bp, bptr), p, bp),
             size |-> With(rest.size, bp, bsize),
             freep |-> p]

Free(bp) ==
    /\ bp \in held
    /\ LET h == Freed(Heap, bp)
       IN ptr' = h.ptr /\ size' = h.size /\ freep' = h.freep
    /\ held' = held \ {bp} /\ denied' = 0
    /\ UNCHANGED <<brk, arena>>

-----------------------------------------------------------------------------
\* morecore(): at least NALLOC units from sbrk(), put on the list by free().
Units(nu) == IF nu < NALLOC THEN NALLOC ELSE nu

Morecore(h, nu) ==
    Freed([h EXCEPT !.size = With(h.size, brk, Units(nu))], brk)

\* malloc()'s loop over one turn of the list: the node before the first
\* block that is large enough, or -1 when the search is back at freep.
RECURSIVE FirstFit(_, _, _)
FirstFit(h, prevp, nu) ==
    LET p == h.ptr[prevp] IN
    IF h.size[p] >= nu THEN prevp
    ELSE IF p = h.freep THEN -1
    ELSE FirstFit(h, p, nu)

TakenFront(h, prevp, nu) ==                                   \* mutant
    LET p == h.ptr[prevp] IN
    IF h.size[p] >= nu
    THEN [ptr |-> With(Without(h.ptr, {p}), prevp, h.ptr[p]),
          size |-> With(h.size, p, nu), freep |-> prevp, block |-> p]
    ELSE [ptr |-> h.ptr, size |-> h.size, freep |-> prevp, block |-> p]

\* The block after prevp is used whole, or its tail is cut off.
Taken(h, prevp, nu) ==
    LET p == h.ptr[prevp] IN
    IF h.size[p] = nu
    THEN [ptr |-> With(Without(h.ptr, {p}), prevp, h.ptr[p]),
          size |-> h.size, freep |-> prevp, block |-> p]
    ELSE LET q == p + h.size[p] - nu
         IN [ptr |-> h.ptr,
             size |-> With(With(h.size, p, h.size[p] - nu), q, nu),
             freep |-> prevp, block |-> q]

Returned(t) ==
    /\ ptr' = t.ptr /\ size' = t.size /\ freep' = t.freep
    /\ held' = held \cup {t.block} /\ denied' = 0

\* The first call makes the list of base alone.
Start ==
    IF freep # -1 THEN Heap
    ELSE [ptr |-> [a \in {base} |-> base], size |-> [a \in {base} |-> 0],
          freep |-> base]

\* malloc(): from the list, else from sbrk(), else 0.
Malloc(nu) ==
    LET prevp == FirstFit(Start, Start.freep, nu)
    IN /\ prevp # -1
       /\ Returned(Taken(Start, prevp, nu))
       /\ UNCHANGED <<brk, arena>>

MallocGrow(nu) ==
    /\ FirstFit(Start, Start.freep, nu) = -1
    /\ brk + Units(nu) <= MAXBRK
    /\ LET h == Morecore(Start, nu)
       IN Returned(Taken(h, FirstFit(h, h.freep, nu), nu))
    /\ brk' = brk + Units(nu) /\ arena' = arena \cup (brk .. brk + Units(nu) - 1)

\* sbrk() fails when the limit is reached, or when the kernel has no page.
MallocFail(nu) ==
    /\ FirstFit(Start, Start.freep, nu) = -1
    /\ ptr' = Start.ptr /\ size' = Start.size /\ freep' = Start.freep
    /\ denied' = nu
    /\ UNCHANGED <<brk, held, arena>>

\* The program may also move the break itself, so the arena has gaps.
OwnSbrk ==
    /\ brk < MAXBRK
    /\ brk' = brk + 1 /\ denied' = 0
    /\ UNCHANGED <<ptr, size, freep, held, arena>>

umInit ==
    /\ ptr = <<>> /\ size = <<>> /\ freep = -1
    /\ brk = base + 1 /\ held = {} /\ arena = {} /\ denied = 0

umNext ==
    \/ \E bp \in held : Free(bp)
    \/ \E nu \in Requests : Malloc(nu) \/ MallocGrow(nu) \/ MallocFail(nu)
    \/ OwnSbrk

-----------------------------------------------------------------------------
Extent(a) == a .. a + size[a] - 1
OnList == DOMAIN ptr \ {base}

(* Every unit obtained by morecore() (umalloc.c:54) is in exactly one      *)
(* block, free or held: malloc() and free() lose none and hand none out    *)
(* twice.                                                                  *)
UnitsConserved ==
    /\ DOMAIN size \ {base} = OnList \cup held
    /\ OnList \cap held = {}
    /\ arena = UNION {Extent(a) : a \in DOMAIN size \ {base}}
    /\ \A a, b \in DOMAIN size \ {base} :
          a # b => Extent(a) \cap Extent(b) = {}

(* Free blocks never touch: free() (umalloc.c:33-42) merges a block with   *)
(* both neighbours, whatever the order of the calls, so the free space is  *)
(* as little fragmented as the held blocks allow.                          *)
Coalesced == \A a, b \in OnList : a + size[a] # b

(* malloc() returns 0 only when no run of free units is long enough        *)
(* (umalloc.c:86-88): the search that starts at freep misses no block.     *)
DeniedOnlyWhenFull ==
    denied # 0 =>
        ~ \E a \in arena : LET run == a .. a + denied - 1
                           IN run \subseteq arena
                              /\ \A b \in held : run \cap Extent(b) = {}
=============================================================================
