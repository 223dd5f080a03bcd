--------------------------------- MODULE Vm ---------------------------------
(***************************************************************************)
(* Physical pages and address spaces: kernel/kalloc.c, the user half of      *)
(* kernel/vm.c, exec() and the parts of kernel/proc.c that make, grow, copy  *)
(* and free memory.  Processes run their calls side by side and meet only    *)
(* at kmem.lock, so a step holds at most one kalloc() or kfree().            *)
(*                                                                           *)
(* An address space has a root table, LEVELS tables on the way to the        *)
(* trampoline ("hi") and LEVELS on the way to user memory ("lo"), and leaf   *)
(* entries for user pages.  Sizes are in bytes, PGSIZE to a page.  Pages are *)
(* interchangeable: a place holds 1 page or 0, and free counts the list, so  *)
(* that a page that is lost or given back twice shows in the sum.            *)
(***************************************************************************)
EXTENDS Integers, FiniteSets

CONSTANTS
  Procs,      \* slots of the process table
  NPAGES,     \* physical pages
  LEVELS,
  PGSIZE,
  MAXPG,      \* bound: user pages of one address space
  Deltas,     \* sbrk(n) and sbrk(-n)
  Segments,   \* sizes of program images
  None

ASSUME VmAssumption ==
  /\ {NPAGES, LEVELS, PGSIZE, MAXPG} \subseteq Nat \ {0}
  /\ Deltas \subseteq Nat \ {0} /\ Segments \subseteq Nat \ {0}
  /\ None \notin Procs

VARIABLES
  free,       \* pages on kmem.freelist
  live,       \* slots that hold a process that can run
  tf,         \* p->trapframe
  sz,         \* p->sz
  space,      \* space[p].img is p->pagetable, space[p].new the one exec() builds
  st          \* each process: its place in a call and its local variables

vars == <<free, live, tf, sz, space, st>>

VPages == 0 .. MAXPG - 1
Tables == {<<"root", 0>>} \cup {"hi", "lo"} \X (1 .. LEVELS)
PGROUNDDOWN(n) == n \div PGSIZE  \* mutant: the last page is not counted
PGROUNDUP(n) == (n + PGSIZE - 1) \div PGSIZE   \* in pages

Empty == [tab |-> [t \in Tables |-> 0], leaf |-> [v \in VPages |-> 0], tramp |-> FALSE]

\* A call: the address space it works on is space[proc][which]; a loop over user pages
\* is between base and lim at page a, and goes on at next; want = the size that is wanted,
\* size = the sz that exec() has reached; mem = a page in hand; ok = nothing failed; was =
\* memory at the time of the call.
Idle == [pc |-> "idle", op |-> None, proc |-> None, which |-> "img", a |-> 0, base |-> 0, lim |-> 0,
         next |-> None, want |-> 0, size |-> 0, mem |-> 0, ok |-> TRUE, was |-> None]

\* userinit(): one process with one page of memory.
Init ==
  \E p \in Procs :
    /\ live = {p} /\ sz = [q \in Procs |-> IF q = p THEN PGSIZE ELSE 0]
    /\ tf = [q \in Procs |-> IF q = p THEN 1 ELSE 0]
    /\ space = [q \in Procs |->
         [new |-> Empty,
          img |-> IF q # p THEN Empty
                  ELSE [tab |-> [t \in Tables |-> 1], tramp |-> TRUE,
                        leaf |-> [v \in VPages |-> IF v = 0 THEN 1 ELSE 0]]]]
    /\ free = NPAGES - 3 - 2 * LEVELS
    /\ st = [q \in Procs |-> Idle]

-----------------------------------------------------------------------------
(* The page allocator and the page tables *)

A(p) == space[st[p].proc][st[p].which]
SetA(p, x) == space' = [space EXCEPT ![st[p].proc][st[p].which] = x]
To(p, s) == st' = [st EXCEPT ![p] = s]
Fails(p, l) == To(p, [st[p] EXCEPT !.pc = l, !.ok = FALSE])

kalloc == free > 0 /\ free' = free - 1
kfree(page) == free' = free + page

\* walk() with alloc: it adds the tables that are missing on the way, one at a time.
Missing(x, range) == {l \in 1 .. LEVELS : x.tab[<<range, l>>] = 0}
WalkTable(p, range) ==
  \E l \in Missing(A(p), range) :
    /\ \A m \in Missing(A(p), range) : l <= m
    /\ SetA(p, [A(p) EXCEPT !.tab[<<range, l>>] = 1])

\* A loop over the pages base .. lim - 1 of the address space, then on at next.
Loop(s, base, lim, next) == [s EXCEPT !.pc = "mem", !.a = base, !.base = base, !.lim = lim, !.next = next]
\* proc_freepagetable() with lim pages.
Release(s, lim) == [s EXCEPT !.pc = "untramp", !.base = 0, !.a = lim]

-----------------------------------------------------------------------------
(* proc_pagetable() *)

\* uvmcreate()
CreateTable(p) ==
  /\ st[p].pc = "create"
  /\ \/ /\ kalloc /\ SetA(p, [Empty EXCEPT !.tab[<<"root", 0>>] = 1])
        /\ To(p, [st[p] EXCEPT !.pc = "tramp"])
     \/ free = 0 /\ Fails(p, "free") /\ UNCHANGED <<free, space>>
  /\ UNCHANGED <<live, tf, sz>>

\* mappages() of the trampoline; the trapframe's entry is in the same table.
MapTrampoline(p) ==
  /\ st[p].pc = "tramp"
  /\ \/ kalloc /\ WalkTable(p, "hi") /\ UNCHANGED st
     \/ free = 0 /\ Missing(A(p), "hi") # {} /\ Fails(p, "free") /\ UNCHANGED <<free, space>>
     \/ /\ Missing(A(p), "hi") = {} /\ SetA(p, [A(p) EXCEPT !.tramp = TRUE]) /\ UNCHANGED free
        /\ To(p, Loop(st[p], 0, PGROUNDUP(st[p].want), IF st[p].op = "fork" THEN "copied" ELSE "loaded"))
  /\ UNCHANGED <<live, tf, sz>>

-----------------------------------------------------------------------------
(* The loop of uvmalloc() and uvmcopy() *)

MoreOrEqual(s) == s.a <= s.lim  \* mutant: one page too many
More(s) == s.a < s.lim

\* uvmdealloc(pagetable, a, oldsz), or uvmunmap() from 0 in uvmcopy().
UnwindAll(s) == [s EXCEPT !.pc = "unmap", !.ok = FALSE, !.base = 0]  \* mutant: down to 0
Unwind(s) == [s EXCEPT !.pc = "unmap", !.ok = FALSE]

GetPage(p) ==
  LET s == st[p]
  IN  /\ s.pc = "mem"
      /\ \/ ~More(s) /\ To(p, [s EXCEPT !.pc = s.next]) /\ UNCHANGED free
         \/ More(s) /\ kalloc /\ To(p, [s EXCEPT !.pc = "map", !.mem = 1])
         \/ More(s) /\ free = 0 /\ To(p, Unwind(s)) /\ UNCHANGED free
      /\ UNCHANGED <<live, tf, sz, space>>

\* mappages(); without a table the page in hand is freed first.
MapPage(p) ==
  LET s == st[p]
  IN  /\ s.pc = "map"
      /\ \/ kalloc /\ WalkTable(p, "lo") /\ UNCHANGED st
         \/ free = 0 /\ Missing(A(p), "lo") # {} /\ Fails(p, "drop") /\ UNCHANGED <<free, space>>
         \/ /\ Missing(A(p), "lo") = {} /\ SetA(p, [A(p) EXCEPT !.leaf[s.a] = s.mem])
            /\ To(p, [s EXCEPT !.pc = "mem", !.mem = 0, !.a = @ + 1]) /\ UNCHANGED free
      /\ UNCHANGED <<live, tf, sz>>

KeepMem(page) == free  \* mutant: kfree(mem) is forgotten
FreeMem(page) == free + page
DropPage(p) ==
  /\ st[p].pc = "drop" /\ free' = FreeMem(st[p].mem)
  /\ To(p, Unwind([st[p] EXCEPT !.mem = 0]))
  /\ UNCHANGED <<live, tf, sz, space>>

\* uvmunmap() of the pages base .. a - 1 with do_free.
UnmapPage(p) ==
  LET s == st[p]
  IN  /\ s.pc \in {"unmap", "free"} /\ s.base < s.a
      /\ kfree(A(p).leaf[s.base]) /\ SetA(p, [A(p) EXCEPT !.leaf[s.base] = 0])
      /\ To(p, [s EXCEPT !.base = @ + 1])
      /\ UNCHANGED <<live, tf, sz>>

\* What uvmalloc(), uvmcopy() or uvmdealloc() took back: sbrk() is done, fork() goes on
\* to freeproc(), exec() to bad.
ExecFreesWanted(s) == PGROUNDUP(s.want)  \* mutant: sz before uvmalloc() has succeeded
ExecFrees(s) == PGROUNDUP(s.size)
Unmapped(p) ==
  LET s == st[p]
  IN  /\ s.pc = "unmap" /\ s.base = s.a
      /\ CASE s.op = "sbrk" -> To(p, Idle) /\ sz' = [sz EXCEPT ![p] = IF s.ok THEN s.want ELSE @]
           [] s.op = "fork" -> To(p, [s EXCEPT !.pc = "trapframe"]) /\ UNCHANGED sz
           [] s.op = "exec" -> To(p, Release(s, ExecFrees(s))) /\ UNCHANGED sz
      /\ UNCHANGED <<free, live, tf, space>>

\* proc_freepagetable(): the entries of trampoline and trapframe, then uvmfree().
UnmapTrampoline(p) ==
  /\ st[p].pc = "untramp"
  /\ SetA(p, [A(p) EXCEPT !.tramp = FALSE]) /\ To(p, [st[p] EXCEPT !.pc = "free"])
  /\ UNCHANGED <<free, live, tf, sz>>

\* freewalk(): the entries of a table in order of address, and the table after them.
AllUnmapped(p) == st[p].pc = "free" /\ st[p].base = st[p].a
Rank(t) == CASE t[1] = "lo" -> LEVELS - t[2] [] t[1] = "hi" -> 2 * LEVELS - t[2] [] OTHER -> 2 * LEVELS
FreeTable(p) ==
  /\ AllUnmapped(p)
  /\ \E t \in Tables :
       /\ A(p).tab[t] = 1 /\ \A u \in Tables : A(p).tab[u] = 1 => Rank(t) <= Rank(u)
       /\ kfree(A(p).tab[t]) /\ SetA(p, [A(p) EXCEPT !.tab[t] = 0])
  /\ UNCHANGED <<live, tf, sz, st>>

\* The address space is gone.  fork() that got none has the trapframe left.
NoTables(p) == \A t \in Tables : A(p).tab[t] = 0
Freed(p) ==
  LET s == st[p]
  IN  /\ AllUnmapped(p) /\ NoTables(p)
      /\ To(p, IF s.op = "fork" /\ tf[s.proc] # 0 THEN [s EXCEPT !.pc = "trapframe"] ELSE Idle)
      /\ sz' = IF s.op = "exec" THEN sz ELSE [sz EXCEPT ![s.proc] = 0]
      /\ UNCHANGED <<free, live, tf, space>>

\* freeproc() frees the trapframe, then the address space if there is one.
FreesOwn(s) == PGROUNDUP(sz[s.proc])
FreeTrapframe(p) ==
  LET s == st[p]
  IN  /\ s.pc = "trapframe"
      /\ kfree(tf[s.proc]) /\ tf' = [tf EXCEPT ![s.proc] = 0]
      /\ To(p, IF NoTables(p) THEN Idle ELSE Release(s, FreesOwn(s)))
      /\ UNCHANGED <<live, sz, space>>

-----------------------------------------------------------------------------
(* The calls *)

Begin(p, op) == [Idle EXCEPT !.op = op, !.proc = p,
                             !.was = [sz |-> sz[p], leaf |-> space[p].img.leaf]]
Ready(p) == p \in live /\ st[p].pc = "idle"

\* growproc(): sz + n wraps for a process that gives back more than it has, and
\* uvmdealloc() then does nothing.
Sbrk(p, n) ==
  LET s == [Begin(p, "sbrk") EXCEPT !.want = sz[p] + n]
  IN  /\ Ready(p) /\ sz[p] + n \in 0 .. MAXPG * PGSIZE
      /\ To(p, IF n > 0 THEN Loop(s, PGROUNDUP(sz[p]), PGROUNDUP(sz[p] + n), "grown")
               ELSE [s EXCEPT !.pc = "unmap", !.base = PGROUNDUP(sz[p] + n), !.a = PGROUNDUP(sz[p])])
      /\ UNCHANGED <<free, live, tf, sz, space>>

Grown(p) ==
  /\ st[p].pc = "grown" /\ To(p, Idle) /\ sz' = [sz EXCEPT ![p] = st[p].want]
  /\ UNCHANGED <<free, live, tf, space>>

\* fork(): allocproc() finds a slot and takes the trapframe.
Unused(q) == q \notin live /\ \A r \in Procs : st[r].proc # q
Fork(p, q) ==
  /\ Ready(p) /\ Unused(q)
  /\ kalloc /\ tf' = [tf EXCEPT ![q] = 1]
  /\ To(p, [Begin(p, "fork") EXCEPT !.proc = q, !.pc = "create", !.want = sz[p]])
  /\ UNCHANGED <<live, sz, space>>

Copied(p) ==
  LET q == st[p].proc
  IN  /\ st[p].pc = "copied" /\ To(p, Idle)
      /\ live' = live \cup {q} /\ sz' = [sz EXCEPT ![q] = st[p].want]
      /\ UNCHANGED <<free, tf, space>>

Exec(p, n) ==
  /\ Ready(p)
  /\ To(p, [Begin(p, "exec") EXCEPT !.which = "new", !.pc = "create", !.want = n])
  /\ UNCHANGED <<free, live, tf, sz, space>>

\* A segment is in; another one, the stack and its guard page, or a bad file.
Loaded(p, n) ==
  LET s == [st[p] EXCEPT !.size = st[p].want]
      top == PGROUNDUP(s.size)
  IN  /\ s.pc = "loaded"
      /\ \/ To(p, [Release(s, top) EXCEPT !.ok = FALSE])
         \/ n > s.size /\ To(p, Loop([s EXCEPT !.want = n], top, PGROUNDUP(n), "loaded"))
         \/ /\ top + 2 <= MAXPG
            /\ To(p, Loop([s EXCEPT !.want = (top + 2) * PGSIZE], top, top + 2, "stacked"))
      /\ UNCHANGED <<free, live, tf, sz, space>>

\* The arguments do not fit, or the new image is committed and the old one freed.
Stacked(p) ==
  LET s == [st[p] EXCEPT !.size = st[p].want]
  IN  /\ s.pc = "stacked"
      /\ \/ To(p, [Release(s, PGROUNDUP(s.size)) EXCEPT !.ok = FALSE]) /\ UNCHANGED <<space, sz>>
         \/ /\ space' = [space EXCEPT ![p] = [img |-> @.new, new |-> @.img]]
            /\ sz' = [sz EXCEPT ![p] = s.size]
            /\ To(p, Release(s, PGROUNDUP(sz[p])))
      /\ UNCHANGED <<free, live, tf>>

\* exit(), and freeproc() from the parent's wait().  init stays.
Exit(p) ==
  /\ Ready(p) /\ Cardinality(live) > 1
  /\ live' = live \ {p} /\ To(p, [Begin(p, "exit") EXCEPT !.pc = "trapframe"])
  /\ UNCHANGED <<free, tf, sz, space>>

Next ==
  \E p \in Procs :
    \/ CreateTable(p) \/ MapTrampoline(p) \/ GetPage(p) \/ MapPage(p) \/ DropPage(p) \/ UnmapPage(p)
    \/ Unmapped(p) \/ FreeTable(p) \/ UnmapTrampoline(p) \/ Freed(p) \/ FreeTrapframe(p)
    \/ Grown(p) \/ Copied(p) \/ Stacked(p) \/ Exit(p)
    \/ \E n \in Deltas : Sbrk(p, n) \/ Sbrk(p, -n)
    \/ \E n \in Segments : Exec(p, n) \/ Loaded(p, n)
    \/ \E q \in Procs : Fork(p, q)

Spec == Init /\ [][Next]_vars

-----------------------------------------------------------------------------
(* Properties *)

Places == {"create", "tramp", "mem", "map", "drop", "unmap", "untramp", "free", "trapframe",
           "idle", "grown", "copied", "loaded", "stacked"}

\* Every variable keeps its type.
TypeOK ==
  /\ free \in 0 .. NPAGES /\ live \subseteq Procs /\ tf \in [Procs -> {0, 1}]
  /\ sz \in [Procs -> 0 .. MAXPG * PGSIZE]
  /\ \A p \in Procs : /\ \A w \in {"img", "new"} : /\ space[p][w].tab \in [Tables -> {0, 1}]
                                                   /\ space[p][w].leaf \in [VPages -> {0, 1}]
                                                   /\ space[p][w].tramp \in BOOLEAN
                      /\ st[p].pc \in Places /\ st[p].a \in 0 .. MAXPG /\ st[p].mem \in {0, 1}

\* The number of places that hold a page.
Held ==
  LET Spaces == Procs \X {"img", "new"}
  IN  Cardinality({x \in Spaces \X Tables : space[x[1][1]][x[1][2]].tab[x[2]] = 1})
      + Cardinality({x \in Spaces \X VPages : space[x[1][1]][x[1][2]].leaf[x[2]] = 1})
      + Cardinality({p \in Procs : tf[p] = 1}) + Cardinality({p \in Procs : st[p].mem = 1})

\* Every page is on the free list or in one place, and a slot that nobody uses has none:
\* whatever call fails at whatever kalloc(), no page is lost, none given back twice.
PagesOwned ==
  /\ free + Held = NPAGES
  /\ \A q \in Procs : /\ Unused(q) => space[q].img = Empty /\ tf[q] = 0 /\ sz[q] = 0
                      /\ st[q].op # "exec" => space[q].new = Empty

\* The panics of vm.c are unreachable: no page is mapped twice or unmapped when it is not
\* mapped, and freewalk() finds no leaf.
NoPanic ==
  \A p \in Procs :
    /\ st[p].pc = "map" => A(p).leaf[st[p].a] = 0
    /\ st[p].pc \in {"unmap", "free"} /\ st[p].base < st[p].a => A(p).leaf[st[p].base] # 0
    /\ AllUnmapped(p) => ~A(p).tramp /\ \A v \in VPages : A(p).leaf[v] = 0

\* A process that is not in sbrk() has exactly the pages below its size: also while it
\* is in exec(), before and after the new image is committed.
ImageComplete ==
  \A p \in live : st[p].op # "sbrk" =>
    /\ space[p].img.tramp
    /\ \A v \in VPages : (space[p].img.leaf[v] # 0) = (v * PGSIZE < sz[p])

\* A call that fails leaves the memory of its caller as it was: "Returns 0 ... -1 on
\* failure" of growproc(), fork() and exec() is all or nothing.
FailedChangesNothing ==
  [][\A p \in Procs :
       st[p].pc # "idle" /\ st'[p].pc = "idle" /\ ~st[p].ok =>
         sz'[p] = st[p].was.sz /\ space'[p].img.leaf = st[p].was.leaf]_vars

\* Memory is accounted for and every process has its image, whatever call of
\* whatever process fails at whatever point (kalloc.c, vm.c, exec.c).
MemoryRight == TypeOK /\ PagesOwned /\ NoPanic /\ ImageComplete
=============================================================================
