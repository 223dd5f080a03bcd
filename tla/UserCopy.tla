------------------------------ MODULE UserCopy -----------------------------
(***************************************************************************)
(* The kernel's access to user memory: copyout(), copyin() and copyinstr() *)
(* (kernel/vm.c), which go page by page, and fetchaddr() and fetchstr()    *)
(* (kernel/syscall.c).  Memory is the user's bytes by virtual address; a   *)
(* page has the permission bits of its entry, {} when there is none.       *)
(***************************************************************************)
EXTENDS Integers, Sequences, FiniteSets

CONSTANTS PAGE,     \* PGSIZE
          WORD,     \* sizeof(uint64)
          VABITS    \* width of an address

VARIABLES perm,   \* page -> permission bits
          ubyte   \* address -> byte

ucVars == <<perm, ubyte>>

MAXVA == Cardinality(DOMAIN perm) * PAGE
VAddr == 0 .. MAXVA - 1
PermSets == { {}, {"V", "W"}, {"V", "U"}, {"V", "U", "W"} }

\* An address space of n pages.
ucInit(n) ==
    perm \in [0 .. n - 1 -> PermSets] /\ ubyte \in [0 .. n * PAGE - 1 -> {0, 1}]

Down(va) == va - (va % PAGE)
Has(va, bits) == va < MAXVA /\ bits \subseteq perm[va \div PAGE]

\* walkaddr(): a page the user may read; copyout() asks for W as well.
walkaddr(va) == Has(va, {"V", "U"})
WritableNot(va) == Has(va, {"V", "U"})                        \* mutant
Writable(va) == Has(va, {"V", "U", "W"})

\* Bytes up to the end of the page, at most len.
ChunkRest(va, len) == PAGE - (va - Down(va))                  \* mutant
Chunk(va, len) ==
    LET n == PAGE - (va - Down(va)) IN IF n > len THEN len ELSE n

Fail(x) == [ok |-> FALSE, data |-> x]
Done(x) == [ok |-> TRUE, data |-> x]

\* copyout(): data is the user's memory afterwards.
RECURSIVE copyout(_, _, _)
copyout(m, va, s) ==
    IF s = <<>> THEN Done(m)
    ELSE IF ~Writable(Down(va)) THEN Fail(m)
    ELSE LET n == Chunk(va, Len(s)) IN
         copyout([a \in VAddr |-> IF a \in va .. va + n - 1 THEN s[a - va + 1] ELSE m[a]],
                 Down(va) + PAGE, SubSeq(s, n + 1, Len(s)))

\* copyin(): data is what has arrived in the kernel's buffer.
RECURSIVE copyin(_, _, _)
copyin(d, va, len) ==
    IF len = 0 THEN Done(d)
    ELSE IF ~walkaddr(Down(va)) THEN Fail(d)
    ELSE LET n == Chunk(va, len) IN
         copyin(d \o [i \in 1 .. n |-> ubyte[va + i - 1]], Down(va) + PAGE, len - n)

\* copyinstr(): a page at a time until the terminator or max bytes.
RECURSIVE copyinstr(_, _, _)
copyinstr(d, va, max) ==
    IF max = 0 \/ ~walkaddr(Down(va)) THEN Fail(d)
    ELSE LET n == Chunk(va, max)
             nul == {i \in 0 .. n - 1 : ubyte[va + i] = 0}
             k == IF nul = {} THEN n ELSE CHOOSE i \in nul : \A j \in nul : i <= j
             d1 == d \o [i \in 1 .. k |-> ubyte[va + i - 1]]
         IN IF nul # {} THEN Done(Append(d1, 0))
            ELSE copyinstr(d1, Down(va) + PAGE, max - n)

\* fetchaddr(): the sum wraps around at 2^VABITS.
InSizeOnce(addr, sz) == (addr + WORD) % 2^VABITS <= sz        \* mutant
InSize(addr, sz) == addr < sz /\ (addr + WORD) % 2^VABITS <= sz

fetchaddr(addr, sz) == InSize(addr, sz) /\ copyin(<<>>, addr, WORD).ok
fetchstr(addr, max) ==
    LET r == copyinstr(<<>>, addr, max) IN IF r.ok THEN Len(r.data) - 1 ELSE -1

-----------------------------------------------------------------------------
Data(n) == [i \in 1 .. n |-> i + 1]

(* copyout() (vm.c:339) succeeds just when every byte of the range is in a *)
(* page the user may write, and then the range holds the data and nothing  *)
(* else changed; when it fails, only a prefix of the data was written,     *)
(* and none of it into a page that is read-only or the stack's guard.      *)
CopyoutExact ==
    \A va \in 0 .. MAXVA + 1 : \A n \in 0 .. MAXVA :
        LET r == copyout(ubyte, va, Data(n))
            range == va .. va + n - 1
        IN /\ r.ok <=> \A a \in range : Writable(a)
           /\ r.ok => \A a \in VAddr : r.data[a] = IF a \in range THEN a - va + 2 ELSE ubyte[a]
           /\ \A a \in VAddr : r.data[a] # ubyte[a] =>
                 /\ a \in range /\ r.data[a] = a - va + 2
                 /\ {"V", "U", "W"} \subseteq perm[a \div PAGE]

(* copyin() (vm.c:367) and copyinstr() (vm.c:391) deliver the user's bytes *)
(* in order: all of the range, or the string with its terminator, which    *)
(* has to lie within max bytes and in pages the user may read; a page not  *)
(* needed is never asked for.  fetchstr() returns the length without it.   *)
CopyinExact ==
    \A va \in 0 .. MAXVA + 1 : \A n \in 0 .. MAXVA :
        LET r == copyin(<<>>, va, n)
            s == copyinstr(<<>>, va, n)
            Str(k) == /\ k < n /\ \A a \in va .. va + k : walkaddr(a)
                      /\ ubyte[va + k] = 0 /\ \A i \in 0 .. k - 1 : ubyte[va + i] # 0
        IN /\ r.ok <=> \A a \in va .. va + n - 1 : walkaddr(a)
           /\ r.ok => r.data = [i \in 1 .. n |-> ubyte[va + i - 1]]
           /\ s.ok <=> \E k \in 0 .. n : Str(k)
           /\ s.ok => LET k == CHOOSE k \in 0 .. n : Str(k)
                      IN s.data = [i \in 1 .. k + 1 |-> ubyte[va + i - 1]]
                         /\ fetchstr(va, n) = k

(* fetchaddr() (syscall.c:11) asks copyin() for a word just when the whole *)
(* word is below the process size, also where address + 8 overflows, and   *)
(* succeeds just when in addition the user may read it.                    *)
FetchInside ==
    \A addr \in 0 .. 2^VABITS - 1 : \A sz \in 0 .. MAXVA :
        /\ InSize(addr, sz) <=> addr + WORD <= sz
        /\ fetchaddr(addr, sz) <=>
              addr + WORD <= sz /\ \A a \in addr .. addr + WORD - 1 : walkaddr(a)
=============================================================================
