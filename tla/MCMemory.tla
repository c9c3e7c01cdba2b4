------------------------------ MODULE MCMemory ------------------------------
(***************************************************************************)
(* The calls of SafeMemory over every place, length and overlap of a small *)
(* memory: they need no walk, and are looked at in the state where the one *)
(* over memories begins.                                                   *)
(***************************************************************************)
EXTENDS MCSeqArith, SafeMemory

VARIABLES
    kind,  \* which walk this is
    text   \* its input so far

FirstLook == kind = "memory" /\ text = <<>>
-----------------------------------------------------------------------------
Cells(from, n) == from .. from + n - 1
Unchanged(before, after, cells) == \A a \in DOMAIN before \ cells : after[a] = before[a]
Apart(dest, dmax, src, smax) == dest = src \/ Cells(dest, dmax) \cap Cells(src, smax) = {}

\* r is what a copy of smax cells to dest may do: nothing outside of dest, all of the
\* copy or a cleared dest, and no error without a reason.
CopyKept(m, r, dest, dmax, src, smax, may) ==
    /\ Unchanged(m, r.mem, Cells(dest, dmax))
    /\ r.err = "EOK" =>
          /\ \A k \in 0 .. smax - 1 : r.mem[dest + k] = m[src + k]
          /\ Unchanged(m, r.mem, Cells(dest, smax))
    /\ r.err \notin {"EOK", "ESZEROL", "ESLEMAX"} => \A a \in Cells(dest, dmax) : r.mem[a] = 0
    /\ (r.err = "EOK") <=> may

SetKept(m, r, dest, len, value, max) ==
    /\ Unchanged(m, r.mem, Cells(dest, len))
    /\ IF len \in 1 .. max THEN \A a \in Cells(dest, len) : r.mem[a] = value ELSE r.mem = m

CompareKept(m, r, dest, src, smax) ==
    r.err = "EOK" => (r.diff = 0 <=> \A k \in 0 .. smax - 1 : m[dest + k] = m[src + k])

CopiesKept(m, dest, dmax, src, smax) ==
    LET Kept(r, max, apart) ==
            CopyKept(m, r, dest, dmax, src, smax, dmax \in 1 .. max /\ smax \in 1 .. dmax /\ apart)
        apart == Apart(dest, dmax, src, smax)
    IN /\ Kept(safe_memcpy(m, dest, dmax, src, smax), MaxMem, apart)
       /\ Kept(safe_memcpy16(m, dest, dmax, src, smax), MaxMem \div 2, apart)
       /\ Kept(safe_memcpy32(m, dest, dmax, src, smax), MaxMem \div 4, apart)
       /\ Kept(safe_wmemcpy(m, dest, dmax, src, smax), MaxMem, apart)
       /\ Kept(safe_memmove(m, dest, dmax, src, smax), MaxMem, TRUE)
       /\ Kept(safe_memmove16(m, dest, dmax, src, smax), MaxMem \div 2, TRUE)
       /\ Kept(safe_memmove32(m, dest, dmax, src, smax), MaxMem \div 4, TRUE)
       /\ Kept(safe_wmemmove(m, dest, dmax, src, smax), MaxMem \div 4, TRUE)

SetsKept(m, dest, len) ==
    LET Kept(r, value, max) == SetKept(m, r, dest, len, value, max)
    IN /\ Kept(safe_memset(m, dest, len, 99), 99, MaxMem)
       /\ Kept(safe_memset16(m, dest, len, 99), 99, MaxMem \div 2)
       /\ Kept(safe_memset32(m, dest, len, 99), 99, MaxMem \div 4)
       /\ Kept(safe_wmemset(m, dest, 99, len), 99, MaxMem \div 4)
       /\ Kept(safe_memzero(m, dest, len), 0, MaxMem)
       /\ Kept(safe_memzero16(m, dest, len), 0, MaxMem \div 2)
       /\ Kept(safe_memzero32(m, dest, len), 0, MaxMem \div 4)

ComparesKept(m, dest, dmax, src, smax) ==
    /\ CompareKept(m, safe_memcmp(m, dest, dmax, src, smax, 0), dest, src, smax)
    /\ CompareKept(m, safe_memcmp16(m, dest, dmax, src, smax, 0), dest, src, smax)
    /\ CompareKept(m, safe_memcmp32(m, dest, dmax, src, smax, 0), dest, src, smax)
    /\ CompareKept(m, safe_wmemcmp(m, dest, dmax, src, smax, 0), dest, src, smax)

MemoryPlaces == 0 .. MaxMem + 3

\* safe_mem_primitives_lib.c:305-311 and the checks of safe_mem*.c: a move copies what was
\* there before it began, however source and destination overlap and are aligned, a copy
\* refuses what overlaps, neither touches a cell outside of dest, and a comparison is 0
\* only for what is equal, also where a difference of 32 bits wraps around.
MemoryCallsKeepTheirPromise ==
    FirstLook =>
        LET m == [a \in MemoryPlaces |-> a + 1]
            like == [a \in MemoryPlaces |-> (a % 3) * ((Numbers \div 2) - 1)]
        IN \A dest \in MemoryPlaces, src \in MemoryPlaces, dmax \in 0 .. MaxMem + 1 :
              dest + dmax <= MaxMem + 4 =>
                 /\ SetsKept(m, dest, dmax)
                 /\ \A smax \in 0 .. MaxMem + 4 - src :
                       /\ CopiesKept(m, dest, dmax, src, smax)
                       /\ ComparesKept(like, dest, dmax, src, smax)
=============================================================================
