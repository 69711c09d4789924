----------------------------- MODULE IndexAlloc -----------------------------
(***************************************************************************)
(* The bitmap index allocator of hgrnic_allocator.c (struct hgrnic_alloc), *)
(* used for PD, UAR, MPT key, CQ and QP numbers.  hgrnic_alloc and          *)
(* hgrnic_free each run whole under alloc->lock, so each is one atomic     *)
(* step.  The callers are abstracted to the set `held' of handles they     *)
(* hold: a handle is the bit index OR'd with the generation `top'.         *)
(***************************************************************************)
EXTENDS Naturals, FiniteSets, Bitwise

CONSTANTS
    Max,    \* alloc->max: number of bits, a power of two (hgrnic_alloc_init)
    Mask    \* alloc->mask: bound on the handles handed out

ASSUME /\ Max \in {2^k : k \in 0..8}
       /\ Mask + 1 >= Max /\ (Mask + 1) % Max = 0

VARIABLES
    table,    \* the set bits of alloc->table
    last,     \* alloc->last: scan cursor
    top,      \* alloc->top: generation OR'd into returned handles
    held,     \* handles returned by hgrnic_alloc and not yet freed
    ret       \* value returned by the latest hgrnic_alloc (NoObj: -1)

vars == <<table, last, top, held, ret>>

Indices == 0 .. Max - 1
NoObj == Mask + 1     \* stands for the (u32)-1 failure value
Handles == 0 .. Mask

LowestIn(S) == CHOOSE i \in S : \A j \in S : i <= j

\* find_next_zero_bit(table, max, from): the first clear bit at or above
\* `from', or max when there is none.
FindNextZeroBit(tbl, from) ==
    LET clear == {i \in from .. Max - 1 : i \notin tbl}
    IN  IF clear = {} THEN Max ELSE LowestIn(clear)

\* Mutant: the scan without the wrap-around restart from bit 0.
ScanNoRestart(tbl, lst, tp) ==
    [obj |-> FindNextZeroBit(tbl, lst), top |-> tp]

\* Lines 25-29 of hgrnic_alloc: search from the cursor; when nothing is free
\* above it, advance the generation and search again from bit 0.
Scan(tbl, lst, tp) ==
    LET first == FindNextZeroBit(tbl, lst)
    IN  IF first < Max
        THEN [obj |-> first, top |-> tp]
        ELSE [obj |-> FindNextZeroBit(tbl, 0), top |-> (tp + Max) & Mask]

\* Line 55: hgrnic_free leaves the cursor where it is (FIXME, hardware bug).
CursorAfterFree(lst, obj) == lst

\* Mutant: hgrnic_free without `obj &= alloc->max - 1'.
FreeBitUnmasked(h) == h

\* Line 50: the bit a handle names.
FreeBit(h) == h & (Max - 1)

\* Mutant: the cursor advanced without the wrap to 0 at max.
NextCursorNoWrap(o) == o + 1

\* Lines 32-34: the cursor moves past the bit just issued, wrapping at max.
NextCursor(o) == IF o + 1 = Max THEN 0 ELSE o + 1

Init ==
    /\ table = {}
    /\ last = 0
    /\ top = 0
    /\ held = {}
    /\ ret = NoObj

\* hgrnic_alloc (lines 18-44).
hgrnic_alloc ==
    LET s == Scan(table, last, top)
    IN  /\ top' = s.top
        /\ IF s.obj < Max
           THEN /\ last' = NextCursor(s.obj)
                /\ table' = table \cup {s.obj}
                /\ ret' = s.obj | s.top
                /\ held' = held \cup {s.obj | s.top}
           ELSE /\ ret' = NoObj
                /\ UNCHANGED <<last, table, held>>

\* hgrnic_free (lines 46-59) of a handle some caller holds.
hgrnic_free(h) ==
    LET obj == FreeBit(h)
    IN  /\ table' = table \ {obj}
        /\ last' = CursorAfterFree(last, obj)
        /\ top' = (top + Max) & Mask
        /\ held' = held \ {h}
        /\ UNCHANGED ret

Next ==
    \/ hgrnic_alloc
    \/ \E h \in held : hgrnic_free(h)

Spec == Init /\ [][Next]_vars

-----------------------------------------------------------------------------
TypeOK ==
    /\ table \subseteq Indices
    /\ last \in Indices
    /\ top \in Handles
    /\ held \subseteq Handles
    /\ ret \in Handles \cup {NoObj}

\* Every bit set in the table belongs to exactly one handle a caller holds,
\* and every held handle names a set bit: hgrnic_free's masking of the
\* handle (line 50) must undo the generation OR'd in by hgrnic_alloc
\* (line 37), across every wrap of `top'.
BitmapMatchesHolders ==
    /\ table = {FreeBit(h) : h \in held}
    /\ Cardinality(held) = Cardinality(table)

\* hgrnic_alloc fails only when every bit of the table is set: after any
\* free, the next alloc succeeds even when the free bit lies below the
\* cursor (the wrap-around restart of lines 26-29).
AllocFailsOnlyWhenFull ==
    [][hgrnic_alloc /\ ret' = NoObj => table = Indices]_vars
=============================================================================
