--------------------------- MODULE MailboxLayout ---------------------------
(***************************************************************************)
(* The two loops that pack a list into command mailboxes, as pure         *)
(* operators: hgrnic_MAP_ICM (hgrnic_cmd.c), fed by the scatter list that  *)
(* hgrnic_alloc_icm (hgrnic_icm.c) builds, and __hgrnic_write_mtt          *)
(* (hgrnic_mr.c), fed in chunks by hgrnic_reg_user_mr (hgrnic_provider.c). *)
(* Each is checked against a reference definition of what the firmware    *)
(* must end up with, over every input up to a bound.                       *)
(*                                                                         *)
(* Sizes are scaled down; the code's values are given beside each one.     *)
(* ICM addresses are in units in which a page is 2^IcmPageShift.           *)
(***************************************************************************)
EXTENDS Integers, Sequences

LOCAL INSTANCE SequencesExt
LOCAL INSTANCE Bitwise

MailboxSize == 64           \* HGRNIC_MAILBOX_SIZE = 4096
MailboxPairs == MailboxSize \div 16   \* MAP_ICM entries per mailbox (256)
MailboxWords == MailboxSize \div 8    \* 64-bit words per mailbox (512)
IcmPageShift == 3           \* HGRNIC_ICM_PAGE_SHIFT = PAGE_SHIFT = 12
MapIcmMaxPageNumLog == 2    \* MAP_ICM_MAX_PAGE_NUM_LOG = 8
IcmAllocOrder == 2          \* get_order(HGRNIC_ICM_ALLOC_SIZE) = 6
TableChunkPages == 4        \* HGRNIC_TABLE_CHUNK_SIZE >> PAGE_SHIFT = 64
AlignErr == -22          \* -EINVAL, line 808

\* What a word of a freshly allocated (not cleared) mailbox, or memory read
\* past its end, holds: nothing the driver put there.
Garbage == -1

Pow2(n) == 2^n
PageSize == Pow2(IcmPageShift)

\* Count of trailing zero bits of a positive number.
RECURSIVE Ctz(_)
Ctz(x) == IF x % 2 = 1 THEN 0 ELSE 1 + Ctz(x \div 2)

\* The kernel's ffs(): 1 + index of the least significant set bit, 0 for 0.
Ffs(x) == IF x = 0 THEN 0 ELSE Ctz(x) + 1


-----------------------------------------------------------------------------
(* hgrnic_alloc_icm: the page orders of the segments it allocates.        *)

\* Lines 154-204: starting at the order of HGRNIC_ICM_ALLOC_SIZE, lower the
\* order until a block fits in what is left (lines 169-170); alloc_pages of
\* that order either succeeds (the segment is taken, npages shrinks) or
\* fails (the order drops; below 0 the whole allocation fails and yields no
\* segment list). The set of every order sequence a successful call builds.
RECURSIVE AllocIcmOrders(_, _)
AllocIcmOrders(npages, order) ==
    IF npages <= 0 THEN {<<>>}
    ELSE LET fit[o \in 0..order] == IF Pow2(o) > npages /\ o > 0 THEN fit[o-1] ELSE o
             cur == fit[order]
         IN  {<<cur>> \o rest : rest \in AllocIcmOrders(npages - Pow2(cur), cur)}
             \cup (IF cur > 0 THEN AllocIcmOrders(npages, cur - 1) ELSE {})

\* hgrnic_alloc_icm_pages (lines 93-108): alloc_pages of an order returns a
\* block aligned to its size, set as one scatter entry of PAGE_SIZE << order
\* bytes; dma_alloc_coherent (lines 115-130) aligns a block the same way.
\* Segment j is placed in its own region, aligned to exactly its size;
\* pci_map_sg (lines 187, 207) is taken to map each entry as it is.
IcmSegs(orders) ==
    [j \in DOMAIN orders |->
        [addr |-> j * Pow2(IcmAllocOrder + IcmPageShift + 1)
                    + Pow2(orders[j] + IcmPageShift),
         size |-> Pow2(orders[j] + IcmPageShift)]]

-----------------------------------------------------------------------------
(* hgrnic_MAP_ICM (hgrnic_cmd.c lines 770-862).                             *)

ClearedSlot == [virt |-> 0, phys |-> 0]

\* Lines 783-788: the mailbox is cleared once; nent starts at 1.
MapIcmInit(virt) ==
    [nent |-> 1, slots |-> [s \in 0..MailboxPairs - 1 |-> ClearedSlot],
     cmds |-> <<>>, virt |-> virt, err |-> 0]

\* Mutant: the entries laid out in slot order 1, 2, 3, .. instead.
PutEntryLinear(st, e) ==
    LET slots == [st.slots EXCEPT ![st.nent] = e]
        nent == st.nent + 1
    IN  IF nent >= MailboxPairs
        THEN [st EXCEPT !.slots = slots, !.nent = 1,
                        !.cmds = Append(@, [count |-> nent - 1, slots |-> slots])]
        ELSE [st EXCEPT !.slots = slots, !.nent = nent]

\* Lines 812-834: one entry goes to slot nent; nent then steps 1,0,3,2,5,..;
\* when it reaches the mailbox's capacity the mailbox is sent with nent - 1
\* entries and nent restarts at 1, the mailbox left as it is.
PutEntry(st, e) ==
    LET slots == [st.slots EXCEPT ![st.nent] = e]
        nent == IF st.nent % 2 = 0 THEN st.nent + 3 ELSE st.nent - 1
    IN  IF nent >= MailboxPairs
        THEN [st EXCEPT !.slots = slots, !.nent = 1,
                        !.cmds = Append(@, [count |-> nent - 1, slots |-> slots])]
        ELSE [st EXCEPT !.slots = slots, !.nent = nent]

\* Lines 800-810: the entry size is the alignment of address and size,
\* capped at MAP_ICM_MAX_PAGE_NUM_LOG pages; below one page it is rejected.
SegLog(seg) ==
    LET lg == Ffs(seg.addr | seg.size) - 1
    IN  IF lg > MapIcmMaxPageNumLog + IcmPageShift
        THEN MapIcmMaxPageNumLog + IcmPageShift ELSE lg

\* Mutant: the size flag shifted by the entry's log size in bytes, not pages.
SegEntriesFlagBytes(seg, virt) ==
    LET lg == SegLog(seg) IN
    [i \in 1..(seg.size \div Pow2(lg)) |->
        [virt |-> virt + (i - 1) * Pow2(lg),
         phys |-> (seg.addr + (i - 1) * Pow2(lg)) | Pow2(lg)]]

\* Lines 812-821: the segment cut into entries of 2^lg bytes, each the pair
\* (virt, phys | 1 << (lg - page shift)), virt advancing by 2^lg.
SegEntries(seg, virt) ==
    LET lg == SegLog(seg) IN
    [i \in 1..(seg.size \div Pow2(lg)) |->
        [virt |-> virt + (i - 1) * Pow2(lg),
         phys |-> (seg.addr + (i - 1) * Pow2(lg)) | Pow2(lg - IcmPageShift)]]

\* Lines 795-836: one scatter entry; after an error the rest are skipped.
PutSeg(st, seg) ==
    IF st.err # 0 THEN st
    ELSE IF SegLog(seg) < IcmPageShift THEN [st EXCEPT !.err = AlignErr]
    ELSE LET es == SegEntries(seg, st.virt)
         IN  [FoldLeft(PutEntry, st, es) EXCEPT !.virt = @ + seg.size]

\* Lines 838-847: the last, partly filled mailbox is sent with nent adjusted
\* back to the number of entries in it, unless it holds none.
MapIcmFinish(st) ==
    LET nent == IF st.nent % 2 = 0 THEN st.nent + 1 ELSE st.nent - 1
    IN  IF st.err = 0 /\ nent # 0
        THEN [st EXCEPT !.cmds = Append(@, [count |-> nent, slots |-> st.slots])]
        ELSE st

MapIcm(segs, virt) == MapIcmFinish(FoldLeft(PutSeg, MapIcmInit(virt), segs))

\* The firmware reads entry j of a MAP_ICM mailbox from slot j XOR 1 (the
\* pairing hgrnic_MAP_ICM_page, lines 877-884, also follows).
FwEntries(cmd) == [j \in 1..cmd.count |-> cmd.slots[(j - 1) ^^ 1]]

FwMapIcm(cmds) == FlattenSeq([c \in DOMAIN cmds |-> FwEntries(cmds[c])])

-----------------------------------------------------------------------------
(* __hgrnic_write_mtt (hgrnic_mr.c lines 253-305) and its caller           *)
(* hgrnic_reg_user_mr (hgrnic_provider.c lines 467-495).                    *)

\* hgrnic_write_mtt_size (mr.c lines 307-311): PAGE_SIZE / 8 entries, and
\* PAGE_SIZE equals HGRNIC_MAILBOX_SIZE in this build.
WriteMttSize == MailboxWords

\* Line 273: entries a mailbox holds after its 4-word header (508).
MttPerMailbox == MailboxWords - 4

\* Lines 273-289: i stops at the first multiple of 4 not below list_len,
\* or at the mailbox's capacity.
FillEnd(len) == LET up == ((len + 3) \div 4) * 4
                IN  IF up < MttPerMailbox THEN up ELSE MttPerMailbox

\* Mutant: the entries copied in list order, the quartets not reversed.
FillMailboxUnreversed(mbox, start, list) ==
    [w \in DOMAIN mbox |->
        IF w < 3 THEN 0
        ELSE IF w = 3 THEN start
        ELSE IF w - 4 < FillEnd(Len(list))
             THEN IF w - 4 < Len(list) THEN list[w - 3] ELSE 0
        ELSE mbox[w]]

\* Lines 267-289: words 0-2 zero, word 3 the start index; entry k of the
\* list goes to word 4 + (k XOR 3) (each quartet reversed), zero past the
\* list's end; words past the filled quartets keep what they held.
FillMailbox(mbox, start, list) ==
    [w \in DOMAIN mbox |->
        IF w < 3 THEN 0
        ELSE IF w = 3 THEN start
        ELSE IF w - 4 < FillEnd(Len(list))
             THEN LET k == (w - 4) ^^ 3
                  IN  IF k < Len(list) THEN list[k + 1] ELSE 0
        ELSE mbox[w]]

\* The firmware's WRITE_MTT of `count' entries: entry k is read from word
\* 4 + (k XOR 3) and written to MTT index start + k; a word past the end of
\* the mailbox is whatever memory follows it.
FwWriteMtt(table, mbox, start, count) ==
    [x \in DOMAIN table |->
        IF start <= x /\ x < start + count
        THEN LET w == 4 + ((x - start) ^^ 3)
             IN  IF w < MailboxWords THEN mbox[w] ELSE Garbage
        ELSE table[x]]

\* Lines 267-299: fill, send WRITE_MTT with list_len entries (line 291),
\* then advance list, start index and length by i; stop when none is left.
\* `counts' records the count of every command sent.
RECURSIVE WriteMttLoop(_, _, _)
WriteMttLoop(st, start, list) ==
    IF Len(list) = 0 THEN st
    ELSE LET mbox == FillMailbox(st.mbox, start, list)
             i == FillEnd(Len(list))
         IN  WriteMttLoop(
                [mbox |-> mbox,
                 mtt |-> FwWriteMtt(st.mtt, mbox, start, Len(list)),
                 counts |-> Append(st.counts, Len(list))],
                start + i,
                IF i < Len(list) THEN SubSeq(list, i + 1, Len(list)) ELSE <<>>)

\* Lines 262-266: a fresh mailbox, its contents not cleared.
WriteMttMailbox(st, start, list) ==
    WriteMttLoop([st EXCEPT !.mbox = [w \in 0..MailboxWords - 1 |-> Garbage]],
                 start, list)

\* hgrnic_reg_user_mr lines 467-495: the page addresses are gathered into
\* chunks of write_mtt_size and each chunk written at MTT index n.
RECURSIVE RegUserMrMtt(_, _, _)
RegUserMrMtt(st, n, pages) ==
    IF Len(pages) = 0 THEN st
    ELSE LET len == IF Len(pages) < WriteMttSize THEN Len(pages) ELSE WriteMttSize
         IN  RegUserMrMtt(WriteMttMailbox(st, n, SubSeq(pages, 1, len)), n + len,
                          SubSeq(pages, len + 1, Len(pages)))

-----------------------------------------------------------------------------
(* What the firmware ends up with, each a constant formula over every      *)
(* input up to a bound. IcmTable and MrTable state them as invariants of   *)
(* the device's state, where it relies on them.                            *)

\* Bounds: MAP_ICM lists up to two full mailboxes and one entry more, and
\* user MRs of up to two write_mtt_size chunks and some, at MTT index 2.
MaxPackEntries == 2 * MailboxPairs + 1
MaxMrPages == 2 * WriteMttSize + 3
MttFirst == 2

\* MAP_ICM's packing of any number of entries, split over as many commands
\* as the mailbox's capacity requires (the nent walk 1,0,3,2,.. of lines
\* 812-847, the flush at capacity and the final count adjustment): reading
\* each command's mailbox the way the firmware does gives back exactly the
\* entries, in order, and no command claims more entries than fit.
MapIcmPacksInOrder ==
    \A n \in 0..MaxPackEntries :
        LET es == [i \in 1..n |-> [virt |-> i, phys |-> i]]
            st == MapIcmFinish(FoldLeft(PutEntry, MapIcmInit(0), es))
        IN  /\ FwMapIcm(st.cmds) = es
            /\ \A c \in DOMAIN st.cmds : st.cmds[c].count <= MailboxPairs

\* An entry as the firmware decodes it: the low flag bit gives its size in
\* pages, the rest its physical address.
EntryPagesLog(e) == Ctz(e.phys)
EntryBase(e) == e.phys - Pow2(EntryPagesLog(e))
EntryBytes(e) == Pow2(EntryPagesLog(e) + IcmPageShift)

\* Reference: page k of an ICM area is page k of its segments laid end to end.
IcmPages(segs) ==
    FlattenSeq([j \in DOMAIN segs |->
        [p \in 1..(segs[j].size \div PageSize) |-> segs[j].addr + (p - 1) * PageSize]])

\* Whatever mix of block orders hgrnic_alloc_icm ends up with for a table
\* chunk, whole (hgrnic_reg_icm) or the short last chunk of the reserved
\* objects (hgrnic_alloc_icm_table, hgrnic_icm.c lines 380-384),
\* hgrnic_MAP_ICM of it at the chunk's virtual address never fails the alignment test, every
\* entry is aligned to its own size in both address spaces as the firmware
\* requires, and every page of the chunk's virtual range is covered by
\* exactly one entry that translates it to that page of the allocation.
MapIcmTranslatesChunk ==
    \A npages \in 0..TableChunkPages :
    \A orders \in AllocIcmOrders(npages, IcmAllocOrder) :
        LET segs == IcmSegs(orders)
            virt == Pow2(IcmAllocOrder + IcmPageShift)
            st == MapIcm(segs, virt)
            fw == FwMapIcm(st.cmds)
            ref == IcmPages(segs)
        IN  /\ st.err = 0
            /\ \A i \in DOMAIN fw :
                  /\ fw[i].virt % EntryBytes(fw[i]) = 0
                  /\ EntryBase(fw[i]) % EntryBytes(fw[i]) = 0
            /\ \A k \in DOMAIN ref :
                  LET va == virt + (k - 1) * PageSize
                      covering == {i \in DOMAIN fw :
                                     fw[i].virt <= va /\ va < fw[i].virt + EntryBytes(fw[i])}
                  IN  \E i \in covering :
                         /\ covering = {i}
                         /\ EntryBase(fw[i]) + (va - fw[i].virt) = ref[k]

\* hgrnic_reg_user_mr's MTT write, chunk after chunk of write_mtt_size
\* entries through __hgrnic_write_mtt's quartet-reversed mailboxes and
\* WRITE_MTT commands: once every command has completed, the MR's MTT
\* entries hold its page addresses in order, and no entry outside the MR's
\* range was touched.
WriteMttWritesList ==
    \A n \in 0..MaxMrPages :
        LET pages == [i \in 1..n |-> 100 + i]
            mtt0 == [x \in 0..MttFirst + MaxMrPages + MailboxWords |-> 0]
            st == RegUserMrMtt([mbox |-> <<>>, mtt |-> mtt0, counts |-> <<>>],
                               MttFirst, pages)
        IN  \A x \in DOMAIN mtt0 :
               st.mtt[x] = IF MttFirst <= x /\ x < MttFirst + n
                           THEN pages[x - MttFirst + 1] ELSE 0

\* Every WRITE_MTT command names no more entries than its mailbox holds
\* (hgrnic_mr.c line 291 passes the whole remaining list_len, while the
\* mailbox holds 508 entries and hgrnic_reg_user_mr passes chunks of 512).
WriteMttCountsFit ==
    \A n \in 0..MaxMrPages :
        LET st == RegUserMrMtt([mbox |-> <<>>, mtt |-> [x \in 0..0 |-> 0], counts |-> <<>>],
                               MttFirst, [i \in 1..n |-> 100 + i])
        IN  \A c \in DOMAIN st.counts : st.counts[c] <= MttPerMailbox

=============================================================================
