------------------------------- MODULE MrTable -------------------------------
(***************************************************************************)
(* Memory regions of hgrnic_mr.c over the command interface of HcaCmd:     *)
(* the MTT buddy allocator (hgrnic_buddy_alloc / hgrnic_buddy_free), MTT   *)
(* ranges (hgrnic_alloc_mtt, hgrnic_free_mtt, with hgrnic_reg_icm_range /  *)
(* hgrnic_unreg_icm_range on the MTT table), and an MR's life as           *)
(* hgrnic_reg_user_mr and hgrnic_dereg_mr drive it: MTT, WRITE_MTT, an MPT *)
(* key and its ICM (hgrnic_mr_alloc), SW2HW_MPT; then HW2SW_MPT,           *)
(* hgrnic_free_region and hgrnic_free_mtt.                                  *)
(*                                                                          *)
(* Each thread owns one MR at a time.  The buddy functions run whole under *)
(* buddy->lock, hgrnic_alloc / hgrnic_free under the allocator's lock, so  *)
(* each is one step.  One hgrnic_reg_icm or hgrnic_unreg_icm on the MTT    *)
(* table is one step (IcmTable models its inside): it only gains or drops  *)
(* a chunk reference, and when the chunk must first be mapped it may fail. *)
(* The MPT's own ICM entry is reduced to whether its registration fails.   *)
(* The device keeps the MPT entries handed to it and the MTT entries       *)
(* written to it.                                                           *)
(***************************************************************************)
EXTENDS HcaCmd, MailboxLayout, FiniteSets

CONSTANTS
    MaxOrder,      \* buddy->max_order: fls(num_mtt_segs - 1)
    SegsPerChunk,  \* HGRNIC_TABLE_CHUNK_SIZE / mtt_table->obj_size
    Sizes,         \* MTT entries an MR asks for (ib_umem_num_pages)
    NumMpts,       \* dev->limits.num_mpts
    MptMask,       \* mask of mr_table.mpt_alloc, scaled down from ~0
    IcmFails,      \* TRUE: mapping a fresh ICM chunk may fail
    AllocFailures  \* TRUE: kmalloc and mailbox allocations may fail

ASSUME /\ MaxOrder \in 0 .. 4 /\ SegsPerChunk \in {2^k : k \in 0 .. 4}
       /\ Sizes \subseteq 1 .. 2^MaxOrder
       /\ IcmFails \in BOOLEAN /\ AllocFailures \in BOOLEAN

VARIABLES
    bits,      \* bits[o]: the set bits of buddy->bits[o] (free blocks)
    numFree,   \* buddy->num_free[o]
    mttRef,    \* refcount of each chunk of the MTT ICM table
    mptBits, mptLast, mptTop, mptHeld, mptRet,  \* mr_table.mpt_alloc
    mrPc,      \* per thread: where its MR's creation or destruction is
    mtt,       \* per thread: its struct hgrnic_mtt (first_index, order)
    rangeAt,   \* per thread: `i' of the reg / unreg range loop in progress
    key,       \* per thread: mr->ibmr.lkey
    hwMpt,     \* the device's MPT entries, by key & (num_mpts - 1)
    hwMtt      \* the device's MTT entries: the thread that wrote each

Mpt == INSTANCE IndexAlloc WITH Max <- NumMpts, Mask <- MptMask,
         table <- mptBits, last <- mptLast, top <- mptTop, held <- mptHeld,
         ret <- mptRet

mptVars == <<mptBits, mptLast, mptTop, mptHeld, mptRet>>
mrVars == <<bits, numFree, mttRef, mptVars, mrPc, mtt, rangeAt, key, hwMpt, hwMtt>>
vars == <<cmdVars, mrVars>>

Orders == 0 .. MaxOrder
Segs == 0 .. 2^MaxOrder - 1
MttChunks == 0 .. (2^MaxOrder - 1) \div SegsPerChunk
NoSeg == -1
NoMtt == [first |-> NoSeg, order |-> 0, len |-> 0]
NoEntry == [owner |-> NoThread, key |-> -1, first |-> NoSeg, len |-> 0]

\* The chunk of an MTT index (hgrnic_icm.c line 234, with num_obj covering
\* the whole pool).
ChunkOf(i) == i \div SegsPerChunk

\* Segments of an MTT: first_index .. first_index + (1 << order) - 1.
MttSegs(m) == m.first .. m.first + 2^m.order - 1

\* Lines 210-212 of __hgrnic_alloc_mtt: the least order with 2^order >= size.
RECURSIVE OrderLoop(_, _, _)
OrderLoop(size, i, o) == IF i < size THEN OrderLoop(size, 2 * i, o + 1) ELSE o
MttOrder(size) == OrderLoop(size, 1, 0)

LowestOf(S) == CHOOSE x \in S : \A y \in S : x <= y

\* seg ^ 1: the buddy of a block at its order.
BuddyOf(seg) == IF seg % 2 = 0 THEN seg + 1 ELSE seg - 1

\* Lines 72-81 of hgrnic_buddy_alloc: split the block found at order o down
\* to `order', setting the upper half at each level; the result is the
\* first segment, seg << order.
RECURSIVE Split(_, _, _, _, _)
Split(bs, nf, o, seg, order) ==
    IF o > order
    THEN Split([bs EXCEPT ![o - 1] = @ \cup {BuddyOf(2 * seg)}],
               [nf EXCEPT ![o - 1] = @ + 1], o - 1, 2 * seg, order)
    ELSE [bits |-> bs, numFree |-> nf, seg |-> seg * 2^order]

\* Mutant: the block found not taken out of bits[o] (no clear_bit).
BuddyAllocNoClear(bs, nf, order) ==
    LET found == {o \in order .. MaxOrder : nf[o] > 0 /\ bs[o] # {}}
        o == LowestOf(found)
        seg == LowestOf(bs[o])
    IN  IF found = {} THEN [bits |-> bs, numFree |-> nf, seg |-> NoSeg]
        ELSE Split(bs, [nf EXCEPT ![o] = @ - 1], o, seg, order)

\* hgrnic_buddy_alloc (lines 49-84): the least order at or above `order'
\* with num_free set and a set bit, its first set bit (find_first_bit)
\* cleared, then the split; -1 when no order has one.
BuddyAlloc(bs, nf, order) ==
    LET found == {o \in order .. MaxOrder : nf[o] > 0 /\ bs[o] # {}}
        o == LowestOf(found)
        seg == LowestOf(bs[o])
    IN  IF found = {} THEN [bits |-> bs, numFree |-> nf, seg |-> NoSeg]
        ELSE Split([bs EXCEPT ![o] = @ \ {seg}], [nf EXCEPT ![o] = @ - 1],
                   o, seg, order)

\* Lines 92-100 of hgrnic_buddy_free: while the buddy is free, take it out
\* and move up one order; then set the bit of the merged block.
RECURSIVE Coalesce(_, _, _, _)
Coalesce(bs, nf, seg, o) ==
    IF BuddyOf(seg) \in bs[o]
    THEN Coalesce([bs EXCEPT ![o] = @ \ {BuddyOf(seg)}],
                  [nf EXCEPT ![o] = @ - 1], seg \div 2, o + 1)
    ELSE [bits |-> [bs EXCEPT ![o] = @ \cup {seg}],
          numFree |-> [nf EXCEPT ![o] = @ + 1]]

\* Mutant: hgrnic_buddy_free without the merge loop.
BuddyFreeNoMerge(bs, nf, seg, order) ==
    [bits |-> [bs EXCEPT ![order] = @ \cup {seg \div 2^order}],
     numFree |-> [nf EXCEPT ![order] = @ + 1]]

\* hgrnic_buddy_free (lines 86-103): seg >>= order, then the merge.
BuddyFree(bs, nf, seg, order) == Coalesce(bs, nf, seg \div 2^order, order)

\* The loop condition of hgrnic_reg_icm_range and hgrnic_unreg_icm_range
\* (icm.c lines 310 and 331): i <= end, with end = first + (1 << order) - 1.
InRange(m, i) == i <= m.first + 2^m.order - 1

\* The chunks the range loop visits with i from lo (a step of the loop)
\* up to but not including hi.
ChunksVisited(m, lo, hi) ==
    {ChunkOf(i) : i \in {j \in lo .. hi - 1 : (j - m.first) % SegsPerChunk = 0}}

NoKey == Mpt!NoObj
MptIndex(k) == k % NumMpts          \* key & (dev->limits.num_mpts - 1)

\* A command a thread posts, with what the device does with it: WRITE_MTT
\* writes the entries `segs', SW2HW_MPT installs `entry' at MPT index
\* `idx', HW2SW_MPT takes index `idx' back (hgrnic_cmd.c lines 916-948).
Cmd(t, op, idx, entry, segs) ==
    [thr |-> t, op |-> op, idx |-> idx, entry |-> entry, segs |-> segs]

\* Where a thread's MR is.  `reg_range'/`rollback': hgrnic_reg_icm_range
\* and its unwinding; `write_wait', `sw2hw_wait', `hw2sw_wait': waiting on
\* a command; `mpt_key', `mpt_icm': hgrnic_mr_alloc; `free_key':
\* hgrnic_free_region; `free_mtt', `unreg_range': hgrnic_free_mtt.
MrPcs == {"idle", "reg_range", "rollback", "write_wait", "mpt_key", "mpt_icm",
          "sw2hw_wait", "live", "hw2sw_wait", "free_key", "free_mtt", "unreg_range"}

\* States in which a thread holds its MTT's segments from the buddy.
HoldsSegs == MrPcs \ {"idle", "unreg_range"}

\* States in which every chunk of the thread's MTT range is registered.
RangeRegistered == HoldsSegs \ {"reg_range", "rollback"}

\* Chunks of the MTT table a thread holds a reference on, from where its
\* range loop is.
RegChunks(t) ==
    LET m == mtt[t] IN
    CASE mrPc[t] \in {"reg_range", "rollback"} -> ChunksVisited(m, m.first, rangeAt[t])
      [] mrPc[t] = "unreg_range" ->
            ChunksVisited(m, rangeAt[t], m.first + 2^m.order)
      [] mrPc[t] \in RangeRegistered ->
            ChunksVisited(m, m.first, m.first + 2^m.order)
      [] OTHER -> {}

MrInit ==
    /\ CmdInit
    /\ bits = [o \in Orders |-> IF o = MaxOrder THEN {0} ELSE {}]
    /\ numFree = [o \in Orders |-> IF o = MaxOrder THEN 1 ELSE 0]
    /\ mttRef = [c \in MttChunks |-> 0]
    /\ Mpt!Init
    /\ mrPc = [t \in Threads |-> "idle"]
    /\ mtt = [t \in Threads |-> NoMtt]
    /\ rangeAt = [t \in Threads |-> NoSeg]
    /\ key = [t \in Threads |-> NoKey]
    /\ hwMpt = [i \in 0 .. NumMpts - 1 |-> NoEntry]
    /\ hwMtt = [s \in Segs |-> NoThread]

\* hgrnic_reg_user_mr lines 443-461 up to __hgrnic_alloc_mtt (mr.c
\* 194-214) and the buddy allocation of hgrnic_alloc_mtt_range (173-175).
\* A failed kmalloc returns before any state changes, so it is a stutter.
AllocMtt(t, size) ==
    LET order == MttOrder(size)
        r == BuddyAlloc(bits, numFree, order)
    IN  /\ mrPc[t] = "idle"
        /\ bits' = r.bits
        /\ numFree' = r.numFree
        /\ \/ /\ r.seg = NoSeg
              /\ UNCHANGED <<mrPc, mtt, rangeAt>>
           \/ /\ r.seg # NoSeg
              /\ mrPc' = [mrPc EXCEPT ![t] = "reg_range"]
              /\ mtt' = [mtt EXCEPT ![t] = [first |-> r.seg, order |-> order, len |-> size]]
              /\ rangeAt' = [rangeAt EXCEPT ![t] = r.seg]
        /\ UNCHANGED <<cmdVars, mttRef, mptVars, key, hwMpt, hwMtt>>

\* One hgrnic_reg_icm of the loop of hgrnic_reg_icm_range (icm.c 310-314):
\* the chunk gains a reference, or, when it is not mapped yet, mapping it
\* may fail and the loop goes to `fail'.
RegMttChunk(t) ==
    LET c == ChunkOf(rangeAt[t]) IN
    /\ mrPc[t] = "reg_range"
    /\ InRange(mtt[t], rangeAt[t])
    /\ \/ /\ mttRef' = [mttRef EXCEPT ![c] = @ + 1]
          /\ rangeAt' = [rangeAt EXCEPT ![t] = @ + SegsPerChunk]
          /\ UNCHANGED mrPc
       \/ /\ IcmFails /\ mttRef[c] = 0
          /\ mrPc' = [mrPc EXCEPT ![t] = "rollback"]
          /\ UNCHANGED <<mttRef, rangeAt>>
    /\ UNCHANGED <<cmdVars, bits, numFree, mptVars, mtt, key, hwMpt, hwMtt>>

\* Mutant: the unwinding loop stepping back without the hgrnic_unreg_icm.
RollbackNoUnreg(t) ==
    /\ mrPc[t] = "rollback"
    /\ rangeAt[t] > mtt[t].first
    /\ rangeAt' = [rangeAt EXCEPT ![t] = @ - SegsPerChunk]
    /\ UNCHANGED <<cmdVars, bits, numFree, mttRef, mptVars, mrPc, mtt, key, hwMpt, hwMtt>>

\* One step of the `fail' loop of hgrnic_reg_icm_range (icm.c 318-322).
Rollback(t) ==
    /\ mrPc[t] = "rollback"
    /\ rangeAt[t] > mtt[t].first
    /\ rangeAt' = [rangeAt EXCEPT ![t] = @ - SegsPerChunk]
    /\ mttRef' = [mttRef EXCEPT ![ChunkOf(rangeAt[t] - SegsPerChunk)] = @ - 1]
    /\ UNCHANGED <<cmdVars, bits, numFree, mptVars, mrPc, mtt, key, hwMpt, hwMtt>>

\* The unwinding done: hgrnic_alloc_mtt_range gives the block back
\* (mr.c 177-181), __hgrnic_alloc_mtt frees the struct and
\* hgrnic_reg_user_mr returns -ENOMEM.
RollbackDone(t) ==
    LET r == BuddyFree(bits, numFree, mtt[t].first, mtt[t].order) IN
    /\ mrPc[t] = "rollback"
    /\ rangeAt[t] = mtt[t].first
    /\ bits' = r.bits
    /\ numFree' = r.numFree
    /\ mrPc' = [mrPc EXCEPT ![t] = "idle"]
    /\ mtt' = [mtt EXCEPT ![t] = NoMtt]
    /\ rangeAt' = [rangeAt EXCEPT ![t] = NoSeg]
    /\ UNCHANGED <<cmdVars, mttRef, mptVars, key, hwMpt, hwMtt>>

\* The range registered: hgrnic_reg_user_mr gets a page for the list
\* (lines 463-467) and hgrnic_write_mtt takes a mailbox (mr.c 262-265);
\* either failing goes to err_mtt.  Otherwise WRITE_MTT is posted for the
\* MR's `len' entries (one mailbox holds them all: lines 472-492).
WriteMtt(t) ==
    LET m == mtt[t] IN
    /\ mrPc[t] = "reg_range"
    /\ ~InRange(m, rangeAt[t])
    /\ \/ /\ AllocFailures
          /\ mrPc' = [mrPc EXCEPT ![t] = "free_mtt"]
          /\ UNCHANGED cmdVars
       \/ /\ CmdIssue(t, Cmd(t, "WRITE_MTT", 0, NoEntry, m.first .. m.first + m.len - 1))
          /\ mrPc' = [mrPc EXCEPT ![t] = "write_wait"]
    /\ UNCHANGED <<bits, numFree, mttRef, mptVars, mtt, rangeAt, key, hwMpt, hwMtt>>

\* Mutant: the result of WRITE_MTT ignored.
WriteMttDoneIgnoreErr(t) ==
    /\ mrPc[t] = "write_wait"
    /\ CmdTake(t)
    /\ mrPc' = [mrPc EXCEPT ![t] = "mpt_key"]
    /\ UNCHANGED <<bits, numFree, mttRef, mptVars, mtt, rangeAt, key, hwMpt, hwMtt>>

\* hgrnic_WRITE_MTT returned (mr.c 291-295, provider.c 494-496): on an
\* error hgrnic_reg_user_mr goes to err_mtt, else to hgrnic_mr_alloc.
WriteMttDone(t) ==
    /\ mrPc[t] = "write_wait"
    /\ CmdTake(t)
    /\ \/ cmdRet[t] = 0 /\ mrPc' = [mrPc EXCEPT ![t] = "mpt_key"]
       \/ cmdRet[t] # 0 /\ mrPc' = [mrPc EXCEPT ![t] = "free_mtt"]
    /\ UNCHANGED <<bits, numFree, mttRef, mptVars, mtt, rangeAt, key, hwMpt, hwMtt>>

\* hgrnic_mr_alloc lines 345-349: a key from mpt_alloc, or -ENOMEM.
AllocMptKey(t) ==
    /\ mrPc[t] = "mpt_key"
    /\ Mpt!hgrnic_alloc
    /\ \/ /\ mptRet' = NoKey
          /\ mrPc' = [mrPc EXCEPT ![t] = "free_mtt"]
          /\ UNCHANGED key
       \/ /\ mptRet' # NoKey
          /\ key' = [key EXCEPT ![t] = mptRet']
          /\ mrPc' = [mrPc EXCEPT ![t] = "mpt_icm"]
    /\ UNCHANGED <<cmdVars, bits, numFree, mttRef, mtt, rangeAt, hwMpt, hwMtt>>

\* hgrnic_mr_alloc lines 351-386: the MPT's ICM entry and a mailbox, either
\* of which may fail (goto err_out_mpt_free / err_out_table, both ending in
\* hgrnic_free of the key); then SW2HW_MPT of an entry naming the key and
\* the MTT's first segment.
MptIcmAndPost(t) ==
    LET m == mtt[t]
        e == [owner |-> t, key |-> key[t], first |-> m.first, len |-> m.len]
    IN  /\ mrPc[t] = "mpt_icm"
        /\ \/ /\ IcmFails \/ AllocFailures
              /\ mrPc' = [mrPc EXCEPT ![t] = "free_key"]
              /\ UNCHANGED cmdVars
           \/ /\ CmdIssue(t, Cmd(t, "SW2HW_MPT", MptIndex(key[t]), e, {}))
              /\ mrPc' = [mrPc EXCEPT ![t] = "sw2hw_wait"]
        /\ UNCHANGED <<bits, numFree, mttRef, mptVars, mtt, rangeAt, key, hwMpt, hwMtt>>

\* SW2HW_MPT returned: the MR is live, or (err_out_mailbox) its key is
\* released and hgrnic_reg_user_mr frees the MTT (mr.c 381-406, provider.c 498-508).
Sw2hwDone(t) ==
    /\ mrPc[t] = "sw2hw_wait"
    /\ CmdTake(t)
    /\ \/ cmdRet[t] = 0 /\ mrPc' = [mrPc EXCEPT ![t] = "live"]
       \/ cmdRet[t] # 0 /\ mrPc' = [mrPc EXCEPT ![t] = "free_key"]
    /\ UNCHANGED <<bits, numFree, mttRef, mptVars, mtt, rangeAt, key, hwMpt, hwMtt>>

\* hgrnic_dereg_mr calls hgrnic_free_mr, which posts HW2SW_MPT for the
\* key's MPT index (mr.c 476-477).
Hw2swPost(t) ==
    /\ mrPc[t] = "live"
    /\ CmdIssue(t, Cmd(t, "HW2SW_MPT", MptIndex(key[t]), NoEntry, {}))
    /\ mrPc' = [mrPc EXCEPT ![t] = "hw2sw_wait"]
    /\ UNCHANGED <<bits, numFree, mttRef, mptVars, mtt, rangeAt, key, hwMpt, hwMtt>>

\* HW2SW_MPT returned: an error is only logged (mr.c 478-479) and the
\* region is freed in any case.
Hw2swDone(t) ==
    /\ mrPc[t] = "hw2sw_wait"
    /\ CmdTake(t)
    /\ mrPc' = [mrPc EXCEPT ![t] = "free_key"]
    /\ UNCHANGED <<bits, numFree, mttRef, mptVars, mtt, rangeAt, key, hwMpt, hwMtt>>

\* hgrnic_free_region (mr.c 458-464), and the same hgrnic_free at the end
\* of hgrnic_mr_alloc's error path: the MPT ICM entry is released and the
\* key returned to mpt_alloc.
FreeRegion(t) ==
    /\ mrPc[t] = "free_key"
    /\ Mpt!hgrnic_free(key[t])
    /\ key' = [key EXCEPT ![t] = NoKey]
    /\ mrPc' = [mrPc EXCEPT ![t] = "free_mtt"]
    /\ UNCHANGED <<cmdVars, bits, numFree, mttRef, mtt, rangeAt, hwMpt, hwMtt>>

\* hgrnic_free_mtt (mr.c 234-239): the block goes back to the buddy first,
\* and the range loop starts afterwards.
FreeMtt(t) ==
    LET r == BuddyFree(bits, numFree, mtt[t].first, mtt[t].order) IN
    /\ mrPc[t] = "free_mtt"
    /\ bits' = r.bits
    /\ numFree' = r.numFree
    /\ mrPc' = [mrPc EXCEPT ![t] = "unreg_range"]
    /\ rangeAt' = [rangeAt EXCEPT ![t] = mtt[t].first]
    /\ UNCHANGED <<cmdVars, mttRef, mptVars, mtt, key, hwMpt, hwMtt>>

\* hgrnic_unreg_icm_range (icm.c 326-335) one hgrnic_unreg_icm at a time,
\* then kfree(mtt) (mr.c 241-245).
UnregMttChunk(t) ==
    /\ mrPc[t] = "unreg_range"
    /\ \/ /\ InRange(mtt[t], rangeAt[t])
          /\ mttRef' = [mttRef EXCEPT ![ChunkOf(rangeAt[t])] = @ - 1]
          /\ rangeAt' = [rangeAt EXCEPT ![t] = @ + SegsPerChunk]
          /\ UNCHANGED <<mrPc, mtt>>
       \/ /\ ~InRange(mtt[t], rangeAt[t])
          /\ mrPc' = [mrPc EXCEPT ![t] = "idle"]
          /\ mtt' = [mtt EXCEPT ![t] = NoMtt]
          /\ rangeAt' = [rangeAt EXCEPT ![t] = NoSeg]
          /\ UNCHANGED mttRef
    /\ UNCHANGED <<cmdVars, bits, numFree, mptVars, key, hwMpt, hwMtt>>

\* The device completing the latched command with `status' (FwExec), and
\* on success doing what the command asks with its MTT and MPT entries.
MrFwExec(status) ==
    LET c == fwCmd IN
    /\ FwExec(status)
    /\ hwMtt' = IF c.op = "WRITE_MTT" /\ status = 0
                THEN [s \in Segs |-> IF s \in c.segs THEN c.thr ELSE hwMtt[s]]
                ELSE hwMtt
    /\ hwMpt' = CASE status # 0 -> hwMpt
                  [] c.op = "SW2HW_MPT" -> [hwMpt EXCEPT ![c.idx] = c.entry]
                  [] c.op = "HW2SW_MPT" -> [hwMpt EXCEPT ![c.idx] = NoEntry]
                  [] OTHER -> hwMpt
    /\ UNCHANGED <<bits, numFree, mttRef, mptVars, mrPc, mtt, rangeAt, key>>

MrNext ==
    \/ \E t \in Threads, size \in Sizes : AllocMtt(t, size)
    \/ \E t \in Threads :
          \/ RegMttChunk(t) \/ Rollback(t) \/ RollbackDone(t)
          \/ WriteMtt(t) \/ WriteMttDone(t)
          \/ AllocMptKey(t) \/ MptIcmAndPost(t) \/ Sw2hwDone(t)
          \/ Hw2swPost(t) \/ Hw2swDone(t)
          \/ FreeRegion(t) \/ FreeMtt(t) \/ UnregMttChunk(t)
    \/ \E t \in Threads : CmdCollect(t) /\ UNCHANGED mrVars
    \/ \E s \in FwStatuses : MrFwExec(s)

MrSpec == MrInit /\ [][MrNext]_vars

MrSymmetry == Permutations(Threads)

-----------------------------------------------------------------------------
\* The set bits of all orders, as <<order, seg>> pairs.
FreeBits == UNION {{<<o, s>> : s \in bits[o]} : o \in Orders}

\* The segments the buddy bitmaps hold free: the block of 2^o segments at
\* s << o for every set bit s of bits[o].
FreeSegs ==
    UNION {MttSegs([first |-> s * 2^o, order |-> o]) : <<o, s>> \in FreeBits}

\* The MTT a thread holds from the buddy, as a set of segments.
HeldSegs == [t \in Threads |-> IF mrPc[t] \in HoldsSegs THEN MttSegs(mtt[t]) ELSE {}]

Pool == INSTANCE MttPool WITH free <- FreeSegs, held <- HeldSegs, Callers <- Threads

MrTypeOK ==
    /\ CmdTypeOK
    /\ Mpt!TypeOK
    /\ \A o \in Orders : bits[o] \subseteq 0 .. 2^(MaxOrder - o) - 1
    /\ numFree \in [Orders -> Nat]
    /\ mttRef \in [MttChunks -> 0 .. Cardinality(Threads)]
    /\ mrPc \in [Threads -> MrPcs]
    /\ \A t \in Threads : mrPc[t] \in HoldsSegs \cup {"unreg_range"} =>
          /\ mtt[t].order \in Orders
          /\ MttSegs(mtt[t]) \subseteq Segs
    /\ hwMtt \in [Segs -> Threads \cup {NoThread}]

\* The buddy allocator implements the segment pool of MttPool: each
\* hgrnic_buddy_alloc gives its caller a free block of the asked order,
\* aligned to its size, that no other thread holds, and each
\* hgrnic_buddy_free returns exactly the block the MTT held.
PoolRefined == Pool!PoolSpec

\* hgrnic_buddy_alloc fails only when no aligned block of the asked order
\* is wholly free: hgrnic_buddy_free must have merged every pair of free
\* buddies, and num_free[o] must count the bits of bits[o], or a request
\* fails against a pool that has room for it.
AllocSucceedsWhenBlockFree ==
    \A size \in Sizes :
        Pool!HasFreeBlock(MttOrder(size)) =>
            BuddyAlloc(bits, numFree, MttOrder(size)).seg # NoSeg

\* The refcount of every chunk of the MTT table equals the number of
\* threads whose range loop (hgrnic_reg_icm_range, its unwinding, or
\* hgrnic_unreg_icm_range) holds a reference on it, although
\* hgrnic_free_mtt returns the block to the buddy before unregistering,
\* so another thread may register the same chunks in between.
RefcountMatchesMtts ==
    \A c \in MttChunks : mttRef[c] = Cardinality({t \in Threads : c \in RegChunks(t)})

\* A live MR (hgrnic_reg_user_mr returned it) is installed in the device's
\* MPT under its key, pointing at its own MTT, and every entry it uses was
\* written by its own WRITE_MTT: no other MR's WRITE_MTT, SW2HW_MPT or
\* HW2SW_MPT, stale or timed out, has overwritten them.
LiveMrTranslatesOwnMtt ==
    \A t \in Threads : mrPc[t] = "live" =>
        LET e == hwMpt[MptIndex(key[t])] IN
        /\ e.owner = t /\ e.key = key[t] /\ e.first = mtt[t].first
        /\ \A s \in e.first .. e.first + e.len - 1 : hwMtt[s] = t

\* The device's MPT holds an entry only for an MR that has not been freed:
\* hgrnic_free_mr must not free the key and the MTT while the device still
\* translates through the MPT entry.
HwMptOnlyForLiveMr ==
    \A i \in DOMAIN hwMpt : hwMpt[i] # NoEntry =>
        /\ mrPc[hwMpt[i].owner] \in {"sw2hw_wait", "live", "hw2sw_wait"}
        /\ key[hwMpt[i].owner] = hwMpt[i].key

\* The device's MTT entries of an MR, which one WRITE_MTT completing here
\* writes whole, are the MR's page addresses in order: hgrnic_reg_user_mr
\* cuts the page list into chunks of write_mtt_size, __hgrnic_write_mtt
\* packs each into quartet-reversed mailboxes and sends WRITE_MTT with its
\* count, and after all of them the firmware holds the list, and nothing
\* outside the MR's range (MailboxLayout).
WriteMttFillsMtt ==
    (\E s \in DOMAIN hwMtt : hwMtt[s] # NoThread) => WriteMttWritesList

\* No WRITE_MTT command that __hgrnic_write_mtt sends for an MR names more
\* entries than its mailbox holds (the firmware reads that many from it).
WriteMttCountFitsMailbox ==
    (\E s \in DOMAIN hwMtt : hwMtt[s] # NoThread) => WriteMttCountsFit
=============================================================================
