------------------------------- MODULE CqRing -------------------------------
(***************************************************************************)
(* The completion-queue ring of a kernel CQ and its online resize:         *)
(* hgrnic_poll_cq / hgrnic_poll_one and the owner-bit helpers of           *)
(* hgrnic_cq.c, hgrnic_cq_resize_copy_cqes, and hgrnic_resize_cq /         *)
(* hgrnic_alloc_resize_buf of hgrnic_provider.c.                           *)
(*                                                                          *)
(* Three actors share the CQ: the device, which writes CQEs into the       *)
(* buffer it was last told about, one poller (hgrnic_poll_cq runs whole    *)
(* under cq->lock, but the device does not take the lock, so poll_cq is a  *)
(* sequence of steps), and one resizer (cq->mutex serialises resizes).  A  *)
(* CQE is abstracted to the sequence number the device gave it; NoCqe is   *)
(* a slot owned by hardware.  Buffers are model values, never reused.      *)
(***************************************************************************)
EXTENDS Integers, FiniteSets

CONSTANTS
    Bufs,          \* buffer identities (cq->buf and resize buffers)
    B0,            \* the buffer hgrnic_init_cq gave the CQ
    InitSize,      \* entries of B0 (a power of two)
    NewSizes,      \* entries a resize may ask for, after roundup_pow_of_two
    MaxCqes,       \* bound: CQEs the device produces in a behaviour
    PollBatch,     \* num_entries of hgrnic_poll_cq
    AllocFailures, \* TRUE: kmalloc / hgrnic_alloc_cq_buf may fail
    ResizeRejects, \* TRUE: the device may fail RESIZE_CQ with a status
    Kinds,         \* owners the CQ may have: "kernel" and/or "user" (libhgrnic)
    UserFailures,  \* TRUE: libhgrnic's resize may fail to allocate,
                   \* register or resize (the command returns an error)
    MaxResizes     \* bound: resize calls the application makes

ASSUME /\ B0 \in Bufs /\ InitSize \in {2^k : k \in 1..4}
       /\ NewSizes \subseteq {2^k : k \in 1..4}
       /\ MaxCqes \in Nat /\ PollBatch \in Nat \ {0}
       /\ Kinds \subseteq {"kernel", "user"} /\ Kinds # {}

NoCqe == -1
NoBuf == "none"
NoResize == [b |-> NoBuf, state |-> "NONE"]
MaxSlots == IF \E n \in NewSizes : n > InitSize
            THEN CHOOSE n \in NewSizes : \A x \in NewSizes : x <= n
            ELSE InitSize
Slots == 0 .. MaxSlots - 1

VARIABLES
    mem,        \* mem[b][i]: the CQE in slot i of buffer b, or NoCqe
    bufSize,    \* entries of each buffer allocated so far (0: never)
    live,       \* buffers allocated and not yet freed
    buf,        \* cq->buf (cq->ibcq.cqe is bufSize[buf] - 1)
    cons,       \* cq->cons_index
    rbuf,       \* cq->resize_buf: its buffer and state, or NoResize
    hwBuf,      \* the buffer the device writes into
    prod,       \* the device's producer index: sequence number of its next CQE
    delivered,  \* CQEs hgrnic_poll_one has returned
    lock,       \* holder of cq->lock
    ppc,        \* poller: "idle", "loop" (poll_one loop), "peek" (resize check)
    npolled,    \* poller: npolled of hgrnic_poll_cq
    rpc,        \* resizer: "idle", "alloc", "cmd", "failed", "unlink",
                \* "finish" or "spin"
    rsize,      \* resizer: entries of the buffer being built
    kind,       \* "kernel" (ib_hgrnic polls) or "user" (libhgrnic polls)
    cqeMask,    \* libhgrnic's cq->cqe_mask, the mask its poller uses
    resizes     \* resize calls made so far

vars == <<mem, bufSize, live, buf, cons, rbuf, hwBuf, prod,
          delivered, lock, ppc, npolled, rpc, rsize, kind, cqeMask, resizes>>

\* Mutant: hgrnic_alloc_cq_buf without the set_cqe_hw loop, so the
\* buffer keeps what the memory last held.
AllocCqBufUninit == [i \in Slots |-> 0]

\* hgrnic_alloc_cq_buf (cq.c lines 226-241): every entry owned by hardware.
AllocCqBuf == [i \in Slots |-> NoCqe]

\* get_cqe / cqe_sw: the entry for index i of buffer b, if software owns it.
SlotOf(b, i) == i % bufSize[b]
SwOwned(b, i) == mem[b][SlotOf(b, i)] # NoCqe

\* The entry the poller reads for cons_index: ib_hgrnic's next_cqe_sw masks
\* with cq->ibcq.cqe, which always describes cq->buf; libhgrnic's (cq.c
\* line 92) masks with cq->cqe_mask, which hgrnic_resize_cq sets on its own.
PollSlot == IF kind = "user" THEN cons % (cqeMask + 1) ELSE SlotOf(buf, cons)
PollSwOwned == mem[buf][PollSlot] # NoCqe

Init ==
    /\ mem = [b \in Bufs |-> AllocCqBuf]
    /\ bufSize = [b \in Bufs |-> IF b = B0 THEN InitSize ELSE 0]
    /\ live = {B0}
    /\ buf = B0
    /\ cons = 0
    /\ rbuf = NoResize
    /\ hwBuf = B0
    /\ prod = 0
    /\ delivered = 0
    /\ lock = "free"
    /\ ppc = "idle"
    /\ npolled = 0
    /\ rpc = "idle"
    /\ rsize = 0
    /\ kind \in Kinds
    /\ cqeMask = InitSize - 1
    /\ resizes = 0

-----------------------------------------------------------------------------
(* The device.                                                              *)

\* The device writes its next CQE into the slot for prod and hands it to
\* software; it waits while software still owns that slot.  The application
\* keeps at most ibcq.cqe completions outstanding, one less than the
\* entries (hgrnic_create_cq line 375, hgrnic_init_cq line 565, line 652).
HwWriteCqe ==
    /\ prod < MaxCqes
    /\ prod - cons < bufSize[buf] - 1
    /\ ~SwOwned(hwBuf, prod)
    /\ mem' = [mem EXCEPT ![hwBuf][SlotOf(hwBuf, prod)] = prod]
    /\ prod' = prod + 1
    /\ UNCHANGED <<bufSize, live, buf, cons, rbuf, hwBuf, delivered,
                   lock, ppc, npolled, rpc, rsize, kind, cqeMask, resizes>>

-----------------------------------------------------------------------------
(* The poller: hgrnic_poll_cq (lines 489-541) and hgrnic_poll_one.          *)

PollStart ==
    /\ ppc = "idle" /\ lock = "free"
    /\ lock' = "poller" /\ ppc' = "loop" /\ npolled' = 0
    /\ UNCHANGED <<mem, bufSize, live, buf, cons, rbuf, hwBuf, prod,
                   delivered, rpc, rsize, kind, cqeMask, resizes>>

\* Mutant: poll_one handing the entry back without advancing cons_index.
ConsumeCqeNoAdvance ==
    /\ mem' = [mem EXCEPT ![buf][PollSlot] = NoCqe]
    /\ cons' = cons
    /\ delivered' = delivered + 1
    /\ npolled' = npolled + 1

\* hgrnic_poll_one (lines 331-473) on a software-owned entry: it is
\* returned, handed back to hardware (set_cqe_hw) and cons_index advances.
ConsumeCqe ==
    /\ mem' = [mem EXCEPT ![buf][PollSlot] = NoCqe]
    /\ cons' = cons + 1
    /\ delivered' = delivered + 1
    /\ npolled' = npolled + 1

\* The loop of lines 507-513: poll_one while npolled < num_entries; an
\* entry owned by hardware is -EAGAIN and leads to the resize check; a
\* full batch returns (err is 0, so the resize check is skipped).
\* libhgrnic's hgrnic_poll_cq (cq.c 377-395) is the same loop without the
\* resize check: CQ_EMPTY unlocks and returns.
PollOne ==
    /\ ppc = "loop"
    /\ \/ /\ npolled < PollBatch /\ PollSwOwned
          /\ ConsumeCqe
          /\ UNCHANGED <<ppc, lock>>
       \/ /\ npolled < PollBatch /\ ~PollSwOwned /\ kind = "kernel"
          /\ ppc' = "peek"
          /\ UNCHANGED <<mem, cons, delivered, npolled, lock>>
       \/ /\ npolled < PollBatch /\ ~PollSwOwned /\ kind = "user"
          /\ ppc' = "idle" /\ lock' = "free"
          /\ UNCHANGED <<mem, cons, delivered, npolled>>
       \/ /\ npolled = PollBatch
          /\ ppc' = "idle" /\ lock' = "free"
          /\ UNCHANGED <<mem, cons, delivered, npolled>>
    /\ UNCHANGED <<bufSize, live, buf, rbuf, hwBuf, prod, rpc, rsize, kind, cqeMask, resizes>>

\* Lines 517-535: with a resize READY and software owning the new buffer's
\* entry for cons_index, the buffers are swapped, the resize marked
\* SWAPPED, and polling goes on (goto repoll); otherwise poll_cq returns.
PollPeek ==
    /\ ppc = "peek"
    /\ IF rbuf.state = "READY" /\ SwOwned(rbuf.b, cons)
       THEN /\ buf' = rbuf.b
            /\ rbuf' = [b |-> buf, state |-> "SWAPPED"]
            /\ ppc' = "loop"
            /\ UNCHANGED lock
       ELSE /\ ppc' = "idle" /\ lock' = "free"
            /\ UNCHANGED <<buf, rbuf>>
    /\ UNCHANGED <<mem, bufSize, live, cons, hwBuf, prod, delivered,
                   npolled, rpc, rsize, kind, cqeMask, resizes>>

-----------------------------------------------------------------------------
(* The resizer: hgrnic_resize_cq (provider.c lines 661-738) of a kernel CQ, *)
(* with hgrnic_alloc_resize_buf (lines 616-659) inlined.                    *)

FreshBufs == {b \in Bufs : bufSize[b] = 0 /\ b # rbuf.b}

\* Lines 669-683 and 620-637: a size other than the current one (the same
\* size returns 0 at line 674 and changes nothing); under cq->lock the
\* resize record is created in state ALLOC (resize_buf is always NULL here:
\* cq->mutex is held and every resize clears it before unlocking).
ResizeStart(n) ==
    /\ kind = "kernel" /\ rpc = "idle" /\ lock = "free"
    /\ resizes < MaxResizes /\ resizes' = resizes + 1
    /\ n # bufSize[buf]
    /\ FreshBufs # {}
    /\ rbuf' = [b |-> CHOOSE b \in FreshBufs : TRUE, state |-> "ALLOC"]
    /\ rpc' = "alloc"
    /\ rsize' = n
    /\ UNCHANGED <<mem, bufSize, live, buf, cons, hwBuf, prod,
                   delivered, lock, ppc, npolled, kind, cqeMask>>

\* Lines 643-656: hgrnic_alloc_cq_buf builds the buffer with every entry
\* owned by hardware, and the record becomes READY; if it fails the record
\* is dropped under the lock and the resize returns the error.
ResizeAllocBuf ==
    /\ rpc = "alloc" /\ lock = "free"
    /\ \/ /\ mem' = [mem EXCEPT ![rbuf.b] = AllocCqBuf]
          /\ bufSize' = [bufSize EXCEPT ![rbuf.b] = rsize]
          /\ live' = live \cup {rbuf.b}
          /\ rbuf' = [rbuf EXCEPT !.state = "READY"]
          /\ rpc' = "cmd"
       \/ /\ AllocFailures
          /\ rbuf' = NoResize
          /\ rpc' = "idle"
          /\ UNCHANGED <<mem, bufSize, live>>
    /\ UNCHANGED <<buf, cons, hwBuf, prod, delivered, lock, ppc,
                   npolled, rsize, kind, cqeMask, resizes>>

\* Line 694: hgrnic_RESIZE_CQ.  On success the device writes its next CQEs
\* into the new buffer, continuing from its producer index; a status from
\* the device leads to the error path.
ResizeCmd ==
    /\ rpc = "cmd"
    /\ \/ /\ hwBuf' = rbuf.b
          /\ rpc' = "finish"
       \/ /\ ResizeRejects
          /\ rpc' = "failed"
          /\ UNCHANGED hwBuf
    /\ UNCHANGED <<mem, bufSize, live, buf, cons, rbuf, prod, delivered, lock,
                   ppc, npolled, rsize, kind, cqeMask, resizes>>

\* Lines 698-701: the new buffer and the record are freed, without cq->lock.
ResizeFreeFailed ==
    /\ rpc = "failed"
    /\ live' = live \ {rbuf.b}
    /\ rpc' = "unlink"
    /\ UNCHANGED <<mem, bufSize, buf, cons, rbuf, hwBuf, prod,
                   delivered, lock, ppc, npolled, rsize, kind, cqeMask, resizes>>

\* Lines 702-705: resize_buf = NULL under cq->lock; the error is returned.
ResizeUnlink ==
    /\ rpc = "unlink" /\ lock = "free"
    /\ rbuf' = NoResize
    /\ rpc' = "idle"
    /\ UNCHANGED <<mem, bufSize, live, buf, cons, hwBuf, prod,
                   delivered, lock, ppc, npolled, rsize, kind, cqeMask, resizes>>

\* Mutant: the copy loop stopping one entry short.
SwRunShort(b, i) ==
    LET run == {k \in 0 .. bufSize[b] : \A j \in 0 .. k - 1 : SwOwned(b, i + j)}
    IN  (CHOOSE k \in run : \A x \in run : x <= k) - 1

\* Mutant: the loop condition with cqe_sw's test reversed.
SwRunInverted(b, i) ==
    CHOOSE k \in 0 .. bufSize[b] :
        /\ \A j \in 0 .. k - 1 : ~SwOwned(b, i + j)
        /\ k = bufSize[b] \/ SwOwned(b, i + k)

\* The loop of hgrnic_cq_resize_copy_cqes (cq.c lines 214-217) runs while
\* software owns the entry: the length of that run from index i, or the
\* buffer's size when software owns every entry (the loop never ends).
SwRun(b, i) ==
    CHOOSE k \in 0 .. bufSize[b] :
        /\ \A j \in 0 .. k - 1 : SwOwned(b, i + j)
        /\ k = bufSize[b] \/ ~SwOwned(b, i + k)

\* The copy itself: entry i goes to slot i & new->cqe; a later entry
\* landing on the same slot overwrites an earlier one.
CopyCqes(old, new, i, k) ==
    [mem EXCEPT ![new] =
        [s \in Slots |->
            LET js == {j \in 0 .. k - 1 : SlotOf(new, i + j) = s}
            IN  IF js = {} THEN mem[new][s]
                ELSE mem[old][SlotOf(old, i + CHOOSE j \in js : \A x \in js : x <= j)]]]

\* Mutant: tbuf always taken to be cq->buf, also after poll_cq swapped.
TbufAlwaysCurrent == buf

\* Lines 714-723: tbuf, the buffer freed at line 728: the old cq->buf when
\* it is still primary (READY), else the record's, which the swap in
\* hgrnic_poll_cq filled with the old buffer.
Tbuf == IF rbuf.state = "READY" THEN buf ELSE rbuf.b

\* Lines 709-730, under cq->lock: if poll_cq has not swapped (READY), the
\* CQEs left in the old buffer are copied to the new one and the new one
\* becomes cq->buf; otherwise (SWAPPED) the record holds the old buffer.
\* The record is dropped and the old buffer freed after the unlock.
ResizeFinish ==
    /\ rpc = "finish" /\ lock = "free"
    /\ IF rbuf.state = "READY"
       THEN LET k == SwRun(buf, cons)
            IN  IF k = bufSize[buf]
                THEN /\ rpc' = "spin" /\ lock' = "resizer"
                     /\ UNCHANGED <<mem, live, buf, rbuf>>
                ELSE /\ mem' = CopyCqes(buf, rbuf.b, cons, k)
                     /\ buf' = rbuf.b
                     /\ live' = live \ {Tbuf}
                     /\ rbuf' = NoResize
                     /\ rpc' = "idle"
                     /\ UNCHANGED lock
       ELSE /\ live' = live \ {Tbuf}
            /\ rbuf' = NoResize
            /\ rpc' = "idle"
            /\ UNCHANGED <<mem, buf, lock>>
    /\ UNCHANGED <<bufSize, cons, hwBuf, prod, delivered, ppc,
                   npolled, rsize, kind, cqeMask, resizes>>

-----------------------------------------------------------------------------
(* The resizer of a libhgrnic CQ: hgrnic_resize_cq of libhgrnic's verbs.c  *)
(* (lines 293-358), which holds cq->lock from its start to its end, so     *)
(* the poller is shut out and only the device runs beside it.  Its local   *)
(* struct hgrnic_buf is rbuf.b, in state "LOCAL".                           *)

\* Whether a step that may fail succeeds.
UserOutcomes == IF UserFailures THEN BOOLEAN ELSE {TRUE}

\* Lines 307-315: under cq->lock, cqe_mask takes the new size's mask at once;
\* a size equal to ibv_cq.cqe + 1 returns 0 there (and unlocks).
UserResizeStart(n) ==
    /\ kind = "user" /\ rpc = "idle" /\ lock = "free"
    /\ resizes < MaxResizes /\ resizes' = resizes + 1
    /\ cqeMask' = n - 1
    /\ \/ /\ n = bufSize[buf]
          /\ UNCHANGED <<rbuf, lock, rpc, rsize>>
       \/ /\ n # bufSize[buf] /\ FreshBufs # {}
          /\ rbuf' = [b |-> CHOOSE b \in FreshBufs : TRUE, state |-> "LOCAL"]
          /\ lock' = "resizer" /\ rpc' = "ualloc" /\ rsize' = n
    /\ UNCHANGED <<mem, bufSize, live, buf, cons, hwBuf, prod, delivered,
                   ppc, npolled, kind>>

\* Lines 317-331: hgrnic_alloc_cq_buf (cq.c 463-476, every entry owned by
\* hardware) and __hgrnic_reg_mr; either failing goes to out, which unlocks
\* and returns with cqe_mask left at the new size.
UserResizeAlloc ==
    /\ rpc = "ualloc"
    /\ \E ok \in UserOutcomes :
         IF ok
         THEN /\ mem' = [mem EXCEPT ![rbuf.b] = AllocCqBuf]
              /\ bufSize' = [bufSize EXCEPT ![rbuf.b] = rsize]
              /\ live' = live \cup {rbuf.b}
              /\ rpc' = "ucmd"
              /\ UNCHANGED <<rbuf, lock>>
         ELSE /\ rbuf' = NoResize /\ rpc' = "idle" /\ lock' = "free"
              /\ UNCHANGED <<mem, bufSize, live>>
    /\ UNCHANGED <<buf, cons, hwBuf, prod, delivered, ppc, npolled, rsize,
                   kind, cqeMask, resizes>>

\* Lines 335-345: ibv_cmd_resize_cq, ib_hgrnic's hgrnic_resize_cq for a
\* user CQ (provider.c 682-694, 730-731): RESIZE_CQ with the new buffer's
\* lkey, after which the device writes into it.  An error deregisters and
\* frees the new buffer and goes to out, cqe_mask again left as it is.
UserResizeCmd ==
    /\ rpc = "ucmd"
    /\ \E ok \in UserOutcomes :
         IF ok
         THEN /\ hwBuf' = rbuf.b /\ rpc' = "ucopy"
              /\ UNCHANGED <<live, rbuf, lock>>
         ELSE /\ live' = live \ {rbuf.b}
              /\ rbuf' = NoResize /\ rpc' = "idle" /\ lock' = "free"
              /\ UNCHANGED hwBuf
    /\ UNCHANGED <<mem, bufSize, buf, cons, prod, delivered, ppc, npolled,
                   rsize, kind, cqeMask, resizes>>

\* Lines 347-357: hgrnic_cq_resize_copy_cqes (cq.c 454-461, the loop of the
\* kernel's copy: from cons_index while the old buffer's entry is software
\* owned, to slot i & ibv_cq.cqe of the new one), then the old buffer is
\* deregistered and freed, the new one installed, and cq->lock released.
UserResizeFinish ==
    /\ rpc = "ucopy"
    /\ LET k == SwRun(buf, cons)
       IN  IF k = bufSize[buf]
           THEN /\ rpc' = "spin"
                /\ UNCHANGED <<mem, live, buf, rbuf, lock>>
           ELSE /\ mem' = CopyCqes(buf, rbuf.b, cons, k)
                /\ live' = live \ {buf}
                /\ buf' = rbuf.b
                /\ rbuf' = NoResize
                /\ rpc' = "idle" /\ lock' = "free"
    /\ UNCHANGED <<bufSize, cons, hwBuf, prod, delivered, ppc, npolled,
                   rsize, kind, cqeMask, resizes>>

-----------------------------------------------------------------------------
Next ==
    \/ HwWriteCqe
    \/ PollStart \/ PollOne \/ PollPeek
    \/ \E n \in NewSizes : ResizeStart(n)
    \/ ResizeAllocBuf \/ ResizeCmd \/ ResizeFreeFailed \/ ResizeUnlink
    \/ ResizeFinish
    \/ \E n \in NewSizes : UserResizeStart(n)
    \/ UserResizeAlloc \/ UserResizeCmd \/ UserResizeFinish

\* The device keeps producing; the consumer
\* keeps calling hgrnic_poll_cq; a resize under way runs to its end (its
\* steps are a kernel thread's and take only cq->lock; libhgrnic's run in
\* the caller's thread, which holds cq->lock throughout).  Starting a resize
\* is the user's choice and is not assumed.
Fairness ==
    /\ WF_vars(HwWriteCqe)
    /\ WF_vars(PollStart) /\ WF_vars(PollOne) /\ WF_vars(PollPeek)
    /\ WF_vars(ResizeAllocBuf) /\ WF_vars(ResizeCmd)
    /\ WF_vars(ResizeFreeFailed) /\ WF_vars(ResizeUnlink)
    /\ WF_vars(ResizeFinish)
    /\ WF_vars(UserResizeAlloc) /\ WF_vars(UserResizeCmd)
    /\ WF_vars(UserResizeFinish)

Spec == Init /\ [][Next]_vars /\ Fairness

-----------------------------------------------------------------------------
TypeOK ==
    /\ buf \in Bufs /\ live \subseteq Bufs /\ hwBuf \in Bufs
    /\ rbuf.state \in {"NONE", "ALLOC", "READY", "SWAPPED", "LOCAL"}
    /\ cons \in 0 .. MaxCqes /\ delivered = cons
    /\ prod \in 0 .. MaxCqes
    /\ lock \in {"free", "poller", "resizer"}
    /\ ppc \in {"idle", "loop", "peek"} /\ npolled \in 0 .. PollBatch
    /\ rpc \in {"idle", "alloc", "cmd", "failed", "unlink", "finish", "spin",
               "ualloc", "ucmd", "ucopy"}
    /\ kind \in Kinds /\ cqeMask + 1 \in {2^k : k \in 0 .. 4}
    /\ resizes \in 0 .. MaxResizes

\* The entry hgrnic_poll_one hands back is always the oldest CQE not yet
\* returned: across the swap in hgrnic_poll_cq (cq.c 517-535) and the copy
\* in hgrnic_resize_cq (provider.c 714-720) no CQE is lost, repeated or
\* returned out of order.
CqesInOrder ==
    [][PollOne /\ delivered' = delivered + 1
         => mem[buf][PollSlot] = delivered]_vars

\* The copy loop of hgrnic_cq_resize_copy_cqes (cq.c 214) ends: it stops
\* only at a hardware-owned entry, so it needs one in the old buffer
\* whenever hgrnic_resize_cq reaches it (unlike hgrnic_cq_clean, lines
\* 177-178, it has no bound of its own).
ResizeCopyTerminates == rpc # "spin"

\* hgrnic_poll_cq only reads buffers that are allocated: cq->buf while it
\* polls, and the resize buffer it peeks at while the record says READY.
PollReadsLiveBuffers ==
    /\ ppc \in {"loop", "peek"} => buf \in live
    /\ ppc = "peek" /\ rbuf.state = "READY" => rbuf.b \in live

\* The device only ever writes CQEs into memory the driver still owns.
HwWritesLiveBuffer == hwBuf \in live

\* Every CQE the device produces is eventually returned by hgrnic_poll_cq.
AllCqesDelivered == \A n \in 0 .. MaxCqes - 1 : prod > n ~> delivered > n
=============================================================================
