----------------------------- MODULE CqLifecycle -----------------------------
(***************************************************************************)
(* Kernel CQs from hgrnic_create_cq to hgrnic_destroy_cq: hgrnic_init_cq   *)
(* and hgrnic_free_cq (hgrnic_cq.c) over the CQ context table of IcmTable, *)
(* the CQ number allocator (an instance of IndexAlloc), the pointer table  *)
(* cq_table.cq and the device's CQ contexts, reached through the command   *)
(* interface of HcaCmd.                                                     *)
(*                                                                          *)
(* Each thread creates and destroys one CQ at a time.  hgrnic_reg_icm and   *)
(* hgrnic_unreg_icm are IcmTable's own steps, started by the thread and    *)
(* finished when IcmTable's pc is back to idle.  The ring itself is        *)
(* CqRing's; here it is only allocated (hgrnic_alloc_cq_buf, which may     *)
(* fail) and freed.  Nobody but hgrnic_free_cq changes cq->refcount, so    *)
(* its wait_event returns at once and is left out.                          *)
(***************************************************************************)
EXTENDS IcmTable

CONSTANTS
    NumCqs,      \* dev->limits.num_cqs
    CqMask,      \* mask of cq_table.alloc, scaled down from (1 << 24) - 1
    SetupFails,  \* TRUE: the mailbox of hgrnic_init_cq, and the page
                 \* hgrnic_array_set allocates, may fail
    Hw2swFails   \* TRUE: the device may complete HW2SW_CQ with an error

ASSUME SetupFails \in BOOLEAN /\ Hw2swFails \in BOOLEAN

VARIABLES
    cqnBits, cqnLast, cqnTop, cqnHeld, cqnRet,  \* cq_table.alloc
    cqPc,    \* per thread: where its CQ's creation or destruction is
    cqn,     \* per thread: cq->cqn
    cqBuf,   \* per thread: its ring buffer is allocated
    cqRet,   \* per thread: err as hgrnic_init_cq will return it
    arr,     \* cq_table.cq: the thread whose CQ each slot points to
    hwCq     \* the device's CQ contexts: the thread each belongs to

Cqn == INSTANCE IndexAlloc WITH Max <- NumCqs, Mask <- CqMask,
         table <- cqnBits, last <- cqnLast, top <- cqnTop, held <- cqnHeld,
         ret <- cqnRet

cqnVars == <<cqnBits, cqnLast, cqnTop, cqnHeld, cqnRet>>
cqVars == <<cqnVars, cqPc, cqn, cqBuf, cqRet, arr, hwCq>>
allVars == <<cmdVars, tableVars, cqVars>>

NoCqn == Cqn!NoObj
NoRet == 1                         \* destroying: no init_cq result pending
CqIdxs == 0 .. NumCqs - 1
CqIdx(n) == n % NumCqs             \* cqn & (dev->limits.num_cqs - 1)

\* hgrnic_array_set allocates the slot's page when no slot of it is in use
\* (one page holds every slot at these bounds).
PageAbsent == \A i \in CqIdxs : arr[i] = NoThread

CqPcs == {"idle", "reg", "reg_wait", "buf", "mailbox", "sw2hw_wait",
          "array_set", "live", "hw2sw_wait", "free_buf", "unreg", "free_num"}

CqCmd(t, op) == [thr |-> t, op |-> op, chunk |-> CqIdx(cqn[t]), region |-> NoRegion]

CqInit ==
    /\ Init
    /\ Cqn!Init
    /\ cqPc = [t \in Threads |-> "idle"]
    /\ cqn = [t \in Threads |-> NoCqn]
    /\ cqBuf = [t \in Threads |-> FALSE]
    /\ cqRet = [t \in Threads |-> NoRet]
    /\ arr = [i \in CqIdxs |-> NoThread]
    /\ hwCq = [i \in CqIdxs |-> NoThread]

\* hgrnic_init_cq lines 567-569: a CQ number, or -ENOMEM.
CqAllocNum(t) ==
    /\ cqPc[t] = "idle"
    /\ Cqn!hgrnic_alloc
    /\ IF cqnRet' = NoCqn
       THEN UNCHANGED <<cqPc, cqn, cqRet>>
       ELSE /\ cqn' = [cqn EXCEPT ![t] = cqnRet']
            /\ cqPc' = [cqPc EXCEPT ![t] = "reg"]
            /\ cqRet' = [cqRet EXCEPT ![t] = 0]
    /\ UNCHANGED <<cmdVars, tableVars, cqBuf, arr, hwCq>>

\* Lines 571-572: hgrnic_reg_icm of the number in the CQ context table.
CqRegIcm(t) ==
    /\ cqPc[t] = "reg"
    /\ RegStart(t, cqn[t])
    /\ cqPc' = [cqPc EXCEPT ![t] = "reg_wait"]
    /\ UNCHANGED <<cqnVars, cqn, cqBuf, cqRet, arr, hwCq>>

\* Lines 573-574: hgrnic_reg_icm returned; on an error, goto err_out.
CqAfterReg(t) ==
    /\ cqPc[t] = "reg_wait" /\ pc[t] = "idle"
    /\ \/ ret[t] = 0 /\ cqPc' = [cqPc EXCEPT ![t] = "buf"] /\ UNCHANGED cqRet
       \/ /\ ret[t] # 0
          /\ cqPc' = [cqPc EXCEPT ![t] = "free_num"]
          /\ cqRet' = [cqRet EXCEPT ![t] = ret[t]]
    /\ UNCHANGED <<cmdVars, tableVars, cqnVars, cqn, cqBuf, arr, hwCq>>

\* Mutant: a failed buffer allocation going to err_out, past the unreg.
CqAllocBufSkipUnreg(t) ==
    /\ cqPc[t] = "buf"
    /\ \/ /\ AllocFailures
          /\ cqPc' = [cqPc EXCEPT ![t] = "free_num"]
          /\ cqRet' = [cqRet EXCEPT ![t] = -ENOMEM]
          /\ UNCHANGED cqBuf
       \/ /\ cqBuf' = [cqBuf EXCEPT ![t] = TRUE]
          /\ cqPc' = [cqPc EXCEPT ![t] = "mailbox"]
          /\ UNCHANGED cqRet
    /\ UNCHANGED <<cmdVars, tableVars, cqnVars, cqn, arr, hwCq>>

\* Lines 576-581: hgrnic_alloc_cq_buf for a kernel CQ; on an error, goto
\* err_out_icm.
CqAllocBuf(t) ==
    /\ cqPc[t] = "buf"
    /\ \/ /\ AllocFailures
          /\ cqPc' = [cqPc EXCEPT ![t] = "unreg"]
          /\ cqRet' = [cqRet EXCEPT ![t] = -ENOMEM]
          /\ UNCHANGED cqBuf
       \/ /\ cqBuf' = [cqBuf EXCEPT ![t] = TRUE]
          /\ cqPc' = [cqPc EXCEPT ![t] = "mailbox"]
          /\ UNCHANGED cqRet
    /\ UNCHANGED <<cmdVars, tableVars, cqnVars, cqn, arr, hwCq>>

\* Lines 588-602: the mailbox, then SW2HW_CQ.  A failed mailbox goes to
\* err_out_free_mr with err still 0 from the calls before it.
CqPostSw2hw(t) ==
    /\ cqPc[t] = "mailbox"
    /\ \E ok \in BOOLEAN :
          /\ ~ok => SetupFails
          /\ IF ok
             THEN /\ CmdIssue(t, CqCmd(t, "SW2HW_CQ"))
                  /\ cqPc' = [cqPc EXCEPT ![t] = "sw2hw_wait"]
             ELSE /\ cqPc' = [cqPc EXCEPT ![t] = "free_buf"]
                  /\ UNCHANGED cmdVars
    /\ UNCHANGED <<tableVars, cqnVars, cqn, cqBuf, cqRet, arr, hwCq>>

\* Mutant: the result of SW2HW_CQ not tested.
Sw2hwCqDoneIgnoreErr(t) ==
    /\ cqPc[t] = "sw2hw_wait"
    /\ CmdTake(t)
    /\ cqPc' = [cqPc EXCEPT ![t] = "array_set"]
    /\ UNCHANGED <<tableVars, cqnVars, cqn, cqBuf, cqRet, arr, hwCq>>

\* Lines 603-605: SW2HW_CQ returned; on an error, goto err_out_mailbox.
Sw2hwCqDone(t) ==
    /\ cqPc[t] = "sw2hw_wait"
    /\ CmdTake(t)
    /\ \/ cmdRet[t] = 0 /\ cqPc' = [cqPc EXCEPT ![t] = "array_set"] /\ UNCHANGED cqRet
       \/ /\ cmdRet[t] # 0
          /\ cqPc' = [cqPc EXCEPT ![t] = "free_buf"]
          /\ cqRet' = [cqRet EXCEPT ![t] = cmdRet[t]]
    /\ UNCHANGED <<tableVars, cqnVars, cqn, cqBuf, arr, hwCq>>

\* Lines 619-628: under cq_table.lock the CQ is published in cq_table.cq;
\* when hgrnic_array_set cannot get its page, goto err_out_free_mr, again
\* with err 0, and with the device owning the context.
CqArraySet(t) ==
    /\ cqPc[t] = "array_set"
    /\ \E ok \in BOOLEAN :
          /\ ~ok => SetupFails /\ PageAbsent
          /\ IF ok
             THEN /\ arr' = [arr EXCEPT ![CqIdx(cqn[t])] = t]
                  /\ cqPc' = [cqPc EXCEPT ![t] = "live"]
             ELSE /\ cqPc' = [cqPc EXCEPT ![t] = "free_buf"]
                  /\ UNCHANGED arr
    /\ UNCHANGED <<cmdVars, tableVars, cqnVars, cqn, cqBuf, cqRet, hwCq>>

-----------------------------------------------------------------------------
(* hgrnic_free_cq (lines 657-680), called by hgrnic_destroy_cq.            *)

\* Mutant: free_cq freeing the CQ buffer as it posts HW2SW_CQ, before the
\* device has given the context back.
CqHw2swPostFreesBuf(t) ==
    /\ cqPc[t] = "live"
    /\ CmdIssue(t, CqCmd(t, "HW2SW_CQ"))
    /\ cqPc' = [cqPc EXCEPT ![t] = "hw2sw_wait"]
    /\ cqRet' = [cqRet EXCEPT ![t] = NoRet]
    /\ cqBuf' = [cqBuf EXCEPT ![t] = FALSE]
    /\ UNCHANGED <<tableVars, cqnVars, cqn, arr, hwCq>>

\* Line 662: HW2SW_CQ for the CQ's number.
CqHw2swPost(t) ==
    /\ cqPc[t] = "live"
    /\ CmdIssue(t, CqCmd(t, "HW2SW_CQ"))
    /\ cqPc' = [cqPc EXCEPT ![t] = "hw2sw_wait"]
    /\ cqRet' = [cqRet EXCEPT ![t] = NoRet]
    /\ UNCHANGED <<tableVars, cqnVars, cqn, cqBuf, arr, hwCq>>

\* Lines 663-671: an error of HW2SW_CQ is only logged; under
\* cq_table.lock the slot is cleared (hgrnic_array_clear frees the page with
\* its last slot).
Hw2swCqDone(t) ==
    /\ cqPc[t] = "hw2sw_wait"
    /\ CmdTake(t)
    /\ arr' = [arr EXCEPT ![CqIdx(cqn[t])] = NoThread]
    /\ cqPc' = [cqPc EXCEPT ![t] = "free_buf"]
    /\ UNCHANGED <<tableVars, cqnVars, cqn, cqBuf, cqRet, hwCq>>

\* Lines 633-635 and 675-676: hgrnic_free_cq_buf.
CqFreeBuf(t) ==
    /\ cqPc[t] = "free_buf"
    /\ cqBuf' = [cqBuf EXCEPT ![t] = FALSE]
    /\ cqPc' = [cqPc EXCEPT ![t] = "unreg"]
    /\ UNCHANGED <<cmdVars, tableVars, cqnVars, cqn, cqRet, arr, hwCq>>

\* Lines 638 and 678: hgrnic_unreg_icm of the CQ's number.
CqUnreg(t) ==
    /\ cqPc[t] = "unreg"
    /\ UnregStart(t)
    /\ cqPc' = [cqPc EXCEPT ![t] = "free_num"]
    /\ UNCHANGED <<cqnVars, cqn, cqBuf, cqRet, arr, hwCq>>

\* Lines 640-643 and 679: once hgrnic_unreg_icm has returned, the number
\* goes back to cq_table.alloc.  hgrnic_init_cq then returns err: 0 hands
\* the CQ to hgrnic_create_cq as created.
CqFreeNum(t) ==
    /\ cqPc[t] = "free_num" /\ pc[t] = "idle"
    /\ Cqn!hgrnic_free(cqn[t])
    /\ cqPc' = [cqPc EXCEPT ![t] = IF cqRet[t] = 0 THEN "live" ELSE "idle"]
    /\ cqn' = [cqn EXCEPT ![t] = IF cqRet[t] = 0 THEN @ ELSE NoCqn]
    /\ UNCHANGED <<cmdVars, tableVars, cqBuf, cqRet, arr, hwCq>>

-----------------------------------------------------------------------------
(* The device: MAP_ICM and UNMAP_ICM act on the CQ context table as in      *)
(* IcmTable; SW2HW_CQ with status OK hands the context to the device,      *)
(* HW2SW_CQ with status OK takes it back.                                   *)

CqFwExec(status) ==
    /\ fwCmd # NoCmd
    /\ \/ /\ fwCmd.op \in {"MAP", "UNMAP"}
          /\ FwIcmExec(status)
          /\ UNCHANGED cqVars
       \/ /\ fwCmd.op \in {"SW2HW_CQ", "HW2SW_CQ"}
          /\ FwExec(status)
          /\ fwCmd.op = "HW2SW_CQ" /\ status # 0 => Hw2swFails
          /\ hwCq' = IF status # 0 THEN hwCq
                     ELSE [hwCq EXCEPT ![fwCmd.chunk] =
                             IF fwCmd.op = "SW2HW_CQ" THEN fwCmd.thr ELSE NoThread]
          /\ UNCHANGED <<tableVars, cqnVars, cqPc, cqn, cqBuf, cqRet, arr>>

CqNext ==
    \/ \E t \in Threads :
          \/ CqAllocNum(t) \/ CqRegIcm(t) \/ CqAfterReg(t) \/ CqAllocBuf(t)
          \/ CqPostSw2hw(t) \/ Sw2hwCqDone(t) \/ CqArraySet(t)
          \/ CqHw2swPost(t) \/ Hw2swCqDone(t) \/ CqFreeBuf(t) \/ CqUnreg(t)
          \/ CqFreeNum(t)
    \/ \E t \in Threads :
          (RegMap(t) \/ RegMapDone(t) \/ UnregUnmap(t) \/ UnregDone(t))
          /\ UNCHANGED cqVars
    \/ \E t \in Threads : CmdCollect(t) /\ UNCHANGED <<tableVars, cqVars>>
    \/ \E s \in FwStatuses : CqFwExec(s)

CqSpec == CqInit /\ [][CqNext]_allVars

CqSymmetry == Permutations(Threads)

-----------------------------------------------------------------------------
CqTypeOK ==
    /\ TypeOK
    /\ Cqn!TypeOK
    /\ cqPc \in [Threads -> CqPcs]
    /\ cqn \in [Threads -> Cqn!Handles \cup {NoCqn}]
    /\ cqBuf \in [Threads -> BOOLEAN]
    /\ cqRet \in [Threads -> {0, NoRet} \cup {-e : e \in Errnos}]
    /\ arr \in [CqIdxs -> Threads \cup {NoThread}]
    /\ hwCq \in [CqIdxs -> Threads \cup {NoThread}]

\* A CQ hgrnic_init_cq returned 0 for, until hgrnic_free_cq starts, has
\* everything the driver and the device need to use it: its number is taken
\* in cq_table.alloc, its context chunk registered, its buffer allocated,
\* cq_table.cq points to it and the device holds its context.  Every error
\* path of hgrnic_init_cq must undo the steps before it and return an error.
LiveCqSetUp ==
    \A t \in Threads :
        cqPc[t] = "live" =>
            LET i == CqIdx(cqn[t]) IN
            /\ cqn[t] \in cqnHeld
            /\ own[t] = cqn[t]
            /\ cqBuf[t]
            /\ arr[i] = t
            /\ hwCq[i] = t

\* A thread with no CQ holds none of its resources, and the CQ numbers taken
\* in cq_table.alloc are exactly those of the CQs being created, live or
\* being destroyed: the unwinding of hgrnic_init_cq and hgrnic_free_cq
\* releases each resource once, in the reverse order of taking it.
CqUnwindReleasesAll ==
    /\ \A t \in Threads :
          cqPc[t] = "idle" =>
             /\ own[t] = NoObj
             /\ ~cqBuf[t]
             /\ \A i \in CqIdxs : arr[i] # t
    /\ cqnHeld = {cqn[t] : t \in {u \in Threads : cqPc[u] # "idle"}}

\* The device holds a CQ context only for a thread whose CQ still has its
\* buffer: hgrnic_free_cq frees the buffer the context points to only after
\* HW2SW_CQ has taken the context back (lines 662-676).
HwCqOnlyWithBuffer ==
    \A i \in CqIdxs : hwCq[i] # NoThread => cqBuf[hwCq[i]]
=============================================================================
