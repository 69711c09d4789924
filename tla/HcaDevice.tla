------------------------------ MODULE HcaDevice ------------------------------
(***************************************************************************)
(* The device's probe and remove (hgrnic_main.c) around the CQs of          *)
(* CqLifecycle: __hgrnic_init_one with hgrnic_init_hca, hgrnic_init_icm     *)
(* and hgrnic_setup_hca, the kernel CQ 0 the probe creates, and            *)
(* __hgrnic_remove_one.                                                     *)
(*                                                                          *)
(* Probe and remove run under hgrnic_device_mutex, one at a time.  Each     *)
(* step either acquires a resource or fails and jumps to an unwinding       *)
(* label; a label is the set of resources its chain of calls releases.     *)
(* The resources of the CQ path are concrete: the CQ context table is      *)
(* IcmTable's, the CQ table is the Cqn allocator and cq_table.cq, CQ 0 is   *)
(* created by the thread Probe with CqLifecycle's steps of hgrnic_init_cq.  *)
(* The others are names.  User threads create and destroy CQs only while   *)
(* the device is registered, and remove starts when they have destroyed   *)
(* theirs, as ib_unregister_device makes the clients do.                   *)
(***************************************************************************)
EXTENDS CqLifecycle, Sequences

CONSTANTS
    Probe,        \* the thread running __hgrnic_init_one
    ProbeFails    \* TRUE: every probe step may fail

ASSUME Probe \in Threads /\ ProbeFails \in BOOLEAN

VARIABLES
    devPc,        \* "probe", "cq0", "cq0_wait" (creating CQ 0) or "up"
    step,         \* the probe step to run next
    held          \* the resources the device holds

devVars == <<devPc, step, held>>
hcaVars == <<allVars, devVars>>

Users == Threads \ {Probe}

-----------------------------------------------------------------------------
(* The unwinding labels, each the set of resources its chain releases.      *)

\* __hgrnic_init_one (lines 554-579).
ErrDisablePdev == {"pci"}
ErrFreeRes == {"regions"} \cup ErrDisablePdev
ErrFreeDev == {"dev"} \cup ErrFreeRes
ErrCmd == {"cmd"} \cup ErrFreeDev
FreeIcms == {"mpt_icm", "mtt_icm", "cq_icm", "qp_icm", "eq_icm"}
ErrClose == FreeIcms \cup {"hca"} \cup ErrCmd
ErrCleanup == {"qp_table", "cq_table", "driver_pd", "mr_table", "pd_table",
               "uar_table"} \cup ErrClose

\* hgrnic_init_hca's err_close (lines 284-286), then err_cmd.
ErrInitHcaClose == {"hca"} \cup ErrCmd

\* hgrnic_init_icm (lines 211-224), then hgrnic_init_hca's err_close.
ErrUnmapEq == {"eq_icm"} \cup ErrInitHcaClose
ErrUnmapQp == {"qp_icm"} \cup ErrUnmapEq
ErrUnmapCq == {"cq_icm"} \cup ErrUnmapQp
ErrUnmapMtt == {"mtt_icm"} \cup ErrUnmapCq

\* hgrnic_setup_hca (lines 376-397), then __hgrnic_init_one's err_close.
ErrUarTableFree == {"uar_table"} \cup ErrClose
ErrUarFree == {"driver_uar"} \cup ErrUarTableFree
ErrKarUnmap == {"kar"} \cup ErrUarFree
ErrPdTableFree == {"pd_table"} \cup ErrKarUnmap
ErrMrTableFree == {"mr_table"} \cup ErrPdTableFree
ErrPdFree == {"driver_pd"} \cup ErrMrTableFree
ErrCqTableFree == {"cq_table"} \cup ErrPdFree

\* __hgrnic_remove_one (lines 587-608).
RemoveSet == {"registered"} \cup ErrCleanup

\* Mutant: hgrnic_init_icm's MTT failure jumping to err_unmap_mtt.
MttFailLabelShifted == ErrUnmapMtt

\* hgrnic_init_icm lines 195-199: a failed MTT table goes to err_unmap_cq.
MttFailLabel == ErrUnmapCq

\* The probe's steps in order: what each acquires, and the label its
\* failure jumps to.  CQ 0 is created after step CqZeroAfter.
ProbeSteps == <<
    [get |-> {"pci"},        err |-> {}],               \* pci_enable_device
    [get |-> {},             err |-> ErrDisablePdev],   \* BAR 0 and 2 checks
    [get |-> {"regions"},    err |-> ErrDisablePdev],   \* pci_request_regions
    [get |-> {},             err |-> ErrFreeRes],       \* DMA masks
    [get |-> {"dev"},        err |-> ErrFreeRes],       \* ib_alloc_device
    [get |-> {"cmd"},        err |-> ErrFreeDev],       \* hgrnic_cmd_init
    [get |-> {},             err |-> ErrCmd],           \* hgrnic_tune_pci
    [get |-> {},             err |-> ErrCmd],           \* QUERY_ADAPTER, dev_lim, profile
    [get |-> {"hca"},        err |-> ErrCmd],           \* INIT_HCA
    [get |-> {"eq_icm"},     err |-> ErrInitHcaClose],  \* hgrnic_map_eq_icm
    [get |-> {"qp_icm"},     err |-> ErrUnmapEq],       \* QP context table
    [get |-> {"cq_icm"},     err |-> ErrUnmapQp],       \* CQ context table
    [get |-> {"mtt_icm"},    err |-> MttFailLabel],     \* MTT table
    [get |-> {"mpt_icm"},    err |-> ErrUnmapMtt],      \* MPT table
    [get |-> {"uar_table"},  err |-> ErrClose],         \* hgrnic_init_uar_table
    [get |-> {"driver_uar"}, err |-> ErrUarTableFree],  \* hgrnic_uar_alloc
    [get |-> {"kar"},        err |-> ErrUarFree],       \* ioremap of the KAR
    [get |-> {"pd_table"},   err |-> ErrKarUnmap],      \* hgrnic_init_pd_table
    [get |-> {"mr_table"},   err |-> ErrPdTableFree],   \* hgrnic_init_mr_table
    [get |-> {"driver_pd"},  err |-> ErrMrTableFree],   \* hgrnic_pd_alloc
    [get |-> {"cq_table"},   err |-> ErrPdFree],        \* hgrnic_init_cq_table
    [get |-> {"qp_table"},   err |-> ErrCqTableFree],   \* hgrnic_init_qp_table
    [get |-> {"registered"}, err |-> ErrCleanup]        \* hgrnic_register_device
  >>

CqZeroAfter == 22
Resources == UNION {ProbeSteps[i].get : i \in DOMAIN ProbeSteps}

\* hgrnic_free_icm_table (icm.c lines 424-440) of the CQ context table:
\* UNMAP_ICM of every mapped chunk, its result ignored, and the chunk freed.
FreeCqIcmTable ==
    /\ icm' = [i \in Chunks |-> NoRegion]
    /\ refcount' = [i \in Chunks |-> 0]
    /\ freeRegions' = Regions
    /\ \E kept \in SUBSET {i \in Chunks : icm[i] # NoRegion} :
          /\ kept # {} => UnmapFails
          /\ fwMap' = [i \in Chunks |->
                         IF icm[i] # NoRegion /\ i \notin kept
                         THEN NoRegion ELSE fwMap[i]]

\* hgrnic_alloc_icm_table (icm.c lines 343-422) of the CQ context table:
\* the chunks of the reserved CQs are allocated, mapped and pinned with a
\* reference.  Its failures undo all of this, so a failed call changes
\* nothing.
AllocCqIcmTable ==
    /\ icm' = [i \in Chunks |-> IF i \in ReservedChunks THEN ReservedRegion[i]
                                                       ELSE NoRegion]
    /\ refcount' = [i \in Chunks |-> IF i \in ReservedChunks THEN 1 ELSE 0]
    /\ freeRegions' = freeRegions \ {ReservedRegion[i] : i \in ReservedChunks}
    /\ fwMap' = [i \in Chunks |-> IF i \in ReservedChunks THEN ReservedRegion[i]
                                                         ELSE fwMap[i]]

\* hgrnic_init_cq_table (cq.c lines 682-700): hgrnic_alloc_init zeroes
\* the bitmap, cursor and generation of cq_table.alloc, hgrnic_array_init
\* empties cq_table.cq.  hgrnic_cleanup_cq_table (lines 703-707) frees
\* both, which leaves the same empty tables for the next probe.
CqTableReset ==
    /\ cqnBits' = {} /\ cqnLast' = 0 /\ cqnTop' = 0
    /\ cqnHeld' = {} /\ cqnRet' = NoCqn
    /\ arr' = [i \in CqIdxs |-> NoThread]

\* A probe step taking the resources in S; the CQ context table and the CQ
\* table are the concrete ones.
Acquire(S) ==
    /\ held' = held \cup S
    /\ IF "cq_icm" \in S
       THEN AllocCqIcmTable
       ELSE UNCHANGED <<icm, refcount, freeRegions, fwMap>>
    /\ IF "cq_table" \in S THEN CqTableReset ELSE UNCHANGED <<cqnVars, arr>>

\* The unwinding of a failed probe, or remove: the resources in R are
\* released and the device is down.  hgrnic_cleanup_cq_table frees
\* cq_table.alloc and cq_table.cq (cq.c lines 703-707); CLOSE_HCA drops the
\* device's contexts.  CQ 0 lived in __hgrnic_init_one's frame: its number,
\* context chunk and slot go with the tables, its buffer is freed by
\* nothing.
GoDown(R) ==
    /\ held' = {}
    /\ devPc' = "probe"
    /\ step' = 1
    /\ IF "cq_icm" \in R /\ "cq_icm" \in held
       THEN FreeCqIcmTable
       ELSE UNCHANGED <<icm, refcount, freeRegions, fwMap>>
    /\ IF "cq_table" \in R
       THEN CqTableReset
       ELSE UNCHANGED <<cqnVars, arr>>
    /\ hwCq' = IF "hca" \in R THEN [i \in CqIdxs |-> NoThread] ELSE hwCq
    /\ own' = [own EXCEPT ![Probe] = NoObj]
    /\ cqPc' = [cqPc EXCEPT ![Probe] = "idle"]
    /\ cqn' = [cqn EXCEPT ![Probe] = NoCqn]
    /\ cqBuf' = [cqBuf EXCEPT ![Probe] = FALSE]
    /\ cqRet' = [cqRet EXCEPT ![Probe] = NoRet]
    /\ UNCHANGED <<cmdVars, mutex, pc, obj, ret>>

-----------------------------------------------------------------------------
HcaInit ==
    /\ CmdInit
    /\ icm = [i \in Chunks |-> NoRegion]
    /\ refcount = [i \in Chunks |-> 0]
    /\ mutex = NoThread
    /\ freeRegions = Regions
    /\ fwMap = icm
    /\ pc = [t \in Threads |-> "idle"]
    /\ obj = [t \in Threads |-> NoObj]
    /\ ret = [t \in Threads |-> 0]
    /\ own = [t \in Threads |-> NoObj]
    /\ Cqn!Init
    /\ cqPc = [t \in Threads |-> "idle"]
    /\ cqn = [t \in Threads |-> NoCqn]
    /\ cqBuf = [t \in Threads |-> FALSE]
    /\ cqRet = [t \in Threads |-> NoRet]
    /\ arr = [i \in CqIdxs |-> NoThread]
    /\ hwCq = [i \in CqIdxs |-> NoThread]
    /\ devPc = "probe"
    /\ step = 1
    /\ held = {}

\* Step i of __hgrnic_init_one (main.c lines 408-548, with hgrnic_init_hca
\* lines 242-288, hgrnic_init_icm lines 159-224 and hgrnic_setup_hca lines
\* 290-370): it succeeds and the probe goes on, or it fails and the probe
\* unwinds from the step's label and returns the error.
ProbeStep(i) ==
    /\ devPc = "probe" /\ step = i
    /\ \/ /\ Acquire(ProbeSteps[i].get)
          /\ devPc' = CASE i = CqZeroAfter      -> "cq0"
                         [] i = Len(ProbeSteps) -> "up"
                         [] OTHER               -> "probe"
          /\ step' = IF i = Len(ProbeSteps) THEN i ELSE i + 1
          /\ UNCHANGED <<cmdVars, mutex, pc, obj, ret, own, cqPc, cqn, cqBuf,
                         cqRet, hwCq>>
       \/ /\ ProbeFails
          /\ GoDown(ProbeSteps[i].err)

\* Lines 538-539: hgrnic_init_cq(hgdev, 32, NULL, driver_pd, &cq) for CQ 0
\* starts; its result is never looked at.
CqZeroStart ==
    /\ devPc = "cq0"
    /\ CqAllocNum(Probe)
    /\ devPc' = "cq0_wait"
    /\ UNCHANGED <<step, held>>

\* hgrnic_init_cq for CQ 0 has returned, created or not: the probe goes on
\* to hgrnic_register_device.
CqZeroDone ==
    /\ devPc = "cq0_wait"
    /\ cqPc[Probe] \in {"idle", "live"}
    /\ devPc' = "probe"
    /\ UNCHANGED <<allVars, step, held>>

\* The steps of hgrnic_init_cq after the number is taken, run by the probe.
CqZeroInitStep ==
    /\ devPc = "cq0_wait"
    /\ \/ CqRegIcm(Probe) \/ CqAfterReg(Probe) \/ CqAllocBuf(Probe)
       \/ CqPostSw2hw(Probe) \/ Sw2hwCqDone(Probe) \/ CqArraySet(Probe)
       \/ CqFreeBuf(Probe) \/ CqUnreg(Probe) \/ CqFreeNum(Probe)
    /\ UNCHANGED devVars

\* __hgrnic_remove_one (lines 582-614): ib_unregister_device returns once
\* the clients have destroyed their CQs; the tables, the ICM and the HCA
\* are torn down.
Remove ==
    /\ devPc = "up"
    /\ \A u \in Users : cqPc[u] = "idle"
    /\ GoDown(RemoveSet)

\* A user thread creating or destroying a CQ on the registered device.
UserCqStep(t) ==
    /\ devPc = "up"
    /\ \/ CqAllocNum(t) \/ CqRegIcm(t) \/ CqAfterReg(t) \/ CqAllocBuf(t)
       \/ CqPostSw2hw(t) \/ Sw2hwCqDone(t) \/ CqArraySet(t)
       \/ CqHw2swPost(t) \/ Hw2swCqDone(t) \/ CqFreeBuf(t) \/ CqUnreg(t)
       \/ CqFreeNum(t)
    /\ UNCHANGED devVars

HcaNext ==
    \/ \E i \in DOMAIN ProbeSteps : ProbeStep(i)
    \/ CqZeroStart \/ CqZeroInitStep \/ CqZeroDone
    \/ Remove
    \/ \E t \in Users : UserCqStep(t)
    \/ \E t \in Threads :
          (RegMap(t) \/ RegMapDone(t) \/ UnregUnmap(t) \/ UnregDone(t))
          /\ UNCHANGED <<cqVars, devVars>>
    \/ \E t \in Threads : CmdCollect(t) /\ UNCHANGED <<tableVars, cqVars, devVars>>
    \/ \E s \in FwStatuses : CqFwExec(s) /\ UNCHANGED devVars

HcaSpec == HcaInit /\ [][HcaNext]_hcaVars

HcaSymmetry == Permutations(Users)

-----------------------------------------------------------------------------
DevPcs == {"probe", "cq0", "cq0_wait", "up"}

\* The resources the step that takes the device down releases: the failing
\* probe step's label, or remove's.
ReleaseSet == IF devPc = "up" THEN RemoveSet ELSE ProbeSteps[step].err

GoingDown == held # {} /\ held' = {}

HcaTypeOK ==
    /\ CqTypeOK
    /\ devPc \in DevPcs
    /\ step \in DOMAIN ProbeSteps
    /\ held \subseteq Resources

\* No unwinding path of __hgrnic_init_one, hgrnic_init_hca, hgrnic_init_icm
\* and hgrnic_setup_hca, and not remove, releases a resource the probe has
\* not taken: each goto lands on the label that undoes exactly the steps
\* before it, across the three functions the error is passed up through.
NoOverRelease == [][GoingDown => ReleaseSet \subseteq held]_hcaVars

\* While the CQ context table exists, the references of its chunks are those
\* of IcmTable: the probe's table creation pins the reserved chunks, and
\* the users' and CQ 0's registrations count once each.
DevRefcountMatchesUsers == "cq_icm" \in held => RefcountMatchesUsers

\* While the CQ context table exists, every chunk in use is mapped in it
\* and in the device.
DevInUseChunksMapped == "cq_icm" \in held => InUseChunksMapped

\* Every resource the probe takes is given back when the device goes down,
\* by the failing probe's unwinding or by remove, and CQ 0's buffer too.
NothingLeaked == [][GoingDown => held \subseteq ReleaseSet /\ ~cqBuf[Probe]]_hcaVars
=============================================================================
