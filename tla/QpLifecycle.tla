----------------------------- MODULE QpLifecycle -----------------------------
(***************************************************************************)
(* Kernel QPs from creation to destruction, and the CQ pollers that find   *)
(* them: hgrnic_alloc_qp, hgrnic_modify_qp, hgrnic_free_qp, hgrnic_cq_clean *)
(* and the QP lookup of hgrnic_poll_cq / hgrnic_poll_one, over the QP      *)
(* number allocator (IndexAlloc) and the sparse pointer table              *)
(* qp_table.qp (hgrnic_array_set / get / clear).                            *)
(*                                                                          *)
(* Each QP object is driven by one application thread that creates,       *)
(* modifies and destroys it.  Each CQ has one polling thread.  The device  *)
(* writes a CQE for a QP whose hardware state lets it complete work.  A    *)
(* CQE names its QP by number (my_qpn); the history field `obj' records    *)
(* which QP object the device wrote it for.  The CQ is the sequence of     *)
(* its software-owned entries from cons_index (the ring is CqRing's); the  *)
(* device keeps to the consumer's contract of at most ibcq.cqe of them.    *)
(*                                                                          *)
(* qp->refcount is set to 1 and only dropped by free_qp, so its            *)
(* wait_event returns at once and is not modelled.  The ICM of a QP        *)
(* context (IcmTable) is reduced to whether hgrnic_reg_icm fails.          *)
(***************************************************************************)
EXTENDS IndexAlloc, Sequences, TLC

CONSTANTS
    Qps,          \* the struct hgrnic_qp objects of the application
    NoQp,         \* model value: NULL in qp_table.qp or for cur_qp
    Cqs,          \* the CQs QPs may complete into
    CqCqe,        \* ibcq.cqe: SW-owned CQEs a CQ may hold (consumer contract)
    PollBatch,    \* num_entries of hgrnic_poll_cq
    IcmFails,     \* TRUE: hgrnic_alloc_qp_buf may fail (hgrnic_reg_icm of the QP
                  \* context, or a WQE buffer)
    ModifyFails,  \* TRUE: __hgrnic_modify_qp may fail (mailbox, path MTU, MODIFY_QP)
    ResetFails,   \* TRUE: free_qp's MODIFY_QP to RESET may fail
    PageAllocFails, \* TRUE: hgrnic_array_set's page allocation may fail
    QpModes,      \* which QPs the run has: {"kernel"}, {"user"} or both
    UTableBits    \* HGRNIC_QP_TABLE_BITS: log2 of libhgrnic's leaf tables

ASSUME /\ NoQp \notin Qps /\ CqCqe \in 1..4 /\ PollBatch \in 1..4
       /\ IcmFails \in BOOLEAN /\ ModifyFails \in BOOLEAN /\ ResetFails \in BOOLEAN
       /\ PageAllocFails \in BOOLEAN
       /\ QpModes \subseteq {"kernel", "user"} /\ QpModes # {}
       /\ UTableBits \in Nat /\ 2^UTableBits <= Max

QpStates == {"RESET", "INIT", "RTR", "RTS", "ERR"}

\* The transitions ib_modify_qp_is_ok (IB core) admits for an RC QP,
\* without the self-transitions that change no state of this model.
ModifyOk ==
    [RESET |-> {"INIT", "ERR"}, INIT |-> {"RESET", "RTR", "ERR"},
     RTR |-> {"RESET", "RTS", "ERR"}, RTS |-> {"RESET", "ERR"},
     ERR |-> {"RESET"}]

\* Hardware states in which the device completes work of the QP: receives
\* from RTR, sends from RTS, flushed WQEs in ERR.
Completes(st, send) == IF send THEN st \in {"RTS", "ERR"} ELSE st \in {"RTR", "RTS", "ERR"}

\* Mutant: the INIT row of op[][] with the RESET entry copied from the ERR
\* column.
QpOpTableInitResetToErr ==
    [RESET |-> ("RESET" :> "ERR2RST" @@ "ERR" :> "2ERR" @@ "INIT" :> "RST2INIT"),
     INIT  |-> ("RESET" :> "2ERR" @@ "ERR" :> "2ERR" @@ "INIT" :> "INIT2INIT"
                @@ "RTR" :> "INIT2RTR"),
     RTR   |-> ("RESET" :> "ERR2RST" @@ "ERR" :> "2ERR" @@ "RTS" :> "RTR2RTS"),
     RTS   |-> ("RESET" :> "ERR2RST" @@ "ERR" :> "2ERR" @@ "RTS" :> "RTS2RTS"
                @@ "SQD" :> "RTS2SQD"),
     SQD   |-> ("RESET" :> "ERR2RST" @@ "ERR" :> "2ERR" @@ "RTS" :> "SQD2RTS"
                @@ "SQD" :> "SQD2SQD"),
     SQE   |-> ("RESET" :> "ERR2RST" @@ "ERR" :> "2ERR" @@ "RTS" :> "SQERR2RTS"),
     ERR   |-> ("RESET" :> "ERR2RST" @@ "ERR" :> "2ERR")]

\* op[cur][next] of hgrnic_MODIFY_QP (hgrnic_cmd.c 1053-1102), with the
\* opcode names of lines 69-80; a pair it leaves out is opcode 0.
QpOpTable ==
    [RESET |-> ("RESET" :> "ERR2RST" @@ "ERR" :> "2ERR" @@ "INIT" :> "RST2INIT"),
     INIT  |-> ("RESET" :> "ERR2RST" @@ "ERR" :> "2ERR" @@ "INIT" :> "INIT2INIT"
                @@ "RTR" :> "INIT2RTR"),
     RTR   |-> ("RESET" :> "ERR2RST" @@ "ERR" :> "2ERR" @@ "RTS" :> "RTR2RTS"),
     RTS   |-> ("RESET" :> "ERR2RST" @@ "ERR" :> "2ERR" @@ "RTS" :> "RTS2RTS"
                @@ "SQD" :> "RTS2SQD"),
     SQD   |-> ("RESET" :> "ERR2RST" @@ "ERR" :> "2ERR" @@ "RTS" :> "SQD2RTS"
                @@ "SQD" :> "SQD2SQD"),
     SQE   |-> ("RESET" :> "ERR2RST" @@ "ERR" :> "2ERR" @@ "RTS" :> "SQERR2RTS"),
     ERR   |-> ("RESET" :> "ERR2RST" @@ "ERR" :> "2ERR")]

hgrnic_MODIFY_QP_op(cur, next) ==
    IF next \in DOMAIN QpOpTable[cur] THEN QpOpTable[cur][next] ELSE "none"

\* The state each MODIFY_QP opcode leaves the device's QP context in, as
\* its name (CMD_<from>2<to>_QPEE) says; opcode 0 is rejected.
QpeeTarget ==
    ("RST2INIT" :> "INIT" @@ "INIT2INIT" :> "INIT" @@ "INIT2RTR" :> "RTR"
     @@ "RTR2RTS" :> "RTS" @@ "RTS2RTS" :> "RTS" @@ "SQERR2RTS" :> "RTS"
     @@ "SQD2RTS" :> "RTS" @@ "RTS2SQD" :> "SQD" @@ "SQD2SQD" :> "SQD"
     @@ "2ERR" :> "ERR" @@ "ERR2RST" :> "RESET")

\* Progress of the thread that owns a QP object.  free_qp: "f_reset",
\* "f_clean_rq", "f_clean_sq", "f_release"; modify to RESET: "m_clean_rq",
\* "m_clean_sq"; alloc_qp between its number and its buffers: "alloc".
\* A libhgrnic QP adds "u_store" (created by the kernel, not yet in the
\* user table) and "u_clean" (freed by the kernel, its CQEs and table slot
\* not yet cleared by hgrnic_destroy_qp).
Pcs == {"none", "alloc", "live", "f_reset", "f_clean_rq", "f_clean_sq",
        "f_release", "m_clean_rq", "m_clean_sq", "u_store", "u_clean"}

VARIABLES
    pc,        \* per QP object: where its owner thread is
    qpn,       \* per QP object: qp->qpn (a handle of the allocator)
    state,     \* per QP object: qp->state, the driver's view
    hw,        \* per QP object: the state of the device's QP context
    scq,       \* per QP object: ibqp.send_cq
    rcq,       \* per QP object: ibqp.recv_cq
    qpTable,   \* qp_table.qp: the slots of its one page, by qpn & (num_qps-1)
    page,      \* qp_table.qp.page_list[0].page # NULL
    used,      \* qp_table.qp.page_list[0].used
    cq,        \* per CQ: SW-owned CQEs from cons_index, oldest first
    cqLock,    \* per CQ: holder of cq->lock ("free", "poll" or "clean")
    poller,    \* per CQ: the hgrnic_poll_cq call in progress
    lost,      \* history: poll_cq has dropped a completion poll_one gave a QP
    mode,      \* "kernel": kernel QPs and pollers; "user": libhgrnic's
    uRef,      \* libhgrnic ctx->qp_table[tind].refcnt
    uSlots,    \* libhgrnic ctx->qp_table[tind].table (read only while refcnt > 0)
    mutex      \* holder of ctx->qp_table_mutex, or NoQp

qpVars == <<pc, qpn, state, hw, scq, rcq, qpTable, page, used, cq, cqLock, poller, lost>>
uVars == <<mode, uRef, uSlots, mutex>>
allVars == <<qpVars, vars, uVars>>

Cqe == [qpn : Handles, obj : Qps]
Index(n) == n & (Max - 1)      \* qpn & (dev->limits.num_qps - 1)

\* libhgrnic's two-level QP table (hgrnic.c 85-88): num_qps = qp_tab_size,
\* the kernel's num_qps; each of the 2^HGRNIC_QP_TABLE_BITS leaves holds
\* 2^qp_table_shift slots.
Log2Max == CHOOSE k \in 0 .. 8 : 2^k = Max    \* ffs(num_qps) - 1
UTableShift == Log2Max - UTableBits
UTinds == 0 .. 2^UTableBits - 1
USlotIdx == 0 .. 2^UTableShift - 1
UTind(n) == shiftR(n & (Max - 1), UTableShift)
UIdx(n) == n & (2^UTableShift - 1)

\* hgrnic_find_qp (qp.c 546-555): the slot, if its leaf is allocated.
hgrnic_find_qp(n) == IF uRef[UTind(n)] > 0 THEN uSlots[UTind(n)][UIdx(n)] ELSE NoQp

\* hgrnic_store_qp (qp.c 557-571): the first QP of a leaf callocs it.
hgrnic_store_qp(n, q) ==
    LET t == UTind(n)
        leaf == IF uRef[t] = 0 THEN [i \in USlotIdx |-> NoQp] ELSE uSlots[t]
    IN  /\ uRef' = [uRef EXCEPT ![t] = @ + 1]
        /\ uSlots' = [uSlots EXCEPT ![t] = [leaf EXCEPT ![UIdx(n)] = q]]

\* hgrnic_clear_qp (qp.c 573-581): the last QP of a leaf frees it, else
\* its slot is set to NULL.
hgrnic_clear_qp(n) ==
    LET t == UTind(n)
    IN  /\ uRef' = [uRef EXCEPT ![t] = @ - 1]
        /\ uSlots' = IF uRef[t] = 1 THEN uSlots
                     ELSE [uSlots EXCEPT ![t][UIdx(n)] = NoQp]

\* hgrnic_array_get (hgrnic_allocator.c 109-117).
array_get(tbl, pg, i) == IF pg THEN tbl[i] ELSE NoQp

\* Mutant: the sweep copying a kept entry one slot up, not nfreed slots.
RECURSIVE SweepPlusOne(_, _, _, _, _)
SweepPlusOne(buf, i, lo, nfreed, n) ==
    IF i < lo THEN [buf |-> buf, nfreed |-> nfreed]
    ELSE IF buf[i].qpn = n THEN SweepPlusOne(buf, i - 1, lo, nfreed + 1, n)
    ELSE IF nfreed > 0
         THEN SweepPlusOne([buf EXCEPT ![i + 1] = buf[i]], i - 1, lo, nfreed, n)
         ELSE SweepPlusOne(buf, i - 1, lo, nfreed, n)

\* The backward sweep of hgrnic_cq_clean (hgrnic_cq.c 187-193) over
\* positions lo..i: an entry of QP n is dropped and counted; an older entry
\* of another QP is copied nfreed slots towards the producer end.
RECURSIVE Sweep(_, _, _, _, _)
Sweep(buf, i, lo, nfreed, n) ==
    IF i < lo THEN [buf |-> buf, nfreed |-> nfreed]
    ELSE IF buf[i].qpn = n THEN Sweep(buf, i - 1, lo, nfreed + 1, n)
    ELSE IF nfreed > 0
         THEN Sweep([buf EXCEPT ![i + nfreed] = buf[i]], i - 1, lo, nfreed, n)
         ELSE Sweep(buf, i - 1, lo, nfreed, n)

\* hgrnic_cq_clean on the SW-owned entries s: the producer index is found
\* by scanning at most ibcq.cqe entries; after the sweep the first nfreed
\* slots are handed back to the device and cons_index passes them.
cq_clean(s, n) ==
    LET prod == IF Len(s) < CqCqe THEN Len(s) ELSE CqCqe
        r == Sweep(s, prod, 1, 0, n)
    IN  SubSeq(r.buf, r.nfreed + 1, Len(s))

\* hgrnic_array_set (hgrnic_allocator.c 125-140): the first slot of an
\* absent page allocates it with GFP_ATOMIC, which may fail when
\* PageAllocFails; then nothing is set (-ENOMEM).
ArraySet(i, q) ==
    \E ok \in IF PageAllocFails /\ ~page THEN BOOLEAN ELSE {TRUE} :
        IF ok
        THEN /\ qpTable' = [qpTable EXCEPT ![i] = q]
             /\ page' = TRUE
             /\ used' = used + 1
        ELSE UNCHANGED <<qpTable, page, used>>

\* Mutant: array_clear that only frees the page and leaves the slot set
\* while other slots of the page are in use.
ArrayClearKeepsSlot(i) ==
    /\ used' = used - 1
    /\ IF used - 1 = 0
       THEN /\ page' = FALSE
            /\ qpTable' = [j \in Indices |-> NoQp]
       ELSE UNCHANGED <<qpTable, page>>

\* hgrnic_array_clear (hgrnic_allocator.c 142-155): the page is freed when
\* its use count drops to 0, else the slot is cleared.
ArrayClear(i) ==
    /\ used' = used - 1
    /\ IF used - 1 = 0
       THEN /\ page' = FALSE
            /\ qpTable' = [j \in Indices |-> NoQp]
       ELSE /\ qpTable' = [qpTable EXCEPT ![i] = NoQp]
            /\ UNCHANGED page

NoPoll == [pc |-> "idle", npolled |-> 0, cur |-> NoQp, err |-> "none", got |-> <<>>]

QpInit ==
    /\ Init
    /\ pc = [q \in Qps |-> "none"]
    /\ qpn = [q \in Qps |-> NoObj]
    /\ state = [q \in Qps |-> "RESET"]
    /\ hw = [q \in Qps |-> "RESET"]
    /\ scq = [q \in Qps |-> CHOOSE c \in Cqs : TRUE]
    /\ rcq = [q \in Qps |-> CHOOSE c \in Cqs : TRUE]
    /\ qpTable = [i \in Indices |-> NoQp]
    /\ page = FALSE
    /\ used = 0
    /\ cq = [c \in Cqs |-> <<>>]
    /\ cqLock = [c \in Cqs |-> "free"]
    /\ poller = [c \in Cqs |-> NoPoll]
    /\ lost = FALSE
    /\ mode \in QpModes
    /\ uRef = [t \in UTinds |-> 0]
    /\ uSlots = [t \in UTinds |-> [i \in USlotIdx |-> NoQp]]
    /\ mutex = NoQp

\* hgrnic_alloc_qp lines 803-815: the transport and size checks, then a
\* QP number from the allocator (-ENOMEM when it is exhausted).  The
\* create attributes give the send and receive CQ.
\* For a libhgrnic QP, hgrnic_create_qp (verbs.c 445-452) takes
\* qp_table_mutex before ibv_cmd_create_qp and releases it on failure.
AllocQpNum(q) ==
    /\ pc[q] = "none"
    /\ mode = "user" => mutex = NoQp
    /\ hgrnic_alloc
    /\ \E s \in Cqs, r \in Cqs :
         IF ret' = NoObj
         THEN UNCHANGED <<pc, qpn, scq, rcq, mutex>>
         ELSE /\ pc' = [pc EXCEPT ![q] = "alloc"]
              /\ qpn' = [qpn EXCEPT ![q] = ret']
              /\ scq' = [scq EXCEPT ![q] = s]
              /\ rcq' = [rcq EXCEPT ![q] = r]
              /\ mutex' = IF mode = "user" THEN q ELSE NoQp
    /\ UNCHANGED <<state, hw, qpTable, page, used, cq, cqLock, poller, lost, mode, uRef, uSlots>>

\* hgrnic_alloc_qp lines 819-832 with hgrnic_alloc_qp_buf (lines 622-702):
\* the QP starts in RESET with fresh work queues; when hgrnic_reg_icm of its
\* context or the allocation of either WQE buffer fails, what was taken is
\* undone and the number freed, otherwise the QP is published in
\* qp_table.qp (array_set's return value is not checked).
\* A libhgrnic QP then goes to hgrnic_store_qp, still under the mutex;
\* on failure create_qp unlocks it (verbs.c 472-474).
AllocQpBuf(q) ==
    /\ pc[q] = "alloc"
    /\ state' = [state EXCEPT ![q] = "RESET"]
    /\ hw' = [hw EXCEPT ![q] = "RESET"]
    /\ \/ /\ IcmFails
          /\ hgrnic_free(qpn[q])
          /\ pc' = [pc EXCEPT ![q] = "none"]
          /\ qpn' = [qpn EXCEPT ![q] = NoObj]
          /\ mutex' = NoQp
          /\ UNCHANGED <<qpTable, page, used>>
       \/ /\ ArraySet(Index(qpn[q]), q)
          /\ pc' = [pc EXCEPT ![q] = IF mode = "user" THEN "u_store" ELSE "live"]
          /\ UNCHANGED <<vars, qpn, mutex>>
    /\ UNCHANGED <<scq, rcq, cq, cqLock, poller, lost, mode, uRef, uSlots>>

\* hgrnic_create_qp lines 453-456: hgrnic_store_qp, then the mutex is
\* released.  Its calloc of a new leaf is taken to succeed.
UStoreQp(q) ==
    /\ pc[q] = "u_store"
    /\ hgrnic_store_qp(qpn[q], q)
    /\ pc' = [pc EXCEPT ![q] = "live"]
    /\ mutex' = NoQp
    /\ UNCHANGED <<vars, qpn, state, hw, scq, rcq, qpTable, page, used, cq, cqLock, poller, lost, mode>>

\* __hgrnic_modify_qp (lines 339-503) from qp->state to new: the mailbox
\* allocation, a path MTU out of range and MODIFY_QP may each fail, and the
\* QP keeps its state, as does a pair with no opcode (the device rejects
\* opcode 0).  Otherwise the device's context takes the opcode's target
\* state and qp->state is new (line 480); a kernel QP moved to RESET then has its CQEs cleaned
\* from its receive and send CQ and its work queues reset (the m_clean
\* steps).  The context fields, copied from attr and the QP, are data.
ModifyQpBody(q, new) ==
    \/ /\ ModifyFails
       /\ UNCHANGED <<pc, state, hw>>
    \/ LET op == hgrnic_MODIFY_QP_op(state[q], new)
       IN  /\ op # "none"
           /\ hw' = [hw EXCEPT ![q] = QpeeTarget[op]]
           /\ state' = [state EXCEPT ![q] = new]
           /\ pc' = [pc EXCEPT ![q] = IF new = "RESET" THEN "m_clean_rq" ELSE "live"]

\* hgrnic_modify_qp (lines 505-555) under qp->mutex, to a state
\* ib_modify_qp_is_ok admits from qp->state; RESET to RESET returns 0
\* without a command and is not among them.
ModifyQp(q) ==
    /\ pc[q] = "live"
    /\ \E new \in ModifyOk[state[q]] : ModifyQpBody(q, new)
    /\ UNCHANGED <<vars, qpn, scq, rcq, qpTable, page, used, cq, cqLock, poller, lost, uVars>>

\* hgrnic_free_qp lines 890-900: with both CQ locks held (hgrnic_lock_cqs)
\* and the table lock, clear the QP's slot in qp_table.qp and drop the
\* reference; pollers find the QP no more.  A libhgrnic QP comes here
\* from hgrnic_destroy_qp (verbs.c 570-571), which holds qp_table_mutex
\* across ibv_cmd_destroy_qp; the kernel's CQ locks are not the ones its
\* pollers take.
FreeQpUnpublish(q) ==
    /\ pc[q] = "live"
    /\ mode = "kernel" => cqLock[scq[q]] = "free" /\ cqLock[rcq[q]] = "free"
    /\ mode = "user" => mutex = NoQp
    /\ ArrayClear(Index(qpn[q]))
    /\ pc' = [pc EXCEPT ![q] = "f_reset"]
    /\ mutex' = IF mode = "user" THEN q ELSE NoQp
    /\ UNCHANGED <<vars, qpn, state, hw, scq, rcq, cq, cqLock, poller, lost, mode, uRef, uSlots>>

\* Mutant: free_qp taking the QP for a userspace one (uobject set), so the
\* kernel does not clean its CQEs.
FreeQpResetNoClean(q) ==
    /\ pc[q] = "f_reset"
    /\ hw' = [hw EXCEPT ![q] = "RESET"]
    /\ pc' = [pc EXCEPT ![q] = "f_release"]
    /\ UNCHANGED <<vars, qpn, state, scq, rcq, qpTable, page, used, cq, cqLock, poller, lost, uVars>>

\* hgrnic_free_qp lines 904-911: a QP whose qp->state is not RESET is moved
\* there by MODIFY_QP (op[qp->state][RESET]), so the device writes no more
\* CQEs for it; one whose qp->state is RESET gets no command.  The
\* command's result is ignored: when it fails the device keeps the QP in
\* its state and free_qp goes on to clean and release it all the same.
\* The cleans of lines 913-920 are for a kernel QP only: a userspace one
\* (uobject) goes on to the release and is cleaned by libhgrnic.
FreeQpReset(q) ==
    /\ pc[q] = "f_reset"
    /\ \E ok \in IF ResetFails THEN BOOLEAN ELSE {TRUE} :
         hw' = IF ok /\ state[q] # "RESET"
               THEN [hw EXCEPT ![q] = QpeeTarget[hgrnic_MODIFY_QP_op(state[q], "RESET")]]
               ELSE hw
    /\ pc' = [pc EXCEPT ![q] = IF mode = "user" THEN "f_release" ELSE "f_clean_rq"]
    /\ UNCHANGED <<vars, qpn, state, scq, rcq, qpTable, page, used, cq, cqLock, poller, lost, uVars>>

\* Where the owner thread goes after cleaning the receive and the send CQ.
AfterCleanRq == [f_clean_rq |-> "f_clean_sq", m_clean_rq |-> "m_clean_sq"]
AfterCleanSq == [f_clean_sq |-> "f_release", m_clean_sq |-> "live"]

\* hgrnic_cq_clean(dev, recv_cq, qpn) under the receive CQ's lock.
CleanRq(q) ==
    /\ pc[q] \in DOMAIN AfterCleanRq
    /\ cqLock[rcq[q]] = "free"
    /\ cq' = [cq EXCEPT ![rcq[q]] = cq_clean(@, qpn[q])]
    /\ pc' = [pc EXCEPT ![q] = AfterCleanRq[pc[q]]]
    /\ UNCHANGED <<vars, qpn, state, hw, scq, rcq, qpTable, page, used, cqLock, poller, lost, uVars>>

\* hgrnic_cq_clean(dev, send_cq, qpn) when the send CQ is another CQ.
CleanSq(q) ==
    /\ pc[q] \in DOMAIN AfterCleanSq
    /\ cqLock[scq[q]] = "free"
    /\ cq' = IF scq[q] # rcq[q] THEN [cq EXCEPT ![scq[q]] = cq_clean(@, qpn[q])] ELSE cq
    /\ pc' = [pc EXCEPT ![q] = AfterCleanSq[pc[q]]]
    /\ UNCHANGED <<vars, qpn, state, hw, scq, rcq, qpTable, page, used, cqLock, poller, lost, uVars>>

\* The QP object is freed (kfree in hgrnic_destroy_qp, free in libhgrnic's):
\* its fields are set back to those of a new object, which alloc_qp sets
\* anyway, so that freed objects differing only in dead fields are one state.
Forget(q) ==
    /\ state' = [state EXCEPT ![q] = "RESET"]
    /\ hw' = [hw EXCEPT ![q] = "RESET"]

\* Mutant: hgrnic_destroy_qp unlocking qp_table_mutex as soon as
\* ibv_cmd_destroy_qp returns, before the clean and hgrnic_clear_qp.
FreeQpReleaseUnlocks(q) ==
    /\ pc[q] = "f_release"
    /\ hgrnic_free(qpn[q])
    /\ IF mode = "user"
       THEN /\ pc' = [pc EXCEPT ![q] = "u_clean"]
            /\ UNCHANGED <<qpn, state, hw>>
       ELSE /\ pc' = [pc EXCEPT ![q] = "none"]
            /\ qpn' = [qpn EXCEPT ![q] = NoObj]
            /\ Forget(q)
    /\ mutex' = NoQp
    /\ UNCHANGED <<scq, rcq, qpTable, page, used, cq, cqLock, poller, lost, mode, uRef, uSlots>>

\* hgrnic_free_qp lines 928-930: hgrnic_unreg_icm of the context, then the
\* QP number back to the allocator.  ibv_cmd_destroy_qp then returns to
\* hgrnic_destroy_qp, whose ibv_qp keeps its qp_num.
FreeQpRelease(q) ==
    /\ pc[q] = "f_release"
    /\ hgrnic_free(qpn[q])
    /\ IF mode = "user"
       THEN /\ pc' = [pc EXCEPT ![q] = "u_clean"]
            /\ UNCHANGED <<qpn, state, hw>>
       ELSE /\ pc' = [pc EXCEPT ![q] = "none"]
            /\ qpn' = [qpn EXCEPT ![q] = NoObj]
            /\ Forget(q)
    /\ UNCHANGED <<scq, rcq, qpTable, page, used, cq, cqLock, poller, lost, uVars>>

\* hgrnic_destroy_qp lines 578-587: with both CQs' locks held
\* (hgrnic_lock_cqs, in cqn order), __hgrnic_cq_clean of the receive and,
\* if different, the send CQ, then hgrnic_clear_qp; the locks and
\* qp_table_mutex are released.  The QP's memory is freed after.
UDestroyClean(q) ==
    /\ pc[q] = "u_clean"
    /\ cqLock[scq[q]] = "free" /\ cqLock[rcq[q]] = "free"
    /\ LET afterRq == [cq EXCEPT ![rcq[q]] = cq_clean(@, qpn[q])]
       IN  cq' = IF scq[q] # rcq[q]
                 THEN [afterRq EXCEPT ![scq[q]] = cq_clean(@, qpn[q])]
                 ELSE afterRq
    /\ hgrnic_clear_qp(qpn[q])
    /\ pc' = [pc EXCEPT ![q] = "none"]
    /\ qpn' = [qpn EXCEPT ![q] = NoObj]
    /\ mutex' = NoQp
    /\ Forget(q)
    /\ UNCHANGED <<vars, scq, rcq, qpTable, page, used, cqLock, poller, lost, mode>>

\* The device completes a send or receive WQE of a QP whose hardware state
\* allows it, writing a CQE with the QP's number into its CQ.
DevCqe(q, send) ==
    LET c == IF send THEN scq[q] ELSE rcq[q]
    IN  /\ qpn[q] # NoObj
        /\ Completes(hw[q], send)
        /\ Len(cq[c]) < CqCqe
        /\ cq' = [cq EXCEPT ![c] = Append(@, [qpn |-> qpn[q], obj |-> q])]
        /\ UNCHANGED <<vars, pc, qpn, state, hw, scq, rcq, qpTable, page, used, cqLock, poller, lost, uVars>>

\* hgrnic_poll_cq lines 498-500: take cq->lock, with no QP cached.
PollCqStart(c) ==
    /\ poller[c].pc = "idle" /\ cqLock[c] = "free"
    /\ cqLock' = [cqLock EXCEPT ![c] = "poll"]
    /\ poller' = [poller EXCEPT ![c] = [NoPoll EXCEPT !.pc = "loop"]]
    /\ UNCHANGED <<vars, pc, qpn, state, hw, scq, rcq, qpTable, page, used, cq, lost, uVars>>

\* The table a poller looks a QP number up in: qp_table.qp, or libhgrnic's
\* hgrnic_find_qp (cq.c 248-259, also without a lock: the CQs are locked
\* while a QP is removed from it).
FindQp(n, tbl, pg) == IF mode = "user" THEN hgrnic_find_qp(n) ELSE array_get(tbl, pg, Index(n))

\* Mutant: poll_one keeping the cached QP without comparing its number.
LookupQpCachedAlways(cur, n, tbl, pg) ==
    IF cur # NoQp THEN cur ELSE FindQp(n, tbl, pg)

\* hgrnic_poll_one lines 362-375: the cached QP if its number is the CQE's,
\* else the qp_table.qp slot of the CQE's number, looked up without the
\* table lock.
LookupQp(cur, n, tbl, pg) ==
    IF cur # NoQp /\ n = qpn[cur] THEN cur ELSE FindQp(n, tbl, pg)

\* One hgrnic_poll_one call of the poll_cq loop (lines 501-508): no
\* SW-owned CQE ends the loop (-EAGAIN); a CQE whose QP is not in the table
\* is consumed and ends it (-EINVAL); otherwise the CQE is consumed and
\* returned, and the loop ends at num_entries.
PollOne(c) ==
    /\ poller[c].pc = "loop"
    /\ LET p == poller[c]
       IN  \/ /\ cq[c] = <<>>
              /\ poller' = [poller EXCEPT ![c].pc = "end", ![c].err = "EAGAIN"]
              /\ UNCHANGED cq
           \/ /\ cq[c] # <<>>
              /\ LET e == Head(cq[c])
                     found == LookupQp(p.cur, e.qpn, qpTable, page)
                 IN  /\ cq' = [cq EXCEPT ![c] = Tail(@)]
                     /\ IF found = NoQp
                        THEN poller' = [poller EXCEPT ![c].pc = "end", ![c].err = "EINVAL"]
                        ELSE poller' = [poller EXCEPT ![c] =
                               [p EXCEPT !.npolled = @ + 1, !.cur = found,
                                  !.pc = IF p.npolled + 1 = PollBatch THEN "end" ELSE "loop",
                                  !.got = Append(@, [owner |-> e.obj, qp |-> found])]]
    /\ UNCHANGED <<vars, pc, qpn, state, hw, scq, rcq, qpTable, page, used, cqLock, lost, uVars>>

\* hgrnic_poll_cq lines 534-538 (the resize peek is CqRing's): release the
\* lock and return npolled, or the error when it is not -EAGAIN; then the
\* completions already consumed are not reported.
PollCqEnd(c) ==
    /\ poller[c].pc = "end"
    /\ lost' = (lost \/ (poller[c].err = "EINVAL" /\ poller[c].npolled > 0))
    /\ cqLock' = [cqLock EXCEPT ![c] = "free"]
    /\ poller' = [poller EXCEPT ![c] = NoPoll]
    /\ UNCHANGED <<vars, pc, qpn, state, hw, scq, rcq, qpTable, page, used, cq, uVars>>

QpNext ==
    \/ \E q \in Qps :
         \/ AllocQpNum(q) \/ AllocQpBuf(q) \/ ModifyQp(q)
         \/ FreeQpUnpublish(q) \/ FreeQpReset(q) \/ CleanRq(q) \/ CleanSq(q)
         \/ FreeQpRelease(q) \/ UStoreQp(q) \/ UDestroyClean(q)
         \/ \E send \in BOOLEAN : DevCqe(q, send)
    \/ \E c \in Cqs : PollCqStart(c) \/ PollOne(c) \/ PollCqEnd(c)

QpSpec == QpInit /\ [][QpNext]_allVars

QpSymmetry == Permutations(Qps)

-----------------------------------------------------------------------------
QpTypeOK ==
    /\ TypeOK
    /\ pc \in [Qps -> Pcs]
    /\ qpn \in [Qps -> Handles \cup {NoObj}]
    /\ state \in [Qps -> QpStates] /\ hw \in [Qps -> QpStates]
    /\ scq \in [Qps -> Cqs] /\ rcq \in [Qps -> Cqs]
    /\ qpTable \in [Indices -> Qps \cup {NoQp}]
    /\ page \in BOOLEAN /\ used \in 0 .. Max
    /\ \A c \in Cqs : cq[c] \in Seq(Cqe) /\ Len(cq[c]) <= CqCqe
    /\ cqLock \in [Cqs -> {"free", "poll"}]
    /\ lost \in BOOLEAN
    /\ mode \in QpModes
    /\ uRef \in [UTinds -> 0 .. Max]
    /\ uSlots \in [UTinds -> [USlotIdx -> Qps \cup {NoQp}]]
    /\ mutex \in Qps \cup {NoQp}

\* QP objects whose slot of qp_table.qp is set: from the end of
\* hgrnic_alloc_qp until hgrnic_free_qp clears it.
Published == {q \in Qps : pc[q] \in {"live", "m_clean_rq", "m_clean_sq", "u_store"}}

\* qp_table.qp holds exactly the published QPs, each at the slot of its
\* number, and its page and use count agree: array_set and array_clear
\* keep `used' equal to the set slots and free the page with the last.
QpTableMatchesLiveQps ==
    /\ \A q \in Published : page /\ qpTable[Index(qpn[q])] = q
    /\ \A i \in Indices : qpTable[i] # NoQp => qpTable[i] \in Published
    /\ used = Cardinality(Published)
    /\ page <=> used > 0

\* Every completion hgrnic_poll_one returns is given to the QP object the
\* device wrote the CQE for: the cur_qp cache is used only when its number
\* is the CQE's, and a number is only reused after free_qp has cleaned its
\* CQEs from both CQs.
PollAttributesToOwner ==
    \A c \in Cqs : \A i \in 1 .. Len(poller[c].got) :
        poller[c].got[i].qp = poller[c].got[i].owner

\* No CQE outlives the QP incarnation it was written for: before a QP
\* number is freed (free_qp) or a QP is left in RESET (modify_qp),
\* hgrnic_cq_clean has removed its CQEs from the receive and the send CQ.
NoCqeOutlivesQp ==
    \A c \in Cqs : \A i \in 1 .. Len(cq[c]) :
        LET e == cq[c][i]
        IN  /\ qpn[e.obj] = e.qpn
            /\ pc[e.obj] \in {"live", "f_reset", "f_clean_rq", "f_clean_sq",
                              "m_clean_rq", "m_clean_sq", "f_release", "u_clean"}
            /\ pc[e.obj] \in {"f_release", "u_clean"} => mode = "user" 

\* hgrnic_free_qp sends no MODIFY_QP when qp->state is RESET (line 904),
\* trusting that the device's context is in RESET too: every transition
\* to RESET that sets qp->state sends the opcode op[cur][RESET] that
\* leaves the device there, and one that fails changes neither.
CachedResetIsDeviceReset ==
    \A q \in Qps :
        pc[q] \in {"live", "m_clean_rq", "m_clean_sq", "f_reset", "u_store"}
        /\ state[q] = "RESET" => hw[q] = "RESET"

\* libhgrnic QPs in its table: from hgrnic_store_qp until hgrnic_destroy_qp
\* clears them, after the kernel has freed their number.
UStored == {q \in Qps : pc[q] \in {"live", "m_clean_rq", "m_clean_sq", "f_reset",
                                  "f_release", "u_clean"}}

\* libhgrnic's QP table finds every stored QP by its number and nothing
\* else, and each leaf's refcnt counts its QPs: qp_table_mutex orders a
\* create's store after the destroy that held the same slot has cleared
\* it, though the kernel freed that number before the clear.
UserTableMatchesLiveQps ==
    mode = "user" =>
        /\ \A q \in UStored : hgrnic_find_qp(qpn[q]) = q
        /\ \A t \in UTinds :
              /\ uRef[t] = Cardinality({q \in UStored : UTind(qpn[q]) = t})
              /\ uRef[t] > 0 => \A i \in USlotIdx :
                    uSlots[t][i] # NoQp => uSlots[t][i] \in UStored

\* Inputs for the sweep on its own: every list of up to four CQEs of two
\* QP numbers, each tagged with its position so that survivors differ.
SweepInputs ==
    UNION { { [i \in 1..k |-> [qpn |-> f[i], obj |-> i]] : f \in [1..k -> {0, 1}] }
            : k \in 0..4 }

\* The sweep of lines 187-199 over the whole list is a filter: what is
\* left above the nfreed freed slots is the list without QP n's entries,
\* in order, however many entries are freed and survivors shifted.
SweepIsFilter ==
    \A s \in SweepInputs, n \in {0, 1} :
        LET r == Sweep(s, Len(s), 1, 0, n)
        IN  SubSeq(r.buf, r.nfreed + 1, Len(s)) = SelectSeq(s, LAMBDA e : e.qpn # n)

\* hgrnic_cq_clean removes exactly the entries of the QP and keeps the
\* others in their order: the backward copy of lines 187-193 is a filter,
\* for every QP number on every CQ contents the device produces here, and
\* the sweep alone on every list of up to four entries, where several
\* survivors are each shifted by several freed slots.
CleanIsFilter ==
    /\ \A c \in Cqs, n \in Handles :
          cq_clean(cq[c], n) = SelectSeq(cq[c], LAMBDA e : e.qpn # n)
    /\ SweepIsFilter

\* hgrnic_poll_cq reports every completion poll_one consumed and gave to a
\* QP (the comment of lines 534-538 and the ib_poll_cq contract).
NoCompletionLost == ~lost
====
