------------------------------ MODULE IcmTable ------------------------------
(***************************************************************************)
(* An ICM table of hgrnic_icm.c (struct hgrnic_icm_table) with the device   *)
(* mappings it maintains through MAP_ICM and UNMAP_ICM (hgrnic_cmd.c).      *)
(* Threads register an object with hgrnic_reg_icm and later drop it with    *)
(* hgrnic_unreg_icm; both run under table->mutex and, when a chunk must be  *)
(* mapped or unmapped, issue a command through the interface of HcaCmd     *)
(* while holding the mutex.  hgrnic_alloc_icm draws a region from a finite *)
(* pool of kernel memory and may fail; hgrnic_free_icm returns it.          *)
(***************************************************************************)
EXTENDS HcaCmd, MailboxLayout, Naturals, FiniteSets, Bitwise

CONSTANTS
    NumObj,        \* table->num_obj, a power of two
    ObjPerChunk,   \* HGRNIC_TABLE_CHUNK_SIZE / table->obj_size
    Reserved,      \* reserved objects passed to hgrnic_alloc_icm_table
    Objs,          \* object numbers callers register (generation bits included)
    Regions,       \* kernel memory hgrnic_alloc_icm can hand out
    NoRegion,      \* model value: table->icm[i] == NULL, or nothing mapped
    NoObj,         \* model value: a thread holds no registration
    AllocFailures, \* TRUE: kmalloc / page / mailbox allocation may fail
    UnmapFails     \* TRUE: the device may complete UNMAP_ICM with an error

ASSUME /\ NumObj % ObjPerChunk = 0
       /\ Reserved \in 0 .. NumObj
       /\ AllocFailures \in BOOLEAN /\ UnmapFails \in BOOLEAN

Chunks == 0 .. (NumObj \div ObjPerChunk) - 1

\* The chunk index of lines 234 and 283: (obj & (num_obj - 1)) * obj_size
\* / HGRNIC_TABLE_CHUNK_SIZE.
ChunkOf(o) == (o & (NumObj - 1)) \div ObjPerChunk

\* Chunks hgrnic_alloc_icm_table maps at creation because they hold the
\* reserved objects (lines 380-404); each keeps one reference forever.
ReservedChunks == {i \in Chunks : i * ObjPerChunk < Reserved}
ReservedRegion ==
    CHOOSE f \in [ReservedChunks -> Regions] :
        \A i, j \in ReservedChunks : i # j => f[i] # f[j]

VARIABLES
    icm,         \* table->icm[i]: the region backing chunk i, or NoRegion
    refcount,    \* table->icm[i]->refcount
    mutex,       \* holder of table->mutex
    freeRegions, \* regions not allocated to any chunk
    fwMap,       \* the device's translation: region mapped at chunk i
    pc,          \* per thread: where it is in reg / unreg
    obj,         \* per thread: the object of the call in progress
    ret,         \* per thread: what its last reg / unreg returned
    own          \* per thread: the object it has registered, or NoObj

tableVars == <<icm, refcount, mutex, freeRegions, fwMap, pc, obj, ret, own>>
vars == <<cmdVars, tableVars>>

Init ==
    /\ CmdInit
    /\ icm = [i \in Chunks |-> IF i \in ReservedChunks THEN ReservedRegion[i]
                                                       ELSE NoRegion]
    /\ refcount = [i \in Chunks |-> IF i \in ReservedChunks THEN 1 ELSE 0]
    /\ mutex = NoThread
    /\ freeRegions = Regions \ {ReservedRegion[i] : i \in ReservedChunks}
    /\ fwMap = icm
    /\ pc = [t \in Threads |-> "idle"]
    /\ obj = [t \in Threads |-> NoObj]
    /\ ret = [t \in Threads |-> 0]
    /\ own = [t \in Threads |-> NoObj]

\* hgrnic_alloc_icm (lines 137-220) either returns a region or fails.
AllocIcmOutcomes ==
    freeRegions \cup (IF AllocFailures \/ freeRegions = {} THEN {NoRegion} ELSE {})

\* The call in progress ends: the mutex is released and the value returned.
Return(t, v) ==
    /\ mutex' = NoThread
    /\ pc' = [pc EXCEPT ![t] = "idle"]
    /\ ret' = [ret EXCEPT ![t] = v]

-----------------------------------------------------------------------------
(* hgrnic_reg_icm (lines 230-271).                                          *)

\* Lines 234-257: take the mutex; a chunk already present only gains a
\* reference; otherwise allocate its memory, returning -ENOMEM on failure.
RegStart(t, o) ==
    LET i == ChunkOf(o) IN
    /\ pc[t] = "idle" /\ own[t] = NoObj
    /\ mutex = NoThread
    /\ IF icm[i] # NoRegion
       THEN /\ refcount' = [refcount EXCEPT ![i] = @ + 1]
            /\ own' = [own EXCEPT ![t] = o]
            /\ ret' = [ret EXCEPT ![t] = 0]
            /\ UNCHANGED <<icm, mutex, freeRegions, pc, obj>>
       ELSE \E r \in AllocIcmOutcomes :
            IF r = NoRegion
            THEN /\ ret' = [ret EXCEPT ![t] = -ENOMEM]
                 /\ UNCHANGED <<icm, refcount, mutex, freeRegions, pc, obj, own>>
            ELSE /\ icm' = [icm EXCEPT ![i] = r]
                 /\ freeRegions' = freeRegions \ {r}
                 /\ mutex' = t
                 /\ pc' = [pc EXCEPT ![t] = "map"]
                 /\ obj' = [obj EXCEPT ![t] = o]
                 /\ UNCHANGED <<refcount, ret, own>>
    /\ UNCHANGED <<cmdVars, fwMap>>

\* Lines 259-263: MAP_ICM failed; free the region, clear the slot, return
\* -ENOMEM.
RegMapFailed(t) ==
    LET i == ChunkOf(obj[t]) IN
    /\ freeRegions' = freeRegions \cup {icm[i]}
    /\ icm' = [icm EXCEPT ![i] = NoRegion]
    /\ Return(t, -ENOMEM)
    /\ UNCHANGED <<refcount, fwMap, obj, own>>

\* hgrnic_MAP_ICM (hgrnic_cmd.c lines 770-857): the mailbox allocation may
\* fail; otherwise the one MAP_ICM command a table chunk needs is issued.
RegMap(t) ==
    LET i == ChunkOf(obj[t]) IN
    /\ pc[t] = "map"
    /\ \/ /\ CmdIssue(t, [thr |-> t, op |-> "MAP", chunk |-> i, region |-> icm[i]])
          /\ pc' = [pc EXCEPT ![t] = "map_wait"]
          /\ UNCHANGED <<icm, refcount, mutex, freeRegions, fwMap, obj, ret, own>>
       \/ /\ AllocFailures
          /\ RegMapFailed(t)
          /\ UNCHANGED cmdVars

\* Mutant: the success path without `++table->icm[i]->refcount'.
RegMappedNoRef(t) ==
    /\ own' = [own EXCEPT ![t] = obj[t]]
    /\ Return(t, 0)
    /\ UNCHANGED <<icm, refcount, freeRegions, fwMap, obj>>

\* Lines 266-270: MAP_ICM succeeded; the chunk gets its first reference.
RegMapped(t) ==
    /\ refcount' = [refcount EXCEPT ![ChunkOf(obj[t])] = @ + 1]
    /\ own' = [own EXCEPT ![t] = obj[t]]
    /\ Return(t, 0)
    /\ UNCHANGED <<icm, freeRegions, fwMap, obj>>

\* Mutant: the result of hgrnic_MAP_ICM tested the wrong way round.
RegMapDoneInverted(t) ==
    /\ pc[t] = "map_wait"
    /\ CmdTake(t)
    /\ IF cmdRet[t] # 0 THEN RegMapped(t) ELSE RegMapFailed(t)

\* hgrnic_MAP_ICM returns what hgrnic_cmd_poll returned.
RegMapDone(t) ==
    /\ pc[t] = "map_wait"
    /\ CmdTake(t)
    /\ IF cmdRet[t] = 0 THEN RegMapped(t) ELSE RegMapFailed(t)

-----------------------------------------------------------------------------
(* hgrnic_unreg_icm (lines 277-294).                                        *)

\* Mutant: the unmap test off by one.
LastRefOffByOne(n) == n <= 1

\* Line 286: the reference just dropped was the last.
LastRef(n) == n = 0

\* Lines 283-287: take the mutex and drop a reference; the last one starts
\* the unmap, any other returns.
UnregStart(t) ==
    LET i == ChunkOf(own[t]) IN
    /\ pc[t] = "idle" /\ own[t] # NoObj
    /\ mutex = NoThread
    /\ refcount' = [refcount EXCEPT ![i] = @ - 1]
    /\ own' = [own EXCEPT ![t] = NoObj]
    /\ obj' = [obj EXCEPT ![t] = own[t]]
    /\ IF LastRef(refcount[i] - 1)
       THEN /\ mutex' = t
            /\ pc' = [pc EXCEPT ![t] = "unmap"]
            /\ UNCHANGED ret
       ELSE /\ ret' = [ret EXCEPT ![t] = 0]
            /\ UNCHANGED <<mutex, pc>>
    /\ UNCHANGED <<cmdVars, icm, freeRegions, fwMap>>

\* Line 288: hgrnic_UNMAP_ICM, a command without a mailbox.
UnregUnmap(t) ==
    LET i == ChunkOf(obj[t]) IN
    /\ pc[t] = "unmap"
    /\ CmdIssue(t, [thr |-> t, op |-> "UNMAP", chunk |-> i, region |-> NoRegion])
    /\ pc' = [pc EXCEPT ![t] = "unmap_wait"]
    /\ UNCHANGED <<icm, refcount, mutex, freeRegions, fwMap, obj, ret, own>>

\* Lines 288-293: the UNMAP_ICM result is ignored; the region is freed, the
\* slot cleared and the mutex released.
UnregDone(t) ==
    LET i == ChunkOf(obj[t]) IN
    /\ pc[t] = "unmap_wait"
    /\ CmdTake(t)
    /\ freeRegions' = freeRegions \cup {icm[i]}
    /\ icm' = [icm EXCEPT ![i] = NoRegion]
    /\ Return(t, 0)
    /\ UNCHANGED <<refcount, fwMap, obj, own>>

-----------------------------------------------------------------------------
(* The device: a completed MAP_ICM or UNMAP_ICM with status OK changes its   *)
(* translation; a failed one leaves it alone.                               *)

FwIcmExec(status) ==
    LET c == fwCmd IN
    /\ FwExec(status)
    /\ c.op = "UNMAP" /\ status # 0 => UnmapFails
    /\ fwMap' = IF status # 0 THEN fwMap
                ELSE IF c.op = "MAP" THEN [fwMap EXCEPT ![c.chunk] = c.region]
                ELSE [fwMap EXCEPT ![c.chunk] = NoRegion]
    /\ UNCHANGED <<icm, refcount, mutex, freeRegions, pc, obj, ret, own>>

Next ==
    \/ \E t \in Threads, o \in Objs : RegStart(t, o)
    \/ \E t \in Threads : RegMap(t) \/ RegMapDone(t)
    \/ \E t \in Threads : UnregStart(t) \/ UnregUnmap(t) \/ UnregDone(t)
    \/ \E t \in Threads : CmdCollect(t) /\ UNCHANGED tableVars
    \/ \E s \in FwStatuses : FwIcmExec(s)

Spec == Init /\ [][Next]_vars

-----------------------------------------------------------------------------
TypeOK ==
    /\ CmdTypeOK
    /\ icm \in [Chunks -> Regions \cup {NoRegion}]
    /\ refcount \in [Chunks -> Nat]
    /\ mutex \in Threads \cup {NoThread}
    /\ freeRegions \subseteq Regions
    /\ fwMap \in [Chunks -> Regions \cup {NoRegion}]
    /\ pc \in [Threads -> {"idle", "map", "map_wait", "unmap", "unmap_wait"}]
    /\ own \in [Threads -> Objs \cup {NoObj}]

\* Outside the mutex, each chunk's refcount is the number of registrations
\* callers hold on objects in it, plus the reservation, and a chunk has
\* memory exactly when its count is positive: hgrnic_reg_icm and
\* hgrnic_unreg_icm keep the count in step on every path, the error paths
\* included.
RefcountMatchesUsers ==
    mutex = NoThread =>
        \A i \in Chunks :
            /\ refcount[i] = Cardinality({t \in Threads : own[t] # NoObj
                                                     /\ ChunkOf(own[t]) = i})
                            + (IF i \in ReservedChunks THEN 1 ELSE 0)
            /\ (icm[i] # NoRegion) = (refcount[i] > 0)

\* The device never translates a chunk to memory the driver has returned to
\* the kernel: hgrnic_unreg_icm frees a region only after UNMAP_ICM, and the
\* error path of hgrnic_reg_icm frees one only when MAP_ICM did not map it.
FwMapsOnlyAllocatedMemory ==
    \A i \in Chunks : fwMap[i] # NoRegion => fwMap[i] \notin freeRegions

\* Every chunk in use is mapped by the device to the memory the table holds
\* for it: the chunks of the reserved firmware objects, and the chunk of
\* every object a caller holds a registration on (hgrnic_reg_icm returned 0
\* and hgrnic_unreg_icm has not been called).
InUseChunks ==
    ReservedChunks \cup {ChunkOf(own[t]) : t \in {u \in Threads : own[u] # NoObj}}

InUseChunksMapped ==
    \A i \in InUseChunks : icm[i] # NoRegion /\ fwMap[i] = icm[i]

\* A chunk the device holds as mapped (fwMap, set when a MAP_ICM completes
\* with status 0) is translated page by page to the region's memory:
\* whatever block orders hgrnic_alloc_icm gave the region, the mailboxes
\* hgrnic_MAP_ICM packed for it (MailboxLayout) pass the alignment test,
\* carry size-aligned entries, and read back in the firmware's slot order
\* as exactly the entries packed, however many mailboxes the list takes.
MapIcmTranslates ==
    (\E i \in Chunks : fwMap[i] # NoRegion) =>
        MapIcmPacksInOrder /\ MapIcmTranslatesChunk
=============================================================================
