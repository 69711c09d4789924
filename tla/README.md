# TLA+ models of the hgrnic kernel driver

This directory holds TLA+ models of the kernel driver of the JingZhao RDMA
NIC, `src/JingZhao2/software/drivers/ib_hgrnic`, and of the work-queue code
of its userspace provider `libhgrnic_tmp/src`, together with the TLC
configurations that check them. Each module is translated from the C source
and cites the lines it models. `PROJECT.json` maps every definition to those
lines and lists the runs, the mutants, the findings and the hazards.

## The system

The driver sits between the RDMA core and a device. The device keeps all
queue-pair (QP), completion-queue (CQ), memory-key (MPT) and
translation-table (MTT) contexts in host memory, the *ICM*. It reads that
memory through a translation the driver programs with firmware commands.

| Part | Source | State | Operations |
|---|---|---|---|
| Index allocator | `hgrnic_allocator.c` 18-93 | bitmap, cursor `last`, generation `top`, `max`, `mask`; spinlock | `hgrnic_alloc`, `hgrnic_free`, `hgrnic_alloc_init` |
| Sparse pointer table | `hgrnic_allocator.c` 95-189 | leaf pages with a use count | `hgrnic_array_get/set/clear` |
| Queue buffers | `hgrnic_allocator.c` 191-281 | DMA pages, a physical MR | `hgrnic_buf_alloc/free` |
| ICM region manager | `hgrnic_icm.c` 46-220 | chunk lists of DMA pages | `hgrnic_alloc_icm`, `hgrnic_free_icm` |
| ICM resource table | `hgrnic_icm.c` 230-438 | `icm[i]`, per-chunk refcount; table mutex | `hgrnic_reg_icm`, `hgrnic_unreg_icm`, the `_range` forms, table creation and teardown |
| Command interface | `hgrnic_cmd.c` | HCR (command register) words, go bit, `poll_sem`, `hcr_mutex`, mailbox pool | `hgrnic_cmd_poll`, status translation, one wrapper per firmware command (`MAP_ICM`, `SW2HW_CQ`, `RESIZE_CQ`, ...) |
| CQ poll and resize | `hgrnic_cq.c` 113-541, `hgrnic_provider.c` 616-738; libhgrnic `verbs.c` 293-358, `cq.c` 79-93, 377-395, 454-476 | ring of CQEs with an owner bit, `cons_index`, resize buffer in state ALLOC, READY or SWAPPED; libhgrnic's `cqe_mask`; `cq->lock`, `cq->mutex` | `hgrnic_poll_cq`, `hgrnic_resize_cq`, `hgrnic_cq_resize_copy_cqes`, in the kernel and in libhgrnic |
| CQ clean | `hgrnic_cq.c` 159-204 | the ring | `hgrnic_cq_clean` |
| CQ lifecycle | `hgrnic_cq.c` 557-680 | CQ number, ICM entry, device context, refcount | `hgrnic_init_cq`, `hgrnic_free_cq` |
| QP and work queues | `hgrnic_qp.c` | `head`, `tail`, `last_cpl`, `sq.last`, QP state, refcount | `hgrnic_alloc_qp`, `hgrnic_free_qp`, `hgrnic_modify_qp`, `hgrnic_post_send`, `hgrnic_post_receive` |
| MTT buddy and MR | `hgrnic_mr.c` | free bitmaps per order | buddy alloc/free, `hgrnic_alloc_mtt`/`free_mtt`, `hgrnic_write_mtt`, `hgrnic_mr_alloc`/`free_mr` |
| Device probe and remove | `hgrnic_main.c` | the tables, ICM, HCA and PCI resources the device holds | `__hgrnic_init_one`, `hgrnic_init_hca`, `hgrnic_init_icm`, `hgrnic_setup_hca`, `__hgrnic_remove_one` |
| Verbs glue, EQ, PD/UAR, userspace library | `hgrnic_provider.c`, `hgrnic_eq.c`, `hgrnic_pd.c`, `hgrnic_uar.c`, `libhgrnic*` | | see "Not modelled" |

### How the parts interact

Creating a CQ does four things in order:

1. takes a number from the index allocator;
2. registers the number's ICM chunk (`hgrnic_reg_icm`), which may allocate
   memory and issue `MAP_ICM`;
3. allocates the ring;
4. hands the context to the device (`SW2HW_CQ`).

Destroying a CQ does the reverse: it takes the context back (`HW2SW_CQ`),
waits for the refcount to drain, unregisters the chunk (which issues
`UNMAP_ICM` when the last reference goes) and frees the number. QPs and MRs
follow the same pattern.

Every firmware command goes through `hgrnic_cmd_poll`, which works in
three steps:

1. it takes `poll_sem` and writes six words plus the go word;
2. it spins until `go_bit()` reads clear or 60 s pass (`-EBUSY`);
3. it translates the status byte.

## Modules

### `IndexAlloc`: the index allocator

- **State:** `table` (the set bits), `last`, `top`, and `held`, the
  handles callers hold.
- **Actions:** `hgrnic_alloc` and `hgrnic_free(h)` are one atomic step each,
  because each runs whole under the allocator spinlock.
- **Helpers:**
  - `Scan` is lines 25-29;
  - `FreeBit` is the masking of line 50;
  - `CursorAfterFree` is line 55, the deliberately absent cursor reset.
- **Checked inside `QpLifecycle`**, which uses it as the QP number
  allocator (`hgrnic_alloc_qp`, `hgrnic_free_qp`). There `Max = 2` and
  `Mask = 3`, and three QP objects compete for the two numbers. This is
  enough to reach the following:
  - a full table, and an alloc that fails;
  - a scan that restarts from bit 0;
  - a generation wrap of `top`;
  - frees on either side of the cursor.

### `HcaCmd`: the command interface and the device's command register

- **State:**
  - `poll_sem`;
  - the HCR status word: `hcrBits` (which of bits 23 and 15 are set) and
    `hcrStatus` (the status byte);
  - the command the device latched (`fwCmd`);
  - per thread: `cmdPc` and `cmdRet`, plus the history variable
    `fwDoneFor` (the status the device finished the thread's last command
    with). `cmdRet` is the caller's local result: `CmdTake` hands it over
    and the interface keeps no copy.
- **Actions:**
  - `CmdIssue(t, cmd)`: `down(poll_sem)` plus `hgrnic_cmd_post_hcr`;
  - `CmdCollect(t)`: the polling loop, the status read and `up`;
  - `CmdTake(t)`: the caller consumes the result;
  - `FwExec(status)`: the device completes the latched command.
- **`hcr_mutex` is not modelled:** it is only ever taken inside `poll_sem`,
  so it adds no exclusion.
- **Conversion of the status byte:** `hgrnic_status_to_errno` is the table
  of lines 170-198, with Linux errno values.
- **The go-bit conversion is modelled by what it does.**
  - The post writes `cpu_to_le32(1 << 23)`, so it sets bit 23.
  - `go_bit()` tests `swab32(1 << 23)`, so it tests bit 15.
  - Whether the device shows busy in bit 15 is the constant `MirrorsGo`.
    Only `TRUE` lets the driver wait at all.
- **`CmdSpec`:** threads issue commands in a loop. `hca_cmd_gobit` checks
  the layer on its own; its passing checks run inside `MrTable`, where the
  commands are the MR path's `WRITE_MTT`, `SW2HW_MPT` and `HW2SW_MPT`.

### `IcmTable`: one ICM table with the device's translation (extends `HcaCmd`)

- **State:**
  - the table: `icm[i]` (the region backing chunk `i`), `refcount[i]` and
    `mutex`;
  - the kernel memory still free (`freeRegions`);
  - the device's translation `fwMap`;
  - per thread: `pc`, `obj` (the object of the call in progress), `ret` and
    `own` (the object it holds a registration on).
- **Actions for `hgrnic_reg_icm`:**
  - `RegStart` takes the mutex. It either takes the fast path
    (`++refcount`) or allocates memory.
  - `RegMap` is `hgrnic_MAP_ICM`. The mailbox allocation may fail;
    otherwise it issues the command.
  - `RegMapDone` stores or rolls back.
- **Actions for `hgrnic_unreg_icm`:**
  - `UnregStart` is `--refcount`;
  - `UnregUnmap` issues `UNMAP_ICM`;
  - `UnregDone` frees the memory whatever the result, clears the slot and
    unlocks.
- **Device:** `FwIcmExec` is `FwExec` plus its effect on `fwMap`.
- **What `MAP_ICM` is here:** a table chunk (256 KB) gives at most 64
  mailbox entries, so `hgrnic_MAP_ICM` issues exactly one command for it.
  The mailbox layout is `MailboxLayout`'s, checked by `MapIcmTranslates`.
- **Memory:** `hgrnic_alloc_icm` takes a region from `Regions`. It fails
  when the pool is empty, or at any time when `AllocFailures` is `TRUE`.
- **Initial state:** the reserved chunks are mapped with refcount 1, as
  `hgrnic_alloc_icm_table` leaves them.
- **Bounds** of `IcmTable.cfg`, which checks the table on its own (the
  run `cq_lifecycle` checks the same properties on the CQ context table
  as the device creates and destroys it):
  - 2 threads;
  - 8 objects, 2 per chunk, so 4 chunks, with chunk 0 reserved;
  - objects `{1, 2, 3, 12}`. Object 12 carries a generation bit above
    `num_obj` and lands in chunk 2.
  - 2 regions, one of them taken by the reserved chunk. The two user
    chunks therefore compete for memory.

### `CqRing`: one CQ ring and its online resize, kernel or libhgrnic

- **State:** the buffers' slots (`mem`, a CQE is the sequence number the
  device gave it, `NoCqe` a hardware-owned slot), `buf`/`cons` (the CQ's
  buffer and `cons_index`), the resize record `rbuf` (buffer and state
  ALLOC/READY/SWAPPED), the device's buffer `hwBuf` and producer index, the
  set of `live` (not freed) buffers, and the steps of the poller and the
  resizer.
- **Actors:** the device (`HwWriteCqe`); one poller (`PollStart`,
  `PollOne`, `PollPeek`: `hgrnic_poll_cq` under `cq->lock`, which the
  device does not take); one resizer (`ResizeStart`, `ResizeAllocBuf`,
  `ResizeCmd`, `ResizeFreeFailed`, `ResizeUnlink`, `ResizeFinish`: the
  steps of `hgrnic_resize_cq` between its lock and command boundaries).
- **A libhgrnic CQ** (`kind = "user"`, chosen at `Init` from `Kinds`): its
  poller is libhgrnic's `hgrnic_poll_cq`, the same loop without the resize
  check, reading the entry `cons_index & cqe_mask` (`PollSlot`). Its
  resizer is libhgrnic's `hgrnic_resize_cq` (`UserResizeStart`,
  `UserResizeAlloc`, `UserResizeCmd`, `UserResizeFinish`). It holds
  `cq->lock` from start to end, so only the device runs beside it. It sets
  `cqe_mask` before anything can fail. `RESIZE_CQ`, issued by the kernel
  with the new buffer's lkey, moves the device to the new buffer. The
  resizer then copies the old entries with the kernel's loop (`SwRun`,
  `CopyCqes`) and frees the old buffer. Its failures are controlled by
  `UserFailures`. They are an outcome chosen inside the step rather than a
  disjunct, so `cq_ring` runs the user path with every step succeeding.
  The entries beyond a buffer's own, which only a stale mask reaches, are
  taken to be owned by hardware. What `hgrnic_alloc_buf` leaves there is
  not in the repository.
- **Helpers:** `SwRun` and `CopyCqes` are the copy loop of
  `hgrnic_cq_resize_copy_cqes`; `Tbuf` is the choice of the buffer to free.
- **Bounds:** a 4-entry CQ grown to 8, three buffers, six CQEs, batches of
  two, three resize calls (`MaxResizes`, so that an application resizing
  forever cannot keep libhgrnic's poller off `cq->lock`); `AllocFailures`
  and `ResizeRejects` enable both kernel error paths.

### `WorkQueue`: the send and receive queues of one QP

- **State:** per queue `head`, `tail`, `last_cpl`; the `wr_id` arrays; the
  post call in progress (`poster`); the doorbells the device has not run
  (`sqDb`), the receive WQEs it may consume (`devRq`), the CQ as a FIFO of
  CQEs (`cqes`); the histories `posted`/`done` of wr_ids; and, for the
  send queue, `sq.last` (`sqLast`) and the slot each WQE's next unit links
  to (`link`, `NoLink` while its DBD bit is clear).
- **Actions:** `PostStart`, then one `PostSendWr`/`PostRecvWr` per WR (the
  overflow, SGE and opcode checks, the doorbell every
  `MaxWqesPerDb` WQEs, `sq.last` moved to the new WQE before the SGE
  check, and the link written into the previous WQE after the opcode
  check) and `PostSendOut`/`PostRecvOut` (the final doorbell
  or head update); the device's `DevExecSend` and `DevRecv`; `PollOne`, the
  wr_id lookup and tail update of `poll_one`.
- **Two implementations:** `InKernel` selects the kernel's code
  (`hgrnic_qp.c`, `hgrnic_cq.c`) or libhgrnic's (`qp.c`, `cq.c`) where the
  two differ: who adds to `head` at a batch doorbell, which `wr_id`
  array a receive completion is read from, and which WQEs are linked
  (the kernel clears the new WQE's next unit and links every WQE from
  `sq.last`, libhgrnic only WQEs after the first of a doorbell:
  `WqeCleared`, `LinkPrev`).
- **Bounds:** 4 slots per queue, doorbells every 2 WQEs, calls of up to 3
  WRs, 5 WRs in all; enough for a full queue, an overflow, a batch
  doorbell inside a call and a WR failing after others were accepted.

### `QpLifecycle`: QPs from creation to destruction, and the poller's lookup (extends `IndexAlloc`)

- **State:** per QP object the owner thread's `pc`, `qpn`, `state`
  (`qp->state`), `hw` (the state of the device's QP context), and its
  CQs `scq`/`rcq`; the sparse table `qp_table.qp` (`qpTable`, `page`,
  `used`); per CQ the SW-owned CQEs (`cq`, each with the QP number and the
  object it was written for), `cqLock` and the poll call in progress
  (`poller`); the history flag `lost`.
- **Actions:**
  - `AllocQpNum`, `AllocQpBuf`: `hgrnic_alloc_qp` (number, then context
    ICM which may fail, then `hgrnic_array_set`);
  - `ModifyQp`, `ModifyQpBody`: `hgrnic_modify_qp` to any state
    `ib_modify_qp_is_ok` admits, then `__hgrnic_modify_qp`, whose mailbox,
    path-MTU check and MODIFY_QP may each fail; the command carries
    `op[cur][next]` of `hgrnic_MODIFY_QP`'s table (`QpOpTable`), and the
    device's context takes the state the opcode names (`QpeeTarget`); to
    RESET it continues with the two cleans;
  - `FreeQpUnpublish`, `FreeQpReset`, `CleanRq`, `CleanSq`,
    `FreeQpRelease`: `hgrnic_free_qp` split at its lock boundaries
    (table clear under both CQ locks; MODIFY_QP to RESET unless
    `qp->state` is already RESET, whose failure
    free_qp ignores, possible when `ResetFails` is TRUE; `hgrnic_cq_clean`
    of the receive and, if different, the send CQ; number freed);
  - `DevCqe`: the device completes work of a QP whose state allows it;
  - `PollCqStart`, `PollOne`, `PollCqEnd`: `hgrnic_poll_cq` with the
    `cur_qp` cache and `hgrnic_array_get` lookup of `hgrnic_poll_one`
    (`FindQp`);
  - with `mode = "user"` (one of `QpModes`, chosen in `QpInit`) the QPs
    and pollers are libhgrnic's: `AllocQpNum` and `FreeQpUnpublish` also
    take `qp_table_mutex` (`mutex`), as `hgrnic_create_qp` and
    `hgrnic_destroy_qp` hold it across `ibv_cmd_create_qp` and
    `ibv_cmd_destroy_qp`; `UStoreQp` is `hgrnic_store_qp` and the unlock;
    the kernel's `free_qp` skips its cleans for a userspace QP, so
    `FreeQpRelease` frees the number and returns to `UDestroyClean`:
    `hgrnic_lock_cqs`, `__hgrnic_cq_clean` of both CQs, `hgrnic_clear_qp`,
    unlock. The poller looks the number up with `hgrnic_find_qp` in the
    two-level table `uRef`/`uSlots` (`ctx->qp_table`). A modify to RESET
    is the same steps, the cleans being libhgrnic's `hgrnic_cq_clean`
    after `ibv_cmd_modify_qp`.
- **Helpers:** `cq_clean`, with the RECURSIVE `Sweep`, is
  `hgrnic_cq_clean`'s backward copy (checked against `SelectSeq` on the
  CQ's contents and, as `SweepIsFilter`, on every tagged list of up to
  four entries of two QP numbers); `ArraySet`/`ArrayClear`/`array_get`
  are the sparse-table functions.
- **Abstractions:** a freed QP object's `state` and `hw` are set back
  to RESET (`Forget`), the values `alloc_qp` gives a new one; a
  MODIFY_QP that fails is one the device did not execute (the timed-out
  command the device completes later is `HcaCmd`'s, not composed here);
  the device writes a CQE's `my_qpn` as the full QP number, generation
  bits included, which is what `hgrnic_cq_clean` (`hgrnic_cq.c:189`) and
  `poll_one` (`hgrnic_cq.c:357`) compare with, although the QP context
  carries only `qpn & (num_qps - 1)` (`hgrnic_qp.c:391`; a hazard);
  `qp->refcount` is set to 1 and only dropped by
  `free_qp`, so its `wait_event` is immediate; the ICM of the context is
  reduced to "registration may fail"; the page allocation of
  `hgrnic_array_set` succeeds unless `PageAllocFails` is TRUE. In user mode the allocations `create_qp`
  makes before taking the mutex (work queue buffers, MRs), which touch no
  shared state, and the `calloc` of a table leaf in `hgrnic_store_qp` are
  taken to succeed.
- **Bounds:** three QP objects, two numbers (`Max = 2`, `Mask = 3`), one
  CQ shared as send and receive CQ holding 2 CQEs, batches of 2, symmetry
  over the QP objects (they are interchangeable model values). The two-CQ
  case (`scq # rcq`) of the clean is in the model but not in the checked
  configuration: it multiplies the state space beyond the time budget.
  `UTableBits = 0` scales `HGRNIC_QP_TABLE_BITS` (8) down so that both
  QP numbers share one leaf: its `refcnt` reaches 2 and `hgrnic_clear_qp`
  takes both its branches (free the leaf, or clear one slot).

### `MttPool`: what the MTT segment allocator promises

An abstract pool of `2^MaxOrder` segments. A caller holding nothing takes a
wholly free block of `2^o` segments aligned to its size (`Take`), and
gives back the block it holds (`Give`). It has no code of its own: it is
the specification `MrTable`'s buddy allocator is shown to implement.

### `MrTable`: MTTs and memory regions (extends `HcaCmd`)

- **State:**
  - the buddy allocator: `bits[o]` (the set bits of `buddy->bits[o]`) and
    `numFree[o]`;
  - `mttRef`: the refcount of each chunk of the MTT ICM table;
  - `mr_table.mpt_alloc`, as `Mpt == INSTANCE IndexAlloc WITH ...` over its
    own variables;
  - per thread: `mrPc` (where its MR is), `mtt` (first segment, order and
    page count), `rangeAt` (the `i` of the range loop in progress) and
    `key`;
  - the device: `hwMpt` (MPT entries by index) and `hwMtt` (which thread's
    `WRITE_MTT` last wrote each MTT entry).
- **Pure operators:** `BuddyAlloc` with the RECURSIVE `Split`, `BuddyFree`
  with the RECURSIVE `Coalesce`, and `MttOrder` (the loop of
  `__hgrnic_alloc_mtt`), all translated from `hgrnic_mr.c` 49-103 and
  210-212. The buddy functions run whole under `buddy->lock`, so each is
  one step.
- **Actions, in the order `hgrnic_reg_user_mr` takes them:**
  - `AllocMtt`: the buddy allocation;
  - `RegMttChunk`: one `hgrnic_reg_icm` of `hgrnic_reg_icm_range`, which
    may fail on an unmapped chunk;
  - `Rollback` and `RollbackDone`: the unwinding and the block's return;
  - `WriteMtt` and `WriteMttDone`: the page and mailbox allocations, and
    `WRITE_MTT`;
  - `AllocMptKey`, `MptIcmAndPost` and `Sw2hwDone`: `hgrnic_mr_alloc`.
- **Actions of `hgrnic_dereg_mr`:**
  - `Hw2swPost` and `Hw2swDone`: `HW2SW_MPT`, with its error only logged;
  - `FreeRegion`: `hgrnic_free_region`, also the end of `mr_alloc`'s error
    path;
  - `FreeMtt`: the buddy free, which `hgrnic_free_mtt` does first;
  - `UnregMttChunk`: the unregistration loop.
- **The device:** `MrFwExec(status)` is `FwExec` plus the command's effect
  on `hwMtt` and `hwMpt` when the status is 0.
- **Refinement:** `Pool == INSTANCE MttPool WITH free <- FreeSegs, held <-
  HeldSegs`. The free segments are the blocks of the set bits; a thread
  holds its MTT from `AllocMtt` until `FreeMtt`. `PoolRefined` checks
  `Pool!PoolSpec` as a property.
- **Abstracted:**
  - the MPT's own ICM entry is reduced to "registration may fail";
  - the inside of `hgrnic_reg_icm` is `IcmTable`'s;
  - `__hgrnic_write_mtt` sends one mailbox, which holds the MR's pages at
    these bounds;
  - a failed `kmalloc` before the buddy allocation changes nothing and is
    left out.
- **Bounds:** two threads; MRs of 1 or 2 pages in a pool of 2 segments, one
  per chunk; one MPT (`NumMpts = 1`, `MptMask = 1`), so the second
  thread's key allocation fails while the first holds the key; statuses
  0 and 12 (no errno entry); timeouts; ICM and allocation failures.
  Symmetry over the threads. A pool of 4 segments with 2 per chunk (which
  exercises the range loop's stepping inside a chunk) passes too, but
  takes close to 5 minutes, so the checked configuration is the smaller
  one.
- **`MrTable_hw2sw.cfg`:** with no timeouts or allocation failures,
  `HwMptOnlyForLiveMr` is violated. The trace is a `HW2SW_MPT` the device
  completes with an error: `hgrnic_free_mr` frees the key and the MTT
  anyway, and the device keeps an MPT entry for a freed MR (hazard
  `hgrnic_mr.c:478`).

### `CqLifecycle`: kernel CQs from creation to destruction (extends `IcmTable`)

- **Composition:** the CQ context table is `IcmTable`'s table (its actions
  and the device's `MAP_ICM`/`UNMAP_ICM` are kept whole); the CQ number
  allocator `cq_table.alloc` is the instance `Cqn` of `IndexAlloc`.
- **State added:** per thread, `cqPc`, `cqn`, `cqBuf` (the ring is
  allocated) and `cqRet` (the `err` `hgrnic_init_cq` will return);
  `arr` (the `cq_table.cq` slots, with `PageAbsent` for the lazily
  allocated page) and `hwCq` (the device's CQ contexts).
- **`hgrnic_init_cq`:** `CqAllocNum`, `CqRegIcm` (starts `RegStart`),
  `CqAfterReg` (reads `ret` once `IcmTable`'s `pc` is idle), `CqAllocBuf`,
  `CqPostSw2hw` (the mailbox may fail), `Sw2hwCqDone`, `CqArraySet` (the
  page allocation may fail when no slot is in use). The labels
  `err_out_free_mr`, `err_out_icm` and `err_out` are `CqFreeBuf`,
  `CqUnreg` and `CqFreeNum`, shared with `hgrnic_free_cq` as in the code;
  `CqFreeNum` ends in `live` when `err` is 0.
- **`hgrnic_free_cq`:** `CqHw2swPost`, `Hw2swCqDone` (the result only
  logged; the slot cleared), then the same three release steps. The
  refcount wait is left out: nothing but `hgrnic_free_cq` changes
  `cq->refcount`.
- **Device:** `CqFwExec` runs `FwIcmExec` for `MAP`/`UNMAP` and sets or
  clears `hwCq` for a `SW2HW_CQ`/`HW2SW_CQ` completed with status OK.
- **Bounds:** 2 threads, `num_cqs` 2 with one generation bit (`CqMask`
  3), a 2-chunk context table with chunk 0 reserved, 2 regions, commands
  that may fail with status 3, allocation failures on. `SetupFails`
  (`FALSE` in the passing run) lets the mailbox and the `array_set` page
  fail. `Hw2swFails` (`FALSE` in the passing run) lets the device
  complete `HW2SW_CQ` with an error status.
- **`CqLifecycle_hw2sw.cfg`** sets `Hw2swFails` `TRUE`: `HwCqOnlyWithBuffer` is violated: a
  `HW2SW_CQ` completed with an error leaves the device a context whose
  buffer `hgrnic_free_cq` has freed (hazard `hgrnic_cq.c:662`).
- **`CqLifecycle_initerr.cfg`** is the run `cq_init_err`; the passing
  checks of CQs run under `HcaDevice`.

### `HcaDevice`: probe and remove around the CQs (extends `CqLifecycle`)

- **Probe:** `__hgrnic_init_one` with `hgrnic_init_hca`, `hgrnic_init_icm`
  and `hgrnic_setup_hca` is the sequence `ProbeSteps` of 23 steps. Each
  names what it acquires and the unwinding label its failure jumps to.
  `ProbeStep(i)` either acquires or, when `ProbeFails`, releases the
  label's set and leaves the device down. A label is the set of resources
  its chain of `goto`s and returns releases across the three functions
  (`ErrUnmapCq`, `ErrPdFree`, `ErrClose`, `ErrCleanup`, ...).
- **Concrete resources:** the CQ context table is `IcmTable`'s
  (`AllocCqIcmTable`, `FreeCqIcmTable` for `hgrnic_alloc_icm_table` and
  `hgrnic_free_icm_table`), and the CQ table is `Cqn` with `arr`
  (`CqTableReset`). The other tables, the UAR, the KAR mapping, the PD
  and the registration are names in `held`. The ICM tables are created
  and freed in one step each: the probe runs alone under
  `hgrnic_device_mutex`, before any user can issue a command.
- **CQ 0:** after `hgrnic_init_qp_table` the probe creates CQ 0 with
  `CqLifecycle`'s `hgrnic_init_cq` steps, run by the thread `Probe`
  (`CqZeroStart`, `CqZeroInitStep`, `CqZeroDone`). Its result is ignored,
  as in the code.
- **Users and remove:** user threads create and destroy CQs while the
  device is `up` (`UserCqStep`). `Remove` starts when they hold no CQ, as
  `ib_unregister_device` makes the clients do, releases `RemoveSet` and
  lets the device be probed again. `GoDown` is the teardown shared by
  remove and a failing probe. CLOSE_HCA drops the device's contexts, and
  CQ 0's per-thread state goes with `__hgrnic_init_one`'s frame.
- **Bounds** (`HcaDevice.cfg`): the probe thread and 2 users, with the
  constants of the CQ checks. Every probe step may fail, so every label
  is taken. About 3.2 million states, in about 2 minutes.
- **`HcaDevice_leak.cfg`:** `NothingLeaked` (every resource held is
  released when the device goes down) is violated after one probe and
  remove. `RemoveSet` and `ErrCleanup` lack `kar` and `driver_uar`, and
  CQ 0's buffer is never freed (hazard `hgrnic_main.c:550`).

### `MailboxLayout`: the mailbox packing loops, as pure operators

Two driver loops pack a list into command mailboxes in an order the
firmware must read back. They are operators over their inputs, each
checked against a reference definition for every input up to a bound.
Sizes are scaled: the mailbox is 64 bytes (code: 4096), so 4 `MAP_ICM`
entries (256) and 8 words (512) fit.

- **`hgrnic_alloc_icm`** (`AllocIcmOrders`): the set of all block-order
  sequences a successful call can build for a table chunk. It starts at
  the order of `HGRNIC_ICM_ALLOC_SIZE`, lowers the order to what is left,
  and drops an order whenever `alloc_pages` fails. `IcmSegs` places each
  block aligned to its size, as `alloc_pages` does.
- **`hgrnic_MAP_ICM`** (`MapIcm`): `SegLog` is the `ffs` alignment with
  its cap and its `-EINVAL` rejection. `SegEntries` cuts a segment into
  `(virt, phys | flag)` pairs. `PutEntry` is the `nent` walk 1,0,3,2,...
  with the flush at capacity. `MapIcmFinish` makes the last adjustment
  and sends. The firmware (`FwEntries`) reads entry j from slot j XOR 1.
- **`__hgrnic_write_mtt`** (`WriteMttLoop`, `FillMailbox`, `FillEnd`):
  the 4-word header, each quartet reversed, zeros past the list, a mailbox
  not cleared between commands, and the count `list_len`.
  `RegUserMrMtt` is `hgrnic_reg_user_mr`'s cutting into chunks of
  `write_mtt_size`. The firmware (`FwWriteMtt`) reads entry k from word
  4 + (k XOR 3); a word past the mailbox is `Garbage`.
- **How it is checked:** the constant formulas `MapIcmPacksInOrder`,
  `MapIcmTranslatesChunk` and `WriteMttWritesList` are evaluated once per
  run. `IcmTable` and `MrTable` state them as invariants (`MapIcmTranslates`,
  `WriteMttFillsMtt`) of states where the device holds a mapping the
  abstract command stands for.
- **`MrTable_writemtt.cfg`:** `WriteMttCountFitsMailbox` is violated. A
  full chunk of 512 page addresses (scaled: 8) is sent with a count of
  512, but the mailbox holds 508 (scaled: 4). The firmware is told to read
  4 entries past the mailbox's end. The next command rewrites them, so the
  final MTT is right (`WriteMttFillsMtt`), but the DMA read runs past the
  buffer (hazard `hgrnic_mr.c:275`).
- **Scaling:** with the code's sizes a table chunk (64 pages) never
  fills a `MAP_ICM` mailbox (256 entries), and the order cap (2^8 pages)
  never binds. The scaled chunk of 4 pages reaches both the flush and the
  cap exactly. `MapIcmPacksInOrder` packs lists of up to 9 entries (two
  full mailboxes and one entry more), so the flush-and-continue path the
  spec requires is checked even though table chunks never take it.

## Runs

| Run | Module / cfg | Expect | Properties |
|---|---|---|---|
| `hca_cmd_gobit` | `HcaCmd` / `HcaCmd_gobit.cfg` | violation | `CmdOkOnlyIfExecuted` |
| `cq_ring` | `CqRing` / `CqRing.cfg` | pass | `TypeOK`, `HwWritesLiveBuffer`, `ResizeCopyTerminates`, `CqesInOrder`, `AllCqesDelivered` |
| `cq_ring_user` | `CqRing` / `CqRing_user.cfg` | violation | `AllCqesDelivered` |
| `cq_ring_reject` | `CqRing` / `CqRing_reject.cfg` | violation | `PollReadsLiveBuffers` |
| `work_queue` | `WorkQueue` / `WorkQueue.cfg` | pass | `TypeOK`, `CompletionsMatchPosts`, `HeadTailCountsOutstanding`, `WqeLinksConsecutive`, `AllCompletionsReported` |
| `wq_kernel_batch` | `WorkQueue` / `WorkQueue_batch.cfg` | violation | `HeadTailCountsOutstanding` |
| `wq_kernel_recv` | `WorkQueue` / `WorkQueue_recv.cfg` | violation | `CompletionsMatchPosts` |
| `qp_lifecycle` | `QpLifecycle` / `QpLifecycle.cfg` | pass | `QpTypeOK`, `BitmapMatchesHolders`, `AllocFailsOnlyWhenFull`, `QpTableMatchesLiveQps`, `PollAttributesToOwner`, `NoCqeOutlivesQp`, `UserTableMatchesLiveQps`, `CachedResetIsDeviceReset`, `CleanIsFilter` |
| `qp_poll_unknown` | `QpLifecycle` / `QpLifecycle_poll.cfg` | violation | `NoCompletionLost` |
| `mr_table` | `MrTable` / `MrTable.cfg` | pass | `MrTypeOK`, `CmdOkOnlyIfExecuted`, `PoolRefined`, `AllocSucceedsWhenBlockFree`, `RefcountMatchesMtts`, `LiveMrTranslatesOwnMtt`, `WriteMttFillsMtt` |
| `cq_lifecycle` | `HcaDevice` / `HcaDevice.cfg` | pass | `HcaTypeOK`, `DevRefcountMatchesUsers`, `FwMapsOnlyAllocatedMemory`, `DevInUseChunksMapped`, `LiveCqSetUp`, `CqUnwindReleasesAll`, `NoOverRelease`, `MapIcmTranslates`, `HwCqOnlyWithBuffer` |
| `cq_init_err` | `CqLifecycle` / `CqLifecycle_initerr.cfg` | violation | `LiveCqSetUp` |

What the passing runs show:

- **`cq_ring`:** across a resize racing the poller and the device, every
  CQE is returned once and in order (`CqesInOrder`) and eventually
  (`AllCqesDelivered`), the copy loop ends, and the device never writes a
  freed buffer. This holds for a kernel CQ and for a libhgrnic CQ.
- **`work_queue`** (libhgrnic's code): the wr_ids returned by polling are a
  prefix of those accepted, in order, per queue; `head - tail` equals the
  WRs in flight across batch doorbells, overflow and rejected WRs; every
  link a post writes names the slot after the WQE it is in
  (`WqeLinksConsecutive`; the doorbell names only a batch's first WQE,
  so the device reaches the rest through these links); and every
  accepted WR completes.
- **`qp_lifecycle`:** `qp_table.qp` holds exactly the published QPs with a
  consistent page count; each completion a poll returns goes to the QP
  object the device wrote it for; no CQE outlives the QP incarnation it
  belongs to when a number is reused; `hgrnic_cq_clean` is a filter on
  every CQ reachable, and its backward sweep alone is a filter on every
  list of up to four CQEs (`SweepIsFilter`, part of `CleanIsFilter`:
  the CQ of the run holds 2 CQEs, too few for several survivors each
  shifted by several slots); the allocator's bitmap and wrap-around
  contracts hold as QP numbers are allocated and freed. For libhgrnic
  QPs, whose number the kernel frees before `hgrnic_destroy_qp` cleans
  the CQs and clears the table, the same hold, and libhgrnic's table finds
  every stored QP and nothing else with exact leaf refcounts
  (`UserTableMatchesLiveQps`): `qp_table_mutex` keeps a create that is
  given the freed number out until the clear. Released right after
  `ibv_cmd_destroy_qp` (mutant `FreeQpReleaseUnlocks`), it lets the new
  QP's slot be cleared by the old QP's destroy. `hgrnic_free_qp` skips
  its MODIFY_QP when `qp->state` is RESET; the device's context is then
  in RESET too (`CachedResetIsDeviceReset`): every transition to RESET
  sends an opcode of the table that leaves the device there, and a failed
  one changes neither side.
- **`mr_table`:**
  - The command layer reports success only for a command the device
    completed with status OK. This holds with timeouts and unknown status
    bytes, given a device that keeps bit 15 set while busy.
  - The buddy allocator implements the aligned segment pool.
  - A request fails only when no aligned block is free.
  - Each MTT chunk's refcount equals the range loops holding it, although
    `hgrnic_free_mtt` returns the segments before unregistering them.
  - A live MR's MPT entry is its own and points at MTT entries its own
    `WRITE_MTT` wrote, despite stale timed-out commands of other MRs.
  - The MTT entries one `WRITE_MTT` of the model stands for are what
    `hgrnic_reg_user_mr`'s chunks of `__hgrnic_write_mtt` mailboxes leave.
    That is the MR's page list, in order and in range, for lists of up to
    2 chunks and 3 pages (`WriteMttFillsMtt`).
- **`cq_lifecycle`:**
  - No unwinding path of the probe, and not remove, releases a resource
    that was not acquired (`NoOverRelease`). This covers every failing
    step across the labels of the three functions that pass the error up.
  - `IcmTable`'s checks on the CQ context table while it exists: outside the mutex,
    refcounts equal the holders plus the reservation; the device never
    maps freed memory; every chunk in use is mapped. This holds with
    allocation and command failures, given an `UNMAP_ICM` that succeeds
    (`IcmTable_unmap.cfg` reproduces the ignored `UNMAP_ICM` failure,
    hazard `hgrnic_icm.c:288`).
  - A CQ that `hgrnic_init_cq` reported created has its number, its
    context chunk, its buffer, its `cq_table.cq` slot and its device
    context (`LiveCqSetUp`).
  - A thread with no CQ holds none of its resources, and the numbers
    taken in `cq_table.alloc` are those of CQs being created, live or
    being destroyed (`CqUnwindReleasesAll`), on every error path.
  - While `HW2SW_CQ` succeeds, the device holds a CQ context only while
    the CQ's buffer exists: `hgrnic_free_cq` frees the buffer only after
    the device gave the context back (`HwCqOnlyWithBuffer`).
  - A chunk the device maps is translated page by page to the memory the
    allocator gave it, for every order fallback of `hgrnic_alloc_icm`.
    Each entry is aligned to its size, and the slot interleaving reads
    back in order across mailbox flushes (`MapIcmTranslates`).

Every property of a passing run has a mutant in `PROJECT.json`: a
plausible bug in the mapped code (a dropped wrap-around, a missing mask, a slot left set by `array_clear`, a cache
reused without its number check, `qp_table_mutex` released before the
clear, a `MODIFY_QP` table entry copied from the wrong column, a kernel QP taken for a userspace one and
not cleaned, the clean's copy moving a survivor one slot instead of nfreed, a missing doorbell, a loose
overflow test, a buddy block not taken out of its bitmap, a free without
the merge, an unwinding without the unregister, a `WRITE_MTT` error ignored, a `SW2HW_CQ` error ignored, a WQE linked from `sq.last` at every WR, a CQ buffer freed when `HW2SW_CQ` is posted, a failed
buffer allocation jumping past the unregister, a probe failure jumping one
label too far, `MAP_ICM` entries laid out in plain slot order, `WRITE_MTT`
quartets not reversed). TLC finds each mutant's property violated.

### Fairness

`cq_ring` and `work_queue` check liveness. They assume weak fairness of
every step of the poller, the resizer, the posting thread and the device's
execution of doorbells it has been given: each is a thread or a device
engine that, once enabled, keeps running. Message arrival
(`WorkQueue`'s `DevRecv`) and the start of a post call (`PostStart`)
depend on the peer and the application and are not fair. The other runs
check safety only, with `CHECK_DEADLOCK FALSE` because their behaviours
are bounded (numbers of WRs, CQEs or commands) and end when the bound is
reached. `mr_table` checks deadlock: a thread can always register or
deregister another MR, so the system never stops.

## Findings

Each violation run reproduces one of these; `PROJECT.json` names the line.

- **The go bit** (`hca_cmd_gobit`): `go_bit()` polls bit 15, not the bit 23
  that the post sets (`hgrnic_cmd.c:118`). Either the device mirrors busy
  into bit 15, which nothing in the repository documents, or the driver
  never waits for a command.
- **Failed resize of a libhgrnic CQ** (`cq_ring_user`): libhgrnic's
  `hgrnic_resize_cq` sets `cq->cqe_mask` to the new size
  (`verbs.c:310`) before allocating, registering and resizing. It leaves
  the mask changed when any of them fails. After a failed grow from 4 to 8
  entries, the poller masks `cons_index` with 7 over the 4-entry ring.
  At index 4 it reads past the ring, and it never returns the CQE the
  device wrote into slot 0.
- **Rejected resize** (`cq_ring_reject`): after a failed `RESIZE_CQ` the new
  buffer is freed before `resize_buf` is cleared under `cq->lock`; a
  concurrent poll reads freed memory.
- **Double head increment** (`wq_kernel_batch`): at the in-loop doorbell of
  `hgrnic_post_send`, `hgrnic_send_dbell` and the caller both add the batch
  to `sq.head`.
- **Receive wr_id** (`wq_kernel_recv`): the kernel's `hgrnic_poll_one`
  reads a receive completion's wr_id from `sq.wr_id`.
- **Completions lost to an unknown QP** (`qp_poll_unknown`):
  `hgrnic_free_qp` unpublishes the QP before moving it to RESET; a CQE the
  device writes in between makes `hgrnic_poll_cq` return `-EINVAL` and
  drop the completions of other QPs it has already consumed.
- **CQ creation that fails but reports success** (`cq_init_err`): when
  the mailbox allocation (`hgrnic_cq.c:588-590`) or `hgrnic_array_set`
  (619-624) fails, `hgrnic_init_cq` jumps to `err_out_free_mr` with `err`
  still 0. It frees the buffer, the context registration and the number
  and returns 0, so `hgrnic_create_cq` hands back a CQ with nothing
  behind it; on the `array_set` path the device keeps the context too.

Ignored firmware errors on teardown are recorded as hazards with a cfg
that reproduces each, rather than as runs: `UNMAP_ICM`
(`IcmTable_unmap.cfg`), `HW2SW_MPT` (`MrTable_hw2sw.cfg`) and `HW2SW_CQ`
(`CqLifecycle_hw2sw.cfg`, with `Hw2swFails`). So is the leak of the KAR mapping, the
driver UAR and CQ 0's buffer on remove (`HcaDevice_leak.cfg`), and
`WRITE_MTT`'s count beyond its mailbox (`MrTable_writemtt.cfg`), and a
resize that shrinks a CQ below its outstanding CQEs, whose copy then
overwrites entries (`CqRing_shrink.cfg`, `CqesInOrder`), and
`hgrnic_free_qp` going on after a failed MODIFY_QP to RESET
(`hgrnic_qp.c:908`; `QpLifecycle_reset.cfg`, `ResetFails` TRUE,
`NoCqeOutlivesQp`): the device still completes work of the QP after its
CQEs were cleaned, and the number is released with that CQE in the CQ;
and `hgrnic_alloc_qp` ignoring a failed `hgrnic_array_set`
(`hgrnic_qp.c:827`; `QpLifecycle_arrayset.cfg`, `PageAllocFails` TRUE,
`NoCompletionLost`): the QP is live but not in `qp_table.qp`, and a poll
that meets one of its CQEs returns `-EINVAL` after consuming another
QP's completion. Last, the kernel's `hgrnic_post_send` moving `sq.last`
before the checks that may reject a WR (`hgrnic_qp.c:1002`;
`WorkQueue_link.cfg`, `WqeLinksConsecutive`): the next WR goes into the
rejected WR's slot and is linked from `sq.last`, which is that slot, so
a one-WR post leaves a WQE whose link names itself. libhgrnic has the
same early `sq.last` but links only within one call, so `work_queue`
finds no such link.

## Plan

1. **Device probe, further**: QP and MPT/MTT context tables as concrete
   as the CQ one. This would compose `HcaDevice` with `QpLifecycle` and
   `MrTable` in one model.
2. **MR variants**: `hgrnic_get_dma_mr` (`mr_alloc_notrans`, no MTT).
3. **QP states SQD and SQE**: the table has their opcodes; the model's
   `ModifyOk` stops at RESET, INIT, RTR, RTS and ERR.

## Not modelled

- **Device limits and profile** (`hgrnic_dev_lim`, `hgrnic_make_profile`):
  firmware queries and pure arithmetic over device limits. Each is one
  probe step of `HcaDevice` that may fail.
- **Verbs glue** (`hgrnic_provider.c` apart from resize): translation of
  RDMA-core calls, with no shared state of its own.
- **Sysfs, module parameters and `hgrnic_register.c`.**
- **EQ** (`hgrnic_eq.c`): it only maps one page.
- **PD and UAR:** direct uses of the index allocator.
- **WQE formatting and doorbell layout:** data, not control.
- **ICM scatter-list details:** `MailboxLayout` takes `pci_map_sg` to
  return the blocks as they are. An IOMMU that merges them changes only
  the entry sizes `MAP_ICM` derives, and no data is lost. The coherent
  path (the MPT table's) aligns blocks as `alloc_pages` does, so the same
  operator stands for it.
- **The userspace library** (`libhgrnic*`) apart from its work queues
  (`WorkQueue` with `InKernel = FALSE`), its CQ resize and poller
  (`CqRing` with `kind = "user"`) and its QP create/modify/destroy with
  its QP table (`QpLifecycle` with `mode = "user"`): the AH, PD and MR
  verbs are ioctl wrappers. `hgrnic_alloc_context` (`hgrnic.c:86`)
  computes `qp_table_shift = ffs(num_qps) - 1 - 8` without checking it:
  a kernel loaded with `num_qp` below 256 gives a negative shift, an
  undefined shift in `hgrnic_find_qp`. `QpLifecycle` assumes
  `2^UTableBits <= Max`, the well-defined case.
- **A timed-out `RESIZE_CQ`:** `CqRing`'s command either succeeds or
  fails with a status. A command that times out and is executed later
  would make the device write a buffer the driver freed. This is the
  mechanism `IcmTable` shows for `MAP_ICM` (`CmdTimeouts`).
