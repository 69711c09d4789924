------------------------------ MODULE WorkQueue ------------------------------
(***************************************************************************)
(* The send and receive work queues of one QP and the CQ they complete     *)
(* into: post_send and post_receive, which write WQEs and wr_ids into the  *)
(* rings and advance `head'; the device, which runs the send WQEs a        *)
(* doorbell names and consumes posted receive WQEs, writing one CQE per    *)
(* WQE; and poll_one, which reads the wr_id of a CQE's WQE slot and        *)
(* advances `tail' by the distance from `last_cpl'.                         *)
(*                                                                          *)
(* The same protocol is implemented twice: in the kernel driver            *)
(* (hgrnic_qp.c, hgrnic_cq.c, hgrnic_wqe.h) and in the user library        *)
(* libhgrnic (qp.c, cq.c).  InKernel selects the kernel's code where the   *)
(* two differ.                                                              *)
(*                                                                          *)
(* One iteration of a post loop runs under the queue's lock and is one     *)
(* step; poll_one runs under the CQ lock and is one step.  The posting     *)
(* thread, the device and the polling thread interleave.  WQE contents     *)
(* other than the wr_id and the next unit's link, and the CQE's ring slot  *)
(* (see CqRing), are abstracted: the CQ is a FIFO of CQEs, and the device  *)
(* runs as many WQEs as a doorbell stands for rather than following links. *)
(***************************************************************************)
EXTENDS Integers, Sequences, SequencesExt

CONSTANTS
    InKernel,       \* TRUE: ib_hgrnic; FALSE: libhgrnic
    WqMax,          \* sq.max = rq.max: WQE slots, a power of two
    MaxWqesPerDb,   \* HGRNIC_MAX_WQES_PER_SEND_DB (255), scaled down
    MaxBatch,       \* longest list of WRs passed to one post call
    MaxWrs,         \* bound: WRs handed to post calls in a behaviour
    BadWrs          \* TRUE: a WR may fail the num_sge or opcode check

ASSUME /\ WqMax \in {2^k : k \in 1..4}
       /\ MaxWqesPerDb \in 1..MaxBatch
       /\ InKernel \in BOOLEAN /\ BadWrs \in BOOLEAN

Queues == {"sq", "rq"}
Idx == 0 .. WqMax - 1
NoWr == 0                 \* a wr_id slot no post has written
NoLink == -1              \* a next unit with no link (DBD clear)
WrIds == 1 .. MaxWrs

\* The checks a WR may fail in the post loops: num_sge > max_gs ("sge");
\* opcode outside hgrnic_opcode[] ("opcode", send queue only).
Faults(q) ==
    IF ~BadWrs THEN {} ELSE IF q = "sq" THEN {"sge", "opcode"} ELSE {"sge"}

VARIABLES
    wq,       \* per queue: head, tail and last_cpl of struct hgrnic_wq
    wrId,     \* per queue: the wr_id array, indexed by WQE slot
    poster,   \* per queue: the post call in progress (pc, WRs left, nreq, ind)
    nextId,   \* wr_id of the last WR handed to a post call
    sqDb,     \* send doorbells rung and not yet run by the device
    devRq,    \* receive WQEs the device has consumed
    cqes,     \* CQEs written and not yet polled, oldest first
    posted,   \* history: wr_ids of the WRs the post calls accepted
    done,     \* history: wr_ids poll_one returned
    sqLast,   \* sq.last: the slot of the WQE the next send WQE links from
    link      \* per send slot: the slot its next unit's nda names

linkVars == <<sqLast, link>>
vars == <<wq, wrId, poster, nextId, sqDb, devRq, cqes, posted, done, sqLast, link>>

\* Mutant: the overflow test with `>' for `>='.
wq_overflow_loose(w, nreq) == (w.head - w.tail) + nreq > WqMax

\* Mutant: the slot index stepped without the wrap at max.
NextIndNoWrap(ind) == ind + 1

\* hgrnic_wq_overflow / wq_overflow: the ring is full when the WQEs rung
\* and not completed, plus the nreq of this call, reach max.
wq_overflow(w, nreq) == (w.head - w.tail) + nreq >= WqMax

\* The slot after `ind', wrapping at max.
NextInd(ind) == IF ind + 1 >= WqMax THEN ind + 1 - WqMax ELSE ind + 1

\* The kernel's memset of the new WQE's next unit, before any check: the
\* slot's old link is gone.  libhgrnic writes flags and imm only.
WqeCleared(l, cur) == IF InKernel THEN [l EXCEPT ![cur] = NoLink] ELSE l

\* Mutant: the previous WQE linked to the new one for every WR, as the
\* kernel does, in libhgrnic too.
LinkPrevAlways(l, prev, cur, nreq) == [l EXCEPT ![prev] = cur]

\* The link written into prev_wqe (= sq.last) once a WR has passed its
\* checks: nda = ind, DBD set.  The kernel writes it for every WR;
\* libhgrnic only when nreq > 0, i.e. between WRs of one doorbell.
LinkPrev(l, prev, cur, nreq) ==
    IF InKernel \/ nreq > 0 THEN [l EXCEPT ![prev] = cur] ELSE l

\* The doorbell hgrnic_send_dbell / hgrnic_send_db writes: the 16-bit
\* start index taken from head, and the WQE count the device follows.
Doorbell(head, nreq) == [start |-> head % 65536, n |-> nreq]

\* Mutant: the batch doorbell's head bookkeeping done by send_dbell alone,
\* with nreq left for the doorbell at `out' to count again.
BatchHeadUncounted(head, nreq) == head

\* The head after the in-loop doorbell at MaxWqesPerDb WRs: send_dbell
\* adds nreq, and the kernel's loop adds MaxWqesPerDb once more.
BatchHead(head, nreq) ==
    IF InKernel THEN head + nreq + MaxWqesPerDb ELSE head + nreq

\* poll_one's tail update: the completion at `idx' retires every WQE after
\* last_cpl up to idx, wrapping at max.
TailAfter(w, idx) ==
    IF w.last_cpl < idx THEN w.tail + idx - w.last_cpl
    ELSE w.tail + idx + WqMax - w.last_cpl

\* The wr_id array poll_one reads for a receive completion.
RecvWrIdQueue == IF InKernel THEN "sq" ELSE "rq"

\* The WR list of a post call: k WRs with fresh wr_ids, the last of which
\* may fail a check (the loop never looks past a failing WR).
WrList(from, k, f) ==
    [i \in 1..k |-> [id |-> from + i, fault |-> IF i = k THEN f ELSE "none"]]

Idle == [pc |-> "idle", wrs |-> <<>>, nreq |-> 0, ind |-> 0]

Init ==
    /\ wq = [q \in Queues |-> [head |-> 0, tail |-> 0, last_cpl |-> WqMax - 1]]
    /\ wrId = [q \in Queues |-> [i \in Idx |-> NoWr]]
    /\ poster = [q \in Queues |-> Idle]
    /\ nextId = 0
    /\ sqDb = <<>>
    /\ devRq = 0
    /\ cqes = <<>>
    /\ posted = [q \in Queues |-> <<>>]
    /\ done = [q \in Queues |-> <<>>]
    /\ sqLast = WqMax - 1
    /\ link = [i \in Idx |-> NoLink]

\* Entry of hgrnic_post_send / hgrnic_post_receive: take the queue lock and
\* start at slot head & (max - 1).
PostStart(q) ==
    /\ poster[q].pc = "idle"
    /\ \E k \in 1..MaxBatch, f \in {"none"} \cup Faults(q) :
         /\ nextId + k <= MaxWrs
         /\ nextId' = nextId + k
         /\ poster' = [poster EXCEPT ![q] =
                          [pc |-> "loop", wrs |-> WrList(nextId, k, f),
                           nreq |-> 0, ind |-> wq[q].head % WqMax]]
    /\ UNCHANGED <<wq, wrId, sqDb, devRq, cqes, posted, done, linkVars>>

\* A post loop leaves through `goto out' with the WRs seen so far counted.
PostFail(q, nreq) ==
    /\ poster' = [poster EXCEPT ![q].wrs = <<>>, ![q].nreq = nreq]
    /\ UNCHANGED posted

\* One iteration of hgrnic_post_send's loop over the WR list: at
\* MaxWqesPerDb WRs ring the batch and restart nreq; then the overflow
\* check, the num_sge check, the wr_id write, the opcode check, and the
\* step to the next slot.
PostSendWr ==
    /\ poster.sq.pc = "loop" /\ poster.sq.wrs # <<>>
    /\ LET p == poster.sq
           wr == Head(p.wrs)
           atDb == p.nreq = MaxWqesPerDb
           w == IF atDb THEN [wq.sq EXCEPT !.head = BatchHead(@, p.nreq)]
                ELSE wq.sq
           nreq == IF atDb THEN 0 ELSE p.nreq
       IN  /\ sqDb' = IF atDb THEN Append(sqDb, Doorbell(wq.sq.head, p.nreq))
                      ELSE sqDb
           /\ wq' = [wq EXCEPT !.sq = w]
           /\ \/ /\ wq_overflow(w, nreq)
                 /\ PostFail("sq", nreq)
                 /\ UNCHANGED <<wrId, linkVars>>
              \/ /\ ~wq_overflow(w, nreq) /\ wr.fault = "sge"
                 /\ sqLast' = p.ind
                 /\ link' = WqeCleared(link, p.ind)
                 /\ PostFail("sq", nreq)
                 /\ UNCHANGED wrId
              \/ /\ ~wq_overflow(w, nreq) /\ wr.fault = "opcode"
                 /\ sqLast' = p.ind
                 /\ link' = WqeCleared(link, p.ind)
                 /\ wrId' = [wrId EXCEPT !.sq[p.ind] = wr.id]
                 /\ PostFail("sq", nreq)
              \/ /\ ~wq_overflow(w, nreq) /\ wr.fault = "none"
                 /\ sqLast' = p.ind
                 /\ link' = LinkPrev(WqeCleared(link, p.ind), sqLast, p.ind, nreq)
                 /\ wrId' = [wrId EXCEPT !.sq[p.ind] = wr.id]
                 /\ poster' = [poster EXCEPT !.sq.wrs = Tail(@),
                                   !.sq.nreq = nreq + 1, !.sq.ind = NextInd(@)]
                 /\ posted' = [posted EXCEPT !.sq = Append(@, wr.id)]
    /\ UNCHANGED <<nextId, devRq, cqes, done>>

\* Mutant: `out:' advancing head for the WRs left but losing the doorbell
\* write itself.
PostSendOutNoDoorbell ==
    /\ poster.sq.pc = "loop" /\ poster.sq.wrs = <<>>
    /\ wq' = [wq EXCEPT !.sq.head = @ + poster.sq.nreq]
    /\ poster' = [poster EXCEPT !.sq = Idle]
    /\ UNCHANGED <<wrId, nextId, sqDb, devRq, cqes, posted, done, linkVars>>

\* `out:' of hgrnic_post_send: ring the WRs not yet rung, then unlock.
PostSendOut ==
    /\ poster.sq.pc = "loop" /\ poster.sq.wrs = <<>>
    /\ LET n == poster.sq.nreq
       IN  /\ sqDb' = IF n > 0 THEN Append(sqDb, Doorbell(wq.sq.head, n)) ELSE sqDb
           /\ wq' = [wq EXCEPT !.sq.head = @ + n]
    /\ poster' = [poster EXCEPT !.sq = Idle]
    /\ UNCHANGED <<wrId, nextId, devRq, cqes, posted, done, linkVars>>

\* One iteration of hgrnic_post_receive's loop: the overflow check, the
\* num_sge check, the wr_id write and the step to the next slot.
PostRecvWr ==
    /\ poster.rq.pc = "loop" /\ poster.rq.wrs # <<>>
    /\ LET p == poster.rq
           wr == Head(p.wrs)
       IN  \/ /\ wq_overflow(wq.rq, p.nreq)
              /\ PostFail("rq", p.nreq)
              /\ UNCHANGED wrId
           \/ /\ ~wq_overflow(wq.rq, p.nreq) /\ wr.fault = "sge"
              /\ PostFail("rq", p.nreq)
              /\ UNCHANGED wrId
           \/ /\ ~wq_overflow(wq.rq, p.nreq) /\ wr.fault = "none"
              /\ wrId' = [wrId EXCEPT !.rq[p.ind] = wr.id]
              /\ poster' = [poster EXCEPT !.rq.wrs = Tail(@),
                                !.rq.nreq = @ + 1, !.rq.ind = NextInd(@)]
              /\ posted' = [posted EXCEPT !.rq = Append(@, wr.id)]
    /\ UNCHANGED <<wq, nextId, sqDb, devRq, cqes, done, linkVars>>

\* `out:' of hgrnic_post_receive: head += nreq, then unlock (no doorbell).
PostRecvOut ==
    /\ poster.rq.pc = "loop" /\ poster.rq.wrs = <<>>
    /\ wq' = [wq EXCEPT !.rq.head = @ + poster.rq.nreq]
    /\ poster' = [poster EXCEPT !.rq = Idle]
    /\ UNCHANGED <<wrId, nextId, sqDb, devRq, cqes, posted, done, linkVars>>

\* The device runs the next WQE of the oldest doorbell, at slot start mod
\* max, and writes its send CQE.
DevExecSend ==
    /\ sqDb # <<>>
    /\ LET d == Head(sqDb)
       IN  /\ cqes' = Append(cqes, [send |-> TRUE, wqe |-> d.start % WqMax])
           /\ sqDb' = IF d.n = 1 THEN Tail(sqDb)
                      ELSE [sqDb EXCEPT ![1] = [start |-> d.start + 1, n |-> d.n - 1]]
    /\ UNCHANGED <<wq, wrId, poster, nextId, devRq, posted, done, linkVars>>

\* A message arrives and the device fills the next posted receive WQE.
DevRecv ==
    /\ devRq < Len(posted.rq)
    /\ cqes' = Append(cqes, [send |-> FALSE, wqe |-> devRq % WqMax])
    /\ devRq' = devRq + 1
    /\ UNCHANGED <<wq, wrId, poster, nextId, sqDb, posted, done, linkVars>>

\* hgrnic_poll_one on a CQE of this QP: pick the queue by is_send, read the
\* wr_id at the CQE's WQE index, retire the WQEs up to it, hand the CQE
\* back (set_cqe_hw) and advance cons_index.
PollOne ==
    /\ cqes # <<>>
    /\ LET c == Head(cqes)
           q == IF c.send THEN "sq" ELSE "rq"
           ids == IF c.send THEN wrId.sq ELSE wrId[RecvWrIdQueue]
       IN  /\ wq' = [wq EXCEPT ![q].tail = TailAfter(wq[q], c.wqe), ![q].last_cpl = c.wqe]
           /\ done' = [done EXCEPT ![q] = Append(@, ids[c.wqe])]
    /\ cqes' = Tail(cqes)
    /\ UNCHANGED <<wrId, poster, nextId, sqDb, devRq, posted, linkVars>>

Next ==
    \/ \E q \in Queues : PostStart(q)
    \/ PostSendWr \/ PostSendOut
    \/ PostRecvWr \/ PostRecvOut
    \/ DevExecSend \/ DevRecv
    \/ PollOne

\* The post loops run to their end once started, the device runs every
\* doorbell it was given, and the application keeps polling.  Message
\* arrival (DevRecv) depends on the peer and is left unfair.
Fairness ==
    /\ WF_vars(PostSendWr) /\ WF_vars(PostSendOut)
    /\ WF_vars(PostRecvWr) /\ WF_vars(PostRecvOut)
    /\ WF_vars(DevExecSend) /\ WF_vars(PollOne)

Spec == Init /\ [][Next]_vars /\ Fairness

-----------------------------------------------------------------------------
TypeOK ==
    /\ wq \in [Queues -> [head : Nat, tail : Nat, last_cpl : Idx]]
    /\ wrId \in [Queues -> [Idx -> {NoWr} \cup WrIds]]
    /\ \A q \in Queues : poster[q].pc \in {"idle", "loop"}
                         /\ poster[q].nreq \in 0..MaxBatch
                         /\ poster[q].ind \in Idx
    /\ nextId \in 0..MaxWrs
    /\ devRq \in 0..MaxWrs
    /\ sqLast \in Idx
    /\ link \in [Idx -> Idx \cup {NoLink}]
    /\ \A i \in 1..Len(cqes) : cqes[i].wqe \in Idx

\* Every completion poll_one returns carries the wr_id of the oldest WR of
\* its queue not yet completed: the wr_ids returned are, in order, a prefix
\* of the WRs the post calls accepted.  This needs the slot post_send wrote
\* (ind, wrapping at max), the slot the doorbell names (head), the slot the
\* CQE names and the array poll_one reads to agree.
CompletionsMatchPosts ==
    \A q \in Queues : IsPrefix(done[q], posted[q])

\* head - tail, the count hgrnic_wq_overflow tests, is the number of WRs
\* rung and not completed: with the nreq of a post loop still running added,
\* it equals the WRs accepted and not yet returned by poll_one.  Only then
\* does the overflow test refuse exactly the WRs the ring cannot hold.
HeadTailCountsOutstanding ==
    \A q \in Queues :
        wq[q].head + poster[q].nreq - wq[q].tail = Len(posted[q]) - Len(done[q])

\* A link post_send writes into a send WQE's next unit names the slot right
\* after it.  The doorbell carries only the first WQE of a batch (its slot,
\* size and opcode); the device reaches the others through these links.
\* post_send moves sq.last to the new WQE before the num_sge and opcode
\* checks, so a rejected WR leaves sq.last on a slot never posted, and the
\* next WR, written into that same slot, may be linked from itself.
WqeLinksConsecutive == \A s \in Idx : link[s] \in {NoLink, NextInd(s)}

\* Every send WR accepted is eventually returned by poll_one, and so is
\* every receive WQE the device has filled.
AllCompletionsReported ==
    /\ \A k \in WrIds : Len(posted.sq) >= k ~> Len(done.sq) >= k
    /\ \A k \in WrIds : devRq >= k ~> Len(done.rq) >= k
=============================================================================
