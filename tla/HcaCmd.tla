------------------------------- MODULE HcaCmd -------------------------------
(***************************************************************************)
(* The polled command interface of hgrnic_cmd.c: hgrnic_cmd_poll,           *)
(* hgrnic_cmd_post, hgrnic_cmd_post_hcr, go_bit and hgrnic_status_to_errno, *)
(* together with the device side of the command register (HCR).            *)
(*                                                                          *)
(* A thread issues a command in two steps: CmdIssue is down(poll_sem) and   *)
(* the post (hcr_mutex is taken only inside poll_sem, so it adds no         *)
(* exclusion of its own); CmdCollect is the polling loop, the status read   *)
(* and up(poll_sem).  The device latches a command when the go bit rises    *)
(* and completes it in FwExec.  The HCR status word is modelled by the set  *)
(* of its bits among GoBit (what the post sets, line 146) and PolledBit     *)
(* (what go_bit() tests, line 118), plus the status byte (bits 24-31).      *)
(*                                                                          *)
(* Modules that use the interface conjoin their own effect on the device    *)
(* state to FwExec and keep their own variables unchanged.                  *)
(***************************************************************************)
EXTENDS Integers, FiniteSets, TLC

CONSTANTS
    Threads,         \* kernel threads that issue commands
    NoThread,        \* model value: poll_sem is free
    FwStatuses,      \* status bytes the device may complete a command with
    MirrorsGo,       \* TRUE: the device keeps PolledBit set while it is busy
    CmdTimeouts      \* TRUE: the poll loop's time limit may expire

ASSUME /\ FwStatuses \subseteq 0 .. 255 /\ 0 \in FwStatuses
       /\ MirrorsGo \in BOOLEAN /\ CmdTimeouts \in BOOLEAN

GoBit == 23                              \* HCR_GO_BIT
PolledBit == 15                          \* the bit swab32(1 << HCR_GO_BIT) selects
NoCmd == [thr |-> NoThread]
NoStatus == -1

\* Linux errno values returned (negated) by the command layer.
EPERM == 1
EIO == 5
ENXIO == 6
EBADF == 9
EAGAIN == 11
ENOMEM == 12
EFAULT == 14
EBUSY == 16
EINVAL == 22
EBADMSG == 74
Errnos == {EPERM, EIO, ENXIO, EBADF, EAGAIN, ENOMEM, EFAULT, EBUSY, EINVAL, EBADMSG}

VARIABLES
    poll_sem,     \* holder of dev->cmd.poll_sem (a binary semaphore)
    hcrBits,      \* bits of the HCR status word among {GoBit, PolledBit}
    hcrStatus,    \* status byte of the HCR status word
    fwCmd,        \* command the device has latched and is executing
    cmdPc,        \* per thread: "idle", "poll" (in the loop) or "ret"
    cmdRet,       \* per thread: value hgrnic_cmd_poll returned
    fwDoneFor     \* per thread: status the device completed its last post with

cmdVars == <<poll_sem, hcrBits, hcrStatus, fwCmd, cmdPc, cmdRet, fwDoneFor>>

\* go_bit() (lines 115-119).
go_bit == PolledBit \in hcrBits

\* hgrnic_status_to_errno (lines 170-198): the translation table, with a
\* status outside it or with no entry giving -EINVAL.
TransTable ==
    (1 :> -EIO) @@ (2 :> -EPERM) @@ (3 :> -EINVAL) @@ (4 :> -ENXIO)
    @@ (5 :> -EBADF) @@ (6 :> -EBUSY) @@ (7 :> -ENOMEM) @@ (8 :> -ENOMEM)
    @@ (9 :> -EBADF) @@ (10 :> -EBADF) @@ (11 :> -EFAULT) @@ (16 :> -EINVAL)
    @@ (32 :> -EFAULT) @@ (33 :> -EBUSY) @@ (34 :> -EAGAIN) @@ (48 :> -EBADMSG)
    @@ (64 :> -ENOMEM)

\* Mutant: the table lookup without the test for an empty entry, so a
\* status with no entry reads as 0.
StatusToErrnoNoHoleCheck(status) ==
    IF status \in DOMAIN TransTable THEN TransTable[status]
    ELSE IF status < 65 THEN 0 ELSE -EINVAL

\* Mutant: the table holding positive errno values.
StatusToErrnoPositive(status) ==
    IF status \in DOMAIN TransTable THEN -TransTable[status] ELSE EINVAL

hgrnic_status_to_errno(status) ==
    IF status \in DOMAIN TransTable THEN TransTable[status] ELSE -EINVAL

\* Lines 237-242: a non-zero status byte is translated, zero is success.
StatusResult(status) == IF status = 0 THEN 0 ELSE hgrnic_status_to_errno(status)

\* The word the device shows after the post writes go|opmod|op (line 146):
\* the go bit, and the polled bit when the device mirrors its busy flag
\* into it (the opcode modifiers used, CXT_REGION and TPT_REGION, leave
\* bit 15 clear).
PostedBits == IF MirrorsGo THEN {GoBit, PolledBit} ELSE {GoBit}

CmdInit ==
    /\ poll_sem = NoThread
    /\ hcrBits = {}
    /\ hcrStatus = 0
    /\ fwCmd = NoCmd
    /\ cmdPc = [t \in Threads |-> "idle"]
    /\ cmdRet = [t \in Threads |-> 0]
    /\ fwDoneFor = [t \in Threads |-> NoStatus]

\* hgrnic_cmd_poll lines 209-214 with hgrnic_cmd_post and
\* hgrnic_cmd_post_hcr (lines 122-167): down(poll_sem), then the post.  A
\* go bit still seen set fails the post with -EAGAIN and releases poll_sem
\* (goto out).  Otherwise the words are written and the go bit raised; the
\* device latches the command only if it is not still busy with one.
CmdIssue(t, cmd) ==
    /\ cmdPc[t] = "idle"
    /\ poll_sem = NoThread
    /\ IF go_bit
       THEN /\ cmdPc' = [cmdPc EXCEPT ![t] = "ret"]
            /\ cmdRet' = [cmdRet EXCEPT ![t] = -EAGAIN]
            /\ UNCHANGED <<poll_sem, hcrBits, hcrStatus, fwCmd, fwDoneFor>>
       ELSE /\ poll_sem' = t
            /\ hcrBits' = hcrBits \cup PostedBits
            /\ hcrStatus' = 0
            /\ fwCmd' = IF GoBit \in hcrBits THEN fwCmd ELSE cmd
            /\ cmdPc' = [cmdPc EXCEPT ![t] = "poll"]
            /\ fwDoneFor' = [fwDoneFor EXCEPT ![t] = NoStatus]
            /\ UNCHANGED cmdRet

\* hgrnic_cmd_poll lines 216-247: the loop ends when go_bit() reads clear
\* or, while it is still set, when the time limit expires (-EBUSY); then the
\* status byte is read and translated, and poll_sem released.
CmdCollect(t) ==
    /\ cmdPc[t] = "poll"
    /\ \/ /\ ~go_bit
          /\ cmdRet' = [cmdRet EXCEPT ![t] = StatusResult(hcrStatus)]
       \/ /\ go_bit /\ CmdTimeouts
          /\ cmdRet' = [cmdRet EXCEPT ![t] = -EBUSY]
    /\ poll_sem' = NoThread
    /\ cmdPc' = [cmdPc EXCEPT ![t] = "ret"]
    /\ UNCHANGED <<hcrBits, hcrStatus, fwCmd, fwDoneFor>>

\* The caller takes the returned value; it appears in the caller's action,
\* and the interface keeps no copy of it.
CmdTake(t) ==
    /\ cmdPc[t] = "ret"
    /\ cmdPc' = [cmdPc EXCEPT ![t] = "idle"]
    /\ cmdRet' = [cmdRet EXCEPT ![t] = 0]
    /\ UNCHANGED <<poll_sem, hcrBits, hcrStatus, fwCmd, fwDoneFor>>

\* The device finishes the latched command with `status': it writes the
\* status byte and clears the word's busy bits.
FwExec(status) ==
    /\ fwCmd # NoCmd
    /\ hcrBits' = {}
    /\ hcrStatus' = status
    /\ fwDoneFor' = [fwDoneFor EXCEPT ![fwCmd.thr] = status]
    /\ fwCmd' = NoCmd
    /\ UNCHANGED <<poll_sem, cmdPc, cmdRet>>

\* The interface on its own: every thread issues commands in a loop.
CmdNext ==
    \/ \E t \in Threads : CmdIssue(t, [thr |-> t])
    \/ \E t \in Threads : CmdCollect(t)
    \/ \E t \in Threads : CmdTake(t)
    \/ \E s \in FwStatuses : FwExec(s)

CmdSpec == CmdInit /\ [][CmdNext]_cmdVars

CmdTypeOK ==
    /\ poll_sem \in Threads \cup {NoThread}
    /\ hcrBits \subseteq {GoBit, PolledBit}
    /\ hcrStatus \in FwStatuses
    /\ cmdPc \in [Threads -> {"idle", "poll", "ret"}]
    /\ cmdRet \in [Threads -> {0} \cup {-e : e \in Errnos}]
    /\ fwDoneFor \in [Threads -> FwStatuses \cup {NoStatus}]

\* A command reported successful (0) by hgrnic_cmd_poll was executed by the
\* device, and with status OK: the poll loop waits for the device, and no
\* post overwrites a command the device is still running.
CmdOkOnlyIfExecuted ==
    \A t \in Threads :
        cmdPc[t] = "ret" /\ cmdRet[t] = 0 => fwDoneFor[t] = 0
=============================================================================
