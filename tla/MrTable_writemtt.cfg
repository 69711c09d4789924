\* __hgrnic_write_mtt sends WRITE_MTT with the whole remaining list_len,
\* more entries than its mailbox holds when hgrnic_reg_user_mr passes a
\* full chunk of write_mtt_size. The MR state machine is as in MrTable_hw2sw.
CONSTANTS
    Threads = {t1, t2}
    NoThread = NoThread
    FwStatuses = {0, 12}
    MirrorsGo = TRUE
    CmdTimeouts = FALSE
    MaxOrder = 1
    SegsPerChunk = 1
    Sizes = {1, 2}
    NumMpts = 1
    MptMask = 1
    IcmFails = FALSE
    AllocFailures = FALSE
INIT MrInit
NEXT MrNext
SYMMETRY MrSymmetry
INVARIANT WriteMttCountFitsMailbox
