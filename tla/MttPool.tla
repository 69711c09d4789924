------------------------------- MODULE MttPool -------------------------------
(***************************************************************************)
(* What the MTT segment allocator of hgrnic_mr.c promises its callers,     *)
(* without the buddy bitmaps: a pool of 2^MaxOrder segments from which a   *)
(* caller takes a block of 2^order segments aligned to its size, and to    *)
(* which it gives back the block it took.  Blocks held by different        *)
(* callers never overlap, and no segment is both held and free.            *)
(***************************************************************************)
EXTENDS Naturals

CONSTANTS
    MaxOrder,   \* buddy->max_order
    Callers     \* the holders of blocks

VARIABLES
    free,       \* the segments no caller holds
    held        \* held[c]: the block caller c holds ({} if none)

poolVars == <<free, held>>

Segs == 0 .. 2^MaxOrder - 1
Orders == 0 .. MaxOrder

\* The block of 2^o segments starting at s.
Block(s, o) == s .. s + 2^o - 1

\* Starts of the blocks of order o: the multiples of 2^o.
Starts(o) == {k * 2^o : k \in 0 .. 2^(MaxOrder - o) - 1}

\* An aligned block of order o lies wholly in the free segments.
HasFreeBlock(o) == \E s \in Starts(o) : Block(s, o) \subseteq free

PoolInit ==
    /\ free = Segs
    /\ held = [c \in Callers |-> {}]

\* A caller holding nothing takes a wholly free aligned block.
Take(c, o) ==
    /\ held[c] = {}
    /\ \E s \in Starts(o) :
          /\ Block(s, o) \subseteq free
          /\ free' = free \ Block(s, o)
          /\ held' = [held EXCEPT ![c] = Block(s, o)]

\* A caller gives its block back.
Give(c) ==
    /\ held[c] # {}
    /\ free' = free \cup held[c]
    /\ held' = [held EXCEPT ![c] = {}]

PoolNext ==
    \/ \E c \in Callers, o \in Orders : Take(c, o)
    \/ \E c \in Callers : Give(c)

PoolSpec == PoolInit /\ [][PoolNext]_poolVars
=============================================================================
