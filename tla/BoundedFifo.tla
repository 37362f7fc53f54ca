----------------------------- MODULE BoundedFifo -----------------------------
(***************************************************************************)
(* A channel of bounded length between producers and consumers: every item *)
(* is taken once, in the order in which the items were put.                *)
(***************************************************************************)
EXTENDS Naturals, Sequences

CONSTANTS Producer, Consumer,
          MaxItems,   \* the items each producer puts
          Capacity,   \* the length of the channel
          NoItem      \* what a consumer has before its first item

VARIABLES channel,    \* the items in the channel
          sent,       \* how many items a producer has put
          got         \* the item a consumer took last

fifoVars == <<channel, sent, got>>

FifoInit == 
    /\ channel = <<>>
    /\ sent = [p \in Producer |-> 0]
    /\ got = [c \in Consumer |-> NoItem]

Put(p) == 
    /\ sent[p] < MaxItems
    /\ Len(channel) < Capacity
    /\ channel' = Append(channel, <<p, sent[p]>>)
    /\ sent' = [sent EXCEPT ![p] = @ + 1]
    /\ UNCHANGED got

Take(c) == 
    /\ channel # <<>>
    /\ got' = [got EXCEPT ![c] = Head(channel)]
    /\ channel' = Tail(channel)
    /\ UNCHANGED sent

FifoNext == 
    \/ \E p \in Producer : Put(p)
    \/ \E c \in Consumer : Take(c)

FifoSpec == FifoInit /\ [][FifoNext]_fifoVars
=============================================================================
