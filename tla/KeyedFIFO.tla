------------------------------- MODULE KeyedFIFO -------------------------------
(***************************************************************************)
(* What the key queue promises its users: the items of a partition key are *)
(* processed one at a time and in the order in which they were accepted,   *)
(* and an accepted item stays until it is taken for processing.            *)
(***************************************************************************)
EXTENDS Sequences

CONSTANTS
    Key,    \* partition keys
    Item,   \* submitted items
    KeyOf,  \* [Item -> Key]
    NoItem  \* nothing is being processed

VARIABLES
    fifo,  \* [Key -> Seq(Item)]: accepted and not yet taken
    busy   \* [Key -> Item \cup {NoItem}]: being processed

fifoVars == <<fifo, busy>>

FIFOInit ==
    /\ fifo = [k \in Key |-> <<>>]
    /\ busy = [k \in Key |-> NoItem]

Accept(i) ==
    /\ fifo' = [fifo EXCEPT ![KeyOf[i]] = Append(@, i)]
    /\ UNCHANGED busy

Take(k) ==
    /\ busy[k] = NoItem
    /\ fifo[k] # <<>>
    /\ busy' = [busy EXCEPT ![k] = Head(fifo[k])]
    /\ fifo' = [fifo EXCEPT ![k] = Tail(@)]

Complete(k) ==
    /\ busy[k] # NoItem
    /\ busy' = [busy EXCEPT ![k] = NoItem]
    /\ UNCHANGED fifo

FIFONext ==
    \/ \E i \in Item : Accept(i)
    \/ \E k \in Key : Take(k) \/ Complete(k)

FIFOSpec == FIFOInit /\ [][FIFONext]_fifoVars
=============================================================================
