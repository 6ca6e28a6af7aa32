-------------------------------- MODULE Fifo --------------------------------
(* What a queue shared by threads promises: items are taken in the order   *)
(* they were put, each by one taker; a taker gives up only when there is   *)
(* nothing; and with fairness no item stays while somebody asks for one.   *)
EXTENDS Naturals, Sequences

CONSTANTS Takers, Items

VARIABLES items, asking, last

vars == <<items, asking, last>>

Nothing == 0   \* not an item

Init == items = <<>> /\ asking = {} /\ last = [t \in Takers |-> Nothing]

Put(i) == items' = Append(items, i) /\ UNCHANGED <<asking, last>>

Ask(t) ==
    /\ t \notin asking /\ asking' = asking \cup {t}
    /\ UNCHANGED <<items, last>>

Take(t) ==
    /\ items # <<>> /\ items' = Tail(items)
    /\ last' = [last EXCEPT ![t] = Head(items)]
    /\ asking' = asking \ {t}

GiveUp(t) ==
    /\ t \in asking /\ items = <<>>
    /\ asking' = asking \ {t} /\ last' = [last EXCEPT ![t] = Nothing]
    /\ UNCHANGED items

Next == (\E i \in Items : Put(i)) \/ \E t \in Takers : Ask(t) \/ Take(t) \/ GiveUp(t)

FairSpec == Init /\ [][Next]_vars /\ WF_vars(\E t \in asking : Take(t))
=============================================================================
