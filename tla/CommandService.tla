--------------------------- MODULE CommandService ---------------------------
(* What the server promises to the clients that stay: the commands of one  *)
(* client are answered one by one in the order they were sent, each once;  *)
(* a fact is never answered; and with fairness each command is answered.   *)
(* It promises nothing to a client that leaves, or after the process ended.*)
EXTENDS Naturals, Sequences

CONSTANTS Clients, Requests, IsCommand(_)

VARIABLES present, sent, answered

vars == <<present, sent, answered>>

Init ==
    /\ present = {}
    /\ sent = [c \in Clients |-> <<>>]
    /\ answered = [c \in Clients |-> {}]

Come(c) == present' = present \cup {c} /\ UNCHANGED <<sent, answered>>

Leave == present' \subseteq present /\ UNCHANGED <<sent, answered>>

Ask(c, r) ==
    /\ c \in present
    /\ sent' = [sent EXCEPT ![c] = Append(@, r)]
    /\ UNCHANGED <<present, answered>>

Open(c) == {n \in DOMAIN sent[c] : IsCommand(sent[c][n])} \ answered[c]

Answer(c) ==
    /\ c \in present
    /\ \E n \in Open(c) :
          /\ \A k \in Open(c) : n <= k
          /\ answered' = [answered EXCEPT ![c] = @ \cup {n}]
    /\ UNCHANGED <<present, sent>>

Next == Leave \/ \E c \in Clients : Come(c) \/ Answer(c) \/ \E r \in Requests : Ask(c, r)

Spec == Init /\ [][Next]_vars

FairSpec == Spec /\ \A c \in Clients : WF_vars(Answer(c))
=============================================================================
