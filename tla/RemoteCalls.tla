---------------------------- MODULE RemoteCalls ----------------------------
(* What the client library promises to the threads that make remote calls. *)
(* A call is executed at most once, and never before it began; it returns  *)
(* ok only if it was executed, failed only if it never is, refused only if *)
(* it was never sent; when a disconnect aborts it, nothing is known.       *)
EXTENDS Naturals

CONSTANTS Threads

VARIABLES
    begun,      \* the number of calls begun
    current,    \* of every thread: its last call
    result,     \* of every thread: "none" while the call is in progress
    open,       \* calls that may still be executed
    executed    \* calls executed with success

vars == <<begun, current, result, open, executed>>

Init ==
    /\ begun = 0 /\ open = {} /\ executed = {}
    /\ current = [t \in Threads |-> 0]
    /\ result = [t \in Threads |-> "ok"]

Begins(t, r) ==
    /\ result[t] # "none"
    /\ begun' = begun + 1
    /\ current' = [current EXCEPT ![t] = begun + 1]
    /\ result' = [result EXCEPT ![t] = r]
    /\ UNCHANGED executed

Begin(t) == Begins(t, "none") /\ open' = open \cup {begun + 1}

\* A call that is refused at once is never open.
Refuse(t) == Begins(t, "refused") /\ UNCHANGED open

Execute(n) ==
    /\ n \in open /\ open' = open \ {n}
    /\ executed' = executed \cup {n}
    /\ UNCHANGED <<begun, current, result>>

\* Executed without success, or lost with the connection.
Lose == open' \subseteq open /\ UNCHANGED <<begun, current, result, executed>>

Return(t) ==
    /\ result[t] = "none"
    /\ \E r \in {"ok", "failed", "refused", "unknown"} :
          /\ r = "ok" => current[t] \in executed
          /\ r = "failed" => current[t] \notin open \cup executed
          /\ r = "refused" => current[t] \in open
          /\ open' = IF r = "refused" THEN open \ {current[t]} ELSE open
          /\ result' = [result EXCEPT ![t] = r]
    /\ UNCHANGED <<begun, current, executed>>

Next ==
    \/ \E t \in Threads : Begin(t) \/ Refuse(t) \/ Return(t)
    \/ \E n \in open : Execute(n)
    \/ Lose

Spec == Init /\ [][Next]_vars
=============================================================================
