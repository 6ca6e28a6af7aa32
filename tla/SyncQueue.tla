----------------------------- MODULE SyncQueue -----------------------------
(***************************************************************************)
(* sync_queue (src/clipsserver/src/sync_queue.h): the queue between the    *)
(* sessions and the interpreter.  Every method holds the mutex from its    *)
(* first line to its return, but for the wait on the condition variable:   *)
(* so a method is one step, or the steps between its waits.  A thread that *)
(* was woken takes the mutex some time later, when another may have been   *)
(* there before it.  produce() wakes one thread of those that wait.        *)
(***************************************************************************)
EXTENDS Naturals, Sequences, FiniteSets

CONSTANTS
    Consumers,    \* threads in consume() or timedConsume()
    MaxProduced   \* bound: the elements produced

ASSUME QueueAssumption == IsFiniteSet(Consumers) /\ MaxProduced \in Nat

VARIABLES
    q,            \* _q: the ordinals of the elements
    pc,           \* of every consumer: "idle", "waiting" on _cv, "woken" by it
                  \* or "late": woken by its timeout
    timed,        \* the consumers that are in timedConsume()
    obj,          \* of every consumer: what its last call returned, 0: false
    produced      \* counter

vars == <<q, pc, timed, obj, produced>>

TypeOK ==
    /\ q \in Seq(1 .. MaxProduced)
    /\ pc \in [Consumers -> {"idle", "waiting", "woken", "late"}]
    /\ timed \subseteq Consumers
    /\ obj \in [Consumers -> 0 .. MaxProduced]
    /\ produced \in 0 .. MaxProduced

Init ==
    /\ q = <<>> /\ timed = {} /\ produced = 0
    /\ pc = [c \in Consumers |-> "idle"]
    /\ obj = [c \in Consumers |-> 0]

In(step) == {c \in Consumers : pc[c] = step}
Goto(c, step) == pc' = [pc EXCEPT ![c] = step]

NotifyOne == IF In("waiting") = {} THEN UNCHANGED pc ELSE \E c \in In("waiting") : Goto(c, "woken")

\* (mutant) only the element that ends an empty queue is announced
Produce_NotifiesWhenEmpty ==
    /\ produced < MaxProduced
    /\ produced' = produced + 1 /\ q' = Append(q, produced + 1)
    /\ IF q = <<>> THEN NotifyOne ELSE UNCHANGED pc
    /\ UNCHANGED <<timed, obj>>

\* produce, and timedProduce when it gets the mutex in time (when it does not,
\* it returns false and nothing has changed).
Produce ==
    /\ produced < MaxProduced
    /\ produced' = produced + 1 /\ q' = Append(q, produced + 1)
    /\ NotifyOne
    /\ UNCHANGED <<timed, obj>>

Pop(c) ==
    /\ q # <<>>
    /\ obj' = [obj EXCEPT ![c] = Head(q)] /\ q' = Tail(q)
    /\ Goto(c, "idle")

\* consume or timedConsume is called: the front is popped, or the thread waits.
Consume(c, isTimed) ==
    /\ pc[c] = "idle"
    /\ timed' = IF isTimed THEN timed \cup {c} ELSE timed \ {c}
    /\ \/ Pop(c)
       \/ q = <<>> /\ Goto(c, "waiting") /\ UNCHANGED <<q, obj>>
    /\ UNCHANGED produced

\* (mutant) the queue is not looked at again after the timeout
Resume_LateGivesUp(c) ==
    /\ \/ pc[c] = "woken" /\ Pop(c)
       \/ pc[c] = "woken" /\ q = <<>> /\ Goto(c, "waiting") /\ UNCHANGED <<q, obj>>
       \/ /\ pc[c] = "late" /\ Goto(c, "idle")
          /\ obj' = [obj EXCEPT ![c] = 0] /\ UNCHANGED q
    /\ UNCHANGED <<timed, produced>>

\* (mutant) "if" where the code has "while": front() of an empty queue
Resume_IfNotWhile(c) ==
    /\ \/ pc[c] \in {"woken", "late"} /\ Pop(c)
       \/ /\ pc[c] \in {"woken", "late"} /\ q = <<>> /\ Goto(c, "idle")
          /\ obj' = [obj EXCEPT ![c] = MaxProduced + 1] /\ UNCHANGED q
    /\ UNCHANGED <<timed, produced>>

\* The woken thread has the mutex: it tests the queue, whatever woke it.
Resume(c) ==
    /\ \/ pc[c] \in {"woken", "late"} /\ Pop(c)
       \/ pc[c] = "woken" /\ q = <<>> /\ Goto(c, "waiting") /\ UNCHANGED <<q, obj>>
       \/ /\ pc[c] = "late" /\ q = <<>> /\ Goto(c, "idle")
          /\ obj' = [obj EXCEPT ![c] = 0] /\ UNCHANGED q
    /\ UNCHANGED <<timed, produced>>

TimeoutExpires(c) ==
    /\ pc[c] = "waiting" /\ c \in timed
    /\ Goto(c, "late")
    /\ UNCHANGED <<q, timed, obj, produced>>

SpuriousWakeup(c) ==
    /\ pc[c] = "waiting"
    /\ Goto(c, "woken")
    /\ UNCHANGED <<q, timed, obj, produced>>

Next ==
    \/ Produce
    \/ \E c \in Consumers :
          \/ Resume(c) \/ TimeoutExpires(c) \/ SpuriousWakeup(c)
          \/ \E isTimed \in BOOLEAN : Consume(c, isTimed)

Spec == Init /\ [][Next]_vars

\* A thread that waits for the mutex gets it.
FairSpec == Spec /\ \A c \in Consumers : WF_vars(Resume(c))

-----------------------------------------------------------------------------
\* No wakeup is lost: while a consumer sleeps, every element in the queue has
\* a consumer of its own on its way to it, also when a newcomer was faster,
\* or when a timeout and a notification come together (produce's notify_one
\* against the loop in consume and the predicate of wait_for).
NoLostWakeup ==
    In("waiting") # {} => Len(q) <= Cardinality(In("woken") \cup In("late"))

Queue == INSTANCE Fifo WITH
    Takers <- Consumers,
    Items  <- 1 .. MaxProduced,
    items  <- q,
    asking <- {c \in Consumers : pc[c] # "idle"},
    last   <- obj

\* The queue is a fifo: an element goes to one consumer, in the order of
\* production; timedConsume returns false only when nothing is there; and no
\* element stays while a consumer waits.
IsFifo == Queue!FairSpec
=============================================================================
