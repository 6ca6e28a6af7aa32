-------------------------- MODULE SyncQueueProofs --------------------------
(* Proofs about SyncQueue, for any finite set of consumers and any number  *)
(* of elements: types, the wakeups, and the steps of the fifo.             *)
EXTENDS SyncQueue, FiniteSetTheorems, TLAPS

LEMMA InitTyped == Init => TypeOK
BY QueueAssumption DEF Init, TypeOK

LEMMA StepKeepsTypes == TypeOK /\ [Next]_vars => TypeOK'
<1> SUFFICES ASSUME TypeOK, [Next]_vars PROVE TypeOK'
    OBVIOUS
<1> USE QueueAssumption DEF TypeOK
<1>1. CASE Produce
  <2>1. q' \in Seq(1 .. MaxProduced) /\ produced' \in 0 .. MaxProduced
    BY <1>1 DEF Produce
  <2>2. pc' \in [Consumers -> {"idle", "waiting", "woken", "late"}]
    BY <1>1 DEF Produce, NotifyOne, In, Goto
  <2> QED BY <1>1, <2>1, <2>2 DEF Produce
<1>a. ASSUME NEW c \in Consumers, NEW step \in {"idle", "waiting", "woken", "late"}, Goto(c, step)
      PROVE  pc' \in [Consumers -> {"idle", "waiting", "woken", "late"}]
    BY <1>a DEF Goto
<1>b. ASSUME NEW c \in Consumers, Pop(c)
      PROVE  /\ q' \in Seq(1 .. MaxProduced)
             /\ obj' \in [Consumers -> 0 .. MaxProduced]
  <2>1. Head(q) \in 1 .. MaxProduced /\ Tail(q) \in Seq(1 .. MaxProduced)
    BY <1>b DEF Pop
  <2> QED BY <1>b, <2>1 DEF Pop
<1>2. ASSUME NEW c \in Consumers, NEW isTimed \in BOOLEAN, Consume(c, isTimed) PROVE TypeOK'
  <2>1. timed' \subseteq Consumers /\ produced' = produced
    BY <1>2 DEF Consume
  <2>2. CASE Pop(c)
    BY <1>a, <1>b, <2>1, <2>2 DEF Pop
  <2>3. CASE Goto(c, "waiting") /\ UNCHANGED <<q, obj>>
    BY <1>a, <2>1, <2>3
  <2> QED BY <1>2, <2>2, <2>3 DEF Consume
<1>3. ASSUME NEW c \in Consumers, Resume(c) PROVE TypeOK'
  <2>1. timed' = timed /\ produced' = produced
    BY <1>3 DEF Resume
  <2>2. CASE Pop(c)
    BY <1>a, <1>b, <2>1, <2>2 DEF Pop
  <2>3. CASE Goto(c, "waiting") /\ UNCHANGED <<q, obj>>
    BY <1>a, <2>1, <2>3
  <2>4. CASE Goto(c, "idle") /\ obj' = [obj EXCEPT ![c] = 0] /\ UNCHANGED q
    BY <1>a, <2>1, <2>4
  <2> QED BY <1>3, <2>2, <2>3, <2>4 DEF Resume
<1>4. ASSUME NEW c \in Consumers, TimeoutExpires(c) PROVE TypeOK'
    BY <1>4 DEF TimeoutExpires, Goto
<1>5. ASSUME NEW c \in Consumers, SpuriousWakeup(c) PROVE TypeOK'
    BY <1>5 DEF SpuriousWakeup, Goto
<1>6. CASE UNCHANGED vars
    BY <1>6 DEF vars
<1> QED BY <1>1, <1>2, <1>3, <1>4, <1>5, <1>6 DEF Next

\* The queue holds elements that were produced, and every consumer is where
\* the methods of sync_queue can be.
THEOREM TypeCorrect == Spec => []TypeOK
BY InitTyped, StepKeepsTypes, PTL DEF Spec

-----------------------------------------------------------------------------
(* Wakeups.                                                                *)

\* The consumers on their way to the queue.
Coming == In("woken") \cup In("late")

LEMMA ComingFinite ==
    ASSUME TypeOK
    PROVE  IsFiniteSet(Coming) /\ Cardinality(Coming) \in Nat
<1>1. Coming \subseteq Consumers BY DEF Coming, In
<1> QED BY <1>1, QueueAssumption, FS_Subset, FS_CardinalityType

LEMMA StepKeepsWakeups == TypeOK /\ TypeOK' /\ NoLostWakeup /\ [Next]_vars => NoLostWakeup'
<1> SUFFICES ASSUME TypeOK, TypeOK', NoLostWakeup, [Next]_vars PROVE NoLostWakeup'
    OBVIOUS
<1> DEFINE W == In("waiting")
<1>a. Len(q) \in Nat /\ Len(q') \in Nat
    BY DEF TypeOK
<1>b. IsFiniteSet(Coming) /\ Cardinality(Coming) \in Nat
    BY ComingFinite
<1>c. W # {} => Len(q) <= Cardinality(Coming)
    BY DEF NoLostWakeup, Coming
<1>d. SUFFICES ASSUME W' # {} PROVE Len(q') <= Cardinality(Coming')
    BY DEF NoLostWakeup, Coming
\* A consumer that slept is on its way.
<1>e. ASSUME NEW c \in W, NEW step \in {"woken", "late"}, Goto(c, step)
      PROVE  Cardinality(Coming') = Cardinality(Coming) + 1
  <2>1. Coming' = Coming \cup {c} /\ c \notin Coming
    BY <1>e DEF Coming, In, Goto, TypeOK
  <2> QED BY <2>1, <1>b, FS_AddElement
\* One that was on its way has taken an element.
<1>f. ASSUME NEW c \in Coming, Goto(c, "idle")
      PROVE  W' = W /\ Cardinality(Coming') = Cardinality(Coming) - 1
  <2>1. Coming' = Coming \ {c} /\ W' = W
    BY <1>f DEF Coming, In, Goto, TypeOK
  <2> QED BY <2>1, <1>b, <1>f, FS_RemoveElement
<1>1. CASE Produce
  <2>1. Len(q') = Len(q) + 1
    BY <1>1 DEF Produce, TypeOK
  <2>2. W # {}
    BY <1>1, <1>d DEF Produce, NotifyOne, In
  <2>3. PICK c \in W : Goto(c, "woken")
    BY <1>1, <2>2 DEF Produce, NotifyOne
  <2>4. Cardinality(Coming') = Cardinality(Coming) + 1
    BY <2>3, <1>e
  <2> QED BY <2>1, <2>2, <2>4, <1>a, <1>b, <1>c
<1>2. ASSUME NEW c \in Consumers, NEW isTimed \in BOOLEAN, Consume(c, isTimed)
      PROVE  Len(q') <= Cardinality(Coming')
  <2>1. CASE q = <<>> /\ Goto(c, "waiting") /\ UNCHANGED <<q, obj>>
    <3>1. Len(q') = 0 BY <2>1
    <3>2. Cardinality(Coming') \in Nat
      <4>1. Coming' \subseteq Consumers BY DEF Coming, In
      <4> QED BY <4>1, QueueAssumption, FS_Subset, FS_CardinalityType
    <3> QED BY <3>1, <3>2
  <2>2. CASE Pop(c)
    <3>1. pc' = pc BY <1>2, <2>2 DEF Consume, Pop, Goto, TypeOK
    <3>2. Coming' = Coming /\ W' = W BY <3>1 DEF Coming, In
    <3>3. Len(q') = Len(q) - 1 BY <2>2 DEF Pop, TypeOK
    <3> QED BY <3>2, <3>3, <1>a, <1>b, <1>c, <1>d
  <2> QED BY <1>2, <2>1, <2>2 DEF Consume
<1>3. ASSUME NEW c \in Consumers, Resume(c) PROVE Len(q') <= Cardinality(Coming')
  <2>1. CASE q' = <<>>
    <3>1. Cardinality(Coming') \in Nat
      <4>1. Coming' \subseteq Consumers BY DEF Coming, In
      <4> QED BY <4>1, QueueAssumption, FS_Subset, FS_CardinalityType
    <3> QED BY <2>1, <3>1
  <2>2. CASE q' # <<>>
    <3>1. Pop(c) /\ c \in Coming
      BY <1>3, <2>2 DEF Resume, Coming, In
    <3>2. Len(q') = Len(q) - 1 BY <3>1 DEF Pop, TypeOK
    <3>3. W' = W /\ Cardinality(Coming') = Cardinality(Coming) - 1
      BY <3>1, <1>f DEF Pop
    <3> QED BY <3>2, <3>3, <1>a, <1>b, <1>c, <1>d
  <2> QED BY <2>1, <2>2
<1>4. ASSUME NEW c \in Consumers, TimeoutExpires(c) \/ SpuriousWakeup(c)
      PROVE  Len(q') <= Cardinality(Coming')
  <2>1. c \in W /\ q' = q /\ \E step \in {"woken", "late"} : Goto(c, step)
    BY <1>4 DEF TimeoutExpires, SpuriousWakeup, In
  <2>2. Cardinality(Coming') = Cardinality(Coming) + 1
    BY <2>1, <1>e
  <2> QED BY <2>1, <2>2, <1>a, <1>b, <1>c
<1>5. CASE UNCHANGED vars
  <2>1. q' = q /\ Coming' = Coming /\ W' = W BY <1>5 DEF vars, Coming, In
  <2> QED BY <2>1, <1>c, <1>d
<1> QED BY <1>1, <1>2, <1>3, <1>4, <1>5 DEF Next

\* While a consumer sleeps, every element in the queue has a consumer on its
\* way to it: notify_one is called often enough, whatever wakes the others.
THEOREM WakeupsKept == Spec => []NoLostWakeup
<1>1. Init => NoLostWakeup
  BY DEF Init, NoLostWakeup, In
<1> QED BY <1>1, TypeCorrect, StepKeepsWakeups, PTL DEF Spec

-----------------------------------------------------------------------------
(* The fifo.                                                               *)

LEMMA InitIsFifo == Init => Queue!Init
BY DEF Init, Queue!Init, Queue!Nothing

LEMMA StepIsFifo == TypeOK /\ [Next]_vars => [Queue!Next]_(Queue!vars)
<1> SUFFICES ASSUME TypeOK, [Next]_vars PROVE [Queue!Next]_(Queue!vars)
    OBVIOUS
<1> DEFINE Asking == {c \in Consumers : pc[c] # "idle"}
<1>a. ASSUME NEW c \in Consumers, Goto(c, "idle") PROVE Asking' = Asking \ {c}
    BY <1>a DEF Goto, TypeOK
<1>b. ASSUME NEW c \in Consumers, NEW step \in {"waiting", "woken", "late"}, Goto(c, step)
      PROVE  Asking' = Asking \cup {c}
    BY <1>b DEF Goto, TypeOK
<1>c. ASSUME NEW c \in Consumers, Pop(c) PROVE Queue!Next
  <2>1. Queue!Take(c)
    BY <1>c, <1>a DEF Pop, Queue!Take
  <2> QED BY <2>1 DEF Queue!Next
<1>1. CASE Produce
  <2>1. Asking' = Asking
    BY <1>1, <1>b DEF Produce, NotifyOne, In
  <2>2. produced + 1 \in 1 .. MaxProduced
    BY <1>1, QueueAssumption DEF Produce, TypeOK
  <2>3. Queue!Put(produced + 1)
    BY <1>1, <2>1 DEF Produce, Queue!Put
  <2> QED BY <2>2, <2>3 DEF Queue!Next
<1>2. ASSUME NEW c \in Consumers, NEW isTimed \in BOOLEAN, Consume(c, isTimed)
      PROVE  Queue!Next
  <2>1. CASE Goto(c, "waiting") /\ UNCHANGED <<q, obj>>
    <3>1. Queue!Ask(c)
      BY <1>2, <2>1, <1>b DEF Consume, Queue!Ask
    <3> QED BY <3>1 DEF Queue!Next
  <2> QED BY <1>2, <1>c, <2>1 DEF Consume
<1>3. ASSUME NEW c \in Consumers, Resume(c) PROVE [Queue!Next]_(Queue!vars)
  <2>1. CASE pc[c] = "woken" /\ Goto(c, "waiting") /\ UNCHANGED <<q, obj>>
    <3>1. Asking' = Asking BY <2>1, <1>b
    <3> QED BY <2>1, <3>1 DEF Queue!vars
  <2>2. CASE /\ pc[c] = "late" /\ q = <<>> /\ Goto(c, "idle")
             /\ obj' = [obj EXCEPT ![c] = 0] /\ UNCHANGED q
    <3>1. Queue!GiveUp(c)
      BY <2>2, <1>a DEF Queue!GiveUp, Queue!Nothing
    <3> QED BY <3>1 DEF Queue!Next
  <2> QED BY <1>3, <1>c, <2>1, <2>2 DEF Resume
<1>4. ASSUME NEW c \in Consumers, TimeoutExpires(c) \/ SpuriousWakeup(c)
      PROVE  UNCHANGED Queue!vars
  <2>1. Asking' = Asking
    BY <1>4, <1>b DEF TimeoutExpires, SpuriousWakeup
  <2> QED BY <1>4, <2>1 DEF TimeoutExpires, SpuriousWakeup, Queue!vars
<1>5. CASE UNCHANGED vars
    BY <1>5 DEF vars, Queue!vars
<1> QED BY <1>1, <1>2, <1>3, <1>4, <1>5 DEF Next

\* Every step of the queue is one of the fifo, or none: an element goes to one
\* consumer, in the order of production, and timedConsume gives up on an empty
\* queue only (IsFifo without its fairness).
THEOREM FifoSafe == Spec => Queue!Init /\ [][Queue!Next]_(Queue!vars)
BY InitIsFifo, StepIsFifo, TypeCorrect, PTL DEF Spec
=============================================================================
