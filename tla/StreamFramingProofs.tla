------------------------ MODULE StreamFramingProofs ------------------------
(* Theorems about the two reading loops, for any messages of three bytes   *)
(* or more, any number of them and any cut of the stream.                  *)
EXTENDS StreamFraming, Integers, TLAPS

(* The messages follow each other, of three bytes or more each.  Stated    *)
(* for every two of them, so that no induction over the sequence is needed *)
(* to compare two that are not neighbours.                                 *)
Spaced ==
    /\ \A i \in 1 .. Len(ends) : ends[i] >= 3
    /\ \A i, j \in 1 .. Len(ends) : i < j => ends[i] + 3 <= ends[j]

(* While it reads, the receiver has moved one or two bytes at most since   *)
(* its handler looked at the buffer, and the handler left in it less than  *)
(* the next message, or nothing at all.                                    *)
Seen == taken - got

Waiting ==
    phase = "reading" =>
        /\ got < AtLeast
        /\ consumed <= Seen
        /\ inStep => \/ Seen = consumed
                     \/ delivered < Len(ends) /\ Seen < ends[delivered + 1]

Inv == TypeOK /\ Aligned /\ Spaced /\ Waiting

-----------------------------------------------------------------------------
\* A step of the handler that finds two bytes or more in step has a next
\* message in front of it.
LEMMA NextExists ==
    ASSUME Inv, inStep, buffered >= HeaderSize
    PROVE  delivered + 1 \in 1 .. Len(ends)
<1>1. delivered \in 0 .. Len(ends) /\ consumed = End(delivered)
  BY DEF Inv, TypeOK, Aligned
<1>2. Len(ends) \in Nat
  BY DEF Inv, TypeOK
<1>3. CASE delivered = Len(ends)
  <2>1. consumed = Written
    BY <1>1, <1>3 DEF Written
  <2>2. Written \in Nat
    BY <1>2, <1>3, <1>1 DEF Written, End, Inv, TypeOK
  <2> QED
    BY <2>1, <2>2 DEF Inv, TypeOK, buffered, HeaderSize
<1> QED
  BY <1>1, <1>2, <1>3

\* The next message ends three bytes or more after what was taken.
LEMMA NextIsLonger ==
    ASSUME Inv, inStep, delivered + 1 \in 1 .. Len(ends)
    PROVE  /\ ends[delivered + 1] \in Nat
           /\ consumed + 3 <= ends[delivered + 1]
<1>1. consumed = End(delivered) /\ delivered \in Nat
  BY DEF Inv, Aligned, TypeOK
<1>2. ends[delivered + 1] \in Nat
  BY DEF Inv, TypeOK
<1>3. CASE delivered = 0
  BY <1>1, <1>2, <1>3 DEF End, Inv, Spaced
<1>4. CASE delivered # 0
  <2>1. delivered \in 1 .. Len(ends) /\ delivered < delivered + 1
    BY <1>1, <1>4 DEF Inv, TypeOK
  <2> QED
    BY <1>1, <1>2, <1>4, <2>1 DEF End, Inv, Spaced
<1> QED
  BY <1>1, <1>3, <1>4

-----------------------------------------------------------------------------
(* The steps, one lemma each.                                              *)

\* A message more: the ends already there do not move.
LEMMA SendSafe ==
    ASSUME Inv, NEW n \in Sizes, Send(n)
    PROVE  Inv'
<1>1. n \in Nat /\ n >= 3
  BY FramingAssumption
<1>2. /\ ends \in Seq(Nat) /\ Len(ends) \in Nat
      /\ Written \in Nat
  BY DEF Inv, TypeOK, Written, End
<1>3. /\ ends' \in Seq(Nat) /\ Len(ends') = Len(ends) + 1
      /\ ends'[Len(ends) + 1] = Written + n
      /\ \A i \in 1 .. Len(ends) : ends'[i] = ends[i]
  BY <1>1, <1>2 DEF Send
<1>4. Written' = Written + n
  BY <1>2, <1>3 DEF Written, End
<1>5. TypeOK'
  BY <1>1, <1>2, <1>3, <1>4 DEF Send, Inv, TypeOK
<1>6. End(delivered)' = End(delivered)
  BY <1>3 DEF Send, End, Inv, TypeOK
<1>7. Aligned'
  BY <1>6 DEF Send, Inv, Aligned
<1>8. \A i \in 1 .. Len(ends) : ends[i] <= Written
  <2> SUFFICES ASSUME NEW i \in 1 .. Len(ends) PROVE ends[i] <= Written
    OBVIOUS
  <2>1. Written = ends[Len(ends)] /\ Len(ends) \in 1 .. Len(ends)
    BY <1>2 DEF Written, End
  <2>2. i = Len(ends) \/ ends[i] + 3 <= ends[Len(ends)]
    BY <1>2, <2>1 DEF Inv, Spaced
  <2>3. ends[i] \in Nat
    BY <1>2
  <2> QED
    BY <1>2, <2>1, <2>2, <2>3
<1>9. Spaced'
  <2>1. \A i \in 1 .. Len(ends') : ends'[i] >= 3
    <3> SUFFICES ASSUME NEW i \in 1 .. Len(ends') PROVE ends'[i] >= 3
      OBVIOUS
    <3>1. CASE i = Len(ends) + 1
      BY <1>1, <1>2, <1>3, <3>1
    <3>2. CASE i \in 1 .. Len(ends)
      BY <1>3, <3>2 DEF Inv, Spaced
    <3> QED
      BY <1>2, <1>3, <3>1, <3>2
  <2>2. ASSUME NEW i \in 1 .. Len(ends'), NEW j \in 1 .. Len(ends'), i < j
        PROVE  ends'[i] + 3 <= ends'[j]
    <3>1. i \in 1 .. Len(ends) /\ ends'[i] = ends[i] /\ ends[i] \in Nat
      BY <1>2, <1>3, <2>2
    <3>2. CASE j = Len(ends) + 1
      BY <1>1, <1>2, <1>3, <1>8, <3>1, <3>2
    <3>3. CASE j \in 1 .. Len(ends)
      BY <1>3, <2>2, <3>1, <3>3 DEF Inv, Spaced
    <3> QED
      BY <1>2, <1>3, <3>2, <3>3
  <2> QED
    BY <2>1, <2>2 DEF Spaced
<1>10. Waiting'
  <2>1. delivered < Len(ends) =>
          /\ delivered' < Len(ends')
          /\ ends'[delivered' + 1] = ends[delivered + 1]
    BY <1>2, <1>3 DEF Send, Inv, TypeOK
  <2> QED
    BY <2>1 DEF Send, Inv, Waiting, Seen
<1> QED
  BY <1>5, <1>7, <1>9, <1>10 DEF Inv

\* Bytes that arrive change nothing of what was taken.
LEMMA ArriveSafe ==
    ASSUME Inv, NEW k \in Nat, Arrive(k)
    PROVE  Inv'
<1>1. Written \in Nat /\ Written' = Written /\ End(delivered)' = End(delivered)
  BY DEF Arrive, Inv, TypeOK, Written, End
<1>2. TypeOK'
  BY <1>1 DEF Arrive, Inv, TypeOK
<1>3. Aligned' /\ Spaced' /\ Waiting'
  BY <1>1 DEF Arrive, Inv, Aligned, Spaced, Waiting, Seen
<1> QED
  BY <1>2, <1>3 DEF Inv

\* A read that goes on: what the handler saw of the buffer is what it was.
LEMMA ReadSomeSafe ==
    ASSUME Inv, NEW k \in Nat, ReadSome(k)
    PROVE  Inv'
<1>1. Written \in Nat /\ Written' = Written /\ End(delivered)' = End(delivered)
  BY DEF ReadSome, Inv, TypeOK, Written, End
<1>2. TypeOK'
  BY <1>1 DEF ReadSome, Inv, TypeOK
<1>3. Seen' = Seen
  BY DEF ReadSome, Seen, Inv, TypeOK
<1>4. Waiting'
  BY <1>2, <1>3 DEF ReadSome, Inv, Waiting, TypeOK, AtLeast
<1>5. Aligned' /\ Spaced'
  BY <1>1 DEF ReadSome, Inv, Aligned, Spaced
<1> QED
  BY <1>2, <1>4, <1>5 DEF Inv

\* An incomplete message stays in the buffer, shorter than it will be.
LEMMA IncompleteSafe ==
    ASSUME Inv, Incomplete
    PROVE  Inv'
<1>1. Written' = Written /\ End(delivered)' = End(delivered)
  BY DEF Incomplete, Written, End
<1>2. TypeOK'
  BY <1>1 DEF Incomplete, ReadAgain, Inv, TypeOK
<1>3. delivered + 1 \in 1 .. Len(ends)
  BY NextExists DEF Incomplete
<1>4. ends[delivered + 1] \in Nat
  BY <1>3, NextIsLonger DEF Incomplete
<1>5. Waiting'
  BY <1>3, <1>4 DEF Incomplete, ReadAgain, Inv, TypeOK, Waiting, Seen, AtLeast,
                    buffered, NextSize
<1>6. Aligned' /\ Spaced'
  BY <1>1 DEF Incomplete, Inv, Aligned, Spaced
<1> QED
  BY <1>2, <1>5, <1>6 DEF Inv

\* A whole message leaves the buffer at its own end.
LEMMA TakeMessageSafe ==
    ASSUME Inv, TakeMessage
    PROVE  Inv'
<1>1. delivered + 1 \in 1 .. Len(ends) /\ Len(ends) \in Nat
  BY NextExists DEF TakeMessage, Inv, TypeOK
<1>2. ends[delivered + 1] \in Nat /\ consumed + 3 <= ends[delivered + 1]
  BY <1>1, NextIsLonger DEF TakeMessage
<1>3. consumed' = ends[delivered + 1] /\ consumed' <= taken
  BY <1>2 DEF TakeMessage, NextSize, buffered, Inv, TypeOK
<1>4. Written' = Written
  BY DEF TakeMessage, Written, End
<1>5. /\ phase' \in {"reading", "handling"} /\ got' \in 0 .. taken
      /\ phase' = "reading" => got' = 0 /\ consumed' = taken
  BY <1>2, <1>3 DEF TakeMessage, Handling, Repeat, ReadAgain, Inv, TypeOK
<1>6. TypeOK'
  BY <1>1, <1>2, <1>3, <1>4, <1>5 DEF TakeMessage, Inv, TypeOK
<1>7. consumed' = End(delivered)'
  BY <1>1, <1>3 DEF TakeMessage, End, Inv, TypeOK
<1>8. Aligned'
  BY <1>7 DEF TakeMessage, Inv, Aligned
<1>9. Spaced'
  BY DEF TakeMessage, Inv, Spaced
<1>10. Waiting'
  BY <1>3, <1>5, <1>6 DEF TakeMessage, Waiting, Seen, AtLeast, Inv, TypeOK
<1> QED
  BY <1>6, <1>8, <1>9, <1>10 DEF Inv

\* Once out of step only the counters have to stay in their bounds.
LEMMA OutOfStepSafe ==
    ASSUME Inv, LoseByte \/ ClientGarbled \/ SessionGarbled
    PROVE  Inv'
<1>1. Written' = Written /\ ends' = ends /\ arrived' = arrived /\ taken' = taken
        /\ delivered' = delivered /\ receiver' = receiver
  BY DEF LoseByte, ClientGarbled, SessionGarbled, Written, End
<1>2. ~inStep' /\ inStep' \in BOOLEAN
  <2>1. CASE LoseByte
    BY <2>1, Zenon DEF LoseByte
  <2>2. CASE ClientGarbled \/ SessionGarbled
    <3>1. ~inStep
      BY <2>2, Zenon DEF ClientGarbled, SessionGarbled
    <3>2. inStep' = inStep
      BY <2>2 DEF ClientGarbled, SessionGarbled
    <3>3. inStep \in BOOLEAN
      BY DEF Inv, TypeOK
    <3> QED
      BY <3>1, <3>2, <3>3, Zenon
  <2> QED
    BY <2>1, <2>2
<1>3. bogus' \in BOOLEAN
  BY Zenon DEF LoseByte, ClientGarbled, SessionGarbled, Inv, TypeOK
<1>4. phase' \in {"reading", "handling"} /\ (phase' = "reading" => got' = 0)
  BY DEF LoseByte, ClientGarbled, SessionGarbled, Handling, Repeat, ReadAgain, Inv, TypeOK
<1>5. got' \in 0 .. taken
  <2>1. got' = 0 \/ got' = got
    BY DEF LoseByte, ClientGarbled, SessionGarbled, Repeat, ReadAgain
  <2> QED
    BY <2>1 DEF Inv, TypeOK
<1>6. consumed' \in 0 .. taken
  <2>1. CASE LoseByte
    BY <2>1 DEF LoseByte, buffered, Inv, TypeOK
  <2>2. CASE ClientGarbled
    BY <2>2 DEF ClientGarbled, Inv, TypeOK
  <2>3. CASE SessionGarbled
    BY <2>3 DEF SessionGarbled, buffered, HeaderSize, Inv, TypeOK
  <2> QED
    BY <2>1, <2>2, <2>3
<1>7. TypeOK'
  BY <1>1, <1>2, <1>3, <1>4, <1>5, <1>6 DEF Inv, TypeOK
<1>8. Aligned' /\ Spaced'
  BY <1>1, <1>2 DEF Inv, Aligned, Spaced
<1>9. Waiting'
  BY <1>1, <1>2, <1>4, <1>6 DEF Waiting, Seen, AtLeast, Inv, TypeOK
<1> QED
  BY <1>7, <1>8, <1>9 DEF Inv

-----------------------------------------------------------------------------
\* The invariant holds at first.
LEMMA InitSafe == Init => Inv
<1> SUFFICES ASSUME Init PROVE Inv
  OBVIOUS
<1>1. ends \in Seq(Nat) /\ Len(ends) = 0
  BY DEF Init
<1>2. End(0) = 0 /\ Written = 0
  BY <1>1 DEF Written, End
<1>3. TypeOK
  <2>1. /\ 0 \in 0 .. 0 /\ 0 \in 0 .. Len(ends)
        /\ arrived = 0 /\ taken = 0 /\ consumed = 0 /\ got = 0 /\ delivered = 0
        /\ phase = "reading"
    BY <1>1 DEF Init
  <2>2. inStep \in BOOLEAN /\ bogus \in BOOLEAN /\ receiver \in Receivers
    BY Zenon DEF Init
  <2> QED
    BY <1>1, <1>2, <2>1, <2>2 DEF TypeOK
<1>4. Aligned
  <2>1. consumed = End(delivered)
    BY <1>2 DEF Init
  <2> QED
    BY <2>1, Zenon DEF Init, Aligned
<1>5. Spaced
  BY <1>1 DEF Spaced
<1>6. Waiting
  BY DEF Init, Waiting, Seen, AtLeast
<1> QED
  BY <1>3, <1>4, <1>5, <1>6 DEF Inv

\* Every step keeps it.
LEMMA StepSafe == Inv /\ [Next]_vars => Inv'
<1> SUFFICES ASSUME Inv, [Next]_vars PROVE Inv'
  OBVIOUS
<1>1. CASE \E n \in Sizes : Send(n)
  BY <1>1, SendSafe
<1>2. CASE \E k \in 1 .. Written : Arrive(k) \/ ReadSome(k)
  <2>1. Written \in Nat
    BY DEF Inv, TypeOK, Written, End
  <2>2. PICK k \in 1 .. Written : Arrive(k) \/ ReadSome(k)
    BY <1>2
  <2>3. k \in Nat
    BY <2>1
  <2> QED
    BY <2>2, <2>3, ArriveSafe, ReadSomeSafe
<1>3. CASE Handle
  BY <1>3, IncompleteSafe, TakeMessageSafe, OutOfStepSafe DEF Handle
<1>4. CASE UNCHANGED vars
  BY <1>4 DEF vars, Inv, TypeOK, Aligned, Spaced, Waiting, Seen, Written, End
<1> QED
  BY <1>1, <1>2, <1>3, <1>4 DEF Next

\* At all times.
LEMMA Safe == Spec => []Inv
  BY InitSafe, StepSafe, PTL DEF Spec

\* The invariant bounds what is stalled: what was read past the next message
\* is at most two bytes, less than any message.
LEMMA InvStalled == Inv => OneStalled
<1> SUFFICES ASSUME Inv, inStep, phase = "reading", taken = arrived,
                    NEW i \in 1 .. Len(ends), ends[i] <= arrived, delivered + 1 < i
             PROVE  FALSE
  BY DEF OneStalled, Inv, TypeOK
<1>1. Len(ends) \in Nat /\ delivered \in Nat /\ delivered + 1 \in 1 .. Len(ends)
  BY DEF Inv, TypeOK
<1>2. ends[delivered + 1] \in Nat /\ consumed + 3 <= ends[delivered + 1]
  BY <1>1, NextIsLonger
<1>3. ends[delivered + 1] + 3 <= ends[i] /\ ends[i] \in Nat
  BY <1>1 DEF Inv, Spaced, TypeOK
<1>4. Seen = consumed \/ Seen < ends[delivered + 1]
  BY DEF Inv, Waiting
<1>5. taken = Seen + got /\ got \in 0 .. 2 /\ Seen \in Int
  BY DEF Inv, Waiting, Seen, AtLeast, TypeOK
<1>6. consumed \in Nat
  BY DEF Inv, TypeOK
<1> QED
  BY <1>2, <1>3, <1>4, <1>5, <1>6

-----------------------------------------------------------------------------
\* Every counter of the reading loops keeps its type and its bound.
THEOREM TypeCorrect == Spec => []TypeOK
  BY Safe, PTL DEF Inv

\* As long as the receiver is in step, it takes the messages whole, in the
\* order in which they were sent, and nothing else.
THEOREM AlignedSafe == Spec => []Aligned
  BY Safe, PTL DEF Inv

\* A receiver that waits for bytes keeps at most one whole message waiting.
THEOREM StalledSafe == Spec => []OneStalled
  BY Safe, InvStalled, PTL
=============================================================================
