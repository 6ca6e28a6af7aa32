--------------------------- MODULE StreamFraming ---------------------------
(***************************************************************************)
(* Messages over a byte stream.  A message is written as two bytes that    *)
(* hold its size, themselves included, and its content.  TCP cuts the      *)
(* stream anywhere.  Both ends read it with the same loop, the client in   *)
(* ClipsClient::asyncReadHandler and the server in                         *)
(* Session::asyncReadHandler: boost::asio::async_read with                 *)
(* transfer_at_least(3) appends to a buffer, the handler takes the whole   *)
(* messages from it and starts the next async_read.                        *)
(*                                                                         *)
(* Bytes are counted, not represented: a position in the stream is a       *)
(* number, and ends[i] is the position after message i.                    *)
(***************************************************************************)
EXTENDS Naturals, Sequences

CONSTANTS
    Receivers,    \* whose loops are looked at: "client", "session"
    Sizes,        \* the sizes of the messages, headers included
    MaxMessages   \* bound: messages sent

ASSUME FramingAssumption ==
    /\ Receivers \subseteq {"client", "session"}
    /\ Sizes \subseteq {n \in Nat : n >= 3}
    /\ MaxMessages \in Nat

HeaderSize == 2
AtLeast == 3      \* transfer_at_least(3)

VARIABLES
    ends,         \* the position after each message sent
    arrived,      \* bytes that reached the receiver's machine
    taken,        \* bytes that async_read moved into the buffer
    consumed,     \* bytes that the handler took from the buffer
    got,          \* bytes moved by the current async_read
    phase,        \* "reading": in async_read; "handling": in its handler
    delivered,    \* messages given to the program, in step with the sender
    inStep,       \* the buffer starts where a message starts
    receiver,     \* whose loop it is
    bogus         \* something that nobody sent was given to the program

buffered == taken - consumed
vars == <<ends, arrived, taken, consumed, got, phase, delivered, inStep, receiver, bogus>>

End(i) == IF i = 0 THEN 0 ELSE ends[i]
Written == End(Len(ends))

TypeOK ==
    /\ ends \in Seq(Nat)
    /\ arrived \in 0 .. Written
    /\ taken \in 0 .. arrived
    /\ consumed \in 0 .. taken
    /\ got \in 0 .. taken
    /\ phase \in {"reading", "handling"}
    /\ delivered \in 0 .. Len(ends)
    /\ inStep \in BOOLEAN
    /\ receiver \in Receivers
    /\ bogus \in BOOLEAN

Init ==
    /\ ends = <<>>
    /\ arrived = 0 /\ taken = 0 /\ consumed = 0 /\ got = 0
    /\ phase = "reading"
    /\ delivered = 0
    /\ inStep = TRUE
    /\ receiver \in Receivers
    /\ bogus = FALSE

-----------------------------------------------------------------------------
\* Session::send, Request::getPayload: the size, then the content.
Send(n) ==
    /\ Len(ends) < MaxMessages
    /\ ends' = Append(ends, Written + n)
    /\ UNCHANGED <<arrived, taken, consumed, got, phase, delivered, inStep, bogus, receiver>>

\* TCP carries some bytes over (external).
Arrive(k) ==
    /\ arrived + k <= Written
    /\ arrived' = arrived + k
    /\ UNCHANGED <<ends, taken, consumed, got, phase, delivered, inStep, bogus, receiver>>

\* async_read moves what it finds, or what fits the buffer, until it has
\* moved enough for the handler to be called.
ReadSome(k) ==
    /\ phase = "reading" /\ taken + k <= arrived
    /\ taken' = taken + k
    /\ got' = got + k
    /\ phase' = IF got' >= AtLeast THEN "handling" ELSE "reading"
    /\ UNCHANGED <<ends, arrived, consumed, delivered, inStep, bogus, receiver>>

-----------------------------------------------------------------------------
(* One turn of the handler's loop.                                         *)

Handling == phase = "handling"
NextSize == ends[delivered + 1] - consumed

\* beginReceive, beginAsyncReceivePoll.
ReadAgain == phase' = "reading" /\ got' = 0

\* "Repeat while buffer has data."
Repeat(left) ==
    IF left > 0 THEN UNCHANGED <<phase, got>> ELSE ReadAgain

\* (mutant) the header of an incomplete message is not put back
Incomplete_HeaderKept ==
    /\ Handling /\ inStep
    /\ buffered >= HeaderSize /\ buffered < NextSize
    /\ consumed' = consumed + HeaderSize
    /\ ReadAgain
    /\ UNCHANGED <<ends, arrived, taken, delivered, inStep, bogus, receiver>>

\* The buffer does not hold the message whose size it starts with: the two
\* bytes are put back and the rest is awaited.
Incomplete ==
    /\ Handling /\ inStep
    /\ buffered >= HeaderSize /\ buffered < NextSize
    /\ ReadAgain
    /\ UNCHANGED <<ends, arrived, taken, consumed, delivered, inStep, bogus, receiver>>

\* (mutant) the size is compared as if the header were out of the buffer
TakeMessage_ShortCheck ==
    /\ Handling /\ inStep
    /\ buffered >= HeaderSize /\ buffered + HeaderSize >= NextSize
    /\ consumed' = consumed + NextSize
    /\ delivered' = delivered + 1
    /\ Repeat(taken - consumed')
    /\ UNCHANGED <<ends, arrived, taken, inStep, bogus, receiver>>

\* (mutant) one message per read
TakeMessage_Once ==
    /\ Handling /\ inStep
    /\ buffered >= HeaderSize /\ buffered >= NextSize
    /\ consumed' = consumed + NextSize
    /\ delivered' = delivered + 1
    /\ ReadAgain
    /\ UNCHANGED <<ends, arrived, taken, inStep, bogus, receiver>>

TakeMessage ==
    /\ Handling /\ inStep
    /\ buffered >= HeaderSize /\ buffered >= NextSize
    /\ consumed' = consumed + NextSize
    /\ delivered' = delivered + 1
    /\ Repeat(taken - consumed')
    /\ UNCHANGED <<ends, arrived, taken, inStep, bogus, receiver>>

(* One byte is left.  istream::read takes it and fails, and unget does     *)
(* nothing on a stream that failed.  The size is half uninitialized: the   *)
(* client waits for more whatever it is, the session may take it for a     *)
(* message.  The client's stream is a member and stays failed.             *)
LoseByte ==
    /\ Handling /\ buffered = 1
    /\ consumed' = consumed + 1
    /\ inStep' = FALSE
    /\ bogus' \in IF receiver = "session" THEN {bogus, TRUE} ELSE {bogus}
    /\ ReadAgain
    /\ UNCHANGED <<ends, arrived, taken, delivered, receiver>>

(* Out of step the client reads no byte any more, and acts on whatever the *)
(* size variable holds: it waits for more, or handles a message of zeros,  *)
(* or turns round the loop.                                                *)
ClientGarbled ==
    /\ Handling /\ ~inStep /\ receiver = "client"
    /\ \/ ReadAgain /\ UNCHANGED bogus
       \/ bogus' \in {bogus, TRUE} /\ UNCHANGED <<phase, got>>
    /\ UNCHANGED <<ends, arrived, taken, consumed, delivered, inStep, receiver>>

\* Out of step the session takes any two bytes for a size.
SessionGarbled ==
    /\ Handling /\ ~inStep /\ receiver = "session" /\ buffered >= HeaderSize
    /\ \/ ReadAgain /\ UNCHANGED <<consumed, bogus>>
       \/ \E k \in HeaderSize .. buffered :
            /\ consumed' = consumed + k
            /\ bogus' = TRUE
            /\ Repeat(buffered - k)
    /\ UNCHANGED <<ends, arrived, taken, delivered, inStep, receiver>>

-----------------------------------------------------------------------------
Handle == Incomplete \/ TakeMessage \/ LoseByte \/ ClientGarbled \/ SessionGarbled

Next ==
    \/ \E n \in Sizes : Send(n)
    \/ \E k \in 1 .. Written : Arrive(k) \/ ReadSome(k)
    \/ Handle

Spec == Init /\ [][Next]_vars

\* The thread of the receiver reads what there is and runs its handlers;
\* TCP owes nothing: only what arrived counts.
FairSpec ==
    /\ Spec
    /\ WF_vars(\E k \in 1 .. Written : ReadSome(k))
    /\ WF_vars(Handle)

-----------------------------------------------------------------------------
\* In step, what was taken is exactly the messages delivered, whole and in
\* the order sent, however the stream was cut (the two asyncReadHandlers).
Aligned == inStep => consumed = End(delivered) /\ ~bogus

\* When the receiver has read all that arrived and waits for more, at most
\* one whole message waits with it: the next one.  It does wait, when its last
\* one or two bytes came alone (transfer_at_least(3), with messages of three
\* bytes or more).
OneStalled ==
    inStep /\ phase = "reading" /\ taken = arrived =>
        \A i \in DOMAIN ends : ends[i] <= arrived => i <= delivered + 1

\* A message is delivered in the end once the next one has arrived whole,
\* unless the receiver lost its step.
PredecessorDelivered ==
    \A i \in 1 .. (MaxMessages - 1) :
        (i + 1 \in DOMAIN ends /\ ends[i + 1] <= arrived) ~> (delivered >= i \/ ~inStep)
=============================================================================
