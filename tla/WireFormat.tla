----------------------------- MODULE WireFormat -----------------------------
(***************************************************************************)
(* The bytes of the protocol: a request is composed by the client          *)
(* (Request::getPayload), cut out of the stream and taken apart by the     *)
(* server (fetchStringFromBuffer, parseMessage, splitCommand) and          *)
(* acknowledged under its own first five bytes; what the server sends is   *)
(* told apart by the client (asyncReadHandler, Reply::fromMessage).        *)
(*                                                                         *)
(* A byte is a digit in base Base and the two bytes of a size count to     *)
(* Base^2, where the code has 256 and 2^16, so that sizes wrap within      *)
(* reach.  One message is on its way at a time: StreamFraming has the      *)
(* stream and its cuts.                                                    *)
(***************************************************************************)
EXTENDS Naturals, Sequences, SequencesExt

CONSTANTS
    Base,        \* how many values a byte has
    Letters,     \* the bytes of texts that are neither NUL nor a space
    Ids,         \* command ids, as they lie in memory
    Commands,    \* the names of commands
    MaxArgs,     \* bound: the bytes of arguments
    MaxAnswered, \* bound: the bytes of the arguments of requests that are answered
    MaxText      \* bound: the bytes of results, reports and texts

NUL == 0
Space == 1
Bytes == 0 .. Base - 1

ASSUME WireAssumption ==
    /\ Base \in Nat /\ Letters \subseteq Bytes \ {NUL, Space} /\ Letters # {}
    /\ Ids \subseteq [1 .. 4 -> Bytes]
    /\ \A c \in Commands : c \in Seq(Letters) /\ c # <<>>
    /\ MaxArgs \in Nat /\ MaxAnswered \in Nat /\ MaxText \in Nat

TextsUpTo(n, alphabet) == UNION {[1 .. k -> alphabet] : k \in 0 .. n}

\* Reply::CommandIdNone, 0xffffffff
CommandIdNone == [i \in 1 .. 4 |-> Base - 1]

VARIABLES
    stage,    \* where the exchange is
    asked,    \* what a program asks the server: a request, or the text of a fact
    message,  \* the bytes last composed, or last taken out of the stream
    got,      \* what the server makes of them
    said,     \* what the server means to say
    heard     \* what the client makes of it

vars == <<stage, asked, message, got, said, heard>>

Nobody == [kind |-> "none"]
RequestFor(cmd, args, id) == [kind |-> "request", cmd |-> cmd, args |-> args, id |-> id]
Fact(text) == [kind |-> "fact", text |-> text]
Reply(id, success, result) ==
    [kind |-> "reply", id |-> id, success |-> success, result |-> result]
Report(success, text) == [kind |-> "report", success |-> success, text |-> text]
Line(text) == [kind |-> "text", text |-> text]

Init ==
    /\ stage = "start"
    /\ asked = Nobody /\ got = Nobody /\ said = Nobody /\ heard = Nobody
    /\ message = <<>>

-----------------------------------------------------------------------------
(* Sizes.  A message is composed in as many bytes as its size field says;  *)
(* when the size wraps, the bytes go past the end of the buffer.           *)

SizeField(n) == <<n % Base, (n \div Base) % Base>>
SizeOf(m) == m[1] + Base * m[2]
Wraps(n) == n >= Base * Base

Compose(header, content, then) ==
    LET n == 2 + Len(header) + Len(content) IN
    IF Wraps(n)
    THEN stage' = "overrun" /\ UNCHANGED message
    ELSE stage' = then /\ message' = SizeField(n) \o header \o content

-----------------------------------------------------------------------------
(* From the client to the server.                                          *)

\* Request::getPayload: NUL and the id; no space when there are no arguments.
AsksCommand(cmd, args, id) ==
    /\ asked' = RequestFor(cmd, args, id)
    /\ Compose(<<NUL>> \o id, IF args = <<>> THEN cmd ELSE cmd \o <<Space>> \o args, "asked")
    /\ UNCHANGED <<got, said, heard>>

\* Any program may send a message that is no command: the text of a fact.
AsksFact(text) ==
    /\ asked' = Fact(text)
    /\ Compose(<<>>, text, "asked")
    /\ UNCHANGED <<got, said, heard>>

\* fetchStringFromBuffer makes the string one byte longer than the message:
\* it ends in a NUL.
ServerReads ==
    /\ stage = "asked"
    /\ message' = SubSeq(message, 3, SizeOf(message)) \o <<NUL>>
    /\ stage' = "received"
    /\ UNCHANGED <<asked, got, said, heard>>

From(s, i) == SubSeq(s, i, Len(s))

FirstNUL(s) == SelectInSeq(s, LAMBDA b : b = NUL)

\* What c_str() shows of a string, and what erase(find_first_of(0)) leaves: a
\* string without a NUL would make erase throw, but the terminator is there.
UpToNUL(s) == IF FirstNUL(s) = 0 THEN s ELSE SubSeq(s, 1, FirstNUL(s) - 1)

\* (mutant) the NUL is left at the end of the arguments
SplitCommand_KeepsNUL(s) ==
    LET sp == SelectInSeq(s, LAMBDA b : b = Space) IN
    IF sp = 0 THEN [cmd |-> UpToNUL(s), args |-> <<>>]
    ELSE [cmd |-> SubSeq(s, 1, sp - 1), args |-> From(s, sp + 1)]

\* splitCommand, at the first space; without a space the trailing NUL goes.
SplitCommand(s) ==
    LET sp == SelectInSeq(s, LAMBDA b : b = Space) IN
    IF sp = 0 THEN [cmd |-> UpToNUL(s), args |-> <<>>]
    ELSE [cmd |-> SubSeq(s, 1, sp - 1), args |-> UpToNUL(From(s, sp + 1))]

IsCommand(m) == m[1] = NUL /\ Len(m) > 5

\* parseMessage.  A command goes to handleCommand without its five bytes; the
\* string of a fact is put in parentheses as it is, and what CLIPS is given of
\* it ends at the first NUL, before the closing one.
Parse ==
    /\ stage = "received"
    /\ LET c == SplitCommand(From(message, 6)) IN
       IF IsCommand(message)
       THEN got' = RequestFor(c.cmd, c.args, SubSeq(message, 2, 5))
       ELSE got' = [kind |-> "fact", text |-> UpToNUL(message),
                    closed |-> FirstNUL(message) = 0]
    /\ stage' = "parsed"
    /\ UNCHANGED <<asked, message, said, heard>>

-----------------------------------------------------------------------------
(* From the server to the client.                                          *)

Flag(success) == IF success THEN 1 ELSE 0

\* acknowledgeMessage: NUL and id are those of the message.
Acknowledge(success, result) ==
    /\ said' = IF asked.id = CommandIdNone THEN Report(success, result)
               ELSE Reply(asked.id, success, result)
    /\ Compose(SubSeq(message, 1, 5) \o <<Flag(success)>>, result, "said")
    /\ UNCHANGED <<asked, got, heard>>

\* publishStatus
PublishStatus(text) ==
    /\ said' = Report(TRUE, text)
    /\ Compose(<<NUL>> \o CommandIdNone \o <<1>>, text, "said")
    /\ UNCHANGED <<asked, got, heard>>

\* broadcast, sendTo: a newline at least, and no NUL, which CLIPS cannot hold.
SendText(text) ==
    /\ text # <<>>
    /\ said' = Line(text)
    /\ Compose(<<>>, text, "said")
    /\ UNCHANGED <<asked, got, heard>>

\* asyncReadHandler
ClientReads ==
    /\ stage = "said"
    /\ message' = SubSeq(message, 3, SizeOf(message))
    /\ stage' = "taken"
    /\ UNCHANGED <<asked, got, said, heard>>

\* (mutant) a result of one byte is taken for none
FromMessage_SkipsOne(m) ==
    Reply(SubSeq(m, 2, 5), m[6] # 0, IF Len(m) > 7 THEN From(m, 7) ELSE <<>>)

\* Reply::fromMessage, of a message of six bytes or more
FromMessage(m) ==
    Reply(SubSeq(m, 2, 5), m[6] # 0, IF Len(m) > 6 THEN From(m, 7) ELSE <<>>)

\* handleResponseMesage or onMessageReceived, by the first byte.
ClientHears ==
    /\ stage = "taken"
    /\ LET r == FromMessage(message) IN
       heard' = CASE message[1] # NUL      -> Line(message)
                  [] message[1] = NUL /\ Len(message) < 6 -> Nobody
                  [] OTHER -> IF r.id = CommandIdNone THEN Report(r.success, r.result) ELSE r
    /\ stage' = "heard"
    /\ UNCHANGED <<asked, message, got, said>>

Starts ==
    /\ stage = "start"
    /\ \/ \E cmd \in Commands, args \in TextsUpTo(MaxArgs, {NUL, Space} \cup Letters), id \in Ids :
             AsksCommand(cmd, args, id)
       \/ \E text \in TextsUpTo(MaxArgs, {Space} \cup Letters) \ {<<>>} : AsksFact(text)
       \/ \E text \in TextsUpTo(MaxText, {Space} \cup Letters) :
             PublishStatus(text) \/ SendText(text)

Answers ==
    /\ stage = "parsed" /\ got.kind = "request" /\ Len(asked.args) <= MaxAnswered
    /\ \E success \in BOOLEAN, result \in TextsUpTo(MaxText, {Space} \cup Letters) :
          Acknowledge(success, result)

Next == Starts \/ ServerReads \/ Parse \/ Answers \/ ClientReads \/ ClientHears

Spec == Init /\ [][Next]_vars

-----------------------------------------------------------------------------
(* Properties.                                                             *)

\* What the server executes is the command that was asked for, with its very
\* arguments as far as their first NUL, whatever bytes the id has and wherever
\* there are spaces, up to the largest size there is; and what is no command is
\* taken for a fact (getPayload, fetchStringFromBuffer, splitCommand).
CommandArrives ==
    /\ stage = "parsed" => got.kind = asked.kind
    /\ (stage = "parsed" /\ got.kind = "request") =>
          got = RequestFor(asked.cmd, UpToNUL(asked.args), asked.id)
    /\ (stage = "parsed" /\ got.kind = "fact") => got.text = asked.text

\* The client hears what the server meant, and takes a reply, a report and a
\* text for what it is: under the id asked with, complete, whatever bytes it
\* has, up to the largest size (acknowledgeMessage, Session::send, fromMessage).
\* The reply to a call that drew CommandIdNone is meant for a report, too.
AnswerArrives == stage = "heard" => heard = said
=============================================================================
