-------------------------- MODULE WireFormatProofs --------------------------
(* Theorems about the bytes of the protocol: for any alphabet, any         *)
(* commands, any ids and texts of any length.                              *)
EXTENDS WireFormat, WellFoundedInduction, SequenceTheorems, Integers, TLAPS

-----------------------------------------------------------------------------
(* What a message holds: the texts that are meant, byte by byte.           *)

\* What a program may ask.
Asked(a) ==
    \/ \E cmd \in Commands, args \in Seq({NUL, Space} \cup Letters), id \in Ids :
          a = RequestFor(cmd, args, id)
    \/ \E text \in Seq({Space} \cup Letters) \ {<<>>} : a = Fact(text)

\* The text of a request: the command and, if there are any, its arguments.
TextOf(cmd, args) == IF args = <<>> THEN cmd ELSE cmd \o <<Space>> \o args

\* The bytes of what is asked, without the size and the terminator.
BodyOf(a) ==
    IF a.kind = "request" THEN (<<NUL>> \o a.id) \o TextOf(a.cmd, a.args) ELSE a.text

\* What a server may say.
Said(a) ==
    \E success \in BOOLEAN, text \in Seq({Space} \cup Letters) :
        \/ a = Report(success, text)
        \/ \E id \in Ids : id # CommandIdNone /\ a = Reply(id, success, text)
        \/ text # <<>> /\ a = Line(text)

\* The bytes of what is said, without the size.
SpokenOf(a) ==
    IF a.kind = "text" THEN a.text
    ELSE IF a.kind = "report"
    THEN ((<<NUL>> \o CommandIdNone) \o <<Flag(a.success)>>) \o a.text
    ELSE ((<<NUL>> \o a.id) \o <<Flag(a.success)>>) \o a.result

\* A message holds what is meant from its composition to its end.
WireInv ==
    /\ stage \in {"asked", "received", "parsed"} => Asked(asked)
    /\ stage = "asked" => SubSeq(message, 3, SizeOf(message)) = BodyOf(asked)
    /\ stage = "received" => message = BodyOf(asked) \o <<NUL>>
    /\ (stage = "parsed" /\ asked.kind = "request") => SubSeq(message, 1, 5) = <<NUL>> \o asked.id
    /\ CommandArrives
    /\ stage \in {"said", "taken"} => Said(said)
    /\ stage = "said" => SubSeq(message, 3, SizeOf(message)) = SpokenOf(said)
    /\ stage = "taken" => message = SpokenOf(said)
    /\ AnswerArrives

-----------------------------------------------------------------------------
(* Sequences.                                                              *)

\* A concatenation can be cut again where it was joined.
LEMMA Cut ==
    ASSUME NEW s \in Seq(Nat), NEW t \in Seq(Nat)
    PROVE  /\ s \o t \in Seq(Nat) /\ Len(s \o t) = Len(s) + Len(t)
           /\ Len(s) \in Nat /\ Len(t) \in Nat
           /\ \A i \in 1 .. Len(s) : (s \o t)[i] = s[i]
           /\ \A i \in 1 .. Len(t) : (s \o t)[Len(s) + i] = t[i]
           /\ SubSeq(s \o t, 1, Len(s)) = s
           /\ SubSeq(s \o t, Len(s) + 1, Len(s) + Len(t)) = t
<1> DEFINE u == s \o t
<1>1. /\ u \in Seq(Nat) /\ Len(u) = Len(s) + Len(t) /\ Len(s) \in Nat /\ Len(t) \in Nat
      /\ \A i \in 1 .. Len(s) : u[i] = s[i]
      /\ \A i \in 1 .. Len(t) : u[Len(s) + i] = t[i]
  OBVIOUS
<1> HIDE DEF u
<1>2. \A i \in 1 .. Len(u) : u[i] \in Nat
  BY <1>1, ElementOfSeq
<1>3. SubSeq(u, 1, Len(s)) = s
  <2> DEFINE v == SubSeq(u, 1, Len(s))
  <2>1. \A i \in 1 .. Len(s) : u[i] \in Nat
    BY <1>1, <1>2
  <2>2. v \in Seq(Nat) /\ Len(v) = Len(s) /\ \A i \in 1 .. Len(s) : v[i] = u[i]
    BY <1>1, <2>1, SubSeqProperties
  <2> HIDE DEF v
  <2>3. v = s
    BY <1>1, <2>2, SeqEqual
  <2> QED
    BY <2>3 DEF v
<1>4. SubSeq(u, Len(s) + 1, Len(s) + Len(t)) = t
  <2> DEFINE v == SubSeq(u, Len(s) + 1, Len(s) + Len(t))
  <2>1. \A i \in Len(s) + 1 .. Len(s) + Len(t) : u[i] \in Nat
    BY <1>1, <1>2
  <2>2. v \in Seq(Nat) /\ Len(v) = Len(t) /\ \A i \in 1 .. Len(t) : v[i] = u[Len(s) + i]
    BY <1>1, <2>1, SubSeqProperties
  <2> HIDE DEF v
  <2>3. v = t
    BY <1>1, <2>2, SeqEqual
  <2> QED
    BY <2>3 DEF v
<1> QED
  BY <1>1, <1>3, <1>4 DEF u

\* A byte.
LEMMA Single ==
    ASSUME NEW b \in Nat
    PROVE  <<b>> \in Seq(Nat) /\ Len(<<b>>) = 1 /\ <<b>>[1] = b
OBVIOUS

\* It does not matter in which order texts are joined.
LEMMA Joined ==
    ASSUME NEW s \in Seq(Nat), NEW t \in Seq(Nat), NEW u \in Seq(Nat)
    PROVE  (s \o t) \o u = s \o (t \o u)
BY ConcatAssociative

\* A byte before a text, and one after it.
LEMMA ByteBefore ==
    ASSUME NEW b \in Nat, NEW t \in Seq(Nat)
    PROVE  /\ <<b>> \o t \in Seq(Nat) /\ Len(<<b>> \o t) = 1 + Len(t)
           /\ (<<b>> \o t)[1] = b
           /\ SubSeq(<<b>> \o t, 2, 1 + Len(t)) = t
<1> DEFINE z == <<b>>
<1>1. z \in Seq(Nat) /\ Len(z) = 1 /\ z[1] = b
  BY Single
<1> HIDE DEF z
<1>2. /\ z \o t \in Seq(Nat) /\ Len(z \o t) = Len(z) + Len(t)
      /\ \A i \in 1 .. Len(z) : (z \o t)[i] = z[i]
      /\ SubSeq(z \o t, Len(z) + 1, Len(z) + Len(t)) = t
  BY <1>1, Cut
<1>3. (z \o t)[1] = b
  BY <1>1, <1>2
<1>4. SubSeq(z \o t, 2, 1 + Len(t)) = t
  BY <1>1, <1>2
<1> QED
  BY <1>1, <1>2, <1>3, <1>4 DEF z

LEMMA ByteAfter ==
    ASSUME NEW b \in Nat, NEW s \in Seq(Nat)
    PROVE  /\ s \o <<b>> \in Seq(Nat) /\ Len(s \o <<b>>) = Len(s) + 1
           /\ \A i \in 1 .. Len(s) : (s \o <<b>>)[i] = s[i]
           /\ (s \o <<b>>)[Len(s) + 1] = b
           /\ SubSeq(s \o <<b>>, 1, Len(s)) = s
<1> DEFINE z == <<b>>
<1>1. z \in Seq(Nat) /\ Len(z) = 1 /\ z[1] = b
  BY Single
<1> HIDE DEF z
<1>2. /\ s \o z \in Seq(Nat) /\ Len(s \o z) = Len(s) + Len(z)
      /\ \A i \in 1 .. Len(s) : (s \o z)[i] = s[i]
      /\ \A i \in 1 .. Len(z) : (s \o z)[Len(s) + i] = z[i]
      /\ SubSeq(s \o z, 1, Len(s)) = s
  BY <1>1, Cut
<1>3. (s \o z)[Len(s) + 1] = b
  BY <1>1, <1>2
<1> QED
  BY <1>1, <1>2, <1>3 DEF z

\* The bytes of the protocol are natural numbers; there are at least three.
LEMMA ByteTypes ==
    /\ Base \in Nat /\ Base >= 3
    /\ \A S : S \subseteq Bytes => \A s \in Seq(S) : s \in Seq(Nat)
    /\ {NUL, Space} \cup Letters \subseteq Bytes
    /\ \A id \in Ids \cup {CommandIdNone} : id \in Seq(Nat) /\ Len(id) = 4
    /\ \A cmd \in Commands : cmd \in Seq(Letters) /\ cmd # <<>>
<1>1. Base \in Nat /\ Base >= 3
  <2>1. PICK b \in Letters : b \in Bytes /\ b # NUL /\ b # Space
    BY WireAssumption
  <2> QED
    BY <2>1, WireAssumption DEF Bytes, NUL, Space
<1>2. Bytes \subseteq Nat
  BY <1>1 DEF Bytes
<1>3. ASSUME NEW S, S \subseteq Bytes, NEW s \in Seq(S) PROVE s \in Seq(Nat)
  BY <1>2, <1>3, SeqMonotonic
<1>4. {NUL, Space} \cup Letters \subseteq Bytes
  BY <1>1, WireAssumption DEF Bytes, NUL, Space
<1>5. ASSUME NEW id \in [1 .. 4 -> Bytes] PROVE id \in Seq(Nat) /\ Len(id) = 4
  <2>1. id \in [1 .. 4 -> Nat]
    BY <1>2
  <2>2. id \in Seq(Nat)
    BY <2>1, SeqDef
  <2>3. DOMAIN id = 1 .. 4 /\ DOMAIN id = 1 .. Len(id) /\ Len(id) \in Nat
    BY <2>1, <2>2, LenProperties
  <2> QED
    BY <2>2, <2>3
<1>6. CommandIdNone \in [1 .. 4 -> Bytes]
  BY <1>1 DEF CommandIdNone, Bytes
<1> QED
  BY <1>1, <1>3, <1>4, <1>5, <1>6, WireAssumption

-----------------------------------------------------------------------------
(* Sizes.                                                                  *)

\* Quotient and remainder.
LEMMA Division ==
    ASSUME NEW n \in Int, NEW b \in Int, b >= 3
    PROVE  n = b * (n \div b) + (n % b)
OBVIOUS

\* A size that does not wrap is read as it was written.
LEMMA SizeRead ==
    ASSUME NEW n \in Nat, ~Wraps(n)
    PROVE  (n % Base) + Base * ((n \div Base) % Base) = n
<1>1. Base \in Nat /\ Base >= 3 /\ n < Base * Base
  BY ByteTypes DEF Wraps
<1>2. n = Base * (n \div Base) + (n % Base)
  <2>1. n \in Int /\ Base \in Int
    BY <1>1
  <2> QED
    BY <1>1, <2>1, Division
<1>5. n % Base \in Nat
  BY <1>1
<1>6. n \div Base \in Nat
  BY <1>1
<1> DEFINE q == n \div Base
<1>3. q < Base
  <2> SUFFICES ASSUME q >= Base PROVE FALSE
    BY <1>1, <1>2
  <2>1. Base * q >= Base * Base
    BY <1>1, <1>2
  <2> QED
    BY <1>1, <1>2, <2>1
<1>4. q % Base = q
  BY <1>1, <1>2, <1>3
<1> QED
  BY <1>1, <1>2, <1>4

\* What a receiver takes out of a message that was composed is what was put in.
LEMMA Framed ==
    ASSUME NEW h \in Seq(Nat), NEW c \in Seq(Nat), ~Wraps(2 + Len(h) + Len(c))
    PROVE  LET m == SizeField(2 + Len(h) + Len(c)) \o h \o c IN
             SubSeq(m, 3, SizeOf(m)) = h \o c
<1> DEFINE n == 2 + Len(h) + Len(c)
           a == n % Base
           b == (n \div Base) % Base
           f == <<a, b>>
           t == h \o c
           m == f \o t
<1>1. n \in Nat /\ t \in Seq(Nat) /\ Len(t) = Len(h) + Len(c) /\ n = 2 + Len(t)
  BY Cut
<1>2. a \in Nat /\ b \in Nat
  BY <1>1, ByteTypes
<1>3. a + Base * b = n
  BY <1>1, SizeRead
<1>4. f \in Seq(Nat) /\ Len(f) = 2 /\ f[1] = a /\ f[2] = b
  <2> HIDE DEF a, b
  <2> QED
    BY <1>2
<1>5. SizeField(n) = f
  BY DEF SizeField
<1> HIDE DEF f, a, b
<1>6. (f \o h) \o c = m
  <2>1. f \in Seq(Nat)
    BY <1>4
  <2> QED
    BY <2>1, Joined
<1>7. /\ \A i \in 1 .. Len(f) : m[i] = f[i]
      /\ SubSeq(m, Len(f) + 1, Len(f) + Len(t)) = t
  BY <1>1, <1>4, Cut
<1> HIDE DEF m, t
<1>8. m[1] = a /\ m[2] = b
  BY <1>4, <1>7
<1>9. SizeOf(m) = n
  BY <1>3, <1>8 DEF SizeOf
<1>10. SubSeq(m, 3, SizeOf(m)) = t
  BY <1>1, <1>4, <1>7, <1>9
<1> QED
  BY <1>5, <1>6, <1>10 DEF t

-----------------------------------------------------------------------------
(* The first of its kind.                                                  *)

LEMMA LeastIs ==
    ASSUME NEW I \in SUBSET Nat, NEW k \in I, \A i \in I : k <= i
    PROVE  Min(I) = k
<1>1. \E x \in I : \A y \in I : x <= y
  OBVIOUS
<1>2. Min(I) \in I /\ \A y \in I : Min(I) <= y
  BY <1>1 DEF Min
<1>3. Min(I) <= k /\ k <= Min(I) /\ k \in Nat /\ Min(I) \in Nat
  BY <1>2
<1> QED
  BY <1>3

\* The place of the first NUL, when there is one.
LEMMA FirstNULIs ==
    ASSUME NEW s \in Seq(Nat), NEW k \in 1 .. Len(s), s[k] = NUL,
           \A i \in 1 .. k - 1 : s[i] # NUL
    PROVE  FirstNUL(s) = k
<1> DEFINE I == {i \in 1 .. Len(s) : s[i] = NUL}
<1>1. I \in SUBSET Nat /\ k \in I /\ \A i \in I : k <= i
  OBVIOUS
<1>2. FirstNUL(s) = IF I # {} THEN Min(I) ELSE 0
  BY DEF FirstNUL, SelectInSeq
<1> HIDE DEF I
<1> QED
  BY <1>1, <1>2, LeastIs

\* The same with a space, in the words of SplitCommand.
LEMMA FirstSpaceIs ==
    ASSUME NEW s \in Seq(Nat), NEW k \in 1 .. Len(s), s[k] = Space,
           \A i \in 1 .. k - 1 : s[i] # Space
    PROVE  SelectInSeq(s, LAMBDA b : b = Space) = k
<1> DEFINE I == {i \in 1 .. Len(s) : s[i] = Space}
<1>1. I \in SUBSET Nat /\ k \in I /\ \A i \in I : k <= i
  OBVIOUS
<1>2. SelectInSeq(s, LAMBDA b : b = Space) = IF I # {} THEN Min(I) ELSE 0
  BY DEF SelectInSeq
<1> HIDE DEF I
<1> QED
  BY <1>1, <1>2, LeastIs

\* Without a NUL there is no first one; the same with a space.
LEMMA NoneIs ==
    ASSUME NEW s \in Seq(Nat)
    PROVE  /\ (\A i \in 1 .. Len(s) : s[i] # NUL) => FirstNUL(s) = 0
           /\ (\A i \in 1 .. Len(s) : s[i] # Space) => SelectInSeq(s, LAMBDA b : b = Space) = 0
BY DEF FirstNUL, SelectInSeq

\* A text either has no NUL or has a first one.
LEMMA FirstNULExists ==
    ASSUME NEW s \in Seq(Nat), NEW j \in 1 .. Len(s), s[j] = NUL
    PROVE  \E k \in 1 .. Len(s) : s[k] = NUL /\ \A i \in 1 .. k - 1 : s[i] # NUL
<1> DEFINE I == {i \in 1 .. Len(s) : s[i] = NUL}
<1>1. I \subseteq Nat /\ I # {}
  OBVIOUS
<1> HIDE DEF I
<1>2. \E m \in I : \A k \in I : <<k, m>> \notin OpToRel(<, Nat)
  BY <1>1, WFMin, NatLessThanWellFounded
<1>3. PICK m \in I : \A k \in I : <<k, m>> \notin OpToRel(<, Nat)
  BY <1>2
<1>4. \A k \in I : ~(k < m)
  BY <1>1, <1>3 DEF OpToRel
<1>5. m \in 1 .. Len(s) /\ s[m] = NUL
  BY DEF I
<1>6. \A i \in 1 .. m - 1 : i \in 1 .. Len(s) /\ i < m
  BY <1>5
<1>7. \A i \in 1 .. m - 1 : s[i] # NUL
  BY <1>4, <1>6 DEF I
<1> QED
  BY <1>5, <1>7

\* A terminator changes nothing of what a text shows up to its first NUL, and
\* a text without a NUL shows all of itself.
LEMMA Terminated ==
    ASSUME NEW s \in Seq(Nat)
    PROVE  /\ UpToNUL(s \o <<NUL>>) = UpToNUL(s)
           /\ (\A i \in 1 .. Len(s) : s[i] # NUL) => UpToNUL(s) = s
<1> DEFINE z == <<NUL>>
           t == s \o z
<1>1. z \in Seq(Nat) /\ Len(z) = 1 /\ z[1] = NUL
  BY Single DEF NUL
<1> HIDE DEF z
<1>2. /\ t \in Seq(Nat) /\ Len(t) = Len(s) + 1 /\ Len(s) \in Nat
      /\ \A i \in 1 .. Len(s) : t[i] = s[i]
      /\ t[Len(s) + 1] = NUL
      /\ SubSeq(t, 1, Len(s)) = s
  <2>1. 1 \in 1 .. Len(z)
    BY <1>1
  <2> QED
    BY <1>1, <2>1, Cut
<1>3. (\A i \in 1 .. Len(s) : s[i] # NUL) => UpToNUL(s) = s
  BY NoneIs DEF UpToNUL
<1>4. CASE \A i \in 1 .. Len(s) : s[i] # NUL
  <2> HIDE DEF t
  <2>1. Len(s) + 1 \in 1 .. Len(t) /\ \A i \in 1 .. (Len(s) + 1) - 1 : i \in 1 .. Len(s)
    BY <1>2
  <2>2. FirstNUL(t) = Len(s) + 1
    BY <1>2, <1>4, <2>1, FirstNULIs
  <2>3. UpToNUL(t) = s
    BY <1>2, <2>2 DEF UpToNUL
  <2> QED
    BY <1>3, <1>4, <2>3 DEF t, z
<1>5. CASE \E j \in 1 .. Len(s) : s[j] = NUL
  <2>1. PICK k \in 1 .. Len(s) : s[k] = NUL /\ \A i \in 1 .. k - 1 : s[i] # NUL
    BY <1>5, FirstNULExists
  <2>2. FirstNUL(s) = k
    BY <2>1, FirstNULIs
  <2> HIDE DEF t
  <2>3. k \in 1 .. Len(t) /\ k \in Nat /\ k # 0 /\ k - 1 \in Nat
    BY <1>2, <2>1
  <2>4. \A i \in 1 .. k - 1 : i \in 1 .. Len(s)
    BY <1>2, <2>1
  <2>5. t[k] = NUL /\ \A i \in 1 .. k - 1 : t[i] = s[i]
    BY <1>2, <2>1, <2>4
  <2>6. FirstNUL(t) = k
    BY <1>2, <2>1, <2>3, <2>5, FirstNULIs
  <2>7. SubSeq(t, 1, k - 1) = SubSeq(s, 1, k - 1)
    <3> DEFINE a == SubSeq(t, 1, k - 1)
               b == SubSeq(s, 1, k - 1)
    <3>1. \A i \in 1 .. k - 1 : s[i] \in Nat /\ t[i] \in Nat
      BY <2>4, <2>5, ElementOfSeq
    <3>2. a \in Seq(Nat) /\ Len(a) = k - 1 /\ \A i \in 1 .. k - 1 : a[i] = t[i]
      <4>1. a \in Seq(Nat) /\ Len(a) = (IF 1 <= k - 1 THEN (k - 1) - 1 + 1 ELSE 0)
              /\ \A i \in 1 .. (k - 1) - 1 + 1 : a[i] = t[1 + i - 1]
        BY <2>3, <3>1, SubSeqProperties
      <4> HIDE DEF a
      <4> QED
        BY <2>3, <4>1
    <3>3. b \in Seq(Nat) /\ Len(b) = k - 1 /\ \A i \in 1 .. k - 1 : b[i] = s[i]
      <4>1. b \in Seq(Nat) /\ Len(b) = (IF 1 <= k - 1 THEN (k - 1) - 1 + 1 ELSE 0)
              /\ \A i \in 1 .. (k - 1) - 1 + 1 : b[i] = s[1 + i - 1]
        BY <2>3, <3>1, SubSeqProperties
      <4> HIDE DEF b
      <4> QED
        BY <2>3, <4>1
    <3> HIDE DEF a, b
    <3>4. a = b
      BY <2>5, <3>2, <3>3, SeqEqual
    <3> QED
      BY <3>4 DEF a, b
  <2>8. UpToNUL(t) = UpToNUL(s)
    BY <2>2, <2>3, <2>6, <2>7 DEF UpToNUL
  <2> QED
    BY <1>5, <2>8 DEF t, z
<1> QED
  BY <1>3, <1>4, <1>5

-----------------------------------------------------------------------------
(* What is composed.                                                       *)

\* The texts that are enumerated are texts.
LEMMA TextTypes ==
    ASSUME NEW n \in Nat, NEW A, NEW t \in TextsUpTo(n, A)
    PROVE  t \in Seq(A)
<1>1. PICK k \in 0 .. n : t \in [1 .. k -> A]
  BY DEF TextsUpTo
<1> QED
  BY <1>1, SeqDef

\* A letter is neither a NUL nor a space, a text holds no NUL.
LEMMA LetterTypes ==
    /\ \A A : A \subseteq {NUL, Space} \cup Letters => \A s \in Seq(A) : s \in Seq(Nat)
    /\ \A s \in Seq(Letters), i \in Nat :
          i \in 1 .. Len(s) => s[i] # NUL /\ s[i] # Space
    /\ \A s \in Seq({Space} \cup Letters), i \in Nat : i \in 1 .. Len(s) => s[i] # NUL
<1>1. ASSUME NEW A, A \subseteq {NUL, Space} \cup Letters, NEW s \in Seq(A)
      PROVE  s \in Seq(Nat)
  BY <1>1, ByteTypes
<1>2. ASSUME NEW A, NEW s \in Seq(A), NEW i \in 1 .. Len(s)
      PROVE  s[i] \in A
  BY ElementOfSeq
<1>3. NUL \notin Letters /\ Space \notin Letters /\ NUL # Space
  BY WireAssumption DEF NUL, Space
<1> QED
  BY <1>1, <1>2, <1>3

\* The first five bytes of a command and of a reply.
LEMMA HeaderTypes ==
    ASSUME NEW id \in Ids \cup {CommandIdNone}
    PROVE  /\ <<NUL>> \o id \in Seq(Nat) /\ Len(<<NUL>> \o id) = 5
           /\ (<<NUL>> \o id)[1] = NUL
           /\ SubSeq(<<NUL>> \o id, 2, 5) = id
<1>1. id \in Seq(Nat) /\ Len(id) = 4
  BY ByteTypes
<1>2. NUL \in Nat
  BY DEF NUL
<1>3. /\ <<NUL>> \o id \in Seq(Nat) /\ Len(<<NUL>> \o id) = 1 + Len(id)
      /\ (<<NUL>> \o id)[1] = NUL
      /\ SubSeq(<<NUL>> \o id, 2, 1 + Len(id)) = id
  BY <1>1, <1>2, ByteBefore
<1>4. 1 + Len(id) = 5
  BY <1>1
<1> QED
  BY <1>3, <1>4

\* The server takes the text of a command apart as it was put together.
LEMMA Splits ==
    ASSUME NEW cmd \in Commands, NEW args \in Seq({NUL, Space} \cup Letters)
    PROVE  /\ TextOf(cmd, args) \in Seq(Nat) /\ TextOf(cmd, args) # <<>>
           /\ SplitCommand(TextOf(cmd, args) \o <<NUL>>) = [cmd |-> cmd, args |-> UpToNUL(args)]
<1> DEFINE z == <<NUL>>
           sp == <<Space>>
<1>1. z \in Seq(Nat) /\ sp \in Seq(Nat)
  BY Single DEF NUL, Space
<1>2. NUL \in Nat /\ Space \in Nat
  BY DEF NUL, Space
<1>3. /\ cmd \in Seq(Nat) /\ cmd # <<>> /\ Len(cmd) \in Nat \ {0} /\ args \in Seq(Nat)
      /\ \A i \in 1 .. Len(cmd) : cmd[i] # NUL /\ cmd[i] # Space
  <2>1. cmd \in Seq(Letters) /\ cmd # <<>>
    BY ByteTypes
  <2>2. Len(cmd) \in Nat \ {0}
    BY <2>1, EmptySeq
  <2>3. cmd \in Seq(Nat) /\ args \in Seq(Nat)
    BY <2>1, LetterTypes
  <2>4. \A i \in 1 .. Len(cmd) : i \in Nat
    BY <2>2
  <2> QED
    BY <2>1, <2>2, <2>3, <2>4, LetterTypes
<1>4. NUL # Space
  BY DEF NUL, Space
<1>5. CASE args = <<>>
  <2> DEFINE s == cmd \o z
  <2>1. /\ s \in Seq(Nat) /\ Len(s) = Len(cmd) + 1
        /\ \A i \in 1 .. Len(cmd) : s[i] = cmd[i]
        /\ s[Len(cmd) + 1] = NUL
    BY <1>2, <1>3, ByteAfter
  <2>2. UpToNUL(s) = cmd
    BY <1>3, Terminated
  <2>3. UpToNUL(args) = <<>>
    <3>1. \A i \in 1 .. Len(args) : FALSE
      BY <1>5
    <3> QED
      BY <1>3, <1>5, <3>1, Terminated
  <2> HIDE DEF s
  <2>4. \A i \in 1 .. Len(s) : i \in 1 .. Len(cmd) \/ i = Len(cmd) + 1
    BY <1>3, <2>1
  <2>5. SelectInSeq(s, LAMBDA b : b = Space) = 0
    BY <1>3, <1>4, <2>1, <2>4, NoneIs
  <2>6. SplitCommand(s) = [cmd |-> cmd, args |-> <<>>]
    BY <2>2, <2>5 DEF SplitCommand
  <2> QED
    BY <1>3, <1>5, <2>3, <2>6 DEF TextOf, s
<1>6. CASE args # <<>>
  <2> DEFINE r == args \o z
             b == cmd \o sp
             s == b \o r
  <2>1. r \in Seq(Nat) /\ b \in Seq(Nat) /\ Len(b) = Len(cmd) + 1 /\ b[Len(cmd) + 1] = Space
          /\ \A i \in 1 .. Len(cmd) : b[i] = cmd[i]
          /\ SubSeq(b, 1, Len(cmd)) = cmd
    <3>1. r \in Seq(Nat)
      BY <1>2, <1>3, ByteAfter
    <3>2. /\ b \in Seq(Nat) /\ Len(b) = Len(cmd) + 1 /\ b[Len(cmd) + 1] = Space
          /\ \A i \in 1 .. Len(cmd) : b[i] = cmd[i]
          /\ SubSeq(b, 1, Len(cmd)) = cmd
      BY <1>2, <1>3, ByteAfter
    <3> QED
      BY <3>1, <3>2
  <2>2. b \o args \in Seq(Nat) /\ (b \o args) \o z = s
    <3> HIDE DEF b, z
    <3>1. b \o args \in Seq(Nat)
      BY <1>3, <2>1, Cut
    <3>2. (b \o args) \o z = b \o (args \o z)
      <4>1. b \in Seq(Nat) /\ args \in Seq(Nat) /\ z \in Seq(Nat)
        BY <1>1, <1>3, <2>1
      <4> QED
        BY <4>1, Joined
    <3> QED
      BY <3>1, <3>2
  <2>3. cmd \o (sp \o r) = s
    <3> HIDE DEF r, sp
    <3>1. (cmd \o sp) \o r = cmd \o (sp \o r)
      <4>1. cmd \in Seq(Nat) /\ sp \in Seq(Nat) /\ r \in Seq(Nat)
        BY <1>1, <1>3, <2>1
      <4> QED
        BY <4>1, Joined
    <3> QED
      BY <3>1
  <2>4. SubSeq(s, 1, Len(cmd)) = cmd
    <3> HIDE DEF s, r, sp
    <3>1. sp \o r \in Seq(Nat)
      BY <1>1, <2>1, Cut
    <3> QED
      BY <1>3, <2>3, <3>1, Cut
  <2>5. b \o args # <<>>
    BY <1>3, <1>6, <2>1, ConcatEqualIffEmpty
  <2>6. UpToNUL(r) = UpToNUL(args)
    BY <1>3, Terminated
  <2> HIDE DEF r, b
  <2>7. /\ s \in Seq(Nat) /\ Len(s) = Len(b) + Len(r) /\ Len(r) \in Nat
        /\ \A i \in 1 .. Len(b) : s[i] = b[i]
        /\ SubSeq(s, Len(b) + 1, Len(b) + Len(r)) = r
    BY <2>1, Cut
  <2> HIDE DEF s
  <2>8. /\ Len(cmd) + 1 \in 1 .. Len(s)
        /\ s[Len(cmd) + 1] = Space
        /\ \A i \in 1 .. (Len(cmd) + 1) - 1 : s[i] # Space
    <3>1. Len(cmd) + 1 \in 1 .. Len(b)
      BY <1>3, <2>1
    <3>2. \A i \in 1 .. (Len(cmd) + 1) - 1 : i \in 1 .. Len(cmd) /\ i \in 1 .. Len(b)
      BY <1>3, <2>1
    <3>3. Len(cmd) + 1 \in 1 .. Len(s)
      BY <2>1, <2>7, <3>1
    <3>4. s[Len(cmd) + 1] = Space
      BY <2>1, <2>7, <3>1
    <3>5. \A i \in 1 .. (Len(cmd) + 1) - 1 : s[i] # Space
      BY <1>3, <2>1, <2>7, <3>2
    <3> QED
      BY <3>3, <3>4, <3>5
  <2>9. SelectInSeq(s, LAMBDA x : x = Space) = Len(cmd) + 1
    BY <2>7, <2>8, FirstSpaceIs
  <2>10. From(s, (Len(cmd) + 1) + 1) = r
    BY <2>1, <2>7 DEF From
  <2>11. SubSeq(s, 1, (Len(cmd) + 1) - 1) = cmd
    BY <1>3, <2>4
  <2>12. Len(cmd) + 1 # 0
    BY <1>3
  <2>13. SplitCommand(s) = [cmd |-> cmd, args |-> UpToNUL(r)]
    BY <2>9, <2>10, <2>11, <2>12 DEF SplitCommand
  <2>14. TextOf(cmd, args) = b \o args
    BY <1>6 DEF TextOf, b
  <2> QED
    BY <2>2, <2>5, <2>6, <2>13, <2>14
<1> QED
  BY <1>5, <1>6

-----------------------------------------------------------------------------
(* The steps.                                                              *)

\* What composing leaves: nothing, or a message that holds header and content.
LEMMA Composed ==
    ASSUME NEW h \in Seq(Nat), NEW c \in Seq(Nat), NEW then, Compose(h, c, then),
           then # "overrun"
    PROVE  \/ stage' = "overrun" /\ message' = message
           \/ stage' = then /\ SubSeq(message', 3, SizeOf(message')) = h \o c
<1> DEFINE n == 2 + Len(h) + Len(c)
           m == SizeField(n) \o h \o c
<1>1. CASE Wraps(n)
  BY <1>1 DEF Compose
<1>2. CASE ~Wraps(n)
  <2>1. stage' = then /\ message' = m
    BY <1>2 DEF Compose
  <2>2. SubSeq(m, 3, SizeOf(m)) = h \o c
    BY <1>2, Framed
  <2> HIDE DEF m
  <2> QED
    BY <2>1, <2>2
<1> QED
  BY <1>1, <1>2

\* The exchange begins: something is composed, as it is meant.
LEMMA StartsWell ==
    ASSUME WireInv, Starts
    PROVE  WireInv'
<1> USE DEF RequestFor, Fact, Report, Line
<1>1. CASE \E cmd \in Commands, args \in TextsUpTo(MaxArgs, {NUL, Space} \cup Letters), id \in Ids :
             AsksCommand(cmd, args, id)
  <2>1. PICK cmd \in Commands, args \in TextsUpTo(MaxArgs, {NUL, Space} \cup Letters), id \in Ids :
             AsksCommand(cmd, args, id)
    BY <1>1
  <2> DEFINE h == <<NUL>> \o id
             c == TextOf(cmd, args)
  <2>2. args \in Seq({NUL, Space} \cup Letters)
    BY TextTypes, WireAssumption
  <2>3. h \in Seq(Nat) /\ c \in Seq(Nat)
    BY <2>2, HeaderTypes, Splits
  <2>4. asked' = RequestFor(cmd, args, id) /\ Compose(h, c, "asked") /\ UNCHANGED <<got, said, heard>>
    BY <2>1 DEF AsksCommand, TextOf
  <2>5. BodyOf(asked') = h \o c
    BY <2>4 DEF BodyOf
  <2> HIDE DEF h, c
  <2>6. \/ stage' = "overrun"
        \/ stage' = "asked" /\ SubSeq(message', 3, SizeOf(message')) = h \o c
    BY <2>3, <2>4, Composed
  <2>7. Asked(asked')
    BY <2>2, <2>4 DEF Asked
  <2> QED
    BY <2>5, <2>6, <2>7 DEF WireInv, CommandArrives, AnswerArrives
<1>2. CASE \E text \in TextsUpTo(MaxArgs, {Space} \cup Letters) \ {<<>>} : AsksFact(text)
  <2>1. PICK text \in TextsUpTo(MaxArgs, {Space} \cup Letters) \ {<<>>} : AsksFact(text)
    BY <1>2
  <2>2. text \in Seq({Space} \cup Letters) \ {<<>>}
    BY TextTypes, WireAssumption
  <2>3. text \in Seq(Nat) /\ <<>> \in Seq(Nat) /\ <<>> \o text = text
    BY <2>2, LetterTypes, EmptySeq, ConcatEmptySeq
  <2>4. asked' = Fact(text) /\ Compose(<<>>, text, "asked")
    BY <2>1 DEF AsksFact
  <2>5. BodyOf(asked') = text
    BY <2>4 DEF BodyOf
  <2>6. \/ stage' = "overrun"
        \/ stage' = "asked" /\ SubSeq(message', 3, SizeOf(message')) = <<>> \o text
    BY <2>3, <2>4, Composed
  <2>7. Asked(asked')
    BY <2>2, <2>4 DEF Asked
  <2> QED
    BY <2>3, <2>5, <2>6, <2>7 DEF WireInv, CommandArrives, AnswerArrives
<1>3. CASE \E text \in TextsUpTo(MaxText, {Space} \cup Letters) : PublishStatus(text)
  <2>1. PICK text \in TextsUpTo(MaxText, {Space} \cup Letters) : PublishStatus(text)
    BY <1>3
  <2> DEFINE h == (<<NUL>> \o CommandIdNone) \o <<1>>
  <2>2. text \in Seq({Space} \cup Letters)
    BY TextTypes, WireAssumption
  <2>3. text \in Seq(Nat) /\ h \in Seq(Nat)
    BY <2>2, LetterTypes, HeaderTypes, ByteAfter
  <2>4. said' = Report(TRUE, text) /\ Compose(h, text, "said")
    BY <2>1 DEF PublishStatus
  <2>5. SpokenOf(said') = h \o text
    BY <2>4 DEF SpokenOf, Flag
  <2> HIDE DEF h
  <2>6. \/ stage' = "overrun"
        \/ stage' = "said" /\ SubSeq(message', 3, SizeOf(message')) = h \o text
    BY <2>3, <2>4, Composed
  <2>7. Said(said')
    BY <2>2, <2>4 DEF Said
  <2> QED
    BY <2>5, <2>6, <2>7 DEF WireInv, CommandArrives, AnswerArrives
<1>4. CASE \E text \in TextsUpTo(MaxText, {Space} \cup Letters) : SendText(text)
  <2>1. PICK text \in TextsUpTo(MaxText, {Space} \cup Letters) : SendText(text)
    BY <1>4
  <2>2. text \in Seq({Space} \cup Letters) /\ text # <<>>
    BY <2>1, TextTypes, WireAssumption DEF SendText
  <2>3. text \in Seq(Nat) /\ <<>> \in Seq(Nat) /\ <<>> \o text = text
    BY <2>2, LetterTypes, EmptySeq, ConcatEmptySeq
  <2>4. said' = Line(text) /\ Compose(<<>>, text, "said")
    BY <2>1 DEF SendText
  <2>5. SpokenOf(said') = text
    BY <2>4 DEF SpokenOf
  <2>6. \/ stage' = "overrun"
        \/ stage' = "said" /\ SubSeq(message', 3, SizeOf(message')) = <<>> \o text
    BY <2>3, <2>4, Composed
  <2>7. Said(said')
    BY <2>2, <2>4 DEF Said
  <2> QED
    BY <2>3, <2>5, <2>6, <2>7 DEF WireInv, CommandArrives, AnswerArrives
<1> QED
  BY <1>1, <1>2, <1>3, <1>4 DEF Starts

\* The server takes out of the stream what was put in.
LEMMA ServerReadsWell ==
    ASSUME WireInv, ServerReads
    PROVE  WireInv'
<1>1. /\ stage = "asked" /\ stage' = "received" /\ UNCHANGED <<asked, got, said, heard>>
      /\ message' = SubSeq(message, 3, SizeOf(message)) \o <<NUL>>
  BY DEF ServerReads
<1>2. Asked(asked) /\ SubSeq(message, 3, SizeOf(message)) = BodyOf(asked)
  BY <1>1 DEF WireInv
<1>3. message' = BodyOf(asked') \o <<NUL>>
  BY <1>1, <1>2
<1> QED
  BY <1>1, <1>2, <1>3 DEF WireInv, CommandArrives, AnswerArrives

\* The bytes of a request, as the server received it.
LEMMA RequestReceived ==
    ASSUME NEW cmd \in Commands, NEW args \in Seq({NUL, Space} \cup Letters), NEW id \in Ids
    PROVE  LET m == ((<<NUL>> \o id) \o TextOf(cmd, args)) \o <<NUL>> IN
             /\ IsCommand(m) /\ SubSeq(m, 1, 5) = <<NUL>> \o id /\ SubSeq(m, 2, 5) = id
             /\ From(m, 6) = TextOf(cmd, args) \o <<NUL>>
<1> DEFINE m == ((<<NUL>> \o id) \o TextOf(cmd, args)) \o <<NUL>>
           h == <<NUL>> \o id
           c == TextOf(cmd, args)
           r == c \o <<NUL>>
<1>1. c \in Seq(Nat) /\ NUL \in Nat
  BY Splits DEF NUL
<1>2. r \in Seq(Nat) /\ Len(r) = Len(c) + 1 /\ <<NUL>> \in Seq(Nat) /\ Len(c) \in Nat
  BY <1>1, ByteAfter, Single, LenProperties
<1>3. h \in Seq(Nat) /\ Len(h) = 5 /\ h[1] = NUL /\ SubSeq(h, 2, 5) = id
  BY HeaderTypes
<1>4. m = h \o r
  <2> HIDE DEF h, c
  <2>1. (h \o c) \o <<NUL>> = h \o (c \o <<NUL>>)
    BY <1>1, <1>2, <1>3, Joined
  <2> QED
    BY <2>1 DEF h, c
<1> HIDE DEF h, r, m
<1>5. /\ m \in Seq(Nat) /\ Len(m) = Len(h) + Len(r)
      /\ \A i \in 1 .. Len(h) : m[i] = h[i]
      /\ SubSeq(m, 1, Len(h)) = h
      /\ SubSeq(m, Len(h) + 1, Len(h) + Len(r)) = r
  <2>1. h \in Seq(Nat) /\ r \in Seq(Nat)
    BY <1>2, <1>3
  <2>2. /\ h \o r \in Seq(Nat) /\ Len(h \o r) = Len(h) + Len(r)
        /\ \A i \in 1 .. Len(h) : (h \o r)[i] = h[i]
        /\ SubSeq(h \o r, 1, Len(h)) = h
        /\ SubSeq(h \o r, Len(h) + 1, Len(h) + Len(r)) = r
    BY <2>1, Cut
  <2> QED
    BY <1>4, <2>2, Zenon
<1>6. m[1] = NUL /\ Len(m) > 5
  <2>1. 1 \in 1 .. Len(h)
    BY <1>3
  <2>2. Len(m) = 5 + (Len(c) + 1) /\ Len(c) \in Nat
    BY <1>2, <1>3, <1>5
  <2> HIDE DEF c
  <2>3. Len(m) > 5
    BY <2>2
  <2>4. m[1] = h[1]
    BY <1>5, <2>1
  <2> QED
    BY <1>3, <2>3, <2>4
<1>7. From(m, 6) = r
  <2>1. Len(h) + 1 = 6 /\ Len(h) + Len(r) = Len(m)
    BY <1>3, <1>5
  <2>2. SubSeq(m, 6, Len(m)) = r
    BY <1>5, <2>1
  <2> QED
    BY <2>2 DEF From
<1>8. SubSeq(m, 2, 5) = id
  <2>1. 2 \in 1 .. Len(h) /\ 5 \in 1 .. Len(h)
    BY <1>3
  <2>2. SubSeq(h \o r, 2, 5) = SubSeq(h, 2, 5)
    BY <1>2, <1>3, <2>1, SubSeqOfConcat1
  <2> QED
    BY <1>3, <1>4, <2>2
<1>9. SubSeq(m, 1, 5) = h
  BY <1>3, <1>5
<1> QED
  BY <1>6, <1>7, <1>8, <1>9 DEF IsCommand, h, r, m

\* The server makes of a message what was meant.
LEMMA ParsesWell ==
    ASSUME WireInv, Parse
    PROVE  WireInv'
<1> USE DEF RequestFor, Fact
<1>1. stage = "received" /\ stage' = "parsed" /\ UNCHANGED <<asked, message, said, heard>>
  BY DEF Parse
<1>2. Asked(asked) /\ message = BodyOf(asked) \o <<NUL>>
  BY <1>1 DEF WireInv
<1>3. ASSUME NEW cmd \in Commands, NEW args \in Seq({NUL, Space} \cup Letters), NEW id \in Ids,
             asked = RequestFor(cmd, args, id)
      PROVE  WireInv'
  <2> DEFINE m == ((<<NUL>> \o id) \o TextOf(cmd, args)) \o <<NUL>>
  <2>0. /\ IsCommand(m) /\ SubSeq(m, 1, 5) = <<NUL>> \o id /\ SubSeq(m, 2, 5) = id
        /\ From(m, 6) = TextOf(cmd, args) \o <<NUL>>
    BY RequestReceived
  <2>1. message = m
    BY <1>2, <1>3 DEF BodyOf
  <2> HIDE DEF m
  <2>2. /\ IsCommand(message) /\ SubSeq(message, 1, 5) = <<NUL>> \o id
        /\ SubSeq(message, 2, 5) = id
        /\ From(message, 6) = TextOf(cmd, args) \o <<NUL>>
    BY <2>0, <2>1, Zenon
  <2>3. SplitCommand(TextOf(cmd, args) \o <<NUL>>) = [cmd |-> cmd, args |-> UpToNUL(args)]
    BY Splits
  <2>4. got' = RequestFor(cmd, UpToNUL(args), id)
    <3>1. SplitCommand(From(message, 6)) = [cmd |-> cmd, args |-> UpToNUL(args)]
      BY <2>2, <2>3
    <3>2. got' = RequestFor(SplitCommand(From(message, 6)).cmd,
                            SplitCommand(From(message, 6)).args, SubSeq(message, 2, 5))
      BY <2>2 DEF Parse
    <3>3. /\ SplitCommand(From(message, 6)).cmd = cmd
          /\ SplitCommand(From(message, 6)).args = UpToNUL(args)
      BY <3>1
    <3> QED
      BY <2>2, <3>2, <3>3, Zenon
  <2>5. asked' = RequestFor(cmd, args, id)
    BY <1>1, <1>3
  <2>6. SubSeq(message', 1, 5) = <<NUL>> \o asked'.id
    <3>1. asked'.id = id /\ message' = message
      BY <1>1, <2>5
    <3> QED
      BY <2>2, <3>1
  <2>7. CommandArrives'
    BY <2>4, <2>5 DEF CommandArrives
  <2> QED
    BY <1>1, <1>2, <2>6, <2>7 DEF WireInv, AnswerArrives
<1>4. ASSUME NEW text \in Seq({Space} \cup Letters) \ {<<>>}, asked = Fact(text)
      PROVE  WireInv'
  <2>1. message = text \o <<NUL>>
    BY <1>2, <1>4 DEF BodyOf
  <2>2. text \in Seq(Nat) /\ NUL \in Nat /\ Len(text) \in Nat \ {0}
    BY LetterTypes, EmptySeq DEF NUL
  <2>3. \A i \in 1 .. Len(text) : text[i] # NUL
    <3>1. \A i \in 1 .. Len(text) : i \in Nat
      BY <2>2
    <3> QED
      BY <3>1, LetterTypes
  <2>4. message[1] # NUL
    <3>1. message[1] = text[1] /\ 1 \in 1 .. Len(text)
      BY <2>1, <2>2, ByteAfter
    <3> QED
      BY <2>3, <3>1
  <2>5. UpToNUL(message) = text
    BY <2>1, <2>2, <2>3, Terminated
  <2>6. got'.kind = "fact" /\ got'.text = text
    BY <2>4, <2>5 DEF Parse, IsCommand
  <2>7. asked' = Fact(text)
    BY <1>1, <1>4
  <2>8. CommandArrives'
    BY <2>6, <2>7 DEF CommandArrives
  <2> QED
    BY <1>1, <1>2, <2>7, <2>8 DEF WireInv, AnswerArrives
<1> QED
  BY <1>2, <1>3, <1>4 DEF Asked

\* A request is acknowledged under its own first five bytes.
LEMMA AnswersWell ==
    ASSUME WireInv, Answers
    PROVE  WireInv'
<1> USE DEF Reply, Report
<1>1. PICK success \in BOOLEAN, text \in TextsUpTo(MaxText, {Space} \cup Letters) :
          Acknowledge(success, text)
  BY DEF Answers
<1>2. stage = "parsed" /\ got.kind = "request" /\ UNCHANGED asked
  BY <1>1 DEF Answers, Acknowledge
<1>3. asked.kind = "request" /\ Asked(asked) /\ SubSeq(message, 1, 5) = <<NUL>> \o asked.id
  BY <1>2 DEF WireInv, CommandArrives
<1>4. asked.id \in Ids
  BY <1>3 DEF Asked, RequestFor, Fact
<1> DEFINE h == (<<NUL>> \o asked.id) \o <<Flag(success)>>
<1>5. text \in Seq({Space} \cup Letters)
  BY TextTypes, WireAssumption
<1>6. text \in Seq(Nat) /\ h \in Seq(Nat)
  <2>1. Flag(success) \in Nat
    BY DEF Flag
  <2> QED
    BY <1>4, <1>5, <2>1, LetterTypes, HeaderTypes, ByteAfter
<1>7. /\ said' = IF asked.id = CommandIdNone THEN Report(success, text)
                 ELSE Reply(asked.id, success, text)
      /\ Compose(h, text, "said")
  BY <1>1, <1>3 DEF Acknowledge
<1>8. SpokenOf(said') = h \o text
  BY <1>7 DEF SpokenOf
<1> HIDE DEF h
<1>9. \/ stage' = "overrun"
      \/ stage' = "said" /\ SubSeq(message', 3, SizeOf(message')) = h \o text
  BY <1>6, <1>7, Composed
<1>10. Said(said')
  BY <1>4, <1>5, <1>7 DEF Said
<1> QED
  BY <1>8, <1>9, <1>10 DEF WireInv, CommandArrives, AnswerArrives

\* The client takes out of the stream what was put in.
LEMMA ClientReadsWell ==
    ASSUME WireInv, ClientReads
    PROVE  WireInv'
<1>1. /\ stage = "said" /\ stage' = "taken" /\ UNCHANGED <<asked, got, said, heard>>
      /\ message' = SubSeq(message, 3, SizeOf(message))
  BY DEF ClientReads
<1>2. Said(said) /\ SubSeq(message, 3, SizeOf(message)) = SpokenOf(said)
  BY <1>1 DEF WireInv
<1> QED
  BY <1>1, <1>2 DEF WireInv, CommandArrives, AnswerArrives

\* The parts of a reply or a report.
LEMMA ReplyTaken ==
    ASSUME NEW id \in Ids \cup {CommandIdNone}, NEW success \in BOOLEAN, NEW t \in Seq(Nat),
           NEW m, m = ((<<NUL>> \o id) \o <<Flag(success)>>) \o t
    PROVE  m[1] = NUL /\ ~(Len(m) < 6) /\ FromMessage(m) = Reply(id, success, t)
<1> DEFINE h == <<NUL>> \o id
           b == Flag(success)
           f == h \o <<b>>
<1>1. b \in Nat /\ (b # 0 <=> success)
  BY DEF Flag
<1>2. h \in Seq(Nat) /\ Len(h) = 5 /\ h[1] = NUL /\ SubSeq(h, 2, 5) = id
  BY HeaderTypes
<1> HIDE DEF h, b
<1>3. f \in Seq(Nat) /\ Len(f) = 6 /\ f[6] = b /\ f[1] = NUL
  <2>1. /\ f \in Seq(Nat) /\ Len(f) = Len(h) + 1 /\ f[Len(h) + 1] = b
        /\ \A i \in 1 .. Len(h) : f[i] = h[i]
    BY <1>1, <1>2, ByteAfter
  <2>2. 1 \in 1 .. Len(h) /\ Len(h) + 1 = 6
    BY <1>2
  <2> QED
    BY <1>2, <2>1, <2>2
<1>4. SubSeq(f, 2, 5) = id
  <2>1. 2 \in 1 .. Len(h) /\ 5 \in 1 .. Len(h) /\ <<b>> \in Seq(Nat)
    BY <1>1, <1>2, Single
  <2> QED
    BY <1>2, <2>1, SubSeqOfConcat1
<1> HIDE DEF f
<1>5. m = f \o t
  BY DEF f, h, b
<1>6. /\ m \in Seq(Nat) /\ Len(m) = 6 + Len(t) /\ Len(t) \in Nat
      /\ \A i \in 1 .. Len(f) : m[i] = f[i]
      /\ SubSeq(m, 7, 6 + Len(t)) = t
  <2>1. /\ m \in Seq(Nat) /\ Len(m) = Len(f) + Len(t) /\ Len(t) \in Nat
        /\ \A i \in 1 .. Len(f) : m[i] = f[i]
        /\ SubSeq(m, Len(f) + 1, Len(f) + Len(t)) = t
    <3>1. f \in Seq(Nat)
      BY <1>3
    <3>2. /\ f \o t \in Seq(Nat) /\ Len(f \o t) = Len(f) + Len(t) /\ Len(t) \in Nat
          /\ \A i \in 1 .. Len(f) : (f \o t)[i] = f[i]
          /\ SubSeq(f \o t, Len(f) + 1, Len(f) + Len(t)) = t
      BY <3>1, Cut
    <3> QED
      BY <1>5, <3>2, Zenon
  <2>2. Len(f) + 1 = 7 /\ Len(f) + Len(t) = 6 + Len(t)
    BY <1>3
  <2> QED
    BY <2>1, <2>2
<1>7. m[1] = NUL /\ m[6] = b
  <2>1. 1 \in 1 .. Len(f) /\ 6 \in 1 .. Len(f)
    BY <1>3
  <2> QED
    BY <1>3, <1>6, <2>1
<1>8. SubSeq(m, 2, 5) = id
  <2>1. 2 \in 1 .. Len(f) /\ 5 \in 1 .. Len(f)
    BY <1>3
  <2>2. SubSeq(f \o t, 2, 5) = SubSeq(f, 2, 5)
    BY <1>3, <2>1, SubSeqOfConcat1
  <2> QED
    BY <1>4, <1>5, <2>2
<1>9. (IF Len(m) > 6 THEN From(m, 7) ELSE <<>>) = t
  <2>1. CASE Len(t) = 0
    <3>1. t = <<>>
      BY <2>1, EmptySeq
    <3> QED
      BY <1>6, <2>1, <3>1
  <2>2. CASE Len(t) # 0
    <3>1. Len(m) > 6
      BY <1>6, <2>2
    <3> QED
      BY <1>6, <3>1 DEF From
  <2> QED
    BY <2>1, <2>2
<1>10. FromMessage(m) = Reply(id, success, t)
  <2>1. (m[6] # 0) = success
    BY <1>1, <1>7
  <2> QED
    BY <1>8, <1>9, <2>1 DEF FromMessage, Reply
<1> QED
  BY <1>6, <1>7, <1>10

\* The client makes of a message what was meant.
LEMMA HearsWell ==
    ASSUME WireInv, ClientHears
    PROVE  WireInv'
<1>1. stage = "taken" /\ stage' = "heard" /\ UNCHANGED <<asked, message, got, said>>
  BY DEF ClientHears
<1>2. Said(said) /\ message = SpokenOf(said)
  BY <1>1 DEF WireInv
<1>3. PICK success \in BOOLEAN, text \in Seq({Space} \cup Letters) :
          \/ said = Report(success, text)
          \/ \E id \in Ids : id # CommandIdNone /\ said = Reply(id, success, text)
          \/ text # <<>> /\ said = Line(text)
  BY <1>2 DEF Said
<1>4. text \in Seq(Nat)
  BY LetterTypes
<1>5. heard' = said
  <2>1. CASE said = Report(success, text)
    <3>1. message = ((<<NUL>> \o CommandIdNone) \o <<Flag(success)>>) \o text
      BY <1>2, <2>1 DEF SpokenOf, Report
    <3>2. /\ message[1] = NUL /\ ~(Len(message) < 6)
          /\ FromMessage(message) = Reply(CommandIdNone, success, text)
      BY <1>4, <3>1, ReplyTaken
    <3> QED
      BY <2>1, <3>2 DEF ClientHears, Reply, Report
  <2>2. CASE \E id \in Ids : id # CommandIdNone /\ said = Reply(id, success, text)
    <3>1. PICK id \in Ids : id # CommandIdNone /\ said = Reply(id, success, text)
      BY <2>2
    <3>2. message = ((<<NUL>> \o id) \o <<Flag(success)>>) \o text
      BY <1>2, <3>1 DEF SpokenOf, Reply
    <3>3. /\ message[1] = NUL /\ ~(Len(message) < 6)
          /\ FromMessage(message) = Reply(id, success, text)
      BY <1>4, <3>2, ReplyTaken
    <3> QED
      BY <3>1, <3>3 DEF ClientHears, Reply
  <2>3. CASE text # <<>> /\ said = Line(text)
    <3>1. message = text
      BY <1>2, <2>3 DEF SpokenOf, Line
    <3>2. Len(text) \in Nat \ {0}
      BY <1>4, <2>3, EmptySeq
    <3>3. 1 \in 1 .. Len(text) /\ 1 \in Nat
      BY <3>2
    <3>4. message[1] # NUL
      BY <3>1, <3>3, LetterTypes
    <3> QED
      BY <2>3, <3>1, <3>4 DEF ClientHears
  <2> QED
    BY <1>3, <2>1, <2>2, <2>3
<1> QED
  BY <1>1, <1>5 DEF WireInv, CommandArrives, AnswerArrives

\* A message holds what is meant, all the way.
LEMMA WireInvariant == Spec => []WireInv
<1>1. Init => WireInv
  BY DEF Init, WireInv, CommandArrives, AnswerArrives
<1>2. WireInv /\ [Next]_vars => WireInv'
  <2> SUFFICES ASSUME WireInv, [Next]_vars PROVE WireInv'
    OBVIOUS
  <2>1. CASE UNCHANGED vars
    BY <2>1 DEF vars, WireInv, CommandArrives, AnswerArrives
  <2> QED
    BY <2>1, StartsWell, ServerReadsWell, ParsesWell, AnswersWell, ClientReadsWell, HearsWell
       DEF Next
<1> QED
  BY <1>1, <1>2, PTL DEF Spec

\* The command that the server executes is the one that was asked for, with
\* its very arguments up to their first NUL and under its own id (getPayload,
\* fetchStringFromBuffer, splitCommand), whatever bytes these have; and the
\* text of a fact is taken for one.
THEOREM CommandsArrive == Spec => []CommandArrives
<1>1. WireInv => CommandArrives
  BY DEF WireInv
<1> QED
  BY <1>1, WireInvariant, PTL

\* The client hears what the server said: replies under the id asked with and
\* reports and texts for what they are, complete, up to the largest size
\* (acknowledgeMessage, publishStatus, asyncReadHandler, Reply::fromMessage).
THEOREM AnswersArrive == Spec => []AnswerArrives
<1>1. WireInv => AnswerArrives
  BY DEF WireInv
<1> QED
  BY <1>1, WireInvariant, PTL
=============================================================================
