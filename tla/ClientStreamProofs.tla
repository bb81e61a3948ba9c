------------------------- MODULE ClientStreamProofs -------------------------
(***************************************************************************)
(* ClientStream's type invariant, for any names, mails, chunks, abandoned  *)
(* calls and restarts, with what its proof needs to know of the text on    *)
(* the Gmail connection: where a read ends, what a read leaves, and what   *)
(* receive_emails makes of the text it has read.  Then what holds of the   *)
(* Key Server connection, for any traffic on the Gmail connection, any     *)
(* lengths of keys and shares, and any number of abandoned calls.          *)
(***************************************************************************)
EXTENDS ClientStream, SequenceTheorems, FiniteSetTheorems, WellFoundedInduction, TLAPS

-----------------------------------------------------------------------------
(* Queues *)

\* A request is sent: the queue is one longer, and is as it was before its end.
LEMMA AppendLemma ==
    ASSUME NEW S, NEW q \in Seq(S), NEW x
    PROVE  /\ Append(q, x) \in Seq(S \cup {x})
           /\ Len(Append(q, x)) = Len(q) + 1 /\ Len(q) \in Nat
           /\ \A k \in 1..Len(q) : Append(q, x)[k] = q[k]
           /\ Append(q, x)[Len(q) + 1] = x
<1>1. q \in Seq(S \cup {x}) /\ x \in S \cup {x}
  BY SeqMonotonic
<1> QED BY <1>1, AppendProperties, LenProperties

\* An answer is read: the queue is one shorter.
LEMMA TailLemma ==
    ASSUME NEW S, NEW q \in Seq(S), q # <<>>
    PROVE  /\ Tail(q) \in Seq(S) /\ Len(q) \in Nat /\ Len(q) > 0
           /\ Len(Tail(q)) = Len(q) - 1
           /\ \A k \in 1..Len(Tail(q)) : Tail(q)[k] = q[k + 1]
           /\ Head(q) = q[1]
BY HeadTailProperties, LenProperties, EmptySeq

-----------------------------------------------------------------------------
(* Induction over a number, with a set for the predicate *)

\* A set of naturals has a least element.
LEMMA LeastNumber ==
    ASSUME NEW S, S \subseteq Nat, S # {}
    PROVE  \E m \in S : \A k \in S : m <= k
<1> DEFINE R == {ss \in Nat \X Nat : ss[1] < ss[2]}
<1>1. IsWellFoundedOn(R, Nat)
  BY NatLessThanWellFounded DEF OpToRel
<1>2. \A x, y \in Nat : x < y => <<x, y>> \in R
  OBVIOUS
<1> HIDE DEF R
<1>3. PICK x \in S : \A y \in S : ~ (<<y, x>> \in R)
  BY <1>1, WFMin
<1>4. \A y \in S : ~(y < x)
  BY <1>2, <1>3
<1>5. \A y \in S : x <= y
  BY <1>4
<1> QED BY <1>5

\* What holds at 0, and at k + 1 where it holds at k, holds up to n.
LEMMA UpTo ==
    ASSUME NEW S, NEW n \in Nat, 0 \in S, \A k \in 0..(n - 1) : k \in S => k + 1 \in S
    PROVE  \A k \in 0..n : k \in S
<1> DEFINE T == {k \in 0..n : k \notin S}
<1> SUFFICES ASSUME T # {} PROVE FALSE
  OBVIOUS
<1>1. PICK m \in T : \A k \in T : m <= k
  <2>1. T \subseteq Nat
    OBVIOUS
  <2> HIDE DEF T
  <2> QED BY <2>1, LeastNumber
<1>2. m # 0 /\ m \in 0..n /\ m \notin S
  OBVIOUS
<1>3. m - 1 \in 0..(n - 1) /\ m - 1 \notin T
  BY <1>1, <1>2
<1>4. m - 1 \in S
  BY <1>2, <1>3
<1>5. (m - 1) + 1 \in S
  BY <1>3, <1>4
<1> QED BY <1>2, <1>5

-----------------------------------------------------------------------------
(* Where a read ends *)

\* The first entry of a sequence that is in a set.
LEMMA FirstEntry ==
    ASSUME NEW S, NEW s \in Seq(S), NEW K, \E k \in 1..Len(s) : k \in K
    PROVE  \E k \in 1..Len(s) : k \in K /\ \A j \in 1..(k - 1) : j \notin K
<1> DEFINE T == {k \in 1..Len(s) : k \in K}
<1>1. Len(s) \in Nat
  BY LenProperties
<1>2. PICK m \in T : \A k \in T : m <= k
  <2>1. T \subseteq Nat /\ T # {}
    BY <1>1
  <2> HIDE DEF T
  <2> QED BY <2>1, LeastNumber
<1>3. \A j \in 1..(m - 1) : j \notin K
  BY <1>1, <1>2
<1> QED BY <1>3

\* tls_recv reads up to the first end of a record.
LEMMA RecordLemma ==
    ASSUME NEW S, fromGmail \in Seq(S), fromGmail # <<>>, fromGmail[Len(fromGmail)].last
    PROVE  /\ RecordAtHead \in 1..Len(fromGmail) /\ Len(fromGmail) \in Nat
           /\ fromGmail[RecordAtHead].last
           /\ \A j \in 1..(RecordAtHead - 1) : ~fromGmail[j].last
<1> DEFINE K == {k \in 1..Len(fromGmail) : fromGmail[k].last}
<1>1. Len(fromGmail) \in Nat /\ Len(fromGmail) > 0
  BY EmptySeq, LenProperties
<1>2. Len(fromGmail) \in K
  BY <1>1
<1>3. PICK k \in 1..Len(fromGmail) : k \in K /\ \A j \in 1..(k - 1) : j \notin K
  <2> HIDE DEF K
  <2> QED BY <1>1, <1>2, FirstEntry
<1>4. fromGmail[k].last /\ \A j \in 1..(k - 1) : ~fromGmail[j].last
  BY <1>1, <1>3
<1> QED BY <1>1, <1>4 DEF RecordAtHead, FirstIndex

\* tls_read_line reads up to the first end of a line.
LEMMA LineLemma ==
    ASSUME NEW S, fromGmail \in Seq(S), LineIsThere
    PROVE  /\ LineAtHead \in 1..Len(fromGmail) /\ Len(fromGmail) \in Nat
           /\ EndsLine(fromGmail[LineAtHead])
           /\ \A j \in 1..(LineAtHead - 1) : ~EndsLine(fromGmail[j])
<1> DEFINE K == {k \in 1..Len(fromGmail) : EndsLine(fromGmail[k])}
<1>1. Len(fromGmail) \in Nat
  BY LenProperties
<1>2. \E k \in 1..Len(fromGmail) : k \in K
  BY DEF LineIsThere
<1>3. PICK k \in 1..Len(fromGmail) : k \in K /\ \A j \in 1..(k - 1) : j \notin K
  <2> HIDE DEF K
  <2> QED BY <1>2, FirstEntry
<1>4. EndsLine(fromGmail[k]) /\ \A j \in 1..(k - 1) : ~EndsLine(fromGmail[j])
  BY <1>1, <1>3
<1> QED BY <1>1, <1>4 DEF LineAtHead, FirstIndex

-----------------------------------------------------------------------------
(* What is unread on the Gmail connection *)

\* Whole answers: the last one is complete, and a line OP_TOKEN is followed by
\* its token, with which it was sent.
WholeAnswers(s) ==
    /\ s \in Seq(GmailItems)
    /\ s # <<>> => s[Len(s)].last
    /\ \A k \in 1..Len(s) :
         s[k].kind = "OP_TOKEN" => k < Len(s) /\ s[k + 1].kind = "token"

\* One more answer.
LEMMA AnswerAdded ==
    ASSUME NEW s, WholeAnswers(s), NEW t, WholeAnswers(t)
    PROVE  WholeAnswers(s \o t)
<1> DEFINE u == s \o t
<1>1. /\ Len(s) \in Nat /\ Len(t) \in Nat
      /\ u \in Seq(GmailItems) /\ Len(u) = Len(s) + Len(t)
      /\ \A i \in 1..(Len(s) + Len(t)) : u[i] = IF i <= Len(s) THEN s[i] ELSE t[i - Len(s)]
  BY ConcatProperties, LenProperties DEF WholeAnswers
<1> HIDE DEF u
<1>2. ASSUME u # <<>> PROVE u[Len(u)].last
  <2>1. CASE t # <<>>
    <3>1. Len(t) > 0 /\ t[Len(t)].last
      BY <2>1, EmptySeq DEF WholeAnswers
    <3>2. u[Len(u)] = t[Len(t)]
      BY <1>1, <3>1
    <3> QED BY <3>1, <3>2
  <2>2. CASE t = <<>>
    <3>1. u = s
      BY <2>2, ConcatEmptySeq DEF WholeAnswers, u
    <3> QED BY <1>2, <3>1 DEF WholeAnswers
  <2> QED BY <2>1, <2>2
<1>3. ASSUME NEW k \in 1..Len(u), u[k].kind = "OP_TOKEN"
      PROVE  k < Len(u) /\ u[k + 1].kind = "token"
  <2>1. CASE k <= Len(s)
    <3>1. s[k].kind = "OP_TOKEN" /\ k \in 1..Len(s)
      BY <1>1, <1>3, <2>1
    <3>2. k < Len(s) /\ s[k + 1].kind = "token"
      BY <3>1 DEF WholeAnswers
    <3> QED BY <1>1, <3>2
  <2>2. CASE k > Len(s)
    <3>1. k - Len(s) \in 1..Len(t) /\ t[k - Len(s)].kind = "OP_TOKEN"
      BY <1>1, <1>3, <2>2
    <3>2. k - Len(s) < Len(t) /\ t[(k - Len(s)) + 1].kind = "token"
      BY <3>1 DEF WholeAnswers
    <3>3. u[k + 1] = t[(k - Len(s)) + 1]
      BY <1>1, <2>2, <3>2
    <3> QED BY <1>1, <3>2, <3>3
  <2> QED BY <1>1, <2>1, <2>2
<1> QED BY <1>1, <1>2, <1>3 DEF WholeAnswers, u

\* What a read leaves.
LEMMA AnswersLeft ==
    ASSUME NEW s, WholeAnswers(s), NEW n \in 0..Len(s)
    PROVE  /\ WholeAnswers(SubSeq(s, n + 1, Len(s)))
           /\ Len(SubSeq(s, n + 1, Len(s))) = Len(s) - n
           /\ \A k \in 1..(Len(s) - n) : SubSeq(s, n + 1, Len(s))[k] = s[n + k]
<1> DEFINE u == SubSeq(s, n + 1, Len(s))
<1>1. Len(s) \in Nat /\ \A i \in (n + 1)..Len(s) : s[i] \in GmailItems
  BY ElementOfSeq, LenProperties DEF WholeAnswers
<1>2. /\ u \in Seq(GmailItems)
      /\ Len(u) = IF n + 1 <= Len(s) THEN Len(s) - (n + 1) + 1 ELSE 0
      /\ \A i \in 1..(Len(s) - (n + 1) + 1) : u[i] = s[(n + 1) + i - 1]
  BY <1>1, SubSeqProperties
<1> HIDE DEF u
<1>3. Len(u) = Len(s) - n /\ \A k \in 1..(Len(s) - n) : u[k] = s[n + k]
  <2>1. Len(u) = Len(s) - n
    BY <1>1, <1>2
  <2>2. ASSUME NEW k \in 1..(Len(s) - n) PROVE u[k] = s[n + k]
    <3>1. k \in 1..(Len(s) - (n + 1) + 1) /\ (n + 1) + k - 1 = n + k
      BY <1>1
    <3>2. u[k] = s[(n + 1) + k - 1]
      BY <1>2, <3>1
    <3> QED BY <3>1, <3>2
  <2> QED BY <2>1, <2>2
<1>4. u # <<>> => u[Len(u)].last
  <2> SUFFICES ASSUME u # <<>> PROVE u[Len(u)].last
    OBVIOUS
  <2>1. Len(u) > 0
    BY <1>2, EmptySeq
  <2>2. u[Len(u)] = s[Len(s)] /\ s # <<>>
    BY <1>1, <1>3, <2>1, EmptySeq
  <2> QED BY <2>2 DEF WholeAnswers
<1>5. ASSUME NEW k \in 1..Len(u), u[k].kind = "OP_TOKEN"
      PROVE  k < Len(u) /\ u[k + 1].kind = "token"
  <2>1. n + k \in 1..Len(s) /\ s[n + k].kind = "OP_TOKEN"
    BY <1>1, <1>3, <1>5
  <2>2. n + k < Len(s) /\ s[n + k + 1].kind = "token"
    BY <2>1 DEF WholeAnswers
  <2>3. k + 1 \in 1..(Len(s) - n) /\ n + (k + 1) = n + k + 1
    BY <1>1, <1>3, <2>2
  <2>4. k < Len(u)
    BY <1>1, <1>3, <1>5, <2>2
  <2>5. u[k + 1] = s[n + (k + 1)]
    BY <1>3, <2>3
  <2>6. u[k + 1].kind = "token"
    BY <2>2, <2>3, <2>5
  <2> QED BY <2>4, <2>6
<1> QED BY <1>2, <1>3, <1>4, <1>5 DEF WholeAnswers, u

\* The answers of two lines, and of one.
LEMMA ShortAnswers ==
    ASSUME NEW x \in GmailItems, NEW y \in GmailItems, y.last
    PROVE  /\ y.kind # "OP_TOKEN" => WholeAnswers(<<y>>)
           /\ y.kind # "OP_TOKEN" /\ (x.kind = "OP_TOKEN" => y.kind = "token") => WholeAnswers(<<x, y>>)
<1>1. /\ <<y>> \in Seq(GmailItems) /\ Len(<<y>>) = 1 /\ <<y>>[1] = y
      /\ <<x, y>> \in Seq(GmailItems) /\ Len(<<x, y>>) = 2 /\ <<x, y>>[1] = x /\ <<x, y>>[2] = y
  OBVIOUS
<1>2. ASSUME y.kind # "OP_TOKEN" PROVE WholeAnswers(<<y>>)
  BY <1>1, <1>2 DEF WholeAnswers
<1>3. ASSUME y.kind # "OP_TOKEN", x.kind = "OP_TOKEN" => y.kind = "token"
      PROVE  WholeAnswers(<<x, y>>)
  <2> DEFINE u == <<x, y>>
  <2>1. u \in Seq(GmailItems) /\ Len(u) = 2 /\ u[1] = x /\ u[2] = y
    BY <1>1
  <2> HIDE DEF u
  <2>2. \A k \in 1..Len(u) : k = 1 \/ k = 2
    BY <2>1
  <2>3. WholeAnswers(u)
    BY <1>3, <2>1, <2>2 DEF WholeAnswers
  <2> QED BY <2>3 DEF u
<1> QED BY <1>2, <1>3

\* An item has the fields it is given.
LEMMA ItemFields ==
    ASSUME NEW kind, NEW of, NEW last
    PROVE  /\ Item(kind, of, last).kind = kind /\ Item(kind, of, last).of = of
           /\ Item(kind, of, last).last = last
BY DEF Item

\* The items of a mail, and the lines of the other answers.
LEMMA MailItem ==
    ASSUME NEW m \in Mails, NEW b \in BOOLEAN, NEW kind \in {"front", "back"}
    PROVE  Item(kind, m, b) \in GmailItems
BY DEF Item, GmailItems

LEMMA LineItem ==
    ASSUME NEW b \in BOOLEAN,
           NEW kind \in {"END", "No emails found", "OP_TOKEN", "ERROR", "NUL", "OK:EMAIL_STORED"}
    PROVE  Item(kind, None, b) \in GmailItems
BY DEF Item, GmailItems

\* A mailbox as it is sent: three items a mail.
LEMMA ChunkedItems ==
    ASSUME NEW mails \in Seq(Mails), mails # <<>>, NEW cuts
    PROVE  /\ Len(mails) \in Nat /\ Len(mails) > 0 /\ Len(Chunked(mails, cuts)) = 3 * Len(mails)
           /\ \A k \in 1..Len(mails) :
                /\ mails[k] \in Mails
                /\ Chunked(mails, cuts)[3 * k - 2] = Item("front", mails[k], 3 * k - 2 \in cuts)
                /\ Chunked(mails, cuts)[3 * k - 1] = Item("back", mails[k], 3 * k - 1 \in cuts)
                /\ Chunked(mails, cuts)[3 * k] =
                     Item("END", None, 3 * k \in cuts \cup {3 * Len(mails)})
<1> DEFINE n == Len(mails)
           c == Chunked(mails, cuts)
<1>1. n \in Nat /\ n > 0 /\ \A k \in 1..n : mails[k] \in Mails
  BY ElementOfSeq, EmptySeq, LenProperties
<1>2. Len(c) = 3 * n
  BY <1>1 DEF Chunked
<1>3. ASSUME NEW k \in 1..n
      PROVE  /\ c[3 * k - 2] = Item("front", mails[k], 3 * k - 2 \in cuts)
             /\ c[3 * k - 1] = Item("back", mails[k], 3 * k - 1 \in cuts)
             /\ c[3 * k] = Item("END", None, 3 * k \in cuts \cup {3 * n})
  <2>1. /\ 3 * k - 2 \in 1..(3 * n) /\ (3 * k - 2) % 3 = 1 /\ ((3 * k - 2) + 2) \div 3 = k
        /\ 3 * k - 1 \in 1..(3 * n) /\ (3 * k - 1) % 3 = 2 /\ ((3 * k - 1) + 2) \div 3 = k
        /\ 3 * k \in 1..(3 * n) /\ (3 * k) % 3 = 0 /\ (3 * k + 2) \div 3 = k
    BY <1>1
  <2>2. ASSUME NEW i \in 1..(3 * n), i % 3 = 1, (i + 2) \div 3 = k
        PROVE  c[i] = Item("front", mails[k], i \in cuts)
    BY <2>2 DEF Chunked
  <2>3. ASSUME NEW i \in 1..(3 * n), i % 3 = 2, (i + 2) \div 3 = k
        PROVE  c[i] = Item("back", mails[k], i \in cuts)
    BY <2>3 DEF Chunked
  <2>4. ASSUME NEW i \in 1..(3 * n), i % 3 = 0, (i + 2) \div 3 = k
        PROVE  c[i] = Item("END", None, i \in cuts \cup {3 * n})
    BY <2>4 DEF Chunked
  <2> HIDE DEF c
  <2>5. c[3 * k - 2] = Item("front", mails[k], 3 * k - 2 \in cuts)
    BY <2>1, <2>2
  <2>6. c[3 * k - 1] = Item("back", mails[k], 3 * k - 1 \in cuts)
    BY <2>1, <2>3
  <2>7. c[3 * k] = Item("END", None, 3 * k \in cuts \cup {3 * n})
    BY <2>1, <2>4
  <2> QED BY <2>5, <2>6, <2>7
<1> QED BY <1>1, <1>2, <1>3 DEF c

\* Every item of it belongs to one of the mails.
LEMMA ThreeAMail ==
    ASSUME NEW n \in Nat, NEW i \in 1..(3 * n)
    PROVE  \E k \in 1..n : i = 3 * k - 2 \/ i = 3 * k - 1 \/ i = 3 * k
<1> DEFINE k == (i + 2) \div 3
<1>1. k \in 1..n /\ (i = 3 * k - 2 \/ i = 3 * k - 1 \/ i = 3 * k)
  OBVIOUS
<1> QED BY <1>1

\* It is a whole answer.
LEMMA ChunkedIsWhole ==
    ASSUME NEW mails \in Seq(Mails), mails # <<>>, NEW cuts
    PROVE  WholeAnswers(Chunked(mails, cuts))
<1> DEFINE n == Len(mails)
           c == Chunked(mails, cuts)
<1>1. /\ n \in Nat /\ n > 0 /\ Len(c) = 3 * n
      /\ \A k \in 1..n : mails[k] \in Mails
      /\ \A k \in 1..n : /\ c[3 * k - 2] = Item("front", mails[k], 3 * k - 2 \in cuts)
                         /\ c[3 * k - 1] = Item("back", mails[k], 3 * k - 1 \in cuts)
                         /\ c[3 * k] = Item("END", None, 3 * k \in cuts \cup {3 * n})
  BY ChunkedItems
<1>2. Len(c) = 3 * n /\ DOMAIN c = 1..(3 * n) /\ c = [i \in 1..(3 * n) |-> c[i]]
  BY <1>1 DEF Chunked
<1> HIDE DEF c
<1>3. ASSUME NEW i \in 1..(3 * n)
      PROVE  c[i] \in GmailItems /\ c[i].kind # "OP_TOKEN"
  <2>1. PICK k \in 1..n : i = 3 * k - 2 \/ i = 3 * k - 1 \/ i = 3 * k
    BY <1>1, ThreeAMail
  <2> DEFINE a == i \in cuts
             b == i \in cuts \cup {3 * n}
  <2>2. a \in BOOLEAN /\ b \in BOOLEAN
    OBVIOUS
  <2>3. \/ c[i] = Item("front", mails[k], a)
        \/ c[i] = Item("back", mails[k], a)
        \/ c[i] = Item("END", None, b)
    BY <1>1, <2>1
  <2> HIDE DEF a, b
  <2>4. mails[k] \in Mails
    BY <1>1
  <2>5. CASE c[i] = Item("front", mails[k], a)
    BY <2>2, <2>4, <2>5, MailItem, ItemFields
  <2>6. CASE c[i] = Item("back", mails[k], a)
    BY <2>2, <2>4, <2>6, MailItem, ItemFields
  <2>7. CASE c[i] = Item("END", None, b)
    <3>1. Item("END", None, b) \in GmailItems
      BY <2>2, LineItem
    <3>2. Item("END", None, b).kind = "END"
      BY ItemFields
    <3> QED BY <2>7, <3>1, <3>2
  <2> QED BY <2>3, <2>5, <2>6, <2>7
<1>4. c \in Seq(GmailItems)
  <2>1. c \in [1..(3 * n) -> GmailItems]
    BY <1>2, <1>3
  <2>2. 3 * n \in Nat
    BY <1>1
  <2> HIDE DEF n
  <2> QED BY <2>1, <2>2, SeqDef
<1>5. c[Len(c)].last
  <2> DEFINE b == 3 * n \in cuts \cup {3 * n}
  <2>1. b = TRUE
    OBVIOUS
  <2>2. c[3 * n] = Item("END", None, b)
    BY <1>1
  <2> HIDE DEF b
  <2>3. c[3 * n] = Item("END", None, TRUE)
    BY <2>1, <2>2
  <2>4. c[3 * n].last = TRUE
    BY <2>3 DEF Item
  <2> QED BY <1>2, <2>4
<1>6. WholeAnswers(c)
  BY <1>2, <1>3, <1>4, <1>5 DEF WholeAnswers
<1> QED BY <1>6 DEF c

-----------------------------------------------------------------------------
(* The loop of receive_emails over the text it has read *)

\* What the loop has found before it starts, and after it has passed one more item.
LoopStart == [mails |-> <<>>, start |-> 1]
LoopStep(text, before, k) ==
    IF text[k].kind # "END" THEN before
    ELSE [mails |-> before.mails \o MailIn(SubSeq(text, before.start, k - 1)),
          start |-> k + 1]

\* g is what the loop has found when it has passed the first k items, for each k.
LoopRun(text, g) ==
    /\ g[0] = LoopStart
    /\ \A k \in 1..Len(text) : g[k] = LoopStep(text, g[k - 1], k)

\* There is such a function, though it is defined by itself.
LEMMA LoopDefined ==
    ASSUME NEW text, NEW N \in Nat
    PROVE  \E g : g = [k \in 0..N |-> IF k = 0 THEN LoopStart ELSE LoopStep(text, g[k - 1], k)]
<1> DEFINE Upto(n, g) == g[0] = LoopStart /\ \A k \in 1..n : g[k] = LoopStep(text, g[k - 1], k)
           S == {n \in 0..N : \E g : Upto(n, g)}
<1>1. 0 \in S
  <2>1. Upto(0, [k \in 0..N |-> LoopStart])
    OBVIOUS
  <2> HIDE DEF Upto
  <2>2. \E g : Upto(0, g)
    BY <2>1
  <2> QED BY <2>2
<1>2. ASSUME NEW n \in 0..(N - 1), n \in S PROVE n + 1 \in S
  <2>1. PICK g : Upto(n, g)
    BY <1>2
  <2> DEFINE x == LoopStep(text, g[n], n + 1)
             h == [k \in 0..N |-> IF k <= n THEN g[k] ELSE x]
  <2> HIDE DEF x
  <2>2. h[n + 1] = x /\ \A k \in 0..n : h[k] = g[k]
    OBVIOUS
  <2> HIDE DEF h
  <2>3. ASSUME NEW k \in 1..(n + 1) PROVE h[k] = LoopStep(text, h[k - 1], k)
    <3>1. k - 1 \in 0..n /\ h[k - 1] = g[k - 1]
      BY <2>2
    <3>2. CASE k = n + 1
      <4>1. h[k - 1] = g[n] /\ h[k] = x
        BY <2>2, <3>1, <3>2
      <4> QED BY <3>2, <4>1 DEF x
    <3>3. CASE k # n + 1
      <4>1. k \in 1..n /\ h[k] = g[k]
        BY <2>2, <3>3
      <4> QED BY <2>1, <3>1, <4>1
    <3> QED BY <3>2, <3>3
  <2>4. h[0] = LoopStart
    BY <2>1, <2>2
  <2>5. Upto(n + 1, h)
    BY <2>3, <2>4
  <2> QED BY <2>5
<1>3. N \in S
  <2> HIDE DEF S
  <2> QED BY <1>1, <1>2, UpTo
<1>4. PICK g : Upto(N, g)
  BY <1>3
<1> DEFINE h == [k \in 0..N |-> g[k]]
           F == [k \in 0..N |-> IF k = 0 THEN LoopStart ELSE LoopStep(text, h[k - 1], k)]
<1>5. \A k \in 0..N : h[k] = g[k] /\ (k # 0 => k - 1 \in 0..N /\ k \in 1..N)
  OBVIOUS
<1>6. ASSUME NEW k \in 0..N
      PROVE  h[k] = IF k = 0 THEN LoopStart ELSE LoopStep(text, h[k - 1], k)
  <2> HIDE DEF h
  <2>1. CASE k = 0
    BY <1>4, <1>5, <2>1
  <2>2. CASE k # 0
    <3>1. h[k] = g[k] /\ h[k - 1] = g[k - 1] /\ k \in 1..N
      BY <1>5, <2>2
    <3>2. g[k] = LoopStep(text, g[k - 1], k)
      BY <1>4, <3>1
    <3> QED BY <2>2, <3>1, <3>2
  <2> QED BY <2>1, <2>2
<1>7. h = F
  BY <1>6
<1> QED BY <1>7

\* MailsIn is what the loop has found when it has passed the whole text.
LEMMA MailsInLoop ==
    ASSUME NEW text, Len(text) \in Nat
    PROVE  \E g : LoopRun(text, g) /\ MailsIn(text) = g[Len(text)].mails
<1> DEFINE F(g) == g = [k \in 0..Len(text) |->
                           IF k = 0 THEN LoopStart ELSE LoopStep(text, g[k - 1], k)]
<1>1. \E g : F(g)
  BY LoopDefined
<1>2. F(CHOOSE g : F(g))
  BY <1>1
<1>3. MailsIn(text) = (CHOOSE g : F(g))[Len(text)].mails
  BY DEF MailsIn, LoopStep, LoopStart
<1> HIDE DEF F
<1>4. PICK g : F(g) /\ MailsIn(text) = g[Len(text)].mails
  BY <1>2, <1>3
<1>5. LoopRun(text, g)
  <2>1. g = [k \in 0..Len(text) |-> IF k = 0 THEN LoopStart ELSE LoopStep(text, g[k - 1], k)]
    BY <1>4 DEF F
  <2>2. g[0] = LoopStart
    BY <2>1
  <2>3. ASSUME NEW k \in 1..Len(text) PROVE g[k] = LoopStep(text, g[k - 1], k)
    <3>1. k \in 0..Len(text) /\ k # 0
      OBVIOUS
    <3> QED BY <2>1, <3>1
  <2> QED BY <2>2, <2>3 DEF LoopRun
<1> QED BY <1>4, <1>5

\* What process_email makes of the text before a marker is a mail, or nothing.
FoundMails == [mail : Mails, name : Registered \cup {None}]

\* One mail comes out of a segment, from the last item of it, or none.
LEMMA MailInLemma ==
    ASSUME NEW seg \in Seq(GmailItems)
    PROVE  \/ MailIn(seg) = <<>>
           \/ /\ Len(seg) \in Nat /\ Len(seg) >= 2 /\ seg[Len(seg)].kind = "back"
              /\ \E x \in FoundMails : x.mail = seg[Len(seg)].of /\ MailIn(seg) = <<x>>
<1> DEFINE n == Len(seg)
           x == [mail |-> seg[n].of, name |-> IF n = 2 THEN seg[n].of.sender ELSE None]
<1>1. n \in Nat
  BY LenProperties
<1>2. CASE n >= 2 /\ (\A k \in 1..n : (seg[k].kind = "front") <=> (k = n - 1))
                  /\ (\A k \in 1..n : (seg[k].kind = "back") <=> (k = n))
  <2>1. seg[n].kind = "back" /\ seg[n] \in GmailItems
    BY <1>1, <1>2, ElementOfSeq
  <2>2. seg[n].of \in Mails
    BY <2>1 DEF GmailItems
  <2>3. seg[n].of.sender \in Registered
    BY <2>2 DEF Mails
  <2>4. x \in FoundMails /\ x.mail = seg[n].of
    BY <2>2, <2>3 DEF FoundMails
  <2>5. MailIn(seg) = <<x>>
    BY <1>2 DEF MailIn
  <2> HIDE DEF x
  <2> QED BY <1>1, <1>2, <2>1, <2>4, <2>5
<1>3. CASE ~(n >= 2 /\ (\A k \in 1..n : (seg[k].kind = "front") <=> (k = n - 1))
                    /\ (\A k \in 1..n : (seg[k].kind = "back") <=> (k = n)))
  <2>1. MailIn(seg) = <<>>
    BY <1>3 DEF MailIn
  <2> QED BY <2>1
<1> QED BY <1>2, <1>3

\* What the loop looks at lies in the text.
LEMMA LoopTypes ==
    ASSUME NEW text \in Seq(GmailItems), NEW g, LoopRun(text, g)
    PROVE  /\ Len(text) \in Nat
           /\ \A k \in 0..Len(text) : g[k].mails \in Seq(FoundMails) /\ g[k].start \in 1..(k + 1)
<1> DEFINE N == Len(text)
           S == {k \in 0..N : g[k].mails \in Seq(FoundMails) /\ g[k].start \in 1..(k + 1)}
<1>1. N \in Nat
  BY LenProperties
<1>2. 0 \in S
  <2>1. g[0].mails = <<>> /\ g[0].start = 1
    BY DEF LoopRun, LoopStart
  <2>2. g[0].mails \in Seq(FoundMails)
    BY <2>1, EmptySeq
  <2>3. g[0].start \in 1..(0 + 1) /\ 0 \in 0..N
    BY <1>1, <2>1
  <2> HIDE DEF N
  <2> QED BY <2>2, <2>3
<1>3. ASSUME NEW k \in 0..(N - 1), k \in S PROVE k + 1 \in S
  <2>1. k + 1 \in 1..N /\ g[k + 1] = LoopStep(text, g[k], k + 1)
    BY <1>1 DEF LoopRun
  <2>2. g[k].mails \in Seq(FoundMails) /\ g[k].start \in 1..(k + 1)
    BY <1>3
  <2>3. CASE text[k + 1].kind # "END"
    <3>1. g[k + 1] = g[k]
      BY <2>1, <2>3 DEF LoopStep
    <3> QED BY <1>1, <2>1, <2>2, <3>1
  <2>4. CASE text[k + 1].kind = "END"
    <3> DEFINE seg == SubSeq(text, g[k].start, k)
    <3>1. g[k + 1] = [mails |-> g[k].mails \o MailIn(seg), start |-> k + 2]
      BY <1>1, <2>1, <2>4 DEF LoopStep
    <3>2. seg \in Seq(GmailItems)
      <4>1. \A i \in g[k].start..k : text[i] \in GmailItems
        BY <1>1, <2>2, ElementOfSeq
      <4> QED BY <1>1, <2>2, <4>1, SubSeqProperties
    <3>3. MailIn(seg) \in Seq(FoundMails)
      <4> HIDE DEF seg
      <4>1. \A x \in FoundMails : <<x>> \in Seq(FoundMails)
        OBVIOUS
      <4> QED BY <3>2, <4>1, MailInLemma, EmptySeq
    <3>4. g[k].mails \o MailIn(seg) \in Seq(FoundMails)
      BY <2>2, <3>3, ConcatProperties
    <3>5. k + 2 \in 1..((k + 1) + 1)
      BY <1>1
    <3> HIDE DEF seg
    <3>6. g[k + 1].mails \in Seq(FoundMails) /\ g[k + 1].start = k + 2
      BY <3>1, <3>4
    <3> QED BY <1>1, <2>1, <3>5, <3>6
  <2> QED BY <2>3, <2>4
<1>4. \A k \in 0..N : k \in S
  <2> HIDE DEF S, N
  <2> QED BY <1>1, <1>2, <1>3, UpTo
<1> QED BY <1>1, <1>4

\* receive_emails finds a sequence of mails, with or without their senders' names.
LEMMA MailsInTypes ==
    ASSUME NEW text \in Seq(GmailItems)
    PROVE  MailsIn(text) \in Seq(FoundMails)
<1>1. Len(text) \in Nat
  BY LenProperties
<1>2. PICK g : LoopRun(text, g) /\ MailsIn(text) = g[Len(text)].mails
  BY <1>1, MailsInLoop
<1>3. Len(text) \in 0..Len(text)
  BY <1>1
<1> QED BY <1>2, <1>3, LoopTypes

-----------------------------------------------------------------------------
(* The type invariant, with what it rests on, in parts *)

Calls == [recipient : Names \cup {None}, operation : Operations \cup {None},
          split : Splits \cup {None}]

\* Where the client waits, and its local variables.
CallFits(p, c) ==
    /\ p \in {"menu"} \cup OnKey \cup OnGmail
    /\ c \in Calls
    /\ p \in {"status", "token"} => c.operation \in Operations
    /\ p = "share1" => c.operation = "FETCH_SHARE1"
    /\ p = "updated" => c.operation = "UPDATE_SHARE1"
    /\ p \in {"menu", "mails"} => c = NoCall
    /\ p \in {"key", "stored"} => c.operation = None
    /\ c.operation \in {"UPDATE_SHARE1", "UPDATE_SHARE2"} => c.split \in Splits

\* There are mails left to process just where process_email waits for a key.
TodoFits(p, c, t) ==
    /\ t \in Seq(FoundMails)
    /\ p = "key" => ((c.recipient = None) <=> (t # <<>>))
    /\ p # "key" => t = <<>>

\* Where the second line of an op token's answer is waited for, it is there.
TextFits(p, b, s) ==
    /\ b \in Seq(GmailItems) /\ (p # "mails" => b = <<>>)
    /\ WholeAnswers(s)
    /\ p = "token" => s # <<>> /\ s[1].kind = "token"

SentRequests ==
    [command : {"REQUEST_OP_TOKEN"}, of : Operations, key : {None}]
    \cup [command : {"EMAIL_SEND"}, of : Names, key : Registered]
    \cup [command : {"4"}, of : {None}, key : {None}]

QueuesFit ==
    toKey \in Seq(KeyRequests) /\ fromKey \in Seq(KeyAnswers) /\ toGmail \in Seq(SentRequests)

StoresFit ==
    /\ mailbox \in Seq(Mails) /\ arrived \subseteq Mails /\ atRisk \subseteq Mails
    /\ processed \in [Mails -> Nat]
    /\ share1 \in Splits /\ share2 \in Splits /\ splits \in Splits

CountersFit ==
    /\ timed \subseteq Services
    /\ gaveUp \in [Services -> Nat] /\ gaveUp["key"] + gaveUp["gmail"] <= MaxGiveUps
    /\ slipped \in BOOLEAN /\ faults \in 0..MaxFaults

\* What ended clients left behind.
LateFits ==
    lateUpdates \subseteq Splits /\ overtaken \in BOOLEAN /\ lateRetrievals \in 0..MaxLate

TypeInv ==
    /\ CallFits(pc, call) /\ TodoFits(pc, call, todo) /\ TextFits(pc, buffer, fromGmail)
    /\ QueuesFit /\ StoresFit /\ CountersFit

\* Together they are stronger than the type invariant.
LEMMA TypeInvImpliesTypeOK == TypeInv /\ LateFits => TypeOK
<1> SUFFICES ASSUME TypeInv, LateFits PROVE TypeOK
  OBVIOUS
<1>1. /\ pc \in {"menu"} \cup OnKey \cup OnGmail
      /\ call \in [recipient : Names \cup {None}, operation : Operations \cup {None},
                   split : Splits \cup {None}]
      /\ pc \in {"status", "token", "share1", "updated"} => call.operation \in Operations
      /\ pc = "share1" => call.operation = "FETCH_SHARE1"
      /\ pc = "updated" => call.operation = "UPDATE_SHARE1"
      /\ pc = "key" => ((call.recipient = None) <=> (todo # <<>>))
  BY DEF TypeInv, CallFits, TodoFits, Calls, Operations
<1>2. /\ buffer \in Seq(GmailItems) /\ fromGmail \in Seq(GmailItems)
      /\ todo \in Seq([mail : Mails, name : Registered \cup {None}])
  BY DEF TypeInv, TextFits, WholeAnswers, TodoFits, FoundMails
<1>3. toGmail \in Seq(GmailRequests)
  <2>1. SentRequests \subseteq GmailRequests
    BY DEF SentRequests, GmailRequests
  <2> QED BY <2>1, SeqMonotonic DEF TypeInv, QueuesFit
<1>4. gaveUp \in [Services -> 0..MaxGiveUps]
  <2>1. gaveUp \in [Services -> Nat] /\ gaveUp["key"] + gaveUp["gmail"] <= MaxGiveUps /\ MaxGiveUps \in Nat
    BY BoundsAssumption DEF TypeInv, CountersFit
  <2>2. \A s \in Services : gaveUp[s] \in 0..MaxGiveUps
    BY <2>1 DEF Services
  <2> QED BY <2>1, <2>2
<1> QED BY <1>1, <1>2, <1>3, <1>4 DEF TypeOK, TypeInv, QueuesFit, StoresFit, CountersFit, LateFits

\* Nothing is unread and nobody waits at first.
LEMMA InitTypeInv == Init => TypeInv
<1> SUFFICES ASSUME Init PROVE TypeInv
  OBVIOUS
<1>1. CallFits(pc, call)
  BY BoundsAssumption DEF Init, CallFits, NoCall, Calls, Splits
<1>2. TodoFits(pc, call, todo)
  BY EmptySeq DEF Init, TodoFits
<1>3. TextFits(pc, buffer, fromGmail)
  BY EmptySeq DEF Init, TextFits, WholeAnswers
<1>4. QueuesFit
  BY EmptySeq DEF Init, QueuesFit
<1>5. StoresFit
  BY EmptySeq, BoundsAssumption DEF Init, StoresFit, Splits
<1>6. CountersFit
  <2>1. gaveUp = [s \in Services |-> 0] /\ timed = {} /\ slipped = FALSE /\ faults = 0
    BY DEF Init
  <2>2. gaveUp["key"] = 0 /\ gaveUp["gmail"] = 0 /\ gaveUp \in [Services -> Nat]
    BY <2>1 DEF Services
  <2>3. MaxGiveUps \in Nat /\ MaxFaults \in Nat
    BY BoundsAssumption
  <2>4. gaveUp["key"] + gaveUp["gmail"] <= MaxGiveUps
    BY <2>2, <2>3
  <2>5. timed \subseteq Services /\ faults \in 0..MaxFaults
    BY <2>1, <2>3
  <2>6. slipped \in BOOLEAN
    BY <2>1
  <2> QED BY <2>2, <2>4, <2>5, <2>6 DEF CountersFit
<1> QED BY <1>1, <1>2, <1>3, <1>4, <1>5, <1>6 DEF TypeInv

-----------------------------------------------------------------------------
(* The type invariant, step by step *)

\* The requests that are sent, and nothing else, are added to the queues.
LEMMA RequestTypes ==
    /\ \A n \in Names \cup {None} : KeyRequest(n) \in KeyRequests
    /\ \A op \in Operations : ShareRequest("4", op, 0) \in KeyRequests
    /\ \A op \in Operations, x \in Splits : ShareRequest("5", op, x) \in KeyRequests
    /\ \A op \in Operations : GmailRequest("REQUEST_OP_TOKEN", op, None) \in SentRequests
    /\ \A n \in Names, r \in Registered : GmailRequest("EMAIL_SEND", n, r) \in SentRequests
    /\ GmailRequest("4", None, None) \in SentRequests
<1>1. 0 \in Splits
  BY BoundsAssumption DEF Splits
<1>2. \A n \in Names \cup {None} : KeyRequest(n) \in KeyRequests
  BY DEF KeyRequest, KeyRequests
<1>3. \A op \in Operations : ShareRequest("4", op, 0) \in KeyRequests
  BY <1>1 DEF ShareRequest, KeyRequests
<1>4. \A op \in Operations, x \in Splits : ShareRequest("5", op, x) \in KeyRequests
  BY DEF ShareRequest, KeyRequests
<1>5. \A op \in Operations : GmailRequest("REQUEST_OP_TOKEN", op, None) \in SentRequests
  BY DEF GmailRequest, SentRequests
<1>6. \A n \in Names, r \in Registered : GmailRequest("EMAIL_SEND", n, r) \in SentRequests
  BY DEF GmailRequest, SentRequests
<1>7. GmailRequest("4", None, None) \in SentRequests
  BY DEF GmailRequest, SentRequests
<1> QED BY <1>2, <1>3, <1>4, <1>5, <1>6, <1>7

\* What a client's step may do to what it has sent and to the mails it has shown.
SendsFit ==
    /\ toKey' \in Seq(KeyRequests) /\ toGmail' \in Seq(SentRequests)
    /\ timed' \subseteq Services /\ processed' \in [Mails -> Nat]

\* A call that is over leaves the local variables it started with.
LEMMA EndCallTypes ==
    ASSUME EndCall, todo' = <<>>
    PROVE  CallFits(pc', call') /\ TodoFits(pc', call', todo')
<1>1. pc' = "menu" /\ call' = NoCall
  BY DEF EndCall
<1>2. NoCall \in Calls /\ NoCall.operation = None
  BY BoundsAssumption DEF NoCall, Calls, Splits
<1>3. NoCall.split \in Splits
  BY BoundsAssumption DEF NoCall, Splits
<1> QED BY <1>1, <1>2, <1>3, EmptySeq DEF CallFits, TodoFits

\* A call that asks for an operation token waits for its first line.
LEMMA AskForTokenTypes ==
    ASSUME TypeInv, NEW op \in Operations, AskForToken(op),
           call' \in Calls, call'.operation = op,
           op \in {"UPDATE_SHARE1", "UPDATE_SHARE2"} => call'.split \in Splits,
           todo = <<>>, UNCHANGED todo
    PROVE  /\ CallFits(pc', call') /\ TodoFits(pc', call', todo')
           /\ toGmail' \in Seq(SentRequests)
<1>1. pc' = "status" /\ toGmail' = Append(toGmail, GmailRequest("REQUEST_OP_TOKEN", op, None))
  BY DEF AskForToken
<1>2. toGmail' \in Seq(SentRequests)
  BY <1>1, RequestTypes, AppendProperties DEF TypeInv, QueuesFit
<1>3. CallFits(pc', call')
  BY <1>1 DEF CallFits, OnGmail
<1>4. TodoFits(pc', call', todo')
  BY <1>1, EmptySeq DEF TodoFits
<1> QED BY <1>2, <1>3, <1>4

\* The next mail is processed, or the call is over.
LEMMA ProcessNextTypes ==
    ASSUME TypeInv, call = NoCall \/ (pc = "key" /\ call.recipient = None),
           NEW rest \in Seq(FoundMails), ProcessNext(rest)
    PROVE  /\ CallFits(pc', call') /\ TodoFits(pc', call', todo')
           /\ toKey' \in Seq(KeyRequests) /\ timed' \subseteq Services
<1>1. CASE rest = <<>>
  BY <1>1, EndCallTypes DEF ProcessNext, TypeInv, QueuesFit, CountersFit
<1>2. CASE rest # <<>>
  <2>1. /\ todo' = rest /\ pc' = "key" /\ call' = call
        /\ toKey' = Append(toKey, KeyRequest(Head(rest).name)) /\ timed' = timed \cup {"key"}
    BY <1>2 DEF ProcessNext, AskForKey
  <2>2. Head(rest).name \in Names \cup {None}
    <3>1. Head(rest) \in FoundMails
      BY <1>2, HeadTailProperties
    <3> QED BY <3>1, RegisteredAssumption DEF FoundMails
  <2>3. toKey' \in Seq(KeyRequests)
    BY <2>1, <2>2, RequestTypes, AppendProperties DEF TypeInv, QueuesFit
  <2>4. call \in Calls /\ call.operation = None /\ call.recipient = None
    BY DEF TypeInv, CallFits, NoCall
  <2>5. call.operation \in {"UPDATE_SHARE1", "UPDATE_SHARE2"} => call.split \in Splits
    BY DEF TypeInv, CallFits
  <2>6. CallFits(pc', call')
    BY <2>1, <2>4, <2>5 DEF CallFits, OnKey
  <2>7. TodoFits(pc', call', todo')
    BY <1>2, <2>1, <2>4 DEF TodoFits
  <2>8. timed' \subseteq Services
    BY <2>1 DEF TypeInv, CountersFit, Services
  <2> QED BY <2>3, <2>6, <2>7, <2>8
<1> QED BY <1>1, <1>2

\* What the Key Server's answers, and their absence, can be told apart by.
LEMMA AnswerTypes ==
    ASSUME NEW answer \in KeyAnswers \cup {Silence}
    PROVE  /\ answer.kind = "key" => answer.of \in Registered
           /\ answer.kind = "share" => answer.of \in Splits
BY DEF KeyAnswers, Silence

\* A step of a call that waited for the Key Server keeps the types.
LEMMA OnKeyAnswerTypes ==
    ASSUME TypeInv, NEW answer \in KeyAnswers \cup {Silence}, OnKeyAnswer(answer)
    PROVE  /\ CallFits(pc', call') /\ TodoFits(pc', call', todo') /\ SendsFit
           /\ pc \notin {"mails", "token"} /\ pc' \notin {"mails", "token"}
<1>0. /\ toKey \in Seq(KeyRequests) /\ toGmail \in Seq(SentRequests)
      /\ timed \subseteq Services /\ processed \in [Mails -> Nat]
      /\ call \in Calls
  BY DEF TypeInv, QueuesFit, StoresFit, CountersFit, CallFits
<1>1. CASE SendWithKey(answer)
  <2>1. pc = "key" /\ call.recipient # None /\ UNCHANGED <<todo, timed, toKey, processed>>
    BY <1>1 DEF SendWithKey
  <2>2. todo = <<>> /\ call.recipient \in Names /\ call.operation = None
    BY <1>0, <2>1 DEF TypeInv, TodoFits, CallFits, Calls
  <2>3. CASE answer.kind = "key"
    <3>1. /\ toGmail' = Append(toGmail, GmailRequest("EMAIL_SEND", call.recipient, answer.of))
          /\ pc' = "stored" /\ call' = call
      BY <1>1, <2>3 DEF SendWithKey
    <3>2. toGmail' \in Seq(SentRequests)
      BY <1>0, <2>2, <2>3, <3>1, AnswerTypes, RequestTypes, AppendProperties
    <3>3. CallFits(pc', call') /\ TodoFits(pc', call', todo')
      BY <1>0, <2>1, <2>2, <3>1, EmptySeq DEF TypeInv, CallFits, TodoFits, OnGmail
    <3> QED BY <1>0, <2>1, <3>1, <3>2, <3>3 DEF SendsFit
  <2>4. CASE answer.kind # "key"
    <3>1. EndCall /\ UNCHANGED toGmail
      BY <1>1, <2>4 DEF SendWithKey
    <3>2. CallFits(pc', call') /\ TodoFits(pc', call', todo') /\ pc' = "menu"
      BY <2>1, <2>2, <3>1, EndCallTypes DEF EndCall
    <3> QED BY <1>0, <2>1, <3>1, <3>2 DEF SendsFit
  <2> QED BY <2>3, <2>4
<1>2. CASE ShowMail(answer)
  <2>1. pc = "key" /\ call.recipient = None /\ ProcessNext(Tail(todo)) /\ UNCHANGED toGmail
    BY <1>2 DEF ShowMail
  <2>2. todo # <<>> /\ todo \in Seq(FoundMails)
    BY <2>1 DEF TypeInv, TodoFits
  <2>3. Tail(todo) \in Seq(FoundMails) /\ Head(todo) \in FoundMails
    BY <2>2, HeadTailProperties
  <2>4. /\ CallFits(pc', call') /\ TodoFits(pc', call', todo')
        /\ toKey' \in Seq(KeyRequests) /\ timed' \subseteq Services
    BY <2>1, <2>3, ProcessNextTypes
  <2>5. processed' \in [Mails -> Nat]
    <3>1. Head(todo).mail \in Mails
      BY <2>3 DEF FoundMails
    <3>2. \/ processed' = [processed EXCEPT ![Head(todo).mail] = @ + 1]
          \/ processed' = processed
      BY <1>2 DEF ShowMail
    <3> QED BY <1>0, <3>1, <3>2
  <2>6. pc' \in {"menu", "key"}
    BY <2>1 DEF ProcessNext, AskForKey, EndCall
  <2> QED BY <1>0, <2>1, <2>4, <2>5, <2>6 DEF SendsFit
<1>3. CASE FetchedShare1(answer)
  <2>1. pc = "share1" /\ UNCHANGED <<todo, timed, toKey, processed>>
    BY <1>3 DEF FetchedShare1
  <2>2. todo = <<>>
    BY <2>1 DEF TypeInv, TodoFits
  <2>3. CASE answer = Silence
    <3>1. EndCall /\ UNCHANGED toGmail
      BY <1>3, <2>3 DEF FetchedShare1
    <3>2. CallFits(pc', call') /\ TodoFits(pc', call', todo') /\ pc' = "menu"
      BY <2>1, <2>2, <3>1, EndCallTypes DEF EndCall
    <3> QED BY <1>0, <2>1, <3>1, <3>2 DEF SendsFit
  <2>4. CASE answer # Silence
    <3> DEFINE x == IF answer.kind = "share" THEN answer.of ELSE None
    <3>1. call' = [call EXCEPT !.operation = "GET_SHARE", !.split = x] /\ AskForToken("GET_SHARE")
      BY <1>3, <2>4 DEF FetchedShare1
    <3>2. x \in Splits \cup {None}
      BY AnswerTypes
    <3> HIDE DEF x
    <3>3. call' \in Calls /\ call'.operation = "GET_SHARE"
      BY <1>0, <3>1, <3>2 DEF Calls, Operations
    <3>4. /\ CallFits(pc', call') /\ TodoFits(pc', call', todo')
          /\ toGmail' \in Seq(SentRequests) /\ pc' = "status"
      BY <2>1, <2>2, <3>1, <3>3, AskForTokenTypes DEF Operations, AskForToken
    <3> QED BY <1>0, <2>1, <3>4 DEF SendsFit
  <2> QED BY <2>3, <2>4
<1>4. CASE UpdatedShare1(answer)
  <2>1. pc = "updated" /\ UNCHANGED <<todo, timed, toKey, processed>>
    BY <1>4 DEF UpdatedShare1
  <2>2. todo = <<>> /\ call.split \in Splits
    BY <2>1 DEF TypeInv, TodoFits, CallFits
  <2>3. CASE answer.kind = "SHARE1_UPDATED"
    <3>1. call' = [call EXCEPT !.operation = "UPDATE_SHARE2"] /\ AskForToken("UPDATE_SHARE2")
      BY <1>4, <2>3 DEF UpdatedShare1
    <3>2. call' \in Calls /\ call'.operation = "UPDATE_SHARE2" /\ call'.split \in Splits
      BY <1>0, <2>2, <3>1 DEF Calls, Operations
    <3>3. /\ CallFits(pc', call') /\ TodoFits(pc', call', todo')
          /\ toGmail' \in Seq(SentRequests) /\ pc' = "status"
      BY <2>1, <2>2, <3>1, <3>2, AskForTokenTypes DEF Operations, AskForToken
    <3> QED BY <1>0, <2>1, <3>3 DEF SendsFit
  <2>4. CASE answer.kind # "SHARE1_UPDATED"
    <3>1. EndCall /\ UNCHANGED toGmail
      BY <1>4, <2>4 DEF UpdatedShare1
    <3>2. CallFits(pc', call') /\ TodoFits(pc', call', todo') /\ pc' = "menu"
      BY <2>1, <2>2, <3>1, EndCallTypes DEF EndCall
    <3> QED BY <1>0, <2>1, <3>1, <3>2 DEF SendsFit
  <2> QED BY <2>3, <2>4
<1> QED BY <1>1, <1>2, <1>3, <1>4 DEF OnKeyAnswer

\* The number of reads of 255 bytes an answer takes.
LEMMA ReadsOfType ==
    ASSUME NEW answer \in KeyAnswers
    PROVE  ReadsOf(answer) \in Nat \ {0}
BY ReadsAssumption DEF KeyAnswers, ReadsOf

\* What one read leaves on the Key Server connection (client.cpp, the buffers of
\* update_share1_on_keyserver and of the other calls): one answer less, or as many,
\* with the rest of the first in its place.
LEMMA ReadHeadTypes ==
    ASSUME fromKey \in Seq(KeyAnswers), fromKey # <<>>
    PROVE  /\ Head(fromKey) \in KeyAnswers /\ ReadHead \in Seq(KeyAnswers)
           /\ Len(fromKey) \in Nat /\ Len(fromKey) > 0 /\ Head(fromKey) = fromKey[1]
           /\ \/ ReadHead = Tail(fromKey)
              \/ /\ pc = "updated" /\ ReadsOf(fromKey[1]) > 1 /\ Len(ReadHead) = Len(fromKey)
                 /\ ReadHead[1].kind = "rest"
                 /\ \A k \in 2..Len(fromKey) : ReadHead[k] = fromKey[k]
<1>1. /\ Head(fromKey) \in KeyAnswers /\ Tail(fromKey) \in Seq(KeyAnswers)
      /\ Len(fromKey) \in Nat /\ Len(fromKey) > 0 /\ Head(fromKey) = fromKey[1]
  BY HeadTailProperties, LenProperties, EmptySeq
<1>2. CASE ~(pc = "updated" /\ ReadsOf(Head(fromKey)) > 1)
  BY <1>1, <1>2 DEF ReadHead
<1>3. CASE pc = "updated" /\ ReadsOf(Head(fromKey)) > 1
  <2> DEFINE n == ReadsOf(Head(fromKey)) - 1
             rest == [kind |-> "rest", of |-> n]
  <2>1. n \in Nat \ {0}
    BY <1>1, <1>3, ReadsOfType
  <2>2. RestOf(Head(fromKey)) = rest
    BY DEF RestOf
  <2> HIDE DEF n
  <2>3. rest \in KeyAnswers /\ rest.kind = "rest"
    BY <2>1 DEF KeyAnswers
  <2> HIDE DEF rest
  <2>4. ReadHead = [fromKey EXCEPT ![1] = rest]
    BY <1>3, <2>2 DEF ReadHead
  <2>5. /\ ReadHead \in Seq(KeyAnswers) /\ Len(ReadHead) = Len(fromKey)
        /\ ReadHead[1] = rest /\ \A k \in 2..Len(fromKey) : ReadHead[k] = fromKey[k]
    BY <1>1, <2>3, <2>4, ExceptSeq
  <2> QED BY <1>1, <1>3, <2>3, <2>5
<1> QED BY <1>2, <1>3

\* tls_recv on the Key Server connection.
LEMMA ReceiveFromKeyTypes == TypeInv /\ ReceiveFromKey => TypeInv'
<1> SUFFICES ASSUME TypeInv, ReceiveFromKey PROVE TypeInv'
  OBVIOUS
<1>1. /\ fromKey # <<>> /\ fromKey' = ReadHead /\ OnKeyAnswer(Head(fromKey))
      /\ UNCHANGED <<buffer, fromGmail, mailbox, arrived, share1, share2, splits,
                     atRisk, gaveUp, slipped, faults>>
  BY DEF ReceiveFromKey, shareVars
<1>2. Head(fromKey) \in KeyAnswers /\ fromKey' \in Seq(KeyAnswers)
  BY <1>1, ReadHeadTypes DEF TypeInv, QueuesFit
<1>3. /\ CallFits(pc', call') /\ TodoFits(pc', call', todo') /\ SendsFit
      /\ pc \notin {"mails", "token"} /\ pc' \notin {"mails", "token"}
  BY <1>1, <1>2, OnKeyAnswerTypes
<1>4. TextFits(pc', buffer', fromGmail')
  BY <1>1, <1>3 DEF TypeInv, TextFits
<1> QED BY <1>1, <1>2, <1>3, <1>4 DEF TypeInv, SendsFit, QueuesFit, StoresFit, CountersFit

\* The menu: a call starts where nothing is left of an earlier one.
LEMMA MenuTypes == TypeInv /\ Menu => TypeInv'
<1> SUFFICES ASSUME TypeInv, Menu PROVE TypeInv'
  OBVIOUS
<1>0. /\ toKey \in Seq(KeyRequests) /\ toGmail \in Seq(SentRequests)
      /\ NoCall \in Calls /\ NoCall.operation = None /\ NoCall.recipient = None
      /\ NoCall.split \in Splits
  BY BoundsAssumption DEF TypeInv, QueuesFit, NoCall, Calls, Splits
<1>1. ASSUME NEW r \in Names, send_email(r) PROVE TypeInv'
  <2>1. /\ pc = "menu" /\ pc' = "key" /\ toKey' = Append(toKey, KeyRequest(r))
        /\ timed' = timed \cup {"key"} /\ call' = [call EXCEPT !.recipient = r]
        /\ UNCHANGED <<buffer, todo, fromKey, toGmail, fromGmail, mailbox, arrived, processed,
                       share1, share2, splits, atRisk, gaveUp, slipped, faults>>
    BY <1>1 DEF send_email, AtMenu, AskForKey, gmailStream, mailVars, shareVars
  <2>2. call = NoCall /\ todo = <<>>
    BY <2>1 DEF TypeInv, CallFits, TodoFits
  <2>3. call' \in Calls /\ call'.recipient = r /\ call'.operation = None /\ call'.split \in Splits
    BY <1>0, <2>1, <2>2 DEF Calls
  <2>4. CallFits(pc', call')
    BY <2>1, <2>3 DEF CallFits, OnKey
  <2>5. TodoFits(pc', call', todo')
    BY <2>1, <2>2, <2>3, EmptySeq, RegisteredAssumption DEF TodoFits
  <2>6. TextFits(pc', buffer', fromGmail')
    BY <2>1 DEF TypeInv, TextFits
  <2>7. QueuesFit'
    BY <1>0, <2>1, RequestTypes, AppendProperties DEF TypeInv, QueuesFit
  <2>8. StoresFit' /\ CountersFit'
    BY <2>1 DEF TypeInv, StoresFit, CountersFit, Services
  <2> QED BY <2>4, <2>5, <2>6, <2>7, <2>8 DEF TypeInv
<1>2. CASE receive_emails
  <2>1. /\ pc = "menu" /\ pc' = "mails" /\ toGmail' = Append(toGmail, GmailRequest("4", None, None))
        /\ timed' = timed \cup {"gmail"}
        /\ UNCHANGED <<call, buffer, todo, toKey, fromKey, fromGmail, mailbox, arrived, processed,
                       share1, share2, splits, atRisk, gaveUp, slipped, faults>>
    BY <1>2 DEF receive_emails, AtMenu, keyStream, mailVars, shareVars
  <2>2. CallFits(pc', call') /\ TodoFits(pc', call', todo')
    BY <2>1 DEF TypeInv, CallFits, TodoFits, OnGmail
  <2>3. TextFits(pc', buffer', fromGmail')
    BY <2>1 DEF TypeInv, TextFits
  <2>4. QueuesFit'
    BY <1>0, <2>1, RequestTypes, AppendProperties DEF TypeInv, QueuesFit
  <2>5. StoresFit' /\ CountersFit'
    BY <2>1 DEF TypeInv, StoresFit, CountersFit, Services
  <2> QED BY <2>2, <2>3, <2>4, <2>5 DEF TypeInv
<1>3. CASE recover_account_flow
  <2>1. /\ pc = "menu" /\ AskForToken("FETCH_SHARE1")
        /\ call' = [call EXCEPT !.operation = "FETCH_SHARE1"]
        /\ UNCHANGED <<buffer, todo, timed, toKey, fromKey, fromGmail, mailbox, arrived, processed,
                       share1, share2, splits, atRisk, gaveUp, slipped, faults>>
    BY <1>3 DEF recover_account_flow, AtMenu, keyStream, mailVars, shareVars
  <2>2. call = NoCall /\ todo = <<>>
    BY <2>1 DEF TypeInv, CallFits, TodoFits
  <2>3. call' \in Calls /\ call'.operation = "FETCH_SHARE1"
    BY <1>0, <2>1, <2>2 DEF Calls, Operations
  <2>4. /\ CallFits(pc', call') /\ TodoFits(pc', call', todo')
        /\ toGmail' \in Seq(SentRequests) /\ pc' = "status"
    BY <2>1, <2>2, <2>3, AskForTokenTypes DEF Operations, AskForToken
  <2>5. TextFits(pc', buffer', fromGmail')
    BY <2>1, <2>4 DEF TypeInv, TextFits
  <2>6. QueuesFit' /\ StoresFit' /\ CountersFit'
    BY <2>1, <2>4 DEF TypeInv, QueuesFit, StoresFit, CountersFit
  <2> QED BY <2>4, <2>5, <2>6 DEF TypeInv
<1> QED BY <1>1, <1>2, <1>3 DEF Menu

\* What a read takes from the Gmail connection leaves whole answers.
LEMMA DropTypes ==
    ASSUME TypeInv, NEW n \in 0..Len(fromGmail), DropItems(n)
    PROVE  /\ WholeAnswers(fromGmail') /\ Len(fromGmail) \in Nat
           /\ Len(fromGmail') = Len(fromGmail) - n
           /\ \A k \in 1..(Len(fromGmail) - n) : fromGmail'[k] = fromGmail[n + k]
BY AnswersLeft, LenProperties DEF DropItems, TypeInv, TextFits, WholeAnswers

\* A record, or a line, ends within what is there to read.
LEMMA ReadsEnd ==
    ASSUME TypeInv
    PROVE  /\ fromGmail # <<>> => RecordAtHead \in 1..Len(fromGmail)
           /\ LineIsThere => LineAtHead \in 1..Len(fromGmail)
           /\ Len(fromGmail) \in Nat
<1>1. fromGmail \in Seq(GmailItems)
  BY DEF TypeInv, TextFits, WholeAnswers
<1>2. fromGmail # <<>> => fromGmail[Len(fromGmail)].last
  BY DEF TypeInv, TextFits, WholeAnswers
<1> QED BY <1>1, <1>2, RecordLemma, LineLemma, LenProperties

\* A record is read: the answer to EMAIL_SEND.
LEMMA ReceiveStoredTypes == TypeInv /\ ReceiveStored => TypeInv'
<1> SUFFICES ASSUME TypeInv, ReceiveStored PROVE TypeInv'
  OBVIOUS
<1>1. /\ pc = "stored" /\ fromGmail # <<>> /\ DropItems(RecordAtHead) /\ EndCall
      /\ UNCHANGED <<buffer, todo, timed, toKey, fromKey, toGmail, mailbox, arrived, processed,
                     share1, share2, splits, atRisk, gaveUp, slipped, faults>>
  BY DEF ReceiveStored, keyStream, mailVars, shareVars
<1>2. WholeAnswers(fromGmail')
  BY <1>1, ReadsEnd, DropTypes
<1>3. todo' = <<>> /\ buffer' = <<>> /\ pc' = "menu"
  BY <1>1 DEF TypeInv, TodoFits, TextFits, EndCall
<1>4. CallFits(pc', call') /\ TodoFits(pc', call', todo')
  BY <1>1, <1>3, EndCallTypes
<1>5. TextFits(pc', buffer', fromGmail')
  BY <1>2, <1>3, EmptySeq DEF TextFits
<1> QED BY <1>1, <1>4, <1>5 DEF TypeInv, QueuesFit, StoresFit, CountersFit

\* A record is read, and the loop over the mails starts with its last.
LEMMA ReceiveMailsTypes == TypeInv /\ ReceiveMails => TypeInv'
<1> SUFFICES ASSUME TypeInv, ReceiveMails PROVE TypeInv'
  OBVIOUS
<1>1. /\ pc = "mails" /\ fromGmail # <<>> /\ DropItems(RecordAtHead)
      /\ UNCHANGED <<fromKey, toGmail, mailbox, arrived, processed,
                     share1, share2, splits, atRisk, gaveUp, slipped, faults>>
  BY DEF ReceiveMails, mailVars, shareVars
<1>2. RecordAtHead \in 1..Len(fromGmail) /\ Len(fromGmail) \in Nat
  BY <1>1, ReadsEnd
<1>3. WholeAnswers(fromGmail')
  BY <1>1, <1>2, DropTypes
<1>4. Received \in Seq(GmailItems)
  <2>1. buffer \in Seq(GmailItems) /\ fromGmail \in Seq(GmailItems)
    BY DEF TypeInv, TextFits, WholeAnswers
  <2>2. \A i \in 1..RecordAtHead : fromGmail[i] \in GmailItems
    BY <1>2, <2>1, ElementOfSeq
  <2>3. SubSeq(fromGmail, 1, RecordAtHead) \in Seq(GmailItems)
    BY <1>2, <2>2, SubSeqProperties
  <2> QED BY <2>1, <2>3, ConcatProperties DEF Received
<1>5. call = NoCall
  BY <1>1 DEF TypeInv, CallFits
<1>6. CASE \E k \in 1..Len(Received) : Received[k].kind = "END"
  <2>1. ProcessNext(MailsIn(Received)) /\ buffer' = <<>>
    BY <1>6 DEF ReceiveMails
  <2>2. MailsIn(Received) \in Seq(FoundMails)
    BY <1>4, MailsInTypes
  <2>3. /\ CallFits(pc', call') /\ TodoFits(pc', call', todo')
        /\ toKey' \in Seq(KeyRequests) /\ timed' \subseteq Services
    BY <1>5, <2>1, <2>2, ProcessNextTypes
  <2>4. pc' \in {"menu", "key"}
    BY <2>1 DEF ProcessNext, AskForKey, EndCall
  <2>5. TextFits(pc', buffer', fromGmail')
    BY <1>3, <2>1, <2>4, EmptySeq DEF TextFits
  <2> QED BY <1>1, <2>3, <2>5 DEF TypeInv, QueuesFit, StoresFit, CountersFit
<1>7. CASE ~\E k \in 1..Len(Received) : Received[k].kind = "END"
  <2>1. buffer' = Received /\ UNCHANGED <<pc, call, todo, timed, toKey>>
    BY <1>7 DEF ReceiveMails
  <2>2. TextFits(pc', buffer', fromGmail')
    BY <1>1, <1>3, <1>4, <2>1 DEF TextFits
  <2> QED BY <1>1, <2>1, <2>2 DEF TypeInv, QueuesFit, StoresFit, CountersFit
<1> QED BY <1>6, <1>7

\* A line is read: OP_TOKEN, with the token behind it, or something else.
LEMMA ReadStatusTypes == TypeInv /\ ReadStatus => TypeInv'
<1> SUFFICES ASSUME TypeInv, ReadStatus PROVE TypeInv'
  OBVIOUS
<1>1. /\ pc = "status" /\ LineIsThere /\ DropItems(LineAtHead)
      /\ UNCHANGED <<buffer, todo, timed, toKey, fromKey, toGmail, mailbox, arrived, processed,
                     share1, share2, splits, atRisk, gaveUp, slipped, faults>>
  BY DEF ReadStatus, keyStream, mailVars, shareVars
<1>2. LineAtHead \in 1..Len(fromGmail) /\ Len(fromGmail) \in Nat
  BY <1>1, ReadsEnd
<1>3. /\ WholeAnswers(fromGmail') /\ Len(fromGmail') = Len(fromGmail) - LineAtHead
      /\ \A k \in 1..(Len(fromGmail) - LineAtHead) : fromGmail'[k] = fromGmail[LineAtHead + k]
  BY <1>1, <1>2, DropTypes
<1>4. todo' = <<>> /\ todo = <<>> /\ buffer' = <<>>
  BY <1>1 DEF TypeInv, TodoFits, TextFits
<1>5. CASE LineAtHead = 1 /\ Head(fromGmail).kind = "OP_TOKEN"
  <2>1. pc' = "token" /\ call' = call
    BY <1>5 DEF ReadStatus
  <2>2. fromGmail[1].kind = "OP_TOKEN" /\ 1 \in 1..Len(fromGmail)
    BY <1>2, <1>5
  <2>3. 1 < Len(fromGmail) /\ fromGmail[2].kind = "token"
    BY <2>2 DEF TypeInv, TextFits, WholeAnswers
  <2>4. Len(fromGmail') > 0 /\ fromGmail'[1].kind = "token"
    BY <1>2, <1>3, <1>5, <2>3
  <2>5. TextFits(pc', buffer', fromGmail')
    BY <1>3, <1>4, <2>1, <2>4, EmptySeq DEF TextFits
  <2>6. CallFits(pc', call') /\ TodoFits(pc', call', todo')
    BY <1>1, <1>4, <2>1, EmptySeq DEF TypeInv, CallFits, TodoFits, OnGmail
  <2> QED BY <1>1, <2>5, <2>6 DEF TypeInv, QueuesFit, StoresFit, CountersFit
<1>6. CASE ~(LineAtHead = 1 /\ Head(fromGmail).kind = "OP_TOKEN")
  <2>1. EndCall
    BY <1>6 DEF ReadStatus
  <2>2. CallFits(pc', call') /\ TodoFits(pc', call', todo') /\ pc' = "menu"
    BY <1>4, <2>1, EndCallTypes DEF EndCall
  <2>3. TextFits(pc', buffer', fromGmail')
    BY <1>3, <1>4, <2>2, EmptySeq DEF TextFits
  <2> QED BY <1>1, <2>2, <2>3 DEF TypeInv, QueuesFit, StoresFit, CountersFit
<1> QED BY <1>5, <1>6

\* The token is used: a share request, or the next operation's token.
LEMMA UseTokenTypes ==
    ASSUME TypeInv, pc = "token", NEW token \in Operations, UseToken(token), UNCHANGED todo
    PROVE  /\ CallFits(pc', call') /\ TodoFits(pc', call', todo')
           /\ toKey' \in Seq(KeyRequests) /\ toGmail' \in Seq(SentRequests)
           /\ share1' \in Splits /\ share2' \in Splits /\ splits' \in Splits
           /\ pc' \notin {"mails", "token"}
<1>0. /\ toKey \in Seq(KeyRequests) /\ toGmail \in Seq(SentRequests)
      /\ share1 \in Splits /\ share2 \in Splits /\ splits \in Splits
      /\ call \in Calls /\ todo = <<>>
      /\ call.operation \in {"UPDATE_SHARE1", "UPDATE_SHARE2"} => call.split \in Splits
  BY DEF TypeInv, QueuesFit, StoresFit, CallFits, TodoFits
<1>1. ASSUME NEW r \in KeyRequests, toKey' = Append(toKey, r), UNCHANGED <<call, toGmail, shareVars>>,
             \/ pc' = "share1" /\ call.operation = "FETCH_SHARE1"
             \/ pc' = "updated" /\ call.operation = "UPDATE_SHARE1"
      PROVE  /\ CallFits(pc', call') /\ TodoFits(pc', call', todo')
             /\ toKey' \in Seq(KeyRequests) /\ toGmail' \in Seq(SentRequests)
             /\ share1' \in Splits /\ share2' \in Splits /\ splits' \in Splits
             /\ pc' \notin {"mails", "token"}
  <2>1. toKey' \in Seq(KeyRequests)
    BY <1>0, <1>1, AppendProperties
  <2>2. CallFits(pc', call')
    BY <1>0, <1>1 DEF CallFits, OnKey
  <2>3. TodoFits(pc', call', todo')
    BY <1>0, <1>1, EmptySeq DEF TodoFits
  <2> QED BY <1>0, <1>1, <2>1, <2>2, <2>3 DEF shareVars
<1>2. CASE /\ call.operation = "FETCH_SHARE1"
           /\ toKey' = Append(toKey, ShareRequest("4", token, 0))
           /\ pc' = "share1" /\ UNCHANGED <<call, toGmail, shareVars>>
  BY <1>1, <1>2, RequestTypes
<1>3. CASE /\ call.operation = "GET_SHARE"
           /\ RecoveryServerAgrees(token) /\ call.split = share2 /\ splits < MaxSplits
           /\ splits' = splits + 1
           /\ call' = [call EXCEPT !.operation = "UPDATE_SHARE1", !.split = splits + 1]
           /\ AskForToken("UPDATE_SHARE1") /\ UNCHANGED <<toKey, share1, share2, lateShares>>
  <2> DEFINE x == splits + 1
  <2>1. x \in Splits /\ splits' = x
    BY <1>0, <1>3, BoundsAssumption DEF Splits
  <2>2. call' = [call EXCEPT !.operation = "UPDATE_SHARE1", !.split = x]
    BY <1>3
  <2> HIDE DEF x
  <2>3. call' \in Calls /\ call'.operation = "UPDATE_SHARE1" /\ call'.split \in Splits
    BY <1>0, <2>1, <2>2 DEF Calls, Operations
  <2>4. AskForToken("UPDATE_SHARE1") /\ "UPDATE_SHARE1" \in Operations /\ pc' = "status"
    BY <1>3 DEF AskForToken, Operations
  <2>5. /\ CallFits(pc', call') /\ TodoFits(pc', call', todo')
        /\ toGmail' \in Seq(SentRequests)
    BY <1>0, <2>3, <2>4, AskForTokenTypes
  <2> QED BY <1>0, <1>3, <2>1, <2>4, <2>5
<1>4. CASE /\ call.operation = "UPDATE_SHARE1"
           /\ toKey' = Append(toKey, ShareRequest("5", token, call.split))
           /\ pc' = "updated" /\ UNCHANGED <<call, toGmail, shareVars>>
  <2>1. ShareRequest("5", token, call.split) \in KeyRequests
    BY <1>0, <1>4, RequestTypes
  <2> QED BY <1>1, <1>4, <2>1
<1>5. CASE EndCall /\ toKey' = toKey /\ toGmail' = toGmail /\ share1' = share1 /\ splits' = splits
           /\ share2' \in {share2, call.split} /\ (share2' # share2 => call.operation = "UPDATE_SHARE2")
  <2>1. CallFits(pc', call') /\ TodoFits(pc', call', todo') /\ pc' = "menu"
    BY <1>0, <1>5, EndCallTypes DEF EndCall
  <2>2. share2' \in Splits
    BY <1>0, <1>5
  <2> QED BY <1>0, <1>5, <2>1, <2>2
<1>6. CASE /\ call.operation = "UPDATE_SHARE2" /\ RecoveryServerAgrees(token)
           /\ share2' = call.split
           /\ EndCall /\ UNCHANGED <<toKey, toGmail, share1, splits, lateShares>>
  BY <1>5, <1>6
<1>7. CASE /\ call.operation \in {"GET_SHARE", "UPDATE_SHARE2"}
           /\ EndCall /\ UNCHANGED <<toKey, toGmail, shareVars>>
  BY <1>5, <1>7 DEF shareVars
<1> QED BY <1>2, <1>3, <1>4, <1>6, <1>7 DEF UseToken

\* The second line of an op token's answer, which is there, is read for the token.
LEMMA ReadTokenTypes == TypeInv /\ ReadToken => TypeInv'
<1> SUFFICES ASSUME TypeInv, ReadToken PROVE TypeInv'
  OBVIOUS
<1>1. /\ pc = "token" /\ LineIsThere /\ DropItems(LineAtHead)
      /\ UseToken(fromGmail[LineAtHead].of)
      /\ UNCHANGED <<buffer, todo, timed, fromKey, mailbox, arrived, processed,
                     atRisk, gaveUp, slipped, faults>>
  BY DEF ReadToken, mailVars
<1>2. /\ fromGmail \in Seq(GmailItems) /\ fromGmail # <<>> /\ fromGmail[1].kind = "token"
      /\ buffer = <<>>
  BY <1>1 DEF TypeInv, TextFits, WholeAnswers
<1>3. /\ LineAtHead \in 1..Len(fromGmail) /\ Len(fromGmail) \in Nat
      /\ \A j \in 1..(LineAtHead - 1) : ~EndsLine(fromGmail[j])
  BY <1>1, <1>2, LineLemma
<1>4. LineAtHead = 1
  <2>1. EndsLine(fromGmail[1])
    BY <1>2 DEF EndsLine
  <2> QED BY <1>3, <2>1
<1>5. fromGmail[LineAtHead].of \in Operations
  <2>1. fromGmail[1] \in GmailItems
    BY <1>2, <1>3, ElementOfSeq
  <2> QED BY <1>2, <1>4, <2>1 DEF GmailItems
<1>6. /\ CallFits(pc', call') /\ TodoFits(pc', call', todo')
      /\ toKey' \in Seq(KeyRequests) /\ toGmail' \in Seq(SentRequests)
      /\ share1' \in Splits /\ share2' \in Splits /\ splits' \in Splits
      /\ pc' \notin {"mails", "token"}
  BY <1>1, <1>5, UseTokenTypes
<1>7. WholeAnswers(fromGmail')
  BY <1>1, <1>3, DropTypes
<1>8. TextFits(pc', buffer', fromGmail')
  BY <1>1, <1>2, <1>6, <1>7, EmptySeq DEF TextFits
<1> QED BY <1>1, <1>6, <1>8 DEF TypeInv, QueuesFit, StoresFit, CountersFit

\* A mail on its way is a mail.
LEMMA InFlightTypes == TypeInv => InFlight \subseteq Mails
<1> SUFFICES ASSUME TypeInv PROVE InFlight \subseteq Mails
  OBVIOUS
<1>1. ASSUME NEW s \in Seq(GmailItems), NEW k \in 1..Len(s), s[k].kind = "back"
      PROVE  s[k].of \in Mails
  <2>1. s[k] \in GmailItems
    BY ElementOfSeq
  <2> QED BY <1>1, <2>1 DEF GmailItems
<1>2. ASSUME NEW k \in 1..Len(todo) PROVE todo[k].mail \in Mails
  <2>1. todo[k] \in FoundMails
    BY ElementOfSeq DEF TypeInv, TodoFits
  <2> QED BY <2>1 DEF FoundMails
<1>3. buffer \in Seq(GmailItems) /\ fromGmail \in Seq(GmailItems)
  BY DEF TypeInv, TextFits, WholeAnswers
<1> QED BY <1>1, <1>2, <1>3 DEF InFlight

\* A call is given up, on either connection.
LEMMA GiveUpTypes ==
    ASSUME TypeInv, NEW s \in Services, GiveUp(s)
    PROVE  TypeInv'
<1>1. /\ gaveUp["key"] + gaveUp["gmail"] < MaxGiveUps /\ gaveUp' = [gaveUp EXCEPT ![s] = @ + 1]
      /\ NothingToRead(s) /\ atRisk' = atRisk \cup InFlight
      /\ UNCHANGED <<fromKey, mailbox, arrived, share1, share2, splits, faults>>
  BY DEF GiveUp, shareVars
<1>2. gaveUp' \in [Services -> Nat] /\ gaveUp'["key"] + gaveUp'["gmail"] <= MaxGiveUps
  <2>1. gaveUp \in [Services -> Nat] /\ MaxGiveUps \in Nat
    BY BoundsAssumption DEF TypeInv, CountersFit
  <2>2. gaveUp["key"] \in Nat /\ gaveUp["gmail"] \in Nat
    BY <2>1 DEF Services
  <2>3. gaveUp' \in [Services -> Nat]
    BY <1>1, <2>1 DEF Services
  <2>4. CASE s = "key"
    <3>1. gaveUp'["key"] = gaveUp["key"] + 1 /\ gaveUp'["gmail"] = gaveUp["gmail"]
      BY <1>1, <2>1, <2>4 DEF Services
    <3> QED BY <1>1, <2>1, <2>2, <2>3, <3>1
  <2>5. CASE s = "gmail"
    <3>1. gaveUp'["key"] = gaveUp["key"] /\ gaveUp'["gmail"] = gaveUp["gmail"] + 1
      BY <1>1, <2>1, <2>5 DEF Services
    <3> QED BY <1>1, <2>1, <2>2, <2>3, <3>1
  <2> QED BY <2>4, <2>5 DEF Services
<1>3. atRisk' \subseteq Mails
  BY <1>1, InFlightTypes DEF TypeInv, StoresFit
<1>4. CASE s = "key"
  <2>1. OnKeyAnswer(Silence) /\ UNCHANGED <<buffer, fromGmail, slipped>>
    BY <1>4 DEF GiveUp
  <2>2. /\ CallFits(pc', call') /\ TodoFits(pc', call', todo') /\ SendsFit
        /\ pc \notin {"mails", "token"} /\ pc' \notin {"mails", "token"}
    BY <2>1, OnKeyAnswerTypes
  <2>3. TextFits(pc', buffer', fromGmail')
    BY <2>1, <2>2 DEF TypeInv, TextFits
  <2> QED BY <1>1, <1>2, <1>3, <2>1, <2>2, <2>3
          DEF TypeInv, SendsFit, QueuesFit, StoresFit, CountersFit
<1>5. CASE s = "gmail"
  <2>1. /\ EndCall /\ buffer' = <<>> /\ fromGmail' = <<>> /\ slipped' = TRUE
        /\ UNCHANGED <<todo, timed, toKey, toGmail, processed>>
    BY <1>5 DEF GiveUp
  <2>2. pc \in OnGmail
    BY <1>1, <1>5 DEF NothingToRead, OnGmail
  <2>3. todo' = <<>> /\ pc' = "menu"
    BY <2>1, <2>2 DEF TypeInv, TodoFits, OnGmail, EndCall
  <2>4. CallFits(pc', call') /\ TodoFits(pc', call', todo')
    BY <2>1, <2>3, EndCallTypes
  <2>5. TextFits(pc', buffer', fromGmail')
    BY <2>1, <2>3, EmptySeq DEF TextFits, WholeAnswers
  <2> QED BY <1>1, <1>2, <1>3, <2>1, <2>4, <2>5 DEF TypeInv, QueuesFit, StoresFit, CountersFit
<1> QED BY <1>4, <1>5 DEF Services

\* The client starts again.
LEMMA RestartTypes == TypeInv /\ Restart => TypeInv'
<1> SUFFICES ASSUME TypeInv, Restart PROVE TypeInv'
  OBVIOUS
<1>1. /\ EndCall /\ buffer' = <<>> /\ todo' = <<>> /\ timed' = {}
      /\ toKey' = <<>> /\ fromKey' = <<>> /\ toGmail' = <<>> /\ fromGmail' = <<>>
      /\ atRisk' = atRisk \cup InFlight /\ gaveUp' = [s \in Services |-> 0] /\ slipped' = FALSE
      /\ UNCHANGED <<mailbox, arrived, processed, share1, share2, splits, faults>>
  BY DEF Restart, EndCall, mailVars, shareVars
<1>2. CallFits(pc', call') /\ TodoFits(pc', call', todo') /\ pc' = "menu"
  BY <1>1, EndCallTypes DEF EndCall
<1>3. TextFits(pc', buffer', fromGmail')
  BY <1>1, <1>2, EmptySeq DEF TextFits, WholeAnswers
<1>4. QueuesFit'
  BY <1>1, EmptySeq DEF QueuesFit
<1>5. StoresFit'
  BY <1>1, InFlightTypes DEF TypeInv, StoresFit
<1>6. CountersFit'
  <2>1. gaveUp'["key"] = 0 /\ gaveUp'["gmail"] = 0 /\ gaveUp' \in [Services -> Nat]
    BY <1>1 DEF Services
  <2>2. gaveUp'["key"] + gaveUp'["gmail"] <= MaxGiveUps
    BY <2>1, BoundsAssumption
  <2>3. timed' \subseteq Services /\ slipped' \in BOOLEAN /\ faults' \in 0..MaxFaults
    BY <1>1 DEF TypeInv, CountersFit
  <2> QED BY <2>1, <2>2, <2>3 DEF CountersFit
<1> QED BY <1>2, <1>3, <1>4, <1>5, <1>6 DEF TypeInv

\* The Key Server answers the request at the head of its queue.
LEMMA KeyServerTypes == TypeInv /\ KeyServer => TypeInv'
<1> SUFFICES ASSUME TypeInv, KeyServer PROVE TypeInv'
  OBVIOUS
<1> DEFINE r == Head(toKey)
<1>1. /\ toKey # <<>> /\ toKey' = Tail(toKey)
      /\ UNCHANGED <<pc, call, buffer, todo, timed, toGmail, fromGmail, mailbox, arrived,
                     processed, share2, splits, atRisk, gaveUp, slipped, faults>>
  BY DEF KeyServer, gmailStream, mailVars
<1>2. /\ toKey' \in Seq(KeyRequests) /\ r \in KeyRequests
      /\ fromKey \in Seq(KeyAnswers) /\ share1 \in Splits
  BY <1>1, HeadTailProperties DEF TypeInv, QueuesFit, StoresFit
<1>3. fetchClientKey(r) \/ fetchShare1(r) \/ updateShare1(r) \/ RefuseShareRequest(r)
  BY DEF KeyServer
<1> HIDE DEF r
<1>4. r.command \in {"4", "5"} => r.split \in Splits
  BY <1>2 DEF KeyRequests
<1>5. share1' \in Splits
  BY <1>2, <1>3, <1>4 DEF fetchClientKey, fetchShare1, updateShare1, RefuseShareRequest
<1>6. \E x \in KeyAnswers : fromKey' = Append(fromKey, x)
  <2>1. CASE fetchClientKey(r) /\ r.name \in Registered
    <3>1. fromKey' = Append(fromKey, [kind |-> "key", of |-> r.name])
      BY <2>1 DEF fetchClientKey
    <3>2. [kind |-> "key", of |-> r.name] \in KeyAnswers
      BY <2>1 DEF KeyAnswers
    <3> QED BY <3>1, <3>2
  <2>2. CASE fetchClientKey(r) /\ r.name \notin Registered
    <3>1. fromKey' = Append(fromKey, [kind |-> "CLIENT_NOT_FOUND", of |-> None])
      BY <2>2 DEF fetchClientKey
    <3>2. [kind |-> "CLIENT_NOT_FOUND", of |-> None] \in KeyAnswers
      BY DEF KeyAnswers
    <3> QED BY <3>1, <3>2
  <2>3. CASE fetchShare1(r)
    <3>1. fromKey' = Append(fromKey, [kind |-> "share", of |-> share1])
      BY <2>3 DEF fetchShare1
    <3>2. [kind |-> "share", of |-> share1] \in KeyAnswers
      BY <1>2 DEF KeyAnswers
    <3> QED BY <3>1, <3>2
  <2>4. CASE updateShare1(r)
    <3>1. fromKey' = Append(fromKey, [kind |-> "SHARE1_UPDATED", of |-> None])
      BY <2>4 DEF updateShare1
    <3>2. [kind |-> "SHARE1_UPDATED", of |-> None] \in KeyAnswers
      BY DEF KeyAnswers
    <3> QED BY <3>1, <3>2
  <2>5. CASE RefuseShareRequest(r)
    <3>1. fromKey' = Append(fromKey, [kind |-> "refusal", of |-> None])
      BY <2>5 DEF RefuseShareRequest
    <3>2. [kind |-> "refusal", of |-> None] \in KeyAnswers
      BY DEF KeyAnswers
    <3> QED BY <3>1, <3>2
  <2> QED BY <1>3, <2>1, <2>2, <2>3, <2>4, <2>5
<1>7. fromKey' \in Seq(KeyAnswers)
  BY <1>2, <1>6, AppendProperties
<1> QED BY <1>1, <1>2, <1>5, <1>7 DEF TypeInv, QueuesFit, StoresFit, CountersFit

\* What the Gmail Server's answers leave on the connection.
LEMMA AnswerFits ==
    ASSUME TypeInv, NEW t, WholeAnswers(t), fromGmail' = fromGmail \o t,
           UNCHANGED <<pc, call, buffer, todo>>
    PROVE  CallFits(pc', call') /\ TodoFits(pc', call', todo') /\ TextFits(pc', buffer', fromGmail')
<1>1. WholeAnswers(fromGmail) /\ WholeAnswers(fromGmail')
  BY AnswerAdded DEF TypeInv, TextFits
<1>2. pc = "token" => fromGmail' # <<>> /\ fromGmail'[1].kind = "token"
  <2> SUFFICES ASSUME pc = "token" PROVE fromGmail' # <<>> /\ fromGmail'[1].kind = "token"
    OBVIOUS
  <2>1. fromGmail # <<>> /\ fromGmail[1].kind = "token"
    BY DEF TypeInv, TextFits
  <2>2. /\ Len(fromGmail) > 0 /\ Len(fromGmail) \in Nat /\ Len(t) \in Nat
        /\ Len(fromGmail') = Len(fromGmail) + Len(t)
        /\ \A i \in 1..(Len(fromGmail) + Len(t)) :
             fromGmail'[i] = IF i <= Len(fromGmail) THEN fromGmail[i] ELSE t[i - Len(fromGmail)]
    BY <1>1, <2>1, ConcatProperties, LenProperties, EmptySeq DEF WholeAnswers
  <2>3. fromGmail'[1] = fromGmail[1] /\ Len(fromGmail') > 0
    BY <2>2
  <2> QED BY <2>1, <2>3, EmptySeq
<1>3. TextFits(pc', buffer', fromGmail')
  BY <1>1, <1>2 DEF TypeInv, TextFits
<1> QED BY <1>3 DEF TypeInv

\* REQUEST_OP_TOKEN: two lines.
LEMMA RequestOpTokenTypes ==
    ASSUME TypeInv, NEW r \in SentRequests, RequestOpToken(r)
    PROVE  /\ \E t : WholeAnswers(t) /\ fromGmail' = fromGmail \o t
           /\ UNCHANGED <<mailbox, atRisk>> /\ slipped' \in BOOLEAN /\ faults' \in 0..MaxFaults
<1>0. r.command = "REQUEST_OP_TOKEN" /\ slipped \in BOOLEAN /\ faults \in 0..MaxFaults
  BY DEF RequestOpToken, TypeInv, CountersFit
<1>1. CASE /\ fromGmail' = fromGmail \o <<Item("OP_TOKEN", None, FALSE), Item("token", r.of, TRUE)>>
           /\ UNCHANGED <<slipped, faults>>
  <2> DEFINE x == Item("OP_TOKEN", None, FALSE)
             y == Item("token", r.of, TRUE)
  <2>1. x \in GmailItems /\ x.kind = "OP_TOKEN"
    <3>1. x \in GmailItems
      BY DEF Item, GmailItems
    <3>2. x.kind = "OP_TOKEN"
      BY DEF Item
    <3> QED BY <3>1, <3>2
  <2>2. r.of \in Operations
    BY <1>0 DEF SentRequests
  <2>3. y \in GmailItems /\ y.kind = "token" /\ y.last = TRUE
    <3>1. y \in GmailItems
      BY <2>2 DEF Item, GmailItems
    <3>2. y.kind = "token" /\ y.last = TRUE
      BY DEF Item
    <3> QED BY <3>1, <3>2
  <2>4. fromGmail' = fromGmail \o <<x, y>>
    BY <1>1
  <2> HIDE DEF x, y
  <2>5. WholeAnswers(<<x, y>>)
    BY <2>1, <2>3, ShortAnswers
  <2> QED BY <1>0, <1>1, <2>4, <2>5 DEF RequestOpToken
<1>2. CASE /\ faults < MaxFaults /\ faults' = faults + 1 /\ slipped' = TRUE
           /\ fromGmail' = fromGmail \o <<Item("ERROR", None, FALSE), Item("NUL", None, TRUE)>>
  <2> DEFINE x == Item("ERROR", None, FALSE)
             y == Item("NUL", None, TRUE)
  <2>1. x \in GmailItems /\ x.kind = "ERROR"
    <3>1. x \in GmailItems
      BY DEF Item, GmailItems
    <3>2. x.kind = "ERROR"
      BY DEF Item
    <3> QED BY <3>1, <3>2
  <2>3. y \in GmailItems /\ y.kind = "NUL" /\ y.last = TRUE
    <3>1. y \in GmailItems
      BY DEF Item, GmailItems
    <3>2. y.kind = "NUL" /\ y.last = TRUE
      BY DEF Item
    <3> QED BY <3>1, <3>2
  <2>4. fromGmail' = fromGmail \o <<x, y>>
    BY <1>2
  <2> HIDE DEF x, y
  <2>5. WholeAnswers(<<x, y>>)
    BY <2>1, <2>3, ShortAnswers
  <2>6. faults' \in 0..MaxFaults
    BY <1>0, <1>2, BoundsAssumption
  <2> QED BY <1>2, <2>4, <2>5, <2>6 DEF RequestOpToken
<1> QED BY <1>1, <1>2 DEF RequestOpToken

\* EMAIL_SEND: one line.
LEMMA EmailSendTypes ==
    ASSUME TypeInv, NEW r, EmailSend(r)
    PROVE  /\ \E t : WholeAnswers(t) /\ fromGmail' = fromGmail \o t
           /\ UNCHANGED <<mailbox, atRisk, slipped, faults>>
<1> DEFINE y == Item("OK:EMAIL_STORED", None, TRUE)
<1>1. y \in GmailItems /\ y.kind = "OK:EMAIL_STORED" /\ y.last = TRUE
  <2>1. y \in GmailItems
    BY DEF Item, GmailItems
  <2>2. y.kind = "OK:EMAIL_STORED" /\ y.last = TRUE
    BY DEF Item
  <2> QED BY <2>1, <2>2
<1>2. fromGmail' = Append(fromGmail, y) /\ UNCHANGED <<mailbox, atRisk, slipped, faults>>
  BY DEF EmailSend
<1>3. fromGmail \in Seq(GmailItems)
  BY DEF TypeInv, TextFits, WholeAnswers
<1> HIDE DEF y
<1>4. WholeAnswers(<<y>>)
  BY <1>1, ShortAnswers
<1>5. Append(fromGmail, y) = fromGmail \o <<y>>
  BY <1>1, <1>3, AppendIsConcat
<1> QED BY <1>2, <1>4, <1>5

\* "4": one line and a marker, or the mailbox.
LEMMA RetrieveEmailsTypes ==
    ASSUME TypeInv, NEW r, RetrieveEmails(r)
    PROVE  /\ \E t : WholeAnswers(t) /\ fromGmail' = fromGmail \o t
           /\ mailbox' \in Seq(Mails) /\ atRisk' \subseteq Mails
           /\ slipped' \in BOOLEAN /\ faults' \in 0..MaxFaults
<1>0. /\ mailbox \in Seq(Mails) /\ atRisk \subseteq Mails
      /\ slipped \in BOOLEAN /\ faults \in 0..MaxFaults
  BY DEF TypeInv, StoresFit, CountersFit
<1>1. CASE mailbox = <<>>
  <2> DEFINE x == Item("No emails found", None, FALSE)
             y == Item("END", None, TRUE)
  <2>1. x \in GmailItems /\ x.kind = "No emails found"
    <3>1. x \in GmailItems
      BY DEF Item, GmailItems
    <3>2. x.kind = "No emails found"
      BY DEF Item
    <3> QED BY <3>1, <3>2
  <2>2. y \in GmailItems /\ y.kind = "END" /\ y.last = TRUE
    <3>1. y \in GmailItems
      BY DEF Item, GmailItems
    <3>2. y.kind = "END" /\ y.last = TRUE
      BY DEF Item
    <3> QED BY <3>1, <3>2
  <2>3. fromGmail' = fromGmail \o <<x, y>> /\ UNCHANGED <<mailbox, atRisk, slipped, faults>>
    BY <1>1 DEF RetrieveEmails
  <2> HIDE DEF x, y
  <2>4. WholeAnswers(<<x, y>>)
    BY <2>1, <2>2, ShortAnswers
  <2> QED BY <1>0, <2>3, <2>4
<1>2. CASE mailbox # <<>>
  <2>1. PICK cuts \in SUBSET (1..(3 * Len(mailbox) - 1)) :
              /\ fromGmail' = fromGmail \o Chunked(mailbox, cuts)
              /\ slipped' = (slipped \/ cuts # {})
              /\ atRisk' = IF slipped' \/ gaveUp["key"] > 0
                           THEN atRisk \cup {mailbox[k] : k \in 1..Len(mailbox)} ELSE atRisk
              /\ ClearMailbox
    BY <1>2 DEF RetrieveEmails
  <2>2. WholeAnswers(Chunked(mailbox, cuts))
    BY <1>0, <1>2, ChunkedIsWhole
  <2>3. slipped' \in BOOLEAN
    BY <2>1
  <2>4. mailbox' \in Seq(Mails)
    BY <1>0, <2>1, EmptySeq DEF ClearMailbox
  <2>5. faults' \in 0..MaxFaults
    BY <1>0, <2>1, BoundsAssumption DEF ClearMailbox
  <2>6. atRisk' \subseteq Mails
    <3>1. {mailbox[k] : k \in 1..Len(mailbox)} \subseteq Mails
      BY <1>0, ElementOfSeq
    <3>2. atRisk' = atRisk \cup {mailbox[k] : k \in 1..Len(mailbox)} \/ atRisk' = atRisk
      BY <2>1
    <3> QED BY <1>0, <3>1, <3>2
  <2> QED BY <2>1, <2>2, <2>3, <2>4, <2>5, <2>6
<1> QED BY <1>1, <1>2

\* The Gmail Server answers the request at the head of its queue.
LEMMA GmailServerTypes == TypeInv /\ GmailServer => TypeInv'
<1> SUFFICES ASSUME TypeInv, GmailServer PROVE TypeInv'
  OBVIOUS
<1> DEFINE r == Head(toGmail)
<1>1. /\ toGmail # <<>> /\ toGmail' = Tail(toGmail)
      /\ UNCHANGED <<pc, call, buffer, todo, timed, toKey, fromKey, arrived, processed,
                     share1, share2, splits, gaveUp>>
  BY DEF GmailServer, keyStream, shareVars
<1>2. toGmail' \in Seq(SentRequests) /\ r \in SentRequests
  BY <1>1, HeadTailProperties DEF TypeInv, QueuesFit
<1>3. RequestOpToken(r) \/ EmailSend(r) \/ RetrieveEmails(r)
  BY DEF GmailServer
<1> HIDE DEF r
<1>4. mailbox \in Seq(Mails) /\ atRisk \subseteq Mails /\ slipped \in BOOLEAN /\ faults \in 0..MaxFaults
  BY DEF TypeInv, StoresFit, CountersFit
<1>5. /\ \E t : WholeAnswers(t) /\ fromGmail' = fromGmail \o t
      /\ mailbox' \in Seq(Mails) /\ atRisk' \subseteq Mails
      /\ slipped' \in BOOLEAN /\ faults' \in 0..MaxFaults
  <2>1. CASE RequestOpToken(r)
    BY <1>2, <1>4, <2>1, RequestOpTokenTypes
  <2>2. CASE EmailSend(r)
    BY <1>4, <2>2, EmailSendTypes
  <2>3. CASE RetrieveEmails(r)
    BY <2>3, RetrieveEmailsTypes
  <2> QED BY <1>3, <2>1, <2>2, <2>3
<1>6. CallFits(pc', call') /\ TodoFits(pc', call', todo') /\ TextFits(pc', buffer', fromGmail')
  BY <1>1, <1>5, AnswerFits
<1> QED BY <1>1, <1>2, <1>5, <1>6 DEF TypeInv, QueuesFit, StoresFit, CountersFit

\* Another user's mail is stored.
LEMMA StoreEmailTypes ==
    ASSUME TypeInv, NEW m \in Mails, storeEmail(m)
    PROVE  TypeInv'
<1>1. /\ mailbox' = Append(mailbox, m) /\ arrived' = arrived \cup {m}
      /\ UNCHANGED <<pc, call, buffer, todo, timed, toKey, fromKey, toGmail, fromGmail, processed,
                     share1, share2, splits, atRisk, gaveUp, slipped, faults>>
  BY DEF storeEmail, keyStream, gmailStream, shareVars
<1>2. mailbox' \in Seq(Mails) /\ arrived' \subseteq Mails
  BY <1>1, AppendProperties DEF TypeInv, StoresFit
<1> QED BY <1>1, <1>2 DEF TypeInv, QueuesFit, StoresFit, CountersFit

\* A request of an ended client is carried out, or refused.
LEMMA LateTypes ==
    ASSUME TypeInv, LateFits, (\E split \in Splits : LateUpdate(split)) \/ LateRetrieve
    PROVE  TypeInv'
<1>1. ASSUME NEW split \in Splits, LateUpdate(split) PROVE TypeInv'
  <2>1. /\ share1' = split \/ share1' = share1
        /\ UNCHANGED <<pc, call, buffer, todo, timed, toKey, fromKey, toGmail, fromGmail, mailbox,
                       arrived, processed, share2, splits, atRisk, gaveUp, slipped, faults>>
    BY <1>1 DEF LateUpdate, keyStream, gmailStream, mailVars
  <2> QED BY <1>1, <2>1 DEF TypeInv, QueuesFit, StoresFit, CountersFit
<1>2. CASE LateRetrieve
  <2>1. /\ UNCHANGED <<mailbox, faults>> \/ ClearMailbox
        /\ atRisk' = atRisk \cup {mailbox[k] : k \in 1..Len(mailbox)} \/ atRisk' = atRisk
        /\ UNCHANGED <<pc, call, buffer, todo, timed, toKey, fromKey, toGmail, fromGmail,
                       arrived, processed, share1, share2, splits, gaveUp, slipped>>
    BY <1>2 DEF LateRetrieve, keyStream, gmailStream, shareVars
  <2>2. mailbox \in Seq(Mails) /\ faults \in 0..MaxFaults /\ atRisk \subseteq Mails
    BY DEF TypeInv, StoresFit, CountersFit
  <2>3. mailbox' \in Seq(Mails)
    BY <2>1, <2>2, EmptySeq DEF ClearMailbox
  <2>6. faults' \in 0..MaxFaults
    BY <2>1, <2>2, BoundsAssumption DEF ClearMailbox
  <2>4. {mailbox[k] : k \in 1..Len(mailbox)} \subseteq Mails
    BY <2>2, ElementOfSeq
  <2>5. atRisk' \subseteq Mails
    BY <2>1, <2>2, <2>4
  <2> QED BY <2>1, <2>3, <2>5, <2>6 DEF TypeInv, QueuesFit, StoresFit, CountersFit
<1> QED BY <1>1, <1>2

\* The splits that were on their way to the Key Server, and the retrievals.
LEMMA PendingTypes ==
    ASSUME TypeInv
    PROVE  PendingUpdates \subseteq Splits /\ Cardinality(PendingRetrievals) \in Nat
<1>1. ASSUME NEW k \in 1..Len(toKey), toKey[k].command = "5" PROVE toKey[k].split \in Splits
  <2>1. toKey[k] \in KeyRequests
    BY ElementOfSeq DEF TypeInv, QueuesFit
  <2> QED BY <1>1, <2>1 DEF KeyRequests
<1>2. Len(toGmail) \in Nat
  BY LenProperties DEF TypeInv, QueuesFit
<1>3. IsFiniteSet(1..Len(toGmail))
  BY <1>2, FS_Interval
<1>4. PendingRetrievals \subseteq 1..Len(toGmail)
  BY DEF PendingRetrievals
<1>5. IsFiniteSet(PendingRetrievals)
  BY <1>3, <1>4, FS_Subset
<1> QED BY <1>1, <1>5, FS_CardinalityType DEF PendingUpdates

\* What ended clients left behind keeps its types.
LEMMA NextLateFits == TypeInv /\ LateFits /\ [Next]_vars => LateFits'
<1> SUFFICES ASSUME TypeInv, LateFits, [Next]_vars PROVE LateFits'
  OBVIOUS
<1>1. CASE Restart
  <2>1. /\ lateUpdates' = lateUpdates \cup PendingUpdates /\ overtaken' = overtaken
        /\ lateRetrievals' = lateRetrievals + Cardinality(PendingRetrievals)
        /\ lateRetrievals' <= MaxLate
    BY <1>1 DEF Restart
  <2>2. PendingUpdates \subseteq Splits /\ Cardinality(PendingRetrievals) \in Nat
    BY PendingTypes
  <2>3. lateRetrievals' \in 0..MaxLate
    BY <2>1, <2>2, BoundsAssumption DEF LateFits
  <2> QED BY <2>1, <2>2, <2>3 DEF LateFits
<1>2. ASSUME NEW split \in Splits, LateUpdate(split) PROVE LateFits'
  <2>1. /\ lateUpdates' = lateUpdates \ {split} /\ (overtaken' = TRUE \/ overtaken' = overtaken)
        /\ lateRetrievals' = lateRetrievals
    BY <1>2 DEF LateUpdate, mailVars
  <2> QED BY <2>1 DEF LateFits
<1>3. CASE LateRetrieve
  <2>1. /\ lateRetrievals > 0 /\ lateRetrievals' = lateRetrievals - 1
        /\ UNCHANGED <<lateUpdates, overtaken>>
    BY <1>3 DEF LateRetrieve, shareVars, lateShares
  <2>2. lateRetrievals' \in 0..MaxLate
    BY <2>1, BoundsAssumption DEF LateFits
  <2> QED BY <2>1, <2>2 DEF LateFits
<1>4. CASE KeyServer
  <2>1. UNCHANGED <<lateUpdates, lateRetrievals>> /\ (overtaken' = FALSE \/ overtaken' = overtaken)
    BY <1>4 DEF KeyServer, fetchClientKey, fetchShare1, updateShare1, RefuseShareRequest, mailVars
  <2> QED BY <2>1 DEF LateFits
<1>5. CASE \/ Menu \/ Receive \/ GmailServer \/ (\E s \in Services : GiveUp(s))
           \/ (\E m \in Mails : storeEmail(m)) \/ UNCHANGED vars
  <2>1. UNCHANGED <<lateUpdates, overtaken, lateRetrievals>>
    BY <1>5 DEF Menu, send_email, receive_emails, recover_account_flow, Receive, ReceiveFromKey,
       ReceiveStored, ReceiveMails, ReadStatus, ReadToken, UseToken, GmailServer, GiveUp, storeEmail,
       vars, mailVars, shareVars, lateShares
  <2> QED BY <2>1 DEF LateFits
<1> QED BY <1>1, <1>2, <1>3, <1>4, <1>5 DEF Next

\* Nothing was left behind at first.
LEMMA InitLateFits == Init => LateFits
<1>1. 0 \in 0..MaxLate
  BY BoundsAssumption
<1> QED BY <1>1 DEF Init, LateFits

\* Every step keeps the types.
LEMMA NextTypeInv == TypeInv /\ LateFits /\ [Next]_vars => TypeInv'
<1> SUFFICES ASSUME TypeInv, LateFits, [Next]_vars PROVE TypeInv'
  OBVIOUS
<1>1. CASE Menu
  BY <1>1, MenuTypes
<1>2. CASE Receive
  BY <1>2, ReceiveFromKeyTypes, ReceiveStoredTypes, ReceiveMailsTypes, ReadStatusTypes,
     ReadTokenTypes DEF Receive
<1>3. CASE KeyServer \/ GmailServer
  BY <1>3, KeyServerTypes, GmailServerTypes
<1>4. ASSUME NEW s \in Services, GiveUp(s) PROVE TypeInv'
  BY <1>4, GiveUpTypes
<1>5. CASE Restart
  BY <1>5, RestartTypes
<1>6. ASSUME NEW m \in Mails, storeEmail(m) PROVE TypeInv'
  BY <1>6, StoreEmailTypes
<1>7. CASE (\E split \in Splits : LateUpdate(split)) \/ LateRetrieve
  BY <1>7, LateTypes
<1>8. CASE UNCHANGED vars
  BY <1>8 DEF vars, keyStream, gmailStream, mailVars, shareVars, TypeInv, QueuesFit, StoresFit,
     CountersFit
<1> QED BY <1>1, <1>2, <1>3, <1>4, <1>5, <1>6, <1>7, <1>8 DEF Next

\* The types, with what ended clients left behind.
Typed == TypeInv /\ LateFits

\* Every step keeps both.
LEMMA NextTyped == Typed /\ [Next]_vars => Typed'
BY NextTypeInv, NextLateFits DEF Typed

\* And they hold at first.
LEMMA InitTyped == Init => Typed
BY InitTypeInv, InitLateFits DEF Typed

\* Whatever is on the connections, and whatever receive_emails makes of it, every
\* variable holds what its place in the code says, and what the client waits for
\* goes with the local variables of the function that waits.
THEOREM TypeCorrect == Spec => []TypeOK
<1>1. Typed => TypeOK
  BY TypeInvImpliesTypeOK DEF Typed
<1> QED BY <1>1, InitTyped, NextTyped, PTL DEF Spec

-----------------------------------------------------------------------------
(* The lag *)

\* An update of Share1 is under way: one more answer may come to be read in part.
Updating == IF call.operation = "UPDATE_SHARE1" THEN 1 ELSE 0

\* All that is under way on the Key Server connection is an update of Share1.
AskedToUpdate ==
    /\ \A k \in 1..Len(toKey) : toKey[k].command = "5"
    /\ \A k \in 1..Len(fromKey) : fromKey[k].kind \in {"SHARE1_UPDATED", "refusal"}

LagInv ==
    /\ KeyLag
    /\ Unread + Updating <= gaveUp["key"] + Awaited + splits
    /\ gaveUp["key"] = 0 /\ pc = "updated" => AskedToUpdate

\* The numbers the lag is made of.
LEMMA LagNumbers ==
    ASSUME TypeInv
    PROVE  /\ Len(toKey) \in Nat /\ Len(fromKey) \in Nat
           /\ gaveUp["key"] \in Nat /\ splits \in Nat
           /\ \A x : Len(Append(toKey, x)) = Len(toKey) + 1
<1>1. toKey \in Seq(KeyRequests) /\ fromKey \in Seq(KeyAnswers)
  BY DEF TypeInv, QueuesFit
<1> QED BY <1>1, AppendLemma, LenProperties, BoundsAssumption
        DEF TypeInv, StoresFit, CountersFit, Services, Splits

\* The client goes on: to a place where it waits for the Key Server, with one more
\* request sent to it, or to another place, with none.
Turn ==
    \/ pc' \notin OnKey /\ toKey' = toKey
    \/ pc' \in OnKey /\ \E x : toKey' = Append(toKey, x)

\* An update begins with a split of its own (recover_account_flow).
Spends ==
    \/ splits' = splits /\ (call'.operation = "UPDATE_SHARE1" => call.operation = "UPDATE_SHARE1")
    \/ splits' = splits + 1

\* Every caller of tls_recv on the Key Server connection goes on like that, with
\* an answer and without one (get_recipient_pubkey, fetch_share1_from_keyserver,
\* update_share1_on_keyserver).
LEMMA OnKeyAnswerTurn ==
    ASSUME NEW answer, OnKeyAnswer(answer)
    PROVE  /\ pc \in OnKey /\ Turn /\ pc' # "updated"
           /\ pc = "updated" => pc' \notin OnKey
<1>1. CASE SendWithKey(answer)
  BY <1>1 DEF SendWithKey, EndCall, OnKey, Turn
<1>2. CASE ShowMail(answer)
  BY <1>2 DEF ShowMail, ProcessNext, AskForKey, EndCall, OnKey, Turn
<1>3. CASE FetchedShare1(answer)
  BY <1>3 DEF FetchedShare1, AskForToken, EndCall, OnKey, Turn
<1>4. CASE UpdatedShare1(answer)
  BY <1>4 DEF UpdatedShare1, AskForToken, EndCall, OnKey, Turn
<1> QED BY <1>1, <1>2, <1>3, <1>4 DEF OnKeyAnswer

\* None of them begins an update, and one that waited for an update's answer is done
\* with it.
LEMMA OnKeyAnswerSpends ==
    ASSUME TypeInv, NEW answer, OnKeyAnswer(answer)
    PROVE  /\ call'.operation = "UPDATE_SHARE1" => call.operation = "UPDATE_SHARE1"
           /\ pc = "updated" => call'.operation # "UPDATE_SHARE1"
<1>0. NoCall.operation # "UPDATE_SHARE1" /\ call \in Calls
  BY NoneAssumption DEF NoCall, Operations, TypeInv, CallFits
<1>1. CASE SendWithKey(answer)
  BY <1>0, <1>1 DEF SendWithKey, EndCall
<1>2. CASE ShowMail(answer)
  BY <1>0, <1>2 DEF ShowMail, ProcessNext, EndCall
<1>3. CASE FetchedShare1(answer)
  BY <1>0, <1>3 DEF FetchedShare1, EndCall, Calls
<1>4. CASE UpdatedShare1(answer)
  BY <1>0, <1>4 DEF UpdatedShare1, EndCall, Calls
<1> QED BY <1>1, <1>2, <1>3, <1>4 DEF OnKeyAnswer

\* A step of a client that waits for something else: the lag stays.
LEMMA TurnKeepsLag ==
    ASSUME TypeInv, LagInv, pc \notin OnKey, Turn, Spends, fromKey' = fromKey,
           gaveUp'["key"] = gaveUp["key"],
           pc' = "updated" => \E x : toKey' = Append(toKey, x) /\ x.command = "5"
    PROVE  LagInv'
<1>1. /\ Len(toKey) \in Nat /\ Len(fromKey) \in Nat /\ gaveUp["key"] \in Nat /\ splits \in Nat
      /\ \A x : Len(Append(toKey, x)) = Len(toKey) + 1
  BY LagNumbers
<1>2. KeyLag'
  BY <1>1, SMTT(40) DEF LagInv, KeyLag, Unread, Awaited, Turn, Spends
<1>3. (Unread + Updating <= gaveUp["key"] + Awaited + splits)'
  BY <1>1, SMTT(40) DEF LagInv, KeyLag, Unread, Updating, Awaited, Turn, Spends
<1>4. ASSUME gaveUp["key"] = 0, pc' = "updated" PROVE AskedToUpdate'
  <2>1. Len(toKey) = 0 /\ Len(fromKey) = 0
    BY <1>1, <1>4 DEF LagInv, KeyLag, Unread, Awaited
  <2>2. PICK x : toKey' = Append(toKey, x) /\ x.command = "5"
    BY <1>4
  <2>3. Len(toKey') = 1 /\ toKey'[1] = x
    BY <2>1, <2>2, AppendLemma DEF TypeInv, QueuesFit
  <2> QED BY <2>1, <2>2, <2>3 DEF AskedToUpdate
<1> QED BY <1>2, <1>3, <1>4 DEF LagInv

\* An answer is read (tls_recv): one unread answer less, one call less or one
\* request more; or, when an update reads a part of an answer that is not its own,
\* one call less alone.
LEMMA ReceiveKeepsLag ==
    ASSUME TypeInv, LagInv, ReceiveFromKey
    PROVE  LagInv'
<1>1. /\ fromKey # <<>> /\ fromKey' = ReadHead /\ gaveUp' = gaveUp /\ splits' = splits
      /\ OnKeyAnswer(Head(fromKey))
  BY DEF ReceiveFromKey, shareVars
<1>2. /\ pc \in OnKey /\ Turn /\ pc' # "updated" /\ (pc = "updated" => pc' \notin OnKey)
      /\ call'.operation = "UPDATE_SHARE1" => call.operation = "UPDATE_SHARE1"
      /\ pc = "updated" => call'.operation # "UPDATE_SHARE1"
  BY <1>1, OnKeyAnswerTurn, OnKeyAnswerSpends
<1>3. /\ Len(toKey) \in Nat /\ Len(fromKey) \in Nat /\ gaveUp["key"] \in Nat /\ splits \in Nat
      /\ \A x : Len(Append(toKey, x)) = Len(toKey) + 1
  BY LagNumbers
<1>4. CASE fromKey' = Tail(fromKey)
  <2>1. Len(fromKey) > 0 /\ Len(fromKey') = Len(fromKey) - 1
    BY <1>1, <1>4, TailLemma DEF TypeInv, QueuesFit
  <2>2. KeyLag'
    BY <1>1, <1>2, <1>3, <2>1, SMTT(40) DEF LagInv, KeyLag, Unread, Awaited, Turn
  <2>3. (Unread + Updating <= gaveUp["key"] + Awaited + splits)'
    BY <1>1, <1>2, <1>3, <2>1, SMTT(40) DEF LagInv, KeyLag, Unread, Updating, Awaited, Turn
  <2> QED BY <1>2, <2>2, <2>3 DEF LagInv
<1>5. CASE pc = "updated" /\ ReadsOf(fromKey[1]) > 1 /\ Len(fromKey') = Len(fromKey)
  <2>1. call.operation = "UPDATE_SHARE1"
    BY <1>5 DEF TypeInv, CallFits
  <2>2. gaveUp["key"] # 0
    <3> SUFFICES ASSUME gaveUp["key"] = 0 PROVE FALSE
      OBVIOUS
    <3>1. Len(fromKey) > 0
      BY <1>1, EmptySeq, LenProperties DEF TypeInv, QueuesFit
    <3>2. fromKey[1].kind \in {"SHARE1_UPDATED", "refusal"}
      BY <1>3, <1>5, <3>1 DEF LagInv, AskedToUpdate
    <3>3. ReadsOf(fromKey[1]) = 1
      BY <3>2 DEF ReadsOf
    <3> QED BY <1>5, <3>3
  <2>3. toKey' = toKey /\ pc' \notin OnKey
    BY <1>2, <1>5 DEF Turn
  <2>4. KeyLag'
    BY <1>1, <1>2, <1>3, <1>5, <2>1, <2>2, <2>3 DEF LagInv, KeyLag, Unread, Updating, Awaited
  <2>5. (Unread + Updating <= gaveUp["key"] + Awaited + splits)'
    BY <1>1, <1>2, <1>3, <1>5, <2>1, <2>3 DEF LagInv, Unread, Updating, Awaited
  <2> QED BY <1>2, <2>4, <2>5 DEF LagInv
<1>6. fromKey \in Seq(KeyAnswers)
  BY DEF TypeInv, QueuesFit
<1>7. \/ fromKey' = Tail(fromKey)
      \/ pc = "updated" /\ ReadsOf(fromKey[1]) > 1 /\ Len(fromKey') = Len(fromKey)
  BY <1>1, <1>6, ReadHeadTypes
<1> QED BY <1>4, <1>5, <1>7

\* A call is given up (the 5 s timeout): its answer, or its request, stays, and
\* is counted.
LEMMA GiveUpKeepsLag ==
    ASSUME TypeInv, LagInv, NEW s \in Services, GiveUp(s)
    PROVE  LagInv'
<1>1. /\ gaveUp \in [Services -> Nat] /\ gaveUp' = [gaveUp EXCEPT ![s] = @ + 1]
      /\ fromKey' = fromKey /\ splits' = splits
  BY DEF GiveUp, shareVars, TypeInv, CountersFit
<1>2. CASE s = "key"
  <2>1. /\ pc \in OnKey /\ Turn /\ pc' # "updated"
        /\ call'.operation = "UPDATE_SHARE1" => call.operation = "UPDATE_SHARE1"
    BY <1>2, OnKeyAnswerTurn, OnKeyAnswerSpends DEF GiveUp
  <2>2. /\ Len(toKey) \in Nat /\ Len(fromKey) \in Nat /\ gaveUp["key"] \in Nat /\ splits \in Nat
        /\ gaveUp'["key"] = gaveUp["key"] + 1
        /\ \A x : Len(Append(toKey, x)) = Len(toKey) + 1
    BY <1>1, <1>2, LagNumbers DEF Services
  <2>3. KeyLag'
    BY <1>1, <2>1, <2>2, SMTT(40) DEF LagInv, KeyLag, Unread, Awaited, Turn
  <2>4. (Unread + Updating <= gaveUp["key"] + Awaited + splits)'
    BY <1>1, <2>1, <2>2, SMTT(40) DEF LagInv, Unread, Updating, Awaited, Turn
  <2> QED BY <2>1, <2>3, <2>4 DEF LagInv
<1>3. CASE s = "gmail"
  <2>1. /\ pc \notin OnKey /\ pc' = "menu" /\ call' = NoCall /\ toKey' = toKey
    BY <1>3 DEF GiveUp, NothingToRead, EndCall, OnKey
  <2>2. gaveUp'["key"] = gaveUp["key"]
    BY <1>1, <1>3 DEF Services
  <2>3. Turn /\ Spends /\ pc' # "updated"
    BY <1>1, <2>1, NoneAssumption DEF Turn, Spends, OnKey, NoCall, Operations
  <2> QED BY <1>1, <2>1, <2>2, <2>3, TurnKeepsLag
<1> QED BY <1>2, <1>3 DEF Services

\* The Key Server answers a request: one request less, one answer more
\* (keyserver.cpp, handleClient).
LEMMA KeyServerKeepsLag ==
    ASSUME TypeInv, LagInv, KeyServer
    PROVE  LagInv'
<1>1. /\ toKey # <<>> /\ toKey' = Tail(toKey) /\ \E x : fromKey' = Append(fromKey, x)
      /\ UNCHANGED <<pc, call, gaveUp, splits>>
  BY DEF KeyServer, fetchClientKey, fetchShare1, updateShare1, RefuseShareRequest
<1>2. toKey \in Seq(KeyRequests) /\ fromKey \in Seq(KeyAnswers)
  BY DEF TypeInv, QueuesFit
<1>3. PICK x : fromKey' = Append(fromKey, x)
  BY <1>1
<1>4. /\ Len(toKey) \in Nat /\ Len(fromKey) \in Nat /\ Len(toKey) > 0 /\ Head(toKey) = toKey[1]
      /\ Len(toKey') = Len(toKey) - 1 /\ Len(fromKey') = Len(fromKey) + 1
      /\ \A k \in 1..Len(toKey') : toKey'[k] = toKey[k + 1]
      /\ \A k \in 1..Len(fromKey) : fromKey'[k] = fromKey[k]
      /\ fromKey'[Len(fromKey) + 1] = x
  BY <1>1, <1>2, <1>3, AppendLemma, TailLemma
<1>5. Unread' = Unread
  BY <1>4 DEF Unread
<1>6. KeyLag' /\ (Unread + Updating <= gaveUp["key"] + Awaited + splits)'
  BY <1>1, <1>5, SMTT(40) DEF LagInv, KeyLag, Updating, Awaited
<1>7. ASSUME gaveUp["key"] = 0, pc = "updated" PROVE AskedToUpdate'
  <2>1. AskedToUpdate
    BY <1>7 DEF LagInv
  <2>2. Head(toKey).command = "5"
    BY <1>4, <2>1 DEF AskedToUpdate
  <2> DEFINE own(a) == a.kind \in {"SHARE1_UPDATED", "refusal"}
  <2>3. ASSUME own(fromKey'[Len(fromKey) + 1]) PROVE AskedToUpdate'
    <3>1. \A k \in 1..Len(toKey') : toKey'[k].command = "5"
      BY <1>4, <2>1 DEF AskedToUpdate
    <3>2. ASSUME NEW k \in 1..Len(fromKey') PROVE own(fromKey'[k])
      <4>1. CASE k = Len(fromKey) + 1
        BY <2>3, <4>1
      <4>2. CASE k \in 1..Len(fromKey)
        BY <1>4, <2>1, <4>2 DEF AskedToUpdate
      <4> QED BY <1>4, <4>1, <4>2
    <3> QED BY <3>1, <3>2 DEF AskedToUpdate
  <2>4. CASE updateShare1(Head(toKey))
    <3> DEFINE y == [kind |-> "SHARE1_UPDATED", of |-> None]
    <3>1. fromKey' = Append(fromKey, y) /\ y.kind = "SHARE1_UPDATED"
      BY <2>4 DEF updateShare1
    <3>2. fromKey'[Len(fromKey) + 1] = y
      BY <1>2, <3>1, AppendLemma
    <3>3. fromKey'[Len(fromKey) + 1].kind = "SHARE1_UPDATED"
      BY <3>1, <3>2
    <3> QED BY <2>3, <3>3
  <2>5. CASE RefuseShareRequest(Head(toKey))
    <3> DEFINE y == [kind |-> "refusal", of |-> None]
    <3>1. fromKey' = Append(fromKey, y) /\ y.kind = "refusal"
      BY <2>5 DEF RefuseShareRequest
    <3>2. fromKey'[Len(fromKey) + 1] = y
      BY <1>2, <3>1, AppendLemma
    <3>3. fromKey'[Len(fromKey) + 1].kind = "refusal"
      BY <3>1, <3>2
    <3> QED BY <2>3, <3>3
  <2> QED BY <2>2, <2>4, <2>5 DEF KeyServer, fetchClientKey, fetchShare1
<1> QED BY <1>1, <1>6, <1>7 DEF LagInv

\* The other steps of the client: the menu, and what it reads from the Gmail
\* connection.
LEMMA ClientTurn ==
    ASSUME TypeInv, Menu \/ ReceiveStored \/ ReceiveMails \/ ReadStatus \/ ReadToken
    PROVE  /\ pc \notin OnKey /\ Turn /\ Spends
           /\ pc' = "updated" => \E x : toKey' = Append(toKey, x) /\ x.command = "5"
           /\ UNCHANGED <<fromKey, gaveUp>>
<1>0. NoCall.operation # "UPDATE_SHARE1" /\ call \in Calls
  BY NoneAssumption DEF NoCall, Operations, TypeInv, CallFits
<1>1. ASSUME NEW r \in Names, send_email(r)
      PROVE  /\ pc \notin OnKey /\ Turn /\ Spends /\ pc' # "updated"
             /\ UNCHANGED <<fromKey, gaveUp>>
  BY <1>0, <1>1 DEF send_email, AtMenu, AskForKey, OnKey, Turn, Spends, Calls, shareVars
<1>2. CASE receive_emails
  BY <1>2 DEF receive_emails, AtMenu, OnKey, Turn, Spends, keyStream, shareVars
<1>3. CASE recover_account_flow
  BY <1>0, <1>3
     DEF recover_account_flow, AtMenu, AskForToken, OnKey, Turn, Spends, Calls, keyStream, shareVars
<1>4. CASE ReceiveStored
  BY <1>0, <1>4 DEF ReceiveStored, EndCall, OnKey, Turn, Spends, keyStream, shareVars
<1>5. CASE ReceiveMails
  <2>1. pc = "mails" /\ UNCHANGED <<fromKey, gaveUp, splits>>
    BY <1>5 DEF ReceiveMails, shareVars
  <2>2. \/ \E rest : ProcessNext(rest)
        \/ UNCHANGED <<pc, call, toKey>>
    BY <1>5 DEF ReceiveMails
  <2>3. Turn /\ Spends /\ pc' # "updated"
    BY <1>0, <2>1, <2>2 DEF ProcessNext, AskForKey, EndCall, OnKey, Turn, Spends
  <2> QED BY <2>1, <2>3 DEF OnKey
<1>6. CASE ReadStatus
  BY <1>0, <1>6 DEF ReadStatus, EndCall, OnKey, Turn, Spends, keyStream, shareVars
<1>7. CASE ReadToken
  <2>1. pc = "token" /\ UNCHANGED <<fromKey, gaveUp>>
    BY <1>7 DEF ReadToken
  <2>2. PICK t : UseToken(t)
    BY <1>7 DEF ReadToken
  <2>3. Turn /\ Spends
    BY <1>0, <2>2 DEF UseToken, AskForToken, EndCall, OnKey, Turn, Spends, shareVars
  <2>4. ASSUME pc' = "updated" PROVE \E x : toKey' = Append(toKey, x) /\ x.command = "5"
    <3> DEFINE y == ShareRequest("5", t, call.split)
    <3>1. toKey' = Append(toKey, y)
      BY <2>2, <2>4 DEF UseToken, AskForToken, EndCall
    <3>2. y.command = "5"
      BY DEF ShareRequest
    <3> QED BY <3>1, <3>2
  <2> QED BY <2>1, <2>3, <2>4 DEF OnKey
<1> QED BY <1>1, <1>2, <1>3, <1>4, <1>5, <1>6, <1>7 DEF Menu, receive_emails, recover_account_flow,
        ReceiveStored, ReadStatus, AskForToken, EndCall

\* What the Gmail Server, other users and ended clients do does not touch the Key
\* Server connection.
LEMMA OtherSteps ==
    ASSUME \/ GmailServer \/ (\E m \in Mails : storeEmail(m))
           \/ (\E split \in Splits : LateUpdate(split)) \/ LateRetrieve \/ UNCHANGED vars
    PROVE  /\ UNCHANGED <<pc, call, toKey, fromKey, gaveUp, splits>>
           /\ toGmail' = toGmail \/ (toGmail # <<>> /\ toGmail' = Tail(toGmail))
BY DEF GmailServer, storeEmail, LateUpdate, LateRetrieve, vars, keyStream, gmailStream, shareVars

\* Every step keeps the lag.
LEMMA NextLagInv == TypeInv /\ LagInv /\ [Next]_vars => LagInv'
<1> SUFFICES ASSUME TypeInv, LagInv, [Next]_vars PROVE LagInv'
  OBVIOUS
<1>1. CASE Menu \/ ReceiveStored \/ ReceiveMails \/ ReadStatus \/ ReadToken
  <2>1. /\ pc \notin OnKey /\ Turn /\ Spends
        /\ pc' = "updated" => \E x : toKey' = Append(toKey, x) /\ x.command = "5"
        /\ UNCHANGED <<fromKey, gaveUp>>
    BY <1>1, ClientTurn
  <2> QED BY <2>1, TurnKeepsLag
<1>2. CASE ReceiveFromKey
  BY <1>2, ReceiveKeepsLag
<1>3. CASE KeyServer
  BY <1>3, KeyServerKeepsLag
<1>4. CASE \/ GmailServer \/ (\E m \in Mails : storeEmail(m))
           \/ (\E split \in Splits : LateUpdate(split)) \/ LateRetrieve \/ UNCHANGED vars
  <2>1. UNCHANGED <<pc, call, toKey, fromKey, gaveUp, splits>>
    BY <1>4, OtherSteps
  <2> QED BY <2>1 DEF LagInv, KeyLag, Unread, Updating, Awaited, AskedToUpdate
<1>5. ASSUME NEW s \in Services, GiveUp(s) PROVE LagInv'
  BY <1>5, GiveUpKeepsLag
<1>6. CASE Restart
  <2>1. /\ toKey' = <<>> /\ fromKey' = <<>> /\ pc' = "menu" /\ call' = NoCall
        /\ gaveUp' = [s \in Services |-> 0] /\ splits' = splits
    BY <1>6 DEF Restart
  <2>2. Len(<<>>) = 0 /\ gaveUp'["key"] = 0 /\ splits \in Nat
    BY <2>1, LagNumbers DEF Services
  <2>3. call'.operation # "UPDATE_SHARE1"
    BY <2>1, NoneAssumption DEF NoCall, Operations
  <2> QED BY <2>1, <2>2, <2>3 DEF LagInv, KeyLag, Unread, Updating, Awaited, OnKey
<1> QED BY <1>1, <1>2, <1>3, <1>4, <1>5, <1>6 DEF Next, Receive

\* Nothing is sent and nothing abandoned at first.
LEMMA InitLagInv == Init => LagInv
<1> SUFFICES ASSUME Init PROVE LagInv
  OBVIOUS
<1>1. /\ toKey = <<>> /\ fromKey = <<>> /\ pc = "menu" /\ call = NoCall
      /\ gaveUp = [s \in Services |-> 0] /\ splits = 0
  BY DEF Init
<1>2. Len(<<>>) = 0 /\ gaveUp["key"] = 0
  BY <1>1 DEF Services
<1>3. call.operation # "UPDATE_SHARE1"
  BY <1>1, NoneAssumption DEF NoCall, Operations
<1> QED BY <1>1, <1>2, <1>3 DEF LagInv, KeyLag, Unread, Updating, Awaited, OnKey

\* While every call waited for its answer, nothing is left over on the Key Server
\* connection; for every call that stopped waiting one answer is, and one more at most
\* for every recovery that made a split (tls_set_recv_timeout, get_recipient_pubkey,
\* update_share1_on_keyserver).
THEOREM KeyLagHolds == Spec => []KeyLag
<1>1. LagInv => KeyLag
  BY DEF LagInv
<1>2. Typed => TypeInv
  BY DEF Typed
<1> QED BY <1>1, <1>2, InitTyped, NextTyped, InitLagInv, NextLagInv, PTL DEF Spec

-----------------------------------------------------------------------------
(* Whose key a mail is encrypted with *)

\* Where the menu and receive_emails wait, the local variables are fresh.
CallIsFresh == pc \in {"menu", "mails"} => call = NoCall

\* All that is under way on the Key Server connection is about r's key.
AllAbout(r) ==
    /\ \A k \in 1..Len(toKey) : toKey[k] = KeyRequest(r)
    /\ \A k \in 1..Len(fromKey) : fromKey[k].kind = "key" => fromKey[k].of = r

\* send_email waits for the key of the recipient it asked for.
AskedForRecipient ==
    gaveUp["key"] = 0 /\ pc = "key" /\ call.recipient # None => AllAbout(call.recipient)

\* A request to the Gmail Server that is no mail, or a mail with its recipient's key.
RightRequest(x) == x.command = "EMAIL_SEND" => x.key = x.of

OwnKeyInv == LagInv /\ CallIsFresh /\ AskedForRecipient /\ OwnKeyUntilGiveUp

\* Mails with the right key stay when a right request is sent.
LEMMA AppendRight ==
    ASSUME NEW S, NEW q \in Seq(S), NEW x, RightRequest(x), \A k \in 1..Len(q) : RightRequest(q[k])
    PROVE  \A k \in 1..Len(Append(q, x)) : RightRequest(Append(q, x)[k])
<1>1. /\ Len(Append(q, x)) = Len(q) + 1 /\ Len(q) \in Nat
      /\ \A k \in 1..Len(q) : Append(q, x)[k] = q[k]
      /\ Append(q, x)[Len(q) + 1] = x
  BY AppendLemma
<1> SUFFICES ASSUME NEW k \in 1..Len(Append(q, x)) PROVE RightRequest(Append(q, x)[k])
  OBVIOUS
<1>2. CASE k = Len(q) + 1
  BY <1>1, <1>2
<1>3. CASE k # Len(q) + 1
  <2>1. k \in 1..Len(q)
    BY <1>1, <1>3
  <2> QED BY <1>1, <2>1
<1> QED BY <1>2, <1>3

\* And when the Gmail Server takes one.
LEMMA TailRight ==
    ASSUME NEW S, NEW q \in Seq(S), q # <<>>, \A k \in 1..Len(q) : RightRequest(q[k])
    PROVE  \A k \in 1..Len(Tail(q)) : RightRequest(Tail(q)[k])
<1>1. /\ Len(q) \in Nat /\ Len(Tail(q)) = Len(q) - 1
      /\ \A k \in 1..Len(Tail(q)) : Tail(q)[k] = q[k + 1]
  BY TailLemma
<1> QED BY <1>1

\* What a step of the client sends to the Gmail Server, if anything, is right.
SendsRight == toGmail' = toGmail \/ \E x : RightRequest(x) /\ toGmail' = Append(toGmail, x)

\* The client does not wait for a recipient's key that it has just asked for.
NotAsking ==
    \/ pc' = "menu" /\ call' = NoCall
    \/ pc' \notin {"menu", "mails", "key"}
    \/ pc' = "key" /\ call'.recipient = None

\* Such a step keeps the invariant.
LEMMA NotAskingStep ==
    ASSUME TypeInv, OwnKeyInv, LagInv', NotAsking, SendsRight, gaveUp'["key"] = gaveUp["key"]
    PROVE  OwnKeyInv'
<1>1. PICK S : toGmail \in Seq(S)
  BY DEF TypeInv, QueuesFit
<1>2. CallIsFresh' /\ AskedForRecipient'
  BY DEF NotAsking, CallIsFresh, AskedForRecipient, NoCall
<1>3. ASSUME gaveUp["key"] = 0 PROVE \A k \in 1..Len(toGmail') : RightRequest(toGmail'[k])
  <2>1. \A k \in 1..Len(toGmail) : RightRequest(toGmail[k])
    BY <1>3 DEF OwnKeyInv, OwnKeyUntilGiveUp, RightRequest
  <2>2. ASSUME NEW x, RightRequest(x), toGmail' = Append(toGmail, x)
        PROVE  \A k \in 1..Len(toGmail') : RightRequest(toGmail'[k])
    BY <1>1, <2>1, <2>2, AppendRight
  <2> QED BY <2>1, <2>2 DEF SendsRight
<1>4. OwnKeyUntilGiveUp'
  BY <1>3 DEF OwnKeyUntilGiveUp, RightRequest
<1> QED BY <1>2, <1>4 DEF OwnKeyInv

\* The call that gets an answer from the Key Server, or gives up, is not one that has
\* just asked; and a mail goes out with the key that came.
LEMMA OnKeyAnswerNotAsking ==
    ASSUME NEW answer, OnKeyAnswer(answer),
           pc = "key" /\ call.recipient # None /\ answer.kind = "key"
               => answer.of = call.recipient
    PROVE  NotAsking /\ SendsRight
<1>1. CASE SendWithKey(answer)
  <2>1. CASE answer.kind = "key"
    <3> DEFINE x == GmailRequest("EMAIL_SEND", call.recipient, answer.of)
    <3>1. toGmail' = Append(toGmail, x) /\ pc' = "stored"
      BY <1>1, <2>1 DEF SendWithKey
    <3>2. RightRequest(x)
      BY <1>1, <2>1 DEF SendWithKey, RightRequest, GmailRequest
    <3> HIDE DEF x
    <3> QED BY <3>1, <3>2 DEF NotAsking, SendsRight
  <2>2. CASE answer.kind # "key"
    BY <1>1, <2>2 DEF SendWithKey, EndCall, NotAsking, SendsRight
  <2> QED BY <2>1, <2>2
<1>2. CASE ShowMail(answer)
  BY <1>2 DEF ShowMail, ProcessNext, AskForKey, EndCall, NotAsking, SendsRight
<1>3. ASSUME NEW op, AskForToken(op)
      PROVE  NotAsking /\ SendsRight
  <2> DEFINE x == GmailRequest("REQUEST_OP_TOKEN", op, None)
  <2>1. toGmail' = Append(toGmail, x) /\ pc' = "status"
    BY <1>3 DEF AskForToken
  <2>2. RightRequest(x)
    BY DEF RightRequest, GmailRequest
  <2> HIDE DEF x
  <2> QED BY <2>1, <2>2 DEF NotAsking, SendsRight
<1>4. ASSUME EndCall, UNCHANGED toGmail PROVE NotAsking /\ SendsRight
  BY <1>4 DEF EndCall, NotAsking, SendsRight
<1>5. CASE FetchedShare1(answer) \/ UpdatedShare1(answer)
  BY <1>3, <1>4, <1>5 DEF FetchedShare1, UpdatedShare1
<1> QED BY <1>1, <1>2, <1>5 DEF OnKeyAnswer

\* Whatever answer came, a call that is over leaves no local variables behind.
LEMMA OnKeyAnswerFresh ==
    ASSUME NEW answer, OnKeyAnswer(answer)
    PROVE  CallIsFresh'
BY DEF OnKeyAnswer, SendWithKey, ShowMail, ProcessNext, AskForKey, FetchedShare1, UpdatedShare1,
       AskForToken, EndCall, CallIsFresh

\* send_email asks for its recipient's key on a connection with nothing under way.
LEMMA SendEmailStep ==
    ASSUME TypeInv, OwnKeyInv, LagInv', NEW r \in Names, send_email(r)
    PROVE  OwnKeyInv'
<1>1. /\ pc = "menu" /\ pc' = "key" /\ toKey' = Append(toKey, KeyRequest(r))
      /\ call' = [call EXCEPT !.recipient = r]
      /\ UNCHANGED <<fromKey, toGmail, gaveUp>>
  BY DEF send_email, AtMenu, AskForKey, gmailStream
<1>2. call'.recipient = r
  BY <1>1 DEF OwnKeyInv, CallIsFresh, NoCall
<1>3. toKey \in Seq(KeyRequests) /\ fromKey \in Seq(KeyAnswers)
  BY DEF TypeInv, QueuesFit
<1>4. AskedForRecipient'
  <2> SUFFICES ASSUME gaveUp["key"] = 0 PROVE AllAbout(r)'
    BY <1>1, <1>2 DEF AskedForRecipient
  <2>1. Len(toKey) = 0 /\ Len(fromKey) = 0
    BY <1>1, <1>3, LenProperties DEF OwnKeyInv, LagInv, KeyLag, Unread, Awaited, OnKey
  <2>2. Len(toKey') = 1 /\ toKey'[1] = KeyRequest(r)
    BY <1>1, <1>3, <2>1, AppendLemma
  <2> QED BY <1>1, <2>1, <2>2 DEF AllAbout
<1>5. CallIsFresh' /\ OwnKeyUntilGiveUp'
  BY <1>1 DEF OwnKeyInv, CallIsFresh, OwnKeyUntilGiveUp
<1> QED BY <1>4, <1>5 DEF OwnKeyInv

\* The Key Server's answer is about the client that was asked about (fetchClientKey).
LEMMA KeyServerOwnKey ==
    ASSUME TypeInv, OwnKeyInv, LagInv', KeyServer
    PROVE  OwnKeyInv'
<1>1. /\ toKey # <<>> /\ toKey' = Tail(toKey) /\ UNCHANGED <<pc, call, toGmail, gaveUp>>
  BY DEF KeyServer, gmailStream
<1>2. toKey \in Seq(KeyRequests) /\ fromKey \in Seq(KeyAnswers)
  BY DEF TypeInv, QueuesFit
<1>3. /\ Len(toKey) \in Nat /\ Len(toKey) > 0 /\ Len(toKey') = Len(toKey) - 1 /\ Head(toKey) = toKey[1]
      /\ \A k \in 1..Len(toKey') : toKey'[k] = toKey[k + 1]
  BY <1>1, <1>2, TailLemma
<1>4. AskedForRecipient'
  <2> SUFFICES ASSUME gaveUp["key"] = 0, pc = "key", call.recipient # None
               PROVE  AllAbout(call.recipient)'
    BY <1>1 DEF AskedForRecipient
  <2> DEFINE r == call.recipient
  <2>1. AllAbout(r)
    BY DEF OwnKeyInv, AskedForRecipient
  <2>2. Head(toKey) = KeyRequest(r)
    BY <1>3, <2>1 DEF AllAbout
  <2>3. \E x : fromKey' = Append(fromKey, x) /\ (x.kind = "key" => x.of = r)
    <3>1. Head(toKey).command = "2" /\ Head(toKey).name = r
      BY <2>2 DEF KeyRequest
    <3>2. fetchClientKey(Head(toKey))
      BY <3>1 DEF KeyServer, fetchShare1, updateShare1, RefuseShareRequest
    <3>3. CASE r \in Registered
      <4>1. fromKey' = Append(fromKey, [kind |-> "key", of |-> r])
        BY <3>1, <3>2, <3>3 DEF fetchClientKey
      <4> QED BY <4>1
    <3>4. CASE r \notin Registered
      <4>1. fromKey' = Append(fromKey, [kind |-> "CLIENT_NOT_FOUND", of |-> None])
        BY <3>1, <3>2, <3>4 DEF fetchClientKey
      <4> QED BY <4>1
    <3> QED BY <3>3, <3>4
  <2>4. PICK x : fromKey' = Append(fromKey, x) /\ (x.kind = "key" => x.of = r)
    BY <2>3
  <2>5. /\ Len(fromKey) \in Nat /\ Len(fromKey') = Len(fromKey) + 1
        /\ \A k \in 1..Len(fromKey) : fromKey'[k] = fromKey[k]
        /\ fromKey'[Len(fromKey) + 1] = x
    BY <1>2, <2>4, AppendLemma
  <2>6. \A k \in 1..Len(fromKey') : fromKey'[k].kind = "key" => fromKey'[k].of = r
    <3> SUFFICES ASSUME NEW k \in 1..Len(fromKey'), fromKey'[k].kind = "key"
                 PROVE  fromKey'[k].of = r
      OBVIOUS
    <3>1. CASE k = Len(fromKey) + 1
      BY <2>4, <2>5, <3>1
    <3>2. CASE k # Len(fromKey) + 1
      <4>1. k \in 1..Len(fromKey)
        BY <2>5, <3>2
      <4> QED BY <2>1, <2>5, <4>1 DEF AllAbout
    <3> QED BY <3>1, <3>2
  <2>7. \A k \in 1..Len(toKey') : toKey'[k] = KeyRequest(r)
    BY <1>3, <2>1 DEF AllAbout
  <2> QED BY <1>1, <2>6, <2>7 DEF AllAbout
<1>5. CallIsFresh' /\ OwnKeyUntilGiveUp'
  BY <1>1 DEF OwnKeyInv, CallIsFresh, OwnKeyUntilGiveUp
<1> QED BY <1>4, <1>5 DEF OwnKeyInv

\* Every step keeps the invariant.
LEMMA NextOwnKeyInv == TypeInv /\ OwnKeyInv /\ [Next]_vars => OwnKeyInv'
<1> SUFFICES ASSUME TypeInv, OwnKeyInv, [Next]_vars PROVE OwnKeyInv'
  OBVIOUS
<1>1. LagInv /\ LagInv'
  BY NextLagInv DEF OwnKeyInv
<1>2. ASSUME NEW r \in Names, send_email(r) PROVE OwnKeyInv'
  BY <1>1, <1>2, SendEmailStep
<1>3. CASE receive_emails
  <2> DEFINE x == GmailRequest("4", None, None)
  <2>1. /\ pc = "menu" /\ pc' = "mails" /\ toGmail' = Append(toGmail, x)
        /\ UNCHANGED <<call, gaveUp>>
    BY <1>3 DEF receive_emails, AtMenu
  <2>2. RightRequest(x)
    BY DEF RightRequest, GmailRequest
  <2> HIDE DEF x
  <2>3. PICK S : toGmail \in Seq(S)
    BY DEF TypeInv, QueuesFit
  <2>4. gaveUp["key"] = 0 => \A k \in 1..Len(toGmail') : RightRequest(toGmail'[k])
    BY <2>1, <2>2, <2>3, AppendRight DEF OwnKeyInv, OwnKeyUntilGiveUp, RightRequest
  <2>5. OwnKeyUntilGiveUp'
    BY <2>1, <2>4 DEF OwnKeyUntilGiveUp, RightRequest
  <2>6. CallIsFresh' /\ AskedForRecipient'
    BY <2>1 DEF OwnKeyInv, CallIsFresh, AskedForRecipient
  <2> QED BY <1>1, <2>5, <2>6 DEF OwnKeyInv
<1>4. CASE recover_account_flow \/ ReceiveStored \/ ReadStatus \/ ReadToken
  <2>1. ASSUME NEW op, AskForToken(op) PROVE NotAsking /\ SendsRight
    <3> DEFINE x == GmailRequest("REQUEST_OP_TOKEN", op, None)
    <3>1. toGmail' = Append(toGmail, x) /\ pc' = "status"
      BY <2>1 DEF AskForToken
    <3>2. RightRequest(x)
      BY DEF RightRequest, GmailRequest
    <3> HIDE DEF x
    <3> QED BY <3>1, <3>2 DEF NotAsking, SendsRight
  <2>2. ASSUME EndCall, UNCHANGED toGmail PROVE NotAsking /\ SendsRight
    BY <2>2 DEF EndCall, NotAsking, SendsRight
  <2>3. ASSUME pc' \in {"token", "share1", "updated"}, UNCHANGED toGmail
        PROVE  NotAsking /\ SendsRight
    BY <2>3 DEF NotAsking, SendsRight
  <2>4. ASSUME recover_account_flow PROVE NotAsking /\ SendsRight
    BY <2>1, <2>4 DEF recover_account_flow
  <2>5. ASSUME ReceiveStored \/ ReadStatus PROVE NotAsking /\ SendsRight
    BY <2>2, <2>3, <2>5 DEF ReceiveStored, ReadStatus
  <2>6. ASSUME ReadToken PROVE NotAsking /\ SendsRight
    <3>1. PICK t : UseToken(t)
      BY <2>6 DEF ReadToken
    <3> QED BY <2>1, <2>2, <2>3, <3>1 DEF UseToken
  <2>7. NotAsking /\ SendsRight
    BY <1>4, <2>4, <2>5, <2>6
  <2>8. gaveUp' = gaveUp
    BY <1>4 DEF recover_account_flow, ReceiveStored, ReadStatus, ReadToken
  <2> QED BY <1>1, <2>7, <2>8, NotAskingStep
<1>5. CASE ReceiveMails
  <2>1. /\ pc = "mails" /\ UNCHANGED <<toGmail, gaveUp>>
        /\ (\E rest : ProcessNext(rest)) \/ UNCHANGED <<pc, call>>
    BY <1>5 DEF ReceiveMails
  <2>2. call = NoCall /\ call.recipient = None
    BY <2>1 DEF OwnKeyInv, CallIsFresh, NoCall
  <2>3. CASE \E rest : ProcessNext(rest)
    <3>1. NotAsking /\ SendsRight
      BY <2>1, <2>2, <2>3 DEF ProcessNext, AskForKey, EndCall, NotAsking, SendsRight
    <3> QED BY <1>1, <2>1, <3>1, NotAskingStep
  <2>4. CASE UNCHANGED <<pc, call>>
    <3>1. CallIsFresh' /\ AskedForRecipient' /\ OwnKeyUntilGiveUp'
      BY <2>1, <2>2, <2>4 DEF OwnKeyInv, CallIsFresh, AskedForRecipient, OwnKeyUntilGiveUp
    <3> QED BY <1>1, <3>1 DEF OwnKeyInv
  <2> QED BY <2>1, <2>3, <2>4
<1>6. CASE ReceiveFromKey
  <2>1. /\ fromKey # <<>> /\ OnKeyAnswer(Head(fromKey)) /\ gaveUp' = gaveUp
    BY <1>6 DEF ReceiveFromKey
  <2>2. fromKey \in Seq(KeyAnswers)
    BY DEF TypeInv, QueuesFit
  <2>3. Head(fromKey) = fromKey[1] /\ 1 \in 1..Len(fromKey)
    BY <2>1, <2>2, TailLemma
  <2>4. CASE gaveUp["key"] = 0
    <3>1. pc = "key" /\ call.recipient # None /\ Head(fromKey).kind = "key"
              => Head(fromKey).of = call.recipient
      BY <2>3, <2>4 DEF OwnKeyInv, AskedForRecipient, AllAbout
    <3>2. NotAsking /\ SendsRight
      BY <2>1, <3>1, OnKeyAnswerNotAsking
    <3> QED BY <1>1, <2>1, <3>2, NotAskingStep
  <2>5. CASE gaveUp["key"] # 0
    <3>1. CallIsFresh'
      BY <2>1, OnKeyAnswerFresh
    <3> QED BY <1>1, <2>1, <2>5, <3>1 DEF OwnKeyInv, AskedForRecipient, OwnKeyUntilGiveUp
  <2> QED BY <2>4, <2>5
<1>7. CASE KeyServer
  BY <1>1, <1>7, KeyServerOwnKey
<1>8. CASE \/ GmailServer \/ (\E m \in Mails : storeEmail(m))
           \/ (\E split \in Splits : LateUpdate(split)) \/ LateRetrieve \/ UNCHANGED vars
  <2>1. /\ UNCHANGED <<pc, call, toKey, fromKey, gaveUp>>
        /\ toGmail' = toGmail \/ (toGmail # <<>> /\ toGmail' = Tail(toGmail))
    BY <1>8, OtherSteps
  <2>2. CallIsFresh' /\ AskedForRecipient'
    BY <2>1 DEF OwnKeyInv, CallIsFresh, AskedForRecipient, AllAbout
  <2>3. PICK S : toGmail \in Seq(S)
    BY DEF TypeInv, QueuesFit
  <2>4. gaveUp["key"] = 0 => \A k \in 1..Len(toGmail') : RightRequest(toGmail'[k])
    <3>1. gaveUp["key"] = 0 => \A k \in 1..Len(toGmail) : RightRequest(toGmail[k])
      BY DEF OwnKeyInv, OwnKeyUntilGiveUp, RightRequest
    <3> QED BY <2>1, <2>3, <3>1, TailRight
  <2>5. OwnKeyUntilGiveUp'
    BY <2>1, <2>4 DEF OwnKeyUntilGiveUp, RightRequest
  <2> QED BY <1>1, <2>2, <2>5 DEF OwnKeyInv
<1>9. ASSUME NEW s \in Services, GiveUp(s) PROVE OwnKeyInv'
  <2>1. gaveUp \in [Services -> Nat] /\ gaveUp' = [gaveUp EXCEPT ![s] = @ + 1]
    BY <1>9 DEF GiveUp, TypeInv, CountersFit
  <2>2. CASE s = "key"
    <3>1. gaveUp'["key"] # 0
      BY <2>1, <2>2 DEF Services
    <3>2. OnKeyAnswer(Silence)
      BY <1>9, <2>2 DEF GiveUp
    <3>3. CallIsFresh'
      BY <3>2, OnKeyAnswerFresh
    <3> QED BY <1>1, <3>1, <3>3 DEF OwnKeyInv, AskedForRecipient, OwnKeyUntilGiveUp
  <2>3. CASE s = "gmail"
    <3>1. EndCall /\ UNCHANGED toGmail
      BY <1>9, <2>3 DEF GiveUp
    <3>2. NotAsking /\ SendsRight
      BY <3>1 DEF EndCall, NotAsking, SendsRight
    <3>3. gaveUp'["key"] = gaveUp["key"]
      BY <2>1, <2>3 DEF Services
    <3> QED BY <1>1, <3>2, <3>3, NotAskingStep
  <2> QED BY <2>2, <2>3 DEF Services
<1>10. CASE Restart
  <2>1. pc' = "menu" /\ call' = NoCall /\ toGmail' = <<>>
    BY <1>10 DEF Restart
  <2>2. Len(toGmail') = 0
    BY <2>1, EmptySeq
  <2> QED BY <1>1, <2>1, <2>2
          DEF OwnKeyInv, CallIsFresh, AskedForRecipient, OwnKeyUntilGiveUp
<1> QED BY <1>2, <1>3, <1>4, <1>5, <1>6, <1>7, <1>8, <1>9, <1>10 DEF Next, Menu, Receive

\* Nothing is sent at first.
LEMMA InitOwnKeyInv == Init => OwnKeyInv
<1> SUFFICES ASSUME Init PROVE OwnKeyInv
  OBVIOUS
<1>1. pc = "menu" /\ call = NoCall /\ toGmail = <<>>
  BY DEF Init
<1>2. Len(toGmail) = 0
  BY <1>1, EmptySeq
<1> QED BY <1>1, <1>2, InitLagInv
        DEF OwnKeyInv, CallIsFresh, AskedForRecipient, OwnKeyUntilGiveUp

\* Until an answer of the Key Server was not waited for, a mail on its way is
\* encrypted with its recipient's key (send_email, get_recipient_pubkey).
THEOREM OwnKeyUntilGiveUpHolds == Spec => []OwnKeyUntilGiveUp
<1>1. OwnKeyInv => OwnKeyUntilGiveUp
  BY DEF OwnKeyInv
<1>2. Typed => TypeInv
  BY DEF Typed
<1> QED BY <1>1, <1>2, InitTyped, NextTyped, InitOwnKeyInv, NextOwnKeyInv, PTL DEF Spec

=============================================================================
