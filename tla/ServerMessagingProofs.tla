------------------------ MODULE ServerMessagingProofs ------------------------
(***************************************************************************)
(* What ServerMessaging promises, for any characters, ids, payloads, settings *)
(* and files: the texts of the servers' protocol are read as they were         *)
(* written, and what is loaded from a file is what can be used.               *)
(***************************************************************************)
EXTENDS ServerMessaging, TextsProofs

-----------------------------------------------------------------------------
(* Fields that are joined by bars are the pieces between the bars.           *)

LEMMA CharsOfMessages ==
  /\ Bar \in Chars /\ Bar # Blank /\ Bar \notin Digits
  /\ Digits \subseteq Chars /\ Numerals \subseteq Text /\ Seq(Chars \ {Bar}) \subseteq Text
<1>1. Digits \cup {Bar} \subseteq Chars  BY MessagingAssumption
<1>2. Numerals \subseteq Text  BY <1>1, SeqMonotonic DEF Numerals, Text
<1>3. Chars \ {Bar} \subseteq Chars  OBVIOUS
<1> QED  BY <1>1, <1>2, <1>3, SeqMonotonic DEF Bar, Blank, Digits, Text

LEMMA OnText ==
  /\ <<>> \in Text
  /\ \A u, v \in Text : u \o v \in Text
  /\ \A u, v, w \in Text : (u \o v) \o w = u \o (v \o w)
<1>1. <<>> \in Text  BY DEF Text
<1>2. \A u, v \in Text : u \o v \in Text  BY ConcatProperties DEF Text
<1>3. \A u, v, w \in Text : (u \o v) \o w = u \o (v \o w)  BY Associates, SMTT(30) DEF Text
<1> QED  BY <1>1, <1>2, <1>3

Regrouped(a, b, c, d) ==
  ((a \o b) \o c) \o d = a \o ((b \o c) \o d) /\ (b \o c) \o d \in Text

LEMMA Regroup ==
  ASSUME NEW a \in Text, NEW b \in Text, NEW c \in Text, NEW d \in Text
  PROVE  Regrouped(a, b, c, d)
<1> DEFINE bc == b \o c
<1>1. bc \in Text /\ (a \o b) \o c = a \o bc  BY OnText, SMTT(30)
<1> HIDE DEF bc
<1>2. (a \o bc) \o d = a \o (bc \o d) /\ bc \o d \in Text  BY <1>1, OnText, SMTT(30)
<1> QED  BY <1>1, <1>2 DEF bc, Regrouped

\* What stands before the last field.
Parts(fields, n) ==
  [i \in 1..n |-> IF i % 2 = 1 THEN fields[(i + 1) \div 2] ELSE <<Bar>>]
Before(fields) == FlattenSeq(Parts(fields, 2 * Len(fields)))

LEMMA PartsType ==
  ASSUME NEW fs \in Seq(Text)
  PROVE  /\ Parts(fs, 2 * Len(fs)) \in Seq(Text)
         /\ Before(fs) \in Text
<1>1. <<Bar>> \in Text  BY CharsOfMessages DEF Text
<1>2. \A i \in 1..(2 * Len(fs)) : (IF i % 2 = 1 THEN fs[(i + 1) \div 2] ELSE <<Bar>>) \in Text
  <2> SUFFICES ASSUME NEW i \in 1..(2 * Len(fs)), i % 2 = 1
               PROVE  fs[(i + 1) \div 2] \in Text
    BY <1>1
  <2>1. (i + 1) \div 2 \in 1..Len(fs)  OBVIOUS
  <2> QED  BY <2>1
<1>3. Parts(fs, 2 * Len(fs)) \in Seq(Text)  BY <1>2 DEF Parts
<1> QED  BY <1>3, FlattenType DEF Before, Text

LEMMA PartsGrow ==
  ASSUME NEW fs \in Seq(Text), NEW f \in Text
  PROVE  LET gs == Append(fs, f)
             n == 2 * Len(fs)
         IN  /\ Parts(gs, n + 1) = Append(Parts(fs, n), f)
             /\ Parts(gs, n + 2) = Append(Append(Parts(fs, n), f), <<Bar>>)
             /\ Len(gs) = Len(fs) + 1
<1> DEFINE gs == Append(fs, f)
           n == 2 * Len(fs)
           s == Parts(fs, n)
<1>1. s \in Seq(Text) /\ Len(s) = n /\ n \in Nat  BY PartsType DEF Parts
<1>2. <<Bar>> \in Text  BY CharsOfMessages DEF Text
<1>3. gs \in Seq(Text) /\ Len(gs) = Len(fs) + 1  OBVIOUS
<1>4. \A k \in {n + 1, n + 2} : Parts(gs, k) \in Seq(Text) /\ Len(Parts(gs, k)) = k
  <2>1. Parts(gs, n + 2) \in Seq(Text) /\ Len(Parts(gs, n + 2)) = n + 2
    <3>1. 2 * Len(gs) = n + 2  BY <1>3
    <3>2. Parts(gs, 2 * Len(gs)) \in Seq(Text)  BY <1>3, PartsType
    <3> QED  BY <1>1, <3>1, <3>2 DEF Parts
  <2>2. Parts(gs, n + 1) = SubSeq(Parts(gs, n + 2), 1, n + 1)
    BY <1>1, <2>1 DEF Parts
  <2> DEFINE q == Parts(gs, n + 2)
  <2>3. q \in Seq(Text) /\ Len(q) = n + 2  BY <2>1
  <2> HIDE DEF q, gs, n
  <2>4. SubSeq(q, 1, n + 1) \in Seq(Text) /\ Len(SubSeq(q, 1, n + 1)) = n + 1
    BY <1>1, <2>3
  <2> QED  BY <2>1, <2>2, <2>4 DEF q
<1>5. \A i \in 1..n : /\ Parts(gs, n + 1)[i] = s[i] /\ Parts(gs, n + 2)[i] = s[i]
  <2> SUFFICES ASSUME NEW i \in 1..n
               PROVE  /\ Parts(gs, n + 1)[i] = s[i] /\ Parts(gs, n + 2)[i] = s[i]
    OBVIOUS
  <2>1. i % 2 = 1 => (i + 1) \div 2 \in 1..Len(fs)  OBVIOUS
  <2>2. i % 2 = 1 => gs[(i + 1) \div 2] = fs[(i + 1) \div 2]  BY <2>1
  <2>3. i \in 1..(n + 1) /\ i \in 1..(n + 2)  OBVIOUS
  <2> QED  BY <2>2, <2>3 DEF Parts
<1>6. \A k \in {n + 1, n + 2} : Parts(gs, k)[n + 1] = f
  <2>1. (n + 1) % 2 = 1 /\ (n + 1 + 1) \div 2 = Len(fs) + 1  OBVIOUS
  <2>2. n + 1 \in 1..(n + 1) /\ n + 1 \in 1..(n + 2)  OBVIOUS
  <2>3. gs[Len(fs) + 1] = f  OBVIOUS
  <2> QED  BY <2>1, <2>2, <2>3 DEF Parts
<1>7. Parts(gs, n + 2)[n + 2] = <<Bar>>
  <2>1. (n + 2) % 2 # 1 /\ n + 2 \in 1..(n + 2)  OBVIOUS
  <2> QED  BY <2>1 DEF Parts
<1> DEFINE p == Parts(gs, n + 1)
           q == Parts(gs, n + 2)
           bar == <<Bar>>
<1> HIDE DEF p, q, s, gs, n, bar
<1>8. p = Append(s, f)
  <2>1. Append(s, f) \in Seq(Text) /\ Len(Append(s, f)) = n + 1
        /\ (\A i \in 1..n : Append(s, f)[i] = s[i]) /\ Append(s, f)[n + 1] = f
    BY <1>1
  <2>2. p \in Seq(Text) /\ Len(p) = n + 1 /\ (\A i \in 1..n : p[i] = s[i]) /\ p[n + 1] = f
    BY <1>4, <1>5, <1>6 DEF p
  <2>3. \A i \in 1..Len(p) : p[i] = Append(s, f)[i]  BY <1>1, <2>1, <2>2
  <2> QED  BY <2>1, <2>2, <2>3, SeqEqual
<1>9. q = Append(Append(s, f), bar)
  <2> DEFINE t == Append(Append(s, f), bar)
  <2>1. t \in Seq(Text) /\ Len(t) = n + 2 /\ (\A i \in 1..n : t[i] = s[i])
        /\ t[n + 1] = f /\ t[n + 2] = bar
    BY <1>1, <1>2 DEF bar
  <2>2. q \in Seq(Text) /\ Len(q) = n + 2 /\ (\A i \in 1..n : q[i] = s[i])
        /\ q[n + 1] = f /\ q[n + 2] = bar
    BY <1>4, <1>5, <1>6, <1>7 DEF q, bar
  <2> HIDE DEF t
  <2>3. \A i \in 1..Len(q) : q[i] = t[i]  BY <1>1, <2>1, <2>2
  <2>4. q = t  BY <2>1, <2>2, <2>3, SeqEqual
  <2> QED  BY <2>4 DEF t
<1> QED  BY <1>3, <1>8, <1>9 DEF p, q, s, gs, n, bar

LEMMA JoinedAppend ==
  ASSUME NEW fs \in Seq(Text), NEW f \in Text
  PROVE  Joined(Append(fs, f)) = Before(fs) \o f
<1> DEFINE gs == Append(fs, f)
<1>1. Parts(gs, 2 * Len(fs) + 1) = Append(Parts(fs, 2 * Len(fs)), f) /\ Len(gs) = Len(fs) + 1
  BY PartsGrow
<1>2. 2 * Len(gs) - 1 = 2 * Len(fs) + 1  BY <1>1
<1>3. Joined(gs) = FlattenSeq(Parts(gs, 2 * Len(gs) - 1))  BY DEF Joined, Parts
<1>4. FlattenSeq(Append(Parts(fs, 2 * Len(fs)), f)) = Before(fs) \o f
  BY PartsType, FlattenAppend DEF Before, Text
<1> QED  BY <1>1, <1>2, <1>3, <1>4

LEMMA BeforeAppend ==
  ASSUME NEW fs \in Seq(Text), NEW g \in Text
  PROVE  Before(Append(fs, g)) = (Before(fs) \o g) \o <<Bar>>
<1> DEFINE gs == Append(fs, g)
           s == Parts(fs, 2 * Len(fs))
           bar == <<Bar>>
<1>1. Parts(gs, 2 * Len(fs) + 2) = Append(Append(s, g), bar) /\ Len(gs) = Len(fs) + 1
  BY PartsGrow
<1>2. 2 * Len(gs) = 2 * Len(fs) + 2  BY <1>1
<1>3. s \in Seq(Text) /\ bar \in Text  BY PartsType, CharsOfMessages DEF Text
<1>4. Before(fs) = FlattenSeq(s) /\ Before(gs) = FlattenSeq(Append(Append(s, g), bar))
  BY <1>1, <1>2 DEF Before
<1> HIDE DEF s, bar, gs
<1>5. Append(s, g) \in Seq(Text)  BY <1>3
<1>6. FlattenSeq(Append(Append(s, g), bar)) = FlattenSeq(Append(s, g)) \o bar
  BY <1>3, <1>5, FlattenAppend DEF Text
<1>7. FlattenSeq(Append(s, g)) = FlattenSeq(s) \o g  BY <1>3, FlattenAppend DEF Text
<1> QED  BY <1>4, <1>6, <1>7 DEF bar, gs

LEMMA SplitJoined ==
  ASSUME NEW fs \in Seq(Seq(Chars \ {Bar})), NEW f \in Text
  PROVE  /\ Split(Joined(Append(fs, f)), Bar) = fs \o Split(f, Bar)
         /\ Joined(Append(fs, f)) \in Text
<1> DEFINE Clean == Seq(Chars \ {Bar})
           Fits(gs) == \A g \in Text : Split(Before(gs) \o g, Bar) = gs \o Split(g, Bar)
           P == {gs \in Seq(Clean) : Fits(gs)}
<1>1. Clean \subseteq Text /\ Seq(Clean) \subseteq Seq(Text)
  BY CharsOfMessages, SeqMonotonic
<1>2. <<>> \in P
  <2>1. Before(<<>>) = <<>>
    <3>1. Parts(<<>>, 2 * Len(<<>>)) = <<>>  BY DEF Parts
    <3> QED  BY <3>1, FlattenEmpty DEF Before
  <2>2. \A g \in Text : <<>> \o g = g  BY DEF Text
  <2>3. \A g \in Text : <<>> \o Split(g, Bar) = Split(g, Bar)
    <3>1. \A g \in Text : Split(g, Bar) \in Seq(Text)  BY SplitType DEF Text
    <3> QED  BY <3>1
  <2>4. Fits(<<>>)  BY <2>1, <2>2, <2>3
  <2>5. <<>> \in Seq(Clean)  OBVIOUS
  <2> QED  BY <2>4, <2>5
<1>3. ASSUME NEW gs \in Seq(Clean), NEW g \in Clean, gs \in P
      PROVE  Append(gs, g) \in P
  <2>0. Append(gs, g) \in Seq(Clean)  OBVIOUS
  <2> SUFFICES ASSUME NEW h \in Text
               PROVE  Split(Before(Append(gs, g)) \o h, Bar) = Append(gs, g) \o Split(h, Bar)
    BY <2>0
  <2> DEFINE bar == <<Bar>>
             b == Before(gs)
             t == (g \o bar) \o h
             z == Split(h, Bar)
  <2>1. b \in Text /\ g \in Text /\ bar \in Text /\ gs \in Seq(Text)
    BY <1>1, PartsType, CharsOfMessages DEF Text
  <2>2. Before(Append(gs, g)) = (b \o g) \o bar  BY <2>1, BeforeAppend
  <2> HIDE DEF b
  <2>3. ((b \o g) \o bar) \o h = b \o t /\ t \in Text
    <3> HIDE DEF bar
    <3>1. b \in Text /\ g \in Text /\ bar \in Text /\ h \in Text  BY <2>1
    <3>2. Regrouped(b, g, bar, h)  BY <3>1, Regroup
    <3> QED  BY <3>2 DEF Regrouped
  <2> HIDE DEF t
  <2>4. Split(b \o t, Bar) = gs \o Split(t, Bar)  BY <1>3, <2>3 DEF b
  <2>5. Split(t, Bar) = <<g>> \o z
    BY CharsOfMessages, SplitField DEF t, Text
  <2>6. z \in Seq(Text)  BY SplitType DEF Text
  <2> HIDE DEF z
  <2>7. gs \o (<<g>> \o z) = Append(gs, g) \o z
    <3>1. <<g>> \in Seq(Text) /\ Append(gs, g) = gs \o <<g>>  BY <2>1, AppendIsConcat
    <3> QED  BY <2>1, <2>6, <3>1, Associates
  <2> QED  BY <2>2, <2>3, <2>4, <2>5, <2>7 DEF z
<1>4. Seq(Clean) \subseteq P
  <2> HIDE DEF P
  <2> QED  BY <1>2, <1>3, SeqInduction
<1>5. fs \in Seq(Text) /\ fs \in P  BY <1>1, <1>4
<1>6. Joined(Append(fs, f)) = Before(fs) \o f  BY <1>5, JoinedAppend
<1>7. Before(fs) \o f \in Text  BY <1>5, PartsType, ConcatProperties DEF Text
<1> QED  BY <1>5, <1>6, <1>7

LEMMA AppendAt ==
  ASSUME NEW S, NEW s \in Seq(S), NEW x \in S
  PROVE  /\ Append(s, x) \in Seq(S) /\ Len(Append(s, x)) = Len(s) + 1
         /\ \A i \in 1..Len(s) : Append(s, x)[i] = s[i]
         /\ Append(s, x)[Len(s) + 1] = x
OBVIOUS

LEMMA TuplesGrow ==
  \A a, b, c, d, e :
    /\ Append(<<a, b, c, d>>, e) = <<a, b, c, d, e>>
    /\ \A x, y, z : Append(<<a, b, c, d, e, x, y>>, z) = <<a, b, c, d, e, x, y, z>>
<1>1. ASSUME NEW a, NEW b, NEW c, NEW d, NEW e
      PROVE  Append(<<a, b, c, d>>, e) = <<a, b, c, d, e>>
  <2> DEFINE S == {a, b, c, d, e}
             s == <<a, b, c, d>>
             t == <<a, b, c, d, e>>
  <2>1. s \in Seq(S) /\ t \in Seq(S) /\ Len(s) = 4 /\ Len(t) = 5 /\ e \in S
        /\ (\A i \in 1..4 : s[i] = t[i]) /\ t[5] = e
    OBVIOUS
  <2> HIDE DEF S, s, t
  <2>2. Append(s, e) \in Seq(S) /\ Len(Append(s, e)) = 5
        /\ (\A i \in 1..4 : Append(s, e)[i] = s[i]) /\ Append(s, e)[5] = e
    <3>1. s \in Seq(S) /\ e \in S /\ Len(s) = 4  BY <2>1
    <3>2. /\ Append(s, e) \in Seq(S) /\ Len(Append(s, e)) = Len(s) + 1
          /\ \A i \in 1..Len(s) : Append(s, e)[i] = s[i]
          /\ Append(s, e)[Len(s) + 1] = e
      BY <3>1, AppendAt
    <3> QED  BY <3>1, <3>2
  <2>3. \A i \in 1..Len(t) : Append(s, e)[i] = t[i]  BY <2>1, <2>2
  <2>4. Append(s, e) = t  BY <2>1, <2>2, <2>3, SeqEqual
  <2> QED  BY <2>4 DEF s, t
<1>2. ASSUME NEW a, NEW b, NEW c, NEW d, NEW e, NEW x, NEW y, NEW z
      PROVE  Append(<<a, b, c, d, e, x, y>>, z) = <<a, b, c, d, e, x, y, z>>
  <2> DEFINE S == {a, b, c, d, e, x, y, z}
             s == <<a, b, c, d, e, x, y>>
             t == <<a, b, c, d, e, x, y, z>>
  <2>1. s \in Seq(S) /\ t \in Seq(S) /\ Len(s) = 7 /\ Len(t) = 8 /\ z \in S
        /\ (\A i \in 1..7 : s[i] = t[i]) /\ t[8] = z
    OBVIOUS
  <2> HIDE DEF S, s, t
  <2>2. Append(s, z) \in Seq(S) /\ Len(Append(s, z)) = 8
        /\ (\A i \in 1..7 : Append(s, z)[i] = s[i]) /\ Append(s, z)[8] = z
    <3>1. s \in Seq(S) /\ z \in S /\ Len(s) = 7  BY <2>1
    <3>2. /\ Append(s, z) \in Seq(S) /\ Len(Append(s, z)) = Len(s) + 1
          /\ \A i \in 1..Len(s) : Append(s, z)[i] = s[i]
          /\ Append(s, z)[Len(s) + 1] = z
      <4>1. s \in Seq(S) /\ z \in S  BY <2>1
      <4> QED  BY <4>1, AppendAt
    <3>3. \A i \in 1..7 : i \in 1..Len(s)  BY <3>1
    <3>4. Len(s) + 1 = 8  BY <3>1
    <3> DEFINE u == Append(s, z)
    <3>5. u \in Seq(S) /\ Len(u) = 8 /\ u[8] = z /\ \A i \in 1..Len(s) : u[i] = s[i]
      BY <3>2, <3>4
    <3> HIDE DEF u
    <3>6. \A i \in 1..7 : u[i] = s[i]  BY <3>3, <3>5
    <3> QED  BY <3>5, <3>6 DEF u
  <2>3. \A i \in 1..Len(t) : Append(s, z)[i] = t[i]  BY <2>1, <2>2
  <2>4. Append(s, z) = t  BY <2>1, <2>2, <2>3, SeqEqual
  <2> QED  BY <2>4 DEF s, t
<1> QED  BY <1>1, <1>2

\* A text that is not empty and ends in nothing has a separator before that.
LEMMA LastPiece ==
  ASSUME NEW s \in Text, s # <<>>, NEW q \in Seq(Text), NEW r \in Text,
         Split(s, Bar) = Append(q, r)
  PROVE  q = <<>> => r # <<>>
<1>1. PICK u \in Text, c \in Chars : s = Append(u, c)  BY LastElement DEF Text
<1>2. Split(s, Bar) = Further(Split(u, Bar), c, Bar)  BY <1>1, SplitAppend DEF Text
<1>3. PICK v \in Seq(Text), x \in Text : Split(u, Bar) = Append(v, x)
  <2>1. Split(u, Bar) \in Seq(Text) /\ Split(u, Bar) # <<>>  BY <1>1, SplitType DEF Text
  <2> QED  BY <2>1, LastElement
<1>4. CASE c = Bar
  <2>1. Append(q, r) = Append(Append(v, x), <<>>)  BY <1>2, <1>3, <1>4 DEF Further
  <2>2. <<>> \in Text /\ Append(v, x) \in Seq(Text)  BY <1>3, OnText
  <2>3. Len(Append(q, r)) = Len(q) + 1 /\ Len(Append(Append(v, x), <<>>)) = Len(v) + 2
    BY <2>2
  <2> QED  BY <2>1, <2>3
<1>5. CASE c # Bar
  <2>1. Further(Append(v, x), c, Bar) = Append(v, Append(x, c))
    BY <1>5, FurtherLast DEF Text
  <2> DEFINE y == Append(x, c)
  <2>2. y \in Text /\ y # <<>>
    <3>1. y \in Text /\ Len(y) = Len(x) + 1 /\ Len(x) \in Nat  BY AppendAt DEF Text
    <3> QED  BY <3>1
  <2> HIDE DEF y
  <2>3. Append(q, r) = Append(v, y)  BY <1>2, <1>3, <2>1 DEF y
  <2>4. r = y  BY <2>2, <2>3
  <2> QED  BY <2>2, <2>4
<1> QED  BY <1>4, <1>5

\* What std::getline makes of the pieces.
LEMMA TokensOf ==
  ASSUME NEW data \in Text, NEW q \in Seq(Text), NEW r \in Text,
         Split(data, Bar) = Append(q, r)
  PROVE  Tokens(data) = IF r = <<>> THEN q ELSE Append(q, r)
<1> DEFINE f == Append(q, r)
<1>1. Last(f) = r /\ Front(f) = q
  <2>1. Len(f) = Len(q) + 1 /\ f[Len(f)] = r /\ SubSeq(f, 1, Len(f) - 1) = q  OBVIOUS
  <2> QED  BY <2>1 DEF Last, Front
<1> QED  BY <1>1 DEF Tokens

\* A message that arrives alone: its payload may have bars.
LEMMA MessageTokens ==
  ASSUME NEW m \in Message, m.type \in Seq(Chars \ {Bar}), m.server_id \in Seq(Chars \ {Bar}),
         m.target_server_id \in Seq(Chars \ {Bar}), m.timestamp.seconds \in Seq(Chars \ {Bar})
  PROVE  LET data == SerializeServerMessage(m)
             t == Tokens(data)
         IN  /\ data \in Text
             /\ Split(data, Bar) =
                  <<m.type, m.server_id, m.target_server_id, m.timestamp.seconds>>
                    \o Split(m.payload, Bar)
             /\ m.payload # <<>> =>
                  /\ Len(t) >= 5 /\ t[1] = m.type /\ t[2] = m.server_id
                  /\ t[3] = m.target_server_id /\ t[4] = m.timestamp.seconds
                  /\ t[5] = Split(m.payload, Bar)[1]
<1> DEFINE data == SerializeServerMessage(m)
           h == <<m.type, m.server_id, m.target_server_id, m.timestamp.seconds>>
           z == Split(m.payload, Bar)
<1>1. h \in Seq(Seq(Chars \ {Bar})) /\ Len(h) = 4  OBVIOUS
<1>2. m.payload \in Text  BY DEF Message
<1>3. data = Joined(Append(h, m.payload))
  BY TuplesGrow DEF SerializeServerMessage
<1>4. h[1] = m.type /\ h[2] = m.server_id /\ h[3] = m.target_server_id /\ h[4] = m.timestamp.seconds
  OBVIOUS
<1> HIDE DEF h, data
<1>5. data \in Text /\ Split(data, Bar) = h \o z  BY <1>1, <1>2, <1>3, SplitJoined
<1>6. h \in Seq(Text)  BY <1>1, CharsOfMessages, SeqMonotonic
<1>7. PICK q \in Seq(Text), r \in Text : z = Append(q, r)
  <2>1. z \in Seq(Text) /\ z # <<>>  BY <1>2, SplitType DEF Text
  <2> HIDE DEF z
  <2> QED  BY <2>1, LastElement
<1>8. h \o z = Append(h \o q, r) /\ h \o q \in Seq(Text) /\ Len(h \o q) = 4 + Len(q)
  <2>1. h \o q \in Seq(Text) /\ Len(h \o q) = 4 + Len(q)
    <3>1. q \in Seq(Text)  BY <1>7
    <3>2. h \o q \in Seq(Text) /\ Len(h \o q) = Len(h) + Len(q)
      BY <1>6, <3>1, ConcatProperties
    <3> QED  BY <1>1, <3>2
  <2>2. \A x \in Text : h \o Append(q, x) = Append(h \o q, x)  BY <1>6, AppendToConcat
  <2> HIDE DEF z
  <2> QED  BY <1>7, <2>1, <2>2
<1>9. Tokens(data) = IF r = <<>> THEN h \o q ELSE Append(h \o q, r)
  <2> DEFINE g == h \o q
  <2>1. g \in Seq(Text) /\ Split(data, Bar) = Append(g, r)  BY <1>5, <1>8
  <2> HIDE DEF g
  <2>2. Tokens(data) = IF r = <<>> THEN g ELSE Append(g, r)  BY <1>5, <2>1, TokensOf
  <2> QED  BY <2>2 DEF g
<1>10. ASSUME m.payload # <<>>
       PROVE  /\ Len(Tokens(data)) >= 5 /\ Tokens(data)[5] = z[1]
              /\ \A i \in 1..4 : Tokens(data)[i] = h[i]
  <2>1. q = <<>> => r # <<>>  BY <1>2, <1>7, <1>10, LastPiece
  <2>2. q # <<>> => z[1] = q[1] /\ Len(q) >= 1  BY <1>7
  <2>3. q = <<>> => z[1] = r  BY <1>7
  <2> HIDE DEF z
  <2>4. (\A i \in 1..4 : (h \o q)[i] = h[i]) /\ (q # <<>> => (h \o q)[5] = q[1])
    <3>0. q \in Seq(Text)  BY <1>7
    <3>1. \A i \in 1..(Len(h) + Len(q)) :
            (h \o q)[i] = IF i <= Len(h) THEN h[i] ELSE q[i - Len(h)]
      BY <1>6, <3>0, ConcatProperties
    <3>2. Len(q) \in Nat /\ (q # <<>> => Len(q) >= 1)  BY <1>7
    <3>3. \A i \in 1..4 : i \in 1..(Len(h) + Len(q)) /\ i <= Len(h)  BY <1>1, <3>2
    <3>4. q # <<>> => 5 \in 1..(Len(h) + Len(q)) /\ ~(5 <= Len(h)) /\ 5 - Len(h) = 1
      BY <1>1, <3>2
    <3> QED  BY <3>1, <3>3, <3>4
  <2>5. CASE r = <<>>
    <3>1. Tokens(data) = h \o q /\ q # <<>>  BY <1>9, <2>1, <2>5
    <3> QED  BY <1>8, <2>2, <2>4, <3>1
  <2>6. CASE r # <<>>
    <3> DEFINE g == h \o q
    <3>1. g \in Seq(Text) /\ Len(g) = 4 + Len(q) /\ Tokens(data) = Append(g, r)
      BY <1>8, <1>9, <2>6
    <3>2. (\A i \in 1..4 : g[i] = h[i]) /\ (q # <<>> => g[5] = q[1])  BY <2>4
    <3> HIDE DEF g
    <3>3. Len(Append(g, r)) = 5 + Len(q) /\ \A i \in 1..4 : Append(g, r)[i] = g[i]
      BY <3>1
    <3>4. CASE q = <<>>
      BY <2>3, <3>1, <3>2, <3>3, <3>4
    <3>5. CASE q # <<>>
      <4>1. Append(g, r)[5] = g[5]  BY <2>2, <3>1, <3>5
      <4> QED  BY <2>2, <3>1, <3>2, <3>3, <3>5, <4>1
    <3> QED  BY <3>4, <3>5
  <2> QED  BY <2>5, <2>6
<1> QED  BY <1>4, <1>5, <1>10 DEF h, data

\* A message as it is read.
AsRead(m) == [m EXCEPT !.timestamp = InSeconds(@), !.payload = Split(@, Bar)[1]]

LEMMA MessageIsRead ==
  ASSUME NEW m \in Message, m.type \in Numerals, m.server_id \in Seq(Chars \ {Bar}),
         m.target_server_id \in Seq(Chars \ {Bar}), m.timestamp \in Times,
         m.payload # <<>>
  PROVE  DeserializeServerMessage(SerializeServerMessage(m)) = AsRead(m) /\ AsRead(m) # Rejected
<1> DEFINE data == SerializeServerMessage(m)
           t == Tokens(data)
           seconds == m.timestamp.seconds
<1>1. m.type \in Seq(Chars \ {Bar}) /\ seconds \in Seq(Chars \ {Bar}) /\ seconds \in Numerals
  <2>1. Digits \subseteq Chars \ {Bar}  BY CharsOfMessages
  <2>2. seconds \in Numerals  BY DEF Times
  <2> QED  BY <2>1, <2>2, SeqMonotonic DEF Numerals
<1>2. /\ Len(t) >= 5 /\ t[1] = m.type /\ t[2] = m.server_id
      /\ t[3] = m.target_server_id /\ t[4] = seconds /\ t[5] = Split(m.payload, Bar)[1]
  BY <1>1, MessageTokens
<1>3. Len(t) \in Nat
  <2>1. data \in Text  BY <1>1, MessageTokens
  <2> HIDE DEF data
  <2>2. Split(data, Bar) \in Seq(Text) /\ Split(data, Bar) # <<>>  BY <2>1, SplitType DEF Text
  <2>3. PICK q \in Seq(Text), r \in Text : Split(data, Bar) = Append(q, r)
    BY <2>2, LastElement
  <2>4. t = (IF r = <<>> THEN q ELSE Append(q, r))  BY <2>1, <2>3, TokensOf
  <2>5. q \in Seq(Text) /\ Append(q, r) \in Seq(Text)  BY <2>3
  <2> HIDE DEF t
  <2>6. t \in Seq(Text)  BY <2>4, <2>5
  <2> QED  BY <2>6
<1>4. Number(m.type) = m.type /\ Number(seconds) = seconds
      /\ m.type # <<>> /\ seconds # <<>>
  BY <1>1, NumberOfNumeral DEF Numerals
<1>5. InSeconds(m.timestamp) = FromSeconds(seconds)
  BY DEF InSeconds, FromSeconds, Times
<1> HIDE DEF data, t, seconds
<1>6. DeserializeServerMessage(data) =
        [type |-> m.type, server_id |-> m.server_id, target_server_id |-> m.target_server_id,
         timestamp |-> FromSeconds(seconds), payload |-> Split(m.payload, Bar)[1]]
  BY <1>2, <1>3, <1>4 DEF DeserializeServerMessage, t
<1>7. AsRead(m) =
        [type |-> m.type, server_id |-> m.server_id, target_server_id |-> m.target_server_id,
         timestamp |-> InSeconds(m.timestamp), payload |-> Split(m.payload, Bar)[1]]
  <2>1. m = [type |-> m.type, server_id |-> m.server_id, target_server_id |-> m.target_server_id,
             timestamp |-> m.timestamp, payload |-> m.payload]
    BY DEF Message
  <2>2. AsRead(m) = [[m EXCEPT !.timestamp = InSeconds(m.timestamp)]
                       EXCEPT !.payload = Split(m.payload, Bar)[1]]
    BY <2>1 DEF AsRead
  <2> QED  BY <2>1, <2>2
<1>8. AsRead(m).type # Rejected.type  BY <1>4, <1>7 DEF Rejected
<1> QED  BY <1>5, <1>6, <1>7, <1>8 DEF data

LEMMA Barless ==
  ASSUME NEW s \in Text, Bar \notin ToSet(s)
  PROVE  s \in Seq(Chars \ {Bar})
<1>1. \A i \in 1..Len(s) : s[i] \in Chars \ {Bar}  BY DEF ToSet, Text
<1> QED  BY <1>1 DEF Text

\* The last field, when it is not empty, counts as one.
LEMMA TokensAre ==
  ASSUME NEW fs \in Seq(Seq(Chars \ {Bar})), NEW f \in Seq(Chars \ {Bar}), f # <<>>
  PROVE  Tokens(Joined(Append(fs, f))) = Append(fs, f)
<1>1. f \in Text /\ fs \in Seq(Text)
  <2>1. Seq(Chars \ {Bar}) \subseteq Text  BY CharsOfMessages
  <2> QED  BY <2>1, SeqMonotonic
<1>2. Split(f, Bar) = <<f>>  BY SplitNone
<1> DEFINE data == Joined(Append(fs, f))
<1>3. data \in Text /\ Split(data, Bar) = fs \o <<f>>  BY <1>1, <1>2, SplitJoined
<1>4. fs \o <<f>> = Append(fs, f)  BY <1>1, AppendIsConcat
<1> HIDE DEF data
<1>5. Tokens(data) = Append(fs, f)  BY <1>1, <1>3, <1>4, TokensOf
<1> QED  BY <1>5 DEF data

LEMMA InfoIsRead ==
  ASSUME NEW i \in Infos,
         Bar \notin UNION {ToSet(i.server_id), ToSet(i.server_name), ToSet(i.host)}
  PROVE  DeserializeServerInfo(SerializeServerInfo(i)) = [i EXCEPT !.last_seen = InSeconds(@)]
<1> DEFINE Clean == Seq(Chars \ {Bar})
           flag == IF i.is_connected THEN <<"1">> ELSE <<"0">>
           seconds == i.last_seen.seconds
           h == <<i.server_id, i.server_name, i.host, i.port, i.max_clients,
                  i.current_clients, seconds>>
           t == Append(h, flag)
<1>1. /\ i = [server_id |-> i.server_id, server_name |-> i.server_name, host |-> i.host,
              port |-> i.port, max_clients |-> i.max_clients,
              current_clients |-> i.current_clients, last_seen |-> i.last_seen,
              is_connected |-> i.is_connected]
      /\ i.server_id \in Text /\ i.server_name \in Text /\ i.host \in Text
      /\ i.port \in Numerals /\ i.max_clients \in Numerals /\ i.current_clients \in Numerals
      /\ i.last_seen \in Times /\ seconds \in Numerals /\ i.is_connected \in BOOLEAN
  BY ConfigurationAssumption DEF Text, Times
<1>2. Numerals \subseteq Clean
  <2>1. Digits \subseteq Chars \ {Bar}  BY CharsOfMessages
  <2> QED  BY <2>1, SeqMonotonic DEF Numerals
<1>3. flag \in Clean /\ flag # <<>> /\ (flag = <<"1">> <=> i.is_connected)
  <2>1. "0" \in Chars \ {Bar} /\ "1" \in Chars \ {Bar} /\ "0" # "1"
    BY CharsOfMessages DEF Digits
  <2> DEFINE one == <<"1">>
             zero == <<"0">>
  <2>2. one \in Clean /\ zero \in Clean /\ one # <<>> /\ zero # <<>>  BY <2>1
  <2>3. one # zero
    <3>1. one[1] = "1" /\ zero[1] = "0"  OBVIOUS
    <3> HIDE DEF one, zero
    <3> QED  BY <3>1
  <2> HIDE DEF one, zero, Clean
  <2>4. flag = IF i.is_connected THEN one ELSE zero  BY DEF one, zero
  <2> HIDE DEF flag
  <2>5. flag \in Clean /\ flag # <<>> /\ (flag = one <=> i.is_connected)
    BY <1>1, <2>2, <2>3, <2>4
  <2> QED  BY <2>5 DEF one
<1>4. i.server_id \in Clean /\ i.server_name \in Clean /\ i.host \in Clean
  BY <1>1, Barless
<1>5. h \in Seq(Clean)
  <2> HIDE DEF Clean
  <2> QED  BY <1>1, <1>2, <1>4
<1>6. t = <<i.server_id, i.server_name, i.host, i.port, i.max_clients,
            i.current_clients, seconds, flag>>
  <2> HIDE DEF flag
  <2> QED  BY TuplesGrow
<1>7. SerializeServerInfo(i) = Joined(t)  BY <1>6 DEF SerializeServerInfo
<1>8. Tokens(Joined(t)) = t
  <2> HIDE DEF h, flag
  <2> QED  BY <1>3, <1>5, TokensAre
<1>9. Len(t) = 8 /\ t[1] = i.server_id /\ t[2] = i.server_name /\ t[3] = i.host
      /\ t[4] = i.port /\ t[5] = i.max_clients /\ t[6] = i.current_clients
      /\ t[7] = seconds /\ t[8] = flag
  <2> HIDE DEF flag
  <2> QED  BY <1>6
<1>10. \A k \in {4, 5, 6, 7} : Number(t[k]) = t[k] /\ t[k] # <<>>
  <2>1. \A n \in Numerals : Number(n) = n /\ n # <<>>  BY NumberOfNumeral DEF Numerals
  <2> QED  BY <1>1, <1>9, <2>1
<1> HIDE DEF t, flag, seconds
<1>11. DeserializeServerInfo(Joined(t)) =
         [server_id |-> i.server_id, server_name |-> i.server_name, host |-> i.host,
          port |-> i.port, max_clients |-> i.max_clients,
          current_clients |-> i.current_clients, last_seen |-> FromSeconds(seconds),
          is_connected |-> (flag = <<"1">>)]
  BY <1>8, <1>9, <1>10 DEF DeserializeServerInfo
<1>12. (flag = <<"1">>) = i.is_connected  BY <1>1, <1>3, Zenon
<1>13. InSeconds(i.last_seen) = FromSeconds(seconds)
  BY <1>1 DEF InSeconds, FromSeconds, Times, seconds
<1>14. [i EXCEPT !.last_seen = FromSeconds(seconds)] =
         [server_id |-> i.server_id, server_name |-> i.server_name, host |-> i.host,
          port |-> i.port, max_clients |-> i.max_clients,
          current_clients |-> i.current_clients, last_seen |-> FromSeconds(seconds),
          is_connected |-> i.is_connected]
  BY <1>1
<1> QED  BY <1>7, <1>11, <1>12, <1>13, <1>14

-----------------------------------------------------------------------------
(* What loadConfig makes of a file.                                         *)

KeySet == ToSet(Keys)
FileLine == [key : KeySet, text : Text]

LEMMA KeysAre ==
  /\ Len(Keys) = 5 /\ DOMAIN Keys = 1..5 /\ \A i \in 1..5 : Keys[i] \in KeySet
  /\ KeySet = {"server_id", "server_name", "port", "network_password", "enable_user_sync"}
  /\ Keys[1] = "server_id" /\ Keys[2] = "server_name" /\ Keys[3] = "port"
  /\ Keys[4] = "network_password" /\ Keys[5] = "enable_user_sync"
  /\ \A i, j \in 1..5 : Keys[i] = Keys[j] => i = j
<1>1. /\ Len(Keys) = 5 /\ DOMAIN Keys = 1..5
      /\ Keys[1] = "server_id" /\ Keys[2] = "server_name" /\ Keys[3] = "port"
      /\ Keys[4] = "network_password" /\ Keys[5] = "enable_user_sync"
  BY DEF Keys
<1>2. \A i \in 1..5 : i = 1 \/ i = 2 \/ i = 3 \/ i = 4 \/ i = 5  OBVIOUS
<1>3. KeySet = {Keys[i] : i \in 1..5}  BY <1>1 DEF KeySet, ToSet
<1>4. KeySet = {"server_id", "server_name", "port", "network_password", "enable_user_sync"}
  BY <1>1, <1>2, <1>3
<1>5. \A i, j \in 1..5 : Keys[i] = Keys[j] => i = j  BY <1>1, <1>2
<1> QED  BY <1>1, <1>3, <1>4, <1>5

LEMMA Flags == True \in Text /\ False \in Text
<1>1. "t" \in Chars /\ "e" \in Chars /\ "f" \in Chars  BY ConfigurationAssumption
<1> QED  BY <1>1 DEF True, False, Text

LEMMA ParsedType ==
  ASSUME NEW l \in FileLine
  PROVE  /\ Parsed(l) \in Text
         /\ IsFlag(l.key) => Parsed(l) \in {True, False}
         /\ IsNumber(l.key) /\ Parsed(l) # <<>> => IsInteger(Parsed(l))
<1>1. l.text \in Text  BY DEF FileLine
<1>2. Number(l.text) \in Text /\ Number(Number(l.text)) = Number(l.text) /\ Trim(l.text) \in Text
  BY <1>1, NumberType, NumberTwice, TrimType DEF Text
<1>3. IsFlag(l.key) => ~IsNumber(l.key)  BY DEF IsFlag, IsNumber
<1> QED  BY <1>2, <1>3, Flags DEF Parsed, IsInteger

\* The last line of a key before a bad number decides; without one nothing changes.
LEMMA ReadAt ==
  ASSUME NEW lines \in Seq(FileLine), NEW c \in [KeySet -> Text], NEW k \in KeySet
  PROVE  LET value == Read(lines, c).config[k]
             Gives(i) == /\ lines[i].key = k /\ lines[i].text # <<>>
                         /\ IsNumber(k) => Parsed(lines[i]) # <<>>
         IN  /\ value = c[k] \/ \E i \in 1..Len(lines) : Gives(i) /\ value = Parsed(lines[i])
             /\ \A i \in 1..Len(lines) :
                  /\ Gives(i) /\ (\A j \in 1..Len(lines) : lines[j].key = k => j = i)
                  /\ \A j \in 1..i : lines[j].text # <<>> /\ IsNumber(lines[j].key)
                                       => Parsed(lines[j]) # <<>>
                  => value = Parsed(lines[i])
<1> DEFINE given == {i \in DOMAIN lines : lines[i].text # <<>>}
           bad == {i \in given : IsNumber(lines[i].key) /\ Parsed(lines[i]) = <<>>}
           end == IF bad = {} THEN Len(lines) ELSE Nth(bad, 0) - 1
           has == {i \in given : i <= end /\ lines[i].key = k}
           value == Read(lines, c).config[k]
           last == Nth(has, Cardinality(has) - 1)
           Gives(i) == /\ lines[i].key = k /\ lines[i].text # <<>>
                       /\ IsNumber(k) => Parsed(lines[i]) # <<>>
<1>1. value = IF has = {} THEN c[k] ELSE Parsed(lines[last])
  BY DEF Read, KeySet
<1>2. bad \in SUBSET (1..Len(lines)) /\ has \in SUBSET (1..Len(lines)) /\ Len(lines) \in Nat
  OBVIOUS
<1>3. \A i \in bad : ~(i <= end)
  <2> SUFFICES ASSUME bad # {}
               PROVE  \A i \in bad : ~(i <= end)
    OBVIOUS
  <2>1. end = Nth(bad, 0) - 1  OBVIOUS
  <2>2. Nth(bad, 0) \in bad /\ \A i \in bad : Nth(bad, 0) <= i
    <3> HIDE DEF bad
    <3> QED  BY <1>2, NthFirst
  <2> DEFINE first == Nth(bad, 0)
  <2>3. end = first - 1 /\ first \in bad /\ \A i \in bad : first <= i  BY <2>1, <2>2
  <2> HIDE DEF bad, end, first
  <2>4. \A i \in bad : i \in Nat  BY <1>2
  <2> QED  BY <2>3, <2>4
<1>4. \A i \in has : Gives(i)
  <2> SUFFICES ASSUME NEW i \in has
               PROVE  Gives(i)
    OBVIOUS
  <2>1. i \in given /\ i <= end /\ lines[i].key = k  OBVIOUS
  <2>2. i \notin bad
    <3> HIDE DEF bad, end, has
    <3> QED  BY <1>3, <2>1
  <2> QED  BY <2>1, <2>2
<1>5. has # {} => last \in has
  <2> HIDE DEF has
  <2> QED  BY <1>2, NthLast
<1>6. value = c[k] \/ \E i \in 1..Len(lines) : Gives(i) /\ value = Parsed(lines[i])
  <2> HIDE DEF has, value, last, Gives
  <2> QED  BY <1>1, <1>2, <1>4, <1>5
<1>7. ASSUME NEW i \in 1..Len(lines), Gives(i),
             \A j \in 1..Len(lines) : lines[j].key = k => j = i,
             \A j \in 1..i : lines[j].text # <<>> /\ IsNumber(lines[j].key)
                               => Parsed(lines[j]) # <<>>
      PROVE  value = Parsed(lines[i])
  <2>1. \A j \in bad : i < j
    <3> SUFFICES ASSUME NEW j \in bad, j <= i
                 PROVE  FALSE
      BY <1>2
    <3>1. j \in 1..i /\ lines[j].text # <<>> /\ IsNumber(lines[j].key) /\ Parsed(lines[j]) = <<>>
      OBVIOUS
    <3> QED  BY <1>7, <3>1
  <2>2. i <= end
    <3>1. bad # {} => Nth(bad, 0) \in bad
      <4> HIDE DEF bad
      <4> QED  BY <1>2, NthFirst
    <3> DEFINE first == Nth(bad, 0)
    <3>2. end = IF bad = {} THEN Len(lines) ELSE first - 1  OBVIOUS
    <3>3. bad # {} => first \in bad  BY <3>1
    <3>4. bad \in SUBSET (1..Len(lines))  BY <1>2
    <3> HIDE DEF bad, end, first
    <3>5. bad # {} => first \in Nat /\ i < first  BY <1>2, <2>1, <3>3, <3>4
    <3> QED  BY <3>2, <3>5
  <2>3. has = {i}
    <3> HIDE DEF bad, end
    <3>1. i \in given /\ i <= end /\ lines[i].key = k  BY <1>7, <2>2
    <3> QED  BY <1>7, <3>1
  <2>4. last = i
    <3> HIDE DEF has
    <3> QED  BY <1>2, <1>5, <2>3
  <2> HIDE DEF has, last, value
  <2> QED  BY <1>1, <2>3, <2>4
<1> QED  BY <1>6, <1>7

LEMMA ReadType ==
  ASSUME NEW lines \in Seq(FileLine), NEW c \in [KeySet -> Text]
  PROVE  Read(lines, c).config \in [KeySet -> Text]
<1> DEFINE new == Read(lines, c).config
<1>1. \A k \in KeySet : new[k] \in Text
  <2> SUFFICES ASSUME NEW k \in KeySet
               PROVE  new[k] \in Text
    OBVIOUS
  <2>1. new[k] = c[k] \/ \E i \in 1..Len(lines) : new[k] = Parsed(lines[i])
    BY ReadAt
  <2>2. \A i \in 1..Len(lines) : Parsed(lines[i]) \in Text  BY ParsedType
  <2> HIDE DEF new
  <2> QED  BY <2>1, <2>2
<1>2. DOMAIN new = KeySet /\ new = [k \in KeySet |-> new[k]]  BY DEF Read, KeySet
<1> HIDE DEF new
<1>3. new \in [KeySet -> Text]  BY <1>1, <1>2
<1> QED  BY <1>3 DEF new

\* The port is an int, and the flag a flag.
Sane(c) == IsInteger(c["port"]) /\ c["enable_user_sync"] \in {True, False}

LEMMA ReadIsSane ==
  ASSUME NEW lines \in Seq(FileLine), NEW c \in [KeySet -> Text], Sane(c)
  PROVE  Sane(Read(lines, c).config)
<1> DEFINE new == Read(lines, c).config
<1>1. ASSUME NEW k \in KeySet
      PROVE  \/ new[k] = c[k]
             \/ \E i \in 1..Len(lines) :
                  /\ lines[i].key = k /\ (IsNumber(k) => Parsed(lines[i]) # <<>>)
                  /\ new[k] = Parsed(lines[i])
  BY ReadAt
<1>2. "port" \in KeySet /\ "enable_user_sync" \in KeySet  BY KeysAre
<1>3. IsNumber("port") /\ IsFlag("enable_user_sync")  BY DEF IsNumber, IsFlag
<1>4. \A i \in 1..Len(lines) : lines[i] \in FileLine  OBVIOUS
<1> HIDE DEF new
<1>5. IsInteger(new["port"])
  <2>1. CASE new["port"] = c["port"]  BY <2>1 DEF Sane
  <2>2. ASSUME NEW i \in 1..Len(lines), lines[i].key = "port", Parsed(lines[i]) # <<>>,
               new["port"] = Parsed(lines[i])
        PROVE  IsInteger(new["port"])
    BY <1>3, <1>4, <2>2, ParsedType
  <2> QED  BY <1>1, <1>2, <1>3, <2>1, <2>2
<1>6. new["enable_user_sync"] \in {True, False}
  <2>1. CASE new["enable_user_sync"] = c["enable_user_sync"]  BY <2>1 DEF Sane
  <2>2. ASSUME NEW i \in 1..Len(lines), lines[i].key = "enable_user_sync",
               new["enable_user_sync"] = Parsed(lines[i])
        PROVE  new["enable_user_sync"] \in {True, False}
    BY <1>3, <1>4, <2>2, ParsedType
  <2> QED  BY <1>1, <1>2, <2>1, <2>2
<1> QED  BY <1>5, <1>6 DEF Sane, new

LEMMA TokensType ==
  ASSUME NEW data \in Text
  PROVE  Tokens(data) \in Seq(Text)
<1>1. Split(data, Bar) \in Seq(Text) /\ Split(data, Bar) # <<>>  BY SplitType DEF Text
<1>2. PICK q \in Seq(Text), r \in Text : Split(data, Bar) = Append(q, r)
  BY <1>1, LastElement
<1>3. Tokens(data) = IF r = <<>> THEN q ELSE Append(q, r)  BY <1>2, TokensOf
<1>4. Append(q, r) \in Seq(Text)  OBVIOUS
<1> QED  BY <1>3, <1>4

LEMMA DeserializeType ==
  ASSUME NEW data \in Text
  PROVE  \/ DeserializeServerMessage(data) = Rejected
         \/ DeserializeServerMessage(data) \in Message
<1> DEFINE t == Tokens(data)
<1>1. t \in Seq(Text)  BY TokensType
<1>2. ASSUME ~(Len(t) < 5)
      PROVE  /\ t[1] \in Text /\ t[2] \in Text /\ t[3] \in Text /\ t[4] \in Text /\ t[5] \in Text
             /\ Number(t[1]) \in Text /\ FromSeconds(Number(t[4])) \in [seconds : Text, rest : Nat]
  <2> HIDE DEF t
  <2>1. \A k \in 1..5 : t[k] \in Text  BY <1>1, <1>2
  <2>2. \A u \in Text : Number(u) \in Text  BY NumberType DEF Text
  <2> QED  BY <2>1, <2>2 DEF FromSeconds
<1> HIDE DEF t
<1> QED  BY <1>2 DEF DeserializeServerMessage, Message, t

LEMMA SerializeType ==
  ASSUME NEW m \in Message
  PROVE  SerializeServerMessage(m) \in Text
<1> DEFINE h == <<m.type, m.server_id, m.target_server_id, m.timestamp.seconds>>
<1>1. h \in Seq(Text) /\ m.payload \in Text  BY DEF Message
<1>2. SerializeServerMessage(m) = Joined(Append(h, m.payload))
  BY TuplesGrow DEF SerializeServerMessage
<1> HIDE DEF h
<1>3. Joined(Append(h, m.payload)) = Before(h) \o m.payload  BY <1>1, JoinedAppend
<1>4. Before(h) \in Text  BY <1>1, PartsType
<1> QED  BY <1>1, <1>2, <1>3, <1>4, OnText

-----------------------------------------------------------------------------
(* The types.                                                               *)

SaneInv == Sane(config)

LEMMA DefaultType ==
  ASSUME NEW id \in Text
  PROVE  Default(id) \in [KeySet -> Text] /\ Sane(Default(id))
<1>1. "C" \in Chars /\ "8" \in Chars /\ "0" \in Chars /\ "8" \in Digits /\ "0" \in Digits
  BY ConfigurationAssumption DEF Digits
<1>2. <<"C">> \in Text /\ <<"8", "0">> \in Text /\ <<>> \in Text /\ IsInteger(<<"8", "0">>)
  <2>1. <<"8", "0">> \in Seq(Digits) /\ <<"8", "0">> # <<>>  BY <1>1
  <2>2. IsInteger(<<"8", "0">>)  BY <2>1, NumberOfNumeral DEF IsInteger
  <2> QED  BY <1>1, <2>2 DEF Text
<1>3. Default(id) \in [KeySet -> Text]
  <2>1. DOMAIN Default(id) = KeySet  BY KeysAre DEF Default
  <2>2. \A k \in KeySet : Default(id)[k] \in Text  BY <1>2, KeysAre, Flags DEF Default
  <2>3. Default(id) = [k \in DOMAIN Default(id) |-> Default(id)[k]]  BY DEF Default
  <2> DEFINE d == Default(id)
  <2>4. DOMAIN d = KeySet /\ (\A k \in KeySet : d[k] \in Text) /\ d = [k \in DOMAIN d |-> d[k]]
    BY <2>1, <2>2, <2>3
  <2> HIDE DEF d
  <2>5. d \in [KeySet -> Text]  BY <2>4
  <2> QED  BY <2>5 DEF d
<1> QED  BY <1>2, <1>3 DEF Default, Sane

LEMMA InitTyped == Init => TypeOK /\ SaneInv
<1> SUFFICES ASSUME Init
             PROVE  TypeOK /\ SaneInv
  OBVIOUS
<1>1. <<>> \in Text  BY OnText
<1>2. config \in [KeySet -> Text] /\ SaneInv
  BY <1>1, DefaultType DEF Init, ConfigInit, SaneInv
<1>3. file \in Seq(FileLine)
  <2>1. AdminFiles \subseteq Seq(FileLine)
    BY ConfigurationAssumption DEF FileLine, KeySet, Text
  <2>2. <<>> \in Seq(FileLine)  OBVIOUS
  <2> QED  BY <2>1, <2>2 DEF Init, ConfigInit
<1>4. 0 \in 0..MaxActs  BY ConfigurationAssumption
<1>5. DOMAIN known = {}  BY DEF Init, ConfigInit
<1>6. unwritten \in Seq([key : KeySet, text : Text]) /\ sent \in Seq(Message) /\ got \in Seq(Message)
  BY DEF Init, ConfigInit
<1> QED  BY <1>1, <1>2, <1>3, <1>4, <1>5, <1>6
         DEF Init, ConfigInit, TypeOK, SaneInv, Sane, KeySet, FileLine

LEMMA TypedStep == TypeOK /\ SaneInv /\ [Next]_vars => TypeOK' /\ SaneInv'
<1> SUFFICES ASSUME TypeOK, SaneInv, [Next]_vars
             PROVE  TypeOK' /\ SaneInv'
  OBVIOUS
<1> DEFINE Rest == /\ file \in Seq(FileLine) /\ config \in [KeySet -> Text]
                   /\ unwritten \in Seq(FileLine) /\ acts \in Nat /\ MaxActs \in Nat
                   /\ wire \in Text
<1>1. Rest  BY ConfigurationAssumption DEF TypeOK, FileLine, KeySet
<1>2. \A a : acts < MaxActs /\ a = acts + 1 => a \in 0..MaxActs  BY <1>1
<1>3. ASSUME NEW id \in RandomIds, Construct(id), UNCHANGED linkVars
      PROVE  TypeOK' /\ SaneInv'
  <2>1. Default(id) \in [KeySet -> Text] /\ Sane(Default(id))
    BY ConfigurationAssumption, DefaultType DEF Text
  <2>2. config' \in [KeySet -> Text] /\ Sane(config')
    BY <1>1, <1>3, <2>1, ReadType, ReadIsSane DEF Construct
  <2>3. DOMAIN known' = {}  BY <1>3 DEF Construct
  <2> QED  BY <1>2, <1>3, <2>2, <2>3 DEF Construct, linkVars, TypeOK, SaneInv, Sane, KeySet
<1>4. CASE LoadConfig /\ UNCHANGED linkVars
  <2>1. config' \in [KeySet -> Text] /\ Sane(config')
    BY <1>1, <1>4, ReadType, ReadIsSane DEF LoadConfig, SaneInv
  <2> QED  BY <1>4, <2>1 DEF LoadConfig, linkVars, TypeOK, SaneInv, Sane, KeySet
<1>5. CASE SaveConfig /\ UNCHANGED linkVars
  <2>1. [i \in DOMAIN Keys |-> Line(Keys[i], config[Keys[i]])] \in Seq(FileLine)
    <3>1. \A i \in 1..5 : Line(Keys[i], config[Keys[i]]) \in FileLine
      BY <1>1, KeysAre DEF Line, FileLine
    <3> QED  BY <3>1, KeysAre
  <2>2. unwritten' \in Seq(FileLine) /\ file' \in Seq(FileLine)  BY <1>5, <2>1 DEF SaveConfig
  <2> QED  BY <1>5, <2>2 DEF SaveConfig, linkVars, TypeOK, SaneInv, Sane, KeySet, FileLine
<1>6. CASE WriteLine /\ UNCHANGED linkVars
  <2>1. Head(unwritten) \in FileLine /\ Tail(unwritten) \in Seq(FileLine)
    BY <1>1, <1>6 DEF WriteLine
  <2>2. unwritten' \in Seq(FileLine) /\ file' \in Seq(FileLine)
    BY <1>1, <1>6, <2>1 DEF WriteLine
  <2> QED  BY <1>6, <2>2 DEF WriteLine, linkVars, TypeOK, SaneInv, Sane, KeySet, FileLine
<1>7. CASE WriteFails /\ UNCHANGED linkVars
  <2> DEFINE l == Head(unwritten)
  <2>1. l \in FileLine  BY <1>1, <1>7 DEF WriteFails
  <2>2. \A n \in 0..(Len(l.text) - 1) : Line(l.key, SubSeq(l.text, 1, n)) \in FileLine
    <3>1. l.text \in Text /\ l.key \in KeySet  BY <2>1 DEF FileLine
    <3> HIDE DEF l
    <3>2. \A n \in 0..(Len(l.text) - 1) : SubSeq(l.text, 1, n) \in Text
      BY <3>1 DEF Text
    <3> QED  BY <3>1, <3>2 DEF Line, FileLine
  <2>3. file' = file \/ \E n \in 0..(Len(l.text) - 1) :
                          file' = Append(file, Line(l.key, SubSeq(l.text, 1, n)))
    BY <1>7 DEF WriteFails
  <2> HIDE DEF l
  <2>4. file' \in Seq(FileLine)
    <3>1. CASE file' = file  BY <1>1, <3>1
    <3>2. ASSUME NEW n \in 0..(Len(l.text) - 1),
                 file' = Append(file, Line(l.key, SubSeq(l.text, 1, n)))
          PROVE  file' \in Seq(FileLine)
      <4> DEFINE part == Line(l.key, SubSeq(l.text, 1, n))
      <4>1. part \in FileLine /\ file' = Append(file, part)  BY <2>2, <3>2
      <4> HIDE DEF part
      <4> QED  BY <1>1, <4>1
    <3> QED  BY <2>3, <3>1, <3>2
  <2>5. unwritten' \in Seq(FileLine)  BY <1>7 DEF WriteFails
  <2> QED  BY <1>7, <2>4, <2>5 DEF WriteFails, linkVars, TypeOK, SaneInv, Sane, KeySet, FileLine
<1>8. ASSUME NEW s \in Settings, Set(s[1], s[2]), UNCHANGED linkVars
      PROVE  TypeOK' /\ SaneInv'
  <2>1. s[1] \in KeySet /\ s[2] \in Text /\ (IsNumber(s[1]) => IsInteger(s[2]))
        /\ (IsFlag(s[1]) => s[2] \in {True, False})
    BY ConfigurationAssumption DEF KeySet, Text
  <2>2. config' = [config EXCEPT ![s[1]] = s[2]]  BY <1>8 DEF Set
  <2>3. config' \in [KeySet -> Text]  BY <1>1, <2>1, <2>2
  <2>4. Sane(config')
    <3>1. "port" \in KeySet /\ "enable_user_sync" \in KeySet  BY KeysAre
    <3> QED  BY <1>1, <2>1, <2>2, <3>1 DEF SaneInv, Sane, IsNumber, IsFlag
  <2> QED  BY <1>2, <1>8, <2>3, <2>4 DEF Set, linkVars, TypeOK, SaneInv, Sane, KeySet
<1>9. ASSUME NEW lines \in AdminFiles, EditFile(lines), UNCHANGED linkVars
      PROVE  TypeOK' /\ SaneInv'
  <2>1. file' \in Seq(FileLine)
    BY <1>9, ConfigurationAssumption DEF EditFile, FileLine, KeySet, Text
  <2> QED  BY <1>2, <1>9, <2>1 DEF EditFile, linkVars, TypeOK, SaneInv, Sane, KeySet, FileLine
<1>10. ASSUME NEW info \in Infos, AddKnownServer(info), UNCHANGED linkVars
       PROVE  TypeOK' /\ SaneInv'
  <2>1. \A id \in DOMAIN known' : known'[id] \in Infos
    BY <1>10 DEF AddKnownServer, TypeOK
  <2> QED  BY <1>2, <1>10, <2>1 DEF AddKnownServer, linkVars, TypeOK, SaneInv, Sane
<1>11. ASSUME NEW id \in DOMAIN known, RemoveKnownServer(id), UNCHANGED linkVars
       PROVE  TypeOK' /\ SaneInv'
  <2>1. \A other \in DOMAIN known' : known'[other] \in Infos
    BY <1>11 DEF RemoveKnownServer, TypeOK
  <2> QED  BY <1>11, <2>1 DEF RemoveKnownServer, linkVars, TypeOK, SaneInv, Sane
<1>12. CASE ProcessEnds /\ UNCHANGED linkVars
  <2>1. unwritten' \in Seq(FileLine)  BY <1>12 DEF ProcessEnds
  <2> QED  BY <1>12, <2>1 DEF ProcessEnds, linkVars, TypeOK, SaneInv, Sane, KeySet, FileLine
<1>13. ASSUME NEW payload \in Payloads, SendServerMessage(payload)
       PROVE  TypeOK' /\ SaneInv'
  <2> DEFINE m == ForwardPublic(payload)
  <2>1. m \in Message
    <3>1. "2" \in Chars /\ "0" \in Chars /\ Now \in [seconds : Text, rest : Nat]
      BY MessagingAssumption, CharsOfMessages DEF Digits, Times
    <3>2. <<"2", "0", "0">> \in Text /\ <<>> \in Text /\ payload \in Text
      BY <3>1, MessagingAssumption DEF Text
    <3>3. config.server_id \in Text  BY <1>1, KeysAre
    <3> QED  BY <3>1, <3>2, <3>3 DEF ForwardPublic, Message
  <2>2. wire' \in Text
    <3>1. SerializeServerMessage(m) \in Text  BY <2>1, SerializeType
    <3> QED  BY <1>1, <1>13, <3>1, OnText DEF SendServerMessage
  <2>3. sent' \in Seq(Message)  BY <1>13, <2>1 DEF SendServerMessage, TypeOK
  <2> QED  BY <1>2, <1>13, <2>2, <2>3 DEF SendServerMessage, TypeOK, SaneInv, Sane
<1>14. ASSUME NEW n \in 1..Len(wire), Receive(n)
       PROVE  TypeOK' /\ SaneInv'
  <2>1. SubSeq(wire, 1, n) \in Text /\ SubSeq(wire, n + 1, Len(wire)) \in Text
    BY <1>1 DEF Text
  <2>2. got' \in Seq(Message)
    BY <1>14, <2>1, DeserializeType DEF Receive, TypeOK
  <2> QED  BY <1>14, <2>1, <2>2 DEF Receive, configVars, TypeOK, SaneInv, Sane
<1>15. CASE LinkLost
  BY <1>15, OnText DEF LinkLost, configVars, TypeOK, SaneInv, Sane
<1>16. CASE UNCHANGED vars
  BY <1>16 DEF vars, configVars, linkVars, TypeOK, SaneInv, Sane
<1> QED
  BY <1>3, <1>4, <1>5, <1>6, <1>7, <1>8, <1>9, <1>10, <1>11, <1>12, <1>13, <1>14, <1>15, <1>16
  DEF Next, ConfigStep

LEMMA Typed == Spec => [](TypeOK /\ SaneInv)
<1> QED  BY InitTyped, TypedStep, PTL DEF Spec

\* Whatever is in the file, loading and receiving make texts of texts: every variable
\* keeps its type.
THEOREM MessagingTyped == Spec => []TypeOK
<1> QED  BY Typed, PTL

\* A known server without bars in its texts is read as it was described, last_seen up to
\* the second.
THEOREM InfoIsFaithful == Spec => []InfoSurvives
<1>1. TypeOK => InfoSurvives
  BY InfoIsRead DEF TypeOK, InfoSurvives
<1> QED  BY <1>1, Typed, PTL

-----------------------------------------------------------------------------
(* Messages that arrive one by one.                                         *)

\* What a server sends.
TwoHundred == <<"2", "0", "0">>

LEMMA TwoHundredIs == TwoHundred \in Numerals
<1>1. "2" \in Digits /\ "0" \in Digits  BY DEF Digits
<1> QED  BY <1>1 DEF TwoHundred, Numerals

SentInv ==
  \A i \in DOMAIN sent : /\ sent[i].type = TwoHundred /\ sent[i].target_server_id = <<>>
                         /\ sent[i].timestamp = Now /\ sent[i].payload # <<>>

\* The first n messages that were sent, as they are read.
FirstRead(s, n) == [i \in 1..n |-> AsRead(s[i])]

\* While all is framed, only the last message can be on its way, and it is whole.
FramedInv ==
  framed =>
    /\ wire # <<>> => sent # <<>> /\ wire = SerializeServerMessage(Last(sent))
    /\ (\A i \in DOMAIN sent : Bar \notin ToSet(sent[i].server_id)) =>
         got = FirstRead(sent, Len(sent) - IF wire = <<>> THEN 0 ELSE 1)

LEMMA AsReadType ==
  ASSUME NEW m \in Message
  PROVE  AsRead(m) \in Message
<1>1. m.payload \in Text  BY DEF Message
<1>2. Split(m.payload, Bar) \in Seq(Text) /\ Split(m.payload, Bar) # <<>>
  BY <1>1, SplitType DEF Text
<1> DEFINE z == Split(m.payload, Bar)
<1>3. z[1] \in Text
  <2> HIDE DEF z
  <2>1. z \in Seq(Text) /\ z # <<>>  BY <1>2 DEF z
  <2> QED  BY <2>1
<1>4. AsRead(m) = [m EXCEPT !.timestamp = InSeconds(@), !.payload = z[1]]  BY DEF AsRead
<1>5. InSeconds(m.timestamp) \in [seconds : Text, rest : Nat]  BY DEF Message, InSeconds
<1> HIDE DEF z
<1> QED  BY <1>3, <1>4, <1>5 DEF Message

LEMMA FirstReadGrows ==
  ASSUME NEW s \in Seq(Message)
  PROVE  /\ \A n \in 0..(Len(s) - 1) :
              FirstRead(s, n + 1) = Append(FirstRead(s, n), AsRead(s[n + 1]))
         /\ \A m \in Message, n \in 0..Len(s) : FirstRead(Append(s, m), n) = FirstRead(s, n)
<1>1. ASSUME NEW n \in 0..(Len(s) - 1)
      PROVE  FirstRead(s, n + 1) = Append(FirstRead(s, n), AsRead(s[n + 1]))
  <2> DEFINE p == FirstRead(s, n)
             q == FirstRead(s, n + 1)
             x == AsRead(s[n + 1])
  <2>1. \A i \in 1..(n + 1) : AsRead(s[i]) \in Message
    <3>1. \A i \in 1..(n + 1) : s[i] \in Message  OBVIOUS
    <3> QED  BY <3>1, AsReadType
  <2>2. p \in Seq(Message) /\ Len(p) = n /\ q \in Seq(Message) /\ Len(q) = n + 1
        /\ (\A i \in 1..n : q[i] = p[i]) /\ q[n + 1] = x /\ x \in Message
    BY <2>1 DEF FirstRead
  <2> HIDE DEF p, q, x
  <2>3. /\ Append(p, x) \in Seq(Message) /\ Len(Append(p, x)) = n + 1
        /\ \A i \in 1..(n + 1) : q[i] = Append(p, x)[i]
    BY <2>2
  <2>4. q = Append(p, x)  BY <2>2, <2>3, SeqEqual
  <2> QED  BY <2>4 DEF p, q, x
<1>2. ASSUME NEW m \in Message, NEW n \in 0..Len(s)
      PROVE  FirstRead(Append(s, m), n) = FirstRead(s, n)
  <2>1. \A i \in 1..n : Append(s, m)[i] = s[i]  OBVIOUS
  <2> QED  BY <2>1 DEF FirstRead
<1> QED  BY <1>1, <1>2

\* What is sent has the form that MessageTokens and MessageIsRead speak of.
LEMMA SentForm ==
  ASSUME TypeOK, NEW payload \in Payloads
  PROVE  LET m == ForwardPublic(payload)
         IN  /\ m \in Message /\ m.type = TwoHundred /\ m.server_id = config.server_id
             /\ m.target_server_id = <<>> /\ m.timestamp = Now /\ m.payload # <<>>
             /\ m.type \in Numerals /\ m.timestamp \in Times
             /\ m.target_server_id \in Seq(Chars \ {Bar})
             /\ SerializeServerMessage(m) \in Text /\ SerializeServerMessage(m) # <<>>
<1> DEFINE m == ForwardPublic(payload)
           two == TwoHundred
<1>1. two \in Numerals /\ two \in Text /\ Now \in Times /\ Now \in [seconds : Text, rest : Nat]
      /\ <<>> \in Text
  BY MessagingAssumption, CharsOfMessages, TwoHundredIs DEF Times, Text
<1>2. payload \in Text /\ payload # <<>>  BY MessagingAssumption DEF Text
<1>3. config.server_id \in Text  BY KeysAre DEF TypeOK, KeySet
<1> HIDE DEF two
<1>4. m \in Message /\ m.type = two /\ m.server_id = config.server_id
      /\ m.target_server_id = <<>> /\ m.timestamp = Now /\ m.payload # <<>>
  BY <1>1, <1>2, <1>3 DEF ForwardPublic, Message, two, TwoHundred
<1>5. SerializeServerMessage(m) \in Text /\ SerializeServerMessage(m) # <<>>
  <2> DEFINE h == <<m.type, m.server_id, m.target_server_id, m.timestamp.seconds>>
  <2>1. h \in Seq(Text) /\ h # <<>> /\ m.payload \in Text  BY <1>4 DEF Message
  <2>2. SerializeServerMessage(m) = Joined(Append(h, m.payload))
    BY TuplesGrow DEF SerializeServerMessage
  <2> HIDE DEF h, m
  <2>3. SerializeServerMessage(m) = Before(h) \o m.payload  BY <2>1, <2>2, JoinedAppend
  <2>4. Before(h) \in Text /\ Len(Before(h)) > 0
    <3>1. PICK v \in Seq(Text), x \in Text : h = Append(v, x)  BY <2>1, LastElement
    <3> DEFINE u == Before(v) \o x
    <3>2. Before(h) = u \o <<Bar>>  BY <3>1, BeforeAppend
    <3>3. u \in Text /\ Bar \in Chars  BY PartsType, OnText, CharsOfMessages
    <3> HIDE DEF u
    <3> QED  BY <3>2, <3>3 DEF Text
  <2> DEFINE b == Before(h)
  <2> HIDE DEF b
  <2>5. b \o m.payload \in Text /\ b \o m.payload # <<>>
    BY <2>1, <2>4 DEF Text, b
  <2> QED  BY <2>3, <2>5 DEF b
<1>6. <<>> \in Seq(Chars \ {Bar})  OBVIOUS
<1> QED  BY <1>1, <1>4, <1>5, <1>6 DEF two

LEMMA SentStep == TypeOK /\ SentInv /\ [Next]_vars => SentInv'
<1> SUFFICES ASSUME TypeOK, SentInv, [Next]_vars
             PROVE  SentInv'
  OBVIOUS
<1>1. ASSUME NEW payload \in Payloads, SendServerMessage(payload)
      PROVE  SentInv'
  <2> DEFINE m == ForwardPublic(payload)
  <2>1. m \in Message /\ m.type = TwoHundred /\ m.target_server_id = <<>> /\ m.timestamp = Now
        /\ m.payload # <<>>
    BY SentForm
  <2>2. sent \in Seq(Message) /\ sent' = Append(sent, m)
    BY <1>1 DEF SendServerMessage, TypeOK
  <2> HIDE DEF m
  <2>3. \A i \in DOMAIN sent' : sent'[i] = m \/ (i \in DOMAIN sent /\ sent'[i] = sent[i])
    BY <2>1, <2>2
  <2> QED  BY <2>1, <2>3 DEF SentInv
<1>2. CASE sent' = sent  BY <1>2 DEF SentInv
<1> QED
  BY <1>1, <1>2 DEF Next, Receive, LinkLost, vars, linkVars

LEMMA FramedStep == TypeOK /\ SentInv /\ FramedInv /\ [Next]_vars => FramedInv'
<1> SUFFICES ASSUME TypeOK, SentInv, FramedInv, [Next]_vars, framed'
             PROVE  FramedInv'
  BY DEF FramedInv
<1> DEFINE Barred(s) == \E i \in DOMAIN s : Bar \in ToSet(s[i].server_id)
<1>1. sent \in Seq(Message) /\ got \in Seq(Message) /\ wire \in Text  BY DEF TypeOK
<1>2. ASSUME NEW payload \in Payloads, SendServerMessage(payload)
      PROVE  FramedInv'
  <2> DEFINE m == ForwardPublic(payload)
             data == SerializeServerMessage(m)
  <2>1. m \in Message /\ data \in Text /\ data # <<>>  BY SentForm
  <2>2. framed /\ wire = <<>> /\ sent' = Append(sent, m) /\ wire' = wire \o data /\ got' = got
    BY <1>2 DEF SendServerMessage
  <2> HIDE DEF m, data
  <2>3. wire' = data /\ wire' # <<>>  BY <2>1, <2>2 DEF Text
  <2>4. sent' # <<>> /\ Last(sent') = m /\ Len(sent') - 1 = Len(sent) /\ Len(sent) \in 0..Len(sent)
    BY <1>1, <2>1, <2>2 DEF Last
  <2>5. ASSUME ~Barred(sent')
        PROVE  got' = FirstRead(sent', Len(sent') - 1)
    <3>1. \A i \in DOMAIN sent : i \in DOMAIN sent' /\ sent'[i] = sent[i]
      BY <1>1, <2>1, <2>2
    <3>2. ~Barred(sent)  BY <2>5, <3>1
    <3>3. got = FirstRead(sent, Len(sent) - 0)  BY <2>2, <3>2 DEF FramedInv
    <3>4. FirstRead(sent', Len(sent)) = FirstRead(sent, Len(sent))
      BY <1>1, <2>1, <2>2, <2>4, FirstReadGrows
    <3>5. Len(sent) - 0 = Len(sent)  BY <1>1
    <3> QED  BY <2>2, <2>4, <3>3, <3>4, <3>5
  <2> QED  BY <2>3, <2>4, <2>5 DEF FramedInv, data
<1>3. ASSUME NEW n \in 1..Len(wire), Receive(n)
      PROVE  FramedInv'
  <2>1. framed /\ n = Len(wire) /\ sent' = sent  BY <1>3 DEF Receive
  <2>2. wire # <<>> /\ wire' = <<>> /\ SubSeq(wire, 1, n) = wire
    BY <1>1, <1>3, <2>1 DEF Receive, Text
  <2>3. sent # <<>> /\ wire = SerializeServerMessage(Last(sent))  BY <2>1, <2>2 DEF FramedInv
  <2> DEFINE m == Last(sent)
             l == Len(sent) - 1
  <2>4. l \in 0..(Len(sent) - 1) /\ m = sent[l + 1] /\ l + 1 = Len(sent) /\ m \in Message
        /\ l + 1 \in DOMAIN sent
    BY <1>1, <2>3 DEF Last
  <2>5. ASSUME ~Barred(sent)
        PROVE  got' = FirstRead(sent, Len(sent))
    <3>1. got = FirstRead(sent, l)  BY <2>1, <2>2, <2>5 DEF FramedInv
    <3> HIDE DEF m, l
    <3>2. m.type \in Numerals /\ m.timestamp \in Times /\ m.payload # <<>>
          /\ m.target_server_id \in Seq(Chars \ {Bar})
      <4>1. TwoHundred \in Numerals  BY TwoHundredIs
      <4>2. m.type = TwoHundred /\ m.timestamp = Now /\ m.payload # <<>>
            /\ m.target_server_id = <<>>
        BY <2>4 DEF SentInv
      <4>3. <<>> \in Seq(Chars \ {Bar})  OBVIOUS
      <4> QED  BY <4>1, <4>2, <4>3, MessagingAssumption
    <3>3. m.server_id \in Seq(Chars \ {Bar})
      <4>1. m.server_id \in Text  BY <2>4 DEF Message
      <4> QED  BY <2>4, <2>5, <4>1, Barless
    <3>4. DeserializeServerMessage(wire) = AsRead(m) /\ AsRead(m) # Rejected
      BY <2>3, <2>4, <3>2, <3>3, MessageIsRead DEF m
    <3>5. got' = Append(got, AsRead(m))  BY <1>3, <2>2, <3>4 DEF Receive
    <3>6. FirstRead(sent, l + 1) = Append(FirstRead(sent, l), AsRead(sent[l + 1]))
      BY <1>1, <2>4, FirstReadGrows
    <3> QED  BY <2>4, <3>1, <3>5, <3>6
  <2> QED  BY <1>1, <2>1, <2>2, <2>5 DEF FramedInv
<1>4. CASE UNCHANGED linkVars  BY <1>4 DEF linkVars, FramedInv
<1>5. CASE LinkLost  BY <1>5 DEF LinkLost
<1> QED
  BY <1>2, <1>3, <1>4, <1>5 DEF Next, vars

\* When each recv() returns one message, all that were sent are accepted and read as
\* they were sent, the time up to the second and the payload up to its first bar.
THEOREM FramedMessagesAreRead == Spec => []FramedIsFaithful
<1>1. Init => SentInv /\ FramedInv
  <2>1. FirstRead(<<>>, 0) = <<>>  BY DEF FirstRead
  <2> QED  BY <2>1 DEF Init, SentInv, FramedInv
<1>2. FramedInv => FramedIsFaithful
  BY DEF FramedInv, FramedIsFaithful, FirstRead, AsRead
<1>3. Spec => [](SentInv /\ FramedInv)
  BY <1>1, Typed, SentStep, FramedStep, PTL DEF Spec
<1> QED  BY <1>2, <1>3, PTL

-----------------------------------------------------------------------------
(* Messages that are cut and glued.                                         *)

\* Four bars lie between the beginnings of two messages, so that every fourth piece
\* of the stream is a server_id, and the one after it an empty target.  The first
\* piece may be the rest of one; p says which.
Phase(ids, pieces, p) ==
  /\ (Len(pieces) + p) % 4 = 1
  /\ \A i \in 1..Len(pieces) :
       /\ (i + p) % 4 = 3 => pieces[i] = <<>>
       /\ (i + p) % 4 = 2 =>
            \E id \in ids : IF i = 1 THEN ToSet(pieces[i]) \subseteq ToSet(id) ELSE pieces[i] = id

SentIds == {sent[i].server_id : i \in DOMAIN sent}

PhaseInv ==
  (\A i \in DOMAIN sent : NoBars(sent[i])) => \E p \in Nat : Phase(SentIds, Split(wire, Bar), p)

Consists(s, q, y, w) ==
  /\ s \in Seq(Text) /\ Len(s) = Len(q) + 1 + Len(w)
  /\ \A i \in 1..Len(q) : s[i] = q[i]
  /\ s[Len(q) + 1] = y
  /\ \A i \in 1..Len(w) : s[Len(q) + 1 + i] = w[i]

LEMMA PiecesAt ==
  ASSUME NEW q \in Seq(Text), NEW y \in Text, NEW w \in Seq(Text)
  PROVE  Consists(q \o (<<y>> \o w), q, y, w)
<1> DEFINE v == <<y>> \o w
<1>1. v \in Seq(Text) /\ Len(v) = 1 + Len(w) /\ v[1] = y
      /\ \A i \in 1..Len(w) : v[1 + i] = w[i]
  OBVIOUS
<1> HIDE DEF v
<1>2. q \o v \in Seq(Text) /\ Len(q \o v) = Len(q) + Len(v)
      /\ \A i \in 1..(Len(q) + Len(v)) :
           (q \o v)[i] = IF i <= Len(q) THEN q[i] ELSE v[i - Len(q)]
  <2>1. q \in Seq(Text) /\ v \in Seq(Text)  BY <1>1
  <2> QED  BY <2>1, ConcatProperties
<1> DEFINE s == q \o v
<1> HIDE DEF s
<1>3. Len(q) \in Nat /\ Len(w) \in Nat  OBVIOUS
<1>4. \A i \in 1..Len(q) : s[i] = q[i]  BY <1>1, <1>2, <1>3 DEF s
<1>5. s[Len(q) + 1] = y
  <2>1. Len(q) + 1 \in 1..(Len(q) + Len(v)) /\ ~(Len(q) + 1 <= Len(q)) /\ Len(q) + 1 - Len(q) = 1
    BY <1>1, <1>3
  <2> QED  BY <1>1, <1>2, <2>1 DEF s
<1>6. \A i \in 1..Len(w) : s[Len(q) + 1 + i] = w[i]
  <2> SUFFICES ASSUME NEW i \in 1..Len(w)
               PROVE  s[Len(q) + 1 + i] = w[i]
    OBVIOUS
  <2> DEFINE j == Len(q) + 1 + i
  <2>1. j \in 1..(Len(q) + Len(v)) /\ ~(j <= Len(q)) /\ j - Len(q) = 1 + i
    BY <1>1, <1>3
  <2> QED  BY <1>1, <1>2, <2>1 DEF s
<1> QED  BY <1>1, <1>2, <1>3, <1>4, <1>5, <1>6 DEF s, v, Consists

LEMMA NextKinds ==
  ASSUME NEW n \in Nat, NEW p \in Nat, (n + p) % 4 = 1
  PROVE  /\ (n + 4 + p) % 4 = 1 /\ (n + 1 + p) % 4 = 2 /\ (n + 2 + p) % 4 = 3
         /\ (n + 3 + p) % 4 = 0
<1> DEFINE k == (n + p) \div 4
<1>1. k \in Nat /\ n + p = 4 * k + 1  OBVIOUS
<1> HIDE DEF k
<1>2. n + 4 + p = 4 * (k + 1) + 1 /\ n + 1 + p = 4 * k + 2 /\ n + 2 + p = 4 * k + 3
      /\ n + 3 + p = 4 * (k + 1)
  BY <1>1
<1> QED  BY <1>1, <1>2

\* What is sent continues the pattern.
LEMMA PhaseGrows ==
  ASSUME NEW q \in Seq(Text), NEW r \in Text, NEW x \in Text, NEW w \in Seq(Text),
         NEW p \in Nat, NEW ids, NEW id, Phase(ids, Append(q, r), p),
         Len(w) = 4, w[1] = id, w[2] = <<>>
  PROVE  Phase(ids \cup {id}, q \o (<<r \o x>> \o w), p)
<1> DEFINE old == Append(q, r)
           y == r \o x
           new == q \o (<<y>> \o w)
           n == Len(q) + 1
<1>1. n \in Nat /\ n > 0 /\ Len(old) = n /\ old[n] = r /\ \A i \in 1..Len(q) : old[i] = q[i]
  OBVIOUS
<1>2. y \in Text  BY OnText
<1> HIDE DEF old, y
<1>3. /\ Len(new) = n + 4 /\ new[n] = y
      /\ \A i \in 1..Len(q) : new[i] = q[i]
      /\ \A i \in 1..4 : new[n + i] = w[i]
  <2>1. /\ Len(new) = Len(q) + 1 + Len(w)
        /\ \A i \in 1..Len(q) : new[i] = q[i]
        /\ new[Len(q) + 1] = y
        /\ \A i \in 1..Len(w) : new[Len(q) + 1 + i] = w[i]
    <3>1. Consists(new, q, y, w)  BY <1>2, PiecesAt
    <3> HIDE DEF new
    <3> QED  BY <3>1 DEF Consists
  <2> HIDE DEF new
  <2> QED  BY <1>1, <2>1
<1> HIDE DEF new
<1>4. (n + p) % 4 = 1  BY <1>1 DEF Phase, old
<1>5. /\ (n + 4 + p) % 4 = 1 /\ (n + 1 + p) % 4 = 2 /\ (n + 2 + p) % 4 = 3
      /\ (n + 3 + p) % 4 = 0
  BY <1>1, <1>4, NextKinds
<1>6. ASSUME NEW i \in 1..Len(new)
      PROVE  /\ (i + p) % 4 = 3 => new[i] = <<>>
             /\ (i + p) % 4 = 2 =>
                  \E d \in ids \cup {id} :
                    IF i = 1 THEN ToSet(new[i]) \subseteq ToSet(d) ELSE new[i] = d
  <2>1. i \in 1..Len(q) \/ i = n \/ i = n + 1 \/ i = n + 2 \/ i = n + 3 \/ i = n + 4
    BY <1>1, <1>3
  <2>2. CASE i \in 1..Len(q)
    <3>1. i \in 1..Len(old) /\ new[i] = old[i]  BY <1>1, <1>3, <2>2
    <3>2. /\ (i + p) % 4 = 3 => old[i] = <<>>
          /\ (i + p) % 4 = 2 =>
               \E d \in ids : IF i = 1 THEN ToSet(old[i]) \subseteq ToSet(d) ELSE old[i] = d
      BY <3>1 DEF Phase, old
    <3> QED  BY <3>1, <3>2
  <2>3. CASE i = n
    BY <1>4, <2>3
  <2>4. CASE i = n + 1
    <3>1. i # 1 /\ new[i] = id  BY <1>1, <1>3, <2>4
    <3> QED  BY <1>5, <2>4, <3>1
  <2>5. CASE i = n + 2
    BY <1>3, <1>5, <2>5
  <2>6. CASE i = n + 3 \/ i = n + 4
    <3>1. (i + p) % 4 = 0 \/ (i + p) % 4 = 1  BY <1>5, <2>6
    <3> QED  BY <3>1
  <2> QED  BY <2>1, <2>2, <2>3, <2>4, <2>5, <2>6
<1> QED  BY <1>3, <1>5, <1>6 DEF Phase, new, y

\* What is received leaves a stream with the same pattern, which begins elsewhere.
LEMMA PhaseShrinks ==
  ASSUME NEW q \in Seq(Text), NEW r \in Text, NEW x \in Text, NEW w \in Seq(Text),
         NEW p \in Nat, NEW ids \in SUBSET Text, Phase(ids, q \o (<<r \o x>> \o w), p)
  PROVE  Phase(ids, <<x>> \o w, p + Len(q))
<1> DEFINE y == r \o x
           old == q \o (<<y>> \o w)
           new == <<>> \o (<<x>> \o w)
           l == Len(q)
<1>1. y \in Text /\ <<>> \in Seq(Text)  BY OnText
<1>2. ToSet(x) \subseteq ToSet(y) /\ (y = <<>> => x = <<>>)
  <2>1. \A i \in 1..Len(x) : Len(r) + i \in 1..Len(y) /\ y[Len(r) + i] = x[i]
    BY DEF Text
  <2>2. DOMAIN x = 1..Len(x) /\ DOMAIN y = 1..Len(y) /\ Len(y) = Len(r) + Len(x)
        /\ Len(x) \in Nat /\ Len(r) \in Nat
    BY DEF Text
  <2>3. y = <<>> => x = <<>>  BY <2>2 DEF Text
  <2> HIDE DEF y
  <2>4. ToSet(x) \subseteq ToSet(y)  BY <2>1, <2>2 DEF ToSet
  <2> QED  BY <2>3, <2>4
<1> HIDE DEF y
<1>3. /\ Len(old) = l + 1 + Len(w) /\ old[l + 1] = y
      /\ \A i \in 1..Len(w) : old[l + 1 + i] = w[i]
  <2>1. Consists(old, q, y, w)  BY <1>1, PiecesAt
  <2> HIDE DEF old
  <2> QED  BY <2>1 DEF Consists
<1>4. /\ Len(new) = 1 + Len(w) /\ new[1] = x
      /\ \A i \in 1..Len(w) : new[1 + i] = w[i]
  <2>1. /\ Len(new) = Len(<<>>) + 1 + Len(w) /\ new[Len(<<>>) + 1] = x
        /\ \A i \in 1..Len(w) : new[Len(<<>>) + 1 + i] = w[i]
    <3>1. Consists(new, <<>>, x, w)  BY <1>1, PiecesAt
    <3> HIDE DEF new
    <3> QED  BY <3>1 DEF Consists
  <2>2. Len(<<>>) = 0  OBVIOUS
  <2> HIDE DEF new
  <2> QED  BY <2>1, <2>2
<1>5. new = <<x>> \o w
  <2>1. <<x>> \o w \in Seq(Text)  OBVIOUS
  <2> DEFINE v == <<x>> \o w
  <2> HIDE DEF v
  <2>2. <<>> \o v = v  BY <2>1 DEF v
  <2> QED  BY <2>2 DEF v
<1>6. l \in Nat /\ Len(w) \in Nat  OBVIOUS
<1> HIDE DEF old, new, l
<1>7. (Len(new) + (p + l)) % 4 = 1
  <2>1. Len(new) + (p + l) = Len(old) + p  BY <1>3, <1>4, <1>6
  <2> QED  BY <2>1 DEF Phase, old, y
<1>8. ASSUME NEW i \in 1..Len(new)
      PROVE  /\ (i + (p + l)) % 4 = 3 => new[i] = <<>>
             /\ (i + (p + l)) % 4 = 2 =>
                  \E d \in ids : IF i = 1 THEN ToSet(new[i]) \subseteq ToSet(d) ELSE new[i] = d
  <2> DEFINE j == l + i
  <2>1. j \in 1..Len(old) /\ i + (p + l) = j + p  BY <1>3, <1>4, <1>6
  <2>2. /\ (j + p) % 4 = 3 => old[j] = <<>>
        /\ (j + p) % 4 = 2 =>
             \E d \in ids : ToSet(old[j]) \subseteq ToSet(d) /\ (j # 1 => old[j] = d)
    BY <2>1 DEF Phase, old, y
  <2>3. CASE i = 1
    <3>1. old[j] = y /\ new[i] = x  BY <1>3, <1>4, <2>3
    <3> QED  BY <1>2, <2>1, <2>2, <2>3, <3>1
  <2>4. CASE i # 1
    <3>1. i - 1 \in 1..Len(w) /\ 1 + (i - 1) = i /\ l + 1 + (i - 1) = j /\ j # 1
      BY <1>4, <1>6, <2>4
    <3>2. new[i] = w[i - 1] /\ old[j] = w[i - 1]  BY <1>3, <1>4, <3>1
    <3> QED  BY <2>1, <2>2, <2>4, <3>1, <3>2
  <2> QED  BY <2>3, <2>4
<1>9. Phase(ids, new, p + l)  BY <1>7, <1>8 DEF Phase
<1> QED  BY <1>5, <1>9 DEF l

\* What is accepted has its server_id from the right place, or has an empty one.
Known(ids, id) == id \in ids \/ (id = <<>> /\ \E d \in ids : ToSet(d) \cap Digits # {})

LEMMA FourKinds ==
  ASSUME NEW p \in Nat
  PROVE  \/ (1 + p) % 4 = 0 /\ (4 + p) % 4 = 3
         \/ (1 + p) % 4 = 1 /\ (2 + p) % 4 = 2
         \/ (1 + p) % 4 = 2 /\ (2 + p) % 4 = 3
         \/ (1 + p) % 4 = 3
<1> DEFINE k == (1 + p) \div 4
<1>1. k \in Nat /\ 1 + p = 4 * k + ((1 + p) % 4) /\ (1 + p) % 4 \in 0..3  OBVIOUS
<1> HIDE DEF k
<1>2. (1 + p) % 4 = 0 => (4 + p) % 4 = 3  BY <1>1
<1>3. (1 + p) % 4 = 1 => (2 + p) % 4 = 2  BY <1>1
<1>4. (1 + p) % 4 = 2 => (2 + p) % 4 = 3  BY <1>1
<1> QED  BY <1>1, <1>2, <1>3, <1>4

LEMMA OfFewer ==
  ASSUME NEW s \in Text, NEW S, ToSet(s) \subseteq S
  PROVE  s \in Seq(S)
<1>1. \A i \in 1..Len(s) : s[i] \in S  BY DEF ToSet, Text
<1> QED  BY <1>1 DEF Text

LEMMA AcceptedIsKnown ==
  ASSUME NEW q \in Seq(Text), NEW r \in Text, NEW x \in Text, NEW w \in Seq(Text),
         NEW p \in Nat, NEW ids \in SUBSET Text, Phase(ids, q \o (<<r \o x>> \o w), p),
         NEW data \in Text, Split(data, Bar) = Append(q, r),
         DeserializeServerMessage(data) # Rejected
  PROVE  Known(ids, DeserializeServerMessage(data).server_id)
<1> DEFINE t == Tokens(data)
           y == r \o x
           pieces == q \o (<<y>> \o w)
<1>1. t = IF r = <<>> THEN q ELSE Append(q, r)  BY TokensOf
<1>2. y \in Text  BY OnText
<1>3. Consists(pieces, q, y, w)  BY <1>2, PiecesAt
<1>4. /\ ~(Len(t) < 5) /\ Number(t[1]) # <<>> /\ Number(t[4]) # <<>>
      /\ DeserializeServerMessage(data).server_id = t[2]
  BY DEF DeserializeServerMessage
<1> HIDE DEF t, y, pieces
<1>5. Len(q) >= 4 /\ \A i \in 1..4 : t[i] = q[i]
  <2>1. CASE r = <<>>  BY <1>1, <1>4, <2>1
  <2>2. CASE r # <<>>
    <3>1. /\ Len(Append(q, r)) = Len(q) + 1
          /\ \A i \in 1..Len(q) : Append(q, r)[i] = q[i]
      BY AppendAt
    <3> QED  BY <1>1, <1>4, <2>2, <3>1
  <2> QED  BY <2>1, <2>2
<1>6. Len(pieces) \in Nat /\ Len(pieces) >= 4 /\ \A i \in 1..4 : pieces[i] = t[i] /\ t[i] \in Text
  BY <1>3, <1>5 DEF Consists
<1>7. \A i \in 1..4 :
        /\ (i + p) % 4 = 3 => t[i] = <<>>
        /\ (i + p) % 4 = 2 =>
             \E d \in ids : IF i = 1 THEN ToSet(t[i]) \subseteq ToSet(d) ELSE t[i] = d
  <2> SUFFICES ASSUME NEW i \in 1..4
               PROVE  /\ (i + p) % 4 = 3 => t[i] = <<>>
                      /\ (i + p) % 4 = 2 =>
                           \E d \in ids : IF i = 1 THEN ToSet(t[i]) \subseteq ToSet(d) ELSE t[i] = d
    OBVIOUS
  <2>1. i \in 1..Len(pieces) /\ pieces[i] = t[i]  BY <1>6
  <2> QED  BY <2>1 DEF Phase, pieces, y
<1>8. \/ (1 + p) % 4 = 0 /\ (4 + p) % 4 = 3
      \/ (1 + p) % 4 = 1 /\ (2 + p) % 4 = 2
      \/ (1 + p) % 4 = 2 /\ (2 + p) % 4 = 3
      \/ (1 + p) % 4 = 3
  BY FourKinds
<1>9. CASE (1 + p) % 4 = 0 /\ (4 + p) % 4 = 3
  <2>1. t[4] = <<>>  BY <1>7, <1>9
  <2> QED  BY <1>4, <2>1, NumberOfNothing
<1>10. CASE (1 + p) % 4 = 1 /\ (2 + p) % 4 = 2
  <2>1. t[2] \in ids  BY <1>7, <1>10
  <2> QED  BY <1>4, <2>1 DEF Known
<1>11. CASE (1 + p) % 4 = 2 /\ (2 + p) % 4 = 3
  <2>1. t[2] = <<>>  BY <1>7, <1>11
  <2>2. PICK d \in ids : ToSet(t[1]) \subseteq ToSet(d)  BY <1>7, <1>11
  <2>3. t[1] \in Seq(ToSet(d))
    <3>1. t[1] \in Text  BY <1>6
    <3> QED  BY <2>2, <3>1, OfFewer
  <2>4. ToSet(d) \cap Digits # {}  BY <1>4, <2>3, NumberHasDigit
  <2> QED  BY <1>4, <2>1, <2>4 DEF Known
<1>12. CASE (1 + p) % 4 = 3
  <2>1. t[1] = <<>>  BY <1>7, <1>12
  <2> QED  BY <1>4, <2>1, NumberOfNothing
<1> QED  BY <1>8, <1>9, <1>10, <1>11, <1>12

LEMMA OneLess == \A a, b : b \in Nat /\ a = b + 1 /\ a = 5 => b = 4
OBVIOUS

\* A message that is sent is five pieces, and the first is glued to what was before.
LEMMA SentPieces ==
  ASSUME NEW m \in Message, NoBars(m), m.type \in Numerals, m.timestamp \in Times,
         m.target_server_id = <<>>, NEW x \in Text, NEW w \in Seq(Text),
         Split(SerializeServerMessage(m), Bar) = <<x>> \o w
  PROVE  Len(w) = 4 /\ w[1] = m.server_id /\ w[2] = <<>>
<1> DEFINE C == Seq(Chars \ {Bar})
           h == <<m.type, m.server_id, m.target_server_id, m.timestamp.seconds>>
           g == h \o <<m.payload>>
<1>1. m.type \in C /\ m.timestamp.seconds \in C /\ m.target_server_id \in C
  <2>1. Digits \subseteq Chars \ {Bar}  BY CharsOfMessages
  <2> QED  BY <2>1, SeqMonotonic DEF Numerals, Times
<1>2. m.server_id \in C /\ m.payload \in C
  BY Barless DEF Message, NoBars
<1>3. Split(m.payload, Bar) = <<m.payload>>  BY <1>2, SplitNone
<1>4. Split(SerializeServerMessage(m), Bar) = g  BY <1>1, <1>2, <1>3, MessageTokens
<1>5. h \in Seq(C) /\ Len(h) = 4 /\ h[2] = m.server_id /\ h[3] = <<>>
  BY <1>1, <1>2
<1> DEFINE last == <<m.payload>>
<1>6. last \in Seq(C) /\ Len(last) = 1  BY <1>2
<1> HIDE DEF h, last, C
<1>7. Len(h \o last) = 5 /\ (h \o last)[2] = m.server_id /\ (h \o last)[3] = <<>>
  <2>1. /\ Len(h \o last) = Len(h) + Len(last)
        /\ \A i \in 1..(Len(h) + Len(last)) :
             (h \o last)[i] = IF i <= Len(h) THEN h[i] ELSE last[i - Len(h)]
    BY <1>5, <1>6, ConcatProperties
  <2> QED  BY <1>5, <1>6, <2>1
<1>8. g = h \o last  BY DEF last
<1> DEFINE v == <<x>> \o w
<1>9. Len(v) = Len(w) + 1 /\ Len(w) \in Nat  OBVIOUS
<1>10. \A i \in 1..Len(w) : v[1 + i] = w[i]  OBVIOUS
<1>11. v = h \o last  BY <1>4, <1>8
<1> HIDE DEF v
<1>12. Len(w) = 4
  <2>1. Len(v) = 5  BY <1>7, <1>11
  <2> QED  BY <1>9, <2>1, OneLess
<1>13. 1 \in 1..Len(w) /\ 2 \in 1..Len(w) /\ 1 + 1 = 2 /\ 1 + 2 = 3  BY <1>12
<1>14. w[1] = v[2] /\ w[2] = v[3]  BY <1>10, <1>13
<1> QED  BY <1>7, <1>11, <1>12, <1>14

LEMMA PhaseOfNothing == \A ids : Phase(ids, Split(<<>>, Bar), 0)
<1> DEFINE s == << <<>> >>
<1>1. Len(s) = 1 /\ (1 + 0) % 4 = 1  OBVIOUS
<1>2. Split(<<>>, Bar) = s  BY SplitEmpty
<1> HIDE DEF s
<1>3. (Len(s) + 0) % 4 = 1  BY <1>1
<1>4. \A i \in 1..Len(s) : (i + 0) % 4 # 3 /\ (i + 0) % 4 # 2  BY <1>1
<1>5. \A ids : Phase(ids, s, 0)  BY <1>3, <1>4 DEF Phase
<1> QED  BY <1>2, <1>5

\* Where the received part ends, in the pieces of what was on the way.
CutPieces(n) ==
  \E q, w \in Seq(Text), r, x \in Text :
    /\ Split(SubSeq(wire, 1, n), Bar) = Append(q, r)
    /\ Split(SubSeq(wire, n + 1, Len(wire)), Bar) = <<x>> \o w
    /\ Split(wire, Bar) = q \o (<<r \o x>> \o w)

LEMMA CutSomewhere ==
  ASSUME wire \in Text, NEW n \in 1..Len(wire)
  PROVE  CutPieces(n) /\ SubSeq(wire, 1, n) \in Text
<1> DEFINE a == SubSeq(wire, 1, n)
           b == SubSeq(wire, n + 1, Len(wire))
<1>1. n \in 0..Len(wire)  OBVIOUS
<1>2. a \in Text /\ b \in Text /\ wire = a \o b  BY <1>1, TwoParts DEF Text
<1> HIDE DEF a, b
<1>3. Split(a, Bar) \in Seq(Text) /\ Split(a, Bar) # <<>>  BY <1>2, SplitType DEF Text
<1>4. PICK q \in Seq(Text), r \in Text : Split(a, Bar) = Append(q, r)
  BY <1>3, LastElement
<1>5. SplitJoins(Chars, a, b, Bar, q, r)  BY <1>2, <1>4, SplitConcat DEF Text
<1>6. PICK x \in Text, w \in Seq(Text) :
        Split(b, Bar) = <<x>> \o w /\ Split(a \o b, Bar) = q \o (<<r \o x>> \o w)
  BY <1>5 DEF SplitJoins, Text
<1> QED  BY <1>2, <1>4, <1>6 DEF CutPieces, a, b

AllBarless == \A i \in DOMAIN sent : NoBars(sent[i])

LEMMA SentIdsType == TypeOK => SentIds \in SUBSET Text
<1> SUFFICES ASSUME TypeOK
             PROVE  \A i \in DOMAIN sent : sent[i].server_id \in Text
  BY DEF SentIds
<1>1. \A i \in DOMAIN sent : sent[i] \in Message  BY DEF TypeOK
<1> QED  BY <1>1 DEF Message

\* What is sent, when neither its id nor its payload has a bar.
LEMMA PhaseAfterSend ==
  ASSUME TypeOK, PhaseInv, NEW payload \in Payloads, SendServerMessage(payload), AllBarless'
  PROVE  AllBarless /\ SentIds \subseteq SentIds' /\ \E p \in Nat : Phase(SentIds', Split(wire', Bar), p)
<1> DEFINE m == ForwardPublic(payload)
           data == SerializeServerMessage(m)
<1>1. /\ m \in Message /\ m.type \in Numerals /\ m.timestamp \in Times
      /\ m.target_server_id = <<>> /\ data \in Text
  BY SentForm
<1>2. sent \in Seq(Message) /\ wire \in Text  BY DEF TypeOK
<1>3. sent' = Append(sent, m) /\ wire' = wire \o data  BY DEF SendServerMessage
<1> HIDE DEF m, data
<1>4. /\ DOMAIN sent' = DOMAIN sent \cup {Len(sent) + 1}
      /\ \A i \in DOMAIN sent : sent'[i] = sent[i]
      /\ sent'[Len(sent) + 1] = m
  BY <1>1, <1>2, <1>3
<1>5. AllBarless /\ NoBars(m)  BY <1>4 DEF AllBarless
<1>6. SentIds' = SentIds \cup {m.server_id}  BY <1>4 DEF SentIds
<1>7. PICK p \in Nat : Phase(SentIds, Split(wire, Bar), p)  BY <1>5 DEF PhaseInv, AllBarless
<1>8. PICK q \in Seq(Text), r \in Text : Split(wire, Bar) = Append(q, r)
  <2>1. Split(wire, Bar) \in Seq(Text) /\ Split(wire, Bar) # <<>>  BY <1>2, SplitType DEF Text
  <2> QED  BY <2>1, LastElement
<1>9. SplitJoins(Chars, wire, data, Bar, q, r)  BY <1>1, <1>2, <1>8, SplitConcat DEF Text
<1>10. PICK x \in Text, w \in Seq(Text) :
         Split(data, Bar) = <<x>> \o w /\ Split(wire \o data, Bar) = q \o (<<r \o x>> \o w)
  BY <1>9 DEF SplitJoins, Text
<1>11. Len(w) = 4 /\ w[1] = m.server_id /\ w[2] = <<>>
  BY <1>1, <1>5, <1>10, SentPieces DEF data
<1>12. Phase(SentIds, Append(q, r), p)  BY <1>7, <1>8
<1>13. Phase(SentIds \cup {m.server_id}, q \o (<<r \o x>> \o w), p)
  BY <1>11, <1>12, PhaseGrows
<1>14. Phase(SentIds', Split(wire', Bar), p)  BY <1>3, <1>6, <1>10, <1>13
<1> QED  BY <1>5, <1>6, <1>14

LEMMA PhaseStep == TypeOK /\ PhaseInv /\ [Next]_vars => PhaseInv'
<1> SUFFICES ASSUME TypeOK, PhaseInv, [Next]_vars, AllBarless'
             PROVE  \E p \in Nat : Phase(SentIds', Split(wire', Bar), p)
  BY DEF PhaseInv, AllBarless
<1>1. ASSUME NEW payload \in Payloads, SendServerMessage(payload)
      PROVE  \E p \in Nat : Phase(SentIds', Split(wire', Bar), p)
  BY <1>1, PhaseAfterSend
<1>2. ASSUME sent' = sent
      PROVE  AllBarless /\ SentIds' = SentIds
  BY <1>2 DEF AllBarless, SentIds
<1>3. ASSUME NEW n \in 1..Len(wire), Receive(n)
      PROVE  \E p \in Nat : Phase(SentIds', Split(wire', Bar), p)
  <2>1. sent' = sent /\ wire' = SubSeq(wire, n + 1, Len(wire))  BY <1>3 DEF Receive
  <2>2. PICK p \in Nat : Phase(SentIds, Split(wire, Bar), p)
    BY <1>2, <2>1 DEF PhaseInv, AllBarless
  <2>3. CutPieces(n)
    <3>1. wire \in Text  BY DEF TypeOK
    <3> QED  BY <3>1, CutSomewhere
  <2>4. PICK q \in Seq(Text), w \in Seq(Text), r \in Text, x \in Text :
          /\ Split(SubSeq(wire, n + 1, Len(wire)), Bar) = <<x>> \o w
          /\ Split(wire, Bar) = q \o (<<r \o x>> \o w)
    BY <2>3 DEF CutPieces
  <2>5. SentIds \in SUBSET Text  BY SentIdsType
  <2>6. Phase(SentIds, q \o (<<r \o x>> \o w), p)  BY <2>2, <2>4
  <2>7. Phase(SentIds, <<x>> \o w, p + Len(q))  BY <2>5, <2>6, PhaseShrinks
  <2>8. Len(q) \in Nat  OBVIOUS
  <2>9. p + Len(q) \in Nat  BY <2>8
  <2>10. Phase(SentIds', Split(wire', Bar), p + Len(q))
    BY <1>2, <2>1, <2>4, <2>7
  <2> QED  BY <2>9, <2>10
<1>4. CASE LinkLost
  <2>1. sent' = sent /\ wire' = <<>>  BY <1>4 DEF LinkLost
  <2> QED  BY <2>1, PhaseOfNothing
<1>5. CASE UNCHANGED linkVars
  <2>1. sent' = sent /\ wire' = wire  BY <1>5 DEF linkVars
  <2> QED  BY <1>2, <2>1 DEF PhaseInv, AllBarless
<1> QED
  BY <1>1, <1>3, <1>4, <1>5 DEF Next, vars

\* The ids of the messages that were accepted.
GotInv == AllBarless => \A j \in DOMAIN got : Known(SentIds, got[j].server_id)

LEMMA GotStep == TypeOK /\ PhaseInv /\ GotInv /\ [Next]_vars => GotInv'
<1> SUFFICES ASSUME TypeOK, PhaseInv, GotInv, [Next]_vars, AllBarless'
             PROVE  \A j \in DOMAIN got' : Known(SentIds', got'[j].server_id)
  BY DEF GotInv
<1>1. ASSUME NEW payload \in Payloads, SendServerMessage(payload)
      PROVE  \A j \in DOMAIN got' : Known(SentIds', got'[j].server_id)
  <2>1. AllBarless /\ SentIds \subseteq SentIds'  BY <1>1, PhaseAfterSend
  <2>2. got' = got  BY <1>1 DEF SendServerMessage
  <2> QED  BY <2>1, <2>2 DEF GotInv, Known
<1>2. ASSUME sent' = sent
      PROVE  AllBarless /\ SentIds' = SentIds
  BY <1>2 DEF AllBarless, SentIds
<1>3. ASSUME NEW n \in 1..Len(wire), Receive(n)
      PROVE  \A j \in DOMAIN got' : Known(SentIds', got'[j].server_id)
  <2> DEFINE data == SubSeq(wire, 1, n)
             m == DeserializeServerMessage(data)
  <2>1. sent' = sent /\ got' = IF m = Rejected THEN got ELSE Append(got, m)
    BY <1>3 DEF Receive
  <2>2. wire \in Text /\ got \in Seq(Message)  BY DEF TypeOK
  <2>3. CutPieces(n) /\ data \in Text  BY <2>2, CutSomewhere
  <2>4. AllBarless /\ SentIds' = SentIds /\ SentIds \in SUBSET Text
    BY <1>2, <2>1, SentIdsType
  <2>5. ASSUME m # Rejected
        PROVE  Known(SentIds, m.server_id)
    <3>1. PICK p \in Nat : Phase(SentIds, Split(wire, Bar), p)
      BY <2>4 DEF PhaseInv, AllBarless
    <3>2. PICK q \in Seq(Text), w \in Seq(Text), r \in Text, x \in Text :
            /\ Split(data, Bar) = Append(q, r)
            /\ Split(wire, Bar) = q \o (<<r \o x>> \o w)
      BY <2>3 DEF CutPieces
    <3> HIDE DEF data
    <3>3. Phase(SentIds, q \o (<<r \o x>> \o w), p)  BY <3>1, <3>2
    <3> QED  BY <2>3, <2>4, <2>5, <3>2, <3>3, AcceptedIsKnown
  <2>6. m = Rejected \/ m \in Message  BY <2>3, DeserializeType
  <2> HIDE DEF m
  <2>7. \A j \in DOMAIN got' : (j \in DOMAIN got /\ got'[j] = got[j])
                               \/ (m # Rejected /\ got'[j] = m)
    BY <2>1, <2>2, <2>6
  <2> QED  BY <2>4, <2>5, <2>7 DEF GotInv
<1>4. CASE got' = got /\ sent' = sent
  BY <1>2, <1>4 DEF GotInv
<1> QED
  BY <1>1, <1>3, <1>4 DEF Next, LinkLost, vars, linkVars

\* However the stream is cut and messages are glued, receiveLoop takes no other text
\* for a server_id than one that was sent, or the empty target when the end of an id
\* that has digits was read as the type.
THEOREM SenderIsKnown == Spec => []SenderNeverForged
<1>1. Init => PhaseInv /\ GotInv
  BY PhaseOfNothing DEF Init, PhaseInv, GotInv
<1>2. GotInv => SenderNeverForged
  BY DEF GotInv, SenderNeverForged, AllBarless, Known, SentIds
<1>3. Spec => [](PhaseInv /\ GotInv)
  BY <1>1, Typed, PhaseStep, GotStep, PTL DEF Spec
<1> QED  BY <1>2, <1>3, PTL

-----------------------------------------------------------------------------
(* What a save that does not come to its end leaves for the next loading.    *)

\* Of line i the whole value, or its beginning, is in the file.
Whole(i) == file[i].text = attempt[Keys[i]]
Begun(i) == \E n \in 0..(Len(attempt[Keys[i]]) - 1) :
              file[i].text = SubSeq(attempt[Keys[i]], 1, n)

\* Since the last save nobody else has written the file: its lines are the first ones
\* of the configuration that was saved, and the others are yet to be written or lost.
SaveInv ==
  /\ unwritten # <<>> => attempt # <<>>
  /\ attempt # <<>> =>
       /\ Sane(attempt)
       /\ Len(file) + Len(unwritten) <= 5
       /\ unwritten # <<>> => Len(file) + Len(unwritten) = 5
       /\ \A i \in 1..Len(file) :
            /\ file[i].key = Keys[i]
            /\ Whole(i) \/ (i = Len(file) /\ unwritten = <<>> /\ Begun(i))
       /\ \A i \in 1..Len(unwritten) :
            unwritten[i] = Line(Keys[Len(file) + i], attempt[Keys[Len(file) + i]])

\* One more line, whole or in part.
LEMMA SaveGrows ==
  ASSUME TypeOK, SaveInv, unwritten # <<>>, attempt' = attempt,
         NEW text \in Text, file' = Append(file, Line(Head(unwritten).key, text)),
         \/ text = Head(unwritten).text /\ unwritten' = Tail(unwritten)
         \/ /\ \E n \in 0..(Len(Head(unwritten).text) - 1) :
                 text = SubSeq(Head(unwritten).text, 1, n)
            /\ unwritten' = <<>>
  PROVE  SaveInv'
<1> DEFINE l == Len(file)
           k == Keys[l + 1]
<1>1. /\ file \in Seq(FileLine) /\ unwritten \in Seq(FileLine)
      /\ Len(unwritten) \in Nat /\ Len(unwritten) > 0 /\ l \in Nat
  BY DEF TypeOK, FileLine, KeySet
<1>2. /\ attempt # <<>> /\ Sane(attempt) /\ l + Len(unwritten) = 5
      /\ \A i \in 1..l : file[i].key = Keys[i] /\ Whole(i)
      /\ \A i \in 1..Len(unwritten) : unwritten[i] = Line(Keys[l + i], attempt[Keys[l + i]])
  BY DEF SaveInv
<1>3. Head(unwritten) = Line(k, attempt[k])
  <2>1. Head(unwritten) = unwritten[1] /\ 1 \in 1..Len(unwritten)  BY <1>1
  <2> QED  BY <1>2, <2>1
<1>4. l + 1 \in 1..5 /\ k \in KeySet
  <2>1. l + 1 \in 1..5  BY <1>1, <1>2
  <2> QED  BY <2>1, KeysAre
<1> DEFINE line == Line(k, text)
<1>5. line \in FileLine /\ line.key = k /\ line.text = text  BY <1>4 DEF Line, FileLine
<1>6. file' = Append(file, line)  BY <1>3 DEF Line
<1> HIDE DEF line, k
<1>7. /\ Len(file') = l + 1 /\ file'[l + 1] = line
      /\ \A i \in 1..l : file'[i] = file[i]
  BY <1>1, <1>5, <1>6, AppendAt
<1>8. \/ text = attempt[k] /\ unwritten' = Tail(unwritten)
      \/ /\ \E n \in 0..(Len(attempt[k]) - 1) : text = SubSeq(attempt[k], 1, n)
         /\ unwritten' = <<>>
  BY <1>3 DEF Line
<1>9. \A i \in 1..Len(file') :
        /\ file'[i].key = Keys[i]
        /\ Whole(i)' \/ (i = Len(file') /\ unwritten' = <<>> /\ Begun(i)')
  <2> SUFFICES ASSUME NEW i \in 1..Len(file')
               PROVE  /\ file'[i].key = Keys[i]
                      /\ Whole(i)' \/ (i = Len(file') /\ unwritten' = <<>> /\ Begun(i)')
    OBVIOUS
  <2>1. CASE i \in 1..l
    BY <1>2, <1>7, <2>1 DEF Whole
  <2>2. CASE i = l + 1
    BY <1>5, <1>7, <1>8, <2>2 DEF Whole, Begun, k
  <2>3. i \in 1..l \/ i = l + 1  BY <1>1, <1>7
  <2> QED  BY <2>1, <2>2, <2>3
<1>10. CASE unwritten' = Tail(unwritten)
  <2>1. Len(unwritten') = Len(unwritten) - 1
        /\ \A i \in 1..(Len(unwritten) - 1) : unwritten'[i] = unwritten[i + 1]
    BY <1>1, <1>10
  <2> DEFINE m == Len(unwritten)
  <2>2. m \in Nat /\ m > 0 /\ Len(unwritten') = m - 1 /\ Len(file') = l + 1 /\ l + m = 5
    BY <1>1, <1>2, <1>7, <2>1
  <2>3. \A i \in 1..Len(unwritten') :
          unwritten'[i] = Line(Keys[Len(file') + i], attempt[Keys[Len(file') + i]])
    <3> SUFFICES ASSUME NEW i \in 1..Len(unwritten')
                 PROVE  unwritten'[i] = Line(Keys[Len(file') + i], attempt[Keys[Len(file') + i]])
      OBVIOUS
    <3>1. i + 1 \in 1..m /\ i \in 1..(m - 1) /\ Len(file') + i = l + (i + 1)
      BY <1>1, <2>2
    <3>2. unwritten'[i] = unwritten[i + 1]  BY <2>1, <3>1
    <3> QED  BY <1>2, <3>1, <3>2
  <2>4. Len(file') + Len(unwritten') = 5  BY <1>1, <2>2
  <2> QED  BY <1>2, <1>9, <2>3, <2>4 DEF SaveInv
<1>11. CASE unwritten' = <<>>
  <2>1. Len(unwritten') = 0  BY <1>11
  <2>2. Len(file') + Len(unwritten') <= 5  BY <1>1, <1>2, <1>7, <2>1
  <2> QED  BY <1>2, <1>9, <1>11, <2>1, <2>2 DEF SaveInv
<1> QED  BY <1>8, <1>10, <1>11

LEMMA SaveStep == TypeOK /\ SaneInv /\ SaveInv /\ [Next]_vars => SaveInv'
<1> SUFFICES ASSUME TypeOK, SaneInv, SaveInv, [Next]_vars
             PROVE  SaveInv'
  OBVIOUS
<1>1. file \in Seq(FileLine) /\ unwritten \in Seq(FileLine)
  BY DEF TypeOK, FileLine, KeySet
<1>2. CASE UNCHANGED <<file, unwritten, attempt>>
  BY <1>2 DEF SaveInv, Whole, Begun
<1>3. CASE SaveConfig
  <2>1. Len(file') = 0 /\ Len(unwritten') = 5
        /\ \A i \in 1..5 : unwritten'[i] = Line(Keys[i], attempt'[Keys[i]])
    BY <1>3, KeysAre DEF SaveConfig
  <2>2. config \in [KeySet -> Text] /\ attempt' = config  BY <1>3 DEF SaveConfig, TypeOK, KeySet
  <2>3. attempt' # <<>>
    <3>1. DOMAIN attempt' # {}  BY <2>2, KeysAre
    <3> QED  BY <3>1
  <2>4. Sane(attempt')  BY <2>2 DEF SaneInv
  <2>5. \A i \in 1..5 : Len(file') + i = i  BY <2>1
  <2> QED  BY <2>1, <2>3, <2>4, <2>5 DEF SaveInv
<1>4. CASE WriteLine
  <2> DEFINE l == Head(unwritten)
  <2>1. l \in FileLine /\ unwritten # <<>>  BY <1>1, <1>4 DEF WriteLine
  <2>2. l.text \in Text /\ l = Line(l.key, l.text)  BY <2>1 DEF FileLine, Line
  <2>3. file' = Append(file, l) /\ unwritten' = Tail(unwritten) /\ attempt' = attempt
    BY <1>4 DEF WriteLine
  <2>4. file' = Append(file, Line(l.key, l.text))  BY <2>2, <2>3
  <2> QED  BY <2>1, <2>2, <2>3, <2>4, SaveGrows
<1>5. CASE WriteFails
  <2> DEFINE l == Head(unwritten)
  <2>1. l \in FileLine /\ unwritten # <<>> /\ unwritten' = <<>> /\ attempt' = attempt
    BY <1>1, <1>5 DEF WriteFails
  <2>2. CASE file' = file
    <3>1. Len(unwritten') = 0 /\ Len(file) \in Nat /\ Len(unwritten) \in Nat  BY <1>1, <2>1
    <3>2. Len(file') + Len(unwritten') <= 5  BY <2>1, <2>2, <3>1 DEF SaveInv
    <3> QED  BY <2>1, <2>2, <3>1, <3>2 DEF SaveInv, Whole, Begun
  <2>3. ASSUME NEW n \in 0..(Len(l.text) - 1),
               file' = Append(file, Line(l.key, SubSeq(l.text, 1, n)))
        PROVE  SaveInv'
    <3>1. l.text \in Text  BY <2>1 DEF FileLine
    <3> DEFINE text == SubSeq(l.text, 1, n)
    <3>2. text \in Text
      <4> DEFINE t == l.text
      <4>1. t \in Text /\ n \in 0..(Len(t) - 1)  BY <3>1
      <4> HIDE DEF t
      <4>2. SubSeq(t, 1, n) \in Text  BY <4>1 DEF Text
      <4> QED  BY <4>2 DEF t
    <3>3. \E k \in 0..(Len(l.text) - 1) : text = SubSeq(l.text, 1, k)  OBVIOUS
    <3>4. file' = Append(file, Line(l.key, text))  BY <2>3
    <3> HIDE DEF text
    <3> QED  BY <2>1, <3>2, <3>3, <3>4, SaveGrows
  <2> QED  BY <1>5, <2>2, <2>3 DEF WriteFails
<1>6. ASSUME NEW lines \in AdminFiles, EditFile(lines)
      PROVE  SaveInv'
  <2>1. attempt' = <<>> /\ unwritten' = <<>>  BY <1>6 DEF EditFile
  <2> QED  BY <2>1 DEF SaveInv
<1>7. CASE ProcessEnds
  <2>1. unwritten' = <<>> /\ file' = file /\ attempt' = attempt  BY <1>7 DEF ProcessEnds
  <2>2. Len(unwritten') = 0 /\ Len(file) \in Nat /\ Len(unwritten) \in Nat  BY <1>1, <2>1
  <2>3. attempt # <<>> => Len(file') + Len(unwritten') <= 5  BY <2>1, <2>2 DEF SaveInv
  <2> QED  BY <2>1, <2>2, <2>3 DEF SaveInv, Whole, Begun
<1> QED
  BY <1>2, <1>3, <1>4, <1>5, <1>6, <1>7
  DEF Next, ConfigStep, Construct, LoadConfig, Set, AddKnownServer, RemoveKnownServer,
      SendServerMessage, Receive, LinkLost, configVars, vars

\* What is storable is read as it was.
LEMMA StorableIsParsed ==
  ASSUME attempt \in [KeySet -> Text], Sane(attempt), Storable(attempt), NEW k \in KeySet
  PROVE  Parsed(Line(k, attempt[k])) = attempt[k]
<1>1. Trim(attempt[k]) = attempt[k] /\ (k = "port" => Number(attempt[k]) = attempt[k])
  BY DEF Storable, KeySet, Sane, IsInteger
<1>2. k = "enable_user_sync" => attempt[k] \in {True, False}  BY DEF Sane
<1> QED  BY <1>1, <1>2 DEF Parsed, Line, IsNumber, IsFlag

\* A line that was written whole does not make std::stoi throw, and of a port that is not
\* negative no part of a line does.
LEMMA SavedNumbers ==
  ASSUME TypeOK, SaveInv, attempt # <<>>, NEW i \in 1..Len(file),
         file[i].text # <<>>, IsNumber(file[i].key),
         Whole(i) \/ attempt["port"] \in Numerals
  PROVE  Parsed(file[i]) # <<>>
<1>1. file \in Seq(FileLine) /\ attempt \in [KeySet -> Text]
  BY DEF TypeOK, FileLine, KeySet
<1>2. file[i].key = "port" /\ (Whole(i) \/ Begun(i)) /\ Keys[i] = "port"
  BY DEF SaveInv, IsNumber
<1> DEFINE p == attempt["port"]
           t == file[i].text
<1>3. IsInteger(p)  BY DEF SaveInv, Sane
<1>4. t = p \/ \E n \in 0..(Len(p) - 1) : t = SubSeq(p, 1, n)
  BY <1>2 DEF Whole, Begun
<1>5. t = p \/ p \in Numerals  BY <1>2 DEF Whole
<1>6. t # <<>>  OBVIOUS
<1> HIDE DEF p, t
<1>7. Number(t) = t
  <2>1. CASE t = p  BY <1>3, <2>1 DEF IsInteger
  <2>2. CASE p \in Numerals
    <3>1. p \in Seq(Digits)  BY <2>2 DEF Numerals
    <3>2. \A n \in 0..(Len(p) - 1) : SubSeq(p, 1, n) \in Seq(Digits)  BY <3>1
    <3>3. t \in Seq(Digits)  BY <1>4, <3>1, <3>2
    <3> QED  BY <3>3, NumberOfNumeral
  <2> QED  BY <1>5, <2>1, <2>2
<1> QED  BY <1>2, <1>6, <1>7 DEF Parsed, IsNumber, t

\* What loading into c makes of key i.
LEMMA LoadedAt ==
  ASSUME TypeOK, SaveInv, attempt # <<>>, Storable(attempt), NEW c \in [KeySet -> Text],
         NEW i \in DOMAIN Keys
  PROVE  LET k == Keys[i]
         IN Read(file, c).config[k] \in
              IF i > Len(file) \/ attempt[k] = <<>> THEN {c[k]}
              ELSE IF i < Len(file) \/ file[i].text = attempt[k] THEN {attempt[k]}
              ELSE {c[k]} \cup Cuts(k, attempt[k])
<1> DEFINE k == Keys[i]
           value == Read(file, c).config[k]
           Gives(j) == /\ file[j].key = k /\ file[j].text # <<>>
                       /\ IsNumber(k) => Parsed(file[j]) # <<>>
<1>1. file \in Seq(FileLine) /\ attempt \in [KeySet -> Text] /\ Len(file) \in Nat
      /\ \A j \in 1..Len(file) : file[j] \in FileLine
  <2>1. file \in Seq(FileLine) /\ attempt \in [KeySet -> Text]
    BY DEF TypeOK, FileLine, KeySet
  <2> QED  BY <2>1
<1>2. i \in 1..5 /\ k \in KeySet /\ attempt[k] \in Text  BY <1>1, KeysAre
<1>3. Sane(attempt) /\ Len(file) <= 5
  <2>1. Len(unwritten) \in Nat  BY DEF TypeOK
  <2> QED  BY <1>1, <2>1 DEF SaveInv
<1>4. \A j \in 1..Len(file) : file[j].key = k <=> j = i
  <2> SUFFICES ASSUME NEW j \in 1..Len(file)
               PROVE  file[j].key = k <=> j = i
    OBVIOUS
  <2>1. j \in 1..5 /\ file[j].key = Keys[j]  BY <1>1, <1>3 DEF SaveInv
  <2> QED  BY <1>2, <2>1, KeysAre
<1>5. value = c[k] \/ \E j \in 1..Len(file) : Gives(j) /\ value = Parsed(file[j])
  BY <1>1, <1>2, ReadAt
<1>6. value = c[k] \/ (i \in 1..Len(file) /\ file[i].text # <<>> /\ value = Parsed(file[i]))
  BY <1>4, <1>5
<1>7. ASSUME i \in 1..Len(file)
      PROVE  /\ Whole(i) \/ (i = Len(file) /\ Begun(i))
             /\ file[i] = Line(k, file[i].text)
  <2>1. file[i].key = k /\ file[i] \in FileLine  BY <1>1, <1>4, <1>7
  <2> QED  BY <1>7, <2>1 DEF SaveInv, FileLine, Line
<1> HIDE DEF value, k
<1>8. CASE i > Len(file) \/ attempt[k] = <<>>
  <2>1. value = c[k]
    <3>1. CASE i > Len(file)  BY <1>1, <1>2, <1>6, <3>1
    <3>2. CASE attempt[k] = <<>>
      <4>1. ASSUME i \in 1..Len(file)
            PROVE  file[i].text = <<>>
        <5>1. ~Begun(i)
          <6>1. Len(attempt[Keys[i]]) = 0  BY <3>2 DEF k
          <6> QED  BY <6>1 DEF Begun
        <5> QED  BY <1>7, <3>2, <4>1, <5>1 DEF Whole, k
      <4> QED  BY <1>6, <4>1
    <3> QED  BY <1>8, <3>1, <3>2
  <2> QED  BY <1>8, <2>1 DEF value, k
<1>9. CASE /\ ~(i > Len(file) \/ attempt[k] = <<>>)
           /\ i < Len(file) \/ file[i].text = attempt[k]
  <2>1. i \in 1..Len(file)  BY <1>1, <1>2, <1>9
  <2>2. file[i].text = attempt[k] /\ file[i].text # <<>> /\ file[i] = Line(k, attempt[k])
    <3>1. file[i].text = attempt[k]  BY <1>1, <1>2, <1>7, <1>9, <2>1 DEF Whole, k
    <3> QED  BY <1>7, <1>9, <2>1, <3>1
  <2>3. Parsed(file[i]) = attempt[k]  BY <1>1, <1>2, <1>3, <2>2, StorableIsParsed
  <2>4. \A j \in 1..i : file[j].text # <<>> /\ IsNumber(file[j].key) => Parsed(file[j]) # <<>>
    <3> SUFFICES ASSUME NEW j \in 1..i, file[j].text # <<>>, IsNumber(file[j].key)
                 PROVE  Parsed(file[j]) # <<>>
      OBVIOUS
    <3>1. j \in 1..Len(file) /\ (j = i \/ j < Len(file))  BY <1>1, <2>1
    <3>2. Whole(j)
      <4>1. CASE j = i  BY <1>2, <2>2, <4>1 DEF Whole, k
      <4>2. CASE j < Len(file)  BY <1>1, <3>1, <4>2 DEF SaveInv
      <4> QED  BY <3>1, <4>1, <4>2
    <3> QED  BY <3>1, <3>2, SavedNumbers
  <2>5. Gives(i) /\ \A j \in 1..Len(file) : file[j].key = k => j = i
    BY <1>4, <1>9, <2>1, <2>2, <2>3
  <2>6. value = Parsed(file[i])
    BY <1>1, <1>2, <2>1, <2>4, <2>5, ReadAt DEF value
  <2> QED  BY <1>9, <2>3, <2>6 DEF value, k
<1>10. CASE /\ ~(i > Len(file) \/ attempt[k] = <<>>)
            /\ ~(i < Len(file) \/ file[i].text = attempt[k])
  <2>1. i \in 1..Len(file)  BY <1>1, <1>2, <1>10
  <2>2. ~Whole(i)  BY <1>10 DEF Whole, k
  <2>3. PICK n \in 0..(Len(attempt[k]) - 1) : file[i].text = SubSeq(attempt[k], 1, n)
    BY <1>7, <2>1, <2>2 DEF Begun, k
  <2>4. n \in 0..Len(attempt[k]) /\ attempt[k] \in Seq(Chars)
    <3>1. Len(attempt[k]) \in Nat  BY <1>2 DEF Text
    <3> QED  BY <1>2, <3>1 DEF Text
  <2>5. value = c[k] \/ Parsed(file[i]) \in Cuts(k, attempt[k])
    <3>1. CASE n = 0
      <4>1. file[i].text = <<>>  BY <2>3, <2>4, <3>1
      <4> QED  BY <1>6, <4>1
    <3>2. CASE n # 0
      <4>1. n \in 1..Len(attempt[k])  BY <2>4, <3>2
      <4> QED  BY <1>7, <2>1, <2>3, <4>1 DEF Cuts
    <3> QED  BY <3>1, <3>2
  <2>6. value \in {c[k]} \cup Cuts(k, attempt[k])  BY <1>6, <2>5
  <2> QED  BY <1>10, <2>6 DEF value, k
<1> QED  BY <1>8, <1>9, <1>10

LEMMA SaveInvariance == Spec => [](TypeOK /\ SaveInv)
<1>1. Init => SaveInv  BY DEF Init, ConfigInit, SaveInv
<1> QED  BY <1>1, Typed, SaveStep, PTL DEF Spec

\* However saveConfig ended, the file it left can be loaded, unless the port it saved was
\* negative.
THEOREM SavedFilesLoad == Spec => []StartsAfterSave
<1>1. ASSUME TypeOK, SaveInv, attempt # <<>>, attempt["port"] \in Numerals
      PROVE  ~Read(file, config).throws
  <2>1. \A i \in DOMAIN file : i \in 1..Len(file)  BY DEF TypeOK
  <2>2. \A i \in DOMAIN file :
          file[i].text # <<>> /\ IsNumber(file[i].key) => Parsed(file[i]) # <<>>
    BY <1>1, <2>1, SavedNumbers
  <2> QED  BY <2>2 DEF Read
<1>2. TypeOK /\ SaveInv => StartsAfterSave  BY <1>1 DEF StartsAfterSave
<1> QED  BY <1>2, SaveInvariance, PTL

\* However far saveConfig got, the next loading gives every key whose line was written
\* its value and keeps the others.
THEOREM LoadingRestores == Spec => LoadRestores
<1> DEFINE Restored(i) ==
             LET k == Keys[i]
                 old == IF proc = "up" THEN {config[k]} ELSE {Default(id)[k] : id \in RandomIds}
             IN config'[k] \in
                  IF i > Len(file) \/ attempt[k] = <<>> THEN old
                  ELSE IF i < Len(file) \/ file[i].text = attempt[k] THEN {attempt[k]}
                  ELSE old \cup Cuts(k, attempt[k])
<1>1. ASSUME TypeOK, SaveInv, Loading, attempt # <<>>, Storable(attempt), NEW i \in DOMAIN Keys
      PROVE  Restored(i)
  <2>1. CASE LoadConfig
    <3>1. config \in [KeySet -> Text]  BY <1>1 DEF TypeOK, KeySet
    <3>2. proc = "up" /\ config' = Read(file, config).config  BY <2>1 DEF LoadConfig, Idle
    <3> QED  BY <1>1, <3>1, <3>2, LoadedAt
  <2>2. ASSUME NEW id \in RandomIds, Construct(id)
        PROVE  Restored(i)
    <3>1. Default(id) \in [KeySet -> Text]
      BY ConfigurationAssumption, DefaultType DEF Text
    <3>2. proc # "up" /\ config' = Read(file, Default(id)).config  BY <2>2 DEF Construct
    <3> DEFINE c == Default(id)
    <3>3. c[Keys[i]] \in {Default(d)[Keys[i]] : d \in RandomIds}  OBVIOUS
    <3> HIDE DEF c
    <3> QED  BY <1>1, <3>1, <3>2, <3>3, LoadedAt DEF c
  <2> QED  BY <1>1, <2>1, <2>2 DEF Loading
<1>2. TypeOK /\ SaveInv /\ [Next]_vars =>
        [Loading /\ attempt # <<>> /\ Storable(attempt) => \A i \in DOMAIN Keys : Restored(i)]_vars
  <2> HIDE DEF Restored
  <2> QED  BY <1>1
<1>3. [][Loading /\ attempt # <<>> /\ Storable(attempt) =>
            \A i \in DOMAIN Keys : Restored(i)]_vars => LoadRestores
  BY DEF LoadRestores
<1> HIDE DEF Restored
<1> QED  BY <1>2, <1>3, SaveInvariance, PTL DEF Spec
=============================================================================
