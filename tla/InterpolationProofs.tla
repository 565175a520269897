------------------------- MODULE InterpolationProofs -------------------------
(***************************************************************************)
(* Proofs about the interpolation of a text, for texts of any length and   *)
(* any variables.                                                          *)
(***************************************************************************)
EXTENDS Interpolation, SequenceTheorems, FiniteSetTheorems, TLAPS

-----------------------------------------------------------------------------
(* Texts.                                                                  *)

\* What was written before stays where it is.
LEMMA PieceStays ==
  ASSUME NEW s \in Text, NEW t \in Text, NEW a \in Nat, NEW b \in Nat, b <= Len(s)
  PROVE  SubSeq(s \o t, a + 1, b) = SubSeq(s, a + 1, b)
<1>1. s \o t \in Text /\ Len(s \o t) = Len(s) + Len(t)
  BY DEF Text
<1>2. \A i \in 1..Len(s) : (s \o t)[i] = s[i]
  BY DEF Text
<1>3. CASE a + 1 <= b
  <2>1. /\ SubSeq(s \o t, a + 1, b) \in Seq(Char)
        /\ Len(SubSeq(s \o t, a + 1, b)) = b - a
        /\ \A i \in 1..(b - a) : SubSeq(s \o t, a + 1, b)[i] = (s \o t)[a + i]
    BY <1>1, <1>3 DEF Text
  <2>2. /\ SubSeq(s, a + 1, b) \in Seq(Char)
        /\ Len(SubSeq(s, a + 1, b)) = b - a
        /\ \A i \in 1..(b - a) : SubSeq(s, a + 1, b)[i] = s[a + i]
    BY <1>3 DEF Text
  <2> QED
    BY <2>1, <2>2, <1>2, <1>3, SeqEqual
<1>4. CASE ~ (a + 1 <= b)
  <2>1. SubSeq(s \o t, a + 1, b) = << >> /\ SubSeq(s, a + 1, b) = << >>
    BY <1>1, <1>4, SubSeqEmpty DEF Text
  <2> QED
    BY <2>1
<1> QED
  BY <1>3, <1>4

\* What is written is the end of the buffer.
LEMMA PieceWritten ==
  ASSUME NEW s \in Text, NEW t \in Text
  PROVE  SubSeq(s \o t, Len(s) + 1, Len(s \o t)) = t
<1>1. s \o t \in Text /\ Len(s \o t) = Len(s) + Len(t) /\ Len(s) \in Nat /\ Len(t) \in Nat
  BY DEF Text
<1>2. \A i \in 1..Len(t) : (s \o t)[Len(s) + i] = t[i]
  BY DEF Text
<1> DEFINE u == SubSeq(s \o t, Len(s) + 1, Len(s) + Len(t))
<1>3. \A i \in (Len(s) + 1)..(Len(s) + Len(t)) : (s \o t)[i] \in Char
  BY <1>1 DEF Text
<1>4. /\ u \in Seq(Char)
      /\ Len(u) = Len(t)
      /\ \A i \in 1..Len(t) : u[i] = (s \o t)[Len(s) + i]
  <2>1. /\ u \in Seq(Char)
        /\ Len(u) = IF Len(s) + 1 <= Len(s) + Len(t) THEN Len(s) + Len(t) - (Len(s) + 1) + 1 ELSE 0
        /\ \A i \in 1..(Len(s) + Len(t) - (Len(s) + 1) + 1) : u[i] = (s \o t)[Len(s) + 1 + i - 1]
    BY <1>1, <1>3, SubSeqProperties
  <2> QED
    BY <2>1, <1>1
<1> HIDE DEF u
<1>5. u = t
  BY <1>2, <1>4, SeqEqual DEF Text
<1> QED
  BY <1>1, <1>5 DEF u

\* A name grows by the character read.
LEMMA NameGrows ==
  ASSUME NEW s \in Text, NEW i \in Nat, NEW p \in Nat, 1 <= i, i <= p, p <= Len(s)
  PROVE  Append(SubSeq(s, i, p - 1), s[p]) = SubSeq(s, i, p)
<1>1. SubSeq(s, i, p) = SubSeq(s, i, p - 1) \o <<s[p]>>
  BY SubSeqRecursiveSecond DEF Text
<1>2. \A k \in i..(p - 1) : s[k] \in Char
  BY DEF Text
<1>3. SubSeq(s, i, p - 1) \in Seq(Char) /\ s[p] \in Char
  BY <1>2, SubSeqProperties DEF Text
<1>4. Append(SubSeq(s, i, p - 1), s[p]) = SubSeq(s, i, p - 1) \o <<s[p]>>
  BY <1>3
<1> QED
  BY <1>1, <1>4

\* A part of a text is a text, and empty only if it has no characters.
LEMMA PartOfText ==
  ASSUME NEW s \in Text, NEW i \in Nat, NEW j \in Nat, 1 <= i, j <= Len(s) + 1
  PROVE  SubSeq(s, i, j - 1) \in Text /\ (SubSeq(s, i, j - 1) = << >> <=> j <= i)
<1>1. \A k \in i..(j - 1) : s[k] \in Char
  BY DEF Text
<1>2. /\ SubSeq(s, i, j - 1) \in Seq(Char)
      /\ Len(SubSeq(s, i, j - 1)) = IF i <= j - 1 THEN j - 1 - i + 1 ELSE 0
  BY <1>1, SubSeqProperties
<1> QED
  BY <1>2, EmptySeq DEF Text

\* The value of a variable is a text.
LEMMA ValueIsText ==
  ASSUME NEW v
  PROVE  mapping(v) \in Text
  BY InterpolationAssumption DEF mapping, Text

-----------------------------------------------------------------------------
(* The inductive invariant.                                                *)

\* A text before its scan.
LEMMA InitScanInv == Init => ScanInv
<1> SUFFICES ASSUME Init PROVE ScanInv
  OBVIOUS
<1>1. line \in Text /\ Len(line) \in Nat
  <2>1. PICK n \in 0..MaxText : line \in [1..n -> Char]
    BY DEF Init
  <2> QED
    BY <2>1, InterpolationAssumption DEF Text
<1>2. marks \in Seq(Mark) /\ Len(marks) = 1 /\ marks[1] = [to |-> 0, at |-> 0] /\ marks # << >>
  BY DEF Init, Mark
<1>3. TypeOK
  BY <1>1, <1>2 DEF Init, TypeOK, Text
<1>4. Done = [to |-> 0, at |-> 0] /\ Done.to = 0 /\ Done.at = 0
  BY <1>2 DEF Done
<1>5. Len(buffer) = 0 /\ pos = 1 /\ fn = "parseLine" /\ result = "none"
  BY DEF Init
<1>6. MarksInBuffer
  BY <1>2, <1>5 DEF MarksInBuffer
<1>7. Place
  BY <1>1, <1>4, <1>5 DEF Place, PlaceAt
<1>8. Expansion
  BY <1>2, <1>4, <1>5 DEF Expansion
<1>9. Refusal
  BY <1>5 DEF Refusal
<1> QED
  BY <1>3, <1>6, <1>7, <1>8, <1>9 DEF ScanInv

\* What a part of the line means does not change.
LEMMA MeaningStays ==
  ASSUME line' = line, NEW i, NEW j, NEW t, Means(i, j, t)
  PROVE  Means(i, j, t)'
  BY DEF Means, IsLiteral, IsEscape, IsBraced, IsPlain, IsName

\* A mark more.
LEMMA MarkAppended ==
  ASSUME NEW q \in Seq(Mark), NEW m \in Mark
  PROVE  /\ Append(q, m) \in Seq(Mark) /\ Len(Append(q, m)) = Len(q) + 1 /\ Append(q, m) # << >>
         /\ \A k \in 1..Len(q) : Append(q, m)[k] = q[k]
         /\ Append(q, m)[Len(q) + 1] = m
  OBVIOUS

\* A write of what the next token means, behind which parseLine() goes on.
LEMMA WriteKeepsInv ==
  ASSUME ScanInv, result = "none", NEW text \in Text, NEW to \in Nat, Write(text, to),
         NEW d \in Nat, d = Done.to, Means(d + 1, to, text), to <= Len(line),
         pos' = to + 1 \/ (pos' = to + 2 /\ to = Len(line))
  PROVE  ScanInv'
<1> DEFINE m == [to |-> to, at |-> Len(buffer \o text)]
<1>0. /\ line \in Text /\ Len(line) \in Nat /\ buffer \in Text /\ marks \in Seq(Mark)
      /\ Len(marks) \in Nat \ {0} /\ marks # << >> /\ value \in Text
  BY EmptySeq DEF ScanInv, TypeOK, Text
<1>1. line' = line /\ buffer' = buffer \o text /\ marks' = Append(marks, m) /\ fn' = "parseLine"
      /\ name' = <<>> /\ result' = "none" /\ value' = value
  BY DEF Write
<1>2. buffer \o text \in Text /\ Len(buffer \o text) = Len(buffer) + Len(text)
      /\ Len(buffer) \in Nat /\ Len(text) \in Nat
  BY <1>0 DEF Text
<1>3. m \in Mark /\ m.to = to /\ m.at = Len(buffer) + Len(text)
  BY <1>2 DEF Mark
<1> HIDE DEF m
<1>4. /\ marks' \in Seq(Mark) /\ Len(marks') = Len(marks) + 1 /\ marks' # << >>
      /\ \A k \in 1..Len(marks) : marks'[k] = marks[k]
      /\ marks'[Len(marks) + 1] = m
  BY <1>0, <1>1, <1>3, MarkAppended
<1>5. TypeOK'
  BY <1>0, <1>1, <1>2, <1>4 DEF TypeOK, Text
<1>6. Done' = m
  BY <1>4 DEF Done
<1>7. \A k \in 1..Len(marks) : marks[k].at \in Nat /\ marks[k].at <= Len(buffer)
  <2>1. ASSUME NEW k \in 1..Len(marks) PROVE marks[k] \in Mark /\ k \in DOMAIN marks
    BY <1>0
  <2>2. ASSUME NEW k \in 1..Len(marks) PROVE marks[k].at <= Len(buffer)
    BY <2>1 DEF ScanInv, MarksInBuffer
  <2>3. ASSUME NEW n \in Mark PROVE n.at \in Nat
    BY DEF Mark
  <2> QED
    BY <2>1, <2>2, <2>3
<1>8. MarksInBuffer'
  <2>1. SUFFICES ASSUME NEW k \in 1..(Len(marks) + 1)
                 PROVE  marks'[k].at <= Len(buffer')
    BY <1>4 DEF MarksInBuffer
  <2>2. CASE k = Len(marks) + 1
    BY <2>2, <1>1, <1>2, <1>3, <1>4
  <2>3. CASE k \in 1..Len(marks)
    BY <2>3, <1>1, <1>2, <1>4, <1>7
  <2> QED
    BY <2>2, <2>3, <1>0
<1>9. Place'
  BY <1>0, <1>1, <1>3, <1>6 DEF Place, PlaceAt
<1>10. Done.at = Len(buffer) /\ marks[1] = [to |-> 0, at |-> 0]
  BY DEF ScanInv, Expansion
<1>11. ASSUME NEW k \in 2..(Len(marks) + 1)
       PROVE  Means(marks[k - 1].to + 1, Append(marks, m)[k].to,
                    SubSeq(buffer \o text, marks[k - 1].at + 1, Append(marks, m)[k].at))
  <2>1. CASE k = Len(marks) + 1
    <3>1. marks[k - 1] = Done /\ Append(marks, m)[k] = m
      BY <2>1, <1>0, <1>1, <1>4 DEF Done
    <3>2. SubSeq(buffer \o text, Done.at + 1, m.at) = text
      BY <1>0, <1>2, <1>3, <1>10, PieceWritten
    <3> QED
      BY <3>1, <3>2, <1>3
  <2>2. CASE k \in 2..Len(marks)
    <3>1. Append(marks, m)[k] = marks[k] /\ k - 1 \in 1..Len(marks) /\ k \in 1..Len(marks)
      BY <2>2, <1>0, <1>1, <1>4
    <3>2. SubSeq(buffer \o text, marks[k - 1].at + 1, marks[k].at)
             = SubSeq(buffer, marks[k - 1].at + 1, marks[k].at)
      <4>1. /\ marks[k - 1].at \in Nat /\ marks[k].at \in Nat /\ marks[k].at <= Len(buffer)
        BY <3>1, <1>7
      <4>2. PICK x \in Nat, y \in Nat : x = marks[k - 1].at /\ y = marks[k].at
        BY <4>1
      <4>3. SubSeq(buffer \o text, x + 1, y) = SubSeq(buffer, x + 1, y)
        <5>1. y <= Len(buffer) /\ buffer \in Text
          BY <4>1, <4>2, <1>0
        <5> QED
          BY <5>1, PieceStays
      <4> QED
        BY <4>2, <4>3
    <3>3. Means(marks[k - 1].to + 1, marks[k].to, SubSeq(buffer, marks[k - 1].at + 1, marks[k].at))
      BY <2>2 DEF ScanInv, Expansion
    <3> QED
      BY <3>1, <3>2, <3>3
  <2> QED
    BY <2>1, <2>2, <1>0
<1>12. Expansion'
  <2>1. ASSUME NEW k \in 2..(Len(marks) + 1)
        PROVE  Means(marks[k - 1].to + 1, marks[k].to, SubSeq(buffer, marks[k - 1].at + 1, marks[k].at))'
    <3>1. /\ k - 1 \in 1..Len(marks) /\ marks'[k - 1] = marks[k - 1]
          /\ marks'[k] = Append(marks, m)[k]
      BY <1>0, <1>1, <1>4
    <3>2. PICK i, j, t : /\ i = marks[k - 1].to + 1 /\ j = Append(marks, m)[k].to
                         /\ t = SubSeq(buffer \o text, marks[k - 1].at + 1, Append(marks, m)[k].at)
      OBVIOUS
    <3>3. Means(i, j, t)'
      BY <1>1, <1>11, <3>2, MeaningStays
    <3>4. /\ marks'[k - 1].to + 1 = i /\ marks'[k].to = j
          /\ SubSeq(buffer', marks'[k - 1].at + 1, marks'[k].at) = t
      BY <3>1, <3>2, <1>1
    <3> QED
      BY <3>3, <3>4
  <2>2. marks'[1] = [to |-> 0, at |-> 0] /\ Done'.at = Len(buffer') /\ Len(marks') = Len(marks) + 1
    BY <1>0, <1>1, <1>2, <1>3, <1>4, <1>6, <1>10
  <2> QED
    BY <2>1, <2>2, <1>1 DEF Expansion
<1>13. Refusal'
  BY <1>1 DEF Refusal
<1> QED
  BY <1>5, <1>8, <1>9, <1>12, <1>13 DEF ScanInv

\* Facts that hold at every step.
LEMMA Basics ==
  ASSUME ScanInv
  PROVE  \E d \in Nat : /\ d = Done.to /\ PlaceAt(d)
                        /\ line \in Text /\ Len(line) \in Nat
                        /\ pos \in Nat /\ name \in Text /\ value \in Text /\ buffer \in Text
<1>1. line \in Text /\ pos \in Nat /\ name \in Text /\ value \in Text /\ buffer \in Text
      /\ marks \in Seq(Mark) /\ Len(marks) \in Nat \ {0}
  BY EmptySeq DEF ScanInv, TypeOK
<1>2. Done \in Mark
  BY <1>1 DEF Done
<1>3. Done.to \in Nat
  BY <1>2 DEF Mark
<1>4. Len(line) \in Nat
  BY <1>1 DEF Text
<1> QED
  BY <1>1, <1>3, <1>4 DEF ScanInv, Place

\* What has been read and written means the same after a step that writes nothing.
LEMMA ExpansionStays ==
  ASSUME Expansion, UNCHANGED <<line, buffer, marks>>, result' = "ok" => Done.to = Len(line)
  PROVE  Expansion'
<1>1. ASSUME NEW k \in 2..Len(marks)
      PROVE  Means(marks[k - 1].to + 1, marks[k].to, SubSeq(buffer, marks[k - 1].at + 1, marks[k].at))'
  <2>1. PICK i, j, t : /\ i = marks[k - 1].to + 1 /\ j = marks[k].to
                       /\ t = SubSeq(buffer, marks[k - 1].at + 1, marks[k].at)
    OBVIOUS
  <2>2. Means(i, j, t)
    BY <2>1 DEF Expansion
  <2>3. Means(i, j, t)'
    BY <2>2, MeaningStays
  <2> QED
    BY <2>1, <2>3
<1>2. Done' = Done
  BY DEF Done
<1> QED
  BY <1>1, <1>2 DEF Expansion

\* A step that moves to another function and writes nothing.
LEMMA MoveKeepsInv ==
  ASSUME ScanInv, result = "none",
         UNCHANGED <<line, buffer, marks, result, value>>,
         fn' \in {"parseLine", "parseInterpolationExpression", "parseVariable",
                  "parseVariableWithBraces"},
         pos' \in Nat, name' \in Text, NEW d \in Nat, d = Done.to, PlaceAt(d)'
  PROVE  ScanInv'
<1>1. TypeOK'
  BY DEF ScanInv, TypeOK
<1>2. MarksInBuffer'
  BY DEF ScanInv, MarksInBuffer
<1>3. Expansion'
  BY ExpansionStays DEF ScanInv
<1>4. Refusal'
  BY DEF Refusal
<1>5. Place'
  <2>1. Done' = Done
    BY DEF Done
  <2> QED
    BY <2>1 DEF Place
<1> QED
  BY <1>1, <1>2, <1>3, <1>4, <1>5 DEF ScanInv

\* The end of the scan.
LEMMA EndKeepsInv ==
  ASSUME ScanInv, NEW res \in {"ok", "invalid", "panic"}, End(res), value' \in Text,
         NEW d \in Nat, d = Done.to,
         res = "ok" => d = Len(line),
         res # "ok" => /\ d + 1 <= Len(line) /\ line[d + 1] = "$"
                       /\ \A j \in (d + 1)..Len(line) : ~ IsToken(d + 1, j),
         res = "panic" => d + 1 = Len(line),
         res = "invalid" => d + 1 < Len(line)
  PROVE  ScanInv'
<1>0. result' = res /\ UNCHANGED <<line, pos, fn, name, buffer, marks>>
  BY DEF End
<1>1. TypeOK'
  BY <1>0 DEF ScanInv, TypeOK
<1>2. MarksInBuffer'
  BY <1>0 DEF ScanInv, MarksInBuffer
<1>3. Expansion'
  BY <1>0, ExpansionStays DEF ScanInv
<1>4. Done' = Done
  BY <1>0 DEF Done
<1>5. PlaceAt(d)'
  BY <1>0 DEF ScanInv, Place, PlaceAt, NamesFrom
<1>6. \A j \in (d + 1)..Len(line) : ~ IsToken(d + 1, j) => ~ IsToken(d + 1, j)'
  BY <1>0 DEF IsToken, IsLiteral, IsEscape, IsBraced, IsPlain, IsName
<1>7. Refusal'
  BY <1>0, <1>4, <1>6 DEF Refusal
<1> QED
  BY <1>1, <1>2, <1>3, <1>4, <1>5, <1>7 DEF ScanInv, Place

\* parseLine(), a character that stands for itself.
LEMMA LiteralKeepsInv == ASSUME ScanInv, Literal PROVE ScanInv'
<1>0. PICK d \in Nat : /\ d = Done.to /\ PlaceAt(d)
                       /\ line \in Text /\ Len(line) \in Nat
                       /\ pos \in Nat /\ name \in Text /\ value \in Text /\ buffer \in Text
  BY Basics
<1>1. result = "none" /\ fn = "parseLine" /\ pos <= Len(line) /\ line[pos] # "$"
      /\ Write(<<line[pos]>>, pos) /\ pos' = pos + 1
  BY DEF Literal, At
<1>2. pos = d + 1
  BY <1>1, <1>0 DEF PlaceAt
<1>3. <<line[pos]>> \in Text
  BY <1>1, <1>2, <1>0 DEF Text
<1>4. Means(d + 1, pos, <<line[pos]>>)
  BY <1>1, <1>2 DEF Means, IsLiteral
<1> QED
  BY <1>1, <1>3, <1>4, <1>0, WriteKeepsInv

\* parseLine(), a "$".
LEMMA DollarKeepsInv == ASSUME ScanInv, Dollar PROVE ScanInv'
<1>0. PICK d \in Nat : /\ d = Done.to /\ PlaceAt(d)
                       /\ line \in Text /\ Len(line) \in Nat
                       /\ pos \in Nat /\ name \in Text /\ value \in Text /\ buffer \in Text
  BY Basics
<1>1. result = "none" /\ fn = "parseLine" /\ pos <= Len(line) /\ line[pos] = "$"
      /\ fn' = "parseInterpolationExpression" /\ name' = <<>> /\ pos' = pos + 1
      /\ UNCHANGED <<line, buffer, marks, result, value>>
  BY DEF Dollar, At, Read
<1>2. pos = d + 1
  BY <1>1, <1>0 DEF PlaceAt
<1>3. PlaceAt(d)'
  BY <1>1, <1>2, <1>0 DEF PlaceAt
<1> QED
  BY <1>1, <1>3, <1>0, MoveKeepsInv DEF Text

\* A number written without leading zeros is a text.
LEMMA DecimalIsText ==
  ASSUME NEW t \in Text
  PROVE  Decimal(t) \in Text
<1> DEFINE zeros == {n \in 1..(Len(t) - 1) : \A i \in 1..n : t[i] = "0"}
<1>1. Len(t) \in Nat
  BY DEF Text
<1>2. IsFiniteSet(1..(Len(t) - 1))
  BY <1>1, FS_Interval
<1>3. IsFiniteSet(zeros)
  BY <1>2, FS_Subset
<1>4. Cardinality(zeros) \in Nat
  BY <1>3, FS_CardinalityType
<1>5. PICK n \in Nat, k \in Nat : n = Cardinality(zeros) /\ k = Len(t)
  BY <1>1, <1>4
<1>6. SubSeq(t, n + 1, (k + 1) - 1) \in Text
  BY <1>5, PartOfText
<1>7. (k + 1) - 1 = k
  OBVIOUS
<1> QED
  BY <1>5, <1>6, <1>7 DEF Decimal, LeadingZeros

\* The end of the line.
LEMMA EndOfLineKeepsInv == ASSUME ScanInv, EndOfLine PROVE ScanInv'
<1>0. PICK d \in Nat : /\ d = Done.to /\ PlaceAt(d)
                       /\ line \in Text /\ Len(line) \in Nat
                       /\ pos \in Nat /\ name \in Text /\ value \in Text /\ buffer \in Text
  BY Basics
<1>1. fn = "parseLine" /\ pos > Len(line) /\ End("ok")
      /\ value' = IF IsInteger(buffer) THEN Decimal(buffer) ELSE buffer
  BY DEF EndOfLine, At
<1>2. d = Len(line)
  BY <1>0, <1>1 DEF PlaceAt
<1>3. value' \in Text
  BY <1>0, <1>1, DecimalIsText
<1> QED
  BY <1>0, <1>1, <1>2, <1>3, EndKeepsInv

\* A "$" at the end of the line.
LEMMA OutOfRangeKeepsInv == ASSUME ScanInv, OutOfRange PROVE ScanInv'
<1>0. PICK d \in Nat : /\ d = Done.to /\ PlaceAt(d)
                       /\ line \in Text /\ Len(line) \in Nat
                       /\ pos \in Nat /\ name \in Text /\ value \in Text /\ buffer \in Text
  BY Basics
<1>1. fn = "parseInterpolationExpression" /\ pos > Len(line) /\ End("panic") /\ value' = value
  BY DEF OutOfRange, At
<1>2. pos = d + 2 /\ d + 1 <= Len(line) /\ line[d + 1] = "$"
  BY <1>1, <1>0 DEF PlaceAt
<1>3. d + 1 = Len(line)
  BY <1>1, <1>2, <1>0
<1>4. \A j \in (d + 1)..Len(line) : ~ IsToken(d + 1, j)
  BY <1>2, <1>3, <1>0 DEF IsToken, IsLiteral, IsEscape, IsBraced, IsPlain
<1> QED
  BY <1>1, <1>2, <1>3, <1>4, <1>0, EndKeepsInv

\* "$$"
LEMMA EscapeKeepsInv == ASSUME ScanInv, Escape PROVE ScanInv'
<1>0. PICK d \in Nat : /\ d = Done.to /\ PlaceAt(d)
                       /\ line \in Text /\ Len(line) \in Nat
                       /\ pos \in Nat /\ name \in Text /\ value \in Text /\ buffer \in Text
  BY Basics
<1>1. result = "none" /\ fn = "parseInterpolationExpression" /\ pos <= Len(line) /\ line[pos] = "$"
      /\ Write(<<"$">>, pos) /\ pos' = pos + 1
  BY DEF Escape, At
<1>2. pos = d + 2 /\ line[d + 1] = "$"
  BY <1>1, <1>0 DEF PlaceAt
<1>3. <<"$">> \in Text
  BY DEF Text, Char
<1>4. Means(d + 1, pos, <<"$">>)
  BY <1>1, <1>2, <1>0 DEF Means, IsEscape
<1> QED
  BY <1>1, <1>3, <1>4, <1>0, WriteKeepsInv

\* "${"
LEMMA OpenBraceKeepsInv == ASSUME ScanInv, OpenBrace PROVE ScanInv'
<1>0. PICK d \in Nat : /\ d = Done.to /\ PlaceAt(d)
                       /\ line \in Text /\ Len(line) \in Nat
                       /\ pos \in Nat /\ name \in Text /\ value \in Text /\ buffer \in Text
  BY Basics
<1>1. result = "none" /\ fn = "parseInterpolationExpression" /\ pos <= Len(line) /\ line[pos] = "open"
      /\ fn' = "parseVariableWithBraces" /\ name' = <<>> /\ pos' = pos + 1
      /\ UNCHANGED <<line, buffer, marks, result, value>>
  BY DEF OpenBrace, At, Read
<1>2. pos = d + 2 /\ line[d + 1] = "$"
  BY <1>1, <1>0 DEF PlaceAt
<1>3. SubSeq(line, d + 3, d + 2) = << >>
  BY <1>0, SubSeqEmpty
<1>4. NamesFrom(d + 3)'
  BY <1>1, <1>2, <1>3, <1>0 DEF NamesFrom
<1>5. PlaceAt(d)'
  BY <1>1, <1>2, <1>4, <1>0 DEF PlaceAt, NamesFrom
<1> QED
  BY <1>1, <1>5, <1>0, MoveKeepsInv DEF Text

\* "$" and the first character of a name.
LEMMA FirstCharKeepsInv == ASSUME ScanInv, FirstChar PROVE ScanInv'
<1>0. PICK d \in Nat : /\ d = Done.to /\ PlaceAt(d)
                       /\ line \in Text /\ Len(line) \in Nat
                       /\ pos \in Nat /\ name \in Text /\ value \in Text /\ buffer \in Text
  BY Basics
<1>1. result = "none" /\ fn = "parseInterpolationExpression" /\ pos <= Len(line)
      /\ ~ isNum(line[pos]) /\ validVariableNameChar(line[pos])
      /\ fn' = "parseVariable" /\ UNCHANGED <<line, pos, name, buffer, marks, result, value>>
  BY DEF FirstChar, At
<1>2. pos = d + 2 /\ line[d + 1] = "$" /\ name = <<>>
  BY <1>1, <1>0 DEF PlaceAt
<1>3. SubSeq(line, d + 2, d + 1) = << >>
  BY <1>0, SubSeqEmpty
<1>4. NamesFrom(d + 2)'
  BY <1>1, <1>2, <1>3, <1>0 DEF NamesFrom
<1>5. PlaceAt(d)'
  BY <1>1, <1>2, <1>4, <1>0 DEF PlaceAt, NamesFrom
<1> QED
  BY <1>1, <1>5, <1>0, MoveKeepsInv DEF Text

\* "$" and something else.
LEMMA NoExpressionKeepsInv == ASSUME ScanInv, NoExpression PROVE ScanInv'
<1>0. PICK d \in Nat : /\ d = Done.to /\ PlaceAt(d)
                       /\ line \in Text /\ Len(line) \in Nat
                       /\ pos \in Nat /\ name \in Text /\ value \in Text /\ buffer \in Text
  BY Basics
<1>1. fn = "parseInterpolationExpression" /\ pos <= Len(line) /\ End("invalid") /\ value' = value
      /\ line[pos] \notin {"$", "open"} /\ (isNum(line[pos]) \/ ~ validVariableNameChar(line[pos]))
  BY DEF NoExpression, At, Refuse
<1>2. pos = d + 2 /\ line[d + 1] = "$"
  BY <1>1, <1>0 DEF PlaceAt
<1>3. ASSUME NEW j \in (d + 1)..Len(line) PROVE ~ IsToken(d + 1, j)
  <2>1. ~ IsLiteral(d + 1, j) /\ ~ IsEscape(d + 1, j) /\ ~ IsBraced(d + 1, j)
    BY <1>1, <1>2, <1>0 DEF IsLiteral, IsEscape, IsBraced
  <2>2. ~ IsPlain(d + 1, j)
    BY <1>1, <1>2, <1>0 DEF IsPlain, IsName
  <2> QED
    BY <2>1, <2>2 DEF IsToken
<1> QED
  BY <1>1, <1>2, <1>3, <1>0, EndKeepsInv

\* A further character of a name.
LEMMA NameCharKeepsInv == ASSUME ScanInv, NameChar PROVE ScanInv'
<1>0. PICK d \in Nat : /\ d = Done.to /\ PlaceAt(d)
                       /\ line \in Text /\ Len(line) \in Nat
                       /\ pos \in Nat /\ name \in Text /\ value \in Text /\ buffer \in Text
  BY Basics
<1>1. result = "none" /\ fn = "parseVariable" /\ pos <= Len(line) /\ validVariableNameChar(line[pos])
      /\ fn' = fn /\ name' = Append(name, line[pos]) /\ pos' = pos + 1
      /\ UNCHANGED <<line, buffer, marks, result, value>>
  BY DEF NameChar, At, Read
<1>2. NamesFrom(d + 2)
  BY <1>1, <1>0 DEF PlaceAt
<1>3. NamesFrom(d + 2)'
  <2>1. PICK i \in Nat : i = d + 2 /\ 1 <= i
    BY <1>0
  <2>2. /\ i <= pos /\ name = SubSeq(line, i, pos - 1)
        /\ \A k \in i..(pos - 1) : validVariableNameChar(line[k])
    BY <1>2, <2>1 DEF NamesFrom
  <2>3. name' = SubSeq(line, i, pos)
    BY <2>1, <2>2, <1>0, <1>1, NameGrows
  <2>4. \A k \in i..pos : k = pos \/ k \in i..(pos - 1)
    BY <1>0
  <2>5. \A k \in i..pos : validVariableNameChar(line[k])
    BY <2>2, <2>4, <1>1
  <2>6. pos' - 1 = pos /\ i <= pos' /\ pos' <= Len(line) + 1
    BY <2>2, <1>0, <1>1
  <2> QED
    BY <2>1, <2>3, <2>5, <2>6, <1>1 DEF NamesFrom
<1>5. PlaceAt(d)'
  BY <1>1, <1>3, <1>0 DEF PlaceAt
<1>6. name' \in Text
  BY <1>1, <1>2, <1>0 DEF Text, NamesFrom
<1> QED
  BY <1>1, <1>5, <1>6, <1>0, MoveKeepsInv

\* The end of a name.
LEMMA VariableEndsKeepsInv == ASSUME ScanInv, VariableEnds PROVE ScanInv'
<1>0. PICK d \in Nat : /\ d = Done.to /\ PlaceAt(d)
                       /\ line \in Text /\ Len(line) \in Nat
                       /\ pos \in Nat /\ name \in Text /\ value \in Text /\ buffer \in Text
  BY Basics
<1>1. result = "none" /\ fn = "parseVariable" /\ Write(mapping(name), pos - 1)
      /\ (pos <= Len(line) => ~ validVariableNameChar(line[pos]))
      /\ pos' = IF pos <= Len(line) THEN pos ELSE pos + 1
  BY DEF VariableEnds, At
<1>2. /\ NamesFrom(d + 2) /\ d + 1 < Len(line) /\ line[d + 1] = "$"
      /\ ~ isNum(line[d + 2]) /\ validVariableNameChar(line[d + 2])
  BY <1>1, <1>0 DEF PlaceAt
<1>3. pos > d + 2 /\ pos <= Len(line) + 1
  BY <1>1, <1>2, <1>0 DEF NamesFrom
<1>4. IsPlain(d + 1, pos - 1)
  <2>1. IsName(d + 2, pos - 1)
    BY <1>2, <1>3, <1>0 DEF NamesFrom, IsName
  <2>2. (d + 1) + 1 = d + 2 /\ pos - 1 > d + 1 /\ (pos - 1) + 1 = pos
    BY <1>0, <1>3
  <2> QED
    BY <2>1, <2>2, <1>0, <1>1, <1>2 DEF IsPlain
<1>5. Means(d + 1, pos - 1, mapping(name))
  BY <1>2, <1>4, <1>0 DEF Means, NamesFrom
<1>6. mapping(name) \in Text
  BY ValueIsText
<1> QED
  BY <1>1, <1>3, <1>5, <1>6, <1>0, WriteKeepsInv

\* A further character of a name in braces.
LEMMA BraceNameCharKeepsInv == ASSUME ScanInv, BraceNameChar PROVE ScanInv'
<1>0. PICK d \in Nat : /\ d = Done.to /\ PlaceAt(d)
                       /\ line \in Text /\ Len(line) \in Nat
                       /\ pos \in Nat /\ name \in Text /\ value \in Text /\ buffer \in Text
  BY Basics
<1>1. result = "none" /\ fn = "parseVariableWithBraces" /\ pos <= Len(line)
      /\ validVariableNameChar(line[pos])
      /\ fn' = fn /\ name' = Append(name, line[pos]) /\ pos' = pos + 1
      /\ UNCHANGED <<line, buffer, marks, result, value>>
  BY DEF BraceNameChar, At, Read
<1>2. NamesFrom(d + 3)
  BY <1>1, <1>0 DEF PlaceAt
<1>3. NamesFrom(d + 3)'
  <2>1. PICK i \in Nat : i = d + 3 /\ 1 <= i
    BY <1>0
  <2>2. /\ i <= pos /\ name = SubSeq(line, i, pos - 1)
        /\ \A k \in i..(pos - 1) : validVariableNameChar(line[k])
    BY <1>2, <2>1 DEF NamesFrom
  <2>3. name' = SubSeq(line, i, pos)
    BY <2>1, <2>2, <1>0, <1>1, NameGrows
  <2>4. \A k \in i..pos : k = pos \/ k \in i..(pos - 1)
    BY <1>0
  <2>5. \A k \in i..pos : validVariableNameChar(line[k])
    BY <2>2, <2>4, <1>1
  <2>6. pos' - 1 = pos /\ i <= pos' /\ pos' <= Len(line) + 1
    BY <2>2, <1>0, <1>1
  <2> QED
    BY <2>1, <2>3, <2>5, <2>6, <1>1 DEF NamesFrom
<1>5. PlaceAt(d)'
  BY <1>1, <1>3, <1>0 DEF PlaceAt
<1>6. name' \in Text
  BY <1>1, <1>2, <1>0 DEF Text, NamesFrom
<1> QED
  BY <1>1, <1>5, <1>6, <1>0, MoveKeepsInv

\* The closing brace.
LEMMA CloseBraceKeepsInv == ASSUME ScanInv, CloseBrace PROVE ScanInv'
<1>0. PICK d \in Nat : /\ d = Done.to /\ PlaceAt(d)
                       /\ line \in Text /\ Len(line) \in Nat
                       /\ pos \in Nat /\ name \in Text /\ value \in Text /\ buffer \in Text
  BY Basics
<1>1. result = "none" /\ fn = "parseVariableWithBraces" /\ Write(mapping(name), pos)
      /\ pos <= Len(line) /\ line[pos] = "close" /\ name # <<>> /\ pos' = pos + 1
  BY DEF CloseBrace, At
<1>2. NamesFrom(d + 3) /\ line[d + 1] = "$" /\ line[d + 2] = "open"
  BY <1>1, <1>0 DEF PlaceAt
<1>3. pos > d + 3
  BY <1>1, <1>2, <1>0, PartOfText DEF NamesFrom
<1>4. IsBraced(d + 1, pos)
  <2>1. IsName(d + 3, pos - 1)
    BY <1>2, <1>3, <1>0 DEF NamesFrom, IsName
  <2>2. (d + 1) + 1 = d + 2 /\ (d + 1) + 2 = d + 3 /\ pos > (d + 1) + 1
    BY <1>0, <1>3
  <2> QED
    BY <2>1, <2>2, <1>1, <1>2 DEF IsBraced
<1>5. Means(d + 1, pos, mapping(name))
  BY <1>2, <1>4, <1>0 DEF Means, NamesFrom
<1>6. mapping(name) \in Text
  BY ValueIsText
<1> QED
  BY <1>1, <1>5, <1>6, <1>0, WriteKeepsInv

\* Braces without a name, or that do not close.
LEMMA BadBracesKeepsInv == ASSUME ScanInv, BadBraces PROVE ScanInv'
<1>0. PICK d \in Nat : /\ d = Done.to /\ PlaceAt(d)
                       /\ line \in Text /\ Len(line) \in Nat
                       /\ pos \in Nat /\ name \in Text /\ value \in Text /\ buffer \in Text
  BY Basics
<1>1. fn = "parseVariableWithBraces" /\ End("invalid") /\ value' = value
      /\ (pos <= Len(line) => \/ line[pos] = "close" /\ name = <<>>
                              \/ line[pos] # "close" /\ ~ validVariableNameChar(line[pos]))
  BY DEF BadBraces, At, Refuse
<1>2. /\ NamesFrom(d + 3) /\ line[d + 1] = "$" /\ line[d + 2] = "open"
      /\ d + 1 < Len(line)
  BY <1>1, <1>0 DEF PlaceAt
<1>3. ASSUME NEW j \in (d + 1)..Len(line) PROVE ~ IsToken(d + 1, j)
  <2>1. ~ IsLiteral(d + 1, j) /\ ~ IsEscape(d + 1, j)
    BY <1>2, <1>0 DEF IsLiteral, IsEscape
  <2>2. ~ IsPlain(d + 1, j)
    BY <1>2, <1>0 DEF IsPlain, IsName, validVariableNameChar, isNum
  <2>3. SUFFICES ASSUME IsBraced(d + 1, j) PROVE FALSE
    BY <2>1, <2>2 DEF IsToken
  <2>4. /\ line[j] = "close" /\ d + 3 <= j - 1
        /\ \A k \in (d + 3)..(j - 1) : validVariableNameChar(line[k])
    BY <2>3, <1>0 DEF IsBraced, IsName
  <2>5. ~ validVariableNameChar("close")
    BY DEF validVariableNameChar, isNum
  <2>6. CASE pos < j
    <3>1. validVariableNameChar(line[pos]) /\ pos <= Len(line)
      BY <2>4, <2>6, <1>2, <1>0 DEF NamesFrom
    <3> QED
      BY <3>1, <1>1, <2>5
  <2>7. CASE pos = j
    <3>1. name # << >>
      <4>1. PICK i \in Nat : i = d + 3 /\ 1 <= i /\ i < pos
        BY <2>4, <2>7, <1>0
      <4>2. name = SubSeq(line, i, pos - 1) /\ pos <= Len(line) + 1
        BY <4>1, <1>2 DEF NamesFrom
      <4>3. PICK k \in Nat : k = pos
        BY <1>0
      <4>4. SubSeq(line, i, k - 1) = << >> <=> k <= i
        BY <4>1, <4>2, <4>3, <1>0, PartOfText
      <4> QED
        BY <4>1, <4>2, <4>3, <4>4
    <3> QED
      BY <3>1, <2>4, <2>7, <1>1, <1>0
  <2>8. CASE pos > j
    BY <2>4, <2>5, <2>8, <1>2, <1>0 DEF NamesFrom
  <2> QED
    BY <2>6, <2>7, <2>8, <1>0
<1> QED
  BY <1>1, <1>2, <1>3, <1>0, EndKeepsInv

-----------------------------------------------------------------------------
(* Theorems.                                                               *)

\* The inductive invariant of the scan: where each function is, and what has been
\* read and written by then.
THEOREM ScanInvariant == Spec => []ScanInv
<1>1. ScanInv /\ [Next]_vars => ScanInv'
  <2> SUFFICES ASSUME ScanInv, [Next]_vars PROVE ScanInv'
    OBVIOUS
  <2>1. CASE UNCHANGED vars
    BY <2>1 DEF vars, ScanInv, TypeOK, MarksInBuffer, Place, PlaceAt, NamesFrom, Expansion, Refusal, Done,
                Means, IsToken, IsLiteral, IsEscape, IsBraced, IsPlain, IsName
  <2>2. CASE Next
    BY <2>1, <2>2, LiteralKeepsInv, DollarKeepsInv, EndOfLineKeepsInv, OutOfRangeKeepsInv,
       EscapeKeepsInv, OpenBraceKeepsInv, FirstCharKeepsInv, NoExpressionKeepsInv,
       NameCharKeepsInv, VariableEndsKeepsInv, BraceNameCharKeepsInv, CloseBraceKeepsInv,
       BadBracesKeepsInv DEF Next, Finished
  <2> QED
    BY <2>1, <2>2
<1> QED
  BY InitScanInv, <1>1, PTL DEF Spec

\* The variables of the scan keep their types.
THEOREM ScanTypeCorrect == Spec => []TypeOK
<1>1. ScanInv => TypeOK
  BY DEF ScanInv
<1> QED
  BY ScanInvariant, <1>1, PTL

\* parseLine() cuts every line into its tokens and writes what they stand for.
THEOREM ExpansionIsRight == Spec => []Expansion
<1>1. ScanInv => Expansion
  BY DEF ScanInv
<1> QED
  BY ScanInvariant, <1>1, PTL

\* parseLine() refuses a line only where no token begins, and reads behind its end
\* only at a "$" that is the last character.
THEOREM RefusalIsRight == Spec => []Refusal
<1>1. ScanInv => Refusal
  BY DEF ScanInv
<1> QED
  BY ScanInvariant, <1>1, PTL

-----------------------------------------------------------------------------
(* The verdict.                                                            *)

\* With a position at most one token begins: no text can be read in two ways.
LEMMA TokensAreUnique ==
  ASSUME line \in Text, NEW i \in Nat, i >= 1, NEW j \in Nat, NEW k \in Nat,
         j <= Len(line), k <= Len(line), IsToken(i, j), IsToken(i, k)
  PROVE  j = k
<1>0. Len(line) \in Nat
  BY DEF Text
<1>1. \A c \in {"$", "open", "close"} : ~ validVariableNameChar(c)
  BY DEF validVariableNameChar, isNum
<1>2. ASSUME NEW m \in Nat, m <= Len(line), IsPlain(i, m)
      PROVE  /\ validVariableNameChar(line[i + 1]) /\ m >= i + 1 /\ line[i] = "$"
             /\ \A l \in (i + 1)..m : validVariableNameChar(line[l])
             /\ m < Len(line) => ~ validVariableNameChar(line[m + 1])
  BY <1>2 DEF IsPlain, IsName
<1>3. ASSUME NEW m \in Nat, m <= Len(line), IsBraced(i, m)
      PROVE  /\ line[i] = "$" /\ line[i + 1] = "open" /\ line[m] = "close" /\ m > i + 1
             /\ \A l \in (i + 2)..(m - 1) : validVariableNameChar(line[l])
  BY <1>3 DEF IsBraced, IsName
<1>4. ASSUME NEW m \in Nat, NEW n \in Nat, m <= Len(line), n <= Len(line),
             IsPlain(i, m), IsPlain(i, n)
      PROVE  ~ (m < n)
  <2> SUFFICES ASSUME m < n PROVE FALSE
    OBVIOUS
  <2>1. ~ validVariableNameChar(line[m + 1])
    BY <1>0, <1>2, <1>4
  <2>2. m + 1 \in (i + 1)..n
    BY <1>2, <1>4
  <2> QED
    BY <2>1, <2>2, <1>2, <1>4
<1>5. ASSUME NEW m \in Nat, NEW n \in Nat, m <= Len(line), n <= Len(line),
             IsBraced(i, m), IsBraced(i, n)
      PROVE  ~ (m < n)
  <2> SUFFICES ASSUME m < n PROVE FALSE
    OBVIOUS
  <2>1. line[m] = "close" /\ m \in (i + 2)..(n - 1)
    BY <1>3, <1>5
  <2>2. validVariableNameChar(line[m])
    BY <2>1, <1>3, <1>5
  <2> QED
    BY <2>1, <2>2, <1>1
<1>6. ASSUME IsLiteral(i, j) \/ IsLiteral(i, k) PROVE j = k
  BY <1>6, <1>2, <1>3 DEF IsToken, IsLiteral, IsEscape
<1>7. ASSUME IsEscape(i, j) \/ IsEscape(i, k) PROVE j = k
  BY <1>7, <1>1, <1>2, <1>3 DEF IsToken, IsLiteral, IsEscape
<1>8. CASE IsBraced(i, j) /\ IsBraced(i, k)
  BY <1>5, <1>8
<1>9. CASE IsPlain(i, j) /\ IsPlain(i, k)
  BY <1>4, <1>9
<1>10. CASE \/ IsBraced(i, j) /\ IsPlain(i, k)
            \/ IsPlain(i, j) /\ IsBraced(i, k)
  BY <1>10, <1>1, <1>2, <1>3
<1> QED
  BY <1>6, <1>7, <1>8, <1>9, <1>10 DEF IsToken

\* What means something is a token, and a token is not empty.
LEMMA MeaningIsToken ==
  ASSUME NEW i \in Nat, NEW j \in Nat, NEW t, Means(i, j, t)
  PROVE  IsToken(i, j) /\ i <= j
  BY DEF Means, IsToken, IsLiteral, IsEscape, IsBraced, IsPlain

\* The marks: they are numbered from 1, and each of them ends a token that begins
\* behind the one before.
LEMMA MarkFacts ==
  ASSUME ScanInv
  PROVE  /\ marks \in Seq(Mark) /\ Len(marks) \in Nat \ {0} /\ DOMAIN marks = 1..Len(marks)
         /\ \A k \in 1..Len(marks) : marks[k].to \in Nat
         /\ marks[1].to = 0
         /\ \A k \in 1..(Len(marks) - 1) : /\ IsToken(marks[k].to + 1, marks[k + 1].to)
                                           /\ marks[k].to < marks[k + 1].to
         /\ Done.to <= Len(line) /\ Len(line) \in Nat
<1>1. marks \in Seq(Mark) /\ Len(marks) \in Nat \ {0} /\ DOMAIN marks = 1..Len(marks)
  BY EmptySeq DEF ScanInv, TypeOK
<1>2. \A k \in 1..Len(marks) : marks[k] \in Mark
  BY <1>1
<1>3. \A k \in 1..Len(marks) : marks[k].to \in Nat
  BY <1>2 DEF Mark
<1>4. marks[1].to = 0
  BY DEF ScanInv, Expansion
<1>5. ASSUME NEW k \in 1..(Len(marks) - 1)
      PROVE  IsToken(marks[k].to + 1, marks[k + 1].to) /\ marks[k].to < marks[k + 1].to
  <2>1. PICK n \in 2..Len(marks) : n = k + 1
    BY <1>1
  <2>2. n - 1 = k /\ k \in 1..Len(marks) /\ n \in 1..Len(marks)
    BY <1>1, <2>1
  <2>3. Means(marks[n - 1].to + 1, marks[n].to, SubSeq(buffer, marks[n - 1].at + 1, marks[n].at))
    BY DEF ScanInv, Expansion
  <2>4. PICK x \in Nat : x = marks[k].to
    BY <1>3, <2>2
  <2>5. PICK y \in Nat : y = marks[n].to
    BY <1>3, <2>2
  <2>6. PICK t : t = SubSeq(buffer, marks[n - 1].at + 1, marks[n].at)
    OBVIOUS
  <2>7. Means(x + 1, y, t)
    BY <2>2, <2>3, <2>4, <2>5, <2>6
  <2>8. IsToken(x + 1, y) /\ x + 1 <= y
    BY <2>4, <2>5, <2>7, MeaningIsToken
  <2> QED
    BY <2>1, <2>4, <2>5, <2>8
<1>6. Done.to <= Len(line)
  BY DEF ScanInv, Place, PlaceAt
<1>7. Len(line) \in Nat
  BY DEF ScanInv, TypeOK, Text
<1> QED
  BY <1>1, <1>3, <1>4, <1>5, <1>6, <1>7

\* A step keeps the line, and appends at most one mark.
LEMMA MarksGrow ==
  ASSUME [Next]_vars
  PROVE  line' = line /\ (marks' = marks \/ \E m : marks' = Append(marks, m))
  BY DEF Next, vars, Literal, Dollar, EndOfLine, OutOfRange, Escape, OpenBrace, FirstChar,
         NoExpression, NameChar, VariableEnds, BraceNameChar, CloseBrace, BadBraces, Finished,
         Write, Read, End, Refuse

\* A new mark is on every way to read the line, because the last one was and only one
\* token begins behind it.
LEMMA OnEveryWayKept ==
  ASSUME ScanInv, ScanInv', OnEveryWay, [Next]_vars
  PROVE  OnEveryWay'
<1>1. line' = line /\ (marks' = marks \/ \E m : marks' = Append(marks, m))
  BY MarksGrow
<1>2. \A C : Tokenizes(C)' <=> Tokenizes(C)
  BY <1>1 DEF Tokenizes, IsToken, IsLiteral, IsEscape, IsBraced, IsPlain, IsName
<1>3. CASE marks' = marks
  BY <1>1, <1>2, <1>3 DEF OnEveryWay, Done
<1>4. CASE \E m : marks' = Append(marks, m)
  <2>1. PICK n \in Nat \ {0} : n = Len(marks)
    BY MarkFacts
  <2>2. PICK m : marks' = Append(marks, m)
    BY <1>4
  <2>3. /\ marks \in Seq(Mark) /\ DOMAIN marks = 1..n /\ Done = marks[n]
        /\ marks' \in Seq(Mark) /\ DOMAIN marks' = 1..Len(marks')
    BY <2>1, MarkFacts DEF Done, ScanInv, TypeOK
  <2>4. /\ Len(marks') = n + 1 /\ marks'[n + 1] = m
        /\ \A k \in 1..n : marks'[k] = marks[k]
    BY <2>1, <2>2, <2>3
  <2>5. Done' = m
    BY <2>4 DEF Done
  <2>6. PICK x \in Nat : x = Done.to
    <3>1. n \in 1..n
      OBVIOUS
    <3> QED
      BY <2>1, <2>3, <3>1, MarkFacts
  <2>7. PICK y \in Nat : y = m.to /\ y <= Len(line)
    <3>1. m \in Mark
      <4>1. n + 1 \in DOMAIN marks'
        BY <2>3, <2>4
      <4> QED
        BY <2>3, <2>4, <4>1
    <3>2. Done'.to <= Len(line')
      BY DEF ScanInv, Place, PlaceAt
    <3> QED
      BY <1>1, <2>5, <3>1, <3>2 DEF Mark
  <2>8. IsToken(x + 1, y) /\ x + 1 <= y
    <3>1. n + 1 \in 2..Len(marks') /\ (n + 1) - 1 = n
      BY <2>4
    <3>2. PICK k \in 2..Len(marks') : k = n + 1
      BY <3>1
    <3>3. Means(marks[k - 1].to + 1, marks[k].to, SubSeq(buffer, marks[k - 1].at + 1, marks[k].at))'
      BY DEF ScanInv, Expansion
    <3>4. PICK t : t = SubSeq(buffer', marks'[k - 1].at + 1, marks'[k].at)
      OBVIOUS
    <3>5. marks'[k - 1].to = x /\ marks'[k].to = y
      BY <2>3, <2>4, <2>6, <2>7, <3>1, <3>2
    <3>6. Means(x + 1, y, t)
      BY <1>1, <3>3, <3>4, <3>5 DEF Means, IsLiteral, IsEscape, IsBraced, IsPlain, IsName
    <3> QED
      BY <3>6, MeaningIsToken
  <2>9. ASSUME NEW k \in DOMAIN marks' PROVE marks'[k].to <= Len(line')
    <3>1. k \in 1..n \/ k = n + 1
      BY <2>3, <2>4
    <3> QED
      BY <1>1, <2>3, <2>4, <2>7, <3>1 DEF OnEveryWay
  <2>10. ASSUME NEW C \in SUBSET (0..Len(line)), Tokenizes(C) PROVE y \in C
    <3>1. x \in C
      BY <2>6, <2>10 DEF OnEveryWay
    <3>2. x # Len(line)
      BY <2>7, <2>8, MarkFacts
    <3>3. PICK j \in C : x < j /\ IsToken(x + 1, j)
      BY <2>10, <3>1, <3>2 DEF Tokenizes
    <3>4. j \in Nat /\ j <= Len(line)
      BY MarkFacts
    <3>5. line \in Text
      BY DEF ScanInv, TypeOK
    <3>6. PICK i \in Nat : i = x + 1 /\ i >= 1
      OBVIOUS
    <3>7. j = y
      BY <2>7, <2>8, <3>3, <3>4, <3>5, <3>6, TokensAreUnique
    <3> QED
      BY <3>7
  <2> QED
    BY <1>1, <1>2, <2>5, <2>7, <2>9, <2>10 DEF OnEveryWay
<1> QED
  BY <1>1, <1>3, <1>4

\* Every way to read the line comes by the last mark, in every reachable state.
LEMMA OnEveryWayInvariant == Spec => []OnEveryWay
<1>1. Init => OnEveryWay
  <2> SUFFICES ASSUME Init PROVE OnEveryWay
    OBVIOUS
  <2>1. ScanInv
    BY InitScanInv
  <2>2. DOMAIN marks = {1} /\ marks[1].to = 0 /\ Done.to = 0
    BY DEF Init, Done
  <2> QED
    BY <2>1, <2>2, MarkFacts DEF OnEveryWay, Tokenizes
<1>2. ScanInv /\ ScanInv' /\ OnEveryWay /\ [Next]_vars => OnEveryWay'
  BY OnEveryWayKept
<1> QED
  BY <1>1, <1>2, ScanInvariant, PTL DEF Spec

\* parseLine() succeeds with the lines that are sequences of tokens and refuses, or
\* runs behind the end of, all others.
THEOREM VerdictIsRight == Spec => []Verdict
<1>1. ASSUME ScanInv, OnEveryWay PROVE Verdict
  <2>1. ASSUME result = "ok" PROVE WellFormed
    <3> DEFINE C == {marks[k].to : k \in 1..Len(marks)}
    <3>1. C \in SUBSET (0..Len(line))
      <4>1. \A k \in 1..Len(marks) : marks[k].to \in Nat /\ marks[k].to <= Len(line)
        BY <1>1, MarkFacts DEF OnEveryWay
      <4> QED
        BY <1>1, <4>1, MarkFacts
    <3>2. 0 \in C
      <4>1. 1 \in 1..Len(marks)
        BY <1>1, MarkFacts
      <4> QED
        BY <1>1, <4>1, MarkFacts
    <3>3. ASSUME NEW d \in C PROVE d = Len(line) \/ \E j \in C : d < j /\ IsToken(d + 1, j)
      <4>1. PICK k \in 1..Len(marks) : d = marks[k].to
        OBVIOUS
      <4>2. CASE k = Len(marks)
        BY <1>1, <2>1, <4>1, <4>2 DEF ScanInv, Expansion, Done
      <4>3. CASE k # Len(marks)
        <5>1. k \in 1..(Len(marks) - 1) /\ k + 1 \in 1..Len(marks)
          <6>1. PICK n \in Nat : n = Len(marks)
            BY <1>1, MarkFacts
          <6> QED
            BY <4>3, <6>1
        <5>2. IsToken(marks[k].to + 1, marks[k + 1].to) /\ marks[k].to < marks[k + 1].to
          BY <1>1, <5>1, MarkFacts
        <5> QED
          BY <4>1, <5>1, <5>2
      <4> QED
        BY <4>2, <4>3
    <3> HIDE DEF C
    <3>4. Tokenizes(C)
      BY <3>2, <3>3 DEF Tokenizes
    <3> QED
      BY <3>1, <3>4 DEF WellFormed
  <2>2. ASSUME result \in {"invalid", "panic"}, WellFormed PROVE FALSE
    <3>1. PICK C \in SUBSET (0..Len(line)) : Tokenizes(C)
      BY <2>2 DEF WellFormed
    <3>2. PICK d \in Nat : d = Done.to
      BY <1>1, Basics
    <3>3. /\ d + 1 <= Len(line)
          /\ \A j \in (d + 1)..Len(line) : ~ IsToken(d + 1, j)
      BY <1>1, <2>2, <3>2 DEF ScanInv, Refusal
    <3>4. d \in C /\ d # Len(line)
      BY <1>1, <3>1, <3>2, <3>3, MarkFacts DEF OnEveryWay
    <3>5. PICK j \in C : d < j /\ IsToken(d + 1, j)
      BY <3>1, <3>4 DEF Tokenizes
    <3>6. j \in (d + 1)..Len(line)
      BY <1>1, <3>5, MarkFacts
    <3> QED
      BY <3>3, <3>5, <3>6
  <2> QED
    BY <2>1, <2>2 DEF Verdict
<1> QED
  BY <1>1, ScanInvariant, OnEveryWayInvariant, PTL

-----------------------------------------------------------------------------
(* Termination.                                                            *)

\* Every step of the scan goes forward and stays within two characters of the end.
THEOREM ScanGoesForward == Spec => ScanAdvances
<1>1. ASSUME ScanInv, Next PROVE ScanStep \/ UNCHANGED vars
  <2>0. PICK d \in Nat : /\ d = Done.to /\ PlaceAt(d)
                         /\ line \in Text /\ Len(line) \in Nat
                         /\ pos \in Nat /\ name \in Text /\ value \in Text /\ buffer \in Text
    BY <1>1, Basics
  <2>1. pos <= Len(line) + 2
    <3>1. fn \in {"parseLine", "parseInterpolationExpression", "parseVariable",
                  "parseVariableWithBraces"}
      BY <1>1 DEF ScanInv, TypeOK
    <3>2. PICK n \in Nat : n = Len(line)
      BY <2>0
    <3> QED
      BY <2>0, <3>1, <3>2 DEF PlaceAt, NamesFrom
  <2>2. CASE Finished
    BY <2>2 DEF Finished
  <2>3. CASE EndOfLine \/ OutOfRange \/ NoExpression \/ BadBraces
    BY <2>1, <2>3 DEF EndOfLine, OutOfRange, NoExpression, BadBraces, Refuse, End, At, ScanStep
  <2>4. CASE Literal \/ Dollar \/ Escape \/ OpenBrace \/ NameChar \/ BraceNameChar \/ CloseBrace
    <3>1. result = "none" /\ pos <= Len(line) /\ pos' = pos + 1
      BY <2>4 DEF Literal, Dollar, Escape, OpenBrace, NameChar, BraceNameChar, CloseBrace, Read, At
    <3> QED
      BY <2>0, <3>1 DEF ScanStep
  <2>5. CASE FirstChar
    BY <2>1, <2>5 DEF FirstChar, At, ScanStep
  <2>6. CASE VariableEnds
    <3>1. result = "none" /\ fn = "parseVariable" /\ fn' = "parseLine"
          /\ pos' = IF pos <= Len(line) THEN pos ELSE pos + 1
      BY <2>6 DEF VariableEnds, At, Write
    <3>2. pos <= Len(line) + 1
      BY <2>0, <3>1 DEF PlaceAt, NamesFrom
    <3> QED
      BY <2>0, <3>1, <3>2 DEF ScanStep
  <2> QED
    BY <1>1, <2>2, <2>3, <2>4, <2>5, <2>6 DEF Next
<1>2. ScanInv /\ [Next]_vars => [ScanStep]_vars
  BY <1>1
<1> QED
  BY <1>2, ScanInvariant, PTL DEF Spec, ScanAdvances

=============================================================================
