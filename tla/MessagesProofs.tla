--------------------------- MODULE MessagesProofs ---------------------------
(***************************************************************************)
(* Nobody in a file is sent the message twice for nothing, for files,      *)
(* groups and codes of any length and any numbers of attempts and faults.  *)
(* First that cutting a text at every so many characters, and each group   *)
(* at its new lines, gives the fiscal codes that the file lists, each at   *)
(* one place; then the count: what was sent and what is still on its way   *)
(* to a recipient is no more than a message for each listing and each      *)
(* time the work has begun anew.                                           *)
(***************************************************************************)
EXTENDS Messages, FiniteSetTheorems, TLAPS

----------------------------------------------------------------------------
(* Products and quotients of numbers that are not constants.               *)
LEMMA Product ==
  ASSUME NEW a \in Nat, NEW k \in Nat
  PROVE  a * k \in Nat
OBVIOUS

(* Multiplying by a positive number keeps order and distributes.           *)
LEMMA ProductOrder ==
  ASSUME NEW a \in Nat, NEW b \in Nat, NEW k \in Nat \ {0}
  PROVE  /\ a * k <= b * k <=> a <= b
         /\ a * k < b * k <=> a < b
         /\ a * k = b * k <=> a = b
         /\ (a + b) * k = a * k + b * k
         /\ (a + 1) * k = a * k + k
         /\ a <= b => (b - a) * k = b * k - a * k
<1>1. /\ (a + b) * k = a * k + b * k /\ (a + 1) * k = a * k + k
      /\ a <= b => (b - a) * k = b * k - a * k
  OBVIOUS
<1>2. a <= b => a * k <= b * k
  OBVIOUS
<1>3. a < b => a * k < b * k
  OBVIOUS
<1>4. b < a => b * k < a * k
  OBVIOUS
<1>5. a * k \in Nat /\ b * k \in Nat
  OBVIOUS
<1>6. a < b \/ a = b \/ b < a
  OBVIOUS
<1> DEFINE p == a * k
           q == b * k
<1>7. p \in Nat /\ q \in Nat /\ (a < b => p < q) /\ (b < a => q < p)
  BY <1>3, <1>4, <1>5
<1>8. a = b => p = q
  OBVIOUS
<1> HIDE DEF p, q
<1>9. (p <= q <=> a <= b) /\ (p < q <=> a < b) /\ (p = q <=> a = b)
  BY <1>6, <1>7, <1>8
<1>10. QED
  BY <1>1, <1>9 DEF p, q

(* A quotient and a rest are those of the division.                        *)
LEMMA Quotient ==
  ASSUME NEW q \in Nat, NEW k \in Nat \ {0}, NEW r \in 0..k - 1
  PROVE  (q * k + r) \div k = q /\ (q * k + r) % k = r
<1> DEFINE n == q * k + r
<1>1. n \in Nat
  OBVIOUS
<1>2. n \div k \in Nat /\ n % k \in 0..k - 1 /\ n = (n \div k) * k + (n % k)
  <2> HIDE DEF n
  <2> QED
    BY <1>1
<1> DEFINE s == n \div k
           t == n % k
<1>3. q * k + r = s * k + t /\ s \in Nat /\ t \in 0..k - 1
  BY <1>2
<1> HIDE DEF n, s, t
<1>4. q * k \in Nat /\ s * k \in Nat
  BY <1>3
<1>5. q * k < (s + 1) * k /\ s * k < (q + 1) * k
  <2>1. (s + 1) * k = s * k + k /\ (q + 1) * k = q * k + k
    BY <1>3
  <2>2. QED
    BY <1>3, <1>4, <2>1
<1>6. q < s + 1 /\ s < q + 1
  <2>1. s + 1 \in Nat /\ q + 1 \in Nat
    BY <1>3
  <2>2. QED
    BY <1>3, <1>5, <2>1, ProductOrder
<1>7. q = s /\ r = t
  <2>1. q = s
    BY <1>3, <1>6
  <2>2. QED
    BY <1>3, <1>4, <2>1
<1>8. QED
  BY <1>7 DEF n, s, t

(* Whole numbers have a quotient and a rest.                               *)
LEMMA Rest ==
  ASSUME NEW n \in Nat, NEW k \in Nat \ {0}
  PROVE  \E q \in Nat, r \in 0..k - 1 : n = q * k + r
<1>1. n \div k \in Nat /\ n % k \in 0..k - 1 /\ n = (n \div k) * k + (n % k)
  OBVIOUS
<1>2. QED
  BY <1>1

(* The group g of n things in groups of k begins before the last of them.  *)
LEMMA GroupBegins ==
  ASSUME NEW n \in Nat, NEW k \in Nat \ {0}, NEW g \in Nat \ {0}
  PROVE  /\ (n + k - 1) \div k \in Nat
         /\ g \in 1..(n + k - 1) \div k <=> (g - 1) * k < n
<1> DEFINE m == n + k - 1
           c == m \div k
<1>1. m \in Nat
  OBVIOUS
<1>2. c \in Nat /\ m % k \in 0..k - 1 /\ m = c * k + (m % k)
  <2> HIDE DEF m
  <2> QED
    BY <1>1
<1>3. c * k \in Nat /\ (g - 1) * k \in Nat /\ (g - 1) * k + k = g * k
  <2> HIDE DEF c
  <2> QED
    BY <1>2
<1>4. c * k <= n + k - 1 /\ n + k - 1 < c * k + k
  <2> DEFINE p == c * k
             r == m % k
  <2>1. p \in Nat /\ r \in 0..k - 1 /\ n + k - 1 = p + r
    BY <1>2, <1>3
  <2> HIDE DEF p, r
  <2>2. p <= n + k - 1 /\ n + k - 1 < p + k
    BY <2>1
  <2>3. QED
    BY <2>2 DEF p
<1> HIDE DEF c, m
<1>5. g <= c => (g - 1) * k < n
  <2> HAVE g <= c
  <2>1. g * k <= c * k
    BY <1>2, ProductOrder
  <2> DEFINE p == (g - 1) * k
             s == c * k
  <2>2. p \in Nat /\ s \in Nat /\ p + k <= s /\ s <= n + k - 1
    BY <1>3, <1>4, <2>1
  <2> HIDE DEF p, s
  <2>3. p < n
    BY <2>2
  <2>4. QED
    BY <2>3 DEF p
<1>6. (g - 1) * k < n => g <= c
  <2> HAVE (g - 1) * k < n
  <2> DEFINE p == (g - 1) * k
             s == c * k
  <2>1. p \in Nat /\ s \in Nat /\ p < n /\ n + k - 1 < s + k
    BY <1>3, <1>4
  <2> HIDE DEF p, s
  <2>2. p < s
    BY <2>1
  <2>3. (g - 1) * k < c * k /\ g - 1 \in Nat
    BY <2>2 DEF p, s
  <2>4. g - 1 < c
    BY <1>2, <2>3, ProductOrder
  <2>5. QED
    BY <1>2, <2>4
<1>7. QED
  BY <1>2, <1>5, <1>6 DEF c, m

----------------------------------------------------------------------------
(* Texts: a line is a fiscal code and, but for the last one perhaps, a new *)
(* line.                                                                   *)
LineLengthIs == LineLength \in Nat \ {0, 1} /\ CodeLength = LineLength - 1

(* The length of a line is a positive number.                              *)
LEMMA LineLengthType == LineLengthIs
BY SizesAssumption DEF LineLengthIs, LineLength

(* The character x of the line q, counting lines from none.                *)
LEMMA TextIs ==
  ASSUME NEW codes \in Seq(FiscalCodes), NEW newLine \in BOOLEAN
  PROVE  LET text == Text(codes, newLine) IN
         /\ Len(text) \in Nat /\ DOMAIN text = 1..Len(text)
         /\ Len(codes) * LineLength <= Len(text) + 1
         /\ Len(text) <= Len(codes) * LineLength
         /\ \A q \in Nat : \A x \in 1..CodeLength :
              q * LineLength + x <= Len(text)
                => /\ q + 1 \in DOMAIN codes
                   /\ text[q * LineLength + x] = <<codes[q + 1], x>>
         /\ \A q \in Nat \ {0} :
              q * LineLength <= Len(text) => text[q * LineLength] = NewLine
<1> DEFINE text == Text(codes, newLine)
           n == Len(codes)
           size == n * LineLength - (IF newLine THEN 0 ELSE 1)
           Char(p) == IF p % LineLength = 0 THEN NewLine
                      ELSE Characters(codes[p \div LineLength + 1])[p % LineLength]
<1>1. LineLength \in Nat \ {0, 1} /\ CodeLength = LineLength - 1
  BY LineLengthType DEF LineLengthIs
<1>2. n \in Nat /\ n * LineLength \in Nat /\ DOMAIN codes = 1..n
  BY <1>1
<1>3. size \in Int /\ size <= n * LineLength /\ n * LineLength <= size + 1
  BY <1>2
<1>4. text = [p \in 1..size |-> Char(p)]
  BY DEF Text
<1>5. DOMAIN text = 1..size
  BY <1>4
<1>6. Len(text) \in Nat /\ DOMAIN text = 1..Len(text)
      /\ n * LineLength <= Len(text) + 1 /\ Len(text) <= n * LineLength
  <2> HIDE DEF size, text, n
  <2>1. CASE size \in Nat
    <3>1. Len(text) = size
      BY <1>5, <2>1
    <3>2. QED
      BY <1>3, <1>5, <2>1, <3>1
  <2>2. CASE size \notin Nat
    <3>1. 1..size = 1..0 /\ n * LineLength = 0
      BY <1>2, <1>3, <2>2
    <3>2. DOMAIN text = 1..0
      BY <1>5, <3>1
    <3>3. Len(text) = 0
      BY <3>2
    <3>4. QED
      BY <3>1, <3>2, <3>3
  <2>3. QED
    BY <2>1, <2>2
<1> HIDE DEF size, text, n
<1>10. ASSUME NEW p \in 1..Len(text) PROVE text[p] = Char(p)
  <2>1. p \in 1..size
    <3>1. 1..Len(text) = 1..size
      BY <1>5, <1>6, Zenon
    <3>2. QED
      BY <3>1, Zenon
  <2> HIDE DEF Char
  <2>2. QED
    BY <1>4, <2>1
<1>7. ASSUME NEW q \in Nat, NEW x \in 1..CodeLength,
             q * LineLength + x <= Len(text)
      PROVE  /\ q + 1 \in DOMAIN codes
             /\ text[q * LineLength + x] = <<codes[q + 1], x>>
  <2> DEFINE p == q * LineLength + x
  <2>1. q * LineLength \in Nat /\ x \in Nat \ {0} /\ x \in 0..LineLength - 1
    BY <1>1
  <2>2. p \in 1..Len(text) /\ q * LineLength < n * LineLength
    BY <1>2, <1>6, <1>7, <2>1
  <2>3. q < n
    BY <1>1, <1>2, <2>2, ProductOrder
  <2>4. p \div LineLength = q /\ p % LineLength = x
    BY <1>1, <2>1, Quotient
  <2>5. text[p] = Char(p)
    <3> HIDE DEF Char, p
    <3> QED
      BY <1>10, <2>2
  <2>6. Char(p) = Characters(codes[q + 1])[x]
    <3> HIDE DEF p
    <3> QED
      BY <2>1, <2>4
  <2>7. Characters(codes[q + 1])[x] = <<codes[q + 1], x>>
    BY DEF Characters
  <2>8. QED
    BY <1>2, <2>3, <2>5, <2>6, <2>7
<1>8. ASSUME NEW q \in Nat \ {0}, q * LineLength <= Len(text)
      PROVE  text[q * LineLength] = NewLine
  <2> DEFINE p == q * LineLength
  <2>1. p \in Nat \ {0}
    BY <1>1
  <2>2. (q * LineLength + 0) % LineLength = 0
    BY <1>1, Quotient
  <2>3. p % LineLength = 0
    BY <2>1, <2>2
  <2>4. p \in 1..Len(text)
    BY <1>6, <1>8, <2>1
  <2>5. text[p] = Char(p)
    <3> HIDE DEF Char, p
    <3> QED
      BY <1>10, <2>4
  <2> HIDE DEF p
  <2>6. QED
    BY <2>3, <2>5 DEF p
<1> HIDE DEF Char
<1>11. /\ \A q \in Nat : \A x \in 1..CodeLength :
            q * LineLength + x <= Len(text)
              => /\ q + 1 \in DOMAIN codes
                 /\ text[q * LineLength + x] = <<codes[q + 1], x>>
       /\ \A q \in Nat \ {0} :
            q * LineLength <= Len(text) => text[q * LineLength] = NewLine
  BY <1>7, <1>8, Zenon
<1>9. QED
  BY <1>6, <1>11 DEF text, n

(* A group of a text is a part of it that begins with a line.              *)
GroupSize == BatchSize * LineLength

(* A group is as long as GroupSize says, the last one perhaps shorter, and *)
(* its characters are those of the text.                                   *)
LEMMA GroupIs ==
  ASSUME NEW text, Len(text) \in Nat, DOMAIN text = 1..Len(text)
  PROVE  /\ Split(text) \in Seq(Range(Split(text)))
         /\ \A g \in Nat \ {0} :
              g \in DOMAIN Split(text) <=> (g - 1) * GroupSize < Len(text)
         /\ \A g \in DOMAIN Split(text) :
              LET group == Split(text)[g]
                  before == (g - 1) * GroupSize IN
              /\ g \in Nat \ {0}
              /\ Len(group) \in Nat \ {0} /\ DOMAIN group = 1..Len(group)
              /\ Len(group) = GroupSize \/ Len(group) < GroupSize
              /\ Len(group) < GroupSize => before + Len(group) = Len(text)
              /\ before + Len(group) <= Len(text)
              /\ \A x \in 1..Len(group) : group[x] = text[before + x]
<1> DEFINE size == Len(text)
           count == (size + GroupSize - 1) \div GroupSize
<1>1. GroupSize \in Nat \ {0}
  <2>1. BatchSize \in Nat \ {0} /\ LineLength \in Nat \ {0}
    BY SizesAssumption, LineLengthType DEF LineLengthIs
  <2>2. QED
    BY <2>1 DEF GroupSize
<1>2. count \in Nat
  BY <1>1, GroupBegins
<1>3. Split(text) = [g \in 1..count |-> SubText(text, (g - 1) * GroupSize + 1, g * GroupSize)]
  BY DEF Split, GroupsOf, GroupSize
<1>0. size \in Nat
  OBVIOUS
<1> HIDE DEF size
<1>4. ASSUME NEW g \in Nat \ {0}
      PROVE  g \in 1..count <=> (g - 1) * GroupSize < size
  BY <1>1, GroupBegins DEF size
<1> HIDE DEF count
<1>5. ASSUME NEW g \in 1..count
      PROVE  LET group == Split(text)[g]
                 before == (g - 1) * GroupSize IN
             /\ g \in Nat \ {0}
             /\ Len(group) \in Nat \ {0} /\ DOMAIN group = 1..Len(group)
             /\ Len(group) = GroupSize \/ Len(group) < GroupSize
             /\ Len(group) < GroupSize => before + Len(group) = Len(text)
             /\ before + Len(group) <= Len(text)
             /\ \A x \in 1..Len(group) : group[x] = text[before + x]
  <2> DEFINE before == (g - 1) * GroupSize
             after == g * GroupSize
             last == IF after < size THEN after ELSE size
             group == Split(text)[g]
  <2>1. g \in Nat \ {0} /\ before \in Nat /\ after = before + GroupSize /\ before < size
    BY <1>1, <1>2, <1>4
  <2> HIDE DEF before, after
  <2>2. /\ last \in Nat /\ before < last /\ last <= size
        /\ last <= before + GroupSize
        /\ last < before + GroupSize => last = size
    <3>1. CASE after < size
      BY <1>0, <1>1, <2>1, <3>1
    <3>2. CASE ~(after < size)
      BY <1>0, <1>1, <2>1, <3>2
    <3>3. QED
      BY <3>1, <3>2
  <2>3. group = SubSeq(text, before + 1, last)
    BY <1>3 DEF SubText, before, after, size
  <2> HIDE DEF last
  <2>4. group = [x \in 1..(last - before) |-> text[before + x]]
    <3>1. group = [x \in 1..(last - (before + 1) + 1) |-> text[(before + 1) + x - 1]]
      BY <2>1, <2>2, <2>3
    <3>2. last - (before + 1) + 1 = last - before
      BY <2>1, <2>2
    <3>3. \A x \in 1..(last - before) : (before + 1) + x - 1 = before + x
      BY <2>1, <2>2
    <3>4. QED
      BY <3>1, <3>2, <3>3
  <2> HIDE DEF group
  <2>5. Len(group) = last - before /\ DOMAIN group = 1..Len(group)
    BY <2>1, <2>2, <2>4
  <2>6. \A x \in 1..Len(group) : group[x] = text[before + x]
    BY <2>4, <2>5
  <2>7. /\ Len(group) \in Nat \ {0}
        /\ Len(group) = GroupSize \/ Len(group) < GroupSize
        /\ Len(group) < GroupSize => before + Len(group) = size
        /\ before + Len(group) <= size
    <3>1. Len(group) = last - before /\ size \in Nat
      BY <1>0, <2>5
    <3> DEFINE length == Len(group)
    <3> HIDE DEF length, size
    <3>2. length = last - before /\ size \in Nat
      BY <3>1 DEF length
    <3>3. length \in Nat \ {0} /\ before + length = last /\ length <= GroupSize
      BY <1>1, <2>1, <2>2, <3>2
    <3>4. length < GroupSize => last < before + GroupSize
      BY <1>1, <2>1, <3>3
    <3>5. QED
      BY <1>1, <2>2, <3>3, <3>4 DEF length
  <2>8. QED
    BY <2>1, <2>5, <2>6, <2>7 DEF before, group, size
<1>6. DOMAIN Split(text) = 1..count
  BY <1>3
<1>7. Split(text) \in Seq(Range(Split(text)))
  <2> DEFINE s == Split(text)
  <2> HIDE DEF s
  <2>1. ASSUME s = [g \in 1..count |-> s[g]] PROVE s \in Seq(Range(s))
    <3>1. \A g \in 1..count : s[g] \in Range(s)
      BY <2>1 DEF Range
    <3>2. QED
      BY <1>2, <2>1, <3>1
  <2>2. s = [g \in 1..count |-> s[g]]
    <3> USE DEF s
    <3> QED
      BY <1>3
  <2>3. QED
    BY <2>1, <2>2 DEF s
<1>8. QED
  BY <1>4, <1>5, <1>6, <1>7 DEF size

(* A group of e lines, the last of which may lack its new line, is cut     *)
(* where its lines begin, and gives the code of each.                      *)
HasLines(group, e, code) ==
  /\ Len(group) \in Nat \ {0} /\ DOMAIN group = 1..Len(group)
  /\ Len(group) = e * LineLength \/ Len(group) + 1 = e * LineLength
  /\ \A k \in 0..e - 1 : \A x \in 1..CodeLength :
       group[k * LineLength + x] = <<code[k], x>>
  /\ \A k \in 1..e :
       k * LineLength <= Len(group) => group[k * LineLength] = NewLine

(* The lines of a group are these codes, each known by the place before    *)
(* it.                                                                     *)
GivesCodes(group, e, code) ==
  /\ DOMAIN SplitFiscalCodes(group) = {k * LineLength : k \in 0..e - 1}
  /\ \A k \in 0..e - 1 :
       SplitFiscalCodes(group)[k * LineLength] = Characters(code[k])

(* No character of a code is a new line.                                   *)
LEMMA CharacterIsNoNewLine ==
  ASSUME NEW code, NEW x \in 1..CodeLength
  PROVE  <<code, x>> # NewLine
<1>1. x # 0
  BY SizesAssumption
<1>2. <<code, x>>[2] = x /\ NewLine[2] = 0
  BY Zenon DEF NewLine
<1>3. QED
  BY <1>1, <1>2, Zenon

(* Cutting a group at its new lines gives the codes that are in it.        *)
LEMMA SplitIs ==
  ASSUME NEW group, NEW e \in Nat \ {0}, NEW code, HasLines(group, e, code)
  PROVE  GivesCodes(group, e, code)
<1> DEFINE text == IF Last(group) = NewLine THEN Front(group) ELSE group
           newLines == {i \in DOMAIN text : text[i] = NewLine}
           EndsAfter(start) == {end \in newLines \cup {Len(text) + 1} : end > start}
           Line(start) == SubSeq(text, start + 1, Min(EndsAfter(start)) - 1)
           size == e * LineLength
           length == Len(group)
<1>1. /\ LineLength \in Nat \ {0, 1} /\ CodeLength = LineLength - 1
      /\ size \in Nat \ {0}
  BY LineLengthType DEF LineLengthIs
<1>2. SplitFiscalCodes(group) = [start \in {0} \cup newLines |-> Line(start)]
  BY DEF SplitFiscalCodes
<1>3. length \in Nat \ {0} /\ (length = size \/ length + 1 = size)
  BY DEF HasLines
<1> HIDE DEF size, length
<1>4. (e - 1) * LineLength + CodeLength = size - 1
  <2>1. (e - 1) * LineLength + LineLength = size
    BY <1>1 DEF size
  <2>2. (e - 1) * LineLength \in Nat
    BY <1>1
  <2>3. QED
    BY <1>1, <2>1, <2>2
<1>5. Last(group) = group[length]
  BY DEF Last, length
<1>6. Last(group) = NewLine <=> length = size
  <2>1. ASSUME length = size PROVE Last(group) = NewLine
    <3>1. e \in 1..e /\ size <= length
      BY <1>3, <2>1
    <3>2. group[size] = NewLine
      BY <3>1 DEF size, length, HasLines
    <3>3. QED
      BY <1>5, <2>1, <3>2
  <2>2. ASSUME length # size PROVE Last(group) # NewLine
    <3>1. length = (e - 1) * LineLength + CodeLength
      BY <1>1, <1>3, <1>4, <2>2
    <3>2. group[length] = <<code[e - 1], CodeLength>>
      <4>1. e - 1 \in 0..e - 1 /\ CodeLength \in 1..CodeLength
        BY <1>1
      <4>2. QED
        BY <3>1, <4>1 DEF HasLines
    <3>3. QED
      <4>1. CodeLength \in 1..CodeLength
        BY <1>1
      <4>2. QED
        BY <1>5, <3>2, <4>1, CharacterIsNoNewLine
  <2>3. QED
    BY <2>1, <2>2
<1>7. /\ Len(text) = size - 1 /\ DOMAIN text = 1..(size - 1)
      /\ \A i \in 1..(size - 1) : text[i] = group[i]
  <2>1. CASE length = size
    <3>1. text = SubSeq(group, 1, length - 1)
      BY <1>6, <2>1 DEF Front, length
    <3>2. text = [i \in 1..(length - 1) |-> group[i]]
      <4>1. text = [i \in 1..((length - 1) - 1 + 1) |-> group[1 + i - 1]]
        <5> HIDE DEF text
        <5> QED
          BY <1>3, <3>1
      <4>2. length - 1 - 1 + 1 = length - 1 /\ \A i \in 1..(length - 1) : 1 + i - 1 = i
        BY <1>3
      <4> HIDE DEF text
      <4>3. QED
        BY <4>1, <4>2
    <3> HIDE DEF text
    <3>3. QED
      BY <1>1, <2>1, <3>2
  <2>2. CASE length # size
    <3>1. text = group
      BY <1>6, <2>2
    <3>2. length = size - 1
      BY <1>1, <1>3, <2>2
    <3> HIDE DEF text
    <3>3. QED
      BY <3>1, <3>2 DEF length, HasLines
  <2>3. QED
    BY <2>1, <2>2
<1> HIDE DEF text
<1>8. newLines = {k * LineLength : k \in 1..e - 1}
  <2>1. ASSUME NEW k \in 1..e - 1 PROVE k * LineLength \in newLines
    <3>1. k * LineLength < size /\ k * LineLength \in Nat \ {0}
      <4>1. k \in Nat \ {0} /\ k < e
        OBVIOUS
      <4>2. k * LineLength < e * LineLength
        BY <1>1, <4>1, ProductOrder
      <4>3. k * LineLength \in Nat \ {0}
        BY <1>1, <4>1
      <4>4. QED
        BY <4>2, <4>3 DEF size
    <3>2. k * LineLength \in 1..(size - 1) /\ k * LineLength <= length /\ k \in 1..e
      BY <1>1, <1>3, <3>1
    <3>3. group[k * LineLength] = NewLine
      BY <3>2 DEF length, HasLines
    <3>4. QED
      BY <1>7, <3>2, <3>3
  <2>2. ASSUME NEW i \in newLines PROVE \E k \in 1..e - 1 : i = k * LineLength
    <3>1. i \in Nat \ {0} /\ i < size /\ group[i] = NewLine
      BY <1>1, <1>7
    <3>2. PICK q \in Nat, r \in 0..LineLength - 1 : i = q * LineLength + r
      BY <1>1, <3>1, Rest
    <3>3. q * LineLength < e * LineLength
      <4>1. q * LineLength \in Nat
        BY <1>1
      <4>2. q * LineLength < size
        BY <1>1, <3>1, <3>2, <4>1
      <4>3. QED
        BY <4>2 DEF size
    <3>4. q \in 0..e - 1
      <4>1. q < e
        BY <1>1, <3>3, ProductOrder
      <4>2. QED
        BY <4>1
    <3>5. r = 0
      <4>1. SUFFICES ASSUME r # 0 PROVE FALSE
        OBVIOUS
      <4>2. r \in 1..CodeLength
        BY <1>1, <4>1
      <4>3. group[i] = <<code[q], r>>
        BY <3>2, <3>4, <4>2 DEF HasLines
      <4>4. QED
        BY <3>1, <4>2, <4>3, CharacterIsNoNewLine
    <3>6. i = q * LineLength /\ q # 0
      <4>1. q * LineLength \in Nat
        BY <1>1
      <4>2. i = q * LineLength
        BY <3>2, <3>5, <4>1
      <4>3. QED
        BY <1>1, <3>1, <4>2
    <3>7. QED
      BY <3>4, <3>6
  <2> HIDE DEF newLines
  <2>3. QED
    BY <2>1, <2>2
<1> HIDE DEF newLines
<1>9. {0} \cup newLines = {k * LineLength : k \in 0..e - 1}
  <2>1. 0 * LineLength = 0
    BY <1>1
  <2>2. 0..e - 1 = {0} \cup 1..e - 1
    OBVIOUS
  <2>3. QED
    BY <1>8, <2>1, <2>2
<1>10. newLines \cup {Len(text) + 1} = {k * LineLength : k \in 1..e}
  <2>1. Len(text) + 1 = e * LineLength
    <3>1. Len(text) + 1 = size
      BY <1>1, <1>7
    <3>2. QED
      BY <3>1 DEF size
  <2>2. 1..e = 1..e - 1 \cup {e}
    OBVIOUS
  <2>3. QED
    BY <1>8, <2>1, <2>2
<1>11. ASSUME NEW k \in 0..e - 1
       PROVE  Line(k * LineLength) = Characters(code[k])
  <2> DEFINE start == k * LineLength
             end == (k + 1) * LineLength
  <2>1. /\ k \in Nat /\ k + 1 \in 1..e /\ k + 1 \in Nat
        /\ start \in Nat /\ end = start + LineLength
    <3>1. k \in Nat /\ k + 1 \in 1..e /\ k + 1 \in Nat
      OBVIOUS
    <3>2. start \in Nat /\ end = start + LineLength
      BY <1>1, <3>1, Product, ProductOrder
    <3>3. QED
      BY <3>1, <3>2
  <2>2. end \in EndsAfter(start)
    <3>1. end \in newLines \cup {Len(text) + 1}
      BY <1>10, <2>1
    <3>2. end > start
      <4> HIDE DEF start, end
      <4> QED
        BY <1>1, <2>1
    <3>3. QED
      BY <3>1, <3>2
  <2>3. ASSUME NEW y \in EndsAfter(start) PROVE end <= y
    <3>1. PICK j \in 1..e : y = j * LineLength
      BY <1>10
    <3>2. y > start
      OBVIOUS
    <3>3. k < j
      <4>1. k * LineLength < j * LineLength /\ j \in Nat
        <5>1. j * LineLength \in Nat /\ j \in Nat
          BY <1>1
        <5> HIDE DEF EndsAfter
        <5>2. QED
          BY <2>1, <3>1, <3>2, <5>1
      <4>2. QED
        BY <1>1, <2>1, <4>1, ProductOrder
    <3>4. k + 1 <= j
      BY <2>1, <3>3
    <3>5. (k + 1) * LineLength <= j * LineLength
      <4>1. j \in Nat
        OBVIOUS
      <4> HIDE DEF EndsAfter, start, end
      <4>2. QED
        BY <1>1, <2>1, <3>4, <4>1, ProductOrder
    <3>6. QED
      BY <3>1, <3>5
  <2>4. \A y \in EndsAfter(start) : y \in Nat
    <3>1. \A j \in 1..e : j * LineLength \in Nat
      BY <1>1
    <3>2. \A y \in newLines \cup {Len(text) + 1} : y \in Nat
      BY <1>10, <3>1
    <3>3. QED
      BY <3>2
  <2>5. Min(EndsAfter(start)) = end
    <3> DEFINE ends == EndsAfter(start)
    <3>1. end \in ends /\ (\A y \in ends : end <= y) /\ (\A y \in ends : y \in Nat)
      BY <2>2, <2>3, <2>4
    <3>2. ends = EndsAfter(start)
      OBVIOUS
    <3> HIDE DEF ends, EndsAfter, start, end
    <3>3. Min(ends) \in ends /\ \A y \in ends : Min(ends) <= y
      BY <3>1 DEF Min
    <3>4. Min(ends) = end
      BY <3>1, <3>3
    <3>5. QED
      BY <3>2, <3>4
  <2>6. Line(start) = SubSeq(text, start + 1, end - 1)
    BY <2>5
  <2>7. end - 1 < size /\ end <= size
    <3>1. (k + 1) * LineLength <= e * LineLength
      <4>1. k + 1 <= e
        BY <2>1
      <4> HIDE DEF start, end
      <4>2. QED
        BY <1>1, <2>1, <4>1, ProductOrder
    <3>2. end <= size
      BY <3>1 DEF size
    <3> HIDE DEF end, start
    <3>3. QED
      BY <1>1, <2>1, <3>2
  <2>8. \A x \in 1..CodeLength : start + x \in 1..(size - 1)
    <3> HIDE DEF end, start
    <3> QED
      BY <1>1, <2>1, <2>7
  <2>9. Line(start) = [x \in 1..CodeLength |-> text[start + x]]
    <3> HIDE DEF end, start, Line
    <3>1. Line(start) = [x \in 1..(end - 1 - (start + 1) + 1) |-> text[start + 1 + x - 1]]
      BY <1>1, <2>1, <2>6
    <3>2. end - 1 - (start + 1) + 1 = CodeLength
          /\ \A x \in 1..CodeLength : start + 1 + x - 1 = start + x
      BY <1>1, <2>1
    <3>3. QED
      BY <3>1, <3>2
  <2>10. \A x \in 1..CodeLength : text[start + x] = <<code[k], x>>
    <3>1. \A x \in 1..CodeLength : group[start + x] = <<code[k], x>>
      BY DEF HasLines
    <3> HIDE DEF start
    <3>2. QED
      BY <1>7, <2>8, <3>1
  <2> HIDE DEF Line, start
  <2>11. Line(start) = [x \in 1..CodeLength |-> <<code[k], x>>]
    BY <2>9, <2>10
  <2>12. QED
    BY <2>11 DEF Characters, start
<1> HIDE DEF Line
<1>12. DOMAIN SplitFiscalCodes(group) = {k * LineLength : k \in 0..e - 1}
  BY <1>2, <1>9
<1>13. \A k \in 0..e - 1 : k * LineLength \in {0} \cup newLines
  BY <1>9
<1>14. \A k \in 0..e - 1 :
         SplitFiscalCodes(group)[k * LineLength] = Characters(code[k])
  BY <1>2, <1>11, <1>13
<1>15. QED
  BY <1>12, <1>14 DEF GivesCodes

(* A line of the characters of a code has that code for its recipient.     *)
LEMMA RecipientOfCode ==
  ASSUME NEW code \in FiscalCodes
  PROVE  Recipient(Characters(code)) = code
<1>1. 1 \in 1..CodeLength
  BY SizesAssumption
<1>2. ASSUME NEW other \in FiscalCodes, Characters(code) = Characters(other)
      PROVE  other = code
  <2>1. Characters(code)[1] = <<code, 1>> /\ Characters(other)[1] = <<other, 1>>
    BY <1>1 DEF Characters
  <2>2. QED
    BY <1>2, <2>1
<1>3. QED
  BY <1>2 DEF Recipient

(* A group of a text is whole lines: those of BatchSize codes, or of the   *)
(* last ones.                                                              *)
LEMMA GroupHasLines ==
  ASSUME NEW codes \in Seq(FiscalCodes), NEW newLine \in BOOLEAN,
         NEW g \in DOMAIN Split(Text(codes, newLine))
  PROVE  LET before == (g - 1) * BatchSize IN
         \E e \in 1..BatchSize :
           /\ before + e <= Len(codes) /\ (e = BatchSize \/ before + e = Len(codes))
           /\ HasLines(Split(Text(codes, newLine))[g], e,
                       [k \in 0..e - 1 |-> codes[before + k + 1]])
<1> DEFINE text == Text(codes, newLine)
           n == Len(codes)
           group == Split(text)[g]
           before == (g - 1) * BatchSize
           length == Len(group)
<1>1. /\ LineLength \in Nat \ {0, 1} /\ CodeLength = LineLength - 1
      /\ BatchSize \in Nat \ {0} /\ n \in Nat
  BY LineLengthType, SizesAssumption DEF LineLengthIs
<1>2. /\ Len(text) \in Nat /\ DOMAIN text = 1..Len(text)
      /\ n * LineLength <= Len(text) + 1 /\ Len(text) <= n * LineLength
  BY TextIs
<1>3. ASSUME NEW q \in Nat, NEW x \in 1..CodeLength,
             q * LineLength + x <= Len(text)
      PROVE  text[q * LineLength + x] = <<codes[q + 1], x>>
  BY <1>3, TextIs
<1>4. ASSUME NEW q \in Nat \ {0}, q * LineLength <= Len(text)
      PROVE  text[q * LineLength] = NewLine
  BY <1>4, TextIs
<1> HIDE DEF n, text
<1>5. g \in DOMAIN Split(text)
  BY DEF text
<1>6. /\ g \in Nat \ {0} /\ length \in Nat \ {0} /\ DOMAIN group = 1..length
      /\ length = GroupSize \/ length < GroupSize
      /\ length < GroupSize => (g - 1) * GroupSize + length = Len(text)
      /\ (g - 1) * GroupSize + length <= Len(text)
      /\ \A x \in 1..length : group[x] = text[(g - 1) * GroupSize + x]
  BY <1>2, <1>5, GroupIs
<1>7. before \in Nat /\ (g - 1) * GroupSize = before * LineLength
  <2>1. g - 1 \in Nat
    BY <1>6
  <2>2. before \in Nat
    BY <1>1, <2>1, Product
  <2>3. \A a \in Nat, b \in Nat, c \in Nat : a * (b * c) = (a * b) * c
    OBVIOUS
  <2>4. QED
    BY <1>1, <2>1, <2>2, <2>3 DEF GroupSize
<1> HIDE DEF group, length, before
<1>8. before * LineLength \in Nat /\ n * LineLength \in Nat
      /\ BatchSize * LineLength \in Nat
  BY <1>1, <1>7, Product
<1>9. \E e \in 1..BatchSize :
        /\ before + e <= n /\ (e = BatchSize \/ before + e = n)
        /\ length = e * LineLength \/ length + 1 = e * LineLength
  <2>1. CASE length = GroupSize
    <3>1. before * LineLength + BatchSize * LineLength <= n * LineLength
      BY <1>2, <1>6, <1>7, <1>8, <2>1 DEF GroupSize
    <3>2. (before + BatchSize) * LineLength <= n * LineLength
      BY <1>1, <1>7, <3>1, ProductOrder
    <3>3. before + BatchSize \in Nat
      BY <1>1, <1>7
    <3>4. before + BatchSize <= n
      BY <1>1, <3>2, <3>3, ProductOrder
    <3>5. BatchSize \in 1..BatchSize
      BY <1>1
    <3>6. QED
      BY <2>1, <3>4, <3>5 DEF GroupSize
  <2>2. CASE length < GroupSize
    <3>1. before * LineLength + length = Len(text)
      BY <1>6, <1>7, <2>2
    <3>2. before * LineLength < n * LineLength
      BY <1>2, <1>6, <1>8, <3>1
    <3>3. before < n
      BY <1>1, <1>7, <3>2, ProductOrder
    <3> DEFINE e == n - before
    <3>4. e \in Nat \ {0} /\ before + e = n
      BY <1>1, <1>7, <3>3
    <3>5. e * LineLength = n * LineLength - before * LineLength
      BY <1>1, <1>7, <3>3, ProductOrder
    <3> HIDE DEF e
    <3>6. e * LineLength \in Nat
      BY <1>1, <3>4, Product
    <3>7. length = e * LineLength \/ length + 1 = e * LineLength
      <4> DEFINE s == e * LineLength
                 p == before * LineLength
                 r == n * LineLength
      <4>1. /\ s \in Nat /\ p \in Nat /\ r \in Nat /\ s = r - p
            /\ p + length = Len(text) /\ r <= Len(text) + 1 /\ Len(text) <= r
        BY <1>2, <1>8, <3>1, <3>5, <3>6
      <4> HIDE DEF s, p, r
      <4>2. length = s \/ length + 1 = s
        BY <1>2, <1>6, <4>1
      <4>3. QED
        BY <4>2 DEF s
    <3>8. e * LineLength <= BatchSize * LineLength
      <4> DEFINE s == e * LineLength
                 b == BatchSize * LineLength
      <4>1. s \in Nat /\ b \in Nat /\ length < b /\ (length = s \/ length + 1 = s)
        BY <1>8, <2>2, <3>6, <3>7 DEF GroupSize
      <4> HIDE DEF s, b
      <4>2. s <= b
        BY <1>6, <4>1
      <4>3. QED
        BY <4>2 DEF s, b
    <3>9. e <= BatchSize
      BY <1>1, <3>4, <3>8, ProductOrder
    <3>10. e \in 1..BatchSize
      BY <1>1, <3>4, <3>9
    <3>11. QED
      BY <1>1, <3>4, <3>7, <3>10
  <2>3. QED
    BY <1>6, <2>1, <2>2
<1>10. PICK e \in 1..BatchSize :
        /\ before + e <= n /\ (e = BatchSize \/ before + e = n)
        /\ length = e * LineLength \/ length + 1 = e * LineLength
  BY <1>9
<1> DEFINE code == [k \in 0..e - 1 |-> codes[before + k + 1]]
<1>11. e \in Nat \ {0}
  BY <1>1
<1>12. ASSUME NEW k \in 0..e - 1, NEW x \in 1..CodeLength
       PROVE  group[k * LineLength + x] = <<code[k], x>>
  <2> DEFINE i == k * LineLength + x
             q == before + k
  <2>1. k \in Nat /\ x \in Nat \ {0} /\ x <= LineLength - 1 /\ q \in Nat
        /\ k * LineLength \in Nat /\ i \in Nat \ {0}
    BY <1>1, <1>7, <1>11
  <2>2. i <= length
    <3>1. (k + 1) * LineLength <= e * LineLength
      <4>1. k + 1 \in Nat /\ k + 1 <= e
        BY <1>11
      <4>2. QED
        BY <1>1, <1>11, <4>1, ProductOrder
    <3>2. (k + 1) * LineLength = k * LineLength + LineLength
      BY <1>1, <2>1, ProductOrder
    <3> DEFINE s == e * LineLength
               p == k * LineLength
    <3>3. s \in Nat /\ p \in Nat /\ p + LineLength <= s
          /\ (length = s \/ length + 1 = s) /\ i = p + x
      BY <1>1, <1>10, <1>11, <2>1, <3>1, <3>2, Product
    <3> HIDE DEF s, p, i
    <3>4. QED
      BY <1>1, <1>6, <2>1, <3>3
  <2>3. group[i] = text[before * LineLength + i]
    <3> HIDE DEF i
    <3>1. i \in 1..length
      BY <1>6, <2>1, <2>2
    <3>2. QED
      BY <1>6, <1>7, <3>1
  <2>4. before * LineLength + i = q * LineLength + x
        /\ before * LineLength + i <= Len(text)
    <3>1. q * LineLength = before * LineLength + k * LineLength
      BY <1>1, <1>7, <2>1, ProductOrder
    <3>2. before * LineLength + length <= Len(text)
      BY <1>6, <1>7
    <3> DEFINE p == k * LineLength
               s == before * LineLength
               t == q * LineLength
    <3>3. p \in Nat /\ s \in Nat /\ t = s + p /\ i = p + x /\ s + length <= Len(text)
      BY <1>8, <2>1, <3>1, <3>2
    <3> HIDE DEF p, s, t, i
    <3>4. s + i = t + x /\ s + i <= Len(text)
      BY <1>2, <1>6, <2>1, <2>2, <3>3
    <3>5. QED
      BY <3>4 DEF s, t
  <2>5. text[q * LineLength + x] = <<codes[q + 1], x>>
    BY <1>3, <2>1, <2>4
  <2>6. code[k] = codes[q + 1]
    OBVIOUS
  <2> HIDE DEF code, q
  <2>7. QED
    BY <2>3, <2>4, <2>5, <2>6
<1>13. ASSUME NEW k \in 1..e, k * LineLength <= length
       PROVE  group[k * LineLength] = NewLine
  <2> DEFINE i == k * LineLength
             q == before + k
  <2>1. k \in Nat \ {0} /\ q \in Nat \ {0} /\ i \in Nat \ {0}
    BY <1>1, <1>7, <1>11
  <2>2. group[i] = text[before * LineLength + i]
    <3> HIDE DEF i
    <3>1. i \in 1..length
      BY <1>6, <1>13, <2>1 DEF i
    <3>2. QED
      BY <1>6, <1>7, <3>1
  <2>3. before * LineLength + i = q * LineLength
    BY <1>1, <1>7, <2>1, ProductOrder
  <2>4. q * LineLength <= Len(text)
    <3>1. before * LineLength + length <= Len(text)
      BY <1>6, <1>7
    <3> DEFINE s == before * LineLength
               t == q * LineLength
    <3>2. s \in Nat /\ t = s + i /\ i <= length /\ s + length <= Len(text)
      BY <1>8, <1>13, <2>3, <3>1
    <3> HIDE DEF s, t, i
    <3>3. t <= Len(text)
      BY <1>2, <1>6, <2>1, <3>2
    <3>4. QED
      BY <3>3 DEF t
  <2>5. text[q * LineLength] = NewLine
    BY <1>4, <2>1, <2>4
  <2>6. QED
    BY <2>2, <2>3, <2>5
<1>14. HasLines(group, e, code)
  BY <1>6, <1>10, <1>12, <1>13 DEF HasLines, length
<1>15. QED
  BY <1>10, <1>14 DEF before, n, group, text

(* The recipients of a file are the codes that it lists: the place p of    *)
(* the group g, counted from the beginning of the text, is where the line  *)
(* of a listing begins, and there is one for each listing.                 *)
ListingAt(codes, g, p, j) == (g - 1) * GroupSize + p = (j - 1) * LineLength

(* Groups list codes of the file only, at the places where the file lists  *)
(* them.                                                                   *)
ListsOnly(codes, recipients) ==
  \A g \in DOMAIN recipients : \A p \in DOMAIN recipients[g] :
    /\ g \in Nat \ {0} /\ p \in Nat /\ p < GroupSize
    /\ \E j \in DOMAIN codes :
         ListingAt(codes, g, p, j) /\ recipients[g][p] = codes[j]

(* And they list all of them.                                              *)
ListsAll(codes, recipients) ==
  \A j \in DOMAIN codes :
    \E g \in DOMAIN recipients : \E p \in DOMAIN recipients[g] :
      ListingAt(codes, g, p, j)

(* What a group gives: its codes, each where its line begins.              *)
LEMMA RecipientsOfGroup ==
  ASSUME NEW codes \in Seq(FiscalCodes), NEW newLine \in BOOLEAN,
         NEW g \in DOMAIN Split(Text(codes, newLine))
  PROVE  LET before == (g - 1) * BatchSize
             recipients == RecipientsOf(Text(codes, newLine)) IN
         \E e \in 1..BatchSize :
           /\ before + e <= Len(codes) /\ (e = BatchSize \/ before + e = Len(codes))
           /\ DOMAIN recipients[g] = {k * LineLength : k \in 0..e - 1}
           /\ \A k \in 0..e - 1 :
                recipients[g][k * LineLength] = codes[before + k + 1]
<1> DEFINE text == Text(codes, newLine)
           before == (g - 1) * BatchSize
           recipients == RecipientsOf(text)
           lines == SplitFiscalCodes(Split(text)[g])
           Code(e) == [k \in 0..e - 1 |-> codes[before + k + 1]]
<1>1. PICK e \in 1..BatchSize :
        /\ before + e <= Len(codes) /\ (e = BatchSize \/ before + e = Len(codes))
        /\ HasLines(Split(text)[g], e, Code(e))
  BY GroupHasLines
<1>2. recipients[g] = [i \in DOMAIN lines |-> Recipient(lines[i])]
  BY DEF RecipientsOf
<1>3. e \in Nat \ {0} /\ BatchSize \in Nat \ {0} /\ before \in Nat
  <2>1. BatchSize \in Nat \ {0}
    BY SizesAssumption
  <2>2. g \in Nat \ {0}
    BY TextIs, GroupIs
  <2>3. g - 1 \in Nat
    BY <2>2
  <2>4. QED
    BY <2>1, <2>3, Product
<1>4. /\ DOMAIN lines = {k * LineLength : k \in 0..e - 1}
      /\ \A k \in 0..e - 1 : lines[k * LineLength] = Characters(Code(e)[k])
  <2> DEFINE group == Split(text)[g]
             code == Code(e)
  <2>1. HasLines(group, e, code)
    BY <1>1
  <2> HIDE DEF group, code
  <2>2. GivesCodes(group, e, code)
    BY <1>3, <2>1, SplitIs, Zenon
  <2>3. QED
    BY <2>2 DEF GivesCodes, group, code
<1> HIDE DEF lines, recipients
<1>5. ASSUME NEW k \in 0..e - 1
      PROVE  recipients[g][k * LineLength] = codes[before + k + 1]
  <2>1. before + k + 1 \in DOMAIN codes
    <3> HIDE DEF before
    <3> QED
      BY <1>1, <1>3
  <2>2. codes[before + k + 1] \in FiscalCodes /\ Code(e)[k] = codes[before + k + 1]
    BY <2>1
  <2>3. k * LineLength \in DOMAIN lines
    BY <1>4
  <2>4. recipients[g][k * LineLength] = Recipient(lines[k * LineLength])
    BY <1>2, <2>3
  <2>5. lines[k * LineLength] = Characters(codes[before + k + 1])
    BY <1>4, <2>2
  <2>6. QED
    BY <2>2, <2>4, <2>5, RecipientOfCode
<1>6. DOMAIN recipients[g] = {k * LineLength : k \in 0..e - 1}
  BY <1>2, <1>4
<1>7. QED
  BY <1>1, <1>5, <1>6 DEF recipients

(* Cutting a file by its characters and then by its new lines gives the    *)
(* codes that it lists, each at one place.                                 *)
LEMMA RecipientsAreListings ==
  ASSUME NEW codes \in Seq(FiscalCodes), NEW newLine \in BOOLEAN
  PROVE  LET recipients == RecipientsOf(Text(codes, newLine)) IN
         /\ recipients \in Seq(Range(recipients))
         /\ ListsOnly(codes, recipients) /\ ListsAll(codes, recipients)
         /\ \A g \in DOMAIN recipients :
              /\ DOMAIN recipients[g] \subseteq Nat
              /\ recipients[g] \in [DOMAIN recipients[g] -> FiscalCodes]
<1> DEFINE text == Text(codes, newLine)
           n == Len(codes)
           recipients == RecipientsOf(text)
           before(g) == (g - 1) * BatchSize
           Whole(g, e) ==
             /\ before(g) + e <= n /\ (e = BatchSize \/ before(g) + e = n)
             /\ DOMAIN recipients[g] = {k * LineLength : k \in 0..e - 1}
             /\ \A k \in 0..e - 1 :
                  recipients[g][k * LineLength] = codes[before(g) + k + 1]
<1>1. /\ LineLength \in Nat \ {0, 1} /\ BatchSize \in Nat \ {0} /\ n \in Nat
      /\ DOMAIN codes = 1..n
  BY LineLengthType, SizesAssumption DEF LineLengthIs
<1>2. /\ Len(text) \in Nat /\ DOMAIN text = 1..Len(text)
      /\ n * LineLength <= Len(text) + 1
  BY TextIs
<1>3. DOMAIN recipients = DOMAIN Split(text)
  BY DEF RecipientsOf
<1>4. \A g \in DOMAIN recipients : g \in Nat \ {0}
  BY <1>2, <1>3, GroupIs
<1>5. \A g \in DOMAIN recipients : \E e \in 1..BatchSize : Whole(g, e)
  BY <1>3, RecipientsOfGroup
<1>6. \A g \in Nat \ {0} :
        g \in DOMAIN recipients <=> (g - 1) * GroupSize < Len(text)
  BY <1>2, <1>3, GroupIs
<1>7. recipients \in Seq(Range(recipients))
  <2>1. Split(text) \in Seq(Range(Split(text)))
    BY <1>2, GroupIs
  <2> DEFINE count == Len(Split(text))
  <2>2. count \in Nat /\ DOMAIN Split(text) = 1..count
    BY <2>1
  <2>3. recipients = [g \in 1..count |-> recipients[g]]
    BY <2>2 DEF RecipientsOf
  <2> HIDE DEF count, recipients
  <2>4. \A g \in 1..count : recipients[g] \in Range(recipients)
    BY <2>3 DEF Range
  <2>5. QED
    BY <2>2, <2>3, <2>4
<1> HIDE DEF text, n, recipients
<1>8. \A g \in Nat \ {0} : /\ before(g) \in Nat
                           /\ (g - 1) * GroupSize = before(g) * LineLength
  <2> TAKE g \in Nat \ {0}
  <2>1. g - 1 \in Nat
    OBVIOUS
  <2>2. \A a \in Nat, b \in Nat, c \in Nat : a * (b * c) = (a * b) * c
    OBVIOUS
  <2>3. QED
    BY <1>1, <2>1, <2>2, Product DEF GroupSize
<1> HIDE DEF before
<1>9. ASSUME NEW g \in DOMAIN recipients, NEW p \in DOMAIN recipients[g]
      PROVE  /\ g \in Nat \ {0} /\ p \in Nat /\ p < GroupSize
             /\ \E j \in DOMAIN codes :
                  ListingAt(codes, g, p, j) /\ recipients[g][p] = codes[j]
  <2>1. PICK e \in 1..BatchSize : Whole(g, e)
    BY <1>5
  <2>2. PICK k \in 0..e - 1 : p = k * LineLength
    BY <2>1
  <2>3. g \in Nat \ {0} /\ k \in Nat /\ e \in Nat /\ k < e /\ e <= BatchSize
        /\ before(g) \in Nat
    BY <1>1, <1>4, <1>8
  <2>4. p \in Nat /\ p < GroupSize
    <3>1. k < BatchSize
      BY <1>1, <2>3
    <3>2. QED
      BY <1>1, <2>2, <2>3, <3>1, Product, ProductOrder DEF GroupSize
  <2> DEFINE j == before(g) + k + 1
  <2>5. j \in DOMAIN codes /\ j - 1 = before(g) + k
    BY <1>1, <2>1, <2>3
  <2>6. recipients[g][p] = codes[j]
    BY <2>1, <2>2
  <2>7. ListingAt(codes, g, p, j)
    <3>1. (before(g) + k) * LineLength = before(g) * LineLength + k * LineLength
      BY <1>1, <2>3, ProductOrder
    <3> HIDE DEF j
    <3>2. QED
      BY <1>8, <2>2, <2>3, <2>5, <3>1 DEF ListingAt
  <2> HIDE DEF j
  <2>8. QED
    BY <2>3, <2>4, <2>5, <2>6, <2>7
<1>10. ListsOnly(codes, recipients)
  BY <1>9 DEF ListsOnly
<1>11. ASSUME NEW j \in DOMAIN codes
       PROVE  \E g \in DOMAIN recipients : \E p \in DOMAIN recipients[g] :
                ListingAt(codes, g, p, j)
  <2>1. j \in Nat \ {0} /\ j <= n /\ j - 1 \in Nat
    BY <1>1
  <2>2. PICK q \in Nat, k \in 0..BatchSize - 1 : j - 1 = q * BatchSize + k
    BY <1>1, <2>1, Rest
  <2> DEFINE g == q + 1
             p == k * LineLength
  <2>3. g \in Nat \ {0} /\ g - 1 = q /\ k \in Nat /\ k < BatchSize
        /\ before(g) = q * BatchSize
    BY <1>1 DEF before
  <2> HIDE DEF g
  <2>4. before(g) \in Nat /\ j - 1 = before(g) + k
    BY <1>8, <2>2, <2>3
  <2>5. g \in DOMAIN recipients
    <3>1. before(g) < n
      BY <1>1, <2>1, <2>3, <2>4
    <3>2. (before(g) + 1) * LineLength <= n * LineLength
      <4>1. before(g) + 1 \in Nat /\ before(g) + 1 <= n
        BY <1>1, <2>4, <3>1
      <4>2. QED
        BY <1>1, <4>1, ProductOrder
    <3>3. (before(g) + 1) * LineLength = before(g) * LineLength + LineLength
      BY <1>1, <2>4, ProductOrder
    <3> DEFINE s == before(g) * LineLength
               t == n * LineLength
    <3>4. s \in Nat /\ t \in Nat /\ s + LineLength <= t /\ t <= Len(text) + 1
      BY <1>1, <1>2, <2>4, <3>2, <3>3, Product
    <3> HIDE DEF s, t
    <3>5. s < Len(text)
      BY <1>1, <1>2, <3>4
    <3>6. QED
      BY <1>6, <1>8, <2>3, <3>5 DEF s
  <2>6. PICK e \in 1..BatchSize : Whole(g, e)
    BY <1>5, <2>5
  <2>7. k \in 0..e - 1
    BY <1>1, <2>1, <2>3, <2>4, <2>6
  <2>8. p \in DOMAIN recipients[g]
    BY <2>6, <2>7
  <2>9. ListingAt(codes, g, p, j)
    <3>1. (before(g) + k) * LineLength = before(g) * LineLength + k * LineLength
      BY <1>1, <2>3, <2>4, ProductOrder
    <3>2. QED
      BY <1>8, <2>3, <2>4, <3>1 DEF ListingAt
  <2>10. QED
    BY <2>5, <2>8, <2>9
<1>12. ListsAll(codes, recipients)
  BY <1>11 DEF ListsAll
<1>13. ASSUME NEW g \in DOMAIN recipients
       PROVE  /\ DOMAIN recipients[g] \subseteq Nat
              /\ recipients[g] \in [DOMAIN recipients[g] -> FiscalCodes]
  <2>1. \A p \in DOMAIN recipients[g] :
          p \in Nat /\ recipients[g][p] \in FiscalCodes
    BY <1>9
  <2>2. recipients[g] = [p \in DOMAIN recipients[g] |-> recipients[g][p]]
    BY DEF RecipientsOf, recipients
  <2>3. QED
    BY <2>1, <2>2
<1>14. QED
  BY <1>7, <1>10, <1>12, <1>13 DEF recipients, text

----------------------------------------------------------------------------
(* The places of a recipient in the groups, and those that are still to be *)
(* sent to: in groups that are not dispatched, in messages of the queue    *)
(* (as often as there are messages), and in hand.                          *)
PlacesOf(r) ==
  {s \in (DOMAIN groups) \X Nat :
     s[2] \in DOMAIN groups[s[1]] /\ groups[s[1]][s[2]] = r}

InGroup(g, r) == {s \in PlacesOf(r) : s[1] = g}
InGroups(d, r) == {s \in PlacesOf(r) : s[1] \in d}
InMessages(q, r) == {t \in q \X PlacesOf(r) : t[2][1] = t[1].group}
InHand(g, w, r) == {s \in InGroup(g, r) : s[2] \in w}

Left(r, d, q, g, w) ==
  Cardinality(InGroups(d, r)) + Cardinality(InMessages(q, r))
    + Cardinality(InHand(g, w, r))

OnTheirWay(r) == Left(r, dispatching, queue, handling.group, waiting)

(* The groups are those of the file.                                       *)
GroupsInv ==
  /\ file \in Files /\ groups \in Seq(Range(groups))
  /\ ListsOnly(file, groups) /\ ListsAll(file, groups)
  /\ \A g \in DOMAIN groups :
       DOMAIN groups[g] \subseteq Nat /\ groups[g] \in [DOMAIN groups[g] -> Recipients]

(* A place is a pair.                                                      *)
LEMMA Pairs ==
  ASSUME NEW S, NEW T
  PROVE  /\ \A a \in S, b \in T :
              <<a, b>>[1] = a /\ <<a, b>>[2] = b /\ <<a, b>> \in S \X T
         /\ \A s \in S \X T : s = <<s[1], s[2]>> /\ s[1] \in S /\ s[2] \in T
OBVIOUS

(* A place is a group and a line of it.                                    *)
LEMMA PlaceIs ==
  ASSUME NEW r
  PROVE  /\ \A s \in PlacesOf(r) :
              /\ s = <<s[1], s[2]>>
              /\ s[1] \in DOMAIN groups /\ s[2] \in DOMAIN groups[s[1]]
              /\ groups[s[1]][s[2]] = r
         /\ \A g \in DOMAIN groups, p \in Nat :
              p \in DOMAIN groups[g] /\ groups[g][p] = r => <<g, p>> \in PlacesOf(r)
<1>1. /\ \A g \in DOMAIN groups, p \in Nat :
           /\ <<g, p>>[1] = g /\ <<g, p>>[2] = p
           /\ <<g, p>> \in (DOMAIN groups) \X Nat
      /\ \A s \in (DOMAIN groups) \X Nat :
           s = <<s[1], s[2]>> /\ s[1] \in DOMAIN groups
  BY Pairs
<1>2. QED
  BY <1>1, Zenon DEF PlacesOf

(* A recipient has no more places than listings: each is where the line of *)
(* one of them begins.                                                     *)
LEMMA PlacesAreListings ==
  ASSUME GroupsInv, NEW r
  PROVE  /\ IsFiniteSet(PlacesOf(r)) /\ Cardinality(PlacesOf(r)) \in Nat
         /\ Listings(r) \in Nat /\ Cardinality(PlacesOf(r)) <= Listings(r)
<1> DEFINE places == PlacesOf(r)
           listings == {i \in DOMAIN file : file[i] = r}
           Listing(s) == CHOOSE j \in DOMAIN file :
                           /\ ListingAt(file, s[1], s[2], j)
                           /\ groups[s[1]][s[2]] = file[j]
           f == [s \in places |-> Listing(s)]
<1>1. /\ LineLength \in Nat \ {0, 1} /\ GroupSize \in Nat \ {0}
      /\ file \in Seq(FiscalCodes) /\ DOMAIN file = 1..Len(file) /\ Len(file) \in Nat
  <2>1. LineLength \in Nat \ {0, 1} /\ BatchSize \in Nat \ {0}
    BY LineLengthType, SizesAssumption DEF LineLengthIs
  <2>2. GroupSize \in Nat \ {0}
    BY <2>1 DEF GroupSize
  <2>3. file \in Seq(FiscalCodes)
    BY SizesAssumption DEF GroupsInv
  <2>4. QED
    BY <2>1, <2>2, <2>3
<1>2. ASSUME NEW s \in places
      PROVE  /\ s[1] \in Nat \ {0} /\ s[2] \in Nat /\ s[2] < GroupSize
             /\ s = <<s[1], s[2]>>
             /\ Listing(s) \in listings /\ ListingAt(file, s[1], s[2], Listing(s))
  <2>1. /\ s[1] \in DOMAIN groups /\ s[2] \in DOMAIN groups[s[1]]
        /\ groups[s[1]][s[2]] = r /\ s = <<s[1], s[2]>>
    BY PlaceIs, Zenon DEF places
  <2>2. /\ s[1] \in Nat \ {0} /\ s[2] \in Nat /\ s[2] < GroupSize
        /\ \E j \in DOMAIN file :
             ListingAt(file, s[1], s[2], j) /\ groups[s[1]][s[2]] = file[j]
    BY <2>1 DEF GroupsInv, ListsOnly
  <2>3. /\ Listing(s) \in DOMAIN file /\ ListingAt(file, s[1], s[2], Listing(s))
        /\ groups[s[1]][s[2]] = file[Listing(s)]
    BY <2>2, Zenon
  <2> HIDE DEF Listing
  <2>4. QED
    BY <2>1, <2>2, <2>3
<1> HIDE DEF Listing
<1>3. f \in [places -> listings]
  BY <1>2
<1>4. ASSUME NEW s \in places, NEW t \in places, f[s] = f[t]
      PROVE  s = t
  <2> DEFINE a == s[1] - 1
             b == t[1] - 1
             p == s[2]
             q == t[2]
             k == GroupSize
  <2>1. Listing(s) = Listing(t)
    BY <1>4
  <2>2. a * k + p = b * k + q
    BY <1>2, <2>1 DEF ListingAt
  <2>3. a \in Nat /\ b \in Nat /\ p \in 0..k - 1 /\ q \in 0..k - 1 /\ k \in Nat \ {0}
    BY <1>1, <1>2
  <2>4. s[1] = a + 1 /\ t[1] = b + 1
    BY <1>2
  <2> HIDE DEF a, b, p, q, k
  <2>5. (a * k + p) \div k = a /\ (a * k + p) % k = p
    BY <2>3, Quotient
  <2>6. (b * k + q) \div k = b /\ (b * k + q) % k = q
    BY <2>3, Quotient
  <2>7. a = b /\ p = q
    BY <2>2, <2>5, <2>6
  <2>8. s[1] = t[1] /\ s[2] = t[2]
    BY <2>4, <2>7 DEF p, q
  <2>9. QED
    BY <1>2, <2>8, Zenon
<1>5. f \in Injection(places, listings)
  <2>1. IsInjective(f)
    BY <1>4 DEF IsInjective
  <2>2. QED
    BY <1>3, <2>1 DEF Injection
<1>6. IsFiniteSet(listings)
  <2>1. IsFiniteSet(DOMAIN file)
    BY <1>1, FS_Interval
  <2>2. listings \in SUBSET DOMAIN file
    OBVIOUS
  <2>3. QED
    BY <2>1, <2>2, FS_Subset
<1>7. IsFiniteSet(places) /\ Cardinality(places) <= Cardinality(listings)
  <2> HIDE DEF listings, f
  <2>1. QED
    BY <1>5, <1>6, FS_Injection
<1>8. Cardinality(places) \in Nat /\ Cardinality(listings) \in Nat
  BY <1>6, <1>7, FS_CardinalityType
<1>9. QED
  BY <1>7, <1>8 DEF places, Listings

(* What was counted is finite.                                             *)
LEMMA PartsAreFinite ==
  ASSUME GroupsInv, NEW r, NEW d, NEW q, IsFiniteSet(q), NEW g, NEW w
  PROVE  /\ IsFiniteSet(InGroup(g, r)) /\ Cardinality(InGroup(g, r)) \in Nat
         /\ IsFiniteSet(InGroups(d, r)) /\ Cardinality(InGroups(d, r)) \in Nat
         /\ IsFiniteSet(InMessages(q, r)) /\ Cardinality(InMessages(q, r)) \in Nat
         /\ IsFiniteSet(InHand(g, w, r)) /\ Cardinality(InHand(g, w, r)) \in Nat
         /\ Cardinality(InGroup(g, r)) <= Cardinality(PlacesOf(r))
         /\ Cardinality(InGroups(d, r)) <= Cardinality(PlacesOf(r))
         /\ Cardinality(InHand(g, w, r)) <= Cardinality(InGroup(g, r))
<1>1. IsFiniteSet(PlacesOf(r))
  BY PlacesAreListings
<1>2. InGroup(g, r) \in SUBSET PlacesOf(r) /\ InGroups(d, r) \in SUBSET PlacesOf(r)
  BY DEF InGroup, InGroups
<1>3. InHand(g, w, r) \in SUBSET InGroup(g, r)
  BY DEF InHand
<1>4. IsFiniteSet(q \X PlacesOf(r))
  BY <1>1, FS_Product
<1>5. InMessages(q, r) \in SUBSET (q \X PlacesOf(r))
  BY DEF InMessages
<1>6. IsFiniteSet(InGroup(g, r)) /\ Cardinality(InGroup(g, r)) <= Cardinality(PlacesOf(r))
  BY <1>1, <1>2, FS_Subset
<1>7. IsFiniteSet(InGroups(d, r)) /\ Cardinality(InGroups(d, r)) <= Cardinality(PlacesOf(r))
  BY <1>1, <1>2, FS_Subset
<1>8. IsFiniteSet(InHand(g, w, r)) /\ Cardinality(InHand(g, w, r)) <= Cardinality(InGroup(g, r))
  BY <1>3, <1>6, FS_Subset
<1>9. IsFiniteSet(InMessages(q, r))
  BY <1>4, <1>5, FS_Subset
<1>10. QED
  BY <1>6, <1>7, <1>8, <1>9, FS_CardinalityType

(* A group that is dispatched takes its places out of those that are not,  *)
(* and one message more has its places at most.                            *)
LEMMA GroupLeaves ==
  ASSUME GroupsInv, NEW r, NEW d, NEW g \in d
  PROVE  Cardinality(InGroups(d \ {g}, r))
           = Cardinality(InGroups(d, r)) - Cardinality(InGroup(g, r))
<1>1. InGroups(d \ {g}, r) = InGroups(d, r) \ InGroup(g, r)
  BY DEF InGroups, InGroup
<1>2. InGroups(d, r) \cap InGroup(g, r) = InGroup(g, r)
  BY DEF InGroups, InGroup
<1>3. IsFiniteSet(InGroups(d, r))
  BY FS_EmptySet, PartsAreFinite
<1>4. QED
  BY <1>1, <1>2, <1>3, FS_Difference

(* The places of one message.                                              *)
LEMMA PlacesOfMessage ==
  ASSUME GroupsInv, NEW r, NEW m
  PROVE  LET places == {m} \X InGroup(m.group, r) IN
         IsFiniteSet(places) /\ Cardinality(places) = Cardinality(InGroup(m.group, r))
<1> DEFINE inGroup == InGroup(m.group, r)
<1>1. IsFiniteSet(inGroup) /\ Cardinality(inGroup) \in Nat
  BY FS_EmptySet, PartsAreFinite
<1>2. IsFiniteSet({m}) /\ Cardinality({m}) = 1
  BY FS_Singleton
<1> HIDE DEF inGroup
<1>3. IsFiniteSet({m} \X inGroup)
      /\ Cardinality({m} \X inGroup) = Cardinality({m}) * Cardinality(inGroup)
  BY <1>1, <1>2, FS_Product
<1>4. QED
  BY <1>1, <1>2, <1>3 DEF inGroup

(* A message that is enqueued has the places of its group at most.         *)
LEMMA MessageComes ==
  ASSUME GroupsInv, NEW r, NEW q, IsFiniteSet(q), NEW m
  PROVE  Cardinality(InMessages(q \cup {m}, r))
           <= Cardinality(InMessages(q, r)) + Cardinality(InGroup(m.group, r))
<1> DEFINE places == {m} \X InGroup(m.group, r)
           before == InMessages(q, r)
           after == InMessages(q \cup {m}, r)
<1>1. after = before \cup places
  BY DEF InMessages, InGroup
<1>2. IsFiniteSet(places) /\ Cardinality(places) = Cardinality(InGroup(m.group, r))
  BY PlacesOfMessage
<1>3. IsFiniteSet(before)
  BY PartsAreFinite
<1> HIDE DEF places, before, after
<1>4. Cardinality(after)
        = Cardinality(before) + Cardinality(places) - Cardinality(before \cap places)
  BY <1>1, <1>2, <1>3, FS_Union
<1>5. IsFiniteSet(before \cap places)
  BY <1>3, FS_Intersection
<1>6. /\ Cardinality(before) \in Nat /\ Cardinality(places) \in Nat
      /\ Cardinality(before \cap places) \in Nat
  BY <1>2, <1>3, <1>5, FS_CardinalityType
<1>7. QED
  BY <1>2, <1>4, <1>6 DEF before, after

(* A message that leaves the queue takes the places of its group along.    *)
LEMMA MessageLeaves ==
  ASSUME GroupsInv, NEW r, NEW q, IsFiniteSet(q), NEW m \in q
  PROVE  Cardinality(InMessages(q \ {m}, r))
           = Cardinality(InMessages(q, r)) - Cardinality(InGroup(m.group, r))
<1> DEFINE places == {m} \X InGroup(m.group, r)
           before == InMessages(q, r)
           after == InMessages(q \ {m}, r)
<1>1. after = before \ places
  BY DEF InMessages, InGroup
<1>2. before \cap places = places
  BY DEF InMessages, InGroup
<1>3. Cardinality(places) = Cardinality(InGroup(m.group, r))
  BY PlacesOfMessage
<1>4. IsFiniteSet(before)
  BY PartsAreFinite
<1> HIDE DEF places, before, after
<1>5. Cardinality(before \ places)
        = Cardinality(before) - Cardinality(before \cap places)
  BY <1>4, FS_Difference
<1>6. QED
  BY <1>1, <1>2, <1>3, <1>5, Zenon DEF before, after

(* What is answered is no longer in hand.                                  *)
LEMMA PlaceIsAnswered ==
  ASSUME GroupsInv, NEW r, NEW g \in DOMAIN groups, NEW w,
         NEW i \in DOMAIN groups[g], i \in w
  PROVE  Cardinality(InHand(g, w \ {i}, r))
           + (IF groups[g][i] = r THEN 1 ELSE 0) <= Cardinality(InHand(g, w, r))
<1> DEFINE before == InHand(g, w, r)
           after == InHand(g, w \ {i}, r)
<1>1. IsFiniteSet(before) /\ IsFiniteSet(after)
      /\ Cardinality(before) \in Nat /\ Cardinality(after) \in Nat
  BY FS_EmptySet, PartsAreFinite
<1>2. after \in SUBSET before
  BY DEF InHand
<1>3. Cardinality(after) <= Cardinality(before)
  <2> HIDE DEF after, before
  <2> QED
    BY <1>1, <1>2, FS_Subset
<1>4. ASSUME groups[g][i] = r PROVE Cardinality(after) = Cardinality(before) - 1
  <2>1. i \in Nat
    BY DEF GroupsInv
  <2>2. <<g, i>> \in before
    <3>1. <<g, i>> \in PlacesOf(r) /\ <<g, i>>[1] = g /\ <<g, i>>[2] = i
      BY <1>4, <2>1, PlaceIs, Zenon
    <3>2. QED
      BY <3>1, Zenon DEF InHand, InGroup
  <2>3. after = before \ {<<g, i>>}
    <3>1. \A s \in before : s[1] = g /\ s = <<s[1], s[2]>>
      BY PlaceIs, Zenon DEF InHand, InGroup
    <3>2. \A s : s \in after <=> (s \in before /\ s[2] # i)
      BY DEF InHand
    <3> HIDE DEF after, before
    <3>3. \A s \in before : s[2] = i <=> s = <<g, i>>
      <4>1. <<g, i>>[2] = i
        OBVIOUS
      <4>2. QED
        BY <3>1, <4>1, Zenon
    <3>4. QED
      BY <3>2, <3>3
  <2> HIDE DEF after, before
  <2>4. QED
    BY <1>1, <2>2, <2>3, FS_RemoveElement
<1> HIDE DEF after, before
<1>5. QED
  BY <1>1, <1>3, <1>4 DEF after, before

----------------------------------------------------------------------------
(* Messages of the queue have a delivery left, and the lines that wait for *)
(* an answer are those of the message that is handled.                     *)
HandlerInv ==
  /\ IsFiniteSet(queue)
  /\ \A m \in queue : m.group \in DOMAIN groups /\ m.count < MaxDequeueCount
  /\ handling = NoMessage => waiting = {}
  /\ handling # NoMessage =>
       handling.group \in DOMAIN groups /\ waiting \subseteq DOMAIN groups[handling.group]

(* What was sent and what is on its way is no more than once for each      *)
(* place and each time that the work has begun.                            *)
CountInv ==
  \A r \in Recipients :
    sent[r] + OnTheirWay(r) <= Cardinality(PlacesOf(r)) * (blobAttempt + redelivered)

(* Who is reported as reached was sent the message.                        *)
ReachedInv ==
  \A r \in Recipients : <<r, "201">> \in rows \cup reports => sent[r] > 0

(* The inductive invariant.                                                *)
MessagesInv == TypeOK /\ GroupsInv /\ HandlerInv /\ CountInv /\ ReachedInv

(* The types of the counters, and of the groups.                           *)
LEMMA Counters ==
  ASSUME TypeOK
  PROVE  /\ MaxBlobAttempts \in Nat \ {0} /\ MaxDequeueCount \in Nat \ {0}
         /\ MaxFaults \in Nat
         /\ blobAttempt \in 1..MaxBlobAttempts /\ blobAttempt \in Nat
         /\ redelivered \in Nat
         /\ faults \in 0..MaxFaults
         /\ sent \in [Recipients -> Nat]
         /\ \A g \in DOMAIN groups : g \in Nat
<1>1. /\ blobAttempt \in 1..MaxBlobAttempts /\ redelivered \in Nat
      /\ faults \in 0..MaxFaults /\ sent \in [Recipients -> Nat]
      /\ groups \in Seq(Range(groups))
  BY Zenon DEF TypeOK
<1>2. /\ MaxBlobAttempts \in Nat \ {0} /\ MaxDequeueCount \in Nat \ {0}
      /\ MaxFaults \in Nat
  BY SizesAssumption, Zenon
<1>3. blobAttempt \in Nat
  BY <1>1, <1>2
<1>4. \A g \in DOMAIN groups : g \in Nat
  BY <1>1
<1>5. QED
  BY <1>1, <1>2, <1>3, <1>4

(* At first every place is undispatched.                                   *)
LEMMA InitMessages == Init => MessagesInv
<1> SUFFICES ASSUME Init PROVE MessagesInv
  OBVIOUS
<1>1. PICK newLine \in BOOLEAN : groups = RecipientsOf(Text(file, newLine))
  BY DEF Init
<1>2. file \in Files /\ file \in Seq(FiscalCodes)
  BY SizesAssumption DEF Init
<1>3. /\ groups \in Seq(Range(groups))
      /\ ListsOnly(file, groups) /\ ListsAll(file, groups)
      /\ \A g \in DOMAIN groups :
           /\ DOMAIN groups[g] \subseteq Nat
           /\ groups[g] \in [DOMAIN groups[g] -> FiscalCodes]
  BY <1>1, <1>2, RecipientsAreListings
<1>4. ASSUME NEW g \in DOMAIN groups
      PROVE  /\ DOMAIN groups[g] \subseteq Nat
             /\ groups[g] \in [DOMAIN groups[g] -> Recipients]
  <2>1. FiscalCodes \subseteq Recipients
    BY DEF Recipients
  <2>2. groups[g] \in [DOMAIN groups[g] -> FiscalCodes]
    BY <1>3
  <2>3. QED
    BY <1>3, <2>1, <2>2
<1>5. GroupsInv
  BY <1>2, <1>3, <1>4 DEF GroupsInv
<1>6. TypeOK
  <2>1. \A lines \in Range(groups) :
          DOMAIN lines \subseteq Nat /\ lines \in [DOMAIN lines -> Recipients]
    BY <1>4 DEF Range
  <2>2. NoMessage \in [attempt : 0..MaxBlobAttempts, group : Nat, count : 0..MaxDequeueCount]
    BY SizesAssumption DEF NoMessage
  <2>3. queue \cup {handling} = {NoMessage}
    BY DEF Init
  <2>4. blobAttempt \in 1..MaxBlobAttempts /\ faults \in 0..MaxFaults
    BY SizesAssumption DEF Init
  <2>5. sent \in [Recipients -> Nat]
    BY DEF Init
  <2>6. QED
    BY <1>2, <1>3, <2>1, <2>2, <2>3, <2>4, <2>5 DEF Init, TypeOK
<1>7. HandlerInv
  BY FS_EmptySet DEF Init, HandlerInv
<1>8. ASSUME NEW r \in Recipients
      PROVE  sent[r] + OnTheirWay(r)
               <= Cardinality(PlacesOf(r)) * (blobAttempt + redelivered)
  <2>1. sent[r] = 0 /\ blobAttempt + redelivered = 1
    BY DEF Init
  <2>2. InMessages(queue, r) = {} /\ InHand(handling.group, waiting, r) = {}
    BY DEF Init, InMessages, InHand
  <2>3. /\ Cardinality(InGroups(dispatching, r)) \in Nat
        /\ Cardinality(InGroups(dispatching, r)) <= Cardinality(PlacesOf(r))
    BY <1>5, FS_EmptySet, PartsAreFinite
  <2>4. OnTheirWay(r) = Cardinality(InGroups(dispatching, r))
    BY <2>2, <2>3, FS_EmptySet DEF OnTheirWay, Left
  <2>5. Cardinality(PlacesOf(r)) \in Nat
    BY <1>5, PlacesAreListings
  <2>6. QED
    BY <2>1, <2>3, <2>4, <2>5
<1>9. CountInv
  BY <1>8 DEF CountInv
<1>10. ReachedInv
  BY DEF Init, ReachedInv
<1>11. QED
  BY <1>5, <1>6, <1>7, <1>9, <1>10 DEF MessagesInv

(* The groups of a file do not change.                                     *)
LEMMA SameGroups ==
  ASSUME GroupsInv, file' = file, groups' = groups
  PROVE  /\ GroupsInv'
         /\ \A r : PlacesOf(r)' = PlacesOf(r)
         /\ \A r : OnTheirWay(r)' = Left(r, dispatching', queue', handling'.group, waiting')
<1>1. GroupsInv'
  <2>1. ListsOnly(file, groups)' <=> ListsOnly(file, groups)
    BY DEF ListsOnly, ListingAt
  <2>2. ListsAll(file, groups)' <=> ListsAll(file, groups)
    BY DEF ListsAll, ListingAt
  <2>3. QED
    BY <2>1, <2>2, Zenon DEF GroupsInv, Recipients
<1>2. \A r : PlacesOf(r)' = PlacesOf(r)
  BY DEF PlacesOf
<1>3. \A r : OnTheirWay(r)' = Left(r, dispatching', queue', handling'.group, waiting')
  BY <1>2, Zenon DEF OnTheirWay, Left, InGroups, InMessages, InHand, InGroup
<1>4. QED
  BY <1>1, <1>2, <1>3

(* The count, when the work is not begun again, and when it is.            *)
LEMMA CountGoesOn ==
  ASSUME GroupsInv, CountInv, TypeOK, IsFiniteSet(queue), IsFiniteSet(queue'),
         file' = file, groups' = groups,
         sent \in [Recipients -> Nat], sent' \in [Recipients -> Nat],
         NEW again \in {0, 1},
         blobAttempt' \in Nat, redelivered' \in Nat,
         blobAttempt' + redelivered' = blobAttempt + redelivered + again,
         \A r \in Recipients :
           sent'[r] + Left(r, dispatching', queue', handling'.group, waiting')
             <= sent[r] + OnTheirWay(r) + again * Cardinality(PlacesOf(r))
  PROVE  CountInv'
<1> SUFFICES ASSUME NEW r \in Recipients
             PROVE  sent'[r] + OnTheirWay(r)'
                      <= Cardinality(PlacesOf(r)') * (blobAttempt' + redelivered')
  BY DEF CountInv
<1> DEFINE places == Cardinality(PlacesOf(r))
           times == blobAttempt + redelivered
           next == Left(r, dispatching', queue', handling'.group, waiting')
<1>1. places \in Nat
  BY PlacesAreListings
<1>2. times \in Nat
  BY Counters
<1>3. sent'[r] + next <= sent[r] + OnTheirWay(r) + again * places
  OBVIOUS
<1>4. sent[r] + OnTheirWay(r) <= places * times
  BY DEF CountInv
<1>5. next \in Nat /\ OnTheirWay(r) \in Nat
  <2>1. /\ Cardinality(InGroups(dispatching, r)) \in Nat
        /\ Cardinality(InMessages(queue, r)) \in Nat
        /\ Cardinality(InHand(handling.group, waiting, r)) \in Nat
    BY PartsAreFinite
  <2>2. /\ Cardinality(InGroups(dispatching', r)) \in Nat
        /\ Cardinality(InMessages(queue', r)) \in Nat
        /\ Cardinality(InHand(handling'.group, waiting', r)) \in Nat
    BY PartsAreFinite
  <2>3. QED
    BY <2>1, <2>2 DEF OnTheirWay, Left
<1>6. sent[r] \in Nat /\ sent'[r] \in Nat
  OBVIOUS
<1>7. PlacesOf(r)' = PlacesOf(r) /\ OnTheirWay(r)' = next
  BY SameGroups, Zenon
<1>8. blobAttempt' + redelivered' = times + again
  OBVIOUS
<1> DEFINE way == OnTheirWay(r)
<1>9. sent'[r] + next <= places * (times + again)
  <2>1. way \in Nat /\ sent[r] + way <= places * times
        /\ sent'[r] + next <= sent[r] + way + again * places
    BY <1>3, <1>4, <1>5
  <2> HIDE DEF places, times, next, way
  <2>2. places * (times + again) = places * times + again * places
    BY <1>1, <1>2
  <2>3. places * times \in Nat /\ again * places \in Nat
    BY <1>1, <1>2
  <2>4. QED
    BY <1>5, <1>6, <2>1, <2>2, <2>3
<1>10. QED
  BY <1>7, <1>8, <1>9, Zenon

(* What a call that goes on, or does not, does to the queue and the count. *)
LEMMA EnqueueKeeps ==
  ASSUME MessagesInv, NEW g \in DOMAIN groups, Enqueue(g)
  PROVE  MessagesInv'
<1> DEFINE m == [attempt |-> blobAttempt, group |-> g, count |-> 0]
<1>1. TypeOK /\ GroupsInv /\ HandlerInv /\ CountInv /\ ReachedInv
  BY DEF MessagesInv
<1>2. /\ g \in dispatching /\ dispatching' = dispatching \ {g}
      /\ queue' = queue \cup {m} \/ queue' = queue
      /\ dispatched' \in {"failing", dispatched}
      /\ faults' = faults \/ (faults < MaxFaults /\ faults' = faults + 1)
      /\ UNCHANGED <<file, groups, blobAttempt, handling, waiting, rows, sent,
                     refused, reports, poison, redelivered>>
  BY DEF Enqueue, AddToQueue, Fault, sender, outcome
<1>3. m \in [attempt : 0..MaxBlobAttempts, group : Nat, count : 0..MaxDequeueCount]
      /\ m.group = g /\ m.count = 0
  <2>1. g \in Nat /\ blobAttempt \in 0..MaxBlobAttempts /\ 0 \in 0..MaxDequeueCount
    BY <1>1, Counters
  <2>2. QED
    BY <2>1
<1> HIDE DEF m
<1>4. TypeOK'
  <2>1. \A k \in queue' \cup {handling'} :
          k \in [attempt : 0..MaxBlobAttempts, group : Nat, count : 0..MaxDequeueCount]
    BY <1>1, <1>2, <1>3 DEF TypeOK
  <2>2. /\ dispatching' \subseteq DOMAIN groups'
        /\ dispatched' \in {"no", "failing", "done", "given up"}
    BY <1>1, <1>2, Zenon DEF TypeOK
  <2>4. faults' \in 0..MaxFaults
    BY <1>1, <1>2, Counters
  <2>3. QED
    BY <1>1, <1>2, <2>1, <2>2, <2>4 DEF TypeOK
<1>5. IsFiniteSet(queue) /\ IsFiniteSet(queue')
  BY <1>1, <1>2, FS_AddElement DEF HandlerInv
<1>6. HandlerInv'
  <2>1. \A k \in queue' : k.group \in DOMAIN groups' /\ k.count < MaxDequeueCount
    BY <1>1, <1>2, <1>3, SizesAssumption DEF HandlerInv
  <2>2. QED
    BY <1>1, <1>2, <1>5, <2>1 DEF HandlerInv
<1>7. ASSUME NEW r \in Recipients
      PROVE  sent'[r] + Left(r, dispatching', queue', handling'.group, waiting')
               <= sent[r] + OnTheirWay(r) + 0 * Cardinality(PlacesOf(r))
  <2> DEFINE k == Cardinality(InGroup(g, r))
             u == Cardinality(InGroups(dispatching, r))
             n == Cardinality(InMessages(queue, r))
             h == Cardinality(InHand(handling.group, waiting, r))
             un == Cardinality(InGroups(dispatching', r))
             nn == Cardinality(InMessages(queue', r))
  <2>1. /\ k \in Nat /\ u \in Nat /\ n \in Nat /\ h \in Nat /\ un \in Nat /\ nn \in Nat
    BY <1>1, <1>5, PartsAreFinite
  <2>2. un = u - k
    BY <1>1, <1>2, GroupLeaves
  <2>3. nn <= n + k
    <3>1. Cardinality(InMessages(queue \cup {m}, r)) <= n + k
      BY <1>1, <1>3, <1>5, MessageComes
    <3>2. CASE queue' = queue \cup {m}
      BY <3>1, <3>2
    <3>3. CASE queue' = queue
      BY <2>1, <3>3
    <3>4. QED
      BY <1>2, <3>2, <3>3
  <2>4. Left(r, dispatching', queue', handling'.group, waiting') = un + nn + h
    BY <1>2 DEF Left
  <2>5. OnTheirWay(r) = u + n + h
    BY DEF OnTheirWay, Left
  <2>6. sent'[r] = sent[r] /\ sent[r] \in Nat
    BY <1>1, <1>2 DEF TypeOK
  <2>7. Cardinality(PlacesOf(r)) \in Nat
    BY <1>1, PlacesAreListings
  <2> HIDE DEF k, u, n, h, un, nn
  <2>8. QED
    BY <2>1, <2>2, <2>3, <2>4, <2>5, <2>6, <2>7
<1>8. CountInv'
  <2>1. /\ sent \in [Recipients -> Nat] /\ sent' \in [Recipients -> Nat]
        /\ blobAttempt' \in Nat /\ redelivered' \in Nat
        /\ blobAttempt' + redelivered' = blobAttempt + redelivered + 0
    BY <1>1, <1>2, Counters
  <2>2. QED
    BY <1>1, <1>2, <1>5, <1>7, <2>1, CountGoesOn
<1>9. ReachedInv'
  BY <1>1, <1>2 DEF ReachedInv
<1>10. GroupsInv'
  BY <1>1, <1>2, SameGroups
<1>11. QED
  BY <1>4, <1>6, <1>8, <1>9, <1>10 DEF MessagesInv

(* The enqueuing ends, and if it failed the blob trigger is called again.  *)
LEMMA DispatchKeeps ==
  ASSUME MessagesInv, DispatchToQueue
  PROVE  MessagesInv'
<1>1. TypeOK /\ GroupsInv /\ HandlerInv /\ CountInv /\ ReachedInv
  BY DEF MessagesInv
<1>2. /\ dispatching = {}
      /\ \/ dispatching' = {} /\ blobAttempt' = blobAttempt
         \/ /\ dispatching' = DOMAIN groups
            /\ blobAttempt < MaxBlobAttempts /\ blobAttempt' = blobAttempt + 1
      /\ dispatched' \in {"no", "done", "given up"}
      /\ UNCHANGED <<file, groups, queue, handling, waiting, rows, sent,
                     refused, reports, poison, redelivered, faults>>
  BY DEF DispatchToQueue, sender, outcome
<1>0. /\ MaxBlobAttempts \in Nat /\ blobAttempt \in 1..MaxBlobAttempts
      /\ redelivered \in Nat /\ redelivered' = redelivered
  BY <1>1, <1>2, Counters
<1>5. PICK again \in {0, 1} :
        /\ blobAttempt' = blobAttempt + again
        /\ again = 0 => dispatching' = {}
        /\ again = 1 => blobAttempt < MaxBlobAttempts
  <2>1. CASE dispatching' = {} /\ blobAttempt' = blobAttempt
    <3>1. blobAttempt' = blobAttempt + 0
      BY <1>0, <2>1
    <3>2. QED
      BY <2>1, <3>1
  <2>2. CASE blobAttempt < MaxBlobAttempts /\ blobAttempt' = blobAttempt + 1
    BY <2>2
  <2>3. QED
    BY <1>2, <2>1, <2>2
<1>3. TypeOK'
  <2>1. dispatching' \subseteq DOMAIN groups'
        /\ dispatched' \in {"no", "failing", "done", "given up"}
    BY <1>2
  <2>2. blobAttempt' \in 1..MaxBlobAttempts
    BY <1>0, <1>5
  <2>3. QED
    BY <1>1, <1>2, <2>1, <2>2, Zenon DEF TypeOK
<1>4. IsFiniteSet(queue) /\ HandlerInv'
  BY <1>1, <1>2, Zenon DEF HandlerInv
<1>6. ASSUME NEW r \in Recipients
      PROVE  sent'[r] + Left(r, dispatching', queue', handling'.group, waiting')
               <= sent[r] + OnTheirWay(r) + again * Cardinality(PlacesOf(r))
  <2> DEFINE places == Cardinality(PlacesOf(r))
             u == Cardinality(InGroups(dispatching, r))
             n == Cardinality(InMessages(queue, r))
             h == Cardinality(InHand(handling.group, waiting, r))
             un == Cardinality(InGroups(dispatching', r))
  <2>1. u \in Nat /\ n \in Nat /\ h \in Nat /\ un \in Nat /\ places \in Nat /\ un <= places
    BY <1>1, <1>4, PartsAreFinite, PlacesAreListings
  <2>2. again = 0 => un = u
    BY <1>2, <1>5
  <2>3. Left(r, dispatching', queue', handling'.group, waiting') = un + n + h
    BY <1>2 DEF Left
  <2>4. OnTheirWay(r) = u + n + h
    BY DEF OnTheirWay, Left
  <2>5. sent'[r] = sent[r] /\ sent[r] \in Nat
    BY <1>1, <1>2, Counters
  <2> HIDE DEF places, u, n, h, un
  <2>6. again * places = IF again = 0 THEN 0 ELSE places
    BY <2>1
  <2>7. QED
    BY <2>1, <2>2, <2>3, <2>4, <2>5, <2>6 DEF places
<1>7. CountInv'
  <2>1. /\ sent \in [Recipients -> Nat] /\ sent' \in [Recipients -> Nat]
        /\ blobAttempt' \in Nat /\ redelivered' \in Nat
        /\ blobAttempt' + redelivered' = blobAttempt + redelivered + again
    <3>1. sent' = sent /\ sent \in [Recipients -> Nat]
      BY <1>1, <1>2, Counters
    <3>2. /\ blobAttempt' \in Nat /\ redelivered' \in Nat
          /\ blobAttempt' + redelivered' = blobAttempt + redelivered + again
      BY <1>0, <1>5
    <3>3. QED
      BY <3>1, <3>2
  <2>2. QED
    BY <1>1, <1>2, <1>4, <1>6, <2>1, CountGoesOn
<1>8. ReachedInv' /\ GroupsInv'
  BY <1>1, <1>2, SameGroups DEF ReachedInv
<1>9. QED
  BY <1>3, <1>4, <1>7, <1>8 DEF MessagesInv

(* A message is taken from the queue: its lines are now in hand.           *)
LEMMA ReceiveKeeps ==
  ASSUME MessagesInv, NEW m \in queue, Receive(m)
  PROVE  MessagesInv'
<1>1. TypeOK /\ GroupsInv /\ HandlerInv /\ CountInv /\ ReachedInv
  BY DEF MessagesInv
<1>2. /\ queue' = queue \ {m} /\ handling' = [m EXCEPT !.count = @ + 1]
      /\ waiting' = DOMAIN groups[m.group] /\ rows' = {}
      /\ UNCHANGED <<file, groups, blobAttempt, dispatching, dispatched, sent,
                     refused, reports, poison, redelivered, faults>>
  BY DEF Receive, dispatcher, outcome
<1>3. /\ m \in [attempt : 0..MaxBlobAttempts, group : Nat, count : 0..MaxDequeueCount]
      /\ m.group \in DOMAIN groups /\ m.count < MaxDequeueCount
  BY <1>1, Zenon DEF TypeOK, HandlerInv
<1>4. /\ handling' \in [attempt : 0..MaxBlobAttempts, group : Nat, count : 0..MaxDequeueCount]
      /\ handling'.group = m.group /\ handling'.count # 0
  <2>1. m.count \in Nat /\ m.count + 1 \in 0..MaxDequeueCount /\ m.count + 1 # 0
    BY <1>1, <1>3, Counters
  <2>2. QED
    BY <1>2, <1>3, <2>1
<1>5. DOMAIN groups[m.group] \subseteq Nat
  BY <1>1, <1>3 DEF GroupsInv
<1>6. TypeOK'
  <2>1. \A k \in queue' \cup {handling'} :
          k \in [attempt : 0..MaxBlobAttempts, group : Nat, count : 0..MaxDequeueCount]
    <3>1. \A k \in queue :
            k \in [attempt : 0..MaxBlobAttempts, group : Nat, count : 0..MaxDequeueCount]
      BY <1>1, Zenon DEF TypeOK
    <3>2. QED
      BY <1>2, <1>4, <3>1, Zenon
  <2>2. waiting' \subseteq Nat /\ rows' \subseteq Recipients \X Status
    BY <1>2, <1>5
  <2>3. QED
    BY <1>1, <1>2, <2>1, <2>2, Zenon DEF TypeOK
<1>7. IsFiniteSet(queue) /\ IsFiniteSet(queue')
  BY <1>1, <1>2, FS_RemoveElement DEF HandlerInv
<1>8. HandlerInv'
  <2>1. handling' # NoMessage
    BY <1>4 DEF NoMessage
  <2>2. \A k \in queue' : k.group \in DOMAIN groups' /\ k.count < MaxDequeueCount
    BY <1>1, <1>2, Zenon DEF HandlerInv
  <2>3. handling'.group \in DOMAIN groups' /\ waiting' \subseteq DOMAIN groups'[handling'.group]
    BY <1>2, <1>3, <1>4
  <2>4. NoMessage' = NoMessage
    BY DEF NoMessage
  <2>5. QED
    BY <1>7, <2>1, <2>2, <2>3, <2>4 DEF HandlerInv
<1>9. ASSUME NEW r \in Recipients
      PROVE  sent'[r] + Left(r, dispatching', queue', handling'.group, waiting')
               <= sent[r] + OnTheirWay(r) + 0 * Cardinality(PlacesOf(r))
  <2> DEFINE k == Cardinality(InGroup(m.group, r))
             u == Cardinality(InGroups(dispatching, r))
             n == Cardinality(InMessages(queue, r))
             h == Cardinality(InHand(handling.group, waiting, r))
             nn == Cardinality(InMessages(queue', r))
             hn == Cardinality(InHand(m.group, waiting', r))
  <2>1. /\ k \in Nat /\ u \in Nat /\ n \in Nat /\ h \in Nat /\ nn \in Nat /\ hn \in Nat
        /\ hn <= k
    BY <1>1, <1>7, PartsAreFinite
  <2>2. nn = n - k
    BY <1>1, <1>2, <1>7, MessageLeaves
  <2>3. Left(r, dispatching', queue', handling'.group, waiting') = u + nn + hn
    BY <1>2, <1>4 DEF Left
  <2>4. OnTheirWay(r) = u + n + h
    BY DEF OnTheirWay, Left
  <2>5. sent'[r] = sent[r] /\ sent[r] \in Nat
    BY <1>1, <1>2, Counters
  <2>6. Cardinality(PlacesOf(r)) \in Nat
    BY <1>1, PlacesAreListings
  <2> HIDE DEF k, u, n, h, nn, hn
  <2>7. QED
    BY <2>1, <2>2, <2>3, <2>4, <2>5, <2>6
<1>10. CountInv'
  <2>1. /\ sent \in [Recipients -> Nat] /\ sent' \in [Recipients -> Nat]
        /\ blobAttempt' \in Nat /\ redelivered' \in Nat
        /\ blobAttempt' + redelivered' = blobAttempt + redelivered + 0
    BY <1>1, <1>2, Counters
  <2>2. QED
    BY <1>1, <1>2, <1>7, <1>9, <2>1, CountGoesOn
<1>11. ReachedInv' /\ GroupsInv'
  BY <1>1, <1>2, SameGroups DEF ReachedInv
<1>12. QED
  BY <1>6, <1>8, <1>10, <1>11 DEF MessagesInv

(* A line is answered: it was sent, or refused, or may have been.          *)
LEMMA SendKeeps ==
  ASSUME MessagesInv, NEW i \in waiting, SendMessageToFiscalCode(i)
  PROVE  MessagesInv'
<1> DEFINE g == handling.group
           recipient == groups[g][i]
           sends == sent' = [sent EXCEPT ![recipient] = @ + 1]
<1>1. TypeOK /\ GroupsInv /\ HandlerInv /\ CountInv /\ ReachedInv
  BY DEF MessagesInv
<1>2. /\ waiting' = waiting \ {i}
      /\ \/ sends /\ rows' \in {rows \cup {<<recipient, "201">>}, rows \cup {<<recipient, "error">>}}
         \/ sent' = sent /\ rows' = rows \cup {<<recipient, "error">>}
      /\ refused' \subseteq refused \cup {recipient}
      /\ faults' = faults \/ (faults < MaxFaults /\ faults' = faults + 1)
      /\ UNCHANGED <<file, groups, blobAttempt, dispatching, dispatched, queue,
                     handling, reports, poison, redelivered>>
  BY DEF SendMessageToFiscalCode, RecipientOf, Answer, Fault, dispatcher
<1>3. /\ handling # NoMessage /\ g \in DOMAIN groups /\ i \in DOMAIN groups[g]
      /\ recipient \in Recipients
  <2>1. handling # NoMessage
    BY <1>1 DEF HandlerInv
  <2>2. g \in DOMAIN groups /\ i \in DOMAIN groups[g]
    BY <1>1, <2>1 DEF HandlerInv
  <2>3. groups[g] \in [DOMAIN groups[g] -> Recipients]
    BY <1>1, <2>2 DEF GroupsInv
  <2>4. QED
    BY <2>1, <2>2, <2>3
<1>4. /\ sent \in [Recipients -> Nat] /\ sent' \in [Recipients -> Nat]
      /\ \A r \in Recipients :
           /\ sent[r] \in Nat /\ sent'[r] >= sent[r]
           /\ sent'[r] <= sent[r] + (IF recipient = r THEN 1 ELSE 0)
           /\ <<r, "201">> \in rows' => <<r, "201">> \in rows \/ sent'[r] > 0
  <2>1. sent \in [Recipients -> Nat]
    BY <1>1, Counters
  <2> HIDE DEF recipient
  <2>2. CASE sent' = sent /\ rows' = rows \cup {<<recipient, "error">>}
    <3>1. \A r : <<r, "201">> # <<recipient, "error">>
      OBVIOUS
    <3>2. QED
      BY <2>1, <2>2, <3>1
  <2>3. CASE sends
    <3>1. sent' \in [Recipients -> Nat]
      BY <1>3, <2>1, <2>3
    <3>2. \A r \in Recipients : sent'[r] = IF recipient = r THEN sent[r] + 1 ELSE sent[r]
      BY <1>3, <2>1, <2>3
    <3>3. \A r : <<r, "201">> \in rows' => <<r, "201">> \in rows \/ r = recipient
      <4>1. \A r : <<r, "201">> # <<recipient, "error">>
        OBVIOUS
      <4>2. \A r : <<r, "201">> = <<recipient, "201">> => r = recipient
        OBVIOUS
      <4>3. rows' \in {rows \cup {<<recipient, "201">>}, rows \cup {<<recipient, "error">>}}
        BY <1>2
      <4> DEFINE reached == <<recipient, "201">>
                 failed == <<recipient, "error">>
      <4>4. /\ \A r : <<r, "201">> # failed
            /\ \A r : <<r, "201">> = reached => r = recipient
            /\ rows' = rows \cup {reached} \/ rows' = rows \cup {failed}
        BY <4>1, <4>2, <4>3
      <4> HIDE DEF reached, failed
      <4>5. ASSUME NEW r, <<r, "201">> \in rows', <<r, "201">> \notin rows
            PROVE  r = recipient
        <5>1. <<r, "201">> = reached \/ <<r, "201">> = failed
          BY <4>4, <4>5
        <5>2. QED
          BY <4>4, <5>1
      <4>6. QED
        BY <4>5, Zenon
    <3>4. QED
      BY <2>1, <3>1, <3>2, <3>3
  <2>4. QED
    BY <1>2, <2>2, <2>3
<1>5. TypeOK'
  <2>1. <<recipient, "201">> \in Recipients \X Status
        /\ <<recipient, "error">> \in Recipients \X Status
    BY <1>3 DEF Status
  <2> HIDE DEF recipient
  <2>2. rows' \subseteq Recipients \X Status /\ waiting' \subseteq Nat
        /\ refused' \subseteq Recipients
    BY <1>1, <1>2, <1>3, <2>1, Zenon DEF TypeOK
  <2>3. faults' \in 0..MaxFaults
    BY <1>1, <1>2, Counters
  <2>4. QED
    BY <1>1, <1>2, <1>4, <2>2, <2>3, Zenon DEF TypeOK
<1>6. IsFiniteSet(queue) /\ IsFiniteSet(queue')
  BY <1>1, <1>2 DEF HandlerInv
<1>7. HandlerInv'
  <2>1. NoMessage' = NoMessage
    BY DEF NoMessage
  <2>2. waiting' \subseteq DOMAIN groups'[handling'.group]
    BY <1>1, <1>2, <1>3, Zenon DEF HandlerInv
  <2>3. handling'.group \in DOMAIN groups' /\ handling' # NoMessage
    BY <1>2, <1>3
  <2>4. \A k \in queue' : k.group \in DOMAIN groups' /\ k.count < MaxDequeueCount
    BY <1>1, <1>2, Zenon DEF HandlerInv
  <2>5. QED
    BY <1>6, <2>1, <2>2, <2>3, <2>4 DEF HandlerInv
<1>8. ASSUME NEW r \in Recipients
      PROVE  sent'[r] + Left(r, dispatching', queue', handling'.group, waiting')
               <= sent[r] + OnTheirWay(r) + 0 * Cardinality(PlacesOf(r))
  <2> DEFINE u == Cardinality(InGroups(dispatching, r))
             n == Cardinality(InMessages(queue, r))
             h == Cardinality(InHand(g, waiting, r))
             hn == Cardinality(InHand(g, waiting \ {i}, r))
             one == IF recipient = r THEN 1 ELSE 0
  <2>1. u \in Nat /\ n \in Nat /\ h \in Nat /\ hn \in Nat
    BY <1>1, <1>6, PartsAreFinite
  <2>2. hn + one <= h /\ one \in {0, 1}
    BY <1>1, <1>3, PlaceIsAnswered
  <2>3. Left(r, dispatching', queue', handling'.group, waiting') = u + n + hn
    BY <1>2 DEF Left
  <2>4. OnTheirWay(r) = u + n + h
    BY DEF OnTheirWay, Left
  <2>5. sent[r] \in Nat /\ sent'[r] \in Nat /\ sent'[r] <= sent[r] + one
    BY <1>4
  <2>6. Cardinality(PlacesOf(r)) \in Nat
    BY <1>1, PlacesAreListings
  <2> HIDE DEF u, n, h, hn, one
  <2>7. QED
    BY <2>1, <2>2, <2>3, <2>4, <2>5, <2>6
<1>9. CountInv'
  <2>1. /\ blobAttempt' \in Nat /\ redelivered' \in Nat
        /\ blobAttempt' + redelivered' = blobAttempt + redelivered + 0
    BY <1>1, <1>2, Counters
  <2>2. QED
    BY <1>1, <1>2, <1>4, <1>6, <1>8, <2>1, CountGoesOn
<1>10. ReachedInv'
  <2>1. \A r \in Recipients : <<r, "201">> \in rows' \cup reports' => sent'[r] > 0
    <3> TAKE r \in Recipients
    <3>1. /\ <<r, "201">> \in rows' => <<r, "201">> \in rows \/ sent'[r] > 0
          /\ reports' = reports /\ sent'[r] \in Nat /\ sent[r] \in Nat /\ sent'[r] >= sent[r]
      BY <1>2, <1>4
    <3>2. <<r, "201">> \in rows \cup reports => sent[r] > 0
      BY <1>1 DEF ReachedInv
    <3>3. QED
      BY <3>1, <3>2
  <2>2. QED
    BY <2>1 DEF ReachedInv, Recipients
<1>11. GroupsInv'
  BY <1>1, <1>2, SameGroups
<1>12. QED
  BY <1>5, <1>7, <1>9, <1>10, <1>11 DEF MessagesInv

(* Nothing is in hand when nothing is handled.                             *)
LEMMA NothingInHand ==
  ASSUME NEW g, NEW r
  PROVE  InHand(g, {}, r) = {} /\ Cardinality(InHand(g, {}, r)) = 0
<1>1. InHand(g, {}, r) = {}
  BY DEF InHand
<1>2. QED
  BY <1>1, FS_EmptySet

(* NoMessage has the type of a message.                                    *)
LEMMA NoMessageType ==
  NoMessage \in [attempt : 0..MaxBlobAttempts, group : Nat, count : 0..MaxDequeueCount]
<1>1. 0 \in 0..MaxBlobAttempts /\ 0 \in 0..MaxDequeueCount
  BY SizesAssumption
<1>2. QED
  BY <1>1 DEF NoMessage

(* The report is uploaded when no line waits any more.                     *)
LEMMA UploadKeeps ==
  ASSUME MessagesInv, UploadFile
  PROVE  MessagesInv'
<1>1. TypeOK /\ GroupsInv /\ HandlerInv /\ CountInv /\ ReachedInv
  BY DEF MessagesInv
<1>2. /\ waiting = {} /\ handling' = NoMessage /\ rows' = {}
      /\ reports' \in {reports, reports \cup rows}
      /\ faults' = faults \/ (faults < MaxFaults /\ faults' = faults + 1)
      /\ UNCHANGED <<file, groups, blobAttempt, dispatching, dispatched, queue,
                     waiting, sent, refused, poison, redelivered>>
  BY DEF UploadFile, Fault, dispatcher
<1>3. TypeOK'
  <2>1. \A k \in queue' \cup {handling'} :
          k \in [attempt : 0..MaxBlobAttempts, group : Nat, count : 0..MaxDequeueCount]
    BY <1>1, <1>2, NoMessageType, Zenon DEF TypeOK
  <2>2. rows' \subseteq Recipients \X Status /\ reports' \subseteq Recipients \X Status
    BY <1>1, <1>2, Zenon DEF TypeOK
  <2>3. faults' \in 0..MaxFaults
    BY <1>1, <1>2, Counters
  <2>4. QED
    BY <1>1, <1>2, <2>1, <2>2, <2>3, Zenon DEF TypeOK
<1>4. IsFiniteSet(queue) /\ HandlerInv'
  <2>1. NoMessage' = NoMessage
    BY DEF NoMessage
  <2>2. QED
    BY <1>1, <1>2, <2>1, Zenon DEF HandlerInv
<1>5. ASSUME NEW r \in Recipients
      PROVE  sent'[r] + Left(r, dispatching', queue', handling'.group, waiting')
               <= sent[r] + OnTheirWay(r) + 0 * Cardinality(PlacesOf(r))
  <2> DEFINE u == Cardinality(InGroups(dispatching, r))
             n == Cardinality(InMessages(queue, r))
  <2>1. u \in Nat /\ n \in Nat
    BY <1>1, <1>4, PartsAreFinite
  <2>2. Left(r, dispatching', queue', handling'.group, waiting') = u + n + 0
    BY <1>2, NothingInHand DEF Left
  <2>3. OnTheirWay(r) = u + n + 0
    BY <1>2, NothingInHand DEF OnTheirWay, Left
  <2>4. sent'[r] = sent[r] /\ sent[r] \in Nat
    BY <1>1, <1>2, Counters
  <2>5. Cardinality(PlacesOf(r)) \in Nat
    BY <1>1, PlacesAreListings
  <2> HIDE DEF u, n
  <2>6. QED
    BY <2>1, <2>2, <2>3, <2>4, <2>5
<1>6. CountInv'
  <2>1. /\ sent \in [Recipients -> Nat] /\ sent' \in [Recipients -> Nat]
        /\ blobAttempt' \in Nat /\ redelivered' \in Nat
        /\ blobAttempt' + redelivered' = blobAttempt + redelivered + 0
    BY <1>1, <1>2, Counters
  <2>2. QED
    BY <1>1, <1>2, <1>4, <1>5, <2>1, CountGoesOn
<1>7. ReachedInv'
  <2>1. rows' \cup reports' \subseteq rows \cup reports
    BY <1>2
  <2>2. QED
    BY <1>1, <1>2, <2>1 DEF ReachedInv, Recipients
<1>8. GroupsInv'
  BY <1>1, <1>2, SameGroups
<1>9. QED
  BY <1>3, <1>4, <1>6, <1>7, <1>8 DEF MessagesInv

(* A host stops: its message is delivered again or poisoned.               *)
LEMMA CrashKeeps ==
  ASSUME MessagesInv, Crash
  PROVE  MessagesInv'
<1>1. TypeOK /\ GroupsInv /\ HandlerInv /\ CountInv /\ ReachedInv
  BY DEF MessagesInv
<1>2. /\ handling # NoMessage
      /\ \/ /\ handling.count < MaxDequeueCount /\ queue' = queue \cup {handling}
            /\ redelivered' = redelivered + 1 /\ poison' = poison
         \/ /\ poison' = poison \cup Range(groups[handling.group])
            /\ queue' = queue /\ redelivered' = redelivered
      /\ handling' = NoMessage /\ waiting' = {} /\ rows' = {}
      /\ faults < MaxFaults /\ faults' = faults + 1
      /\ UNCHANGED <<file, groups, blobAttempt, dispatching, dispatched, sent,
                     refused, reports>>
  BY DEF Crash, Fault, dispatcher
<1>3. /\ handling.group \in DOMAIN groups
      /\ handling \in [attempt : 0..MaxBlobAttempts, group : Nat, count : 0..MaxDequeueCount]
  BY <1>1, <1>2, Zenon DEF HandlerInv, TypeOK
<1>4. PICK again \in {0, 1} :
        /\ redelivered' = redelivered + again
        /\ again = 0 => queue' = queue
        /\ again = 1 => /\ handling.count < MaxDequeueCount
                        /\ queue' = queue \cup {handling}
        /\ poison' \subseteq poison \cup Range(groups[handling.group])
  <2>1. CASE /\ handling.count < MaxDequeueCount /\ queue' = queue \cup {handling}
             /\ redelivered' = redelivered + 1 /\ poison' = poison
    BY <2>1
  <2>2. CASE /\ poison' = poison \cup Range(groups[handling.group])
             /\ queue' = queue /\ redelivered' = redelivered
    <3>1. redelivered' = redelivered + 0
      BY <1>1, <2>2, Counters
    <3>2. QED
      BY <2>2, <3>1
  <2>3. QED
    BY <1>2, <2>1, <2>2
<1>5. TypeOK'
  <2>1. \A k \in queue' \cup {handling'} :
          k \in [attempt : 0..MaxBlobAttempts, group : Nat, count : 0..MaxDequeueCount]
    <3>1. \A k \in queue' : k \in queue \/ k = handling
      BY <1>4
    <3>2. QED
      BY <1>1, <1>2, <1>3, <3>1, NoMessageType, Zenon DEF TypeOK
  <2>2. poison' \subseteq Recipients
    <3>1. Range(groups[handling.group]) \subseteq Recipients
      <4>1. groups[handling.group] \in [DOMAIN groups[handling.group] -> Recipients]
        BY <1>1, <1>3 DEF GroupsInv
      <4>2. QED
        BY <4>1 DEF Range
    <3>2. poison \subseteq Recipients
      BY <1>1, Zenon DEF TypeOK
    <3>3. QED
      BY <1>4, <3>1, <3>2
  <2>3. faults' \in 0..MaxFaults /\ redelivered' \in Nat
    BY <1>1, <1>2, <1>4, Counters
  <2>4. waiting' \subseteq Nat /\ rows' \subseteq Recipients \X Status
    BY <1>2
  <2>5. QED
    BY <1>1, <1>2, <2>1, <2>2, <2>3, <2>4, Zenon DEF TypeOK
<1>6. IsFiniteSet(queue) /\ IsFiniteSet(queue')
  BY <1>1, <1>4, FS_AddElement DEF HandlerInv
<1>7. HandlerInv'
  <2>1. NoMessage' = NoMessage
    BY DEF NoMessage
  <2>2. \A k \in queue' : k.group \in DOMAIN groups' /\ k.count < MaxDequeueCount
    <3>1. ASSUME NEW k \in queue'
          PROVE  k \in queue \/ (k = handling /\ handling.count < MaxDequeueCount)
      BY <1>4
    <3>2. QED
      BY <1>1, <1>2, <1>3, <3>1, Zenon DEF HandlerInv
  <2>3. QED
    BY <1>2, <1>6, <2>1, <2>2, Zenon DEF HandlerInv
<1>8. ASSUME NEW r \in Recipients
      PROVE  sent'[r] + Left(r, dispatching', queue', handling'.group, waiting')
               <= sent[r] + OnTheirWay(r) + again * Cardinality(PlacesOf(r))
  <2> DEFINE places == Cardinality(PlacesOf(r))
             k == Cardinality(InGroup(handling.group, r))
             u == Cardinality(InGroups(dispatching, r))
             n == Cardinality(InMessages(queue, r))
             h == Cardinality(InHand(handling.group, waiting, r))
             nn == Cardinality(InMessages(queue', r))
  <2>1. /\ k \in Nat /\ u \in Nat /\ n \in Nat /\ h \in Nat /\ nn \in Nat
        /\ places \in Nat /\ k <= places
    BY <1>1, <1>6, PartsAreFinite, PlacesAreListings
  <2>2. again = 0 => nn = n
    BY <1>4
  <2>3. again = 1 => nn <= n + k
    <3>1. Cardinality(InMessages(queue \cup {handling}, r)) <= n + k
      BY <1>1, <1>6, MessageComes
    <3>2. QED
      BY <1>4, <3>1
  <2>4. Left(r, dispatching', queue', handling'.group, waiting') = u + nn + 0
    BY <1>2, NothingInHand DEF Left
  <2>5. OnTheirWay(r) = u + n + h
    BY DEF OnTheirWay, Left
  <2>6. sent'[r] = sent[r] /\ sent[r] \in Nat
    BY <1>1, <1>2, Counters
  <2> HIDE DEF places, k, u, n, h, nn
  <2>7. again * places = IF again = 0 THEN 0 ELSE places
    BY <2>1
  <2>8. QED
    BY <2>1, <2>2, <2>3, <2>4, <2>5, <2>6, <2>7 DEF places
<1>9. CountInv'
  <2>1. sent' = sent /\ sent \in [Recipients -> Nat]
    BY <1>1, <1>2, Counters
  <2>2. /\ blobAttempt' \in Nat /\ redelivered' \in Nat
        /\ blobAttempt' + redelivered' = blobAttempt + redelivered + again
    <3>1. blobAttempt \in Nat /\ blobAttempt' = blobAttempt /\ redelivered \in Nat
      BY <1>1, <1>2, Counters
    <3>2. QED
      BY <1>4, <3>1
  <2>3. QED
    BY <1>1, <1>2, <1>6, <1>8, <2>1, <2>2, CountGoesOn
<1>10. ReachedInv'
  <2>1. rows' \cup reports' \subseteq rows \cup reports
    BY <1>2
  <2>2. QED
    BY <1>1, <1>2, <2>1 DEF ReachedInv, Recipients
<1>11. GroupsInv'
  BY <1>1, <1>2, SameGroups
<1>12. QED
  BY <1>5, <1>7, <1>9, <1>10, <1>11 DEF MessagesInv

(* A step that changes nothing.                                            *)
LEMMA StutterKeeps ==
  ASSUME MessagesInv, UNCHANGED vars
  PROVE  MessagesInv'
<1>1. TypeOK /\ GroupsInv /\ HandlerInv /\ CountInv /\ ReachedInv
  BY DEF MessagesInv
<1>2. UNCHANGED <<file, groups, blobAttempt, dispatching, dispatched, queue,
                  handling, waiting, rows, sent, refused, reports, poison,
                  redelivered, faults>>
  BY DEF vars, dispatcher, sender, outcome
<1>3. TypeOK'
  BY <1>1, <1>2, Zenon DEF TypeOK
<1>4. HandlerInv'
  BY <1>1, <1>2, Zenon DEF HandlerInv, NoMessage
<1>5. GroupsInv'
  BY <1>1, <1>2, SameGroups
<1>6. OnTheirWay(0)' = OnTheirWay(0) /\ \A r : OnTheirWay(r)' = OnTheirWay(r)
  BY <1>1, <1>2, SameGroups, Zenon DEF OnTheirWay
<1>7. CountInv'
  BY <1>1, <1>2, <1>6, SameGroups, Zenon DEF CountInv, Recipients
<1>8. ReachedInv'
  BY <1>1, <1>2, Zenon DEF ReachedInv, Recipients
<1>9. QED
  BY <1>3, <1>4, <1>5, <1>7, <1>8 DEF MessagesInv

(* The inductive invariant of the messages: groups are the file's, what    *)
(* waits belongs to the message that is handled, and what was sent or is   *)
(* on its way is no more than the work that was begun.                     *)
THEOREM MessagesCorrect == Spec => []MessagesInv
<1>1. Init => MessagesInv
  BY InitMessages
<1>2. MessagesInv /\ [Next]_vars => MessagesInv'
  <2> SUFFICES ASSUME MessagesInv, [Next]_vars PROVE MessagesInv'
    OBVIOUS
  <2>1. CASE InsertFiscalCodesInQueue
    BY <2>1, EnqueueKeeps, DispatchKeeps DEF InsertFiscalCodesInQueue
  <2>2. CASE SendMessages
    BY <2>2, ReceiveKeeps, SendKeeps, UploadKeeps DEF SendMessages
  <2>3. CASE Crash
    BY <2>3, CrashKeeps
  <2>4. CASE UNCHANGED vars
    BY <2>4, StutterKeeps
  <2>5. QED
    BY <2>1, <2>2, <2>3, <2>4 DEF Next
<1>3. QED
  BY <1>1, <1>2, PTL DEF Spec

(* Every variable has its type.                                            *)
THEOREM MessagesTypeOK == Spec => []TypeOK
<1>1. MessagesInv => TypeOK
  BY DEF MessagesInv
<1>2. QED
  BY <1>1, MessagesCorrect, PTL

(* Nobody is sent the message more often than the file lists them, for     *)
(* each call of the blob trigger and each delivery that was made again;    *)
(* and whoever a report says was reached was sent it.                      *)
THEOREM MessagesNobodyIsSentTwiceForNothing ==
  Spec => []NobodyIsSentTwiceForNothing
<1>1. MessagesInv => NobodyIsSentTwiceForNothing
  <2> SUFFICES ASSUME MessagesInv, NEW r \in Recipients
               PROVE  /\ sent[r] <= Listings(r) * (blobAttempt + redelivered)
                      /\ <<r, "201">> \in reports => sent[r] > 0
    BY DEF NobodyIsSentTwiceForNothing
  <2>1. TypeOK /\ GroupsInv /\ HandlerInv /\ CountInv /\ ReachedInv
    BY DEF MessagesInv
  <2> DEFINE places == Cardinality(PlacesOf(r))
             times == blobAttempt + redelivered
             way == OnTheirWay(r)
             listings == Listings(r)
  <2>2. places \in Nat /\ listings \in Nat /\ places <= listings
    BY <2>1, PlacesAreListings
  <2>3. times \in Nat /\ sent[r] \in Nat
    BY <2>1, Counters
  <2>4. way \in Nat
    <3>1. /\ Cardinality(InGroups(dispatching, r)) \in Nat
          /\ Cardinality(InMessages(queue, r)) \in Nat
          /\ Cardinality(InHand(handling.group, waiting, r)) \in Nat
      BY <2>1, PartsAreFinite DEF HandlerInv
    <3>2. QED
      BY <3>1 DEF OnTheirWay, Left
  <2>5. sent[r] + way <= places * times
    BY <2>1 DEF CountInv
  <2> HIDE DEF places, times, way, listings
  <2>6. places * times <= listings * times
    BY <2>2, <2>3
  <2>7. places * times \in Nat /\ listings * times \in Nat
    BY <2>2, <2>3
  <2>8. sent[r] <= listings * times
    BY <2>3, <2>4, <2>5, <2>6, <2>7
  <2>9. <<r, "201">> \in reports => sent[r] > 0
    BY <2>1 DEF ReachedInv
  <2>10. QED
    BY <2>8, <2>9 DEF listings, times
<1>2. QED
  BY <1>1, MessagesCorrect, PTL

(* Cutting the text by its characters loses nobody and garbles nobody:     *)
(* what the groups list is what the file lists, and the line of each       *)
(* listing begins at a place of its own.                                   *)
THEOREM MessagesGroupsAreTheFile ==
  Spec => [](ListsOnly(file, groups) /\ ListsAll(file, groups))
<1>1. MessagesInv => ListsOnly(file, groups) /\ ListsAll(file, groups)
  BY DEF MessagesInv, GroupsInv
<1>2. QED
  BY <1>1, MessagesCorrect, PTL

=============================================================================
