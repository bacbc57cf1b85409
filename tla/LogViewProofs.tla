--------------------------- MODULE LogViewProofs ----------------------------
(***************************************************************************)
(* A page shows its log in order and misses nothing that a poll can see,   *)
(* for lines and histories of any length, however the log is written and   *)
(* truncated.                                                              *)
(***************************************************************************)
EXTENDS LogView, SequenceTheorems, TLAPS

Pair == (0..MaxTop) \X (0..MaxTop)

\* texts that follow each other, and the bytes up to which they go
InOrder(texts) ==
    \A i \in DOMAIN texts :
        /\ texts[i][1] < texts[i][2]
        /\ i > 1 => texts[i - 1][2] <= texts[i][1]

UpTo(texts, p) == \A i \in DOMAIN texts : texts[i][2] <= p
From(texts, p) == \A i \in DOMAIN texts : p <= texts[i][1]
Has(texts, b) == \E i \in DOMAIN texts : texts[i][1] < b /\ b <= texts[i][2]

\* where the Tailer stands in what was ever written
Position == start + offset

Following == pc \in {"wait", "read"}

\* nothing is shown that is not yet written, or that the Tailer is to read;
\* after a truncation, whatever was shown is gone from the file
ShownBefore ==
    /\ UpTo(shown, top)
    /\ Following => UpTo(shown, Position)
    /\ Following /\ cut => UpTo(shown, start)

\* a Tailer stands behind the end only after a truncation
InFile == Following /\ ~cut => Position <= top

\* what is before the Tailer, in the file and owed, is shown
ShownUpToPosition ==
    Following /\ ~cut => \A b \in (start + 1)..Position : b > base => Has(shown, b)

ViewInv == TypeOK /\ InOrder(shown) /\ ShownBefore /\ InFile /\ ShownUpToPosition

(***************************************************************************)
(* Lines of LineLength bytes.                                              *)
(***************************************************************************)
LEMMA LineBounds ==
  ASSUME NEW b \in Nat \ {0}
  PROVE  /\ LineOf(b) \in Nat
         /\ LineOf(b) * LineLength < b
         /\ b <= (LineOf(b) + 1) * LineLength
<1>1. LineLength \in Nat \ {0} /\ b - 1 \in Nat
  BY ViewAssumption
<1>2. /\ (b - 1) \div LineLength \in Nat
      /\ ((b - 1) \div LineLength) * LineLength <= b - 1
      /\ b - 1 < ((b - 1) \div LineLength + 1) * LineLength
  BY <1>1
<1> QED
  BY <1>1, <1>2 DEF LineOf

LEMMA LineOrder ==
  ASSUME NEW b \in Nat \ {0}, NEW c \in Nat \ {0}, b <= c
  PROVE  LineOf(b) <= LineOf(c)
<1>1. LineLength \in Nat \ {0} /\ b - 1 \in Nat /\ c - 1 \in Nat /\ b - 1 <= c - 1
  BY ViewAssumption
<1>2. (b - 1) \div LineLength <= (c - 1) \div LineLength
  BY <1>1
<1> QED
  BY <1>2 DEF LineOf

(* What Lines returns: texts from a to b, in order and without a gap.      *)
LEMMA LinesAre ==
  ASSUME NEW a \in 0..MaxTop, NEW b \in a..MaxTop
  PROVE  /\ Lines(a, b) \in Seq(Pair)
         /\ InOrder(Lines(a, b))
         /\ From(Lines(a, b), a) /\ UpTo(Lines(a, b), b)
         /\ \A c \in (a + 1)..b : Has(Lines(a, b), c)
<1> DEFINE len == IF a < b THEN LineOf(b) - LineOf(a + 1) + 1 ELSE 0
           Line(i) == LineOf(a + 1) + i - 1
           L == LineLength
<1>0. a \in Nat /\ b \in Nat /\ L \in Nat \ {0} /\ MaxTop \in Nat /\ a + 1 \in Nat \ {0}
  BY ViewAssumption
<1>1. LineOf(a + 1) \in Nat /\ LineOf(a + 1) * L <= a /\ a + 1 <= (LineOf(a + 1) + 1) * L
  BY <1>0, LineBounds
<1>2. a < b => /\ LineOf(b) \in Nat /\ LineOf(b) * L < b /\ b <= (LineOf(b) + 1) * L
               /\ LineOf(a + 1) <= LineOf(b)
  BY <1>0, LineBounds, LineOrder
<1>3. len \in Nat /\ (len > 0 => a < b)
  BY <1>1, <1>2
<1>4. Lines(a, b) = [i \in 1..len |-> <<MaxOf(a, Line(i) * L), MinOf(b, (Line(i) + 1) * L)>>]
  BY DEF Lines
<1>5. ASSUME NEW i \in 1..len
      PROVE  /\ Line(i) \in Nat /\ Line(i) * L \in Nat /\ (Line(i) + 1) * L \in Nat
             /\ Line(i) * L < b /\ a < (Line(i) + 1) * L
             /\ Line(i) * L < (Line(i) + 1) * L
  <2>1. a < b /\ Line(i) \in Nat /\ LineOf(a + 1) <= Line(i) /\ Line(i) <= LineOf(b)
    BY <1>1, <1>2, <1>3
  <2>2. Line(i) * L <= LineOf(b) * L /\ (LineOf(a + 1) + 1) * L <= (Line(i) + 1) * L
    <3> HIDE DEF Line
    <3> QED
      BY <1>0, <1>1, <1>2, <2>1
  <2>3. Line(i) * L \in Nat /\ (Line(i) + 1) * L \in Nat /\ (Line(i) + 1) * L = Line(i) * L + L
    <3> HIDE DEF Line
    <3> QED
      BY <1>0, <2>1
  <2> QED
    BY <1>0, <1>1, <1>2, <2>1, <2>2, <2>3
<1> DEFINE first(i) == MaxOf(a, Line(i) * L)
           last(i) == MinOf(b, (Line(i) + 1) * L)
<1>6. ASSUME NEW i \in 1..len
      PROVE  /\ first(i) \in a..b /\ last(i) \in a..b /\ first(i) < last(i)
             /\ Lines(a, b)[i] = <<first(i), last(i)>>
  <2>1. a < b
    BY <1>3
  <2>2. Lines(a, b)[i] = <<first(i), last(i)>>
    BY <1>4
  <2>3. first(i) \in a..b /\ last(i) \in a..b /\ first(i) < last(i)
    <3> HIDE DEF Line
    <3> QED
      BY <1>0, <1>5, <2>1 DEF MaxOf, MinOf
  <2> QED
    BY <2>2, <2>3
<1>7. DOMAIN Lines(a, b) = 1..len
  BY <1>4
<1>8. Lines(a, b) \in Seq(Pair)
  <2> DEFINE texts == [i \in 1..len |-> <<first(i), last(i)>>]
  <2>1. \A i \in 1..len : <<first(i), last(i)>> \in Pair
    BY <1>0, <1>6 DEF Pair
  <2> HIDE DEF len, first, last
  <2>2. texts \in [1..len -> Pair]
    BY <2>1
  <2>3. texts \in Seq(Pair)
    BY <1>3, <2>2
  <2> USE DEF len, first, last
  <2> QED
    BY <1>4, <2>3
<1>9. InOrder(Lines(a, b))
  <2>1. ASSUME NEW i \in 1..len, i > 1 PROVE Lines(a, b)[i - 1][2] <= Lines(a, b)[i][1]
    <3>1. i - 1 \in 1..len /\ Line(i - 1) + 1 = Line(i)
      BY <1>1, <1>3, <2>1
    <3>2. last(i - 1) <= Line(i) * L /\ Line(i) * L <= first(i)
      <4> HIDE DEF Line
      <4> QED
        BY <1>0, <1>5, <3>1 DEF MaxOf, MinOf
    <3>3. Lines(a, b)[i - 1][2] = last(i - 1) /\ Lines(a, b)[i][1] = first(i)
      BY <1>6, <3>1
    <3>4. last(i - 1) \in a..b /\ first(i) \in a..b /\ Line(i) * L \in Nat
      BY <1>5, <1>6, <3>1
    <3> HIDE DEF first, last, Line
    <3> QED
      BY <1>0, <3>2, <3>3, <3>4
  <2> HIDE DEF len
  <2> QED
    BY <1>6, <1>7, <2>1 DEF InOrder
<1>10. From(Lines(a, b), a) /\ UpTo(Lines(a, b), b)
  BY <1>0, <1>6, <1>7 DEF From, UpTo
<1>11. ASSUME NEW c \in (a + 1)..b PROVE Has(Lines(a, b), c)
  <2> DEFINE i == LineOf(c) - LineOf(a + 1) + 1
  <2>0. a < b /\ c \in Nat \ {0} /\ b \in Nat \ {0} /\ a + 1 <= c /\ c <= b
    BY <1>0
  <2>1. LineOf(c) \in Nat /\ LineOf(c) * L < c /\ c <= (LineOf(c) + 1) * L
    BY <2>0, LineBounds
  <2>2. LineOf(a + 1) <= LineOf(c) /\ LineOf(c) <= LineOf(b)
    BY <1>0, <2>0, LineOrder
  <2>3. i \in 1..len /\ Line(i) = LineOf(c)
    BY <1>1, <1>2, <2>0, <2>1, <2>2
  <2>4. first(i) < c /\ c <= last(i)
    <3>1. first(i) = MaxOf(a, LineOf(c) * L) /\ last(i) = MinOf(b, (LineOf(c) + 1) * L)
      BY <2>3
    <3>2. LineOf(c) * L \in Nat /\ (LineOf(c) + 1) * L \in Nat
      BY <1>0, <2>1
    <3> HIDE DEF first, last, Line, i
    <3> QED
      BY <1>0, <2>0, <2>1, <3>1, <3>2 DEF MaxOf, MinOf
  <2>5. Lines(a, b)[i] = <<first(i), last(i)>>
    BY <1>6, <2>3
  <2> HIDE DEF first, last, i, len
  <2> QED
    BY <1>7, <2>3, <2>4, <2>5 DEF Has
<1> HIDE DEF len, Line, first, last
<1> QED
  BY <1>8, <1>9, <1>10, <1>11

(* The last lines of what is in order are in order.                        *)
LEMMA LastLinesAre ==
  ASSUME NEW texts \in Seq(Pair), InOrder(texts), NEW p, UpTo(texts, p)
  PROVE  /\ LastLines(HistoryLines, texts) \in Seq(Pair)
         /\ InOrder(LastLines(HistoryLines, texts))
         /\ UpTo(LastLines(HistoryLines, texts), p)
<1> DEFINE n == Len(texts)
           m == IF n > HistoryLines THEN n - HistoryLines + 1 ELSE 1
           ring == SubSeq(texts, m, n)
<1>1. n \in Nat /\ m \in Int /\ m >= 1 /\ DOMAIN texts = 1..n
  BY LenProperties, ViewAssumption
<1>2. \A i \in m..n : texts[i] \in Pair
  BY <1>1, ElementOfSeq
<1> HIDE DEF m
<1>3. /\ ring \in Seq(Pair)
      /\ Len(ring) = IF m <= n THEN n - m + 1 ELSE 0
      /\ \A i \in 1..(n - m + 1) : ring[i] = texts[m + i - 1]
  BY <1>1, <1>2, SubSeqProperties
<1>4. DOMAIN ring = 1..Len(ring) /\ Len(ring) \in Nat
  BY <1>3, LenProperties
<1> HIDE DEF ring
<1>5. \A i \in DOMAIN ring : m + i - 1 \in DOMAIN texts /\ ring[i] = texts[m + i - 1]
  BY <1>1, <1>3, <1>4
<1>6. \A i \in DOMAIN ring : i > 1 => /\ i - 1 \in DOMAIN ring /\ ring[i - 1] = texts[(m + i - 1) - 1]
                                      /\ m + i - 1 > 1
  <2>1. ASSUME NEW i \in DOMAIN ring, i > 1
        PROVE  i - 1 \in DOMAIN ring /\ (m + i - 1) - 1 = m + (i - 1) - 1 /\ m + i - 1 > 1
    BY <1>1, <1>4, <2>1
  <2> QED
    BY <1>5, <2>1
<1>7. InOrder(ring) /\ UpTo(ring, p)
  BY <1>5, <1>6 DEF InOrder, UpTo
<1> QED
  BY <1>3, <1>7 DEF ring, m, LastLines

(* What is appended to texts that end before it follows them.              *)
LEMMA AppendedAre ==
  ASSUME NEW s \in Seq(Pair), NEW t \in Seq(Pair), NEW p \in Nat, NEW q \in Nat, p <= q,
         InOrder(s), UpTo(s, p), InOrder(t), From(t, p), UpTo(t, q)
  PROVE  /\ s \o t \in Seq(Pair) /\ InOrder(s \o t) /\ UpTo(s \o t, q)
         /\ \A c : Has(s, c) \/ Has(t, c) => Has(s \o t, c)
<1> DEFINE both == s \o t
           m == Len(s)
           n == Len(t)
<1>1. m \in Nat /\ n \in Nat /\ DOMAIN s = 1..m /\ DOMAIN t = 1..n
  BY LenProperties
<1>2. /\ both \in Seq(Pair) /\ Len(both) = m + n
      /\ \A i \in 1..(m + n) : both[i] = IF i <= m THEN s[i] ELSE t[i - m]
  BY ConcatProperties
<1>3. DOMAIN both = 1..(m + n)
  BY <1>2, LenProperties
<1>4. \A x \in Pair : x[1] \in Nat /\ x[2] \in Nat
  BY ViewAssumption DEF Pair
<1>5. /\ \A i \in 1..m : i \in DOMAIN s /\ both[i] = s[i] /\ s[i] \in Pair
      /\ \A i \in 1..n : i \in DOMAIN t /\ both[m + i] = t[i] /\ t[i] \in Pair
  BY <1>1, <1>2, ElementOfSeq
<1>6. \A i \in 1..(m + n) : i \in 1..m \/ (i - m \in 1..n /\ i = m + (i - m))
  BY <1>1
<1> HIDE DEF both, m, n
<1>7. InOrder(both)
  <2>1. ASSUME NEW i \in 1..(m + n)
        PROVE  both[i][1] < both[i][2] /\ (i > 1 => both[i - 1][2] <= both[i][1])
    <3>1. CASE i \in 1..m
      BY <1>1, <1>5, <3>1 DEF InOrder
    <3>2. CASE i - m \in 1..n /\ i - m > 1
      <4>1. i - m - 1 \in 1..n /\ i = m + (i - m) /\ i - 1 = m + (i - m - 1)
        BY <1>1, <3>2
      <4>2. both[i] = t[i - m] /\ both[i - 1] = t[i - m - 1] /\ i - m \in DOMAIN t
        BY <1>5, <3>2, <4>1
      <4> QED
        BY <3>2, <4>2 DEF InOrder
    <3>3. CASE i - m = 1 /\ 1 \in 1..n
      <4>1. both[i] = t[1] /\ 1 \in DOMAIN t /\ t[1] \in Pair
        BY <1>1, <1>5, <3>3
      <4>2. i > 1 => i - 1 \in 1..m /\ both[i - 1] = s[i - 1] /\ i - 1 \in DOMAIN s /\ s[i - 1] \in Pair
        BY <1>1, <1>5, <3>3
      <4>3. p <= t[1][1] /\ (i > 1 => s[i - 1][2] <= p)
        BY <4>1, <4>2 DEF From, UpTo
      <4>4. t[1][1] < t[1][2]
        BY <4>1 DEF InOrder
      <4> QED
        BY <1>4, <4>1, <4>2, <4>3, <4>4
    <3> QED
      BY <1>1, <1>6, <3>1, <3>2, <3>3
  <2> QED
    BY <1>3, <2>1 DEF InOrder
<1>8. UpTo(both, q)
  <2>1. ASSUME NEW i \in 1..(m + n) PROVE both[i][2] <= q
    <3>1. CASE i \in 1..m
      BY <1>4, <1>5, <3>1 DEF UpTo
    <3>2. CASE i - m \in 1..n /\ i = m + (i - m)
      <4>1. both[i] = t[i - m] /\ i - m \in DOMAIN t
        BY <1>5, <3>2
      <4> QED
        BY <4>1 DEF UpTo
    <3> QED
      BY <1>6, <3>1, <3>2
  <2> QED
    BY <1>3, <2>1 DEF UpTo
<1>9. ASSUME NEW c, Has(s, c) \/ Has(t, c) PROVE Has(both, c)
  <2>1. CASE Has(s, c)
    <3>1. PICK i \in DOMAIN s : s[i][1] < c /\ c <= s[i][2]
      BY <2>1 DEF Has
    <3>2. i \in DOMAIN both /\ both[i] = s[i]
      BY <1>1, <1>3, <1>5
    <3> QED
      BY <3>1, <3>2 DEF Has
  <2>2. CASE Has(t, c)
    <3>1. PICK i \in DOMAIN t : t[i][1] < c /\ c <= t[i][2]
      BY <2>2 DEF Has
    <3>2. m + i \in DOMAIN both /\ both[m + i] = t[i]
      BY <1>1, <1>3, <1>5
    <3> QED
      BY <3>1, <3>2 DEF Has
  <2> QED
    BY <1>9, <2>1, <2>2
<1> QED
  BY <1>2, <1>7, <1>8, <1>9 DEF both

(***************************************************************************)
(* Types.                                                                  *)
(***************************************************************************)
LEMMA FileType ==
  ASSUME TypeOK
  PROVE  /\ {start, top, offset, base, size, Position, MaxTop} \subseteq Int
         /\ 0 <= start /\ start <= top /\ top <= MaxTop /\ size \in 0..MaxTop
         /\ offset \in 0..MaxTop /\ top \in Nat /\ Position \in Nat
  BY ViewAssumption DEF TypeOK, size, Position

LEMMA HistoryIs ==
  ASSUME TypeOK
  PROVE  LET texts == LastLines(HistoryLines, Lines(start, top))
         IN  texts \in Seq(Pair) /\ InOrder(texts) /\ UpTo(texts, top)
<1>1. start \in 0..MaxTop /\ top \in start..MaxTop
  BY FileType
<1> QED
  BY <1>1, LinesAre, LastLinesAre

(* What a poll appends, when there is something to read or nothing.        *)
LEMMA PollAppends ==
  ASSUME TypeOK, InOrder(shown), UpTo(shown, Position), offset <= size
  PROVE  LET texts == shown \o Lines(Position, top)
         IN  /\ texts \in Seq(Pair) /\ InOrder(texts) /\ UpTo(texts, top)
             /\ \A c : Has(shown, c) => Has(texts, c)
             /\ \A c \in (Position + 1)..top : Has(texts, c)
<1>1. Position \in 0..MaxTop /\ top \in Position..MaxTop /\ Position \in Nat /\ top \in Nat
      /\ Position <= top
  BY FileType DEF size, Position
<1>2. shown \in Seq(Pair)
  BY DEF TypeOK, Pair
<1> DEFINE t == Lines(Position, top)
<1>3. /\ t \in Seq(Pair) /\ InOrder(t) /\ From(t, Position) /\ UpTo(t, top)
      /\ \A c \in (Position + 1)..top : Has(t, c)
  BY <1>1, LinesAre
<1> HIDE DEF t
<1>4. /\ shown \o t \in Seq(Pair) /\ InOrder(shown \o t) /\ UpTo(shown \o t, top)
      /\ \A c : Has(shown, c) \/ Has(t, c) => Has(shown \o t, c)
  BY <1>1, <1>2, <1>3, AppendedAre
<1> QED
  BY <1>3, <1>4 DEF t

LEMMA TypeStep ==
  ASSUME TypeOK, InOrder(shown), ShownBefore, Next
  PROVE  TypeOK'
<1> DEFINE Bounds ==
             /\ {start, top, offset, base, size, Position, MaxTop} \subseteq Int
             /\ 0 <= start /\ start <= top /\ top <= MaxTop /\ size \in 0..MaxTop
             /\ offset \in 0..MaxTop /\ top \in Nat /\ Position \in Nat
<1>0. TypeOK /\ Bounds /\ base \in 0..top
  BY FileType DEF TypeOK
<1>1. CASE WriteBytes
  <2>1. PICK n \in 1..LineLength : top + n <= MaxTop /\ top' = top + n
    BY <1>1 DEF WriteBytes
  <2>2. top' \in 0..MaxTop /\ start' \in 0..top' /\ base' \in 0..top'
    BY <1>0, <1>1, <2>1, ViewAssumption DEF WriteBytes
  <2> QED
    BY <1>1, <2>2 DEF WriteBytes, TypeOK, handler
<1>2. CASE Truncate \/ Unmounted
  <2>1. start' = top /\ cut' = TRUE /\ exists' \in BOOLEAN
        /\ UNCHANGED <<top, pc, open, offset, shown, base>>
    BY <1>0, <1>2 DEF Truncate, Unmounted, TypeOK, handler
  <2>2. start' \in 0..top'
    BY <1>0, <2>1
  <2> QED
    BY <1>0, <2>1, <2>2 DEF TypeOK
<1>3. CASE Connect \/ Leave
  <2>1. UNCHANGED <<exists, start, top, offset, cut, base>> /\ open' \in BOOLEAN
    BY <1>3 DEF Connect, Leave, file
  <2>2. /\ pc' \in {"closed", "history", "stat", "wait", "read"}
        /\ shown' = shown \/ shown' = <<>>
    BY <1>0, <1>3 DEF Connect, Leave, TypeOK
  <2>3. shown' \in Seq((0..MaxTop) \X (0..MaxTop))
    <3>1. <<>> \in Seq((0..MaxTop) \X (0..MaxTop))
      OBVIOUS
    <3> QED
      BY <1>0, <2>2, <3>1 DEF TypeOK
  <2> QED
    BY <1>0, <2>1, <2>2, <2>3 DEF TypeOK
<1>4. CASE SendHistory
  <2>1. shown' \in Seq((0..MaxTop) \X (0..MaxTop))
    BY <1>4, HistoryIs DEF SendHistory, Pair
  <2> QED
    BY <1>4, <2>1 DEF SendHistory, TypeOK, file
<1>5. CASE Follow
  <2>1. UNCHANGED <<exists, start, top, open, shown>> /\ offset' = size
        /\ base' = top /\ cut' = FALSE /\ pc' = "wait"
    BY <1>5 DEF Follow, FollowFrom, file
  <2>2. base' \in 0..top' /\ offset' \in 0..MaxTop
    BY <1>0, <2>1
  <2> QED
    BY <1>0, <2>1, <2>2 DEF TypeOK
<1>6. CASE PollStat
  <2>1. (cut /\ size >= offset) \in BOOLEAN
    BY DEF TypeOK
  <2> QED
    BY <1>0, <1>6, <2>1 DEF PollStat, Rewound, TypeOK, file
<1>7. CASE PollRead
  <2>1. CASE offset <= size
    <3>1. pc = "read" /\ shown' = shown \o Lines(Position, top) /\ offset' = size
      BY <1>7, <2>1 DEF PollRead, ReadTo, Position
    <3>2. UpTo(shown, Position)
      BY <3>1 DEF ShownBefore, Following
    <3>3. shown' \in Seq((0..MaxTop) \X (0..MaxTop))
      BY <2>1, <3>1, <3>2, PollAppends DEF Pair
    <3>4. base' \in 0..top
      BY <1>0, <1>7, <2>1 DEF PollRead
    <3>5. UNCHANGED <<exists, start, top, open>> /\ pc' = "wait" /\ cut' = FALSE
      BY <1>7, <2>1 DEF PollRead, file
    <3>6. offset' \in 0..MaxTop
      BY <1>0, <3>1
    <3> QED
      BY <1>0, <3>3, <3>4, <3>5, <3>6 DEF TypeOK
  <2>2. CASE ~(offset <= size)
    BY <1>7, <2>2 DEF PollRead, TypeOK, file
  <2> QED
    BY <2>1, <2>2
<1>8. CASE FileGone \/ WriteFails
  <2>1. UNCHANGED <<exists, start, top, shown, cut, base>>
        /\ pc' = "closed" /\ open' = FALSE /\ offset' = 0
    BY <1>8 DEF FileGone, WriteFails, Close, file
  <2>2. offset' \in 0..MaxTop
    BY <2>1, ViewAssumption
  <2> QED
    BY <1>0, <2>1, <2>2 DEF TypeOK
<1> QED
  BY <1>1, <1>2, <1>3, <1>4, <1>5, <1>6, <1>7, <1>8 DEF Next, Handler

(***************************************************************************)
(* What is shown, and what is still to be read.                            *)
(***************************************************************************)
LEMMA ShownTypes ==
  ASSUME TypeOK
  PROVE  \A i \in DOMAIN shown : shown[i][1] \in Nat /\ shown[i][2] \in Nat
<1>1. shown \in Seq(Pair) /\ \A x \in Pair : x[1] \in Nat /\ x[2] \in Nat
  BY ViewAssumption DEF TypeOK, Pair
<1>2. DOMAIN shown = 1..Len(shown)
  BY <1>1, LenProperties
<1> QED
  BY <1>1, <1>2, ElementOfSeq

LEMMA ShownStep ==
  ASSUME TypeOK, InOrder(shown), ShownBefore, InFile, Next
  PROVE  InOrder(shown)' /\ ShownBefore'
<1> DEFINE Bounds ==
             /\ {start, top, offset, base, size, Position, MaxTop} \subseteq Int
             /\ 0 <= start /\ start <= top /\ top <= MaxTop /\ size \in 0..MaxTop
             /\ offset \in 0..MaxTop /\ top \in Nat /\ Position \in Nat
<1>0. /\ Bounds /\ Position = start + offset /\ size = top - start
      /\ \A i \in DOMAIN shown : shown[i][1] \in Nat /\ shown[i][2] \in Nat
  BY FileType, ShownTypes DEF Position, size
<1>1. CASE WriteBytes
  <2>1. top' \in Nat /\ top <= top' /\ UNCHANGED <<start, pc, offset, shown, cut>>
    BY <1>0, <1>1, ViewAssumption DEF WriteBytes, handler
  <2>2. UpTo(shown, top) => UpTo(shown, top')
    BY <1>0, <2>1 DEF UpTo
  <2> QED
    BY <2>1, <2>2 DEF ShownBefore, Following, Position, InOrder, UpTo
<1>2. CASE Truncate \/ Unmounted
  <2>1. start' = top /\ cut' /\ UNCHANGED <<top, pc, offset, shown>>
    BY <1>2 DEF Truncate, Unmounted, handler
  <2>2. Position' \in Nat /\ top <= Position'
    BY <1>0, <2>1 DEF Position
  <2>3. UpTo(shown, top)
    BY DEF ShownBefore
  <2>4. UpTo(shown, Position')
    BY <1>0, <2>2, <2>3 DEF UpTo
  <2> QED
    BY <2>1, <2>3, <2>4 DEF ShownBefore, Following, InOrder, UpTo
<1>3. CASE Connect
  BY <1>3 DEF Connect, ShownBefore, Following, InOrder, UpTo, file
<1>4. CASE Leave \/ FileGone \/ WriteFails
  BY <1>4 DEF Leave, FileGone, WriteFails, Close, ShownBefore, Following, InOrder, UpTo, file, Position
<1>5. CASE SendHistory
  BY <1>5, HistoryIs DEF SendHistory, ShownBefore, Following, InOrder, UpTo, file
<1>6. CASE Follow
  <2>1. Position' = top /\ ~cut' /\ UNCHANGED <<shown, start, top>>
    BY <1>0, <1>6 DEF Follow, FollowFrom, Position, file
  <2> QED
    BY <2>1 DEF ShownBefore, InOrder, UpTo
<1>7. CASE PollStat
  <2>1. UNCHANGED <<start, top, shown>> /\ Following
    BY <1>7 DEF PollStat, file, Following
  <2>2. CASE size < offset
    <3>1. cut
      BY <1>0, <2>1, <2>2 DEF InFile
    <3>2. offset' = 0 /\ start' = start
      BY <1>7, <2>1, <2>2 DEF PollStat, Rewound
    <3>3. Position' = start
      BY <1>0, <3>2 DEF Position
    <3>4. ~cut'
      <4>1. ~(size >= offset)
        BY <1>0, <2>2
      <4> QED
        BY <1>7, <4>1 DEF PollStat
    <3> QED
      BY <2>1, <3>1, <3>3, <3>4 DEF ShownBefore, InOrder, UpTo
  <2>3. CASE ~(size < offset)
    <3>1. Position' = Position /\ (cut' => cut)
      BY <1>7, <2>1, <2>3 DEF PollStat, Rewound, Position
    <3> QED
      BY <2>1, <3>1 DEF ShownBefore, InOrder, UpTo
  <2> QED
    BY <2>2, <2>3
<1>8. CASE PollRead
  <2>1. UNCHANGED <<start, top>> /\ Following
    BY <1>8 DEF PollRead, file, Following
  <2>2. CASE offset <= size
    <3>1. shown' = shown \o Lines(Position, top) /\ Position' = top /\ ~cut'
      BY <1>0, <1>8, <2>1, <2>2 DEF PollRead, ReadTo, Position
    <3>2. InOrder(shown') /\ UpTo(shown', top)
      BY <2>1, <2>2, <3>1, PollAppends DEF ShownBefore
    <3> QED
      BY <2>1, <3>1, <3>2 DEF ShownBefore, InOrder, UpTo
  <2>3. CASE ~(offset <= size)
    <3>1. UNCHANGED <<shown, offset, cut>>
      BY <1>8, <2>3 DEF PollRead
    <3> QED
      BY <2>1, <3>1 DEF ShownBefore, InOrder, UpTo, Position
  <2> QED
    BY <2>2, <2>3
<1> QED
  BY <1>1, <1>2, <1>3, <1>4, <1>5, <1>6, <1>7, <1>8 DEF Next, Handler

LEMMA PositionStep ==
  ASSUME TypeOK, InOrder(shown), ShownBefore, InFile, ShownUpToPosition, Next
  PROVE  InFile' /\ ShownUpToPosition'
<1> DEFINE Bounds ==
             /\ {start, top, offset, base, size, Position, MaxTop} \subseteq Int
             /\ 0 <= start /\ start <= top /\ top <= MaxTop /\ size \in 0..MaxTop
             /\ offset \in 0..MaxTop /\ top \in Nat /\ Position \in Nat
<1>0. Bounds /\ Position = start + offset /\ size = top - start
  BY FileType DEF Position, size
<1>1. CASE WriteBytes
  <2>1. top' \in Nat /\ top <= top' /\ UNCHANGED <<start, pc, offset, shown, cut, base>>
    BY <1>0, <1>1, ViewAssumption DEF WriteBytes, handler
  <2> QED
    BY <1>0, <2>1 DEF InFile, ShownUpToPosition, Following, Position, Has
<1>2. CASE Truncate \/ Unmounted
  BY <1>2 DEF Truncate, Unmounted, InFile, ShownUpToPosition
<1>3. CASE Connect \/ SendHistory \/ FileGone \/ WriteFails
  BY <1>3 DEF Connect, SendHistory, FileGone, WriteFails, Close, InFile, ShownUpToPosition, Following
<1>4. CASE Leave
  BY <1>4 DEF Leave, InFile, ShownUpToPosition, Following, Position, Has, file
<1>5. CASE Follow
  <2>1. Position' = top /\ base' = top /\ top' = top
    BY <1>0, <1>5 DEF Follow, FollowFrom, Position, file
  <2> QED
    BY <1>0, <2>1 DEF InFile, ShownUpToPosition
<1>6. CASE PollStat
  <2>1. UNCHANGED <<start, top, shown, base>> /\ Following
    BY <1>6 DEF PollStat, file, Following
  <2>2. CASE size < offset
    <3>1. Position' = start /\ start' = start
      BY <1>0, <1>6, <2>1, <2>2 DEF PollStat, Rewound, Position
    <3> QED
      BY <1>0, <2>1, <3>1 DEF InFile, ShownUpToPosition
  <2>3. CASE ~(size < offset)
    <3>1. offset' = offset /\ cut' = cut
      BY <1>0, <1>6, <2>1, <2>3 DEF PollStat, Rewound, TypeOK
    <3> QED
      BY <2>1, <3>1 DEF InFile, ShownUpToPosition, Position, Has
  <2> QED
    BY <2>2, <2>3
<1>7. CASE PollRead
  <2>1. UNCHANGED <<start, top>> /\ Following
    BY <1>7 DEF PollRead, file, Following
  <2>2. CASE offset <= size
    <3>1. /\ shown' = shown \o Lines(Position, top) /\ Position' = top /\ Position <= top
          /\ base' = IF cut THEN top ELSE base
      BY <1>0, <1>7, <2>1, <2>2 DEF PollRead, ReadTo, Position
    <3>2. /\ \A c : Has(shown, c) => Has(shown', c)
          /\ \A c \in (Position + 1)..top : Has(shown', c)
      BY <2>1, <2>2, <3>1, PollAppends DEF ShownBefore
    <3>3. ASSUME NEW b \in (start + 1)..top, b > base' PROVE Has(shown', b)
      <4>1. ~cut
        BY <1>0, <3>1, <3>3
      <4>2. CASE b <= Position
        BY <1>0, <2>1, <3>1, <3>2, <3>3, <4>1, <4>2 DEF ShownUpToPosition
      <4>3. CASE ~(b <= Position)
        BY <1>0, <3>2, <3>3, <4>3
      <4> QED
        BY <4>2, <4>3
    <3> QED
      BY <1>0, <2>1, <3>1, <3>3 DEF InFile, ShownUpToPosition, Has
  <2>3. CASE ~(offset <= size)
    <3>1. UNCHANGED <<shown, offset, cut, base>>
      BY <1>7, <2>3 DEF PollRead
    <3> QED
      BY <2>1, <3>1 DEF PollRead, InFile, ShownUpToPosition, Following, Position, Has
  <2> QED
    BY <2>2, <2>3
<1> QED
  BY <1>1, <1>2, <1>3, <1>4, <1>5, <1>6, <1>7 DEF Next, Handler

(***************************************************************************)
(* The invariant, and what follows from it.                                *)
(***************************************************************************)
LEMMA ViewInvInit == Init => ViewInv
<1> SUFFICES ASSUME Init PROVE ViewInv
  OBVIOUS
<1>1. shown \in Seq((0..MaxTop) \X (0..MaxTop)) /\ DOMAIN shown = {}
  BY DEF Init
<1>2. TypeOK
  <2>1. 0 \in 0..MaxTop /\ 0 \in 0..0
    BY ViewAssumption
  <2>2. top \in 0..MaxTop /\ start \in 0..top /\ base \in 0..top /\ offset \in 0..MaxTop
    BY <2>1 DEF Init
  <2> QED
    BY <1>1, <2>2 DEF Init, TypeOK
<1> QED
  BY <1>1, <1>2
  DEF Init, ViewInv, InOrder, ShownBefore, UpTo, InFile, ShownUpToPosition, Following

LEMMA ViewInvStep == ViewInv /\ [Next]_vars => ViewInv'
<1>1. ASSUME ViewInv, Next PROVE ViewInv'
  BY <1>1, TypeStep, ShownStep, PositionStep DEF ViewInv
<1>2. ASSUME ViewInv, UNCHANGED vars PROVE ViewInv'
  BY <1>2 DEF vars, ViewInv, TypeOK, InOrder, ShownBefore, UpTo, InFile, ShownUpToPosition,
              Following, Position, Has
<1> QED
  BY <1>1, <1>2

LEMMA ViewInvAlways == Spec => []ViewInv
  BY ViewInvInit, ViewInvStep, PTL DEF Spec

(* Every variable keeps its type; in particular no text is cut from        *)
(* outside of what can have been written to the log.                       *)
THEOREM TypeCorrect == Spec => []TypeOK
<1>1. ViewInv => TypeOK
  BY DEF ViewInv
<1> QED
  BY <1>1, ViewInvAlways, PTL

(* A page shows every byte at most once and in order, whatever the lengths *)
(* of lines and history, and wherever the log is truncated.                *)
THEOREM TextsInOrder == Spec => []ShownInOrder
<1>1. ViewInv => ShownInOrder
  BY DEF ViewInv, InOrder, ShownInOrder
<1> QED
  BY <1>1, ViewInvAlways, PTL

(* A poll that did not overlook a truncation leaves nothing unread that is *)
(* owed to the page.                                                       *)
THEOREM PollsCatchUp == Spec => PollCatchesUp
<1> DEFINE Caught == \A b \in (start + 1)..top : b > base => Shown(b)'
           A == pc = "read" /\ pc' = "wait" /\ ~cut => Caught
<1>1. ViewInv /\ [Next]_vars => [A]_vars
  <2>1. ASSUME ViewInv, Next, pc = "read", pc' = "wait", ~cut PROVE Caught
    <3>1. TypeOK /\ InOrder(shown) /\ ShownBefore /\ InFile /\ ShownUpToPosition
      BY <2>1 DEF ViewInv
    <3>2. PollRead
      BY <2>1 DEF Next, WriteBytes, Truncate, Unmounted, Connect, Leave, Handler, SendHistory,
                  Follow, PollStat, FileGone, WriteFails, Close, handler
    <3>3. offset <= size /\ Position <= top
      BY <2>1, <3>1, FileType DEF InFile, Following, size, Position
    <3>4. UNCHANGED <<start, top, base>> /\ ~cut' /\ Following' /\ Position' = top
      BY <2>1, <3>1, <3>2, <3>3, FileType DEF PollRead, ReadTo, Position, Following, file, size
    <3>5. ShownUpToPosition'
      BY <2>1, <3>1, PositionStep
    <3>6. \A b \in (start + 1)..top : b > base => Has(shown', b)
      BY <3>4, <3>5 DEF ShownUpToPosition, Has
    <3> QED
      BY <3>6 DEF Has, Shown
  <2> QED
    BY <2>1
<1>2. PollCatchesUp <=> [][A]_vars
  BY DEF PollCatchesUp
<1> QED
  BY <1>1, <1>2, ViewInvAlways, PTL DEF Spec
=============================================================================
