-------------------------- MODULE TextToolsProofs ---------------------------
(***************************************************************************)
(* The tools that answer with lines, for any text, any window and any      *)
(* number of lines.                                                        *)
(*                                                                         *)
(* What a loop over lines computes is shown by induction on the lines gone *)
(* through; what a window chooses, by following the places of its lines in *)
(* the text.  For the sosreport tools: where a clean path leads, what a    *)
(* search of the manifest finds, and what the name of a log tells.         *)
(***************************************************************************)
EXTENDS TextTools, FiniteSetTheorems, WellFoundedInduction, TLAPS

-----------------------------------------------------------------------------
(* Induction. *)

\* A set of natural numbers has a least element.
LEMMA LeastElement ==
    ASSUME NEW T \in SUBSET Nat, T # {}
    PROVE  \E x \in T : \A y \in T : x <= y
<1> DEFINE R == OpToRel(<, Nat)
<1>1. IsWellFoundedOn(R, Nat)
  BY NatLessThanWellFounded
<1>2. \A x, y \in Nat : x < y => <<x, y>> \in R
  BY DEF OpToRel
<1> HIDE DEF R
<1>3. PICK x \in T : \A y \in T : ~(<<y, x>> \in R)
  BY <1>1, WFMin
<1>4. x \in Nat /\ \A y \in T : y \in Nat /\ ~(y < x)
  BY <1>2, <1>3
<1>5. \A y \in T : x <= y
  BY <1>4
<1> QED BY <1>3, <1>5

\* A set that has 0 and with every number its successor has all of them.
LEMMA SetInduction ==
    ASSUME NEW S, 0 \in S, \A n \in Nat : n \in S => n + 1 \in S
    PROVE  \A n \in Nat : n \in S
<1> SUFFICES ASSUME ~(\A n \in Nat : n \in S) PROVE FALSE
  OBVIOUS
<1>1. PICK x \in Nat \ S : \A y \in Nat \ S : x <= y
  BY LeastElement
<1>2. x # 0 /\ x - 1 \in Nat
  BY <1>1
<1>3. x - 1 \in S
  BY <1>1, <1>2
<1> QED BY <1>1, <1>2, <1>3

-----------------------------------------------------------------------------
(* The loop that keeps lines. *)

\* What the loop of Keep has kept after i lines.
Kept(lines, S) ==
    LET kept[i \in 0 .. Len(lines)] ==
            IF i = 0 THEN <<>>
            ELSE IF lines[i] \in S THEN Append(kept[i - 1], lines[i])
                                   ELSE kept[i - 1]
    IN  kept

\* g is what it has kept after each of the first n lines.
IsKept(g, lines, S, n) ==
    g = [i \in 0 .. n |->
           IF i = 0 THEN <<>>
           ELSE IF lines[i] \in S THEN Append(g[i - 1], lines[i])
                                  ELSE g[i - 1]]

\* One round of the loop.
Round(g, lines, S, i) ==
    g[i] = IF lines[i] \in S THEN Append(g[i - 1], lines[i]) ELSE g[i - 1]

\* The recursive definition defines a function.
LEMMA KeptExists ==
    ASSUME NEW T, NEW lines \in Seq(T), NEW S
    PROVE  IsKept(Kept(lines, S), lines, S, Len(lines))
<1> DEFINE P == {n \in Nat : \E g : IsKept(g, lines, S, n)}
<1>1. 0 \in P
  <2> DEFINE g == [i \in 0 .. 0 |-> <<>>]
  <2>1. IsKept(g, lines, S, 0)
    BY DEF IsKept
  <2> QED BY <2>1
<1>2. ASSUME NEW n \in Nat, n \in P
      PROVE  n + 1 \in P
  <2>1. PICK g : IsKept(g, lines, S, n)
    BY <1>2
  <2> DEFINE h == [i \in 0 .. n + 1 |->
                     IF i = 0 THEN <<>>
                     ELSE IF lines[i] \in S THEN Append(g[i - 1], lines[i]) ELSE g[i - 1]]
  <2>2. \A i \in 0 .. n : h[i] = g[i]
    <3>1. \A i \in 0 .. n : i \in 0 .. n + 1
      OBVIOUS
    <3> QED BY <2>1, <3>1, Zenon DEF IsKept
  <2>3. \A i \in 0 .. n + 1 : i # 0 => i - 1 \in 0 .. n
    OBVIOUS
  <2>4. IsKept(h, lines, S, n + 1)
    BY <2>2, <2>3 DEF IsKept
  <2> QED BY <2>4
<1> HIDE DEF P
<1>3. Len(lines) \in P
  BY <1>1, <1>2, SetInduction
<1>4. \E g : IsKept(g, lines, S, Len(lines))
  BY <1>3 DEF P
<1> QED BY <1>4, Zenon DEF Kept, IsKept

\* It starts with nothing and takes one line at a time.
LEMMA KeptRounds ==
    ASSUME NEW T, NEW lines \in Seq(T), NEW S
    PROVE  /\ Kept(lines, S)[0] = <<>>
           /\ \A i \in 1 .. Len(lines) : Round(Kept(lines, S), lines, S, i)
<1> DEFINE g == Kept(lines, S)
<1>1. IsKept(g, lines, S, Len(lines))
  BY KeptExists
<1> HIDE DEF g
<1>2. \A i \in 0 .. Len(lines) :
        g[i] = IF i = 0 THEN <<>>
               ELSE IF lines[i] \in S THEN Append(g[i - 1], lines[i])
                                      ELSE g[i - 1]
  BY <1>1, Zenon DEF IsKept
<1>3. g[0] = <<>> /\ \A i \in 1 .. Len(lines) : Round(g, lines, S, i)
  BY <1>2 DEF Round
<1> QED BY <1>3 DEF g

\* What is kept is a text, of lines of S, and not longer.
LEMMA KeepType ==
    ASSUME NEW T, NEW lines \in Seq(T), NEW S
    PROVE  /\ Keep(lines, S) \in Seq(T)
           /\ Len(Keep(lines, S)) <= Len(lines)
<1> DEFINE g == Kept(lines, S)
           P == {n \in Nat : n <= Len(lines) => g[n] \in Seq(T) /\ Len(g[n]) <= n}
<1>1. g[0] = <<>> /\ \A i \in 1 .. Len(lines) : Round(g, lines, S, i)
  BY KeptRounds
<1> HIDE DEF g
<1>2. 0 \in P
  <2>1. g[0] \in Seq(T) /\ Len(g[0]) = 0
    BY <1>1
  <2> QED BY <2>1
<1>3. ASSUME NEW n \in Nat, n \in P
      PROVE  n + 1 \in P
  <2> SUFFICES ASSUME n + 1 <= Len(lines)
               PROVE  g[n + 1] \in Seq(T) /\ Len(g[n + 1]) <= n + 1
    OBVIOUS
  <2>1. g[n] \in Seq(T) /\ Len(g[n]) <= n
    BY <1>3
  <2>2. Round(g, lines, S, n + 1) /\ lines[n + 1] \in T
    BY <1>1
  <2> QED BY <2>1, <2>2 DEF Round
<1> HIDE DEF P
<1>4. Len(lines) \in P
  BY <1>2, <1>3, SetInduction
<1>5. g[Len(lines)] \in Seq(T) /\ Len(g[Len(lines)]) <= Len(lines)
  BY <1>4 DEF P
<1> QED BY <1>5 DEF Keep, Kept, g

\* A line more at the end is kept at the end, or changes nothing.
LEMMA KeepAppend ==
    ASSUME NEW T, NEW lines \in Seq(T), NEW l \in T, NEW S
    PROVE  Keep(Append(lines, l), S) = IF l \in S THEN Append(Keep(lines, S), l)
                                                  ELSE Keep(lines, S)
<1> DEFINE longer == Append(lines, l)
           g == Kept(lines, S)
           h == Kept(longer, S)
           P == {n \in Nat : n <= Len(lines) => h[n] = g[n]}
<1>0. /\ longer \in Seq(T) /\ Len(longer) = Len(lines) + 1
      /\ longer[Len(lines) + 1] = l
      /\ \A i \in 1 .. Len(lines) : longer[i] = lines[i]
  OBVIOUS
<1> HIDE DEF longer
<1>1. g[0] = <<>> /\ \A i \in 1 .. Len(lines) : Round(g, lines, S, i)
  BY KeptRounds
<1>2. h[0] = <<>> /\ \A i \in 1 .. Len(lines) + 1 : Round(h, longer, S, i)
  BY <1>0, KeptRounds
<1> HIDE DEF g, h
<1>3. 0 \in P
  BY <1>1, <1>2
<1>4. ASSUME NEW n \in Nat, n \in P
      PROVE  n + 1 \in P
  <2> SUFFICES ASSUME n + 1 <= Len(lines)
               PROVE  h[n + 1] = g[n + 1]
    OBVIOUS
  <2>1. Round(g, lines, S, n + 1) /\ Round(h, longer, S, n + 1)
    BY <1>1, <1>2
  <2>2. h[n] = g[n] /\ longer[n + 1] = lines[n + 1]
    BY <1>0, <1>4
  <2> QED BY <2>1, <2>2 DEF Round
<1> HIDE DEF P
<1>5. Len(lines) \in P
  BY <1>3, <1>4, SetInduction
<1>6. h[Len(lines)] = g[Len(lines)]
  BY <1>5 DEF P
<1>7. Round(h, longer, S, Len(lines) + 1)
  BY <1>2
<1>8. h[Len(longer)] = IF l \in S THEN Append(g[Len(lines)], l) ELSE g[Len(lines)]
  BY <1>0, <1>6, <1>7 DEF Round
<1>9. Keep(longer, S) = h[Len(longer)] /\ Keep(lines, S) = g[Len(lines)]
  BY DEF Keep, Kept, g, h
<1> QED BY <1>8, <1>9 DEF longer

\* What is shown of a text is a text and not longer.
LEMMA ShownType ==
    ASSUME NEW h, NEW lines \in Seq(Lines)
    PROVE  Shown(h, lines) \in Seq(Lines) /\ Len(Shown(h, lines)) <= Len(lines)
<1>1. /\ StripEmptyLines(lines) \in Seq(Lines)
      /\ Len(StripEmptyLines(lines)) <= Len(lines)
  BY KeepType DEF StripEmptyLines
<1>2. /\ Keep(StripEmptyLines(lines), Matching) \in Seq(Lines)
      /\ Len(Keep(StripEmptyLines(lines), Matching)) <= Len(StripEmptyLines(lines))
  BY <1>1, KeepType
<1>3. /\ Len(lines) \in Nat /\ Len(StripEmptyLines(lines)) \in Nat
      /\ Len(Keep(StripEmptyLines(lines), Matching)) \in Nat
  BY <1>1, <1>2
<1> QED BY <1>1, <1>2, <1>3 DEF Shown, ExecuteWithMatch

\* A line more adds at most itself to the end of what is shown.
LEMMA ShownAppend ==
    ASSUME NEW h, NEW lines \in Seq(Lines), NEW l \in Lines
    PROVE  Shown(h, Append(lines, l)) \in {Shown(h, lines), Append(Shown(h, lines), l)}
<1> DEFINE s == StripEmptyLines(lines)
<1>1. s \in Seq(Lines)
  BY KeepType DEF StripEmptyLines
<1>2. StripEmptyLines(Append(lines, l)) \in {s, Append(s, l)}
  BY KeepAppend DEF StripEmptyLines
<1> HIDE DEF s
<1>3. Keep(Append(s, l), Matching) \in {Keep(s, Matching), Append(Keep(s, Matching), l)}
  BY <1>1, KeepAppend
<1>4. CASE h.pattern = "none"
  BY <1>2, <1>4 DEF Shown, ExecuteWithMatch, s
<1>5. CASE h.pattern # "none"
  <2>1. /\ Shown(h, lines) = Keep(s, Matching)
        /\ Shown(h, Append(lines, l)) = Keep(StripEmptyLines(Append(lines, l)), Matching)
    BY <1>5 DEF Shown, ExecuteWithMatch, s
  <2> QED BY <1>2, <1>3, <2>1
<1> QED BY <1>4, <1>5

-----------------------------------------------------------------------------
(* The window. *)

\* The lines of w stand together in s, from place a on.
StandsAt(w, s, a) ==
    /\ a \in Nat \ {0}
    /\ a + Len(w) - 1 <= Len(s)
    /\ \A j \in 1 .. Len(w) : w[j] = s[a + j - 1]

\* The number of lines that a limit of n leaves of m.
Limited(m, n) == IF n <= 0 \/ n >= m THEN m ELSE n

\* The first lines of s.
LEMMA HeadStands ==
    ASSUME NEW T, NEW s \in Seq(T), NEW n \in Int
    PROVE  /\ head(s, n) \in Seq(T)
           /\ Len(head(s, n)) = Limited(Len(s), n)
           /\ StandsAt(head(s, n), s, 1)
<1>1. CASE n <= 0 \/ n >= Len(s)
  BY <1>1 DEF head, Limited, StandsAt
<1>2. CASE ~(n <= 0 \/ n >= Len(s))
  <2>1. n \in Nat /\ 1 <= n /\ n <= Len(s)
    BY <1>2
  <2>2. /\ SubSeq(s, 1, n) \in Seq(T) /\ Len(SubSeq(s, 1, n)) = n
        /\ \A j \in 1 .. n : SubSeq(s, 1, n)[j] = s[j]
    BY <2>1
  <2> QED BY <1>2, <2>1, <2>2 DEF head, Limited, StandsAt
<1> QED BY <1>1, <1>2

\* The last lines of s.
LEMMA TailStands ==
    ASSUME NEW T, NEW s \in Seq(T), NEW n \in Int
    PROVE  /\ tail(s, n) \in Seq(T)
           /\ Len(tail(s, n)) = Limited(Len(s), n)
           /\ StandsAt(tail(s, n), s, Len(s) - Len(tail(s, n)) + 1)
<1>1. CASE n <= 0 \/ n >= Len(s)
  <2>1. tail(s, n) = s /\ Len(s) \in Nat /\ Len(s) - Len(s) + 1 = 1
    BY <1>1 DEF tail
  <2> QED BY <1>1, <2>1 DEF Limited, StandsAt
<1>2. CASE ~(n <= 0 \/ n >= Len(s))
  <2> DEFINE a == Len(s) - n + 1
  <2>1. n \in Nat /\ 1 <= n /\ n <= Len(s) /\ a \in 1 .. Len(s)
    BY <1>2
  <2>2. /\ SubSeq(s, a, Len(s)) \in Seq(T) /\ Len(SubSeq(s, a, Len(s))) = n
        /\ \A j \in 1 .. n : SubSeq(s, a, Len(s))[j] = s[a + j - 1]
    BY <2>1
  <2> QED BY <1>2, <2>1, <2>2 DEF tail, Limited, StandsAt
<1> QED BY <1>1, <1>2

\* A window of a window is a window.
LEMMA StandsInStanding ==
    ASSUME NEW T, NEW s \in Seq(T), NEW v \in Seq(T), NEW w \in Seq(T), NEW a, NEW b,
           StandsAt(w, v, a), StandsAt(v, s, b)
    PROVE  StandsAt(w, s, a + b - 1)
  BY DEF StandsAt

\* A window is a subsequence.
LEMMA StandsIsSubSeq ==
    ASSUME NEW T, NEW s \in Seq(T), NEW w \in Seq(T), NEW a, StandsAt(w, s, a)
    PROVE  w = SubSeq(s, a, a + Len(w) - 1)
<1> DEFINE v == SubSeq(s, a, a + Len(w) - 1)
<1>1. a \in Nat /\ a >= 1 /\ Len(w) \in Nat /\ a + Len(w) - 1 <= Len(s)
  BY DEF StandsAt
<1>2. v \in Seq(T) /\ Len(v) = Len(w) /\ \A j \in 1 .. Len(w) : v[j] = s[a + j - 1]
  BY <1>1
<1>3. \A j \in 1 .. Len(w) : v[j] = w[j]
  BY <1>2 DEF StandsAt
<1> HIDE DEF v
<1>4. w = v
  BY <1>2, <1>3
<1> QED BY <1>4 DEF v

\* Whatever the parameters are, an answer is a window of what is shown, and not
\* longer than they allow.
LEMMA ApplyStands ==
    ASSUME NEW T, NEW s \in Seq(T), NEW h \in Params
    PROVE  /\ Apply(h, s) \in Seq(T)
           /\ Within(h, Len(Apply(h, s)))
           /\ \E a : StandsAt(Apply(h, s), s, a)
<1>0. /\ h.head \in Int /\ h.tail \in Int
      /\ DefaultMaxLines \in Int /\ DefaultMaxLines > 0
  <2>1. DefaultMaxLines \in Int /\ DefaultMaxLines > 0
    BY LinesAssumption
  <2>2. h.head \in Int /\ h.tail \in Int
    BY LinesAssumption DEF Params
  <2> QED BY <2>1, <2>2
<1>1. CASE h.head = 0 /\ h.tail = 0
  <2>1. Apply(h, s) = head(s, DefaultMaxLines)
    BY <1>1 DEF Apply
  <2> QED BY <1>0, <1>1, <2>1, HeadStands DEF Within, Limited
<1>2. CASE h.head # 0 /\ h.tail = 0
  <2>1. Apply(h, s) = head(s, h.head)
    BY <1>2 DEF Apply
  <2> QED BY <1>0, <1>2, <2>1, HeadStands DEF Within, Limited
<1>3. CASE h.head = 0 /\ h.tail # 0
  <2>1. Apply(h, s) = tail(s, h.tail)
    BY <1>3 DEF Apply
  <2> QED BY <1>0, <1>3, <2>1, TailStands DEF Within, Limited
<1>4. CASE h.head # 0 /\ h.tail # 0 /\ h.applyTailFirst
  <2> DEFINE v == tail(s, h.tail)
  <2>1. Apply(h, s) = head(v, h.head)
    BY <1>4 DEF Apply
  <2>2. v \in Seq(T) /\ Len(v) = Limited(Len(s), h.tail) /\ \E b : StandsAt(v, s, b)
    BY <1>0, TailStands
  <2> HIDE DEF v
  <2>3. /\ head(v, h.head) \in Seq(T) /\ StandsAt(head(v, h.head), v, 1)
        /\ Len(head(v, h.head)) = Limited(Len(v), h.head)
    BY <1>0, <2>2, HeadStands
  <2>4. \E a : StandsAt(head(v, h.head), s, a)
    BY <2>2, <2>3, StandsInStanding
  <2>5. Within(h, Len(head(v, h.head)))
    BY <1>0, <1>4, <2>2, <2>3 DEF Within, Limited
  <2> QED BY <2>1, <2>3, <2>4, <2>5
<1>5. CASE h.head # 0 /\ h.tail # 0 /\ ~h.applyTailFirst
  <2> DEFINE v == head(s, h.head)
  <2>1. Apply(h, s) = tail(v, h.tail)
    BY <1>5 DEF Apply
  <2>2. v \in Seq(T) /\ Len(v) = Limited(Len(s), h.head) /\ \E b : StandsAt(v, s, b)
    BY <1>0, HeadStands
  <2> HIDE DEF v
  <2>3. /\ tail(v, h.tail) \in Seq(T) /\ \E a : StandsAt(tail(v, h.tail), v, a)
        /\ Len(tail(v, h.tail)) = Limited(Len(v), h.tail)
    BY <1>0, <2>2, TailStands
  <2>4. \E a : StandsAt(tail(v, h.tail), s, a)
    BY <2>2, <2>3, StandsInStanding
  <2>5. Within(h, Len(tail(v, h.tail)))
    BY <1>0, <1>5, <2>2, <2>3 DEF Within, Limited
  <2> QED BY <2>1, <2>3, <2>4, <2>5
<1> QED BY <1>1, <1>2, <1>3, <1>4, <1>5

\* A line more after a window leaves it where it is.
LEMMA StandsInLonger ==
    ASSUME NEW T, NEW s \in Seq(T), NEW w \in Seq(T), NEW l \in T, NEW a, StandsAt(w, s, a)
    PROVE  StandsAt(w, Append(s, l), a)
<1>1. /\ Len(Append(s, l)) = Len(s) + 1
      /\ \A j \in 1 .. Len(s) : Append(s, l)[j] = s[j]
  OBVIOUS
<1>2. \A j \in 1 .. Len(w) : a + j - 1 \in 1 .. Len(s)
  BY DEF StandsAt
<1> QED BY <1>1, <1>2 DEF StandsAt

\* A window counted from the head does not see lines after its head.
LEMMA HeadWindowStays ==
    ASSUME NEW T, NEW s \in Seq(T), NEW l \in T, NEW h \in Params,
           h.head > 0, Len(s) >= h.head, h.tail = 0 \/ ~h.applyTailFirst
    PROVE  Apply(h, Append(s, l)) = Apply(h, s)
<1>0. h.head \in Int /\ h.head > 0 /\ h.tail \in Int /\ h.applyTailFirst \in BOOLEAN
  BY LinesAssumption DEF Params
<1> DEFINE t == Append(s, l)
<1>1. /\ t \in Seq(T) /\ Len(t) = Len(s) + 1
      /\ \A j \in 1 .. Len(s) : t[j] = s[j]
  OBVIOUS
<1> HIDE DEF t
<1>2. head(t, h.head) = head(s, h.head)
  <2> DEFINE u == head(t, h.head)
             v == head(s, h.head)
  <2>1. /\ u \in Seq(T) /\ Len(u) = h.head /\ \A j \in 1 .. h.head : u[j] = t[j]
        /\ v \in Seq(T) /\ Len(v) = h.head /\ \A j \in 1 .. h.head : v[j] = s[j]
    BY <1>0, <1>1, HeadStands DEF StandsAt, Limited
  <2> HIDE DEF u, v
  <2>2. \A j \in 1 .. h.head : u[j] = v[j]
    BY <1>0, <1>1, <2>1
  <2>3. u = v
    BY <2>1, <2>2
  <2> QED BY <2>3 DEF u, v
<1>3. Apply(h, t) = Apply(h, s)
  BY <1>0, <1>2 DEF Apply
<1> QED BY <1>3 DEF t

\* The page that line i is on has it.
LEMMA PageHasLine ==
    ASSUME NEW T, NEW s \in Seq(T), NEW n \in Nat \ {0}, NEW i \in 1 .. Len(s)
    PROVE  LET k == ((i - 1) \div n) + 1
               p == Apply(Page(k, n), s)
               last == IF k * n < Len(s) THEN k * n ELSE Len(s)
           IN  last - Len(p) < i /\ p[i - (last - Len(p))] = s[i]
<1> DEFINE q == (i - 1) \div n
           k == q + 1
           m == k * n
           last == IF m < Len(s) THEN m ELSE Len(s)
           v == head(s, m)
           p == tail(v, n)
<1>1. q \in Nat /\ n * q <= i - 1 /\ i - 1 < n * q + n
  OBVIOUS
<1>2. m \in Nat /\ m = n * q + n
  BY <1>1
<1> HIDE DEF q
<1>3. k * n # 0
  BY <1>1, <1>2
<1>4. Apply(Page(k, n), s) = p
  BY <1>3 DEF Apply, Page
<1> HIDE DEF m
<1>5. m \in Nat /\ i <= m /\ m - n < i /\ n <= m
  BY <1>1, <1>2
<1>6. /\ v \in Seq(T) /\ Len(v) = last
      /\ \A j \in 1 .. last : v[j] = s[j]
  BY <1>5, HeadStands DEF StandsAt, Limited
<1> HIDE DEF v
<1>7. last \in Nat /\ i <= last /\ last - n < i
  BY <1>5
<1> HIDE DEF last
<1>8. /\ p \in Seq(T) /\ Len(p) = Limited(last, n)
      /\ StandsAt(p, v, last - Len(p) + 1)
  <2>1. n \in Int
    OBVIOUS
  <2>2. /\ tail(v, n) \in Seq(T) /\ Len(tail(v, n)) = Limited(Len(v), n)
        /\ StandsAt(tail(v, n), v, Len(v) - Len(tail(v, n)) + 1)
    BY <1>6, <2>1, TailStands
  <2> QED BY <1>6, <2>2
<1> HIDE DEF p
<1>9. Len(p) \in Nat /\ last - Len(p) < i /\ i - (last - Len(p)) \in 1 .. Len(p)
  BY <1>7, <1>8 DEF Limited
<1> DEFINE j == i - (last - Len(p))
<1>10. p[j] = v[(last - Len(p) + 1) + j - 1]
  BY <1>8, <1>9 DEF StandsAt
<1>11. (last - Len(p) + 1) + j - 1 = i
  BY <1>7, <1>9
<1>12. p[j] = s[i]
  BY <1>6, <1>7, <1>10, <1>11
<1> QED BY <1>4, <1>9, <1>12 DEF last, m, q

\* PagesCover holds of every log.
LEMMA EveryLogIsCovered == log \in Seq(Lines) => PagesCover
<1> SUFFICES ASSUME log \in Seq(Lines), NEW n \in 1 .. MaxLog,
                    NEW i \in DOMAIN Shown(Page(1, n), log)
             PROVE  LET s == Shown(Page(1, n), log)
                        k == ((i - 1) \div n) + 1
                        p == Logs(Page(k, n), log)
                        last == IF k * n < Len(s) THEN k * n ELSE Len(s)
                    IN  last - Len(p) < i /\ p[i - (last - Len(p))] = s[i]
  BY DEF PagesCover
<1> DEFINE s == Shown(Page(1, n), log)
<1>1. s \in Seq(Lines)
  BY ShownType
<1>2. i \in 1 .. Len(s) /\ n \in Nat \ {0}
  BY <1>1, LinesAssumption
<1>3. \A k : Shown(Page(k, n), log) = s
  BY DEF Shown, ExecuteWithMatch, Page
<1>4. \A k : Logs(Page(k, n), log) = Apply(Page(k, n), s)
  BY <1>3 DEF Logs
<1> HIDE DEF s
<1>5. LET k == ((i - 1) \div n) + 1
          p == Apply(Page(k, n), s)
          last == IF k * n < Len(s) THEN k * n ELSE Len(s)
      IN  last - Len(p) < i /\ p[i - (last - Len(p))] = s[i]
  BY <1>1, <1>2, PageHasLine
<1> QED BY <1>4, <1>5 DEF s

-----------------------------------------------------------------------------
(* The text and the last answer. *)

\* An answer is a window of what is shown of the text, and within its limits.
AnswerStands ==
    answer # Error =>
        /\ answer \in Seq(Lines)
        /\ Within(asked, Len(answer))
        /\ \E a : StandsAt(answer, Shown(asked, log), a)

\* The inductive strengthening of WindowOfLog and WindowStaysPut.
LogInv ==
    /\ log \in Seq(Lines)
    /\ asked \in Params
    /\ AnswerStands
    /\ enough => Len(Shown(asked, log)) >= asked.head
    /\ WindowStaysPut

\* All the lines that are not blank: what a list is answered with.
LEMMA NoWindowShowsAll ==
    /\ NoWindow \in Params
    /\ \A lines \in Seq(Lines) : Logs(NoWindow, lines) = StripEmptyLines(lines)
<1>1. NoWindow \in Params
  BY LinesAssumption DEF NoWindow, Params
<1>2. ASSUME NEW lines \in Seq(Lines)
      PROVE  Logs(NoWindow, lines) = StripEmptyLines(lines)
  BY DEF Logs, Shown, ExecuteWithMatch, Apply, head, NoWindow
<1> QED BY <1>1, <1>2

\* A call is answered, or fails, while the text stays as it is.
LEMMA AnswerStep ==
    ASSUME log \in Seq(Lines), log' = log, asked' \in Params,
           answer' = Error \/ answer' = Logs(asked', log),
           enough' => Len(Shown(asked', log)) >= asked'.head
    PROVE  LogInv'
<1> DEFINE s == Shown(asked', log)
<1>1. s \in Seq(Lines)
  BY ShownType
<1>2. Logs(asked', log) = Apply(asked', s)
  BY DEF Logs
<1>3. /\ Apply(asked', s) \in Seq(Lines)
      /\ Within(asked', Len(Apply(asked', s)))
      /\ \E a : StandsAt(Apply(asked', s), s, a)
  <2> HIDE DEF s
  <2> QED BY <1>1, ApplyStands
<1>4. AnswerStands'
  BY <1>2, <1>3 DEF AnswerStands
<1>5. WindowStaysPut'
  BY DEF WindowStaysPut
<1> QED BY <1>4, <1>5 DEF LogInv

\* The log grows: answers stay windows of it, and windows counted from the head
\* stay what they are.
LEMMA WriteStep ==
    ASSUME LogInv, Write
    PROVE  LogInv'
<1>1. PICK l \in Lines : log' = Append(log, l)
  BY DEF Write
<1>2. UNCHANGED <<asked, answer, enough>> /\ log \in Seq(Lines) /\ asked \in Params
  BY DEF Write, LogInv
<1> DEFINE s == Shown(asked, log)
           t == Shown(asked, log')
<1>3. s \in Seq(Lines) /\ t \in {s, Append(s, l)}
  BY <1>1, <1>2, ShownType, ShownAppend
<1>4. log' \in Seq(Lines)
  BY <1>1, <1>2
<1>5. AnswerStands'
  <2> SUFFICES ASSUME answer # Error
               PROVE  /\ answer \in Seq(Lines)
                      /\ Within(asked, Len(answer))
                      /\ \E a : StandsAt(answer, t, a)
    BY <1>2 DEF AnswerStands
  <2>1. answer \in Seq(Lines) /\ Within(asked, Len(answer)) /\ \E a : StandsAt(answer, s, a)
    BY DEF LogInv, AnswerStands
  <2> HIDE DEF s, t
  <2> QED BY <1>3, <2>1, StandsInLonger
<1>6. enough => Len(s) >= asked.head
  BY DEF LogInv
<1>7. enough => Len(t) >= asked.head
  <2>1. Len(s) \in Nat /\ (Len(t) = Len(s) \/ Len(t) = Len(s) + 1) /\ asked.head \in Int
    <3> HIDE DEF s, t
    <3>1. asked.head \in Int
      BY <1>2, LinesAssumption DEF Params
    <3>2. Len(s) \in Nat /\ (Len(t) = Len(s) \/ Len(t) = Len(s) + 1)
      BY <1>3
    <3> QED BY <3>1, <3>2
  <2> HIDE DEF s, t
  <2> QED BY <1>6, <2>1
<1>8. WindowStaysPut'
  <2> SUFFICES ASSUME answer # Error, asked.head > 0, enough,
                      asked.tail = 0 \/ ~asked.applyTailFirst
               PROVE  answer = Logs(asked, log')
    BY <1>2 DEF WindowStaysPut
  <2>1. answer = Apply(asked, s)
    BY DEF LogInv, WindowStaysPut, Logs
  <2>2. Apply(asked, t) = Apply(asked, s)
    <3> HIDE DEF s, t
    <3>1. s \in Seq(Lines) /\ Len(s) >= asked.head
      BY <1>3, <1>6
    <3>2. Apply(asked, Append(s, l)) = Apply(asked, s)
      BY <1>2, <3>1, HeadWindowStays, Zenon
    <3> QED BY <1>3, <3>2
  <2> QED BY <2>1, <2>2 DEF Logs
<1> QED BY <1>2, <1>4, <1>5, <1>7, <1>8 DEF LogInv

\* What pod-logs does keeps the invariant.
LEMMA LogsStep ==
    ASSUME LogInv, Next
    PROVE  LogInv'
<1>1. CASE Write
  BY <1>1, WriteStep
<1>2. CASE GetPodLogs
  BY <1>2, AnswerStep DEF GetPodLogs, LogInv
<1>3. CASE GetPodLogsFails
  BY <1>3, AnswerStep DEF GetPodLogsFails, LogInv
<1> QED BY <1>1, <1>2, <1>3 DEF Next

\* What the sosreport tools do keeps it.
LEMMA SosLogStep ==
    ASSUME LogInv, SosNext
    PROVE  LogInv'
<1>0. ASSUME NEW how, Ends(how), log' = log, asked' \in Params
      PROVE  LogInv'
  BY <1>0, AnswerStep DEF Ends, LogInv
<1>1. ASSUME NEW f, EndsWithLines(f), log' = log, asked' \in Params
      PROVE  LogInv'
  BY <1>1, AnswerStep DEF EndsWithLines, LogInv
<1>2. CASE TakesReply
  BY <1>2, AnswerStep, NoWindowShowsAll DEF TakesReply, LogInv
<1>3. ASSUME NEW report, ListPlugins(report)
      PROVE  LogInv'
  BY <1>0, <1>3, NoWindowShowsAll DEF ListPlugins
<1>4. ASSUME NEW report, NEW plugin, ListCommands(report, plugin)
      PROVE  LogInv'
  BY <1>0, <1>4, NoWindowShowsAll DEF ListCommands
<1>5. ASSUME NEW report, NEW pattern \in {"none", "valid", "invalid"}, NEW maxResults,
             SearchCommands(report, pattern, maxResults)
      PROVE  LogInv'
  <2>1. [NoWindow EXCEPT !.pattern = pattern] \in Params
    BY NoWindowShowsAll DEF Params
  <2>2. /\ asked' = [NoWindow EXCEPT !.pattern = pattern]
        /\ log' = log /\ \E how : Ends(how)
    BY <1>5 DEF SearchCommands
  <2> QED BY <1>0, <2>1, <2>2
<1>6. ASSUME NEW report, NEW path, NEW abs, NEW h \in Windows, NEW content,
             GetCommand(report, path, abs, h, content)
      PROVE  LogInv'
  <2>1. /\ asked' \in Params /\ log' = log
        /\ Ends("error") \/ Ends("message") \/ EndsWithLines(Join(path))
    BY <1>6, WindowsAssumption DEF GetCommand
  <2> QED BY <1>0, <1>1, <2>1
<1>7. ASSUME NEW report, NEW namespace, NEW name, NEW container, NEW h \in Windows,
             NEW content, SosGetPodLogs(report, namespace, name, container, h, content)
      PROVE  LogInv'
  <2>1. /\ asked' \in Params /\ log' = log
        /\ Ends("error") \/ Ends("message") \/ \E f : EndsWithLines(f)
    BY <1>7, WindowsAssumption DEF SosGetPodLogs
  <2> QED BY <1>0, <1>1, <2>1
<1> QED BY <1>2, <1>3, <1>4, <1>5, <1>6, <1>7 DEF SosNext, SosCall

-----------------------------------------------------------------------------
(* Commands in a pod. *)

\* A call that is under way has run nothing, its pattern and its limits are good,
\* and a list has no window.
CallGood ==
    stage # "idle" =>
        /\ ran = NotRun /\ result = "none"
        /\ asked.pattern # "invalid"
        /\ \A n \in call.limits : n \in 1 .. MaxCount
        /\ call.kind = "list" => asked = NoWindow

\* The container to use is the one asked for; if none was, it is the first one
\* of the pod that was fetched, which may have been replaced since.
ContainerChosen ==
    /\ stage = "fetching" => call.container = call.wanted
    /\ stage = "executing" =>
         /\ call.seen <= pod.uid
         /\ call.wanted # NoContainer => call.container = call.wanted
         /\ (call.wanted = NoContainer /\ call.seen = pod.uid) =>
              call.container = pod.containers[1]

\* The other tools run no commands.
OnlyExecRuns == family # "exec" => stage = "idle" /\ ran = NotRun /\ result = "none"

\* The inductive strengthening of RunsAsAsked and AnswerIsWhole.
ExecInv ==
    /\ ExecTypeOK
    /\ CallGood
    /\ ContainerChosen
    /\ OnlyExecRuns
    /\ RunsAsAsked
    /\ AnswerIsWhole

TextInv == LogInv /\ ExecInv

\* The first container of a pod is one.
LEMMA FirstContainer ==
    ASSUME NEW specs \in PodSpecs
    PROVE  specs[1] \in Containers /\ specs[1] # NoContainer
<1>1. specs \in Seq(ToSet(specs)) /\ specs # <<>> /\ NoContainer \notin ToSet(specs)
  BY ExecAssumption
<1>2. specs[1] \in ToSet(specs)
  <2> DEFINE S == ToSet(specs)
  <2> HIDE DEF S
  <2>1. specs \in Seq(S) /\ specs # <<>>
    BY <1>1 DEF S
  <2>2. specs[1] \in S
    BY <2>1
  <2> QED BY <2>2 DEF S
<1> QED BY <1>1, <1>2 DEF Containers

\* A call begins: good says whether it gets as far as a command.
LEMMA BeginStep ==
    ASSUME TextInv, family = "exec", UNCHANGED family,
           NEW kind \in Kinds, NEW h \in Params, NEW container \in Containers,
           NEW limits \in SUBSET Int, NEW good \in BOOLEAN,
           Begin(kind, h, container, limits, good),
           good => /\ h.pattern # "invalid"
                   /\ \A n \in limits : n \in 1 .. MaxCount,
           kind = "list" => h = NoWindow
    PROVE  TextInv'
<1> USE DEF Begin
<1>1. LogInv'
  BY AnswerStep DEF TextInv, LogInv
<1>2. ExecTypeOK'
  <2>1. call' \in Calls
    BY ExecAssumption DEF Calls
  <2> QED BY <2>1 DEF TextInv, ExecInv, ExecTypeOK
<1>3. call'.kind = kind /\ call'.limits = limits /\ call'.container = call'.wanted
  OBVIOUS
<1>4. CallGood' /\ ContainerChosen' /\ OnlyExecRuns'
  BY <1>3 DEF CallGood, ContainerChosen, OnlyExecRuns
<1>5. RunsAsAsked' /\ AnswerIsWhole'
  BY DEF RunsAsAsked, AnswerIsWhole
<1> QED BY <1>1, <1>2, <1>4, <1>5 DEF TextInv, ExecInv

\* A capture on a node runs within its limits, in a pod of its own.
LEMMA OnNodeStep ==
    ASSUME TextInv, family = "exec", UNCHANGED family, stage = "idle",
           NEW limits \in SUBSET Int, NEW good \in BOOLEAN, NEW done \in BOOLEAN,
           OnNode(limits, good, done),
           good => \A n \in limits : n \in 1 .. MaxCount
    PROVE  TextInv'
<1> USE DEF OnNode
<1>1. LogInv'
  BY AnswerStep, NoWindowShowsAll DEF TextInv, LogInv
<1>2. NoContainer \in Containers /\ MaxPods \in Nat
  <2>1. MaxPods \in Nat
    BY ExecAssumption
  <2> QED BY <2>1 DEF Containers
<1>3. [uid |-> 0, container |-> NoContainer, limits |-> limits, whole |-> done] \in Commands
  BY <1>2 DEF Commands
<1>4. ExecTypeOK'
  BY <1>3 DEF TextInv, ExecInv, ExecTypeOK, Kinds
<1>5. CallGood' /\ ContainerChosen' /\ OnlyExecRuns'
  BY DEF CallGood, ContainerChosen, OnlyExecRuns
<1>6. RunsAsAsked'
  <2>1. pod.uid # 0 /\ pod' = pod
    BY <1>2 DEF TextInv, ExecInv, ExecTypeOK
  <2>2. asked'.pattern = "none"
    BY DEF NoWindow
  <2> QED BY <2>1, <2>2 DEF RunsAsAsked
<1>7. AnswerIsWhole'
  BY DEF AnswerIsWhole
<1> QED BY <1>1, <1>4, <1>5, <1>6, <1>7 DEF TextInv, ExecInv

\* Every call of a tool begins with good parameters or ends at once.
LEMMA CallBegins ==
    ASSUME TextInv, family = "exec", UNCHANGED family, ExecCall
    PROVE  TextInv'
<1>0. PICK valid \in BOOLEAN :
        \/ Show(valid) \/ Get(valid) \/ ListLogicalFlows(valid) \/ Trace(valid)
        \/ Vsctl(valid) \/ Ofctl(valid) \/ Appctl(valid)
        \/ Tcpdump(valid) \/ Pwru(valid)
  BY DEF ExecCall
<1>00. /\ stage = "idle" /\ NoContainer \in Containers /\ {} \in SUBSET Int
       /\ "text" \in Kinds /\ "list" \in Kinds /\ "capture" \in Kinds
       /\ NoWindow \in Params /\ NoWindow.pattern = "none"
  BY NoWindowShowsAll DEF ExecCall, Containers, Kinds, NoWindow
<1>1. ASSUME NEW checkMatch, NEW good \in BOOLEAN, Text(checkMatch, good)
      PROVE  TextInv'
  <2>1. PICK h \in Windows :
          Begin("text", h, NoContainer, {}, good /\ Usable(h, checkMatch))
    BY <1>1 DEF Text
  <2>2. /\ h \in Params /\ (good /\ Usable(h, checkMatch)) \in BOOLEAN
        /\ (good /\ Usable(h, checkMatch)) => h.pattern # "invalid"
    BY WindowsAssumption DEF Usable
  <2> QED BY <1>00, <2>1, <2>2, BeginStep
<1>2. ASSUME NEW h \in NoPattern, NEW good \in BOOLEAN,
             Begin("text", h, NoContainer, {}, good)
      PROVE  TextInv'
  <2>1. h \in Params /\ h.pattern # "invalid"
    BY WindowsAssumption DEF NoPattern
  <2> QED BY <1>00, <1>2, <2>1, BeginStep
<1>3. ASSUME NEW kind \in {"text", "list"}, NEW good \in BOOLEAN,
             Begin(kind, NoWindow, NoContainer, {}, good)
      PROVE  TextInv'
  BY <1>00, <1>3, BeginStep
<1>4. CASE Show(valid) \/ Get(valid) \/ ListLogicalFlows(valid) \/ Trace(valid)
  BY <1>1, <1>2, <1>4 DEF Show, Get, ListLogicalFlows, Trace
<1>5. CASE Vsctl(valid) \/ Ofctl(valid) \/ Appctl(valid)
  BY <1>1, <1>2, <1>3, <1>5
     DEF Vsctl, Ofctl, Appctl, show, listBridges, listPorts, listInterfaces, dumpFlows,
         dumpConntrack, dumpOfprotoTrace, NoSuchAction
<1>6. ASSUME NEW n \in Counts
      PROVE  /\ OrDefault(n) \in Int
             /\ validateIntMax(OrDefault(n)) => OrDefault(n) \in 1 .. MaxCount
  <2>1. n \in Int /\ DefaultCount \in 1 .. MaxCount /\ MaxCount \in Nat
    BY ExecAssumption
  <2> QED BY <2>1 DEF OrDefault, validateIntMax
<1>7. CASE Tcpdump(valid)
  <2>1. PICK count \in Counts, snaplen \in Counts :
          LET limits == {OrDefault(count), OrDefault(snaplen)}
              good   == valid /\ \A n \in limits : validateIntMax(n)
          IN  \/ \E done \in BOOLEAN : OnNode(limits, good, done)
              \/ \E container \in Containers :
                   Begin("capture", NoWindow, container, limits, good)
    BY <1>7 DEF Tcpdump
  <2> DEFINE limits == {OrDefault(count), OrDefault(snaplen)}
             good   == valid /\ \A n \in limits : validateIntMax(n)
  <2>2. /\ limits \in SUBSET Int /\ good \in BOOLEAN
        /\ good => \A n \in limits : n \in 1 .. MaxCount
    BY <1>6
  <2>3. \/ \E done \in BOOLEAN : OnNode(limits, good, done)
        \/ \E container \in Containers : Begin("capture", NoWindow, container, limits, good)
    BY <2>1
  <2> HIDE DEF limits, good
  <2> QED BY <1>00, <2>2, <2>3, OnNodeStep, BeginStep
<1>8. CASE Pwru(valid)
  <2>1. PICK lines \in Counts, done \in BOOLEAN :
          OnNode({OrDefault(lines)}, valid /\ validateIntMax(OrDefault(lines)), done)
    BY <1>8 DEF Pwru
  <2> DEFINE limits == {OrDefault(lines)}
             good   == valid /\ validateIntMax(OrDefault(lines))
  <2>2. /\ limits \in SUBSET Int /\ good \in BOOLEAN
        /\ good => \A n \in limits : n \in 1 .. MaxCount
    BY <1>6 DEF validateIntMax
  <2>3. OnNode(limits, good, done)
    BY <2>1
  <2> HIDE DEF limits, good
  <2> QED BY <1>00, <2>2, <2>3, OnNodeStep
<1> QED BY <1>0, <1>4, <1>5, <1>7, <1>8

\* A call that returns an error leaves at most a command that did not end well.
LEMMA ErrorStep ==
    ASSUME TextInv, family = "exec", UNCHANGED family, ReturnsError,
           ran' = NotRun \/ \E whole \in BOOLEAN : Runs(whole), stage # "idle"
    PROVE  TextInv'
<1>1. LogInv'
  BY DEF TextInv, LogInv, AnswerStands, WindowStaysPut, ReturnsError
<1>2. ran' \in Commands \cup {NotRun}
  <2>1. CASE ran' = NotRun
    BY <2>1
  <2>2. CASE \E whole \in BOOLEAN : Runs(whole)
    <3>1. /\ pod.uid \in 0 .. MaxPods /\ call.container \in Containers
          /\ call.limits \in SUBSET Int
      BY ExecAssumption DEF TextInv, ExecInv, ExecTypeOK, Calls
    <3> QED BY <2>2, <3>1 DEF Runs, Commands
  <2> QED BY <2>1, <2>2
<1>3. ExecTypeOK'
  BY <1>2 DEF TextInv, ExecInv, ExecTypeOK, ReturnsError
<1>4. CallGood' /\ ContainerChosen' /\ OnlyExecRuns' /\ AnswerIsWhole'
  BY DEF CallGood, ContainerChosen, OnlyExecRuns, AnswerIsWhole, ReturnsError
<1>5. RunsAsAsked'
  <2>1. CASE ran' = NotRun
    BY <2>1 DEF RunsAsAsked
  <2>2. CASE \E whole \in BOOLEAN : Runs(whole)
    BY <2>2 DEF RunsAsAsked, Runs, ReturnsError, TextInv, ExecInv, CallGood, ContainerChosen
  <2> QED BY <2>1, <2>2
<1> QED BY <1>1, <1>3, <1>4, <1>5 DEF TextInv, ExecInv

\* ExecPod's two requests: the container is chosen from the pod that is fetched,
\* and what is answered is the output of a command that ended well.
LEMMA ExecPodStep ==
    ASSUME TextInv, family = "exec", UNCHANGED family, ExecStep
    PROVE  TextInv'
<1>0. pod.uid \in 1 .. MaxPods /\ pod.containers \in PodSpecs /\ MaxPods \in Nat
  BY ExecAssumption DEF TextInv, ExecInv, ExecTypeOK
<1>1. CASE FetchPod
  <2> DEFINE chosen == IF call.container = NoContainer THEN pod.containers[1]
                                                       ELSE call.container
  <2>1. /\ stage = "fetching" /\ stage' = "executing" /\ call \in Calls
        /\ UNCHANGED <<log, asked, answer, enough, pod, ran, result>>
        /\ call' = [call EXCEPT !.seen = pod.uid, !.container = chosen]
    BY <1>1 DEF FetchPod, TextInv, ExecInv, ExecTypeOK
  <2>2. chosen \in Containers /\ chosen # NoContainer
    BY <1>0, <2>1, FirstContainer DEF Calls
  <2>3. /\ call' \in Calls /\ call'.kind = call.kind /\ call'.wanted = call.wanted
        /\ call'.limits = call.limits /\ call'.seen = pod.uid /\ call'.container = chosen
    <3> HIDE DEF chosen
    <3>1. pod.uid \in 0 .. MaxPods
      BY <1>0
    <3>2. call' = [kind |-> call.kind, wanted |-> call.wanted, container |-> chosen,
                   limits |-> call.limits, seen |-> pod.uid]
      BY <2>1 DEF Calls
    <3>3. call.kind \in Kinds /\ call.wanted \in Containers /\ call.limits \in SUBSET Int
      BY <2>1 DEF Calls
    <3>4. call' \in Calls
      BY <2>2, <3>1, <3>2, <3>3 DEF Calls
    <3> QED BY <3>2, <3>4
  <2>4. LogInv'
    BY <2>1 DEF TextInv, LogInv, AnswerStands, WindowStaysPut
  <2>5. ExecTypeOK'
    BY <1>0, <2>1, <2>2, <2>3 DEF TextInv, ExecInv, ExecTypeOK
  <2>6. CallGood'
    BY <2>1, <2>3 DEF TextInv, ExecInv, CallGood
  <2>7. call.container = call.wanted
    BY <2>1 DEF TextInv, ExecInv, ContainerChosen
  <2>8. ContainerChosen'
    BY <1>0, <2>1, <2>3, <2>7 DEF ContainerChosen
  <2>9. OnlyExecRuns' /\ RunsAsAsked' /\ AnswerIsWhole'
    BY <2>1 DEF TextInv, ExecInv, CallGood, OnlyExecRuns, RunsAsAsked, AnswerIsWhole
  <2> QED BY <2>4, <2>5, <2>6, <2>8, <2>9 DEF TextInv, ExecInv
<1>2. CASE FetchPodFails \/ ExecFails
  <2>1. stage # "idle" /\ ReturnsError /\ (ran' = ran \/ Runs(FALSE))
    BY <1>2 DEF FetchPodFails, ExecFails
  <2>2. ran = NotRun
    BY <2>1 DEF TextInv, ExecInv, CallGood
  <2> QED BY <2>1, <2>2, ErrorStep
<1>3. ASSUME NEW stderr \in BOOLEAN, ExecOK(stderr), ~(stderr /\ call.kind # "capture")
      PROVE  TextInv'
  <2>1. /\ stage = "executing" /\ stage' = "idle" /\ result' = call.kind
        /\ ran' = [uid |-> pod.uid, container |-> call.container,
                   limits |-> call.limits, whole |-> ~stderr]
        /\ answer' = IF call.kind = "capture" THEN Error ELSE Output
        /\ UNCHANGED <<log, asked, enough, pod, call>>
    BY <1>3 DEF ExecOK, Runs
  <2>2. /\ call.kind \in Kinds /\ call.container \in Containers
        /\ call.limits \in SUBSET Int
    BY DEF TextInv, ExecInv, ExecTypeOK, Calls
  <2>3. answer' = Error \/ answer' = Logs(asked, log)
    <3>1. call.kind = "list" => asked = NoWindow
      BY <2>1 DEF TextInv, ExecInv, CallGood
    <3>2. log \in Seq(Lines)
      BY DEF TextInv, LogInv
    <3> QED BY <2>1, <2>2, <3>1, <3>2, NoWindowShowsAll DEF Output, Kinds
  <2>4. LogInv'
    BY <2>1, <2>3, AnswerStep DEF TextInv, LogInv
  <2>5. ran' \in Commands /\ ran' # NotRun
    <3>1. pod.uid \in 0 .. MaxPods
      BY <1>0
    <3>2. (~stderr) \in BOOLEAN
      OBVIOUS
    <3>3. ran' \in Commands
      BY <2>1, <2>2, <3>1, <3>2 DEF Commands
    <3> QED BY <3>3, NotRunAssumption
  <2>6. ExecTypeOK'
    BY <2>1, <2>2, <2>5 DEF TextInv, ExecInv, ExecTypeOK
  <2>7. CallGood' /\ ContainerChosen' /\ OnlyExecRuns'
    BY <2>1 DEF CallGood, ContainerChosen, OnlyExecRuns
  <2>8. RunsAsAsked'
    BY <2>1 DEF TextInv, ExecInv, CallGood, ContainerChosen, RunsAsAsked
  <2>9. AnswerIsWhole'
    <3>1. call.kind \in {"text", "list"} => ~stderr
      BY <1>3
    <3>2. ran'.whole = ~stderr
      BY <2>1
    <3> QED BY <2>1, <2>5, <3>1, <3>2 DEF AnswerIsWhole
  <2> QED BY <2>4, <2>6, <2>7, <2>8, <2>9 DEF TextInv, ExecInv
<1>4. ASSUME NEW stderr \in BOOLEAN, ExecOK(stderr), stderr /\ call.kind # "capture"
      PROVE  TextInv'
  <2>1. stage # "idle" /\ ReturnsError /\ Runs(~stderr)
    BY <1>4 DEF ExecOK, Runs
  <2>2. \E whole \in BOOLEAN : Runs(whole)
    BY <2>1
  <2> QED BY <2>1, <2>2, ErrorStep
<1> QED BY <1>1, <1>2, <1>3, <1>4 DEF ExecStep

\* The pod changes while a call is under way: it keeps its containers, or has
\* another identity.
LEMMA PodChangesStep ==
    ASSUME TextInv, UNCHANGED family, PodChanges
    PROVE  TextInv'
<1>0. /\ pod \in [uid : 1 .. MaxPods, phase : {"Pending", "Running", "Ended", "Gone"},
                  containers : PodSpecs]
      /\ MaxPods \in Nat
  BY ExecAssumption DEF TextInv, ExecInv, ExecTypeOK
<1>1. /\ stage # "idle"
      /\ UNCHANGED <<log, asked, answer, enough, stage, call, ran, result>>
  BY DEF PodChanges
<1>2. \/ pod'.uid = pod.uid /\ pod'.containers = pod.containers
      \/ pod'.uid = pod.uid + 1
  BY <1>0 DEF PodChanges
<1>3. pod' \in [uid : 1 .. MaxPods, phase : {"Pending", "Running", "Ended", "Gone"},
                containers : PodSpecs]
  BY <1>0 DEF PodChanges
<1>4. LogInv'
  BY <1>1 DEF TextInv, LogInv, AnswerStands, WindowStaysPut
<1>5. ExecTypeOK'
  BY <1>1, <1>3 DEF TextInv, ExecInv, ExecTypeOK
<1>6. ContainerChosen'
  <2>1. call.seen \in Nat /\ pod.uid \in Nat
    BY <1>0 DEF TextInv, ExecInv, ExecTypeOK, Calls
  <2> QED BY <1>1, <1>2, <2>1 DEF TextInv, ExecInv, ContainerChosen
<1>7. CallGood' /\ OnlyExecRuns' /\ RunsAsAsked' /\ AnswerIsWhole'
  BY <1>1 DEF TextInv, ExecInv, CallGood, OnlyExecRuns, RunsAsAsked, AnswerIsWhole
<1> QED BY <1>4, <1>5, <1>6, <1>7 DEF TextInv, ExecInv

\* The client takes the answer, and nothing is left of the call.
LEMMA TakesAnswerStep ==
    ASSUME TextInv, UNCHANGED family, TakesAnswer
    PROVE  TextInv'
<1>1. LogInv'
  BY AnswerStep, NoWindowShowsAll DEF TextInv, LogInv, TakesAnswer
<1>2. stage = "idle" /\ stage' = stage
  BY DEF TextInv, ExecInv, CallGood, TakesAnswer
<1>3. call' \in Calls
  <2>1. MaxPods \in Nat
    BY ExecAssumption
  <2> QED BY <2>1 DEF TakesAnswer, Calls, Kinds, Containers
<1>4. ExecTypeOK'
  BY <1>2, <1>3 DEF TextInv, ExecInv, ExecTypeOK, TakesAnswer
<1>5. CallGood' /\ ContainerChosen' /\ OnlyExecRuns' /\ RunsAsAsked' /\ AnswerIsWhole'
  BY <1>2 DEF TakesAnswer, CallGood, ContainerChosen, OnlyExecRuns, RunsAsAsked,
              AnswerIsWhole
<1> QED BY <1>1, <1>4, <1>5 DEF TextInv, ExecInv

-----------------------------------------------------------------------------
(* filepath.Clean. *)

\* The path after each of its elements.
Cleaned(path, abs) ==
    LET clean[i \in 0 .. Len(path)] ==
            IF i = 0 THEN <<>> ELSE Enter(clean[i - 1], path[i], abs)
    IN  clean

\* g is that path after each of the first n elements.
IsCleaned(g, path, abs, n) ==
    g = [i \in 0 .. n |-> IF i = 0 THEN <<>> ELSE Enter(g[i - 1], path[i], abs)]

\* The recursive definition defines a function.
LEMMA CleanedExists ==
    ASSUME NEW T, NEW path \in Seq(T), NEW abs
    PROVE  IsCleaned(Cleaned(path, abs), path, abs, Len(path))
<1> DEFINE P == {n \in Nat : \E g : IsCleaned(g, path, abs, n)}
<1>1. 0 \in P
  <2> DEFINE g == [i \in 0 .. 0 |-> <<>>]
  <2>1. IsCleaned(g, path, abs, 0)
    BY DEF IsCleaned
  <2> QED BY <2>1
<1>2. ASSUME NEW n \in Nat, n \in P
      PROVE  n + 1 \in P
  <2>1. PICK g : IsCleaned(g, path, abs, n)
    BY <1>2
  <2> DEFINE h == [i \in 0 .. n + 1 |->
                     IF i = 0 THEN <<>> ELSE Enter(g[i - 1], path[i], abs)]
  <2>2. \A i \in 0 .. n : h[i] = g[i]
    <3>1. \A i \in 0 .. n : i \in 0 .. n + 1
      OBVIOUS
    <3> QED BY <2>1, <3>1, Zenon DEF IsCleaned
  <2>3. \A i \in 0 .. n + 1 : i # 0 => i - 1 \in 0 .. n
    OBVIOUS
  <2>4. IsCleaned(h, path, abs, n + 1)
    BY <2>2, <2>3 DEF IsCleaned
  <2> QED BY <2>4
<1> HIDE DEF P
<1>3. Len(path) \in P
  BY <1>1, <1>2, SetInduction
<1>4. \E g : IsCleaned(g, path, abs, Len(path))
  BY <1>3 DEF P
<1> QED BY <1>4, Zenon DEF Cleaned, IsCleaned

\* Clean enters one element after the other.
LEMMA CleanEnters ==
    ASSUME NEW T, NEW path \in Seq(T), NEW abs
    PROVE  /\ Cleaned(path, abs)[0] = <<>>
           /\ \A i \in 0 .. Len(path) - 1 :
                Cleaned(path, abs)[i + 1] = Enter(Cleaned(path, abs)[i], path[i + 1], abs)
           /\ Clean(path, abs) = Cleaned(path, abs)[Len(path)]
<1> DEFINE g == Cleaned(path, abs)
<1>1. IsCleaned(g, path, abs, Len(path))
  BY CleanedExists
<1>2. Clean(path, abs) = g[Len(path)]
  BY DEF Clean, Cleaned
<1> HIDE DEF g
<1>3. \A i \in 0 .. Len(path) :
        g[i] = IF i = 0 THEN <<>> ELSE Enter(g[i - 1], path[i], abs)
  BY <1>1, Zenon DEF IsCleaned
<1>4. ASSUME NEW i \in 0 .. Len(path) - 1
      PROVE  g[i + 1] = Enter(g[i], path[i + 1], abs)
  <2>1. i + 1 \in 0 .. Len(path) /\ i + 1 # 0 /\ i + 1 - 1 = i
    OBVIOUS
  <2> QED BY <1>3, <2>1
<1>5. g[0] = <<>>
  BY <1>3
<1> QED BY <1>2, <1>4, <1>5 DEF g

\* ".." is nowhere in a path, or it is where the path starts.
NoneUp(c) == \A i \in 1 .. Len(c) : c[i] # ".."
StartsUp(c) == c # <<>> /\ c[1] = ".."

\* What a relative path becomes: it leaves its directory for good or stays in it,
\* and if it stays, an absolute path with it at the end changes likewise.
LEMMA EnterStays ==
    ASSUME NEW T, NEW c \in Seq(T), NEW e \in T, NEW r \in Seq(T)
    PROVE  /\ Enter(c, e, FALSE) \in Seq(T)
           /\ StartsUp(c) => StartsUp(Enter(c, e, FALSE))
           /\ NoneUp(c) => NoneUp(Enter(c, e, FALSE)) \/ StartsUp(Enter(c, e, FALSE))
           /\ (NoneUp(c) /\ NoneUp(Enter(c, e, FALSE)))
                => Enter(r \o c, e, TRUE) = r \o Enter(c, e, FALSE)
<1>1. CASE e = "."
  BY <1>1 DEF Enter
<1>2. CASE e # "." /\ e # ".."
  <2>1. Enter(c, e, FALSE) = Append(c, e) /\ Enter(r \o c, e, TRUE) = Append(r \o c, e)
    BY <1>2 DEF Enter
  <2>2. Append(r \o c, e) = r \o Append(c, e)
    OBVIOUS
  <2>3. /\ Append(c, e) \in Seq(T) /\ Len(Append(c, e)) = Len(c) + 1
        /\ Append(c, e)[Len(c) + 1] = e
        /\ \A i \in 1 .. Len(c) : Append(c, e)[i] = c[i]
    OBVIOUS
  <2>4. NoneUp(c) => NoneUp(Append(c, e))
    BY <1>2, <2>3 DEF NoneUp
  <2>5. StartsUp(c) => StartsUp(Append(c, e))
    BY <2>3 DEF StartsUp
  <2> QED BY <2>1, <2>2, <2>3, <2>4, <2>5
<1>3. CASE e = ".." /\ c # <<>> /\ Last(c) # ".."
  <2>1. Enter(c, e, FALSE) = Front(c)
    BY <1>3 DEF Enter
  <2>2. /\ r \o c \in Seq(T) /\ Len(r \o c) = Len(r) + Len(c) /\ Len(c) \in Nat
        /\ Len(c) > 0 /\ Len(r) \in Nat
        /\ (r \o c)[Len(r) + Len(c)] = c[Len(c)]
    BY <1>3
  <2>3. r \o c # <<>> /\ Last(r \o c) = Last(c)
    BY <2>2 DEF Last
  <2>4. Enter(r \o c, e, TRUE) = Front(r \o c)
    BY <1>3, <2>3 DEF Enter
  <2>5. /\ Front(c) \in Seq(T) /\ Len(Front(c)) = Len(c) - 1
        /\ \A i \in 1 .. Len(c) - 1 : Front(c)[i] = c[i]
    <3> DEFINE k == Len(c) - 1
    <3>1. k \in Nat /\ k <= Len(c)
      BY <2>2
    <3> HIDE DEF k
    <3>2. /\ SubSeq(c, 1, k) \in Seq(T) /\ Len(SubSeq(c, 1, k)) = k
          /\ \A i \in 1 .. k : SubSeq(c, 1, k)[i] = c[i]
      BY <3>1
    <3> QED BY <3>2 DEF k, Front
  <2>6. Front(r \o c) = r \o Front(c)
    BY <2>2, <2>5 DEF Front
  <2>7. NoneUp(c) => NoneUp(Front(c))
    BY <2>2, <2>5 DEF NoneUp
  <2>8. StartsUp(c) => StartsUp(Front(c))
    BY <1>3, <2>2, <2>5 DEF StartsUp, Last
  <2> QED BY <2>1, <2>4, <2>5, <2>6, <2>7, <2>8
<1>4. CASE e = ".." /\ (c = <<>> \/ Last(c) = "..")
  <2>1. Enter(c, e, FALSE) = Append(c, e)
    BY <1>4 DEF Enter
  <2>2. /\ Append(c, e) \in Seq(T) /\ Len(Append(c, e)) = Len(c) + 1 /\ Len(c) \in Nat
        /\ Append(c, e)[Len(c) + 1] = e
        /\ \A i \in 1 .. Len(c) : Append(c, e)[i] = c[i]
    OBVIOUS
  <2>3. ~NoneUp(Append(c, e))
    BY <1>4, <2>2 DEF NoneUp
  <2>4. StartsUp(c) => StartsUp(Append(c, e))
    BY <2>2 DEF StartsUp
  <2>5. NoneUp(c) => StartsUp(Append(c, e))
    <3>1. NoneUp(c) => c = <<>>
      BY <1>4, <2>2 DEF NoneUp, Last
    <3>2. c = <<>> => Append(c, e)[1] = e /\ Append(c, e) # <<>>
      BY <2>2
    <3> QED BY <1>4, <3>1, <3>2 DEF StartsUp
  <2> QED BY <2>1, <2>2, <2>3, <2>4, <2>5
<1> QED BY <1>1, <1>2, <1>3, <1>4

\* Elements other than "." and ".." are entered as they are.
LEMMA CleanedPrefix ==
    ASSUME NEW T, NEW path \in Seq(T), NEW abs, NEW m \in 0 .. Len(path),
           \A i \in 1 .. m : path[i] \notin {".", ".."}
    PROVE  Cleaned(path, abs)[m] = SubSeq(path, 1, m)
<1> DEFINE g == Cleaned(path, abs)
           P == {n \in Nat : n <= m => g[n] = SubSeq(path, 1, n)}
<1>1. /\ g[0] = <<>>
      /\ \A i \in 0 .. Len(path) - 1 : g[i + 1] = Enter(g[i], path[i + 1], abs)
  BY CleanEnters
<1> HIDE DEF g
<1>2. 0 \in P
  <2>1. SubSeq(path, 1, 0) = <<>>
    OBVIOUS
  <2> QED BY <1>1, <2>1
<1>3. ASSUME NEW n \in Nat, n \in P
      PROVE  n + 1 \in P
  <2> SUFFICES ASSUME n + 1 <= m
               PROVE  g[n + 1] = SubSeq(path, 1, n + 1)
    OBVIOUS
  <2>1. g[n] = SubSeq(path, 1, n)
    BY <1>3
  <2>2. g[n + 1] = Enter(g[n], path[n + 1], abs) /\ path[n + 1] \notin {".", ".."}
    BY <1>1
  <2>3. g[n + 1] = Append(SubSeq(path, 1, n), path[n + 1])
    BY <2>1, <2>2 DEF Enter
  <2>4. Append(SubSeq(path, 1, n), path[n + 1]) = SubSeq(path, 1, n + 1)
    OBVIOUS
  <2> QED BY <2>3, <2>4
<1> HIDE DEF P
<1>4. m \in P
  BY <1>2, <1>3, SetInduction
<1> QED BY <1>4 DEF P, g

\* A path without "." and ".." is clean.
LEMMA CleanOfClean ==
    ASSUME NEW T, NEW path \in Seq(T), NEW abs,
           \A i \in 1 .. Len(path) : path[i] \notin {".", ".."}
    PROVE  Clean(path, abs) = path
<1>1. Clean(path, abs) = Cleaned(path, abs)[Len(path)]
  BY CleanEnters
<1>2. Cleaned(path, abs)[Len(path)] = SubSeq(path, 1, Len(path))
  <2>1. Len(path) \in 0 .. Len(path)
    OBVIOUS
  <2> QED BY <2>1, CleanedPrefix
<1> QED BY <1>1, <1>2

\* Every path on the way has ".." nowhere, or where it starts.
LEMMA CleanedPaths ==
    ASSUME NEW T, NEW path \in Seq(T)
    PROVE  \A i \in 0 .. Len(path) :
             /\ Cleaned(path, FALSE)[i] \in Seq(T)
             /\ NoneUp(Cleaned(path, FALSE)[i]) \/ StartsUp(Cleaned(path, FALSE)[i])
<1> DEFINE b == Cleaned(path, FALSE)
           P == {n \in Nat : n <= Len(path) =>
                   b[n] \in Seq(T) /\ (NoneUp(b[n]) \/ StartsUp(b[n]))}
<1>1. /\ b[0] = <<>>
      /\ \A i \in 0 .. Len(path) - 1 : b[i + 1] = Enter(b[i], path[i + 1], FALSE)
  BY CleanEnters
<1> HIDE DEF b
<1>2. 0 \in P
  <2>1. b[0] \in Seq(T) /\ Len(b[0]) = 0
    BY <1>1
  <2> QED BY <2>1 DEF NoneUp
<1>3. ASSUME NEW n \in Nat, n \in P
      PROVE  n + 1 \in P
  <2> SUFFICES ASSUME n + 1 <= Len(path)
               PROVE  b[n + 1] \in Seq(T) /\ (NoneUp(b[n + 1]) \/ StartsUp(b[n + 1]))
    OBVIOUS
  <2>1. b[n] \in Seq(T) /\ (NoneUp(b[n]) \/ StartsUp(b[n]))
    BY <1>3
  <2>2. b[n + 1] = Enter(b[n], path[n + 1], FALSE) /\ path[n + 1] \in T
    <3>1. n + 1 \in 1 .. Len(path) /\ n \in 0 .. Len(path) - 1
      OBVIOUS
    <3>2. path[n + 1] \in T
      BY <3>1
    <3> QED BY <1>1, <3>1, <3>2, Zenon
  <2> QED BY <2>1, <2>2, EnterStays
<1> HIDE DEF P
<1>4. \A n \in Nat : n \in P
  BY <1>2, <1>3, SetInduction
<1>5. \A i \in 0 .. Len(path) : b[i] \in Seq(T) /\ (NoneUp(b[i]) \/ StartsUp(b[i]))
  BY <1>4 DEF P
<1> QED BY <1>5 DEF b

\* A path that has left its directory has left it for good: where the clean path
\* has no "..", the path has never left.
LEMMA NeverLeft ==
    ASSUME NEW T, NEW path \in Seq(T), NoneUp(Clean(path, FALSE))
    PROVE  \A i \in 0 .. Len(path) :
             Cleaned(path, FALSE)[i] \in Seq(T) /\ NoneUp(Cleaned(path, FALSE)[i])
<1> DEFINE b == Cleaned(path, FALSE)
           Q == {n \in Nat : n <= Len(path) =>
                   \A i \in 0 .. n : StartsUp(b[i]) => StartsUp(b[n])}
<1>1. /\ NoneUp(b[Len(path)])
      /\ \A i \in 0 .. Len(path) - 1 : b[i + 1] = Enter(b[i], path[i + 1], FALSE)
  BY CleanEnters
<1>2. \A i \in 0 .. Len(path) : b[i] \in Seq(T) /\ (NoneUp(b[i]) \/ StartsUp(b[i]))
  BY CleanedPaths
<1> HIDE DEF b
<1>3. 0 \in Q
  OBVIOUS
<1>4. ASSUME NEW n \in Nat, n \in Q
      PROVE  n + 1 \in Q
  <2> SUFFICES ASSUME n + 1 <= Len(path), NEW i \in 0 .. n + 1, StartsUp(b[i])
               PROVE  StartsUp(b[n + 1])
    OBVIOUS
  <2>1. CASE i = n + 1
    BY <2>1
  <2>2. CASE i # n + 1
    <3>1. i \in 0 .. n /\ n <= Len(path)
      BY <2>2
    <3>2. StartsUp(b[n]) /\ b[n] \in Seq(T)
      BY <1>2, <1>4, <3>1
    <3>3. b[n + 1] = Enter(b[n], path[n + 1], FALSE) /\ path[n + 1] \in T
      <4>1. n + 1 \in 1 .. Len(path) /\ n \in 0 .. Len(path) - 1
        OBVIOUS
      <4>2. path[n + 1] \in T
        BY <4>1
      <4> QED BY <1>1, <4>1, <4>2, Zenon
    <3> QED BY <3>2, <3>3, EnterStays
  <2> QED BY <2>1, <2>2
<1> HIDE DEF Q
<1>5. \A n \in Nat : n \in Q
  BY <1>3, <1>4, SetInduction
<1>6. ~StartsUp(b[Len(path)])
  <2>1. b[Len(path)] \in Seq(T)
    BY <1>2
  <2> QED BY <1>1, <2>1 DEF NoneUp, StartsUp
<1>7. \A i \in 0 .. Len(path) : ~StartsUp(b[i])
  BY <1>5, <1>6 DEF Q
<1>8. \A i \in 0 .. Len(path) : b[i] \in Seq(T) /\ NoneUp(b[i])
  BY <1>2, <1>7
<1> QED BY <1>8 DEF b

\* A relative path that does not leave its directory leads, from a directory r, to
\* what it leads to from anywhere.
LEMMA CleanFollows ==
    ASSUME NEW T, NEW path \in Seq(T), NEW r \in Seq(T),
           \A i \in 1 .. Len(r) : r[i] \notin {".", ".."},
           NoneUp(Clean(path, FALSE))
    PROVE  /\ Clean(path, FALSE) \in Seq(T)
           /\ Clean(r \o path, TRUE) = r \o Clean(path, FALSE)
<1> DEFINE whole == r \o path
           a == Cleaned(whole, TRUE)
           b == Cleaned(path, FALSE)
           P == {n \in Nat : n <= Len(path) => a[Len(r) + n] = r \o b[n]}
<1>0. /\ whole \in Seq(T) /\ Len(whole) = Len(r) + Len(path)
      /\ Len(r) \in Nat /\ Len(path) \in Nat
      /\ \A i \in 1 .. Len(r) : whole[i] = r[i]
      /\ \A i \in 1 .. Len(path) : whole[Len(r) + i] = path[i]
      /\ SubSeq(whole, 1, Len(r)) = r
  OBVIOUS
<1> HIDE DEF whole
<1>1. /\ \A i \in 0 .. Len(whole) - 1 : a[i + 1] = Enter(a[i], whole[i + 1], TRUE)
      /\ Clean(whole, TRUE) = a[Len(whole)]
  BY <1>0, CleanEnters
<1>2. /\ b[0] = <<>> /\ Clean(path, FALSE) = b[Len(path)]
      /\ \A i \in 0 .. Len(path) - 1 : b[i + 1] = Enter(b[i], path[i + 1], FALSE)
  BY CleanEnters
<1>3. \A i \in 0 .. Len(path) : b[i] \in Seq(T) /\ NoneUp(b[i])
  BY NeverLeft
<1>4. a[Len(r)] = r
  <2>1. Len(r) \in 0 .. Len(whole) /\ \A i \in 1 .. Len(r) : whole[i] \notin {".", ".."}
    BY <1>0
  <2> QED BY <1>0, <2>1, CleanedPrefix
<1> HIDE DEF a, b
<1>5. 0 \in P
  <2>1. Len(r) + 0 = Len(r) /\ r \o <<>> = r
    BY <1>0
  <2> QED BY <1>2, <1>4, <2>1
<1>6. ASSUME NEW n \in Nat, n \in P
      PROVE  n + 1 \in P
  <2> SUFFICES ASSUME n + 1 <= Len(path)
               PROVE  a[Len(r) + (n + 1)] = r \o b[n + 1]
    OBVIOUS
  <2>1. a[Len(r) + n] = r \o b[n]
    BY <1>0, <1>6
  <2>2. a[Len(r) + (n + 1)] = Enter(a[Len(r) + n], path[n + 1], TRUE)
    <3> DEFINE k == Len(r) + n
    <3>1. k \in 0 .. Len(whole) - 1 /\ n + 1 \in 1 .. Len(path) /\ k + 1 = Len(r) + (n + 1)
      BY <1>0
    <3> HIDE DEF k
    <3>2. a[k + 1] = Enter(a[k], whole[k + 1], TRUE)
      BY <1>1, <3>1
    <3>3. whole[Len(r) + (n + 1)] = path[n + 1]
      BY <1>0, <3>1
    <3> QED BY <3>1, <3>2, <3>3 DEF k
  <2>3. /\ b[n + 1] = Enter(b[n], path[n + 1], FALSE) /\ path[n + 1] \in T
        /\ b[n] \in Seq(T) /\ NoneUp(b[n]) /\ NoneUp(b[n + 1])
    <3>1. /\ n \in 0 .. Len(path) /\ n + 1 \in 0 .. Len(path)
          /\ n + 1 \in 1 .. Len(path) /\ n \in 0 .. Len(path) - 1
      BY <1>0
    <3>2. path[n + 1] \in T
      BY <3>1
    <3>3. b[n + 1] = Enter(b[n], path[n + 1], FALSE)
      BY <1>2, <3>1, Zenon
    <3> QED BY <1>3, <3>1, <3>2, <3>3
  <2> QED BY <2>1, <2>2, <2>3, EnterStays
<1> HIDE DEF P
<1>7. Len(path) \in P
  BY <1>0, <1>5, <1>6, SetInduction
<1>8. a[Len(r) + Len(path)] = r \o b[Len(path)]
  BY <1>0, <1>7 DEF P
<1>9. Clean(path, FALSE) \in Seq(T)
  <2>1. Len(path) \in 0 .. Len(path)
    BY <1>0
  <2> QED BY <1>2, <1>3, <2>1
<1> QED BY <1>0, <1>1, <1>2, <1>8, <1>9 DEF whole

-----------------------------------------------------------------------------
(* Sequences without repetition. *)

Distinct(s) == \A i, j \in 1 .. Len(s) : s[i] = s[j] => i = j

\* The elements of a sequence.
LEMMA ElementsOf ==
    ASSUME NEW T, NEW s \in Seq(T)
    PROVE  /\ ToSet(s) \subseteq T
           /\ \A x : x \in ToSet(s) <=> \E i \in 1 .. Len(s) : s[i] = x
  BY DEF ToSet

\* One element more.
LEMMA DistinctAppend ==
    ASSUME NEW T, NEW s \in Seq(T), NEW x \in T
    PROVE  /\ Append(s, x) \in Seq(T)
           /\ ToSet(Append(s, x)) = ToSet(s) \cup {x}
           /\ Distinct(s) /\ x \notin ToSet(s) => Distinct(Append(s, x))
<1> DEFINE t == Append(s, x)
<1>1. /\ t \in Seq(T) /\ Len(t) = Len(s) + 1 /\ t[Len(s) + 1] = x /\ Len(s) \in Nat
      /\ \A i \in 1 .. Len(s) : t[i] = s[i]
  OBVIOUS
<1> HIDE DEF t
<1>2. \A y : y \in ToSet(s) <=> \E i \in 1 .. Len(s) : s[i] = y
  BY ElementsOf
<1>3. \A y : y \in ToSet(t) <=> \E i \in 1 .. Len(s) + 1 : t[i] = y
  BY <1>1, ElementsOf
<1>4. \A i \in 1 .. Len(s) + 1 : i \in 1 .. Len(s) \/ i = Len(s) + 1
  BY <1>1
<1>5. \A i \in 1 .. Len(s) : i \in 1 .. Len(s) + 1
  BY <1>1
<1>6. Len(s) + 1 \in 1 .. Len(s) + 1
  BY <1>1
<1>7. ToSet(t) = ToSet(s) \cup {x}
  BY <1>1, <1>2, <1>3, <1>4, <1>5, <1>6
<1>8. ASSUME Distinct(s), x \notin ToSet(s)
      PROVE  Distinct(t)
  <2> SUFFICES ASSUME NEW i \in 1 .. Len(s) + 1, NEW j \in 1 .. Len(s) + 1, t[i] = t[j]
               PROVE  i = j
    BY <1>1 DEF Distinct
  <2> QED BY <1>1, <1>2, <1>4, <1>8 DEF Distinct
<1> QED BY <1>1, <1>7, <1>8 DEF t

\* One sequence after another.
LEMMA DistinctConcat ==
    ASSUME NEW T, NEW s \in Seq(T), NEW t \in Seq(T)
    PROVE  /\ s \o t \in Seq(T)
           /\ ToSet(s \o t) = ToSet(s) \cup ToSet(t)
           /\ Distinct(s) /\ Distinct(t) /\ ToSet(s) \cap ToSet(t) = {} => Distinct(s \o t)
<1> DEFINE u == s \o t
<1>1. /\ u \in Seq(T) /\ Len(u) = Len(s) + Len(t) /\ Len(s) \in Nat /\ Len(t) \in Nat
      /\ \A i \in 1 .. Len(s) : u[i] = s[i]
      /\ \A i \in 1 .. Len(t) : u[Len(s) + i] = t[i]
  OBVIOUS
<1> HIDE DEF u
<1>2. \A y : y \in ToSet(s) <=> \E i \in 1 .. Len(s) : s[i] = y
  BY ElementsOf
<1>3. \A y : y \in ToSet(t) <=> \E i \in 1 .. Len(t) : t[i] = y
  BY ElementsOf
<1>4. \A y : y \in ToSet(u) <=> \E i \in 1 .. Len(u) : u[i] = y
  BY <1>1, ElementsOf
<1>5. \A i \in 1 .. Len(u) :
        \/ i \in 1 .. Len(s) /\ u[i] = s[i]
        \/ i - Len(s) \in 1 .. Len(t) /\ u[i] = t[i - Len(s)]
  <2> SUFFICES ASSUME NEW i \in 1 .. Len(u), ~(i \in 1 .. Len(s))
               PROVE  i - Len(s) \in 1 .. Len(t) /\ u[i] = t[i - Len(s)]
    BY <1>1
  <2> DEFINE k == i - Len(s)
  <2>1. k \in 1 .. Len(t) /\ Len(s) + k = i
    BY <1>1
  <2> HIDE DEF k
  <2>2. u[Len(s) + k] = t[k]
    BY <1>1, <2>1
  <2> QED BY <2>1, <2>2 DEF k
<1>6. \A i \in 1 .. Len(s) : i \in 1 .. Len(u)
  BY <1>1
<1>7. \A i \in 1 .. Len(t) : Len(s) + i \in 1 .. Len(u)
  BY <1>1
<1>8. ToSet(u) = ToSet(s) \cup ToSet(t)
  <2>1. ASSUME NEW y \in ToSet(u) PROVE y \in ToSet(s) \cup ToSet(t)
    BY <1>2, <1>3, <1>4, <1>5, <2>1
  <2>2. ASSUME NEW y \in ToSet(s) PROVE y \in ToSet(u)
    BY <1>1, <1>2, <1>4, <1>6, <2>2
  <2>3. ASSUME NEW y \in ToSet(t) PROVE y \in ToSet(u)
    BY <1>1, <1>3, <1>4, <1>7, <2>3
  <2> QED BY <2>1, <2>2, <2>3
<1>9. ASSUME Distinct(s), Distinct(t), ToSet(s) \cap ToSet(t) = {}
      PROVE  Distinct(u)
  <2> SUFFICES ASSUME NEW i \in 1 .. Len(u), NEW j \in 1 .. Len(u), u[i] = u[j]
               PROVE  i = j
    BY DEF Distinct
  <2>1. CASE i \in 1 .. Len(s) /\ j \in 1 .. Len(s)
    BY <1>1, <1>9, <2>1 DEF Distinct
  <2>2. CASE ~(i \in 1 .. Len(s)) /\ ~(j \in 1 .. Len(s))
    <3>1. i - Len(s) = j - Len(s)
      BY <1>5, <1>9, <2>2 DEF Distinct
    <3> QED BY <1>1, <3>1
  <2>3. CASE i \in 1 .. Len(s) /\ ~(j \in 1 .. Len(s))
    <3>1. u[i] \in ToSet(s) /\ u[j] \in ToSet(t)
      BY <1>1, <1>2, <1>3, <1>5, <2>3
    <3> QED BY <1>9, <3>1
  <2>4. CASE ~(i \in 1 .. Len(s)) /\ j \in 1 .. Len(s)
    <3>1. u[j] \in ToSet(s) /\ u[i] \in ToSet(t)
      BY <1>1, <1>2, <1>3, <1>5, <2>4
    <3> QED BY <1>9, <3>1
  <2> QED BY <2>1, <2>2, <2>3, <2>4
<1> QED BY <1>1, <1>8, <1>9 DEF u

\* A sequence without repetition has as many elements as it is long.
LEMMA DistinctCount ==
    ASSUME NEW T, NEW s \in Seq(T), Distinct(s)
    PROVE  IsFiniteSet(ToSet(s)) /\ Cardinality(ToSet(s)) = Len(s)
<1>1. \A x : x \in ToSet(s) <=> \E i \in 1 .. Len(s) : s[i] = x
  BY ElementsOf
<1>2. s \in [1 .. Len(s) -> ToSet(s)] /\ Len(s) \in Nat
  BY <1>1
<1>3. s \in Bijection(1 .. Len(s), ToSet(s))
  BY <1>1, <1>2 DEF Bijection, Injection, Surjection, IsInjective, Distinct
<1>4. ExistsBijection(1 .. Len(s), ToSet(s))
  BY <1>3 DEF ExistsBijection
<1> QED BY <1>2, <1>4, FS_CountingElements, FS_NatBijection

\* What is kept of a sequence are its elements in S, each as often as before.
LEMMA KeepSelects ==
    ASSUME NEW T, NEW s \in Seq(T), NEW S, Distinct(s)
    PROVE  ToSet(Keep(s, S)) = ToSet(s) \cap S /\ Distinct(Keep(s, S))
<1> DEFINE g == Kept(s, S)
           Before(n) == {s[i] : i \in 1 .. n}
           P == {n \in Nat : n <= Len(s) =>
                   /\ g[n] \in Seq(T) /\ Distinct(g[n])
                   /\ ToSet(g[n]) = Before(n) \cap S}
<1>1. g[0] = <<>> /\ \A i \in 1 .. Len(s) : Round(g, s, S, i)
  BY KeptRounds
<1>2. Keep(s, S) = g[Len(s)]
  BY DEF Keep, Kept
<1> HIDE DEF g
<1>3. 0 \in P
  <2>1. g[0] \in Seq(T) /\ Len(g[0]) = 0
    BY <1>1
  <2>2. ToSet(g[0]) = {} /\ Before(0) = {}
    BY <2>1, ElementsOf
  <2> QED BY <2>1, <2>2 DEF Distinct
<1>4. ASSUME NEW n \in Nat, n \in P
      PROVE  n + 1 \in P
  <2> SUFFICES ASSUME n + 1 <= Len(s)
               PROVE  /\ g[n + 1] \in Seq(T) /\ Distinct(g[n + 1])
                      /\ ToSet(g[n + 1]) = Before(n + 1) \cap S
    OBVIOUS
  <2>1. /\ g[n] \in Seq(T) /\ Distinct(g[n])
        /\ ToSet(g[n]) = Before(n) \cap S
    BY <1>4
  <2>2. Round(g, s, S, n + 1) /\ s[n + 1] \in T
    BY <1>1
  <2>3. g[n + 1] = IF s[n + 1] \in S THEN Append(g[n], s[n + 1]) ELSE g[n]
    BY <2>2 DEF Round
  <2>4. Before(n + 1) = Before(n) \cup {s[n + 1]}
    <3>1. 1 .. n + 1 = (1 .. n) \cup {n + 1}
      OBVIOUS
    <3> QED BY <3>1
  <2>5. s[n + 1] \notin Before(n)
    BY DEF Distinct
  <2> HIDE DEF Before
  <2>6. CASE s[n + 1] \in S
    BY <2>1, <2>2, <2>3, <2>4, <2>5, <2>6, DistinctAppend
  <2>7. CASE s[n + 1] \notin S
    BY <2>1, <2>3, <2>4, <2>7
  <2> QED BY <2>6, <2>7
<1> HIDE DEF P
<1>5. Len(s) \in P
  BY <1>3, <1>4, SetInduction
<1>6. Before(Len(s)) = ToSet(s)
  BY ElementsOf
<1>7. Distinct(g[Len(s)]) /\ ToSet(g[Len(s)]) = Before(Len(s)) \cap S
  BY <1>5 DEF P
<1> QED BY <1>2, <1>6, <1>7

\* The first elements of a sequence without repetition.
LEMMA HeadSelects ==
    ASSUME NEW T, NEW s \in Seq(T), NEW n \in Nat \ {0}, Distinct(s)
    PROVE  /\ head(s, n) \in Seq(T) /\ Distinct(head(s, n))
           /\ ToSet(head(s, n)) \subseteq ToSet(s)
           /\ Len(head(s, n)) = IF Len(s) < n THEN Len(s) ELSE n
<1>1. CASE n >= Len(s)
  <2>1. head(s, n) = s
    BY <1>1 DEF head
  <2> QED BY <1>1, <2>1
<1>2. CASE n < Len(s)
  <2> DEFINE t == SubSeq(s, 1, n)
  <2>1. head(s, n) = t
    BY <1>2 DEF head
  <2>2. t \in Seq(T) /\ Len(t) = n /\ \A i \in 1 .. n : t[i] = s[i]
    BY <1>2
  <2> HIDE DEF t
  <2>3. \A i \in 1 .. n : i \in 1 .. Len(s)
    BY <1>2
  <2>4. ToSet(t) \subseteq ToSet(s)
    BY <2>2, <2>3, ElementsOf
  <2>5. Distinct(t)
    BY <2>2, <2>3 DEF Distinct
  <2> QED BY <1>2, <2>1, <2>2, <2>4, <2>5
<1> QED BY <1>1, <1>2

\* What FlattenSeq has put together after i sequences.
Flattened(ss) ==
    LET flatten[i \in 1 .. Len(ss)] == IF i = 1 THEN ss[i] ELSE flatten[i - 1] \o ss[i]
    IN  flatten

\* g is what it has after each of the first n.
IsFlattened(g, ss, n) ==
    g = [i \in 1 .. n |-> IF i = 1 THEN ss[i] ELSE g[i - 1] \o ss[i]]

\* The recursive definition defines a function.
LEMMA FlattenedExists ==
    ASSUME NEW T, NEW ss \in Seq(T)
    PROVE  IsFlattened(Flattened(ss), ss, Len(ss))
<1> DEFINE P == {n \in Nat : \E g : IsFlattened(g, ss, n)}
<1>1. 0 \in P
  <2> DEFINE g == [i \in 1 .. 0 |-> <<>>]
  <2>1. IsFlattened(g, ss, 0)
    BY DEF IsFlattened
  <2> QED BY <2>1
<1>2. ASSUME NEW n \in Nat, n \in P
      PROVE  n + 1 \in P
  <2>1. PICK g : IsFlattened(g, ss, n)
    BY <1>2
  <2> DEFINE h == [i \in 1 .. n + 1 |-> IF i = 1 THEN ss[i] ELSE g[i - 1] \o ss[i]]
  <2>2. \A i \in 1 .. n : h[i] = g[i]
    <3>1. \A i \in 1 .. n : i \in 1 .. n + 1
      OBVIOUS
    <3> QED BY <2>1, <3>1, Zenon DEF IsFlattened
  <2>3. \A i \in 1 .. n + 1 : i # 1 => i - 1 \in 1 .. n
    OBVIOUS
  <2>4. IsFlattened(h, ss, n + 1)
    BY <2>2, <2>3 DEF IsFlattened
  <2> QED BY <2>4
<1> HIDE DEF P
<1>3. Len(ss) \in P
  BY <1>1, <1>2, SetInduction
<1>4. \E g : IsFlattened(g, ss, Len(ss))
  BY <1>3 DEF P
<1> QED BY <1>4, Zenon DEF Flattened, IsFlattened

\* Sequences that have no element twice and none in common, put together.
LEMMA FlattenSelects ==
    ASSUME NEW T, NEW ss \in Seq(Seq(T)),
           \A i \in 1 .. Len(ss) : Distinct(ss[i]),
           \A i, j \in 1 .. Len(ss) : i # j => ToSet(ss[i]) \cap ToSet(ss[j]) = {}
    PROVE  /\ FlattenSeq(ss) \in Seq(T)
           /\ Distinct(FlattenSeq(ss))
           /\ ToSet(FlattenSeq(ss)) = UNION {ToSet(ss[i]) : i \in 1 .. Len(ss)}
<1> DEFINE g == Flattened(ss)
           Before(n) == UNION {ToSet(ss[i]) : i \in 1 .. n}
           P == {n \in Nat : n + 1 <= Len(ss) =>
                   /\ g[n + 1] \in Seq(T) /\ Distinct(g[n + 1])
                   /\ ToSet(g[n + 1]) = Before(n + 1)}
<1>1. IsFlattened(g, ss, Len(ss))
  BY FlattenedExists
<1>2. Len(ss) # 0 => FlattenSeq(ss) = g[Len(ss)]
  BY DEF FlattenSeq, Flattened
<1> HIDE DEF g
<1>3. \A i \in 1 .. Len(ss) : g[i] = IF i = 1 THEN ss[i] ELSE g[i - 1] \o ss[i]
  BY <1>1, Zenon DEF IsFlattened
<1>4. 0 \in P
  <2> SUFFICES ASSUME 0 + 1 <= Len(ss)
               PROVE  g[1] \in Seq(T) /\ Distinct(g[1]) /\ ToSet(g[1]) = Before(1)
    OBVIOUS
  <2>1. 1 \in 1 .. Len(ss) /\ 1 .. 1 = {1}
    OBVIOUS
  <2>2. g[1] = ss[1] /\ ss[1] \in Seq(T)
    BY <1>3, <2>1
  <2>3. Before(1) = ToSet(ss[1])
    BY <2>1
  <2> QED BY <2>1, <2>2, <2>3
<1>5. ASSUME NEW n \in Nat, n \in P
      PROVE  n + 1 \in P
  <2> SUFFICES ASSUME n + 1 + 1 <= Len(ss)
               PROVE  /\ g[n + 1 + 1] \in Seq(T) /\ Distinct(g[n + 1 + 1])
                      /\ ToSet(g[n + 1 + 1]) = Before(n + 1 + 1)
    OBVIOUS
  <2> DEFINE m == n + 1
  <2>1. /\ g[m] \in Seq(T) /\ Distinct(g[m])
        /\ ToSet(g[m]) = Before(m)
    BY <1>5
  <2>2. /\ m \in Nat \ {0} /\ m + 1 \in 1 .. Len(ss)
        /\ \A i \in 1 .. m : i \in 1 .. Len(ss) /\ i # m + 1
    OBVIOUS
  <2> HIDE DEF m
  <2>3. g[m + 1] = g[m] \o ss[m + 1]
    <3>1. m + 1 # 1 /\ m + 1 - 1 = m
      BY <2>2
    <3> DEFINE k == m + 1
    <3>2. k \in 1 .. Len(ss) /\ k # 1 /\ k - 1 = m
      BY <2>2, <3>1
    <3> HIDE DEF k
    <3>3. g[k] = IF k = 1 THEN ss[k] ELSE g[k - 1] \o ss[k]
      BY <1>3, <3>2, Zenon
    <3>4. g[k] = g[k - 1] \o ss[k]
      BY <3>2, <3>3, Zenon
    <3> QED BY <3>2, <3>4, Zenon DEF k
  <2>4. ss[m + 1] \in Seq(T) /\ Distinct(ss[m + 1])
    BY <2>2
  <2>5. Before(m + 1) = Before(m) \cup ToSet(ss[m + 1])
    <3>1. 1 .. m + 1 = (1 .. m) \cup {m + 1}
      BY <2>2
    <3> QED BY <3>1
  <2>6. Before(m) \cap ToSet(ss[m + 1]) = {}
    BY <2>2
  <2> HIDE DEF Before
  <2>7. /\ g[m + 1] \in Seq(T) /\ Distinct(g[m + 1])
        /\ ToSet(g[m + 1]) = Before(m + 1)
    <3> DEFINE u == g[m] \o ss[m + 1]
    <3>1. /\ u \in Seq(T)
          /\ ToSet(u) = ToSet(g[m]) \cup ToSet(ss[m + 1])
          /\ ToSet(g[m]) \cap ToSet(ss[m + 1]) = {} => Distinct(u)
      BY <2>1, <2>4, DistinctConcat
    <3> HIDE DEF u
    <3>2. u \in Seq(T) /\ Distinct(u) /\ ToSet(u) = Before(m + 1)
      BY <2>1, <2>5, <2>6, <3>1, Zenon
    <3> QED BY <2>3, <3>2 DEF u
  <2> QED BY <2>7 DEF m
<1> HIDE DEF P
<1>6. \A n \in Nat : n \in P
  BY <1>4, <1>5, SetInduction
<1>7. CASE Len(ss) = 0
  <2>1. FlattenSeq(ss) = <<>>
    BY <1>7 DEF FlattenSeq
  <2>2. <<>> \in Seq(T) /\ Len(<<>>) = 0 /\ 1 .. 0 = {}
    OBVIOUS
  <2>3. ToSet(<<>>) = {} /\ Distinct(<<>>)
    BY <2>2, ElementsOf DEF Distinct
  <2>4. UNION {ToSet(ss[i]) : i \in 1 .. Len(ss)} = {}
    BY <1>7, <2>2, Zenon
  <2> QED BY <2>1, <2>2, <2>3, <2>4
<1>8. CASE Len(ss) # 0
  <2> DEFINE n == Len(ss) - 1
  <2>1. n \in Nat /\ n + 1 = Len(ss)
    BY <1>8
  <2> HIDE DEF n
  <2>2. n \in P
    BY <1>6, <2>1
  <2>3. /\ g[Len(ss)] \in Seq(T) /\ Distinct(g[Len(ss)])
        /\ ToSet(g[Len(ss)]) = Before(Len(ss))
    BY <2>1, <2>2 DEF P
  <2> QED BY <1>2, <1>8, <2>3
<1> QED BY <1>7, <1>8

-----------------------------------------------------------------------------
(* The commands of a sosreport. *)

Command == [path : Seq(STRING), execMatches : BOOLEAN, pathMatches : BOOLEAN]

\* The commands of a plugin, and those of all plugins.
CommandsOf(p) == {[plugin |-> p, command |-> c] : c \in ToSet(Manifest[p])}
Listed == UNION {CommandsOf(p) : p \in DOMAIN Manifest}

\* What the manifest says of a plugin.
LEMMA ManifestOf ==
    ASSUME NEW p \in DOMAIN Manifest
    PROVE  /\ Manifest[p] \in Seq(Command)
           /\ Distinct(Manifest[p])
           /\ \A c \in ToSet(Manifest[p]) :
                c \in Command /\ (c.path = <<>> \/ Root \o c.path \in Files)
<1>1. Manifest[p] \in Seq(Command) /\ IsInjective(Manifest[p])
  BY ManifestAssumption DEF Command
<1>2. Distinct(Manifest[p])
  BY <1>1 DEF Distinct, IsInjective
<1>3. ToSet(Manifest[p]) \subseteq Command
  BY <1>1, ElementsOf
<1> QED BY <1>1, <1>2, <1>3, ManifestAssumption

\* The commands of one plugin, in order.
LEMMA PluginCommands ==
    ASSUME NEW p \in DOMAIN Manifest
    PROVE  LET s == [j \in DOMAIN Manifest[p] |-> [plugin |-> p, command |-> Manifest[p][j]]]
           IN  s \in Seq(Listed) /\ Distinct(s) /\ ToSet(s) = CommandsOf(p)
<1> DEFINE m == Manifest[p]
           s == [j \in DOMAIN m |-> [plugin |-> p, command |-> m[j]]]
<1>1. m \in Seq(Command) /\ Distinct(m) /\ Len(m) \in Nat /\ DOMAIN m = 1 .. Len(m)
  BY ManifestOf
<1>2. \A c : c \in ToSet(m) <=> \E j \in 1 .. Len(m) : m[j] = c
  BY <1>1, ElementsOf
<1>3. CommandsOf(p) = {[plugin |-> p, command |-> c] : c \in ToSet(m)}
  BY DEF CommandsOf
<1>4. CommandsOf(p) \subseteq Listed
  BY DEF Listed
<1> HIDE DEF m
<1>5. \A j \in 1 .. Len(m) : s[j] \in CommandsOf(p) /\ s[j].command = m[j]
  BY <1>1, <1>2, <1>3
<1>6. s \in Seq(Listed) /\ Len(s) = Len(m) /\ DOMAIN s = 1 .. Len(m)
  BY <1>1, <1>4, <1>5
<1>7. Distinct(s)
  BY <1>1, <1>5, <1>6 DEF Distinct
<1>8. ASSUME NEW x \in CommandsOf(p)
      PROVE  \E j \in 1 .. Len(m) : s[j] = x
  <2>1. PICK c \in ToSet(m) : x = [plugin |-> p, command |-> c]
    BY <1>3, <1>8
  <2>2. PICK j \in 1 .. Len(m) : m[j] = c
    BY <1>2, <2>1
  <2> QED BY <1>1, <2>1, <2>2
<1> HIDE DEF s
<1>9. ToSet(s) = CommandsOf(p)
  <2>1. \A x : x \in ToSet(s) <=> \E j \in 1 .. Len(m) : s[j] = x
    BY <1>6, ElementsOf
  <2> QED BY <1>5, <1>8, <2>1
<1> QED BY <1>6, <1>7, <1>9 DEF m, s

\* Whatever order the plugins are gone through in, every command comes once.
LEMMA EveryCommandOnce ==
    ASSUME NEW order \in SetToSeqs(DOMAIN Manifest)
    PROVE  /\ AllCommands(order) \in Seq(Listed)
           /\ Distinct(AllCommands(order))
           /\ ToSet(AllCommands(order)) = Listed
<1> DEFINE D == DOMAIN Manifest
           n == Cardinality(D)
           Of(p) == [j \in DOMAIN Manifest[p] |-> [plugin |-> p, command |-> Manifest[p][j]]]
           ss == [i \in DOMAIN order |-> Of(order[i])]
<1>1. IsFiniteSet(D) /\ n \in Nat
  BY ManifestAssumption, FS_CardinalityType
<1>2. /\ order \in [1 .. n -> D]
      /\ \A i, j \in 1 .. n : i # j => order[i] # order[j]
  BY DEF SetToSeqs
<1>3. \A p \in D : Of(p) \in Seq(Listed) /\ Distinct(Of(p)) /\ ToSet(Of(p)) = CommandsOf(p)
  BY PluginCommands
<1>4. AllCommands(order) = FlattenSeq(ss)
  BY DEF AllCommands
<1>5. \A p \in D : \E i \in 1 .. n : order[i] = p
  <2>1. order \in Injection(1 .. n, D)
    BY <1>2 DEF Injection, IsInjective
  <2>2. Cardinality(1 .. n) = n
    <3>1. Cardinality(1 .. n) = IF 1 > n THEN 0 ELSE n - 1 + 1
      BY <1>1, FS_Interval
    <3> QED BY <1>1, <3>1
  <2>3. order \in Surjection(1 .. n, D)
    BY <1>1, <2>1, <2>2, FS_Injection
  <2> QED BY <2>3 DEF Surjection
<1> HIDE DEF D, n, Of
<1>6. ss \in Seq(Seq(Listed)) /\ Len(ss) = n /\ \A i \in 1 .. n : ss[i] = Of(order[i])
  BY <1>1, <1>2, <1>3
<1> HIDE DEF ss
<1>7. \A i \in 1 .. n : Distinct(ss[i]) /\ ToSet(ss[i]) = CommandsOf(order[i])
  BY <1>2, <1>3, <1>6
<1>8. \A p, q : p # q => CommandsOf(p) \cap CommandsOf(q) = {}
  <2> SUFFICES ASSUME NEW p, NEW q, NEW x \in CommandsOf(p), x \in CommandsOf(q)
               PROVE  p = q
    OBVIOUS
  <2>1. x.plugin = p /\ x.plugin = q
    BY DEF CommandsOf
  <2> QED BY <2>1
<1>9. \A i, j \in 1 .. n : i # j => ToSet(ss[i]) \cap ToSet(ss[j]) = {}
  BY <1>2, <1>7, <1>8
<1>10. /\ FlattenSeq(ss) \in Seq(Listed) /\ Distinct(FlattenSeq(ss))
       /\ ToSet(FlattenSeq(ss)) = UNION {ToSet(ss[i]) : i \in 1 .. n}
  BY <1>6, <1>7, <1>9, FlattenSelects
<1>11. UNION {ToSet(ss[i]) : i \in 1 .. n} = Listed
  <2>1. ASSUME NEW x \in Listed PROVE \E i \in 1 .. n : x \in ToSet(ss[i])
    BY <1>5, <1>7, <2>1 DEF Listed, D
  <2>2. ASSUME NEW i \in 1 .. n PROVE ToSet(ss[i]) \subseteq Listed
    BY <1>2, <1>7, <2>2 DEF Listed, D
  <2> QED BY <2>1, <2>2
<1> QED BY <1>4, <1>10, <1>11

\* A search returns commands that match, each once, and as many as there are or
\* as are asked for.
LEMMA SearchFinds ==
    ASSUME NEW order \in SetToSeqs(DOMAIN Manifest), NEW max \in Int
    PROVE  LET all == AllCommands(order)
               found == head(Keep(all, {m \in ToSet(all) : Matches(m)}), resultLimit(max))
               matching == {m \in Listed : Matches(m)}
               limit == IF max > 0 THEN max ELSE DefaultMaxResults
           IN  /\ ToSet(found) \subseteq matching
               /\ Cardinality(ToSet(found)) = Len(found)
               /\ Len(found) = IF Cardinality(matching) < limit THEN Cardinality(matching)
                                                                ELSE limit
<1> DEFINE all == AllCommands(order)
           matching == {m \in Listed : Matches(m)}
           kept == Keep(all, matching)
           limit == IF max > 0 THEN max ELSE DefaultMaxResults
           found == head(kept, limit)
<1>1. all \in Seq(Listed) /\ Distinct(all) /\ ToSet(all) = Listed
  BY EveryCommandOnce
<1>2. limit = resultLimit(max) /\ limit \in Nat \ {0}
  BY ManifestAssumption DEF resultLimit
<1>3. matching \subseteq Listed /\ matching = {m \in ToSet(all) : Matches(m)}
  BY <1>1
<1> HIDE DEF all, matching, limit
<1>4. kept \in Seq(Listed) /\ Distinct(kept) /\ ToSet(kept) = matching
  BY <1>1, <1>3, KeepType, KeepSelects
<1>5. Cardinality(matching) = Len(kept)
  BY <1>4, DistinctCount
<1> HIDE DEF kept
<1>6. /\ found \in Seq(Listed) /\ Distinct(found) /\ ToSet(found) \subseteq ToSet(kept)
      /\ Len(found) = IF Len(kept) < limit THEN Len(kept) ELSE limit
  BY <1>2, <1>4, HeadSelects
<1> HIDE DEF found
<1>7. Cardinality(ToSet(found)) = Len(found)
  BY <1>6, DistinctCount
<1>8. /\ ToSet(found) \subseteq matching
      /\ Cardinality(ToSet(found)) = Len(found)
      /\ Len(found) = IF Cardinality(matching) < limit THEN Cardinality(matching) ELSE limit
  BY <1>4, <1>5, <1>6, <1>7
<1> QED BY <1>2, <1>3, <1>8 DEF all, matching, kept, limit, found

-----------------------------------------------------------------------------
(* Reading files. *)

\* The path of an accepted request leads, in the sosreport, to where it leads from
\* anywhere, and what is there is below the sosreport's directory.
LEMMA AcceptedPaths ==
    ASSUME NEW path \in Seq(STRING), NEW abs \in BOOLEAN, validateRelativePath(path, abs)
    PROVE  /\ Clean(path, FALSE) \in Seq(STRING)
           /\ Join(path) = Root \o Clean(path, FALSE)
<1>1. ~abs /\ \A e \in ToSet(Clean(path, FALSE)) : e # ".."
  BY DEF validateRelativePath
<1>2. Root \in Seq(STRING) /\ \A i \in 1 .. Len(Root) : Root[i] \notin {".", ".."}
  <2>1. Root \in Seq(STRING) /\ ToSet(Root) \cap {".", ".."} = {}
    BY FilesAssumption
  <2> QED BY <2>1, ElementsOf
<1>3. Clean(path, FALSE) \in Seq(STRING)
  <2>1. Len(path) \in 0 .. Len(path)
    OBVIOUS
  <2> QED BY <2>1, CleanEnters, CleanedPaths
<1>4. NoneUp(Clean(path, FALSE))
  BY <1>1, <1>3, ElementsOf DEF NoneUp
<1> QED BY <1>2, <1>3, <1>4, CleanFollows DEF Join

\* A path of the manifest is refused only for dots in a name, and leads to its file.
LEMMA ManifestPaths ==
    ASSUME NEW path \in Seq(STRING), Root \o path \in Files, ToSet(path) \cap Dotted = {}
    PROVE  validateRelativePath(path, FALSE) /\ Join(path) = Root \o path
<1>1. Root \in Seq(STRING) /\ ToSet(Root \o path) \cap {".", ".."} = {}
  BY FilesAssumption
<1>2. ToSet(path) \cap {".", ".."} = {}
  BY <1>1, DistinctConcat
<1>3. Clean(path, FALSE) = path
  BY <1>2, ElementsOf, CleanOfClean
<1>4. validateRelativePath(path, FALSE)
  BY <1>2, <1>3 DEF validateRelativePath
<1> QED BY <1>3, <1>4, AcceptedPaths

-----------------------------------------------------------------------------
(* The names of container logs. *)

\* A sequence is a prefix of another, element by element.
LEMMA PrefixElements ==
    ASSUME NEW T, NEW s \in Seq(T), NEW t \in Seq(T)
    PROVE  IsPrefix(s, t) <=> Len(s) <= Len(t) /\ \A i \in 1 .. Len(s) : s[i] = t[i]
<1> DEFINE n == Len(s)
           v == SubSeq(s, 1, n)
           w == SubSeq(t, 1, n)
<1>1. v = s
  OBVIOUS
<1>2. ASSUME n <= Len(t)
      PROVE  w \in Seq(T) /\ Len(w) = n /\ \A i \in 1 .. n : w[i] = t[i]
  BY <1>2
<1>3. IsPrefix(s, t) <=> n <= Len(t) /\ v = w
  BY DEF IsPrefix
<1> HIDE DEF v, w
<1>4. ASSUME n <= Len(t)
      PROVE  s = w <=> \A i \in 1 .. n : s[i] = t[i]
  BY <1>2, <1>4
<1> QED BY <1>1, <1>3, <1>4

\* The last element of two sequences, and what is left if it goes.
LEMMA TrimAfter ==
    ASSUME NEW T, NEW a \in Seq(T), a # <<>>, NEW b \in Seq(T), NEW x, Last(a) # x
    PROVE  /\ Last(a \o b) = IF b = <<>> THEN Last(a) ELSE Last(b)
           /\ TrimSuffix(a \o b, x) = a \o TrimSuffix(b, x)
           /\ TrimSuffix(b, x) \in Seq(T)
<1>1. /\ a \o b \in Seq(T) /\ Len(a \o b) = Len(a) + Len(b) /\ Len(a) \in Nat \ {0}
      /\ Len(b) \in Nat
  OBVIOUS
<1>2. CASE b = <<>>
  BY <1>2 DEF TrimSuffix
<1>3. CASE b # <<>>
  <2>1. Len(b) > 0 /\ (a \o b)[Len(a) + Len(b)] = b[Len(b)]
    BY <1>3
  <2>2. Last(a \o b) = Last(b) /\ a \o b # <<>>
    BY <1>1, <2>1 DEF Last
  <2>3. Front(a \o b) = a \o Front(b) /\ Front(b) \in Seq(T)
    BY <1>1, <2>1 DEF Front
  <2> QED BY <1>3, <2>2, <2>3 DEF TrimSuffix
<1> QED BY <1>2, <1>3

\* What comes before the first "_" is told apart.
LEMMA UpToUnderscore ==
    ASSUME NEW T, NEW a \in Seq(T), NEW b \in Seq(T), NEW c \in Seq(T), NEW d \in Seq(T),
           NEW x \in T, x \notin ToSet(a), x \notin ToSet(b)
    PROVE  IsPrefix(a \o (<<x>> \o c), b \o (<<x>> \o d)) <=> a = b /\ IsPrefix(c, d)
<1> DEFINE s == a \o (<<x>> \o c)
           t == b \o (<<x>> \o d)
<1>1. /\ s \in Seq(T) /\ Len(s) = Len(a) + 1 + Len(c) /\ s[Len(a) + 1] = x
      /\ \A i \in 1 .. Len(a) : s[i] = a[i]
      /\ \A i \in 1 .. Len(c) : s[Len(a) + 1 + i] = c[i]
  OBVIOUS
<1>2. /\ t \in Seq(T) /\ Len(t) = Len(b) + 1 + Len(d) /\ t[Len(b) + 1] = x
      /\ \A i \in 1 .. Len(b) : t[i] = b[i]
      /\ \A i \in 1 .. Len(d) : t[Len(b) + 1 + i] = d[i]
  OBVIOUS
<1>3. Len(a) \in Nat /\ Len(b) \in Nat /\ Len(c) \in Nat /\ Len(d) \in Nat
  OBVIOUS
<1>4. (\A i \in 1 .. Len(a) : a[i] # x) /\ (\A i \in 1 .. Len(b) : b[i] # x)
  BY ElementsOf
<1> HIDE DEF s, t
<1>5. IsPrefix(s, t) <=> Len(s) <= Len(t) /\ \A i \in 1 .. Len(s) : s[i] = t[i]
  <2>1. s \in Seq(T) /\ t \in Seq(T)
    BY <1>1, <1>2
  <2> QED BY <2>1, PrefixElements
<1>6. IsPrefix(c, d) <=> Len(c) <= Len(d) /\ \A i \in 1 .. Len(c) : c[i] = d[i]
  BY PrefixElements
<1>7. ASSUME IsPrefix(s, t)
      PROVE  a = b /\ IsPrefix(c, d)
  <2>1. \A i \in 1 .. Len(s) : s[i] = t[i]
    BY <1>5, <1>7
  <2>2. ~(Len(a) < Len(b))
    <3> SUFFICES ASSUME Len(a) < Len(b) PROVE FALSE
      OBVIOUS
    <3>1. Len(a) + 1 \in 1 .. Len(b) /\ Len(a) + 1 \in 1 .. Len(s)
      BY <1>1, <1>3
    <3> QED BY <1>1, <1>2, <1>4, <2>1, <3>1
  <2>3. ~(Len(b) < Len(a))
    <3> SUFFICES ASSUME Len(b) < Len(a) PROVE FALSE
      OBVIOUS
    <3>1. Len(b) + 1 \in 1 .. Len(a) /\ Len(b) + 1 \in 1 .. Len(s)
      BY <1>1, <1>3
    <3> QED BY <1>1, <1>2, <1>4, <2>1, <3>1
  <2>4. Len(a) = Len(b)
    BY <1>3, <2>2, <2>3
  <2>5. \A i \in 1 .. Len(a) : a[i] = b[i]
    <3> SUFFICES ASSUME NEW i \in 1 .. Len(a) PROVE a[i] = b[i]
      OBVIOUS
    <3>1. i \in 1 .. Len(s) /\ i \in 1 .. Len(b)
      BY <1>1, <1>3, <2>4
    <3> QED BY <1>1, <1>2, <2>1, <3>1
  <2>6. a = b
    BY <2>4, <2>5
  <2>7. Len(c) <= Len(d)
    BY <1>1, <1>2, <1>3, <1>5, <1>7, <2>4
  <2>8. ASSUME NEW i \in 1 .. Len(c) PROVE c[i] = d[i]
    <3>1. Len(a) + 1 + i \in 1 .. Len(s) /\ i \in 1 .. Len(d)
      BY <1>1, <1>3, <2>7
    <3>2. s[Len(a) + 1 + i] = c[i] /\ t[Len(a) + 1 + i] = d[i]
      BY <1>1, <1>2, <2>4, <3>1
    <3> QED BY <2>1, <3>1, <3>2
  <2> QED BY <1>6, <2>6, <2>7, <2>8
<1>8. ASSUME a = b, IsPrefix(c, d)
      PROVE  IsPrefix(s, t)
  <2>1. Len(s) <= Len(t)
    BY <1>1, <1>2, <1>3, <1>6, <1>8
  <2>2. ASSUME NEW i \in 1 .. Len(s) PROVE s[i] = t[i]
    <3>1. CASE i <= Len(a)
      BY <1>1, <1>2, <1>3, <1>8, <3>1
    <3>2. CASE i = Len(a) + 1
      BY <1>1, <1>2, <1>8, <3>2
    <3>3. CASE i > Len(a) + 1
      <4> DEFINE k == i - Len(a) - 1
      <4>1. k \in 1 .. Len(c) /\ k \in 1 .. Len(d) /\ i = Len(a) + 1 + k
        BY <1>1, <1>3, <1>6, <1>8, <3>3
      <4> HIDE DEF k
      <4>2. s[Len(a) + 1 + k] = c[k] /\ t[Len(a) + 1 + k] = d[k] /\ c[k] = d[k]
        BY <1>1, <1>2, <1>6, <1>8, <4>1
      <4> QED BY <4>1, <4>2
    <3> QED BY <1>1, <1>3, <3>1, <3>2, <3>3
  <2> QED BY <1>5, <2>1, <2>2
<1> QED BY <1>7, <1>8 DEF s, t

\* Two elements.
LEMMA PairElements ==
    ASSUME NEW T, NEW x \in T, NEW y \in T
    PROVE  /\ <<x, y>> \in Seq(T) /\ Len(<<x, y>>) = 2
           /\ <<x, y>>[1] = x /\ <<x, y>>[2] = y
  OBVIOUS

\* One sequence after another, element by element.
LEMMA ConcatElements ==
    ASSUME NEW T, NEW s \in Seq(T), NEW t \in Seq(T)
    PROVE  /\ s \o t \in Seq(T) /\ Len(s \o t) = Len(s) + Len(t)
           /\ \A i \in 1 .. Len(s) : (s \o t)[i] = s[i]
           /\ \A i \in 1 .. Len(t) : (s \o t)[Len(s) + i] = t[i]
           /\ SubSeq(s \o t, 1, Len(s)) = s
           /\ SubSeq(s \o t, Len(s) + 1, Len(s \o t)) = t
  OBVIOUS

\* A container and the token that follows its dash; what may follow that; and
\* what is to be found in the three.
IsNamed(c, id) == c # <<>> /\ id \notin {"-", ".log", ".gz"}
NoIdPart(v) == ToSet(v) \cap (Hex \cup {"-"}) = {}
ContainerOf(c, id, v) == IF id \in Hex /\ v = <<>> THEN c ELSE <<>>

\* What parseContainerName makes of a name, a dash and an id followed by v.
LEMMA ParsesLastDash ==
    ASSUME NEW T, "-" \in T, NEW c \in Seq(T), NEW id \in T, NEW v \in Seq(T),
           IsNamed(c, id), NoIdPart(v)
    PROVE  parseContainerName(c \o (<<"-", id>> \o v)) = ContainerOf(c, id, v)
<1> DEFINE r == c \o (<<"-", id>> \o v)
           I == {i \in 1 .. Len(r) : r[i] = "-"}
           k == Len(c) + 1
           rest == SubSeq(r, k + 1, Len(r))
<1>1. /\ r \in Seq(T) /\ Len(r) = Len(c) + 2 + Len(v)
      /\ r[Len(c) + 1] = "-" /\ r[Len(c) + 2] = id
      /\ \A i \in 1 .. Len(c) : r[i] = c[i]
      /\ \A i \in 1 .. Len(v) : r[Len(c) + 2 + i] = v[i]
      /\ SubSeq(r, 1, Len(c)) = c
  <2> DEFINE d == <<"-", id>> \o v
  <2>1. /\ <<"-", id>> \in Seq(T) /\ Len(<<"-", id>>) = 2
        /\ <<"-", id>>[1] = "-" /\ <<"-", id>>[2] = id
    BY PairElements
  <2>2. /\ d \in Seq(T) /\ Len(d) = 2 + Len(v) /\ d[1] = "-" /\ d[2] = id
        /\ \A i \in 1 .. Len(v) : d[2 + i] = v[i]
    BY <2>1
  <2> HIDE DEF d
  <2>3. /\ c \o d \in Seq(T) /\ Len(c \o d) = Len(c) + Len(d)
        /\ \A i \in 1 .. Len(c) : (c \o d)[i] = c[i]
        /\ \A i \in 1 .. Len(d) : (c \o d)[Len(c) + i] = d[i]
        /\ SubSeq(c \o d, 1, Len(c)) = c
    <3>1. d \in Seq(T)
      BY <2>2
    <3> QED BY <3>1, ConcatElements
  <2>4. r = c \o d
    BY DEF d
  <2> HIDE DEF r
  <2>5. ASSUME NEW i \in 1 .. Len(v) PROVE r[Len(c) + 2 + i] = v[i]
    <3>1. 2 + i \in 1 .. Len(d) /\ Len(c) + 2 + i = Len(c) + (2 + i)
      BY <2>2
    <3> QED BY <2>2, <2>3, <2>4, <3>1
  <2>6. 1 \in 1 .. Len(d) /\ 2 \in 1 .. Len(d) /\ Len(c) + Len(d) = Len(c) + 2 + Len(v)
    BY <2>2
  <2> QED BY <2>2, <2>3, <2>4, <2>5, <2>6
<1>2. Len(c) \in Nat \ {0} /\ Len(v) \in Nat
  BY DEF IsNamed
<1>3. \A i \in 1 .. Len(v) : v[i] # "-" /\ v[i] \notin Hex
  BY ElementsOf DEF NoIdPart
<1>4. parseContainerName(r) =
        LET idx == IF I # {} THEN Max(I) ELSE 0
            after == SubSeq(r, idx + 1, Len(r))
        IN  IF idx <= 1 \/ after = <<>> \/ ~(ToSet(after) \subseteq Hex)
              THEN <<>> ELSE SubSeq(r, 1, idx - 1)
  BY DEF parseContainerName, SelectLastInSeq
<1> HIDE DEF r
<1>5. k \in I /\ \A i \in I : i <= k
  <2>1. k \in I
    BY <1>1, <1>2
  <2>2. ASSUME NEW i \in 1 .. Len(r), i > k PROVE r[i] # "-"
    <3>1. CASE i = Len(c) + 2
      BY <1>1, <3>1 DEF IsNamed
    <3>2. CASE i # Len(c) + 2
      <4> DEFINE j == i - Len(c) - 2
      <4>1. j \in 1 .. Len(v) /\ i = Len(c) + 2 + j
        BY <1>1, <1>2, <2>2, <3>2
      <4> HIDE DEF j
      <4>2. r[Len(c) + 2 + j] = v[j] /\ v[j] # "-"
        BY <1>1, <1>3, <4>1
      <4> QED BY <4>1, <4>2
    <3> QED BY <3>1, <3>2
  <2>3. ASSUME NEW i \in I PROVE i <= k
    BY <1>2, <2>2, <2>3
  <2> QED BY <2>1, <2>3
<1>6. I # {} /\ Max(I) = k
  <2>1. I \subseteq Int /\ k \in Int /\ \A i \in I : k >= i
    BY <1>2, <1>5
  <2>2. \A x \in I : (\A y \in I : x >= y) => x = k
    BY <1>5, <2>1
  <2> HIDE DEF I, k
  <2> QED BY <1>5, <2>1, <2>2 DEF Max
<1>7. /\ rest \in Seq(T) /\ Len(rest) = 1 + Len(v)
      /\ \A i \in 1 .. 1 + Len(v) : rest[i] = r[k + i]
  <2>1. k + 1 \in 1 .. Len(r) /\ Len(r) - k = 1 + Len(v)
    BY <1>1, <1>2
  <2>2. k \in Nat /\ Len(r) \in Nat
    BY <1>1, <1>2
  <2> HIDE DEF k
  <2>3. /\ rest \in Seq(T) /\ Len(rest) = Len(r) - k
        /\ \A i \in 1 .. Len(r) - k : rest[i] = r[k + i]
    BY <1>1, <2>1, <2>2
  <2> QED BY <2>1, <2>3
<1>8. rest[1] = id /\ \A i \in 1 .. Len(v) : rest[i + 1] = v[i]
  <2>1. rest[1] = id
    BY <1>1, <1>2, <1>7
  <2>2. ASSUME NEW i \in 1 .. Len(v) PROVE rest[i + 1] = v[i]
    <3>1. i + 1 \in 1 .. 1 + Len(v) /\ k + (i + 1) = Len(c) + 2 + i
      BY <1>2
    <3>2. rest[i + 1] = r[k + (i + 1)]
      BY <1>7, <3>1
    <3> QED BY <1>1, <3>1, <3>2
  <2> QED BY <2>1, <2>2
<1> HIDE DEF rest
<1>9. rest # <<>> /\ (ToSet(rest) \subseteq Hex <=> id \in Hex /\ v = <<>>)
  <2>1. \A x : x \in ToSet(rest) <=> \E i \in 1 .. 1 + Len(v) : rest[i] = x
    BY <1>7, ElementsOf
  <2>2. rest # <<>>
    BY <1>2, <1>7
  <2>3. ASSUME ToSet(rest) \subseteq Hex PROVE id \in Hex /\ v = <<>>
    <3>1. id \in Hex
      BY <1>2, <1>8, <2>1, <2>3
    <3>2. ~(Len(v) > 0)
      <4> SUFFICES ASSUME Len(v) > 0 PROVE FALSE
        OBVIOUS
      <4>1. 1 \in 1 .. Len(v) /\ 1 + 1 \in 1 .. 1 + Len(v)
        BY <1>2
      <4>2. v[1] \in Hex
        BY <1>8, <2>1, <2>3, <4>1
      <4> QED BY <1>3, <4>1, <4>2
    <3> QED BY <3>1, <3>2
  <2>4. ASSUME id \in Hex, v = <<>> PROVE ToSet(rest) \subseteq Hex
    <3>1. 1 .. 1 + Len(v) = {1}
      BY <2>4
    <3> QED BY <1>8, <2>1, <2>4, <3>1
  <2> QED BY <2>2, <2>3, <2>4
<1>10. parseContainerName(r) = IF rest = <<>> \/ ~(ToSet(rest) \subseteq Hex) THEN <<>>
                               ELSE SubSeq(r, 1, Len(c))
  <2>1. ~(k <= 1) /\ k - 1 = Len(c)
    BY <1>2
  <2> HIDE DEF I, k
  <2>2. parseContainerName(r) =
          IF k <= 1 \/ rest = <<>> \/ ~(ToSet(rest) \subseteq Hex)
            THEN <<>> ELSE SubSeq(r, 1, k - 1)
    BY <1>4, <1>6, Zenon DEF rest
  <2> QED BY <2>1, <2>2, Zenon
<1>11. parseContainerName(r) = IF id \in Hex /\ v = <<>> THEN c ELSE <<>>
  BY <1>1, <1>9, <1>10
<1> QED BY <1>11, Zenon DEF r, ContainerOf

\* A sequence of no length is empty.
LEMMA EmptySequence ==
    ASSUME NEW T, NEW s \in Seq(T)
    PROVE  s = <<>> <=> Len(s) = 0
  OBVIOUS

\* What is left of a suffix without ".gz".
Unzipped(suffix) == TrimSuffix(suffix, ".gz")

\* The suffixes of logs.
LEMMA LogSuffixes ==
    ASSUME NEW T, NEW s \in Seq(T)
    PROVE  LET w == Unzipped(s)
           IN  /\ w \in Seq(T) /\ ToSet(w) \subseteq ToSet(s)
               /\ (w # <<>> /\ Last(w) = ".log") =>
                    /\ Front(w) \in Seq(T) /\ ToSet(Front(w)) \subseteq ToSet(s)
                    /\ Front(w) = <<>> <=> s \in {<<".log">>, <<".log", ".gz">>}
               /\ s \in {<<".log">>, <<".log", ".gz">>} => w # <<>> /\ Last(w) = ".log"
<1> DEFINE w == Unzipped(s)
<1>1. ASSUME NEW t \in Seq(T), t # <<>>
      PROVE  /\ Front(t) \in Seq(T) /\ Len(Front(t)) = Len(t) - 1
             /\ \A i \in 1 .. Len(t) - 1 : Front(t)[i] = t[i]
             /\ ToSet(Front(t)) \subseteq ToSet(t)
  <2> DEFINE k == Len(t) - 1
             u == SubSeq(t, 1, k)
  <2>1. k \in Nat /\ k <= Len(t) /\ \A i \in 1 .. k : i \in 1 .. Len(t)
    BY <1>1
  <2> HIDE DEF k
  <2>2. u \in Seq(T) /\ Len(u) = k /\ \A i \in 1 .. k : u[i] = t[i]
    BY <2>1
  <2>3. Front(t) = u
    BY DEF Front, k
  <2> HIDE DEF u
  <2>4. ToSet(u) \subseteq ToSet(t)
    BY <2>1, <2>2, ElementsOf
  <2> QED BY <2>2, <2>3, <2>4 DEF k
<1>2. CASE s # <<>> /\ Last(s) = ".gz"
  <2>1. w = Front(s)
    BY <1>2 DEF Unzipped, TrimSuffix
  <2>2. /\ w \in Seq(T) /\ Len(w) = Len(s) - 1 /\ \A i \in 1 .. Len(s) - 1 : w[i] = s[i]
        /\ ToSet(w) \subseteq ToSet(s)
    BY <1>1, <1>2, <2>1
  <2> HIDE DEF w
  <2>3. s \in {<<".log">>, <<".log", ".gz">>} <=> Len(s) = 2 /\ s[1] = ".log"
    BY <1>2 DEF Last
  <2>4. ASSUME w # <<>>, Last(w) = ".log"
        PROVE  Front(w) = <<>> <=> Len(s) = 2 /\ s[1] = ".log"
    <3>1. Front(w) \in Seq(T) /\ Len(Front(w)) = Len(s) - 2
      BY <1>1, <2>2, <2>4
    <3>2. Len(s) \in Nat /\ Len(s) - 1 > 0
      BY <2>2, <2>4
    <3>3. Front(w) = <<>> <=> Len(s) = 2
      <4>1. Front(w) = <<>> <=> Len(Front(w)) = 0
        BY <3>1, EmptySequence
      <4> QED BY <3>1, <3>2, <4>1
    <3>4. Len(s) = 2 => s[1] = ".log"
      BY <2>2, <2>4 DEF Last
    <3> QED BY <3>3, <3>4
  <2>5. (Len(s) = 2 /\ s[1] = ".log") => w # <<>> /\ Last(w) = ".log"
    BY <2>2 DEF Last
  <2>6. w # <<>> => Front(w) \in Seq(T) /\ ToSet(Front(w)) \subseteq ToSet(s)
    BY <1>1, <2>2
  <2> QED BY <2>2, <2>3, <2>4, <2>5, <2>6 DEF w
<1>3. CASE ~(s # <<>> /\ Last(s) = ".gz")
  <2>1. w = s
    BY <1>3 DEF Unzipped, TrimSuffix
  <2>2. s \in {<<".log">>, <<".log", ".gz">>} <=> Len(s) = 1 /\ s[1] = ".log"
    BY <1>3 DEF Last
  <2>3. ASSUME s # <<>>, Last(s) = ".log"
        PROVE  Front(s) = <<>> <=> Len(s) = 1 /\ s[1] = ".log"
    <3>1. Front(s) \in Seq(T) /\ Len(Front(s)) = Len(s) - 1 /\ Len(s) \in Nat /\ Len(s) > 0
      BY <1>1, <2>3
    <3>2. Front(s) = <<>> <=> Len(s) = 1
      <4>1. Front(s) = <<>> <=> Len(Front(s)) = 0
        BY <3>1, EmptySequence
      <4> QED BY <3>1, <4>1
    <3> QED BY <2>3, <3>2 DEF Last
  <2>4. (Len(s) = 1 /\ s[1] = ".log") => s # <<>> /\ Last(s) = ".log"
    BY DEF Last
  <2>5. s # <<>> => Front(s) \in Seq(T) /\ ToSet(Front(s)) \subseteq ToSet(s)
    BY <1>1
  <2> HIDE DEF w
  <2> QED BY <2>1, <2>2, <2>3, <2>4, <2>5 DEF w
<1> QED BY <1>2, <1>3

\* Sequences of no and of one element.
LEMMA ShortSequences ==
    ASSUME NEW T
    PROVE  /\ <<>> \in Seq(T) /\ Len(<<>>) = 0
           /\ \A x \in T : <<x>> \in Seq(T)
           /\ \A s \in Seq(T) : s \o <<>> = s
  OBVIOUS

\* A sequence of elements of a set is one of elements of a larger set.
LEMMA LargerSet ==
    ASSUME NEW A, NEW B, A \subseteq B
    PROVE  \A s \in Seq(A) : s \in Seq(B)
  OBVIOUS

\* The suffix of a name goes, whatever comes before it.
LEMMA StemOf ==
    ASSUME NEW T, NEW front \in Seq(T), front # <<>>, Last(front) \notin {".log", ".gz"},
           NEW s \in Seq(T)
    PROVE  LET w == Unzipped(s)
               base == TrimSuffix(front \o s, ".gz")
           IN  /\ Last(base) = ".log" <=> w # <<>> /\ Last(w) = ".log"
               /\ Last(base) = ".log" => TrimSuffix(base, ".log") = front \o Front(w)
<1> DEFINE w == Unzipped(s)
           base == TrimSuffix(front \o s, ".gz")
<1>1. w \in Seq(T) /\ base = front \o w
  BY TrimAfter DEF Unzipped
<1> HIDE DEF w, base
<1>2. Last(base) = ".log" <=> w # <<>> /\ Last(w) = ".log"
  <2>1. TrimSuffix(front \o w, ".log") = front \o TrimSuffix(w, ".log")
        /\ Last(front \o w) = IF w = <<>> THEN Last(front) ELSE Last(w)
    BY <1>1, TrimAfter
  <2> QED BY <1>1, <2>1
<1>3. TrimSuffix(base, ".log") = front \o TrimSuffix(w, ".log")
  BY <1>1, TrimAfter
<1>4. (w # <<>> /\ Last(w) = ".log") => TrimSuffix(w, ".log") = Front(w)
  BY DEF TrimSuffix
<1> QED BY <1>2, <1>3, <1>4 DEF w, base

\* Five parts, two of them u, make the same sequence from the left and from the
\* right.
PartsAround(u, T) ==
    \A a \in Seq(T) : \A b \in Seq(T) : \A c \in Seq(T) :
        (a \o u \o b \o u) \o c = a \o (u \o (b \o (u \o c)))

\* Concatenation is associative, for five parts.
LEMMA FiveParts ==
    ASSUME NEW T, NEW u \in Seq(T)
    PROVE  PartsAround(u, T)
<1> SUFFICES ASSUME NEW a \in Seq(T), NEW b \in Seq(T), NEW c \in Seq(T)
             PROVE  (a \o u \o b \o u) \o c = a \o (u \o (b \o (u \o c)))
  BY Zenon DEF PartsAround
<1> DEFINE p == a \o u
           q == p \o b
           d == u \o c
           e == b \o d
<1>1. p \in Seq(T) /\ d \in Seq(T) /\ (\A s \in Seq(T) : p \o s = a \o (u \o s))
  OBVIOUS
<1> HIDE DEF p, d
<1>2. q \in Seq(T) /\ e \in Seq(T) /\ q \o d = p \o e
  BY <1>1
<1> HIDE DEF q, e
<1>3. q \in Seq(T)
  BY <1>2
<1>4. q \o u \in Seq(T) /\ (q \o u) \o c = q \o (u \o c)
  BY <1>3
<1>5. (q \o u) \o c = a \o (u \o e)
  BY <1>1, <1>2, <1>4 DEF d
<1> QED BY <1>5 DEF p, q, d, e

\* x does not occur in s.
Without(x, s) == x \notin ToSet(s)

\* prefix is that of stem for the same pod and namespace, and rest what follows it.
Starts(prefix, stem, rest, pod1, ns1, pod2, ns2) ==
    /\ IsPrefix(prefix, stem) <=> pod1 = pod2 /\ ns1 = ns2
    /\ (pod1 = pod2 /\ ns1 = ns2) => SubSeq(stem, Len(prefix) + 1, Len(stem)) = rest

\* A pod and a namespace are a prefix of a stem if they are those it starts with,
\* and what follows is the container and the id.
LEMMA StemStarts ==
    ASSUME NEW T, NEW x \in T, NEW pod1 \in Seq(T), NEW ns1 \in Seq(T), NEW rest \in Seq(T),
           NEW pod2 \in Seq(T), NEW ns2 \in Seq(T),
           Without(x, pod1), Without(x, ns1), Without(x, pod2), Without(x, ns2)
    PROVE  Starts(pod2 \o <<x>> \o ns2 \o <<x>>, (pod1 \o <<x>> \o ns1 \o <<x>>) \o rest,
                  rest, pod1, ns1, pod2, ns2)
<1> DEFINE u == <<x>>
           known == pod1 \o u \o ns1 \o u
           prefix == pod2 \o u \o ns2 \o u
<1>1. u \in Seq(T) /\ <<>> \in Seq(T) /\ Len(<<>>) = 0
  BY ShortSequences
<1> HIDE DEF u
<1>2. \A a \in Seq(T) : \A b \in Seq(T) : \A c \in Seq(T) :
        (a \o u \o b \o u) \o c = a \o (u \o (b \o (u \o c)))
  <2>1. PartsAround(u, T)
    BY <1>1, FiveParts, Zenon
  <2> QED BY <2>1, Zenon DEF PartsAround
<1>3. prefix \in Seq(T) /\ known \in Seq(T)
  <2>1. u \in Seq(T)
    BY <1>1
  <2>2. pod1 \o u \o ns1 \in Seq(T) /\ pod2 \o u \o ns2 \in Seq(T)
    BY <2>1
  <2> DEFINE k == pod1 \o u \o ns1
             l == pod2 \o u \o ns2
  <2>3. k \in Seq(T) /\ l \in Seq(T)
    BY <2>2
  <2> HIDE DEF k, l
  <2>4. k \o u \in Seq(T) /\ l \o u \in Seq(T)
    BY <2>1, <2>3
  <2> QED BY <2>4 DEF k, l
<1>4. prefix = prefix \o <<>>
  BY <1>3, ShortSequences, Zenon
<1>5. /\ prefix \o <<>> = pod2 \o (u \o (ns2 \o (u \o <<>>)))
      /\ known \o rest = pod1 \o (u \o (ns1 \o (u \o rest)))
  <2>1. <<>> \in Seq(T)
    BY <1>1
  <2>2. prefix \o <<>> = pod2 \o (u \o (ns2 \o (u \o <<>>)))
    BY <1>2, <2>1, Zenon
  <2>3. known \o rest = pod1 \o (u \o (ns1 \o (u \o rest)))
    BY <1>2, Zenon
  <2> QED BY <2>2, <2>3, Zenon
<1>6. ns2 \o (u \o <<>>) \in Seq(T) /\ ns1 \o (u \o rest) \in Seq(T)
  <2>1. u \o <<>> \in Seq(T) /\ u \o rest \in Seq(T)
    BY <1>1, ConcatElements
  <2> QED BY <2>1, ConcatElements
<1>7. IsPrefix(<<>>, rest)
  <2> DEFINE e == <<>>
  <2>1. e \in Seq(T) /\ Len(e) = 0
    BY <1>1
  <2> HIDE DEF e
  <2>2. IsPrefix(e, rest) <=> Len(e) <= Len(rest) /\ \A i \in 1 .. Len(e) : e[i] = rest[i]
    <3>1. e \in Seq(T)
      BY <2>1
    <3> QED BY <3>1, PrefixElements
  <2>3. IsPrefix(e, rest)
    BY <2>1, <2>2
  <2> QED BY <2>3 DEF e
<1>8. IsPrefix(ns2 \o (u \o <<>>), ns1 \o (u \o rest)) <=> ns2 = ns1
  BY <1>1, <1>7, UpToUnderscore DEF u, Without
<1> DEFINE c2 == ns2 \o (u \o <<>>)
           c1 == ns1 \o (u \o rest)
<1>9. IsPrefix(pod2 \o (u \o c2), pod1 \o (u \o c1)) <=> pod2 = pod1 /\ IsPrefix(c2, c1)
  <2>1. c1 \in Seq(T) /\ c2 \in Seq(T)
    BY <1>6
  <2> HIDE DEF c1, c2
  <2> QED BY <2>1, UpToUnderscore DEF u, Without
<1>10. IsPrefix(prefix, known \o rest) <=> pod1 = pod2 /\ ns1 = ns2
  BY <1>4, <1>5, <1>8, <1>9
<1>11. (pod1 = pod2 /\ ns1 = ns2) => prefix = known
  OBVIOUS
<1>12. SubSeq(known \o rest, Len(known) + 1, Len(known \o rest)) = rest
  <2> HIDE DEF known
  <2>1. known \in Seq(T)
    BY <1>3
  <2> QED BY <2>1, ConcatElements
<1> HIDE DEF prefix, known
<1>13. (pod1 = pod2 /\ ns1 = ns2)
         => SubSeq(known \o rest, Len(prefix) + 1, Len(known \o rest)) = rest
  BY <1>11, <1>12
<1>14. Starts(prefix, known \o rest, rest, pod1, ns1, pod2, ns2)
  BY <1>10, <1>13, Zenon DEF Starts
<1> QED BY <1>14, Zenon DEF prefix, known, u

\* What file names are made of.
Tokens == STRING \cup {"_", "-"}

\* What the manifest says of a container log.
LEMMA LogOf ==
    ASSUME NEW f \in ToSet(FilesCopied)
    PROVE  /\ f.pod \in Seq(Tokens) /\ f.namespace \in Seq(Tokens)
           /\ f.container \in Seq(Tokens) /\ f.suffix \in Seq(Tokens) /\ f.id \in Tokens
           /\ "_" \notin ToSet(f.pod) \cup ToSet(f.namespace)
           /\ f.container # <<>> /\ f.id \notin {"-", ".log", ".gz"}
           /\ ToSet(f.suffix) \cap (Hex \cup {"-"}) = {}
<1>1. f \in [dir : Seq(STRING), pod : Seq(STRING), namespace : Seq(STRING),
             container : Seq(STRING), id : STRING, suffix : Seq(STRING)]
  BY LogsAssumption, ElementsOf
<1>2. /\ f.pod \in Seq(STRING) /\ f.namespace \in Seq(STRING)
      /\ f.container \in Seq(STRING) /\ f.suffix \in Seq(STRING) /\ f.id \in STRING
  BY <1>1
<1>3. STRING \subseteq Tokens
  BY Zenon DEF Tokens
<1>4. \A s \in Seq(STRING) : s \in Seq(Tokens)
  BY <1>3, LargerSet, Zenon
<1>5. /\ f.pod \in Seq(Tokens) /\ f.namespace \in Seq(Tokens)
      /\ f.container \in Seq(Tokens) /\ f.suffix \in Seq(Tokens) /\ f.id \in Tokens
  BY <1>2, <1>3, <1>4, Zenon
<1> QED BY <1>5, LogsAssumption, Zenon

\* Sequences are closed under concatenation.
LEMMA ConcatClosed ==
    ASSUME NEW T
    PROVE  \A s \in Seq(T) : \A t \in Seq(T) : s \o t \in Seq(T)
  OBVIOUS

\* front is known, c and t together, and is not empty.
IsFront(front, known, c, t, T) ==
    /\ front \in Seq(T) /\ front # <<>> /\ Last(front) = Last(t)
    /\ \A v \in Seq(T) : front \o v = known \o (c \o (t \o v))

\* A name in parts, and its last part.
LEMMA NameParts ==
    ASSUME NEW T, NEW known \in Seq(T), NEW c \in Seq(T), NEW x \in T, NEW y \in T
    PROVE  IsFront(known \o c \o <<x, y>>, known, c, <<x, y>>, T)
<1> DEFINE t == <<x, y>>
           k == known \o c
           front == k \o t
<1>1. k \in Seq(T) /\ Len(k) \in Nat
  BY ConcatElements
<1>2. \A s \in Seq(T) : k \o s = known \o (c \o s)
  OBVIOUS
<1> HIDE DEF k
<1>3. t \in Seq(T)
  BY PairElements
<1>4. Len(t) = 2 /\ t[2] = y
  BY PairElements
<1> HIDE DEF t
<1>5. front \in Seq(T) /\ Len(front) = Len(k) + Len(t)
  BY <1>1, <1>3, ConcatElements
<1>6. \A i \in 1 .. Len(t) : front[Len(k) + i] = t[i]
  BY <1>1, <1>3, ConcatElements
<1>7. \A v \in Seq(T) : front \o v = k \o (t \o v)
  <2>1. k \in Seq(T)
    BY <1>1
  <2> QED BY <1>3, <2>1
<1> HIDE DEF front
<1>8. Last(front) = Last(t)
  BY <1>1, <1>5, <1>6, <1>4 DEF Last
<1>9. front # <<>>
  <2>1. Len(front) # 0
    BY <1>1, <1>5, <1>4
  <2>2. front = <<>> <=> Len(front) = 0
    BY <1>5, EmptySequence
  <2> QED BY <2>1, <2>2
<1>10. \A v \in Seq(T) : front \o v = known \o (c \o (t \o v))
  <2> SUFFICES ASSUME NEW v \in Seq(T) PROVE front \o v = known \o (c \o (t \o v))
    BY Zenon
  <2>1. t \o v \in Seq(T)
    BY <1>3, ConcatClosed, Zenon
  <2> QED BY <1>2, <1>7, <2>1, Zenon
<1>11. IsFront(front, known, c, t, T)
  BY <1>5, <1>8, <1>9, <1>10, Zenon DEF IsFront
<1> QED BY <1>11, Zenon DEF front, k, t

\* What matchesContainerLogFile looks for in a name.
FoundIn(fileName, namespace, name, container) ==
    LET base   == TrimSuffix(fileName, ".gz")
        prefix == name \o <<"_">> \o namespace \o <<"_">>
        stem   == TrimSuffix(base, ".log")
        parsed == parseContainerName(SubSeq(stem, Len(prefix) + 1, Len(stem)))
    IN  /\ Last(base) = ".log"
        /\ IsPrefix(prefix, stem)
        /\ parsed # <<>>
        /\ container = <<>> \/ parsed = container

\* The suffixes that logs have.
IsLog(s) == s \in {<<".log">>, <<".log", ".gz">>}

\* A log of these parts is that of a container asked for.
IsAskedFor(pod1, ns1, c, id, s, ns2, pod2, container) ==
    /\ pod1 = pod2 /\ ns1 = ns2
    /\ container = <<>> \/ container = c
    /\ id \in Hex /\ IsLog(s)

\* A name is taken apart as it was put together.
LEMMA NameTakenApart ==
    ASSUME NEW T, "_" \in T, "-" \in T,
           NEW pod1 \in Seq(T), NEW ns1 \in Seq(T), NEW c \in Seq(T), NEW id \in T,
           NEW s \in Seq(T), NEW pod2 \in Seq(T), NEW ns2 \in Seq(T), NEW container,
           Without("_", pod1), Without("_", ns1), Without("_", pod2), Without("_", ns2),
           IsNamed(c, id), NoIdPart(s)
    PROVE  FoundIn(pod1 \o <<"_">> \o ns1 \o <<"_">> \o c \o <<"-", id>> \o s,
                   ns2, pod2, container)
             <=> IsAskedFor(pod1, ns1, c, id, s, ns2, pod2, container)
<1> DEFINE u == <<"_">>
           t == <<"-", id>>
           known == pod1 \o u \o ns1 \o u
           prefix == pod2 \o u \o ns2 \o u
           front == known \o c \o t
           base == TrimSuffix(front \o s, ".gz")
           stem == TrimSuffix(base, ".log")
           w == Unzipped(s)
           v == Front(w)
           rest == c \o (t \o v)
           parsed == parseContainerName(SubSeq(stem, Len(prefix) + 1, Len(stem)))
           Asked == IsAskedFor(pod1, ns1, c, id, s, ns2, pod2, container)
<1>1. FoundIn(front \o s, ns2, pod2, container) <=>
        /\ Last(base) = ".log"
        /\ IsPrefix(prefix, stem)
        /\ parsed # <<>>
        /\ container = <<>> \/ parsed = container
  BY Zenon DEF FoundIn
<1>2. u \in Seq(T) /\ t \in Seq(T)
  BY ShortSequences, PairElements, Zenon
<1>3. known \in Seq(T)
  <2> HIDE DEF u
  <2> QED BY <1>2, ConcatClosed, Zenon
<1>4. IsFront(front, known, c, t, T) /\ Last(t) = id
  <2> HIDE DEF known
  <2>1. IsFront(front, known, c, t, T)
    BY <1>3, NameParts, Zenon
  <2>2. Len(t) = 2 /\ t[2] = id
    BY PairElements
  <2> HIDE DEF t
  <2>3. Last(t) = id
    BY <2>2 DEF Last
  <2> QED BY <2>1, <2>3
<1> HIDE DEF front
<1>5. Last(front) \notin {".log", ".gz"}
  BY <1>4 DEF IsFront, IsNamed
<1>6. /\ Last(base) = ".log" <=> w # <<>> /\ Last(w) = ".log"
      /\ Last(base) = ".log" => stem = front \o v
  BY <1>4, <1>5, StemOf, Zenon DEF IsFront
<1>7. /\ w \in Seq(T)
      /\ (w # <<>> /\ Last(w) = ".log") =>
           v \in Seq(T) /\ ToSet(v) \subseteq ToSet(s) /\ (v = <<>> <=> IsLog(s))
      /\ IsLog(s) => w # <<>> /\ Last(w) = ".log"
  BY LogSuffixes, Zenon DEF IsLog
<1>8. ASSUME Last(base) # ".log" PROVE ~IsLog(s)
  BY <1>6, <1>7, <1>8, Zenon
<1>9. ASSUME Last(base) = ".log"
      PROVE  /\ IsPrefix(prefix, stem) <=> pod1 = pod2 /\ ns1 = ns2
             /\ (pod1 = pod2 /\ ns1 = ns2) => parsed = ContainerOf(c, id, v)
             /\ v = <<>> <=> IsLog(s)
  <2>1. v \in Seq(T) /\ (v = <<>> <=> IsLog(s)) /\ ToSet(v) \subseteq ToSet(s)
    <3> HIDE DEF v, w, base
    <3> QED BY <1>6, <1>7, <1>9, Zenon
  <2> HIDE DEF v
  <2>2. NoIdPart(v)
    BY <2>1 DEF NoIdPart
  <2>3. stem = known \o rest
    <3> HIDE DEF known, t, base, stem
    <3> QED BY <1>4, <1>6, <1>9, <2>1, Zenon DEF IsFront
  <2>4. parseContainerName(rest) = ContainerOf(c, id, v)
    BY <2>1, <2>2, ParsesLastDash, Zenon
  <2>5. rest \in Seq(T)
    <3> HIDE DEF t
    <3> QED BY <1>2, <2>1, ConcatClosed, Zenon
  <2> HIDE DEF rest
  <2>6. Starts(prefix, known \o rest, rest, pod1, ns1, pod2, ns2)
    BY <2>5, StemStarts, Zenon
  <2> HIDE DEF prefix, known, stem
  <2>7. Starts(prefix, stem, rest, pod1, ns1, pod2, ns2)
    BY <2>3, <2>6, Zenon
  <2> QED BY <2>1, <2>4, <2>7, Zenon DEF Starts
<1>10. FoundIn(front \o s, ns2, pod2, container) <=> Asked
  <2> HIDE DEF base, stem, prefix, parsed, v
  <2>1. CASE Last(base) # ".log"
    BY <1>1, <1>8, <2>1, Zenon DEF IsAskedFor
  <2>2. CASE Last(base) = ".log"
    <3>1. c # <<>>
      BY DEF IsNamed
    <3>2. CASE pod1 = pod2 /\ ns1 = ns2
      BY <1>1, <1>9, <2>2, <3>1, <3>2, Zenon DEF ContainerOf, IsAskedFor
    <3>3. CASE ~(pod1 = pod2 /\ ns1 = ns2)
      BY <1>1, <1>9, <2>2, <3>3, Zenon DEF IsAskedFor
    <3> QED BY <3>2, <3>3, Zenon
  <2> QED BY <2>1, <2>2, Zenon
<1> QED BY <1>10, Zenon DEF front

\* matchesContainerLogFile finds in a name what the log was named for.
LEMMA NamesAreParsed ==
    ASSUME NEW f \in ToSet(FilesCopied),
           NEW namespace \in Seq(Tokens), Without("_", namespace),
           NEW name \in Seq(Tokens), Without("_", name), NEW container
    PROVE  matchesContainerLogFile(f, namespace, name, container)
             <=> IsAskedFor(f.pod, f.namespace, f.container, f.id, f.suffix,
                            namespace, name, container)
<1>1. /\ f.pod \in Seq(Tokens) /\ f.namespace \in Seq(Tokens)
      /\ f.container \in Seq(Tokens) /\ f.suffix \in Seq(Tokens) /\ f.id \in Tokens
  BY LogOf, Zenon
<1>2. "_" \in Tokens /\ "-" \in Tokens
  BY Zenon DEF Tokens
<1>3. Without("_", f.pod) /\ Without("_", f.namespace)
  BY LogOf, Zenon DEF Without
<1>4. IsNamed(f.container, f.id) /\ NoIdPart(f.suffix)
  BY LogOf, Zenon DEF IsNamed, NoIdPart
<1>5. matchesContainerLogFile(f, namespace, name, container)
        <=> FoundIn(f.pod \o <<"_">> \o f.namespace \o <<"_">> \o f.container
                      \o <<"-", f.id>> \o f.suffix, namespace, name, container)
  BY Zenon DEF matchesContainerLogFile, Name, FoundIn
<1>6. FoundIn(f.pod \o <<"_">> \o f.namespace \o <<"_">> \o f.container
                \o <<"-", f.id>> \o f.suffix, namespace, name, container)
        <=> IsAskedFor(f.pod, f.namespace, f.container, f.id, f.suffix,
                       namespace, name, container)
  BY <1>1, <1>2, <1>3, <1>4, NameTakenApart, Zenon
<1> QED BY <1>5, <1>6, Zenon

-----------------------------------------------------------------------------
(* Calls of the sosreport tools. *)

\* The other tools leave the sosreport alone.
OnlySosReads == family # "sos" => request = [tool |-> "none"]

\* The inductive strengthening of the properties of the sosreport tools.
SosInv ==
    /\ SosTypeOK
    /\ OnlySosReads
    /\ SearchFindsEnough
    /\ ToldPathsOpen
    /\ ReadsInTheReport
    /\ LogsOfTheContainer

\* A path that was given out is one of the manifest.
LEMMA ToldPaths ==
    ASSUME SosTypeOK, NEW path \in told
    PROVE  path \in Seq(STRING) /\ (path = <<>> \/ Root \o path \in Files)
<1>1. PICK p \in DOMAIN Manifest : path \in {c.path : c \in ToSet(Manifest[p])}
  BY DEF SosTypeOK
<1>2. PICK c \in ToSet(Manifest[p]) : path = c.path
  BY <1>1
<1>3. c \in Command /\ (c.path = <<>> \/ Root \o c.path \in Files)
  BY ManifestOf
<1> QED BY <1>2, <1>3 DEF Command

\* A call that neither searches nor reads a file gives no more out than there is.
LEMMA QuietStep ==
    ASSUME SosInv, family = "sos", UNCHANGED family,
           request' \in [tool : {"none", "plugins", "commands"}],
           told' \subseteq UNION {{c.path : c \in ToSet(Manifest[p])} : p \in DOMAIN Manifest},
           hits' \in {hits, <<>>}, file' = NoFile, reply' \in Replies \ {"lines"}
    PROVE  SosInv'
<1>1. request'.tool \notin {"search", "get", "logs"}
  OBVIOUS
<1>2. ToSet(<<>>) = {}
  BY DEF ToSet
<1>3. SosTypeOK'
  BY <1>2 DEF SosInv, SosTypeOK
<1>4. OnlySosReads' /\ SearchFindsEnough' /\ ToldPathsOpen' /\ ReadsInTheReport'
      /\ LogsOfTheContainer'
  BY <1>1 DEF OnlySosReads, SearchFindsEnough, ToldPathsOpen, ReadsInTheReport,
              LogsOfTheContainer
<1> QED BY <1>3, <1>4 DEF SosInv

\* The answers that are no text of a file.
LEMMA ListingStep ==
    ASSUME SosInv, family = "sos", UNCHANGED family, NEW report,
           TakesReply \/ ListPlugins(report) \/ \E plugin : ListCommands(report, plugin)
    PROVE  SosInv'
<1>1. CASE TakesReply
  BY <1>1, QuietStep DEF TakesReply, Replies, SosInv, SosTypeOK
<1>2. CASE ListPlugins(report)
  BY <1>2, QuietStep DEF ListPlugins, Ends, Replies, SosInv, SosTypeOK
<1>3. ASSUME NEW plugin, ListCommands(report, plugin)
      PROVE  SosInv'
  BY <1>3, QuietStep DEF ListCommands, Ends, Replies, SosInv, SosTypeOK
<1> QED BY <1>1, <1>2, <1>3

\* SearchCommands.
LEMMA SearchStep ==
    ASSUME SosInv, family = "sos", UNCHANGED family, NEW report, NEW pattern,
           NEW maxResults \in MaxResults, SearchCommands(report, pattern, maxResults)
    PROVE  SosInv'
<1>0. PICK order \in SetToSeqs(DOMAIN Manifest) :
        LET all == AllCommands(order)
            matching == {m \in ToSet(all) : Matches(m)}
            ok  == /\ loadManifest(report) /\ pattern # "none"
                   /\ pattern = "invalid" => all = <<>>
        IN  /\ request' = [tool |-> "search", max |-> maxResults]
            /\ hits' = IF ok THEN head(Keep(all, matching), resultLimit(maxResults))
                             ELSE <<>>
            /\ told' = told \cup {m.command.path : m \in ToSet(hits')}
            /\ Ends(IF ok THEN "listing" ELSE "error")
  BY DEF SearchCommands
<1> DEFINE all == AllCommands(order)
           found == head(Keep(all, {m \in ToSet(all) : Matches(m)}), resultLimit(maxResults))
           matching == {m \in Listed : Matches(m)}
           limit == IF maxResults > 0 THEN maxResults ELSE DefaultMaxResults
<1>1. maxResults \in Int
  BY ManifestAssumption
<1>2. /\ ToSet(found) \subseteq matching
      /\ Cardinality(ToSet(found)) = Len(found)
      /\ Len(found) = IF Cardinality(matching) < limit THEN Cardinality(matching) ELSE limit
  BY <1>1, SearchFinds
<1>3. /\ \/ hits' = found /\ reply' = "listing"
         \/ hits' = <<>> /\ reply' = "error"
      /\ request' = [tool |-> "search", max |-> maxResults]
      /\ told' = told \cup {m.command.path : m \in ToSet(hits')}
      /\ file' = NoFile
  BY <1>0 DEF Ends
<1> HIDE DEF found
<1>4. request'.tool = "search" /\ request'.max = maxResults
  BY <1>3
<1>5. ToSet(hits') \subseteq Listed
  <2>1. ToSet(<<>>) = {}
    BY DEF ToSet
  <2> QED BY <1>2, <1>3, <2>1
<1>6. SearchFindsEnough'
  <2>1. CASE reply' = "listing"
    <3>1. hits' = found
      BY <1>3, <2>1
    <3>2. matching = {m \in UNION {{[plugin |-> p, command |-> c] : c \in ToSet(Manifest[p])}
                                     : p \in DOMAIN Manifest} : Matches(m)}
      BY DEF Listed, CommandsOf
    <3> QED BY <1>2, <1>4, <3>1, <3>2 DEF SearchFindsEnough
  <2>2. CASE reply' # "listing"
    BY <2>2 DEF SearchFindsEnough
  <2> QED BY <2>1, <2>2
<1>7. \A m \in Listed : m.plugin \in DOMAIN Manifest /\ m.command \in ToSet(Manifest[m.plugin])
  BY DEF Listed, CommandsOf
<1>8. SosTypeOK'
  BY <1>3, <1>5, <1>7 DEF SosInv, SosTypeOK, Replies
<1>9. OnlySosReads' /\ ToldPathsOpen' /\ ReadsInTheReport' /\ LogsOfTheContainer'
  BY <1>4 DEF OnlySosReads, ToldPathsOpen, ReadsInTheReport, LogsOfTheContainer
<1> QED BY <1>6, <1>8, <1>9 DEF SosInv

\* What is below the sosreport's directory.
LEMMA BelowRoot ==
    ASSUME NEW rel \in Seq(STRING), Root \o rel \in Files
    PROVE  /\ IsStrictPrefix(Root, Root \o rel)
           /\ SubSeq(Root \o rel, Len(Root) + 1, Len(Root \o rel)) = rel
<1>1. Root \in Seq(STRING) /\ Root \notin Files
  BY FilesAssumption
<1> DEFINE f == Root \o rel
<1>2. /\ f \in Seq(STRING) /\ Len(f) = Len(Root) + Len(rel)
      /\ \A i \in 1 .. Len(Root) : f[i] = Root[i]
      /\ SubSeq(f, Len(Root) + 1, Len(f)) = rel
  BY <1>1, ConcatElements
<1>3. f # Root
  BY <1>1
<1> HIDE DEF f
<1>4. IsPrefix(Root, f) <=> Len(Root) <= Len(f) /\ \A i \in 1 .. Len(Root) : Root[i] = f[i]
  BY <1>1, <1>2, PrefixElements
<1>5. IsPrefix(Root, f)
  BY <1>1, <1>2, <1>4
<1>6. IsStrictPrefix(Root, f)
  BY <1>3, <1>5 DEF IsStrictPrefix
<1> QED BY <1>2, <1>6 DEF f

\* GetCommand.
LEMMA GetStep ==
    ASSUME SosInv, family = "sos", UNCHANGED family, NEW report, NEW path \in Paths \cup told,
           NEW abs \in BOOLEAN, NEW h \in Windows, NEW content,
           GetCommand(report, path, abs, h, content)
    PROVE  SosInv'
<1> DEFINE there == /\ validateSosreportPath(report)
                    /\ validateRelativePath(path, abs)
                    /\ Join(path) \in Files
           bad == ~there \/ content = "unreadable" \/ h.pattern = "invalid"
                    \/ ~readLines(content)
           none == Shown(h, log) = <<>> /\ h.pattern # "none"
<1>1. path \in Seq(STRING)
  BY ToldPaths, FilesAssumption DEF SosInv
<1>2. /\ request'.tool = "get" /\ request'.path = path /\ request'.abs = abs
      /\ request'.report = report /\ request'.content = content
      /\ asked' = h /\ told' = told /\ hits' = hits /\ log' = log
  BY DEF GetCommand
<1>3. \/ bad /\ Ends("error")
      \/ ~bad /\ none /\ Ends("message")
      \/ ~bad /\ EndsWithLines(Join(path))
  BY DEF GetCommand
<1>4. ASSUME there
      PROVE  /\ Join(path) \in Files /\ Join(path) # NoFile
             /\ Clean(path, FALSE) \in Seq(STRING) /\ Join(path) = Root \o Clean(path, FALSE)
  BY <1>1, <1>4, AcceptedPaths, FilesAssumption
<1>5. ASSUME report = "whole", ~abs, path \in told \ {<<>>}, ToSet(path) \cap Dotted = {}
      PROVE  there /\ Join(path) = Root \o path
  <2>1. Root \o path \in Files
    BY <1>5, ToldPaths DEF SosInv
  <2>2. validateRelativePath(path, FALSE) /\ Join(path) = Root \o path
    BY <1>1, <1>5, <2>1, ManifestPaths
  <2> QED BY <1>5, <2>1, <2>2 DEF validateSosreportPath
<1> HIDE DEF there
<1>6. SosTypeOK'
  BY <1>2, <1>3, <1>4 DEF SosInv, SosTypeOK, Ends, EndsWithLines, Replies
<1>7. ToldPathsOpen'
  <2> SUFFICES ASSUME ~abs, report = "whole", content \in {"good", "plain"},
                      path \in told \ {<<>>}, ToSet(path) \cap Dotted = {},
                      h.pattern # "invalid"
               PROVE  \/ reply' = "lines" /\ file' = Root \o path
                      \/ reply' = "message" /\ Shown(h, log) = <<>>
    BY <1>2 DEF ToldPathsOpen
  <2>1. there /\ Join(path) = Root \o path
    BY <1>5
  <2>2. ~bad
    BY <2>1 DEF readLines
  <2> QED BY <1>3, <2>1, <2>2 DEF Ends, EndsWithLines
<1>8. ReadsInTheReport'
  <2> SUFFICES ASSUME file' # NoFile
               PROVE  /\ IsStrictPrefix(Root, file')
                      /\ Clean(path, FALSE) = SubSeq(file', Len(Root) + 1, Len(file'))
    BY <1>2 DEF ReadsInTheReport
  <2>1. there /\ file' = Join(path)
    BY <1>3 DEF Ends, EndsWithLines
  <2> DEFINE rel == Clean(path, FALSE)
  <2>2. rel \in Seq(STRING) /\ Root \o rel \in Files /\ file' = Root \o rel
    BY <1>4, <2>1
  <2> HIDE DEF rel
  <2>3. /\ IsStrictPrefix(Root, Root \o rel)
        /\ SubSeq(Root \o rel, Len(Root) + 1, Len(Root \o rel)) = rel
    BY <2>2, BelowRoot
  <2>4. IsStrictPrefix(Root, file') /\ rel = SubSeq(file', Len(Root) + 1, Len(file'))
    BY <2>2, <2>3, Zenon
  <2> QED BY <2>4 DEF rel
<1>9. OnlySosReads' /\ SearchFindsEnough' /\ LogsOfTheContainer'
  BY <1>2 DEF OnlySosReads, SearchFindsEnough, LogsOfTheContainer
<1> QED BY <1>6, <1>7, <1>8, <1>9 DEF SosInv

\* What calls name has no "_" in it.
LEMMA CalledNames ==
    /\ \A n \in Namespaces : n \in Seq(Tokens) /\ Without("_", n)
    /\ \A n \in Pods : n \in Seq(Tokens) /\ Without("_", n)
<1>1. <<>> \in Seq(Tokens)
  BY ShortSequences, Zenon
<1>2. Without("_", <<>>)
  BY DEF Without, ToSet
<1>3. \A f \in ToSet(FilesCopied) :
        /\ f.pod \in Seq(Tokens) /\ f.namespace \in Seq(Tokens)
        /\ Without("_", f.pod) /\ Without("_", f.namespace)
  BY LogOf, Zenon DEF Without
<1> QED BY <1>1, <1>2, <1>3, Zenon DEF Namespaces, Pods

\* SosGetPodLogs.
LEMMA PodLogsStep ==
    ASSUME SosInv, family = "sos", UNCHANGED family, NEW report,
           NEW namespace \in Namespaces, NEW name \in Pods, NEW container,
           NEW h, NEW content, SosGetPodLogs(report, namespace, name, container, h, content)
    PROVE  SosInv'
<1> DEFINE I == {i \in 1 .. Len(FilesCopied) :
                   matchesContainerLogFile(FilesCopied[i], namespace, name, container)}
           k == IF I # {} THEN Min(I) ELSE 0
           f == LogFile(FilesCopied[k])
<1>1. /\ request'.tool = "logs" /\ request'.namespace = namespace /\ request'.name = name
      /\ request'.container = container
      /\ asked' = h /\ told' = told /\ hits' = hits /\ log' = log
  BY DEF SosGetPodLogs
<1>2. \/ Ends("error")
      \/ k = 0 /\ Ends("message")
      \/ k # 0 /\ Shown(h, log) = <<>> /\ Ends("message")
      \/ k # 0 /\ f \in LogFiles /\ EndsWithLines(f)
  BY DEF SosGetPodLogs, SelectInSeq
<1>3. DOMAIN FilesCopied = 1 .. Len(FilesCopied) /\ Len(FilesCopied) \in Nat
  <2>1. PICK T : FilesCopied \in Seq(T)
    BY LogsAssumption, Zenon
  <2> QED BY <2>1
<1>4. I = LogsAskedFor'
  <2>1. ASSUME NEW i \in 1 .. Len(FilesCopied)
        PROVE  matchesContainerLogFile(FilesCopied[i], namespace, name, container)
                 <=> LET g == FilesCopied[i]
                     IN  /\ g.pod = name /\ g.namespace = namespace
                         /\ container \in {<<>>, g.container}
                         /\ g.id \in Hex /\ g.suffix \in {<<".log">>, <<".log", ".gz">>}
    <3> DEFINE g == FilesCopied[i]
    <3>1. g \in ToSet(FilesCopied)
      BY <1>3, <2>1 DEF ToSet
    <3> HIDE DEF g
    <3>2. /\ namespace \in Seq(Tokens) /\ Without("_", namespace)
          /\ name \in Seq(Tokens) /\ Without("_", name)
      BY CalledNames, Zenon
    <3>3. matchesContainerLogFile(g, namespace, name, container)
            <=> IsAskedFor(g.pod, g.namespace, g.container, g.id, g.suffix,
                           namespace, name, container)
      BY <3>1, <3>2, NamesAreParsed, Zenon
    <3>4. matchesContainerLogFile(g, namespace, name, container)
            <=> /\ g.pod = name /\ g.namespace = namespace
                /\ container \in {<<>>, g.container}
                /\ g.id \in Hex /\ g.suffix \in {<<".log">>, <<".log", ".gz">>}
      BY <3>3, Zenon DEF IsAskedFor, IsLog
    <3> QED BY <3>4, Zenon DEF g
  <2> QED BY <1>1, <1>3, <2>1, Zenon DEF LogsAskedFor
<1> HIDE DEF I
<1>5. I # {} => k # 0
  <2>1. I \subseteq Int /\ \A i \in I : i >= 1
    BY <1>3 DEF I
  <2>2. ASSUME I # {} PROVE Min(I) \in I
    <3>1. I \subseteq Nat /\ I # {}
      BY <1>3, <2>2 DEF I
    <3>2. PICK n \in I : \A m \in I : n <= m
      BY <3>1, LeastElement
    <3> QED BY <3>1, <3>2 DEF Min
  <2> QED BY <2>1, <2>2
<1>6. NoFile \notin LogFiles
  BY FilesAssumption
<1> HIDE DEF f, k
<1>7. SosTypeOK'
  BY <1>1, <1>2, <1>6 DEF SosInv, SosTypeOK, Ends, EndsWithLines, Replies
<1>8. LogsOfTheContainer'
  <2>1. reply' = "lines" => k # 0 /\ file' = f
    BY <1>2 DEF Ends, EndsWithLines
  <2>2. reply' = "message" => k = 0 \/ Shown(asked', log') = <<>>
    BY <1>1, <1>2 DEF Ends, EndsWithLines
  <2>3. k # 0 => I # {} /\ f = LogFile(FilesCopied[Min(I)])
    BY DEF f, k
  <2>4. reply' = "lines" => I # {} /\ file' = LogFile(FilesCopied[Min(I)])
    BY <2>1, <2>3
  <2>5. reply' = "message" => I = {} \/ Shown(asked', log') = <<>>
    BY <1>5, <2>2
  <2>6. /\ reply' = "lines" => /\ LogsAskedFor' # {}
                               /\ file' = LogFile(FilesCopied[Min(LogsAskedFor')])
        /\ reply' = "message" => LogsAskedFor' = {} \/ Shown(asked', log') = <<>>
    BY <1>4, <2>4, <2>5, Zenon
  <2> QED BY <2>6, Zenon DEF LogsOfTheContainer
<1>9. OnlySosReads' /\ SearchFindsEnough' /\ ToldPathsOpen' /\ ReadsInTheReport'
  BY <1>1 DEF OnlySosReads, SearchFindsEnough, ToldPathsOpen, ReadsInTheReport
<1> QED BY <1>7, <1>8, <1>9 DEF SosInv

-----------------------------------------------------------------------------
(* The theorems. *)

\* Every step of the other tools leaves pods and commands alone.
LEMMA NoCommandStep ==
    ASSUME TextInv, family # "exec", UNCHANGED <<execVars, family>>, LogInv'
    PROVE  TextInv'
<1>1. stage = "idle" /\ ran = NotRun /\ result = "none"
  BY DEF TextInv, ExecInv, OnlyExecRuns
<1>2. UNCHANGED <<pod, stage, call, ran, result, family>>
  BY DEF execVars
<1>3. ExecTypeOK'
  BY <1>2 DEF TextInv, ExecInv, ExecTypeOK
<1>4. CallGood' /\ ContainerChosen' /\ OnlyExecRuns' /\ RunsAsAsked' /\ AnswerIsWhole'
  BY <1>1, <1>2 DEF CallGood, ContainerChosen, OnlyExecRuns, RunsAsAsked, AnswerIsWhole
<1> QED BY <1>3, <1>4 DEF TextInv, ExecInv

\* The inductive invariant holds initially.
LEMMA InitTextInv == TextInit => TextInv
<1> SUFFICES ASSUME TextInit PROVE TextInv
  OBVIOUS
<1>1. log \in Seq(Lines) /\ asked \in Params /\ answer = Error /\ ~enough
  <2>1. NoWindow \in Params
    BY NoWindowShowsAll
  <2>2. CASE family = "logs"
    BY <2>2 DEF TextInit, Init
  <2>3. CASE family # "logs"
    BY <2>1, <2>3, TextsAssumption DEF TextInit
  <2> QED BY <2>2, <2>3
<1>2. LogInv
  BY <1>1 DEF LogInv, AnswerStands, WindowStaysPut
<1>3. stage = "idle" /\ ran = NotRun /\ result = "none" /\ ExecInit
  BY DEF TextInit, ExecInit
<1>4. MaxPods \in Nat /\ MaxPods > 0
  BY ExecAssumption
<1>5. call \in Calls
  BY <1>3, <1>4 DEF ExecInit, Calls, Kinds, Containers
<1>6. pod \in [uid : 1 .. MaxPods, phase : {"Pending", "Running", "Ended", "Gone"},
               containers : PodSpecs]
  BY <1>3, <1>4 DEF ExecInit
<1>7. ExecTypeOK
  BY <1>3, <1>5, <1>6 DEF ExecTypeOK
<1> QED BY <1>2, <1>3, <1>7 DEF TextInv, ExecInv, CallGood, ContainerChosen, OnlyExecRuns,
                                RunsAsAsked, AnswerIsWhole

\* The inductive invariant of the tools that answer with lines.
THEOREM TextInvariance == TextSpec => []TextInv
<1>1. TextInv /\ [TextNext]_textVars => TextInv'
  <2> SUFFICES ASSUME TextInv, [TextNext]_textVars PROVE TextInv'
    OBVIOUS
  <2>1. CASE UNCHANGED textVars
    <3>1. UNCHANGED <<log, asked, answer, enough, pod, stage, call, ran, result, family>>
      BY <2>1 DEF textVars, vars, execVars
    <3>2. LogInv'
      BY <3>1 DEF TextInv, LogInv, AnswerStands, WindowStaysPut
    <3>3. ExecInv'
      BY <3>1 DEF TextInv, ExecInv, ExecTypeOK, CallGood, ContainerChosen, OnlyExecRuns,
                  RunsAsAsked, AnswerIsWhole
    <3> QED BY <3>2, <3>3 DEF TextInv
  <2>2. CASE family = "logs" /\ Next /\ UNCHANGED <<execVars, family>>
    BY <2>2, LogsStep, NoCommandStep DEF TextInv
  <2>3. CASE family = "sos" /\ SosNext /\ UNCHANGED <<execVars, family>>
    BY <2>3, SosLogStep, NoCommandStep DEF TextInv
  <2>4. CASE family = "exec" /\ ExecNext /\ UNCHANGED family
    BY <2>4, CallBegins, ExecPodStep, PodChangesStep, TakesAnswerStep DEF ExecNext
  <2> QED BY <2>1, <2>2, <2>3, <2>4 DEF TextNext
<1> QED BY <1>1, InitTextInv, PTL DEF TextSpec

\* WindowOfLog for every text and every window, and for logs that grow: an answer
\* is within the limits of head, tail and the default, and its lines stand
\* together in the filtered text (HeadTailParams.Apply after ExecuteWithMatch and
\* StripEmptyLines).
THEOREM AnswersAreWindows == TextSpec => []WindowOfLog
<1>1. TextInv => WindowOfLog
  <2> SUFFICES ASSUME TextInv, answer # Error
               PROVE  /\ Within(asked, Len(answer))
                      /\ \E i \in 1 .. Len(log) + 1 :
                           LET s == Shown(asked, log)
                           IN  i + Len(answer) - 1 <= Len(s)
                                 /\ answer = SubSeq(s, i, i + Len(answer) - 1)
    BY DEF WindowOfLog
  <2> DEFINE s == Shown(asked, log)
  <2>1. /\ log \in Seq(Lines) /\ answer \in Seq(Lines) /\ Within(asked, Len(answer))
        /\ \E a : StandsAt(answer, s, a)
    BY DEF TextInv, LogInv, AnswerStands
  <2>2. s \in Seq(Lines) /\ Len(s) <= Len(log)
    BY <2>1, ShownType
  <2> HIDE DEF s
  <2>3. PICK a : StandsAt(answer, s, a)
    BY <2>1
  <2>4. answer = SubSeq(s, a, a + Len(answer) - 1)
    BY <2>1, <2>2, <2>3, StandsIsSubSeq
  <2>5. /\ a \in 1 .. Len(log) + 1
        /\ a + Len(answer) - 1 <= Len(s)
    BY <2>1, <2>2, <2>3 DEF StandsAt
  <2> QED BY <2>1, <2>4, <2>5 DEF s
<1> QED BY <1>1, TextInvariance, PTL

\* WindowStaysPut for every log, however it grows: a window counted from the
\* head stays what a second call with the same parameters would get.
THEOREM HeadWindowsStayPut == TextSpec => []WindowStaysPut
<1>1. TextInv => WindowStaysPut
  BY DEF TextInv, LogInv
<1> QED BY <1>1, TextInvariance, PTL

\* PagesCover for every log: pages of n lines, read with head and tail, leave out
\* no line that matches.
THEOREM PagesLoseNothing == TextSpec => []PagesCover
<1>1. TextInv => PagesCover
  BY EveryLogIsCovered DEF TextInv, LogInv
<1> QED BY <1>1, TextInvariance, PTL

\* RunsAsAsked for any pods and limits: a command runs in the container asked for,
\* or in the first one of the pod that ExecPod fetched, never for a pattern that
\* is refused, and captures are limited.
THEOREM CommandsRunAsAsked == TextSpec => []RunsAsAsked
<1>1. TextInv => RunsAsAsked
  BY DEF TextInv, ExecInv
<1> QED BY <1>1, TextInvariance, PTL

\* AnswerIsWhole for any pods and commands: no part of an output, and no output of
\* a command that complained, is an answer of ExecPod's callers.
THEOREM AnswersAreWhole == TextSpec => []AnswerIsWhole
<1>1. TextInv => AnswerIsWhole
  BY DEF TextInv, ExecInv
<1> QED BY <1>1, TextInvariance, PTL

\* The inductive invariant of the sosreport tools.
THEOREM SosInvariance == TextSpec => []SosInv
<1>1. TextInit => SosInv
  <2> SUFFICES ASSUME TextInit PROVE SosInv
    OBVIOUS
  <2>1. /\ told = {} /\ hits = <<>> /\ request = [tool |-> "none"] /\ file = NoFile
        /\ reply = "none"
    BY DEF TextInit, SosInit
  <2>2. request.tool \notin {"search", "get", "logs"} /\ ToSet(<<>>) = {}
    BY <2>1 DEF ToSet
  <2> QED BY <2>1, <2>2 DEF SosInv, SosTypeOK, Replies, OnlySosReads, SearchFindsEnough,
                            ToldPathsOpen, ReadsInTheReport, LogsOfTheContainer
<1>2. SosInv /\ [TextNext]_textVars => SosInv'
  <2> SUFFICES ASSUME SosInv, [TextNext]_textVars PROVE SosInv'
    OBVIOUS
  <2>1. CASE UNCHANGED textVars
    <3>1. UNCHANGED <<log, asked, told, hits, request, file, reply, family>>
      BY <2>1 DEF textVars, vars, sosVars
    <3> QED BY <3>1 DEF SosInv, SosTypeOK, OnlySosReads, SearchFindsEnough, ToldPathsOpen,
                        ReadsInTheReport, LogsOfTheContainer, LogsAskedFor
  <2>2. CASE family # "sos" /\ UNCHANGED <<sosVars, family>>
    <3>1. UNCHANGED <<told, hits, request, file, reply, family>>
      BY <2>2 DEF sosVars
    <3>2. request = [tool |-> "none"]
      BY <2>2 DEF SosInv, OnlySosReads
    <3>3. request'.tool \notin {"search", "get", "logs"}
      BY <3>1, <3>2
    <3> QED BY <3>1, <3>3 DEF SosInv, SosTypeOK, OnlySosReads, SearchFindsEnough,
                              ToldPathsOpen, ReadsInTheReport, LogsOfTheContainer
  <2>3. CASE family = "sos" /\ SosNext /\ UNCHANGED family
    BY <2>3, ListingStep, SearchStep, GetStep, PodLogsStep DEF SosNext, SosCall
  <2> QED BY <2>1, <2>2, <2>3 DEF TextNext
<1> QED BY <1>1, <1>2, PTL DEF TextSpec

\* SearchFindsEnough for every manifest and every order of its plugins: SearchCommands
\* returns commands that match, each once, and all of them or as many as were asked
\* for.
THEOREM SearchesFindEnough == TextSpec => []SearchFindsEnough
<1>1. SosInv => SearchFindsEnough
  BY DEF SosInv
<1> QED BY <1>1, SosInvariance, PTL

\* ToldPathsOpen for every manifest: a path that a listing or a search gave out is
\* one that GetCommand accepts and opens.
THEOREM ToldPathsCanBeRead == TextSpec => []ToldPathsOpen
<1>1. SosInv => ToldPathsOpen
  BY DEF SosInv
<1> QED BY <1>1, SosInvariance, PTL

\* ReadsInTheReport for every path, of any length and with "." and ".." anywhere:
\* what validateRelativePath lets through is joined to a path below the sosreport.
THEOREM ReadsStayInTheReport == TextSpec => []ReadsInTheReport
<1>1. SosInv => ReadsInTheReport
  BY DEF SosInv
<1> QED BY <1>1, SosInvariance, PTL

\* LogsOfTheContainer for all names of pods, namespaces and containers: taking a
\* file name apart (matchesContainerLogFile, parseContainerName) finds what it was
\* put together from.
THEOREM LogsAreTheContainers == TextSpec => []LogsOfTheContainer
<1>1. SosInv => LogsOfTheContainer
  BY DEF SosInv
<1> QED BY <1>1, SosInvariance, PTL

\* Only a container's writing changes a text.
LEMMA TextsStay ==
    ASSUME TextNext, enough \in BOOLEAN
    PROVE  (log' = log \/ Write) /\ enough' \in BOOLEAN
<1>1. ASSUME Next PROVE (log' = log \/ Write) /\ enough' \in BOOLEAN
  <2>1. CASE Write
    BY <2>1 DEF Write
  <2>2. CASE GetPodLogs
    <3>1. PICK h \in Params : enough' = (Len(Shown(h, log)) >= h.head)
      BY <2>2 DEF GetPodLogs
    <3>2. enough' \in BOOLEAN
      BY <3>1
    <3> QED BY <2>2, <3>2 DEF GetPodLogs
  <2>3. CASE GetPodLogsFails
    BY <2>3 DEF GetPodLogsFails
  <2> QED BY <1>1, <2>1, <2>2, <2>3 DEF Next
<1>2. ASSUME SosNext PROVE log' = log /\ enough' \in BOOLEAN
  <2>1. \A how : Ends(how) => enough' \in BOOLEAN
    BY DEF Ends
  <2>2. \A f : EndsWithLines(f) => enough' \in BOOLEAN
    BY DEF EndsWithLines
  <2>3. ASSUME NEW report, TakesReply \/ ListPlugins(report)
        PROVE  log' = log /\ enough' \in BOOLEAN
    BY <2>1, <2>3 DEF TakesReply, ListPlugins
  <2>4. ASSUME NEW report, NEW plugin, ListCommands(report, plugin)
        PROVE  log' = log /\ enough' \in BOOLEAN
    BY <2>1, <2>4 DEF ListCommands
  <2>5. ASSUME NEW report, NEW pattern, NEW maxResults,
               SearchCommands(report, pattern, maxResults)
        PROVE  log' = log /\ enough' \in BOOLEAN
    <3>1. log' = log /\ \E how : Ends(how)
      BY <2>5 DEF SearchCommands
    <3> QED BY <2>1, <3>1
  <2>6. ASSUME NEW report, NEW path, NEW abs, NEW h, NEW content,
               GetCommand(report, path, abs, h, content)
        PROVE  log' = log /\ enough' \in BOOLEAN
    BY <2>1, <2>2, <2>6 DEF GetCommand
  <2>7. ASSUME NEW report, NEW namespace, NEW name, NEW container, NEW h, NEW content,
               SosGetPodLogs(report, namespace, name, container, h, content)
        PROVE  log' = log /\ enough' \in BOOLEAN
    <3>1. log' = log /\ ((\E how : Ends(how)) \/ \E f : EndsWithLines(f))
      BY <2>7 DEF SosGetPodLogs
    <3> QED BY <2>1, <2>2, <3>1
  <2> QED BY <1>2, <2>3, <2>4, <2>5, <2>6, <2>7 DEF SosNext, SosCall
<1>3. ASSUME ExecCall PROVE log' = log /\ enough' \in BOOLEAN
  BY <1>3 DEF ExecCall, Show, Get, ListLogicalFlows, Trace, Vsctl, Ofctl, Appctl, show,
              listBridges, listPorts, listInterfaces, dumpFlows, dumpConntrack,
              dumpOfprotoTrace, NoSuchAction, Tcpdump, Pwru, Text, Begin, OnNode
<1>4. ASSUME ExecStep \/ PodChanges \/ TakesAnswer PROVE log' = log /\ enough' \in BOOLEAN
  BY <1>4 DEF ExecStep, FetchPod, FetchPodFails, ExecOK, ExecFails, Runs, ReturnsError,
              PodChanges, TakesAnswer
<1> QED BY <1>1, <1>2, <1>3, <1>4 DEF TextNext, ExecNext

\* The type invariant of the tools that answer with lines.
THEOREM TypeCorrect == TextSpec => []TextTypeOK
<1> DEFINE Few == family \in {"logs", "exec", "sos"} /\ Len(log) <= MaxLog /\ enough \in BOOLEAN
<1>1. TextInit => Few
  <2> SUFFICES ASSUME TextInit PROVE Few
    OBVIOUS
  <2>1. family \in {"logs", "exec", "sos"}
    BY DEF TextInit
  <2>2. CASE family = "logs"
    <3>1. log = <<>> /\ enough = FALSE
      BY <2>2 DEF TextInit, Init
    <3>2. Len(log) = 0
      BY <3>1
    <3>3. Len(log) <= MaxLog
      BY <3>2, LinesAssumption
    <3>4. enough \in BOOLEAN
      BY <3>1, Zenon
    <3> QED BY <2>1, <3>3, <3>4, Zenon
  <2>3. CASE family # "logs"
    BY <2>1, <2>3, TextsAssumption DEF TextInit
  <2> QED BY <2>2, <2>3
<1>2. TextInv /\ Few /\ [TextNext]_textVars => Few'
  <2> SUFFICES ASSUME TextInv, Few, [TextNext]_textVars PROVE Few'
    OBVIOUS
  <2>1. CASE UNCHANGED textVars
    BY <2>1 DEF textVars, vars
  <2>2. CASE TextNext
    <3>1. family' = family
      BY <2>2 DEF TextNext
    <3>2. Len(log') <= MaxLog
      <4>1. CASE log' = log
        BY <4>1
      <4>2. CASE Write
        BY <4>2, LinesAssumption DEF Write, TextInv, LogInv
      <4> QED BY <2>2, <4>1, <4>2, TextsStay
    <3>3. enough' \in BOOLEAN
      BY <2>2, TextsStay
    <3> QED BY <3>1, <3>2, <3>3
  <2> QED BY <2>1, <2>2
<1>3. TextInv /\ SosInv /\ Few => TextTypeOK
  BY DEF TextInv, LogInv, AnswerStands, ExecInv, SosInv, TextTypeOK, TypeOK
<1> QED BY <1>1, <1>2, <1>3, TextInvariance, SosInvariance, PTL DEF TextSpec
=============================================================================
