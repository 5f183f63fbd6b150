------------------------------- MODULE TextProofs -------------------------------
(***************************************************************************)
(* What the functions of TextRules return, for texts, moments, tables and  *)
(* amounts of any size.  The induction over a text is stated with sets: a  *)
(* set of numbers that is not empty has a least one, since finite sets are *)
(* well founded under inclusion (FiniteSetTheorems).                       *)
(***************************************************************************)
EXTENDS TextRules, FiniteSetTheorems, SequenceTheorems, TLAPS

-----------------------------------------------------------------------------
(* Induction and recursion.                                                *)

LEMMA LeastSet ==
  ASSUME NEW S, NEW U, U \subseteq FiniteSubsetsOf(S), U # {}
  PROVE  \E A \in U : \A B \in U : B \subseteq A => B = A
  <1> DEFINE R == StrictSubsetOrdering(S)
             F == FiniteSubsetsOf(S)
  <1>1. IsWellFoundedOn(R, F)
    BY FS_StrictSubsetOrderingWellFounded
  <1>2. U \subseteq F
    OBVIOUS
  <1>3. \A A, B \in U : B \subseteq A /\ B # A => <<B, A>> \in R
    BY <1>2 DEF StrictSubsetOrdering, FiniteSubsetsOf
  <1> HIDE DEF R, F
  <1>4. \E x \in U : \A y \in U : ~ (<<y, x>> \in R)
    BY <1>1, <1>2, WFMin
  <1> QED BY <1>3, <1>4

LEMMA LeastNatural ==
  ASSUME NEW T \in SUBSET Nat, T # {}
  PROVE  \E x \in T : \A y \in T : x <= y
  <1> DEFINE U == {A \in SUBSET Nat : \E x \in T : A = 0..x}
  <1>1. ASSUME NEW A \in U
        PROVE  IsFiniteSet(A)
    <2>1. PICK x \in T : A = 0..x
      OBVIOUS
    <2> QED BY <2>1, FS_Interval, SMT
  <1>2. U \subseteq FiniteSubsetsOf(Nat)
    BY <1>1 DEF FiniteSubsetsOf
  <1>3. U # {}
    <2>1. PICK x \in T : TRUE
      OBVIOUS
    <2>2. 0..x \in U
      BY <2>1
    <2> QED BY <2>2
  <1>4. PICK A \in U : \A B \in U : B \subseteq A => B = A
    <2> HIDE DEF U
    <2> QED BY <1>2, <1>3, LeastSet
  <1>5. PICK x \in T : A = 0..x
    OBVIOUS
  <1>6. ASSUME NEW y \in T
        PROVE  x <= y
    <2>1. SUFFICES ASSUME y < x PROVE FALSE
      OBVIOUS
    <2>2. 0..y \subseteq 0..x /\ x \in 0..x /\ x \notin 0..y /\ 0..y \in U
      BY <2>1
    <2> QED BY <1>4, <1>5, <2>2
  <1> QED BY <1>6

\* What holds at 0, and at a number if it does at the one before, holds.
LEMMA Induction ==
  ASSUME NEW n \in Nat, NEW G, 0 \in G, \A i \in 1..n : i - 1 \in G => i \in G
  PROVE  0..n \subseteq G
  <1> SUFFICES ASSUME (0..n) \ G # {} PROVE FALSE
    OBVIOUS
  <1>1. PICK x \in (0..n) \ G : \A y \in (0..n) \ G : x <= y
    <2>1. (0..n) \ G \in SUBSET Nat
      OBVIOUS
    <2> QED BY <2>1, LeastNatural
  <1>2. x \in 1..n
    BY <1>1
  <1>3. x - 1 \in 0..n /\ ~(x <= x - 1)
    BY <1>2
  <1>4. x - 1 \in G
    BY <1>1, <1>3
  <1> QED BY <1>1, <1>2, <1>4

\* A function can be defined from place to place.
Steps(n, S, step)   == \A i \in 1..n, x \in S : step[i][x] \in S
Runs(g, n, S, c, step) == /\ g \in [0..n -> S] /\ g[0] = c
                          /\ \A i \in 1..n : g[i] = step[i][g[i - 1]]

LEMMA Recursion ==
  ASSUME NEW n \in Nat, NEW S, NEW c \in S, NEW step, Steps(n, S, step)
  PROVE  \E g : Runs(g, n, S, c, step)
  <1> DEFINE Defined(g, m) == /\ g \in [0..m -> S] /\ g[0] = c
                              /\ \A i \in 1..m : g[i] = step[i][g[i - 1]]
             G == {m \in 0..n : \E g : Defined(g, m)}
  <1>1. 0 \in G
    <2>1. Defined([i \in 0..0 |-> c], 0)
      OBVIOUS
    <2>2. 0 \in 0..n
      OBVIOUS
    <2> HIDE DEF Defined
    <2> QED BY <2>1, <2>2
  <1>2. ASSUME NEW m \in 1..n, m - 1 \in G
        PROVE  m \in G
    <2>1. PICK h : Defined(h, m - 1)
      BY <1>2
    <2>2. h[m - 1] \in S /\ m - 1 \in Nat /\ \A i \in 0..(m - 1) : h[i] \in S
      BY <2>1
    <2>3. step[m][h[m - 1]] \in S
      BY <2>2 DEF Steps
    <2> DEFINE g == [i \in 0..m |-> IF i = m THEN step[m][h[m - 1]] ELSE h[i]]
    <2>4. g \in [0..m -> S] /\ g[0] = c
      <3>1. \A i \in 0..m : i # m => i \in 0..(m - 1)
        OBVIOUS
      <3> QED BY <2>1, <2>2, <2>3, <3>1
    <2>5. ASSUME NEW i \in 1..m
          PROVE  g[i] = step[i][g[i - 1]]
      <3>1. i - 1 \in 0..m /\ i \in 0..m /\ i - 1 # m
        OBVIOUS
      <3>2. g[i - 1] = h[i - 1]
        BY <3>1
      <3>3. CASE i = m
        BY <3>1, <3>2, <3>3
      <3>4. CASE i # m
        <4>1. i \in 1..(m - 1)
          BY <3>4
        <4>2. h[i] = step[i][h[i - 1]]
          BY <2>1, <4>1
        <4> QED BY <3>1, <3>2, <3>4, <4>2
      <3> QED BY <3>3, <3>4
    <2>6. Defined(g, m)
      BY <2>4, <2>5
    <2> HIDE DEF Defined, g
    <2> QED BY <2>6
  <1>3. n \in G
    <2> HIDE DEF G
    <2> QED BY <1>1, <1>2, Induction
  <1> QED BY <1>3 DEF Runs

-----------------------------------------------------------------------------
(* Moments.                                                                *)

\* The text of a moment: as long as its fraction needs.
LEMMA TextOfInstant ==
  ASSUME NEW t \in Instants
  PROVE  LET s == RFC3339Nano(t)
         IN  /\ DOMAIN s = 1 .. Len(s) /\ Len(s) \in {2, 4, 5}
             /\ \A i \in DOMAIN s : s[i] \in Nat
             /\ s[1] = t.sec
             /\ Len(s) = 2 => t.tenth = 0 /\ t.hundredth = 0 /\ s[2] = 90
             /\ Len(s) = 4 => t.hundredth = 0 /\ s[2] = 46 /\ s[3] = 48 + t.tenth /\ s[4] = 90
             /\ Len(s) = 5 => s[2] = 46 /\ s[3] = 48 + t.tenth /\ s[4] = 48 + t.hundredth
  <1> SUFFICES ASSUME NEW s, s = RFC3339Nano(t)
               PROVE  /\ DOMAIN s = 1 .. Len(s) /\ Len(s) \in {2, 4, 5}
                      /\ \A i \in DOMAIN s : s[i] \in Nat
                      /\ s[1] = t.sec
                      /\ Len(s) = 2 => t.tenth = 0 /\ t.hundredth = 0 /\ s[2] = 90
                      /\ Len(s) = 4 => t.hundredth = 0 /\ s[2] = 46 /\ s[3] = 48 + t.tenth
                                       /\ s[4] = 90
                      /\ Len(s) = 5 => s[2] = 46 /\ s[3] = 48 + t.tenth
                                       /\ s[4] = 48 + t.hundredth
    OBVIOUS
  <1>1. t.sec \in Nat /\ t.tenth \in 0..9 /\ t.hundredth \in 0..9
    BY DEF Instants
  <1>2. CASE t.hundredth # 0
    <2>1. s = <<t.sec, 46, 48 + t.tenth, 48 + t.hundredth, 90>>
      BY <1>2 DEF RFC3339Nano, DotCode, ZeroCode, ZuluCode
    <2> QED BY <1>1, <1>2, <2>1
  <1>3. CASE t.hundredth = 0 /\ t.tenth # 0
    <2>1. s = <<t.sec, 46, 48 + t.tenth, 90>>
      BY <1>3 DEF RFC3339Nano, DotCode, ZeroCode, ZuluCode
    <2> QED BY <1>1, <1>3, <2>1
  <1>4. CASE t.hundredth = 0 /\ t.tenth = 0
    <2>1. s = <<t.sec, 90>>
      BY <1>4 DEF RFC3339Nano, DotCode, ZeroCode, ZuluCode
    <2> QED BY <1>1, <1>4, <2>1
  <1> QED BY <1>2, <1>3, <1>4

Differ(s, u, d) == /\ d \in DOMAIN s \cap DOMAIN u
                   /\ s[d] # u[d] /\ \A j \in 1..(d - 1) : s[j] = u[j]

\* Texts are compared where they first differ.
LEMMA FirstDifference ==
  ASSUME NEW s, NEW u, NEW n \in Nat, NEW m \in Nat, DOMAIN s = 1..n, DOMAIN u = 1..m,
         \A i \in 1..n : s[i] \in Nat, \A i \in 1..m : u[i] \in Nat,
         NEW d, Differ(s, u, d)
  PROVE  TextLess(s, u) <=> s[d] < u[d]
  <1>1. /\ d \in Nat /\ d \in DOMAIN s \cap DOMAIN u /\ s[d] # u[d] /\ d >= 1
        /\ \A j \in 1..(d - 1) : s[j] = u[j]
    BY DEF Differ
  <1>2. ASSUME TextLess(s, u)
        PROVE  s[d] < u[d]
    <2>1. PICK i \in DOMAIN s \cap DOMAIN u : s[i] < u[i] /\ \A j \in 1..(i - 1) : s[j] = u[j]
      BY <1>2 DEF TextLess
    <2>2. i \in Nat /\ i >= 1 /\ s[i] # u[i]
      BY <2>1
    <2>3. ~(d < i) /\ ~(i < d)
      BY <1>1, <2>1, <2>2
    <2>4. d = i
      BY <1>1, <2>2, <2>3
    <2> QED BY <2>1, <2>4
  <1>3. ASSUME s[d] < u[d]
        PROVE  TextLess(s, u)
    BY <1>1, <1>3 DEF TextLess
  <1> QED BY <1>2, <1>3

\* Different moments have texts that differ before either ends.
LEMMA TextsDiffer ==
  ASSUME NEW a \in Instants, NEW b \in Instants, a # b
  PROVE  \E d \in 1..4 : Differ(RFC3339Nano(a), RFC3339Nano(b), d)
  <1> SUFFICES ASSUME NEW s, s = RFC3339Nano(a), NEW u, u = RFC3339Nano(b)
               PROVE  \E d \in 1..4 : Differ(s, u, d)
    OBVIOUS
  <1> DEFINE n == Len(s)
             m == Len(u)
  <1>1. /\ DOMAIN s = 1..n /\ n \in {2, 4, 5} /\ s[1] = a.sec
        /\ n = 2 => a.tenth = 0 /\ a.hundredth = 0 /\ s[2] = 90
        /\ n = 4 => a.hundredth = 0 /\ s[2] = 46 /\ s[3] = 48 + a.tenth /\ s[4] = 90
        /\ n = 5 => s[2] = 46 /\ s[3] = 48 + a.tenth /\ s[4] = 48 + a.hundredth
    BY TextOfInstant
  <1>2. /\ DOMAIN u = 1..m /\ m \in {2, 4, 5} /\ u[1] = b.sec
        /\ m = 2 => b.tenth = 0 /\ b.hundredth = 0 /\ u[2] = 90
        /\ m = 4 => b.hundredth = 0 /\ u[2] = 46 /\ u[3] = 48 + b.tenth /\ u[4] = 90
        /\ m = 5 => u[2] = 46 /\ u[3] = 48 + b.tenth /\ u[4] = 48 + b.hundredth
    BY TextOfInstant
  <1> HIDE DEF n, m
  <1>3. /\ a.sec \in Nat /\ a.tenth \in 0..9 /\ a.hundredth \in 0..9
        /\ b.sec \in Nat /\ b.tenth \in 0..9 /\ b.hundredth \in 0..9
        /\ a.sec # b.sec \/ a.tenth # b.tenth \/ a.hundredth # b.hundredth
    BY DEF Instants
  <1>4. CASE a.sec # b.sec
    <2>1. Differ(s, u, 1)
      BY <1>1, <1>2, <1>4 DEF Differ
    <2> QED BY <2>1
  <1>5. CASE a.sec = b.sec /\ (n = 2 \/ m = 2)
    <2>1. ~(n = 2 /\ m = 2)
      BY <1>1, <1>2, <1>3, <1>5
    <2>2. 2 \in 1..n /\ 2 \in 1..m
      BY <1>1, <1>2
    <2>3. s[2] # u[2]
      <3>1. s[2] \in {46, 90} /\ u[2] \in {46, 90} /\ (s[2] = 90 <=> n = 2)
            /\ (u[2] = 90 <=> m = 2)
        BY <1>1, <1>2
      <3> QED BY <1>5, <2>1, <3>1
    <2>4. Differ(s, u, 2)
      BY <1>1, <1>2, <1>5, <2>2, <2>3 DEF Differ
    <2> QED BY <2>4
  <1>6. CASE a.sec = b.sec /\ n # 2 /\ m # 2 /\ a.tenth # b.tenth
    <2>1. 3 \in 1..n /\ 3 \in 1..m
      BY <1>1, <1>2, <1>6
    <2>2. s[1] = u[1] /\ s[2] = u[2] /\ s[3] = 48 + a.tenth /\ u[3] = 48 + b.tenth
      BY <1>1, <1>2, <1>6
    <2>3. s[3] # u[3]
      BY <1>3, <1>6, <2>2
    <2>4. \A j \in 1..2 : s[j] = u[j]
      BY <2>2
    <2>5. Differ(s, u, 3)
      BY <1>1, <1>2, <2>1, <2>3, <2>4 DEF Differ
    <2> QED BY <2>5
  <1>7. CASE a.sec = b.sec /\ n # 2 /\ m # 2 /\ a.tenth = b.tenth
    <2>1. a.hundredth # b.hundredth
      BY <1>3, <1>7
    <2>2. s[4] # u[4]
      <3>1. \/ s[4] = 90 /\ a.hundredth = 0
            \/ s[4] = 48 + a.hundredth
        BY <1>1, <1>7
      <3>2. \/ u[4] = 90 /\ b.hundredth = 0
            \/ u[4] = 48 + b.hundredth
        BY <1>2, <1>7
      <3> QED BY <1>3, <2>1, <3>1, <3>2
    <2>3. 4 \in 1..n /\ 4 \in 1..m
      BY <1>1, <1>2, <1>7
    <2>4. s[1] = u[1] /\ s[2] = u[2] /\ s[3] = u[3]
      BY <1>1, <1>2, <1>7
    <2>5. \A j \in 1..3 : s[j] = u[j]
      BY <2>4
    <2>6. Differ(s, u, 4)
      BY <1>1, <1>2, <2>2, <2>3, <2>5 DEF Differ
    <2> QED BY <2>6
  <1> QED BY <1>4, <1>5, <1>6, <1>7

\* What the comparison of texts says of two moments.
LEMMA OrderOfTexts ==
  ASSUME NEW a \in Instants, NEW b \in Instants
  PROVE  /\ (RFC3339Nano(a) = RFC3339Nano(b)) <=> (a = b)
         /\ a # b => (TextLess(RFC3339Nano(a), RFC3339Nano(b))
                        <=> ~TextLess(RFC3339Nano(b), RFC3339Nano(a)))
         /\ a.sec # b.sec =>
              (TextLess(RFC3339Nano(a), RFC3339Nano(b)) <=> Earlier(a, b))
  <1> SUFFICES ASSUME a # b
               PROVE  /\ RFC3339Nano(a) # RFC3339Nano(b)
                      /\ TextLess(RFC3339Nano(a), RFC3339Nano(b))
                           <=> ~TextLess(RFC3339Nano(b), RFC3339Nano(a))
                      /\ a.sec # b.sec =>
                           (TextLess(RFC3339Nano(a), RFC3339Nano(b)) <=> Earlier(a, b))
    OBVIOUS
  <1> SUFFICES ASSUME NEW s, s = RFC3339Nano(a), NEW u, u = RFC3339Nano(b)
               PROVE  /\ s # u
                      /\ TextLess(s, u) <=> ~TextLess(u, s)
                      /\ a.sec # b.sec => (TextLess(s, u) <=> Earlier(a, b))
    OBVIOUS
  <1>1. /\ DOMAIN s = 1 .. Len(s) /\ Len(s) \in Nat /\ 1 \in DOMAIN s
        /\ \A i \in 1 .. Len(s) : s[i] \in Nat
        /\ s[1] = a.sec
    BY TextOfInstant
  <1>2. /\ DOMAIN u = 1 .. Len(u) /\ Len(u) \in Nat /\ 1 \in DOMAIN u
        /\ \A i \in 1 .. Len(u) : u[i] \in Nat
        /\ u[1] = b.sec
    BY TextOfInstant
  <1>3. PICK d \in 1..4 : Differ(s, u, d)
    BY TextsDiffer
  <1>4. s # u /\ Differ(u, s, d) /\ s[d] \in Nat /\ u[d] \in Nat /\ s[d] # u[d]
    BY <1>1, <1>2, <1>3 DEF Differ
  <1>5. (TextLess(s, u) <=> s[d] < u[d]) /\ (TextLess(u, s) <=> u[d] < s[d])
    BY <1>1, <1>2, <1>3, <1>4, FirstDifference
  <1>6. a.sec # b.sec => (TextLess(s, u) <=> Earlier(a, b))
    <2>1. a.sec # b.sec => Differ(s, u, 1)
      BY <1>1, <1>2 DEF Differ
    <2>2. a.sec # b.sec => (TextLess(s, u) <=> a.sec < b.sec)
      BY <1>1, <1>2, <2>1, FirstDifference
    <2> QED BY <2>2 DEF Earlier
  <1> QED BY <1>4, <1>5, <1>6

-----------------------------------------------------------------------------
MomentsCalled == call.fn = "RFC3339Nano" => call.a \in Instants /\ call.b \in Instants

(* The database orders moments rightly to the second by comparing their    *)
(* texts, and finds every difference between them (RFC3339Nano): for every *)
(* second and fraction (OrderOfTexts), and so in every call.               *)
THEOREM TextsKeepTime == TextSpec => []TextOrderToTheSecond
  <1>1. call = NoCall => MomentsCalled
    BY DEF NoCall, MomentsCalled
  <1>2. MomentsCalled /\ [Call]_call => MomentsCalled'
    <2> SUFFICES ASSUME MomentsCalled, [Call]_call
                 PROVE  MomentsCalled'
      OBVIOUS
    <2>1. CASE call' = call
      BY <2>1 DEF MomentsCalled
    <2>2. CASE CallText
      BY <2>2, TextAssumption DEF CallText, MomentsCalled
    <2>3. ASSUME NEW fn \in Lists, NEW f, NEW table, NEW limit, CallList(fn, f, table, limit)
          PROVE  MomentsCalled'
      BY <2>3, TextAssumption DEF CallList, Reads, MomentsCalled, Lists
    <2>4. ASSUME call.fn \in Lists, NEW table, NextPage(table)
          PROVE  MomentsCalled'
      BY <2>4, TextAssumption DEF NextPage, Reads, MomentsCalled, Lists
    <2> QED BY <2>1, <2>2, <2>3, <2>4 DEF Call
  <1>3. MomentsCalled => TextOrderToTheSecond
    <2> SUFFICES ASSUME call.fn = "RFC3339Nano", NEW a \in Instants, a = call.a,
                        NEW b \in Instants, b = call.b
                 PROVE  TextOrderToTheSecond
      BY DEF MomentsCalled, TextOrderToTheSecond
    <2> DEFINE s == RFC3339Nano(a)
               u == RFC3339Nano(b)
    <2>1. (s = u) = (a = b)
      BY OrderOfTexts
    <2>2. a # b => TextLess(s, u) # TextLess(u, s)
      <3>1. TextLess(s, u) \in BOOLEAN /\ TextLess(u, s) \in BOOLEAN
        BY DEF TextLess
      <3> QED BY <3>1, OrderOfTexts
    <2>3. a.sec # b.sec => TextLess(s, u) = Earlier(a, b)
      <3>1. TextLess(s, u) \in BOOLEAN /\ Earlier(a, b) \in BOOLEAN
        BY DEF TextLess, Earlier
      <3> QED BY <3>1, OrderOfTexts
    <2> QED BY <2>1, <2>2, <2>3 DEF TextOrderToTheSecond
  <1> QED BY <1>1, <1>2, <1>3, PTL DEF TextSpec

-----------------------------------------------------------------------------
(* Amounts.                                                                *)

Readings == [separator: Separators \cup {"none"}, length: Nat, groups: Nat, value: Nat,
             bad: BOOLEAN]

LEMMA ReadingFields ==
  ASSUME NEW s \in Readings
  PROVE  /\ s.separator \in Separators \cup {"none"} /\ s.length \in Nat /\ s.groups \in Nat
         /\ s.value \in Nat /\ s.bad \in BOOLEAN
  BY DEF Readings

LEMMA AfterDigit ==
  ASSUME NEW s \in Readings, NEW d \in Nat
  PROVE  LET t == CountDigit(s, d)
         IN  /\ t \in Readings /\ t.bad = s.bad /\ t.separator = s.separator
             /\ t.groups = s.groups /\ t.length = s.length + 1 /\ t.value = 10 * s.value + d
  <1>1. s.length + 1 \in Nat /\ 10 * s.value + d \in Nat
    BY ReadingFields
  <1> QED BY <1>1 DEF Readings, CountDigit

LEMMA AfterSeparator ==
  ASSUME NEW s \in Readings, NEW ch \in Separators
  PROVE  LET t == NextGroup(s, ch)
         IN  /\ t \in Readings /\ t.bad = s.bad /\ t.separator = ch
             /\ t.groups = s.groups + 1 /\ t.length = 0 /\ t.value = s.value
  <1>1. s.groups + 1 \in Nat
    BY ReadingFields
  <1> QED BY <1>1 DEF Readings, NextGroup

\* What a turn of the loop does to a reading, field by field.
LEMMA OneTurn ==
  ASSUME NEW s \in Readings, NEW ch, NEW t, t = ScanGroup(s, ch)
  PROVE  /\ t \in Readings
         /\ s.bad => t = s
         /\ ~s.bad /\ IsDigit(ch) =>
              /\ ~t.bad /\ t.separator = s.separator /\ t.groups = s.groups
              /\ t.length = s.length + 1 /\ t.value = 10 * s.value + DigitChars[ch]
         /\ ~s.bad /\ ~IsDigit(ch) /\ EndsGroup(s, ch) =>
              /\ ~t.bad /\ t.separator = ch /\ t.groups = s.groups + 1
              /\ t.length = 0 /\ t.value = s.value
         /\ ~s.bad /\ ~IsDigit(ch) /\ ~EndsGroup(s, ch) => t.bad
  <1>1. CASE s.bad
    BY <1>1 DEF ScanGroup
  <1>2. CASE ~s.bad /\ IsDigit(ch)
    <2>1. DigitChars[ch] \in Nat
      BY <1>2, TextAssumption DEF IsDigit
    <2>2. PICK d \in Nat : d = DigitChars[ch]
      BY <2>1
    <2>3. t = CountDigit(s, d)
      BY <1>2, <2>2 DEF ScanGroup
    <2>4. /\ t \in Readings /\ t.bad = s.bad /\ t.separator = s.separator
          /\ t.groups = s.groups /\ t.length = s.length + 1 /\ t.value = 10 * s.value + d
      BY <2>3, AfterDigit
    <2> QED BY <1>2, <2>2, <2>4
  <1>3. CASE ~s.bad /\ ~IsDigit(ch) /\ EndsGroup(s, ch)
    <2>1. ch \in Separators
      BY <1>3 DEF EndsGroup
    <2>2. t = NextGroup(s, ch)
      BY <1>3 DEF ScanGroup
    <2> QED BY <1>3, <2>1, <2>2, AfterSeparator
  <1>4. CASE ~s.bad /\ ~IsDigit(ch) /\ ~EndsGroup(s, ch)
    <2>1. t = Refused(s)
      BY <1>4 DEF ScanGroup
    <2>2. Refused(s) \in Readings /\ Refused(s).bad
      BY DEF Readings, Refused
    <2> QED BY <1>4, <2>1, <2>2
  <1> QED BY <1>1, <1>2, <1>3, <1>4

LEMMA NothingReadYet == NothingRead \in Readings
  BY DEF NothingRead, Readings

\* The loop runs over the text from its first place to its last.
LEMMA ScanRuns ==
  ASSUME NEW n \in Nat, NEW raw, Len(raw) = n
  PROVE  /\ Scan(raw)[0] = NothingRead
         /\ \A i \in 1..n : Scan(raw)[i] = ScanGroup(Scan(raw)[i - 1], raw[i])
  <1> DEFINE IsScan(f) ==
               f = [i \in 0..Len(raw) |->
                      IF i = 0 THEN NothingRead ELSE ScanGroup(f[i - 1], raw[i])]
             step == [i \in 1..n |-> [s \in Readings |-> ScanGroup(s, raw[i])]]
  <1>1. \A i \in 1..n, s \in Readings : step[i][s] = ScanGroup(s, raw[i])
    OBVIOUS
  <1>2. Steps(n, Readings, step)
    BY <1>1, OneTurn DEF Steps
  <1> HIDE DEF step
  <1>3. \E g : Runs(g, n, Readings, NothingRead, step)
    BY <1>2, NothingReadYet, Recursion
  <1> PICK g : Runs(g, n, Readings, NothingRead, step)
    BY <1>3
  <1>4. \A i \in 1..n : g[i] = ScanGroup(g[i - 1], raw[i])
    <2> SUFFICES ASSUME NEW i \in 1..n PROVE g[i] = ScanGroup(g[i - 1], raw[i])
      OBVIOUS
    <2>1. g[i - 1] \in Readings
      BY DEF Runs
    <2> QED BY <1>1, <2>1 DEF Runs
  <1>5. IsScan(g)
    <2>1. \A i \in 0..n : i # 0 => i \in 1..n
      OBVIOUS
    <2> QED BY <1>4, <2>1 DEF Runs
  <1>6. Scan(raw) = CHOOSE f : IsScan(f)
    BY DEF Scan
  <1>7. IsScan(Scan(raw))
    <2> HIDE DEF IsScan
    <2> QED BY <1>5, <1>6
  <1>8. \A i \in 1..n : i \in 0..n /\ i # 0
    OBVIOUS
  <1> QED BY <1>7, <1>8

LEMMA ValueRuns ==
  ASSUME NEW n \in Nat, NEW raw, Len(raw) = n
  PROVE  /\ DigitsValue(raw)[0] = 0
         /\ \A i \in 1..n : DigitsValue(raw)[i] =
              IF IsDigit(raw[i]) THEN 10 * DigitsValue(raw)[i - 1] + DigitChars[raw[i]]
              ELSE DigitsValue(raw)[i - 1]
  <1> DEFINE Next1(v, i) == IF IsDigit(raw[i]) THEN 10 * v + DigitChars[raw[i]] ELSE v
             IsValue(f) == f = [i \in 0..Len(raw) |-> IF i = 0 THEN 0 ELSE Next1(f[i - 1], i)]
             step == [i \in 1..n |-> [v \in Nat |-> Next1(v, i)]]
  <1>1. \A i \in 1..n, v \in Nat : step[i][v] = Next1(v, i)
    OBVIOUS
  <1>2. Steps(n, Nat, step)
    <2> SUFFICES ASSUME NEW i \in 1..n, NEW v \in Nat PROVE Next1(v, i) \in Nat
      BY <1>1 DEF Steps
    <2>1. IsDigit(raw[i]) => DigitChars[raw[i]] \in Nat
      BY TextAssumption DEF IsDigit
    <2> QED BY <2>1
  <1> HIDE DEF step, Next1
  <1>3. \E g : Runs(g, n, Nat, 0, step)
    BY <1>2, Recursion
  <1> PICK g : Runs(g, n, Nat, 0, step)
    BY <1>3
  <1>4. \A i \in 1..n : g[i] = Next1(g[i - 1], i)
    <2> SUFFICES ASSUME NEW i \in 1..n PROVE g[i] = Next1(g[i - 1], i)
      OBVIOUS
    <2>1. g[i - 1] \in Nat
      BY DEF Runs
    <2> QED BY <1>1, <2>1 DEF Runs
  <1>5. IsValue(g)
    <2>1. \A i \in 0..n : i # 0 => i \in 1..n
      OBVIOUS
    <2> QED BY <1>4, <2>1 DEF Runs
  <1>6. DigitsValue(raw) = CHOOSE f : IsValue(f)
    BY DEF DigitsValue, Next1
  <1>7. IsValue(DigitsValue(raw))
    <2> HIDE DEF IsValue
    <2> QED BY <1>5, <1>6
  <1>8. \A i \in 1..n : i \in 0..n /\ i # 0
    OBVIOUS
  <1>9. /\ DigitsValue(raw)[0] = 0
        /\ \A i \in 1..n : DigitsValue(raw)[i] = Next1(DigitsValue(raw)[i - 1], i)
    BY <1>7, <1>8
  <1> QED BY <1>9 DEF Next1

\* A separator stands at p and at every fourth place before it, down to one of
\* the places 2 to 4, and digits stand at the other places up to i.
GroupsUpTo(raw, p, i, sep) ==
    /\ p \in 2..i /\ sep \in Separators
    /\ \A j \in 1..i : IF j <= p /\ (p - j) % 4 = 0 THEN j > 1 /\ raw[j] = sep
                       ELSE IsDigit(raw[j])

\* What a reading says of the first i characters of raw, and of raw.
Tells(s, raw, i) ==
    /\ s \in Readings
    /\ ~s.bad =>
         /\ s.value = DigitsValue(raw)[i]
         /\ s.groups = 0 => s.length = i /\ \A j \in 1..i : IsDigit(raw[j])
         /\ s.groups > 0 => GroupsUpTo(raw, i - s.length, i, s.separator)
    /\ s.bad => ~Plain(raw) /\ ~Grouped(raw)

LEMMA SeparatorsAreNoDigits ==
  ASSUME NEW sep \in Separators
  PROVE  ~IsDigit(sep)
  BY TextAssumption DEF IsDigit

LEMMA Quarters ==
  ASSUME NEW a \in Int, NEW b \in Int, a % 4 = 0
  PROVE  /\ (a - b) % 4 = 0 <=> b % 4 = 0
         /\ (a + b) % 4 = 0 <=> b % 4 = 0
         /\ (b + 4) % 4 = 0 <=> b % 4 = 0
         /\ b % 4 = 0 /\ b > 0 /\ b # 4 => b >= 8
  OBVIOUS

\* A text with a digit where a separator would have to be is not grouped.
LEMMA DigitForSeparator ==
  ASSUME NEW n \in Nat, NEW raw, Len(raw) = n, DOMAIN raw = 1..n,
         NEW i \in 1..n, ~IsDigit(raw[i]),
         NEW j \in 1..n, IsDigit(raw[j]), (i - j) % 4 = 0
  PROVE  ~Grouped(raw)
  <1> SUFFICES ASSUME NEW sep \in Separators,
                      \A k \in 1..n : IF (n - k + 1) % 4 = 0 THEN k > 1 /\ raw[k] = sep
                                      ELSE IsDigit(raw[k])
               PROVE  FALSE
    BY DEF Grouped
  <1>1. (n - i + 1) % 4 = 0
    OBVIOUS
  <1>2. (n - j + 1) % 4 = 0
    <2>1. (n - i + 1) + (i - j) = n - j + 1 /\ n - i + 1 \in Int /\ i - j \in Int
      OBVIOUS
    <2> QED BY <1>1, <2>1, Quarters
  <1> QED BY <1>2, SeparatorsAreNoDigits

\* Of two separators in a grouped text, one is the other.
LEMMA OneSeparator ==
  ASSUME NEW n \in Nat, NEW raw, Len(raw) = n, DOMAIN raw = 1..n, Grouped(raw),
         NEW i \in 1..n, ~IsDigit(raw[i]), NEW j \in 1..n, ~IsDigit(raw[j])
  PROVE  i > 1 /\ raw[i] \in Separators /\ raw[i] = raw[j] /\ (i - j) % 4 = 0
         /\ (n - i + 1) % 4 = 0
  <1> PICK sep \in Separators :
             \A k \in 1..n : IF (n - k + 1) % 4 = 0 THEN k > 1 /\ raw[k] = sep
                             ELSE IsDigit(raw[k])
    BY DEF Grouped
  <1>1. (n - i + 1) % 4 = 0 /\ (n - j + 1) % 4 = 0
    OBVIOUS
  <1>2. (n - j + 1) - (n - i + 1) = i - j /\ n - i + 1 \in Int /\ n - j + 1 \in Int
    OBVIOUS
  <1>3. (i - j) % 4 = 0
    BY <1>1, <1>2, Quarters
  <1> QED BY <1>1, <1>3

\* A separator that does not end a group makes the text no amount.
LEMMA RefusedRightly ==
  ASSUME NEW n \in Nat, NEW raw, Len(raw) = n, DOMAIN raw = 1..n,
         NEW i \in 1..n, NEW s, Tells(s, raw, i - 1), ~s.bad,
         ~IsDigit(raw[i]), ~EndsGroup(s, raw[i])
  PROVE  ~Plain(raw) /\ ~Grouped(raw)
  <1>1. ~Plain(raw)
    BY DEF Plain
  <1> SUFFICES ASSUME Grouped(raw) PROVE FALSE
    BY <1>1
  <1>2. i > 1 /\ raw[i] \in Separators
    BY OneSeparator
  <1>3. s.groups \in Nat /\ s.length \in Nat
    BY ReadingFields DEF Tells
  <1>4. CASE s.groups = 0
    <2>1. s.length = i - 1 /\ \A j \in 1..(i - 1) : IsDigit(raw[j])
      BY <1>4 DEF Tells
    <2>2. i - 1 \notin 1..3
      BY <1>2, <1>4, <2>1 DEF EndsGroup
    <2>3. i - 4 \in 1..n /\ i - 4 \in 1..(i - 1) /\ (i - (i - 4)) % 4 = 0
      BY <1>2, <2>2
    <2> QED BY <2>1, <2>3, DigitForSeparator
  <1>5. CASE s.groups > 0
    <2> DEFINE p == i - 1 - s.length
    <2>1. GroupsUpTo(raw, p, i - 1, s.separator)
      BY <1>5 DEF Tells
    <2> HIDE DEF p
    <2>2. p \in 2..(i - 1) /\ p \in 1..n /\ p <= p /\ (p - p) % 4 = 0
      BY <2>1 DEF GroupsUpTo
    <2>3. raw[p] = s.separator /\ ~IsDigit(raw[p])
      BY <2>1, <2>2, SeparatorsAreNoDigits DEF GroupsUpTo
    <2>4. raw[i] = s.separator /\ (i - p) % 4 = 0
      BY <2>2, <2>3, OneSeparator
    <2>5. s.length # 3
      BY <1>2, <1>5, <2>4 DEF EndsGroup
    <2>6. i - p \in Int /\ i - p > 0 /\ i - p # 4
      BY <1>3, <2>2, <2>5 DEF p
    <2>7. i - p >= 8
      BY <2>4, <2>6, Quarters
    <2>8. /\ i - 4 \in 1..n /\ i - 4 \in 1..(i - 1) /\ ~(i - 4 <= p)
          /\ (i - (i - 4)) % 4 = 0
      BY <2>2, <2>7
    <2>9. IsDigit(raw[i - 4])
      BY <2>1, <2>8 DEF GroupsUpTo
    <2> QED BY <2>8, <2>9, DigitForSeparator
  <1> QED BY <1>3, <1>4, <1>5

\* What the reading tells is true after every turn.
LEMMA TurnTells ==
  ASSUME NEW n \in Nat, NEW raw, Len(raw) = n, DOMAIN raw = 1..n,
         NEW i \in 1..n, NEW s, Tells(s, raw, i - 1)
  PROVE  Tells(ScanGroup(s, raw[i]), raw, i)
  <1> PICK t : t = ScanGroup(s, raw[i])
    OBVIOUS
  <1>1. s \in Readings /\ t \in Readings
    BY OneTurn DEF Tells
  <1>2. s.groups \in Nat /\ s.length \in Nat
    BY <1>1, ReadingFields
  <1>3. CASE s.bad
    BY <1>1, <1>3, OneTurn DEF Tells
  <1>4. CASE ~s.bad /\ IsDigit(raw[i])
    <2>1. /\ ~t.bad /\ t.separator = s.separator /\ t.groups = s.groups
          /\ t.length = s.length + 1 /\ t.value = 10 * s.value + DigitChars[raw[i]]
      BY <1>1, <1>4, OneTurn
    <2>2. t.value = DigitsValue(raw)[i]
      BY <1>4, <2>1, ValueRuns DEF Tells
    <2>3. ASSUME t.groups = 0
          PROVE  t.length = i /\ \A j \in 1..i : IsDigit(raw[j])
      <3>1. s.length = i - 1 /\ \A j \in 1..(i - 1) : IsDigit(raw[j])
        BY <1>4, <2>1, <2>3 DEF Tells
      <3> QED BY <1>4, <2>1, <3>1
    <2>4. ASSUME t.groups > 0
          PROVE  GroupsUpTo(raw, i - t.length, i, t.separator)
      <3>1. GroupsUpTo(raw, i - 1 - s.length, i - 1, s.separator)
        BY <1>4, <2>1, <2>4 DEF Tells
      <3>2. i - t.length = i - 1 - s.length
        BY <1>2, <2>1
      <3>3. PICK p : p = i - t.length
        OBVIOUS
      <3>4. GroupsUpTo(raw, p, i - 1, t.separator)
        BY <2>1, <3>1, <3>2, <3>3
      <3>5. p \in 2..(i - 1) /\ p \in 2..i /\ ~(i <= p)
        BY <3>4 DEF GroupsUpTo
      <3>6. GroupsUpTo(raw, p, i, t.separator)
        BY <1>4, <3>4, <3>5 DEF GroupsUpTo
      <3> QED BY <3>3, <3>6
    <2> QED BY <1>1, <2>1, <2>2, <2>3, <2>4 DEF Tells
  <1>5. CASE ~s.bad /\ ~IsDigit(raw[i]) /\ EndsGroup(s, raw[i])
    <2>1. /\ ~t.bad /\ t.separator = raw[i] /\ t.groups = s.groups + 1
          /\ t.length = 0 /\ t.value = s.value
      BY <1>1, <1>5, OneTurn
    <2>2. t.value = DigitsValue(raw)[i]
      BY <1>5, <2>1, ValueRuns DEF Tells
    <2>3. raw[i] \in Separators
      BY <1>5 DEF EndsGroup
    <2>4. GroupsUpTo(raw, i, i, raw[i])
      <3>1. CASE s.groups = 0
        <4>1. s.length = i - 1 /\ \A j \in 1..(i - 1) : IsDigit(raw[j])
          BY <1>5, <3>1 DEF Tells
        <4>2. i \in 2..4
          BY <1>5, <3>1, <4>1 DEF EndsGroup
        <4>3. ASSUME NEW j \in 1..i, (i - j) % 4 = 0
              PROVE  j = i
          BY <4>2, <4>3
        <4>4. ASSUME NEW j \in 1..i
              PROVE  IF j <= i /\ (i - j) % 4 = 0 THEN j > 1 /\ raw[j] = raw[i]
                     ELSE IsDigit(raw[j])
          <5>1. CASE j = i
            BY <4>2, <5>1
          <5>2. CASE j # i
            BY <4>1, <4>3, <5>2
          <5> QED BY <5>1, <5>2
        <4>5. i \in 2..i
          BY <4>2
        <4> QED BY <2>3, <4>4, <4>5 DEF GroupsUpTo
      <3>2. CASE s.groups > 0
        <4>1. s.length = 3 /\ s.separator = raw[i]
          BY <1>5, <3>2 DEF EndsGroup
        <4>2. GroupsUpTo(raw, i - 4, i - 1, raw[i])
          BY <1>5, <3>2, <4>1 DEF Tells
        <4>3. ASSUME NEW j \in 1..(i - 1)
              PROVE  (i - j) % 4 = 0 <=> j <= i - 4 /\ (i - 4 - j) % 4 = 0
          <5>1. (i - 4 - j) + 4 = i - j /\ i - 4 - j \in Int
            OBVIOUS
          <5>2. (i - j) % 4 = 0 <=> (i - 4 - j) % 4 = 0
            OBVIOUS
          <5>3. (i - j) % 4 = 0 => j <= i - 4
            OBVIOUS
          <5> QED BY <5>2, <5>3
        <4>4. i - 4 \in 2..(i - 1) /\ i \in 2..i
          BY <4>2 DEF GroupsUpTo
        <4>5. ASSUME NEW j \in 1..i
              PROVE  IF j <= i /\ (i - j) % 4 = 0 THEN j > 1 /\ raw[j] = raw[i]
                     ELSE IsDigit(raw[j])
          <5>1. CASE j = i
            BY <4>4, <5>1
          <5>2. CASE j # i
            <6>1. j \in 1..(i - 1) /\ j <= i
              BY <5>2
            <6> QED BY <4>2, <4>3, <6>1 DEF GroupsUpTo
          <5> QED BY <5>1, <5>2
        <4> QED BY <2>3, <4>4, <4>5 DEF GroupsUpTo
      <3> QED BY <1>2, <3>1, <3>2
    <2>5. i - t.length = i /\ t.groups > 0 /\ t.groups # 0
      BY <1>2, <2>1
    <2> QED BY <1>1, <2>1, <2>2, <2>4, <2>5 DEF Tells
  <1>6. CASE ~s.bad /\ ~IsDigit(raw[i]) /\ ~EndsGroup(s, raw[i])
    <2>1. t.bad
      BY <1>1, <1>6, OneTurn
    <2> QED BY <1>1, <1>6, <2>1, RefusedRightly DEF Tells
  <1> QED BY <1>3, <1>4, <1>5, <1>6

LEMMA ScanTells ==
  ASSUME NEW n \in Nat, NEW raw, Len(raw) = n, DOMAIN raw = 1..n
  PROVE  Tells(Scan(raw)[n], raw, n)
  <1> DEFINE G == {i \in 0..n : Tells(Scan(raw)[i], raw, i)}
  <1>1. 0 \in G
    <2>1. Scan(raw)[0] = NothingRead /\ DigitsValue(raw)[0] = 0
      BY ScanRuns, ValueRuns
    <2>2. Tells(NothingRead, raw, 0)
      BY <2>1, NothingReadYet DEF Tells, NothingRead
    <2> QED BY <2>1, <2>2
  <1>2. ASSUME NEW i \in 1..n, i - 1 \in G
        PROVE  i \in G
    <2>1. Scan(raw)[i] = ScanGroup(Scan(raw)[i - 1], raw[i])
      BY ScanRuns
    <2>2. Tells(Scan(raw)[i - 1], raw, i - 1)
      BY <1>2
    <2> HIDE DEF G
    <2>3. Tells(Scan(raw)[i], raw, i)
      BY <2>1, <2>2, TurnTells
    <2> QED BY <2>3 DEF G
  <1>3. 0..n \subseteq G
    <2> HIDE DEF G
    <2> QED BY <1>1, <1>2, Induction
  <1> QED BY <1>3

\* The scanner reads a text of any length as the amount that it is.
LEMMA TextsReadRight ==
  ASSUME NEW n \in Nat, NEW raw, Len(raw) = n, DOMAIN raw = 1..n
  PROVE  parseAmountVND(raw) = AmountOf(raw)
  <1> DEFINE end == Scan(raw)[n]
             value == DigitsValue(raw)[n]
  <1>1. Tells(end, raw, n)
    BY ScanTells
  <1> HIDE DEF end, value
  <1>2. /\ end \in Readings /\ end.groups \in Nat /\ end.length \in Nat /\ end.value \in Nat
        /\ MaxAmountVND \in Nat
    BY <1>1, ReadingFields, TextAssumption DEF Tells
  <1>3. ASSUME end.bad
        PROVE  ~Plain(raw) /\ ~Grouped(raw)
    BY <1>1, <1>3 DEF Tells
  <1>4. ASSUME ~end.bad
        PROVE  end.value = value
    BY <1>1, <1>4 DEF Tells, value
  <1>5. ASSUME ~end.bad, end.groups = 0
        PROVE  Plain(raw)
    BY <1>1, <1>5 DEF Tells, Plain
  <1>6. ASSUME ~end.bad, end.groups > 0, end.length = 3
        PROVE  Grouped(raw)
    <2>1. GroupsUpTo(raw, n - 3, n, end.separator)
      BY <1>1, <1>6 DEF Tells
    <2>2. ASSUME NEW j \in 1..n
          PROVE  IF (n - j + 1) % 4 = 0 THEN j > 1 /\ raw[j] = end.separator
                 ELSE IsDigit(raw[j])
      <3>1. (n - j + 1) % 4 = 0 <=> j <= n - 3 /\ (n - 3 - j) % 4 = 0
        OBVIOUS
      <3> QED BY <2>1, <3>1 DEF GroupsUpTo
    <2>3. end.separator \in Separators
      BY <2>1 DEF GroupsUpTo
    <2> QED BY <2>2, <2>3 DEF Grouped
  <1>7. ASSUME ~end.bad, end.groups > 0, end.length # 3
        PROVE  ~Plain(raw) /\ ~Grouped(raw)
    <2> DEFINE p == n - end.length
    <2>1. GroupsUpTo(raw, p, n, end.separator)
      BY <1>1, <1>7 DEF Tells
    <2> HIDE DEF p
    <2>2. p \in 2..n /\ p \in 1..n /\ p <= p /\ (p - p) % 4 = 0
      BY <2>1 DEF GroupsUpTo
    <2>3. ~IsDigit(raw[p])
      BY <2>1, <2>2, SeparatorsAreNoDigits DEF GroupsUpTo
    <2>4. ASSUME Grouped(raw)
          PROVE  FALSE
      <3>1. (n - p + 1) % 4 = 0
        BY <2>2, <2>3, <2>4, OneSeparator
      <3>2. n - p + 1 \in Int /\ n - p + 1 > 0 /\ n - p + 1 # 4
        BY <1>2, <1>7, <2>2 DEF p
      <3>3. n - p + 1 >= 8
        BY <3>1, <3>2, Quarters
      <3>4. n - 3 \in 1..n /\ ~(n - 3 <= p)
        BY <2>2, <3>3
      <3>5. IsDigit(raw[n - 3])
        BY <2>1, <3>4 DEF GroupsUpTo
      <3>6. (p - (n - 3)) % 4 = 0
        BY <2>2, <3>1
      <3> QED BY <2>2, <2>3, <2>4, <3>4, <3>5, <3>6, DigitForSeparator
    <2> QED BY <2>2, <2>3, <2>4 DEF Plain
  <1>8. parseAmountVND(raw) =
          IF raw = <<>> \/ end.bad \/ (end.groups > 0 /\ end.length # 3)
             \/ end.value \notin 1..MaxAmountVND
          THEN 0 ELSE end.value
    BY DEF parseAmountVND, InvalidAmount, end
  <1>9. AmountOf(raw) =
          IF raw # <<>> /\ (Plain(raw) \/ Grouped(raw)) /\ value <= MaxAmountVND
          THEN value ELSE 0
    BY DEF AmountOf, InvalidAmount, value
  <1>10. CASE ~end.bad /\ (end.groups = 0 \/ end.length = 3)
    <2>1. Plain(raw) \/ Grouped(raw)
      BY <1>2, <1>5, <1>6, <1>10
    <2> QED BY <1>2, <1>4, <1>8, <1>9, <1>10, <2>1
  <1>11. CASE end.bad \/ (end.groups > 0 /\ end.length # 3)
    <2>1. ~Plain(raw) /\ ~Grouped(raw)
      BY <1>3, <1>7, <1>11
    <2> QED BY <1>8, <1>9, <1>11, <2>1
  <1> QED BY <1>2, <1>10, <1>11

TextsCalled == call.fn = "parseAmountVND" =>
                 \E n \in Nat : Len(call.raw) = n /\ DOMAIN call.raw = 1..n

(* An amount in a Telegram message is read as what it is (parseAmountVND):  *)
(* for every text of any length, any digits and any maximum, the scanner   *)
(* finds the number whose digits the text groups by thousands or not at    *)
(* all, and refuses every other text.                                      *)
THEOREM AmountsAreRead == TextSpec => []AmountsReadRight
  <1>1. call = NoCall => TextsCalled
    BY DEF NoCall, TextsCalled
  <1>2. TextsCalled /\ [Call]_call => TextsCalled'
    <2> SUFFICES ASSUME TextsCalled, [Call]_call
                 PROVE  TextsCalled'
      OBVIOUS
    <2>1. CASE call' = call
      BY <2>1 DEF TextsCalled
    <2>2. CASE CallText
      <3>1. ASSUME NEW raw \in AmountTexts, call' = [fn |-> "parseAmountVND", raw |-> raw]
            PROVE  TextsCalled'
        <4>1. PICK n \in 0..AmountLength : raw \in [1..n -> Chars]
          BY <3>1 DEF AmountTexts
        <4>2. n \in Nat /\ Len(raw) = n /\ DOMAIN raw = 1..n
          <5>1. n \in Nat
            BY TextAssumption
          <5>2. raw \in Seq(Chars) /\ DOMAIN raw = 1..n
            BY <4>1, <5>1
          <5> QED BY <5>1, <5>2
        <4> QED BY <3>1, <4>2 DEF TextsCalled
      <3> QED BY <2>2, <3>1 DEF CallText, TextsCalled
    <2>3. ASSUME NEW fn \in Lists, NEW f, NEW table, NEW limit, CallList(fn, f, table, limit)
          PROVE  TextsCalled'
      BY <2>3, TextAssumption DEF CallList, Reads, TextsCalled, Lists
    <2>4. ASSUME call.fn \in Lists, NEW table, NextPage(table)
          PROVE  TextsCalled'
      BY <2>4, TextAssumption DEF NextPage, Reads, TextsCalled, Lists
    <2> QED BY <2>1, <2>2, <2>3, <2>4 DEF Call
  <1>3. TextsCalled => AmountsReadRight
    BY TextsReadRight DEF TextsCalled, AmountsReadRight
  <1> QED BY <1>1, <1>2, <1>3, PTL DEF TextSpec

-----------------------------------------------------------------------------
(* Lists.  A key has one place for the moment and one or two more.         *)

CursorKeys(w) == [1..w -> Nat]

\* The order of the keys is strict, transitive and total.
LEMMA KeysInOrder ==
  ASSUME NEW w \in Nat, NEW a \in CursorKeys(w), NEW b \in CursorKeys(w), NEW c \in CursorKeys(w)
  PROVE  /\ ~TextLess(a, a)
         /\ TextLess(a, b) /\ TextLess(b, c) => TextLess(a, c)
         /\ a = b \/ TextLess(a, b) \/ TextLess(b, a)
  <1>1. /\ DOMAIN a = 1..w /\ DOMAIN b = 1..w /\ DOMAIN c = 1..w
        /\ \A i \in 1..w : a[i] \in Nat /\ b[i] \in Nat /\ c[i] \in Nat
    BY DEF CursorKeys
  <1>2. ~TextLess(a, a)
    BY <1>1 DEF TextLess
  <1>3. ASSUME TextLess(a, b), TextLess(b, c)
        PROVE  TextLess(a, c)
    <2>1. PICK i \in 1..w : a[i] < b[i] /\ \A l \in 1..(i - 1) : a[l] = b[l]
      BY <1>1, <1>3 DEF TextLess
    <2>2. PICK j \in 1..w : b[j] < c[j] /\ \A l \in 1..(j - 1) : b[l] = c[l]
      BY <1>1, <1>3 DEF TextLess
    <2>3. PICK m \in 1..w : m <= i /\ m <= j /\ (m = i \/ m = j)
      <3>1. i <= j \/ j <= i
        OBVIOUS
      <3> QED BY <3>1
    <2>4. \A l \in 1..(m - 1) : l \in 1..w /\ l \in 1..(i - 1) /\ l \in 1..(j - 1)
      BY <2>3
    <2>5. \A l \in 1..(m - 1) : a[l] = c[l]
      BY <2>1, <2>2, <2>4
    <2>6. a[m] < c[m]
      <3>1. a[m] \in Nat /\ b[m] \in Nat /\ c[m] \in Nat
        BY <1>1
      <3>2. a[m] < b[m] \/ a[m] = b[m]
        <4>1. m # i => m \in 1..(i - 1)
          BY <2>3
        <4> QED BY <2>1, <4>1
      <3>3. b[m] < c[m] \/ b[m] = c[m]
        <4>1. m # j => m \in 1..(j - 1)
          BY <2>3
        <4> QED BY <2>2, <4>1
      <3>4. a[m] < b[m] \/ b[m] < c[m]
        BY <2>1, <2>2, <2>3
      <3> QED BY <3>1, <3>2, <3>3, <3>4
    <2> QED BY <1>1, <2>5, <2>6 DEF TextLess
  <1>4. ASSUME a # b
        PROVE  TextLess(a, b) \/ TextLess(b, a)
    <2> DEFINE T == {i \in 1..w : a[i] # b[i]}
    <2>1. T \in SUBSET Nat /\ T # {}
      <3>1. \E i \in 1..w : a[i] # b[i]
        BY <1>4 DEF CursorKeys
      <3>2. \A i \in 1..w : i \in Nat
        OBVIOUS
      <3> QED BY <3>1, <3>2
    <2>2. PICK d \in T : \A i \in T : d <= i
      <3> HIDE DEF T
      <3> QED BY <2>1, LeastNatural
    <2>3. d \in 1..w /\ a[d] # b[d] /\ \A j \in 1..(d - 1) : a[j] = b[j]
      <3>1. ASSUME NEW j \in 1..(d - 1)
            PROVE  a[j] = b[j]
        <4>1. j \in 1..w /\ ~(d <= j)
          BY <2>2
        <4> QED BY <2>2, <4>1
      <3> QED BY <2>2, <3>1
    <2>4. Differ(a, b, d) /\ Differ(b, a, d)
      BY <1>1, <2>3 DEF Differ
    <2>5. (TextLess(a, b) <=> a[d] < b[d]) /\ (TextLess(b, a) <=> b[d] < a[d])
      BY <1>1, <2>4, FirstDifference
    <2> QED BY <1>1, <2>3, <2>5
  <1> QED BY <1>2, <1>3, <1>4

\* Finitely many keys have a highest and a lowest one.
LEMMA EndsOfKeys ==
  ASSUME NEW w \in Nat, NEW K \in SUBSET CursorKeys(w), IsFiniteSet(K), K # {}
  PROVE  /\ \E k \in K : \A l \in K : ~TextLess(k, l)
         /\ \E k \in K : \A l \in K : ~TextLess(l, k)
  <1>1. \A a, b, c \in K : /\ ~TextLess(a, a)
                           /\ TextLess(a, b) /\ TextLess(b, c) => TextLess(a, c)
    BY KeysInOrder
  <1>2. \E k \in K : \A l \in K : ~TextLess(k, l)
    <2> DEFINE Above(k) == {l \in K : TextLess(k, l)}
               U == {Above(k) : k \in K}
    <2>1. ASSUME NEW k \in K
          PROVE  Above(k) \in FiniteSubsetsOf(K)
      <3>1. Above(k) \subseteq K
        OBVIOUS
      <3> HIDE DEF Above
      <3>2. IsFiniteSet(Above(k))
        BY <3>1, FS_Subset
      <3> QED BY <3>1, <3>2 DEF FiniteSubsetsOf
    <2>2. U \subseteq FiniteSubsetsOf(K) /\ U # {}
      BY <2>1
    <2>3. PICK A \in U : \A B \in U : B \subseteq A => B = A
      <3> HIDE DEF U
      <3> QED BY <2>2, LeastSet
    <2>4. PICK k \in K : A = Above(k)
      OBVIOUS
    <2>5. ASSUME NEW l \in K, TextLess(k, l)
          PROVE  FALSE
      <3>1. Above(l) \subseteq Above(k) /\ l \in Above(k) /\ l \notin Above(l) /\ Above(l) \in U
        BY <1>1, <2>5
      <3> QED BY <2>3, <2>4, <3>1
    <2> QED BY <2>5
  <1>3. \E k \in K : \A l \in K : ~TextLess(l, k)
    <2> DEFINE Below(k) == {l \in K : TextLess(l, k)}
               U == {Below(k) : k \in K}
    <2>1. ASSUME NEW k \in K
          PROVE  Below(k) \in FiniteSubsetsOf(K)
      <3>1. Below(k) \subseteq K
        OBVIOUS
      <3> HIDE DEF Below
      <3>2. IsFiniteSet(Below(k))
        BY <3>1, FS_Subset
      <3> QED BY <3>1, <3>2 DEF FiniteSubsetsOf
    <2>2. U \subseteq FiniteSubsetsOf(K) /\ U # {}
      BY <2>1
    <2>3. PICK A \in U : \A B \in U : B \subseteq A => B = A
      <3> HIDE DEF U
      <3> QED BY <2>2, LeastSet
    <2>4. PICK k \in K : A = Below(k)
      OBVIOUS
    <2>5. ASSUME NEW l \in K, TextLess(l, k)
          PROVE  FALSE
      <3>1. Below(l) \subseteq Below(k) /\ l \in Below(k) /\ l \notin Below(l) /\ Below(l) \in U
        BY <1>1, <2>5
      <3> QED BY <2>3, <2>4, <3>1
    <2> QED BY <2>5
  <1> QED BY <1>2, <1>3

\* A table as a list has it: finitely many rows, each with a key of its own.
HasKeys(w, rows) == /\ IsFiniteSet(rows) /\ Keyed(rows)
                    /\ \A r \in rows : r.key \in CursorKeys(w)

LEMMA PartHasKeys ==
  ASSUME NEW w, NEW rows, NEW part \in SUBSET rows, HasKeys(w, rows)
  PROVE  HasKeys(w, part)
  <1>1. IsFiniteSet(part)
    BY FS_Subset DEF HasKeys
  <1> QED BY <1>1 DEF HasKeys, Keyed

\* The keys of rows have a highest and a lowest one.
LEMMA EndsOfRows ==
  ASSUME NEW w \in Nat, NEW rows, HasKeys(w, rows), rows # {}
  PROVE  /\ \E r \in rows : \A q \in rows : ~TextLess(r.key, q.key)
         /\ Lowest(Keys(rows)) \in Keys(rows)
         /\ \A q \in rows : ~TextLess(q.key, Lowest(Keys(rows)))
  <1>1. PICK K : K = Keys(rows)
    OBVIOUS
  <1>2. K \in SUBSET CursorKeys(w) /\ K # {} /\ \A r \in rows : r.key \in K
    BY <1>1 DEF Keys, HasKeys
  <1>3. IsFiniteSet(K)
    <2>1. PICK f : f = [r \in rows |-> r.key]
      OBVIOUS
    <2>2. f \in Surjection(rows, K)
      BY <1>1, <2>1 DEF Keys, Surjection
    <2>3. IsFiniteSet(rows)
      BY DEF HasKeys
    <2> QED BY <2>2, <2>3, FS_Surjection
  <1>4. /\ \E k \in K : \A l \in K : ~TextLess(k, l)
        /\ \E k \in K : \A l \in K : ~TextLess(l, k)
    BY <1>2, <1>3, EndsOfKeys
  <1>5. Lowest(K) \in K /\ \A l \in K : ~TextLess(l, Lowest(K))
    BY <1>4 DEF Lowest
  <1>6. \A k \in K : \E r \in rows : k = r.key
    BY <1>1 DEF Keys
  <1> QED BY <1>1, <1>2, <1>4, <1>5, <1>6

\* The rows of a page are above the others.
LEMMA RowsInOrder ==
  ASSUME NEW w \in Nat, NEW rows, HasKeys(w, rows), NEW limit \in Nat \ {0},
         NEW q \in First(limit, rows), NEW r \in rows, r \notin First(limit, rows)
  PROVE  TextLess(r.key, q.key)
  <1> DEFINE Above(s) == {t \in rows : TextLess(s.key, t.key)}
  <1>1. q \in rows /\ Cardinality(Above(q)) < limit /\ ~(Cardinality(Above(r)) < limit)
    BY DEF First
  <1>2. \A a, b, c \in rows :
          /\ TextLess(a.key, b.key) /\ TextLess(b.key, c.key) => TextLess(a.key, c.key)
          /\ a.key = b.key \/ TextLess(a.key, b.key) \/ TextLess(b.key, a.key)
    <2>1. \A t \in rows : t.key \in CursorKeys(w)
      BY DEF HasKeys
    <2>2. \A a, b, c \in CursorKeys(w) :
            /\ TextLess(a, b) /\ TextLess(b, c) => TextLess(a, c)
            /\ a = b \/ TextLess(a, b) \/ TextLess(b, a)
      BY KeysInOrder
    <2> QED BY <2>1, <2>2
  <1>3. r.key # q.key
    BY <1>1 DEF HasKeys, Keyed
  <1>4. ~TextLess(q.key, r.key)
    <2> SUFFICES ASSUME TextLess(q.key, r.key) PROVE FALSE
      OBVIOUS
    <2>1. PICK A : A = Above(r)
      OBVIOUS
    <2>2. PICK B : B = Above(q)
      OBVIOUS
    <2>3. A \subseteq B /\ B \subseteq rows
      BY <1>1, <1>2, <2>1, <2>2
    <2>4. IsFiniteSet(B)
      BY <2>3, FS_Subset DEF HasKeys
    <2>5. Cardinality(A) <= Cardinality(B) /\ IsFiniteSet(A)
      BY <2>3, <2>4, FS_Subset
    <2>6. Cardinality(A) \in Nat /\ Cardinality(B) \in Nat
      BY <2>4, <2>5, FS_CardinalityType
    <2> QED BY <1>1, <2>1, <2>2, <2>5, <2>6
  <1> QED BY <1>1, <1>2, <1>3, <1>4

\* A page has a row if anything is found.
LEMMA PagesHaveRows ==
  ASSUME NEW w \in Nat, NEW rows, HasKeys(w, rows), NEW limit \in Nat \ {0}, rows # {}
  PROVE  First(limit, rows) # {}
  <1>1. PICK r \in rows : \A q \in rows : ~TextLess(r.key, q.key)
    BY EndsOfRows
  <1>2. {q \in rows : TextLess(r.key, q.key)} = {}
    BY <1>1
  <1>3. Cardinality({q \in rows : TextLess(r.key, q.key)}) = 0
    BY <1>2, FS_EmptySet
  <1> QED BY <1>3 DEF First

\* What a page and its cursor tell.
PageOf(found, page) ==
    /\ page.items \subseteq found
    /\ page.next = NoCursor => page.items = found
    /\ page.next # NoCursor =>
         /\ page.next \in Keys(page.items)
         /\ \A q \in page.items : ~TextLess(q.key, page.next)
         /\ \A r \in found \ page.items : TextLess(r.key, page.next)

LEMMA CursorsAreKeys ==
  ASSUME NEW w \in Nat \ {0}, NEW key \in CursorKeys(w)
  PROVE  key # NoCursor
  <1>1. 1 \in DOMAIN key /\ DOMAIN NoCursor = {}
    BY DEF CursorKeys, NoCursor
  <1> QED BY <1>1

LEMMA PageTells ==
  ASSUME NEW w \in Nat \ {0}, NEW rows, HasKeys(w, rows), NEW limit \in Nat \ {0}, NEW cursor
  PROVE  PageOf(Found(rows, cursor), KeysetPage(rows, cursor, limit))
  <1>1. PICK found : found = Found(rows, cursor)
    OBVIOUS
  <1>2. PICK items : items = First(limit, found)
    OBVIOUS
  <1>3. PICK page : page = KeysetPage(rows, cursor, limit)
    OBVIOUS
  <1>4. page.items = items /\ page.next = IF items = found THEN NoCursor ELSE Lowest(Keys(items))
    BY <1>1, <1>2, <1>3 DEF KeysetPage
  <1>5. found \in SUBSET rows /\ items \in SUBSET found
    BY <1>1, <1>2 DEF Found, First
  <1>6. HasKeys(w, found) /\ HasKeys(w, items)
    BY <1>5, PartHasKeys
  <1>7. ASSUME items # found
        PROVE  /\ page.next \in Keys(items) /\ page.next # NoCursor
               /\ \A q \in items : ~TextLess(q.key, page.next)
               /\ \A r \in found \ items : TextLess(r.key, page.next)
    <2>1. items # {}
      BY <1>2, <1>5, <1>6, <1>7, PagesHaveRows
    <2>2. page.next = Lowest(Keys(items))
      BY <1>4, <1>7
    <2>3. Lowest(Keys(items)) \in Keys(items) /\ \A q \in items : ~TextLess(q.key, Lowest(Keys(items)))
      BY <1>6, <2>1, EndsOfRows
    <2>4. PICK q \in items : page.next = q.key
      BY <2>2, <2>3 DEF Keys
    <2>5. q.key \in CursorKeys(w)
      BY <1>6 DEF HasKeys
    <2>6. page.next # NoCursor
      BY <2>4, <2>5, CursorsAreKeys
    <2>7. ASSUME NEW r \in found, r \notin items
          PROVE  TextLess(r.key, q.key)
      BY <1>2, <1>6, <2>7, RowsInOrder
    <2> QED BY <2>2, <2>3, <2>4, <2>6, <2>7
  <1>8. PageOf(found, page)
    BY <1>4, <1>5, <1>7 DEF PageOf
  <1> QED BY <1>1, <1>3, <1>8

\* The rows that a list has pages of.
Shown(fn, f, rows) ==
    IF fn = "ListTransactionsFiltered" THEN {t \in rows : Selected(t, f)} ELSE Asked(fn, f, rows)

LEMMA ListsArePages ==
  ASSUME NEW fn, NEW f, NEW rows, NEW cursor, NEW limit
  PROVE  List(fn, f, rows, cursor, limit) = KeysetPage(Shown(fn, f, rows), cursor, limit)
  BY DEF List, Shown, Asked, ListTransactionsFiltered, ListPaymentOrders, ListPaymentReviews,
         ListSePayReviews, ListAuditLogsPage, ListDeliveriesPage

\* Whatever is asked for is shown, and what is shown has the day asked for if
\* it has one.
LEMMA FiltersPass ==
  ASSUME NEW fn, NEW f \in Filters(fn), NEW rows
  PROVE  /\ Asked(fn, f, rows) \subseteq Shown(fn, f, rows)
         /\ Shown(fn, f, rows) \subseteq rows
         /\ fn = "ListTransactionsFiltered" =>
              \A t \in Shown(fn, f, rows) : t.day # 0 => Fits(t, f)
  <1>1. CASE fn = "ListTransactionsFiltered"
    <2>1. f.from \in Nat /\ f.to \in Nat
      BY <1>1, TextAssumption DEF Filters
    <2>2. ASSUME NEW t, Fits(t, f)
          PROVE  Selected(t, f)
      BY <2>1, <2>2 DEF Fits, Selected
    <2>3. ASSUME NEW t, Selected(t, f), t.day # 0
          PROVE  Fits(t, f)
      BY <2>1, <2>3 DEF Fits, Selected
    <2> QED BY <1>1, <2>2, <2>3 DEF Asked, Shown
  <1>2. CASE fn # "ListTransactionsFiltered"
    BY <1>2 DEF Asked, Shown
  <1> QED BY <1>1, <1>2

LEMMA AskedOfPart ==
  ASSUME NEW fn, NEW f, NEW rows, NEW others, NEW r
  PROVE  r \in Asked(fn, f, rows \cap others)
           <=> r \in Asked(fn, f, rows) /\ r \in Asked(fn, f, others)
  BY DEF Asked

LEMMA TablesHaveKeys ==
  ASSUME NEW fn \in Lists, NEW f \in Filters(fn), NEW table \in Tables(fn)
  PROVE  \E w \in Nat \ {0} : /\ \A r \in Rows[fn] : r.key \in CursorKeys(w)
                              /\ HasKeys(w, Shown(fn, f, table))
  <1>1. \E w \in {2, 3} : \A r \in Rows[fn] : r.key \in CursorKeys(w)
    BY TextAssumption DEF Lists, CursorKeys
  <1>2. PICK w \in {2, 3} : \A r \in Rows[fn] : r.key \in CursorKeys(w)
    BY <1>1
  <1>3. table \subseteq Rows[fn] /\ Keyed(table) /\ IsFiniteSet(table)
    BY DEF Tables
  <1>4. HasKeys(w, table)
    BY <1>2, <1>3 DEF HasKeys
  <1>5. HasKeys(w, Shown(fn, f, table))
    BY <1>4, FiltersPass, PartHasKeys
  <1>6. w \in Nat \ {0}
    OBVIOUS
  <1> QED BY <1>2, <1>5, <1>6

-----------------------------------------------------------------------------
(* A walk.  The cursor is the key of the last row of the page: everything  *)
(* seen is at it or above, and everything that was there all the time and  *)
(* has not been seen is below.                                             *)

WalkOf(fn, f, page, earlier, stay, next) ==
    /\ Keys(page) \cap Keys(earlier) = {}
    /\ page \subseteq Shown(fn, f, page)
    /\ next = NoCursor => Asked(fn, f, stay) \subseteq page \cup earlier
    /\ next # NoCursor =>
         /\ next \in Keys(page)
         /\ \A r \in page \cup earlier : ~TextLess(r.key, next)
         /\ \A r \in Asked(fn, f, stay) \ (page \cup earlier) : TextLess(r.key, next)

WalkIs(fn, f, limit, page, earlier, stay, next) ==
    /\ f \in Filters(fn) /\ limit \in Limits
    /\ page \cup earlier \cup stay \subseteq Rows[fn]
    /\ WalkOf(fn, f, page, earlier, stay, next)

WalkInv ==
    call.fn \in Lists =>
      WalkIs(call.fn, call.filter, call.limit, call.page, call.earlier, call.stay, call.next)

LEMMA ShownOfShown ==
  ASSUME NEW fn, NEW f, NEW rows, NEW items, items \subseteq Shown(fn, f, rows)
  PROVE  items \subseteq Shown(fn, f, items)
  BY DEF Shown, Asked

LEMMA WalkBegins ==
  ASSUME NEW fn \in Lists, NEW f \in Filters(fn), NEW table \in Tables(fn), NEW limit \in Limits,
         NEW page, page = List(fn, f, table, NoCursor, limit)
  PROVE  WalkIs(fn, f, limit, page.items, {}, table, page.next)
  <1>1. PICK w \in Nat \ {0} : /\ \A r \in Rows[fn] : r.key \in CursorKeys(w)
                               /\ HasKeys(w, Shown(fn, f, table))
    BY TablesHaveKeys
  <1>2. PICK shown : shown = Shown(fn, f, table)
    OBVIOUS
  <1>3. PageOf(Found(shown, NoCursor), page)
    <2>1. limit \in Nat \ {0}
      BY TextAssumption
    <2>2. page = KeysetPage(shown, NoCursor, limit)
      BY <1>2, ListsArePages
    <2> QED BY <1>1, <1>2, <2>1, <2>2, PageTells
  <1>4. Found(shown, NoCursor) = shown
    BY DEF Found
  <1>5. shown \subseteq table /\ table \subseteq Rows[fn] /\ Asked(fn, f, table) \subseteq shown
    BY <1>2, FiltersPass DEF Tables
  <1>6. page.items \subseteq Shown(fn, f, page.items)
    BY <1>2, <1>3, <1>4, ShownOfShown DEF PageOf
  <1>7. Keys(page.items) \cap Keys({}) = {}
    BY DEF Keys
  <1> QED BY <1>3, <1>4, <1>5, <1>6, <1>7 DEF WalkIs, WalkOf, PageOf

LEMMA WalkGoesOn ==
  ASSUME NEW fn \in Lists, NEW f, NEW limit, NEW seen, NEW earlier, NEW stay, NEW next,
         WalkIs(fn, f, limit, seen, earlier, stay, next), next # NoCursor,
         NEW table \in Tables(fn), NEW page, page = List(fn, f, table, next, limit)
  PROVE  WalkIs(fn, f, limit, page.items, earlier \cup seen, stay \cap table, page.next)
  <1>1. /\ f \in Filters(fn) /\ limit \in Limits /\ limit \in Nat \ {0}
        /\ seen \cup earlier \cup stay \subseteq Rows[fn]
        /\ next \in Keys(seen)
        /\ \A r \in seen \cup earlier : ~TextLess(r.key, next)
        /\ \A r \in Asked(fn, f, stay) \ (seen \cup earlier) : TextLess(r.key, next)
    BY TextAssumption DEF WalkIs, WalkOf
  <1>2. PICK w \in Nat \ {0} : /\ \A r \in Rows[fn] : r.key \in CursorKeys(w)
                               /\ HasKeys(w, Shown(fn, f, table))
    BY <1>1, TablesHaveKeys
  <1>3. PICK shown : shown = Shown(fn, f, table)
    OBVIOUS
  <1>4. PICK found : found = Found(shown, next)
    OBVIOUS
  <1>5. PageOf(found, page)
    <2>1. page = KeysetPage(shown, next, limit)
      BY <1>3, ListsArePages
    <2> QED BY <1>1, <1>2, <1>3, <1>4, <2>1, PageTells
  <1>6. PICK items : items = page.items
    OBVIOUS
  <1>7. PICK new : new = page.next
    OBVIOUS
  <1>8. /\ found = {r \in shown : TextLess(r.key, next)}
        /\ items \subseteq found
        /\ new = NoCursor => items = found
        /\ new # NoCursor =>
             /\ new \in Keys(items)
             /\ \A q \in items : ~TextLess(q.key, new)
             /\ \A r \in found \ items : TextLess(r.key, new)
    BY <1>4, <1>5, <1>6, <1>7 DEF PageOf, Found
  <1>9. shown \subseteq table /\ table \subseteq Rows[fn] /\ Asked(fn, f, table) \subseteq shown
    BY <1>1, <1>3, FiltersPass DEF Tables
  <1>10. PICK old : old = earlier \cup seen
    OBVIOUS
  <1>11. items \subseteq Rows[fn] /\ old \subseteq Rows[fn]
    BY <1>1, <1>8, <1>9, <1>10
  <1>12. Keys(items) \cap Keys(old) = {}
    <2>1. \A q \in items, r \in old : q.key # r.key
      BY <1>1, <1>8, <1>10
    <2> QED BY <2>1 DEF Keys
  <1>13. items \subseteq Shown(fn, f, items)
    BY <1>3, <1>8, ShownOfShown
  \* What was there all the time and is not seen yet is found.
  <1>14. ASSUME NEW r \in Asked(fn, f, stay \cap table), r \notin old
         PROVE  r \in found
    <2>1. r \in Asked(fn, f, stay) /\ r \in Asked(fn, f, table)
      BY AskedOfPart
    <2> QED BY <1>1, <1>8, <1>9, <1>10, <1>14, <2>1
  <1>15. ASSUME new # NoCursor, NEW r \in old
         PROVE  ~TextLess(r.key, new)
    <2>1. PICK q \in items : new = q.key
      BY <1>8, <1>15 DEF Keys
    <2>2. TextLess(new, next)
      BY <1>8, <2>1
    <2>3. PICK p \in seen : next = p.key
      BY <1>1 DEF Keys
    <2>4. r.key \in CursorKeys(w) /\ new \in CursorKeys(w) /\ next \in CursorKeys(w)
      BY <1>1, <1>2, <1>11, <2>1, <2>3
    <2>5. TextLess(r.key, new) /\ TextLess(new, next) => TextLess(r.key, next)
      BY <2>4, KeysInOrder
    <2> QED BY <1>1, <1>10, <2>2, <2>5
  <1>16. WalkOf(fn, f, items, old, stay \cap table, new)
    BY <1>8, <1>12, <1>13, <1>14, <1>15 DEF WalkOf
  <1>17. stay \cap table \subseteq Rows[fn]
    BY <1>9
  <1> QED BY <1>1, <1>6, <1>7, <1>10, <1>11, <1>16, <1>17 DEF WalkIs

LEMMA WalkTells ==
  WalkInv => PagesListOnce
  <1> SUFFICES ASSUME WalkInv, call.fn \in Lists
               PROVE  PagesListOnce
    BY DEF PagesListOnce
  <1>1. /\ call.filter \in Filters(call.fn)
        /\ WalkOf(call.fn, call.filter, call.page, call.earlier, call.stay, call.next)
    BY DEF WalkInv, WalkIs
  <1>2. call.fn = "ListTransactionsFiltered" =>
          \A t \in call.page : t.day # 0 => Fits(t, call.filter)
    BY <1>1, FiltersPass DEF WalkOf
  <1> QED BY <1>1, <1>2 DEF WalkOf, PagesListOnce

LEMMA ReadingWalks ==
  ASSUME NEW fn, NEW f, NEW limit, NEW table, NEW stay, NEW earlier, NEW page,
         Reads(fn, f, limit, table, stay, earlier, page),
         WalkIs(fn, f, limit, page.items, earlier, stay, page.next)
  PROVE  WalkInv'
  <1>1. /\ call'.fn = fn /\ call'.filter = f /\ call'.limit = limit /\ call'.stay = stay
        /\ call'.earlier = earlier /\ call'.page = page.items /\ call'.next = page.next
    BY DEF Reads
  <1> QED BY <1>1 DEF WalkInv

(* Paging through a list shows every row that was there all the time once, *)
(* and transactions only of the days asked for (ListSePayReviews,          *)
(* ListTransactionsFiltered, ListPaymentOrders, ListPaymentReviews,        *)
(* ListAuditLogsPage, ListDeliveriesPage): for tables and pages of any     *)
(* size, any moments, and whatever arrives, leaves or changes between any  *)
(* two pages.                                                              *)
THEOREM ListsArePaged == TextSpec => []PagesListOnce
  <1>1. call = NoCall => WalkInv
    BY TextAssumption DEF NoCall, WalkInv, Lists
  <1>2. WalkInv /\ [Call]_call => WalkInv'
    <2> SUFFICES ASSUME WalkInv, [Call]_call
                 PROVE  WalkInv'
      OBVIOUS
    <2>1. CASE call' = call
      BY <2>1 DEF WalkInv
    <2>2. CASE CallText
      BY <2>2, TextAssumption DEF CallText, WalkInv, Lists
    <2>3. ASSUME NEW fn \in Lists, NEW f \in Filters(fn), NEW table \in Tables(fn),
                 NEW limit \in Limits, CallList(fn, f, table, limit)
          PROVE  WalkInv'
      <3>1. PICK page : page = List(fn, f, table, NoCursor, limit)
        OBVIOUS
      <3>2. WalkIs(fn, f, limit, page.items, {}, table, page.next)
        BY <3>1, WalkBegins
      <3>3. Reads(fn, f, limit, table, table, {}, page)
        BY <2>3, <3>1 DEF CallList
      <3> QED BY <3>2, <3>3, ReadingWalks
    <2>4. ASSUME call.fn \in Lists, NEW table \in Tables(call.fn), NextPage(table)
          PROVE  WalkInv'
      <3>1. PICK page : page = List(call.fn, call.filter, table, call.next, call.limit)
        OBVIOUS
      <3>2. WalkIs(call.fn, call.filter, call.limit, call.page, call.earlier, call.stay, call.next)
        BY <2>4 DEF WalkInv
      <3>3. call.next # NoCursor
        BY <2>4 DEF NextPage
      <3>4. WalkIs(call.fn, call.filter, call.limit, page.items, call.earlier \cup call.page,
                   call.stay \cap table, page.next)
        BY <2>4, <3>1, <3>2, <3>3, WalkGoesOn
      <3>5. Reads(call.fn, call.filter, call.limit, table, call.stay \cap table,
                  call.earlier \cup call.page, page)
        BY <2>4, <3>1 DEF NextPage
      <3> QED BY <3>4, <3>5, ReadingWalks
    <2> QED BY <2>1, <2>2, <2>3, <2>4 DEF Call
  <1> QED BY <1>1, <1>2, WalkTells, PTL DEF TextSpec

-----------------------------------------------------------------------------
(* Speech.  Words that are no number word mark the ends of number words, so*)
(* that what is between them can be told from the sentence.                *)

\* Number words and marks.
DigitWords == {Digit(n) : n \in 0..9}
Others     == {"moost", "tuw", "lawm", "linh", "muwowi", "muwowif"}
Scales     == {"trieeuj", "nghifn"}
Ends       == {"tyr", "ddoofng"}
Words      == DigitWords \cup Others \cup {"trawm"} \cup Scales \cup Ends

Sentences  == Seq(Words)

Free(x, marks) == \A i \in 1..Len(x) : x[i] \notin marks

\* A sentence of number words, a mark and the rest.
Marked(x, m, y) == x \o (<<m>> \o y)

LEMMA Joined ==
  ASSUME NEW x \in Sentences, NEW y \in Sentences, NEW z, z = x \o y
  PROVE  /\ z \in Sentences /\ Len(z) = Len(x) + Len(y) /\ Len(x) \in Nat /\ Len(y) \in Nat
         /\ \A i \in 1..Len(x) : z[i] = x[i]
         /\ \A i \in 1..Len(y) : z[Len(x) + i] = y[i]
  BY DEF Sentences

Holds(s, x, m, y) ==
    /\ s \in Sentences
    /\ Len(s) = Len(x) + 1 + Len(y)
    /\ \A i \in 1..Len(x) : s[i] = x[i]
    /\ s[Len(x) + 1] = m
    /\ \A i \in 1..Len(y) : s[Len(x) + 1 + i] = y[i]
    /\ Len(x) \in Nat /\ Len(y) \in Nat

LEMMA MarkedWords ==
  ASSUME NEW x \in Sentences, NEW m \in Words, NEW y \in Sentences, NEW s, s = Marked(x, m, y)
  PROVE  Holds(s, x, m, y)
  <1>1. PICK z : z = <<m>> \o y
    OBVIOUS
  <1>2. <<m>> \in Sentences /\ Len(<<m>>) = 1 /\ <<m>>[1] = m
    BY DEF Sentences
  <1>3. /\ z \in Sentences /\ Len(z) = 1 + Len(y) /\ z[1] = m /\ Len(y) \in Nat
        /\ \A i \in 1..Len(y) : z[1 + i] = y[i]
    BY <1>1, <1>2, Joined DEF Sentences
  <1>4. /\ s \in Sentences /\ Len(s) = Len(x) + Len(z) /\ Len(x) \in Nat
        /\ \A i \in 1..Len(x) : s[i] = x[i]
        /\ \A i \in 1..Len(z) : s[Len(x) + i] = z[i]
    <2>1. s = x \o z
      BY <1>1 DEF Marked
    <2>2. z \in Sentences
      BY <1>3
    <2> QED BY <2>1, <2>2, Joined DEF Sentences
  <1>5. 1 \in 1..Len(z) /\ s[Len(x) + 1] = m
    BY <1>3, <1>4
  <1>6. ASSUME NEW i \in 1..Len(y)
        PROVE  s[Len(x) + 1 + i] = y[i]
    <2>1. 1 + i \in 1..Len(z) /\ Len(x) + 1 + i = Len(x) + (1 + i)
      BY <1>3, <1>4
    <2> QED BY <1>3, <1>4, <2>1
  <1> QED BY <1>3, <1>4, <1>5, <1>6 DEF Holds

\* A sentence can be taken apart at its first mark in one way.
LEMMA OnePart ==
  ASSUME NEW marks, NEW x \in Sentences, NEW m \in marks \cap Words, NEW y \in Sentences,
         NEW u \in Sentences, NEW n \in marks \cap Words, NEW v \in Sentences,
         Free(x, marks), Free(u, marks), Marked(x, m, y) = Marked(u, n, v)
  PROVE  x = u /\ m = n /\ y = v
  <1> PICK s : s = Marked(x, m, y)
    OBVIOUS
  <1>1. s = Marked(u, n, v) /\ m \in Words /\ n \in Words
    OBVIOUS
  <1>2. Holds(s, x, m, y)
    BY <1>1, MarkedWords
  <1>3. Holds(s, u, n, v)
    BY <1>1, MarkedWords
  <1>4. Len(x) = Len(u)
    <2>1. ASSUME Len(x) < Len(u) PROVE FALSE
      <3>1. Len(x) + 1 \in 1..Len(u)
        BY <1>2, <1>3, <2>1 DEF Holds
      <3>2. u[Len(x) + 1] = m
        BY <1>2, <1>3, <3>1 DEF Holds
      <3> QED BY <3>1, <3>2 DEF Free
    <2>2. ASSUME Len(u) < Len(x) PROVE FALSE
      <3>1. Len(u) + 1 \in 1..Len(x)
        BY <1>2, <1>3, <2>2 DEF Holds
      <3>2. x[Len(u) + 1] = n
        BY <1>2, <1>3, <3>1 DEF Holds
      <3> QED BY <3>1, <3>2 DEF Free
    <2> QED BY <1>2, <1>3, <2>1, <2>2 DEF Holds
  <1>5. x = u
    BY <1>2, <1>3, <1>4, SeqEqual DEF Holds, Sentences
  <1>6. Len(y) = Len(v) /\ \A i \in 1..Len(y) : y[i] = v[i]
    BY <1>2, <1>3, <1>4 DEF Holds
  <1>7. y = v
    BY <1>6, SeqEqual DEF Sentences
  <1> QED BY <1>2, <1>3, <1>4, <1>5, <1>7 DEF Holds

LEMMA NoPart ==
  ASSUME NEW marks, NEW x \in Sentences, NEW m \in marks \cap Words, NEW y \in Sentences,
         NEW u \in Sentences, Free(u, marks)
  PROVE  Marked(x, m, y) # u
  <1> SUFFICES ASSUME u = Marked(x, m, y) PROVE FALSE
    OBVIOUS
  <1>1. Holds(u, x, m, y)
    <2>1. m \in Words
      OBVIOUS
    <2> QED BY <2>1, MarkedWords
  <1>2. Len(x) + 1 \in 1..Len(u)
    BY <1>1 DEF Holds
  <1> QED BY <1>1, <1>2 DEF Free, Holds

LEMMA DigitsApart ==
  /\ \A n, m \in 0..9 : Digit(n) = Digit(m) => n = m
  /\ \A n \in 0..9 : Digit(n) \notin Others \cup {"trawm"} \cup Scales \cup Ends
  <1>1. /\ Digit(0) = "khoong" /\ Digit(1) = "moojt" /\ Digit(2) = "hai" /\ Digit(3) = "ba"
        /\ Digit(4) = "boosn" /\ Digit(5) = "nawm" /\ Digit(6) = "saus" /\ Digit(7) = "bary"
        /\ Digit(8) = "tams" /\ Digit(9) = "chins"
    BY DEF Digit, digits
  <1>2. \A n \in 0..9 : \/ n = 0 \/ n = 1 \/ n = 2 \/ n = 3 \/ n = 4 \/ n = 5 \/ n = 6
                        \/ n = 7 \/ n = 8 \/ n = 9
    OBVIOUS
  <1>3. \A n \in 0..9 : Digit(n) \notin Others \cup {"trawm"} \cup Scales \cup Ends
    BY <1>1, <1>2 DEF Others, Scales, Ends
  <1>4. \A n, m \in 0..9 : Digit(n) = Digit(m) => n = m
    BY <1>1, <1>2
  <1> QED BY <1>3, <1>4

LEMMA WordsAreWords ==
  /\ \A n \in 0..9 : Digit(n) \in Words
  /\ "moost" \in Words /\ "tuw" \in Words /\ "lawm" \in Words /\ "linh" \in Words
  /\ "muwowi" \in Words /\ "muwowif" \in Words /\ "trawm" \in Words
  /\ "trieeuj" \in Words /\ "nghifn" \in Words /\ "tyr" \in Words /\ "ddoofng" \in Words
  BY DEF Words, DigitWords, Others, Scales, Ends

LEMMA UnitsApart ==
  /\ \A u \in 0..9 : AfterTen(u) \in DigitWords \cup Others /\ AfterTens(u) \in DigitWords \cup Others
  /\ \A u, v \in 0..9 : AfterTen(u) = AfterTen(v) => u = v
  /\ \A u, v \in 0..9 : AfterTens(u) = AfterTens(v) => u = v
  <1>1. \A u \in 0..9 : AfterTen(u) \in DigitWords \cup Others
    BY DEF AfterTen, DigitWords, Others
  <1>2. \A u \in 0..9 : AfterTens(u) \in DigitWords \cup Others
    BY <1>1 DEF AfterTens, Others
  <1>3. \A u \in 0..9 : Digit(u) # "moost" /\ Digit(u) # "tuw" /\ Digit(u) # "lawm"
    BY DigitsApart DEF Others
  <1>4. \A u, v \in 0..9 : AfterTen(u) = AfterTen(v) => u = v
    BY <1>3, DigitsApart DEF AfterTen
  <1>5. \A u \in 0..9 : AfterTen(u) # "moost" /\ AfterTen(u) # "tuw"
    BY <1>3 DEF AfterTen
  <1>6. \A u, v \in 0..9 : AfterTens(u) = AfterTens(v) => u = v
    BY <1>4, <1>5 DEF AfterTens
  <1> QED BY <1>1, <1>2, <1>4, <1>6

\* What the words for tens and units are.
Spoken(w, tens, units, high) ==
    /\ tens > 1 => /\ Len(w) = IF units > 0 THEN 3 ELSE 2
                   /\ w[1] = Digit(tens) /\ w[2] = "muwowi"
                   /\ units > 0 => w[3] = AfterTens(units)
    /\ tens = 1 => /\ Len(w) = IF units > 0 THEN 2 ELSE 1
                   /\ w[1] = "muwowif"
                   /\ units > 0 => w[2] = AfterTen(units)
    /\ tens = 0 => IF units = 0 THEN Len(w) = 0
                   ELSE IF high THEN Len(w) = 2 /\ w[1] = "linh" /\ w[2] = Digit(units)
                   ELSE Len(w) = 1 /\ w[1] = Digit(units)

NumberWords == DigitWords \cup Others

LEMMA FewWords ==
  ASSUME NEW a \in NumberWords, NEW b \in NumberWords, NEW c \in NumberWords
  PROVE  /\ \A w : w = <<>> => w \in Seq(NumberWords) /\ Len(w) = 0
         /\ \A w : w = <<a>> \o <<>> \/ w = <<>> \o <<a>> =>
              w \in Seq(NumberWords) /\ Len(w) = 1 /\ w[1] = a
         /\ \A w : w = <<a>> \o <<b>> \/ w = <<a, b>> \o <<>> =>
              w \in Seq(NumberWords) /\ Len(w) = 2 /\ w[1] = a /\ w[2] = b
         /\ \A w : w = <<a, b>> \o <<c>> =>
              w \in Seq(NumberWords) /\ Len(w) = 3 /\ w[1] = a /\ w[2] = b /\ w[3] = c
  <1>1. PICK S : S = NumberWords
    OBVIOUS
  <1> HIDE DEF NumberWords
  <1>2. a \in S /\ b \in S /\ c \in S
    BY <1>1
  <1>3. /\ <<>> \in Seq(S) /\ Len(<<>>) = 0
        /\ <<a>> \in Seq(S) /\ Len(<<a>>) = 1 /\ <<a>>[1] = a
        /\ <<b>> \in Seq(S) /\ Len(<<b>>) = 1 /\ <<b>>[1] = b
        /\ <<c>> \in Seq(S) /\ Len(<<c>>) = 1 /\ <<c>>[1] = c
        /\ <<a, b>> \in Seq(S) /\ Len(<<a, b>>) = 2 /\ <<a, b>>[1] = a /\ <<a, b>>[2] = b
    BY <1>2
  <1>4. ASSUME NEW w, w = <<>>
        PROVE  w \in Seq(S) /\ Len(w) = 0
    BY <1>4
  <1>5. ASSUME NEW w, w = <<a>> \o <<>> \/ w = <<>> \o <<a>>
        PROVE  w \in Seq(S) /\ Len(w) = 1 /\ w[1] = a
    <2>1. w = <<a>>
      BY <1>3, <1>5, ConcatEmptySeq
    <2> QED BY <1>3, <2>1
  <1>6. ASSUME NEW w, w = <<a>> \o <<b>>
        PROVE  w \in Seq(S) /\ Len(w) = 2 /\ w[1] = a /\ w[2] = b
    BY <1>3, <1>6
  <1>7. ASSUME NEW w, w = <<a, b>> \o <<>>
        PROVE  w \in Seq(S) /\ Len(w) = 2 /\ w[1] = a /\ w[2] = b
    <2>1. w = <<a, b>>
      BY <1>3, <1>7, ConcatEmptySeq
    <2> QED BY <1>3, <2>1
  <1>8. ASSUME NEW w, w = <<a, b>> \o <<c>>
        PROVE  w \in Seq(S) /\ Len(w) = 3 /\ w[1] = a /\ w[2] = b /\ w[3] = c
    BY <1>3, <1>8
  <1> QED BY <1>1, <1>4, <1>5, <1>6, <1>7, <1>8

LEMMA TensSpoken ==
  ASSUME NEW tens \in 0..9, NEW units \in 0..9, NEW high,
         NEW w, w = TensAndUnits(tens, units, high)
  PROVE  w \in Seq(NumberWords) /\ Spoken(w, tens, units, high)
  <1>1. /\ Digit(tens) \in NumberWords /\ Digit(units) \in NumberWords
        /\ AfterTen(units) \in NumberWords /\ AfterTens(units) \in NumberWords
        /\ "muwowi" \in NumberWords /\ "muwowif" \in NumberWords /\ "linh" \in NumberWords
    BY UnitsApart DEF NumberWords, DigitWords, Others
  <1> HIDE DEF NumberWords
  <1>2. CASE tens > 1
    <2>1. w = <<Digit(tens), "muwowi">> \o If(units > 0, <<AfterTens(units)>>)
      BY <1>2 DEF TensAndUnits
    <2>2. CASE units > 0
      <3>1. w = <<Digit(tens), "muwowi">> \o <<AfterTens(units)>>
        BY <2>1, <2>2 DEF If
      <3>2. w \in Seq(NumberWords) /\ Len(w) = 3 /\ w[1] = Digit(tens) /\ w[2] = "muwowi"
           /\ w[3] = AfterTens(units)
        BY <1>1, <3>1, FewWords
      <3> QED BY <1>2, <2>2, <3>2 DEF Spoken
    <2>3. CASE units = 0
      <3>1. w = <<Digit(tens), "muwowi">> \o <<>>
        BY <2>1, <2>3 DEF If
      <3>2. w \in Seq(NumberWords) /\ Len(w) = 2 /\ w[1] = Digit(tens) /\ w[2] = "muwowi"
        BY <1>1, <3>1, FewWords
      <3> QED BY <1>2, <2>3, <3>2 DEF Spoken
    <2> QED BY <2>2, <2>3
  <1>3. CASE tens = 1
    <2>1. w = <<"muwowif">> \o If(units > 0, <<AfterTen(units)>>)
      BY <1>3 DEF TensAndUnits
    <2>2. CASE units > 0
      <3>1. w = <<"muwowif">> \o <<AfterTen(units)>>
        BY <2>1, <2>2 DEF If
      <3>2. w \in Seq(NumberWords) /\ Len(w) = 2 /\ w[1] = "muwowif" /\ w[2] = AfterTen(units)
        BY <1>1, <3>1, FewWords
      <3> QED BY <1>3, <2>2, <3>2 DEF Spoken
    <2>3. CASE units = 0
      <3>1. w = <<"muwowif">> \o <<>>
        BY <2>1, <2>3 DEF If
      <3>2. w \in Seq(NumberWords) /\ Len(w) = 1 /\ w[1] = "muwowif"
        BY <1>1, <3>1, FewWords
      <3> QED BY <1>3, <2>3, <3>2 DEF Spoken
    <2> QED BY <2>2, <2>3
  <1>4. CASE tens = 0
    <2>1. w = If(units > 0, If(high, <<"linh">>) \o <<Digit(units)>>)
      BY <1>4 DEF TensAndUnits
    <2>2. CASE units > 0 /\ high
      <3>1. w = <<"linh">> \o <<Digit(units)>>
        BY <2>1, <2>2 DEF If
      <3>2. w \in Seq(NumberWords) /\ Len(w) = 2 /\ w[1] = "linh" /\ w[2] = Digit(units)
        BY <1>1, <3>1, FewWords
      <3>3. units # 0 /\ ~(tens > 1) /\ tens # 1
        BY <1>4, <2>2
      <3> QED BY <2>2, <3>2, <3>3 DEF Spoken
    <2>3. CASE units > 0 /\ ~high
      <3>1. w = <<>> \o <<Digit(units)>>
        BY <2>1, <2>3 DEF If
      <3>2. w \in Seq(NumberWords) /\ Len(w) = 1 /\ w[1] = Digit(units)
        BY <1>1, <3>1, FewWords
      <3> QED BY <1>4, <2>3, <3>2 DEF Spoken
    <2>4. CASE units = 0
      <3>1. w = <<>>
        BY <2>1, <2>4 DEF If
      <3>2. w \in Seq(NumberWords) /\ Len(w) = 0
        BY <1>1, <3>1, FewWords
      <3> QED BY <1>4, <2>4, <3>2 DEF Spoken
    <2> QED BY <2>2, <2>3, <2>4
  <1> QED BY <1>2, <1>3, <1>4

LEMMA TensApart ==
  ASSUME NEW t \in 0..9, NEW u \in 0..9, NEW p \in 0..9, NEW q \in 0..9, NEW high,
         NEW w, Spoken(w, t, u, high), Spoken(w, p, q, high)
  PROVE  t = p /\ u = q
  <1>1. \A n \in 0..9 : Digit(n) # "muwowif" /\ Digit(n) # "linh"
    BY DigitsApart DEF Others
  <1>2. CASE t > 1 /\ p > 1
    <2>1. t = p
      BY <1>2, DigitsApart DEF Spoken
    <2>2. (u > 0) = (q > 0)
      BY <1>2 DEF Spoken
    <2>3. u > 0 => u = q
      BY <1>2, <2>2, UnitsApart DEF Spoken
    <2> QED BY <2>1, <2>2, <2>3
  <1>3. CASE t = 1 /\ p = 1
    <2>1. (u > 0) = (q > 0)
      BY <1>3 DEF Spoken
    <2>2. u > 0 => u = q
      BY <1>3, <2>1, UnitsApart DEF Spoken
    <2> QED BY <1>3, <2>1, <2>2
  <1>4. CASE t = 0 /\ p = 0
    <2>1. (u > 0) = (q > 0)
      BY <1>4 DEF Spoken
    <2>2. u > 0 => u = q
      BY <1>4, <2>1, DigitsApart DEF Spoken
    <2> QED BY <1>4, <2>1, <2>2
  <1>5. ~(t > 1 /\ p = 1) /\ ~(p > 1 /\ t = 1)
    BY <1>1 DEF Spoken
  <1>6. ~(t > 1 /\ p = 0) /\ ~(p > 1 /\ t = 0)
    BY <1>1 DEF Spoken
  <1>7. ~(t = 1 /\ p = 0) /\ ~(p = 1 /\ t = 0)
    BY <1>1 DEF Spoken
  <1> QED BY <1>2, <1>3, <1>4, <1>5, <1>6, <1>7

\* No mark is a number word.
LEMMA NumberWordsAreFree ==
  ASSUME NEW w \in Seq(NumberWords)
  PROVE  w \in Sentences /\ Free(w, {Hundred}) /\ Free(w, Scales \cup Ends)
  <1>1. NumberWords \subseteq Words
    BY DEF NumberWords, Words
  <1>2. ASSUME NEW c \in NumberWords
        PROVE  c \notin {Hundred} /\ c \notin Scales \cup Ends
    <2>1. CASE c \in Others
      BY <2>1 DEF Others, Hundred, Scales, Ends
    <2>2. CASE c \in DigitWords
      BY <2>2, DigitsApart DEF DigitWords, Hundred
    <2> QED BY <1>2, <2>1, <2>2 DEF NumberWords
  <1> HIDE DEF NumberWords
  <1>3. \A i \in 1..Len(w) : w[i] \in NumberWords
    BY ElementOfSeq
  <1>4. w \in Sentences
    BY <1>1, SeqMonotonic DEF Sentences
  <1> QED BY <1>2, <1>3, <1>4 DEF Free

LEMMA Values == \A n \in GroupValues : n \in Int /\ (n = 0 \/ n > 0)
  BY DEF GroupValues

LEMMA PlacesOfNumber ==
  ASSUME NEW n \in GroupValues
  PROVE  /\ n \div 100 \in 0..9 /\ (n % 100) \div 10 \in 0..9 /\ n % 10 \in 0..9
         /\ n = 100 * (n \div 100) + 10 * ((n % 100) \div 10) + (n % 10)
  <1>1. n \div 100 \in 0..9 /\ n % 100 \in 0..99 /\ n = 100 * (n \div 100) + (n % 100)
    BY DEF GroupValues
  <1>2. \A r \in 0..99 : r \div 10 \in 0..9 /\ r % 10 \in 0..9 /\ r = 10 * (r \div 10) + (r % 10)
    OBVIOUS
  <1>3. (n % 100) % 10 = n % 10
    BY DEF GroupValues
  <1> QED BY <1>1, <1>2, <1>3

\* What the words for a number are: those for its hundreds and the others.
ThreeDigits(w, n, high) ==
    LET hundreds == n \div 100
        more     == hundreds > 0 \/ high
    IN  \E rest \in Seq(NumberWords) :
          /\ Spoken(rest, (n % 100) \div 10, n % 10, more)
          /\ w = IF more THEN Marked(<<Digit(hundreds)>>, Hundred, rest) ELSE rest

LEMMA NumberSpoken ==
  ASSUME NEW n \in GroupValues, NEW high, NEW w, w = readThreeDigits(n, high)
  PROVE  ThreeDigits(w, n, high)
  <1> DEFINE h    == n \div 100
             more == h > 0 \/ high
             rest == TensAndUnits((n % 100) \div 10, n % 10, more)
  <1>1. h \in 0..9 /\ (n % 100) \div 10 \in 0..9 /\ n % 10 \in 0..9 /\ more \in BOOLEAN
    BY PlacesOfNumber
  <1>2. w = Hundreds(h, more) \o rest
    BY DEF readThreeDigits
  <1>3. rest \in Seq(NumberWords) /\ Spoken(rest, (n % 100) \div 10, n % 10, more)
    BY <1>1, TensSpoken
  <1>4. rest \in Sentences /\ Digit(h) \in Words /\ Hundred \in Words
    BY <1>1, <1>3, NumberWordsAreFree, WordsAreWords DEF Hundred
  <1> HIDE DEF rest, h
  <1>5. ASSUME more
        PROVE  w = Marked(<<Digit(h)>>, Hundred, rest)
    <2>1. w = <<Digit(h), Hundred>> \o rest
      BY <1>2, <1>5 DEF Hundreds, If
    <2>2. <<Digit(h)>> \in Sentences /\ <<Hundred>> \in Sentences
      BY <1>4 DEF Sentences
    <2>3. (<<Digit(h)>> \o <<Hundred>>) \o rest = <<Digit(h)>> \o (<<Hundred>> \o rest)
      BY <1>4, <2>2, ConcatAssociative
    <2>4. <<Digit(h)>> \o <<Hundred>> = <<Digit(h), Hundred>>
      <3>1. PICK s : s = <<Digit(h)>> \o <<Hundred>>
        OBVIOUS
      <3>2. PICK v : v = <<Digit(h), Hundred>>
        OBVIOUS
      <3>3. s \in Sentences /\ Len(s) = 2 /\ s[1] = Digit(h) /\ s[2] = Hundred
        BY <1>4, <2>2, <3>1 DEF Sentences
      <3>4. v \in Sentences /\ Len(v) = 2 /\ v[1] = Digit(h) /\ v[2] = Hundred
        BY <1>4, <3>2 DEF Sentences
      <3>5. s = v
        BY <3>3, <3>4, SeqEqual DEF Sentences
      <3> QED BY <3>1, <3>2, <3>5
    <2> QED BY <2>1, <2>3, <2>4 DEF Marked
  <1>6. ASSUME ~more
        PROVE  w = rest
    <2>1. w = <<>> \o rest
      BY <1>2, <1>6 DEF Hundreds, If
    <2> QED BY <1>4, <2>1, ConcatEmptySeq
  <1> QED BY <1>3, <1>5, <1>6 DEF ThreeDigits, h, rest

LEMMA NumbersApart ==
  ASSUME NEW n \in GroupValues, NEW m \in GroupValues, NEW high, NEW w,
         ThreeDigits(w, n, high), ThreeDigits(w, m, high)
  PROVE  n = m
  <1> DEFINE h == n \div 100
             k == m \div 100
             mh == h > 0 \/ high
             mk == k > 0 \/ high
             t == (n % 100) \div 10
             u == n % 10
             p == (m % 100) \div 10
             q == m % 10
  <1>1. PICK r \in Seq(NumberWords) : /\ Spoken(r, t, u, mh)
                                      /\ w = IF mh THEN Marked(<<Digit(h)>>, Hundred, r) ELSE r
    BY DEF ThreeDigits
  <1>2. PICK s \in Seq(NumberWords) : /\ Spoken(s, p, q, mk)
                                      /\ w = IF mk THEN Marked(<<Digit(k)>>, Hundred, s) ELSE s
    BY DEF ThreeDigits
  <1>3. /\ h \in 0..9 /\ t \in 0..9 /\ u \in 0..9 /\ n = 100 * h + 10 * t + u
        /\ k \in 0..9 /\ p \in 0..9 /\ q \in 0..9 /\ m = 100 * k + 10 * p + q
    <2>1. h \in 0..9 /\ t \in 0..9 /\ u \in 0..9 /\ n = 100 * h + 10 * t + u
      BY PlacesOfNumber
    <2>2. k \in 0..9 /\ p \in 0..9 /\ q \in 0..9 /\ m = 100 * k + 10 * p + q
      BY PlacesOfNumber
    <2> QED BY <2>1, <2>2
  <1>4. mh \in BOOLEAN /\ mk \in BOOLEAN
    OBVIOUS
  <1> HIDE DEF h, k, t, u, p, q
  <1>5. /\ r \in Sentences /\ Free(r, {Hundred}) /\ s \in Sentences /\ Free(s, {Hundred})
        /\ Hundred \in {Hundred} \cap Words
    BY NumberWordsAreFree, WordsAreWords DEF Hundred
  <1>6. PICK a : a = <<Digit(h)>>
    OBVIOUS
  <1>7. PICK b : b = <<Digit(k)>>
    OBVIOUS
  <1>8. /\ a \in Sentences /\ Len(a) = 1 /\ a[1] = Digit(h) /\ Free(a, {Hundred})
        /\ b \in Sentences /\ Len(b) = 1 /\ b[1] = Digit(k) /\ Free(b, {Hundred})
    <2>1. Digit(h) \in Words /\ Digit(k) \in Words /\ Digit(h) # Hundred /\ Digit(k) # Hundred
      BY <1>3, DigitsApart, WordsAreWords DEF Hundred
    <2>2. /\ a \in Sentences /\ Len(a) = 1 /\ a[1] = Digit(h)
          /\ b \in Sentences /\ Len(b) = 1 /\ b[1] = Digit(k)
      BY <1>6, <1>7, <2>1 DEF Sentences
    <2> QED BY <2>1, <2>2 DEF Free
  <1>9. h = k /\ r = s /\ mh = mk
    <2>1. CASE mh /\ mk
      <3>1. Marked(a, Hundred, r) = Marked(b, Hundred, s)
        BY <1>1, <1>2, <1>6, <1>7, <2>1
      <3>2. a = b /\ r = s
        BY <1>5, <1>8, <3>1, OnePart
      <3>3. Digit(h) = Digit(k)
        BY <1>8, <3>2
      <3> QED BY <1>3, <2>1, <3>2, <3>3, DigitsApart
    <2>2. CASE mh /\ ~mk
      <3>1. Marked(a, Hundred, r) = s
        BY <1>1, <1>2, <1>6, <2>2
      <3> QED BY <1>5, <1>8, <3>1, NoPart
    <2>3. CASE ~mh /\ mk
      <3>1. Marked(b, Hundred, s) = r
        BY <1>1, <1>2, <1>7, <2>3
      <3> QED BY <1>5, <1>8, <3>1, NoPart
    <2>4. CASE ~mh /\ ~mk
      <3>1. r = s
        BY <1>1, <1>2, <2>4
      <3> QED BY <1>3, <2>4, <3>1
    <2> QED BY <2>1, <2>2, <2>3, <2>4
  <1>10. PICK more : more = mh
    OBVIOUS
  <1>11. Spoken(r, t, u, more) /\ Spoken(r, p, q, more)
    BY <1>1, <1>2, <1>9, <1>10
  <1>12. t = p /\ u = q
    <2>1. t \in 0..9 /\ u \in 0..9 /\ p \in 0..9 /\ q \in 0..9
      BY <1>3
    <2> QED BY <1>11, <2>1, TensApart
  <1> QED BY <1>3, <1>9, <1>12

\* The words for a number have no scale among them, and are not those for zero.
LEMMA NumberIsFree ==
  ASSUME NEW n \in GroupValues, NEW high, NEW w, w = readThreeDigits(n, high)
  PROVE  /\ w \in Sentences /\ Free(w, Scales \cup Ends)
         /\ n > 0 => Len(w) > 0
         /\ n > 0 => w # <<Digit(0)>>
  <1> DEFINE h == n \div 100
             more == h > 0 \/ high
             t == (n % 100) \div 10
             u == n % 10
  <1>1. ThreeDigits(w, n, high)
    BY NumberSpoken
  <1>2. PICK rest \in Seq(NumberWords) :
          /\ Spoken(rest, t, u, more)
          /\ w = IF more THEN Marked(<<Digit(h)>>, Hundred, rest) ELSE rest
    BY <1>1 DEF ThreeDigits
  <1>3. h \in 0..9 /\ t \in 0..9 /\ u \in 0..9 /\ n = 100 * h + 10 * t + u
    BY PlacesOfNumber
  <1>4. rest \in Sentences /\ Free(rest, Scales \cup Ends)
    BY NumberWordsAreFree
  <1> HIDE DEF h, t, u
  <1>5. PICK zero : zero = <<Digit(0)>>
    OBVIOUS
  <1>6. Len(zero) = 1 /\ zero[1] = Digit(0)
    BY <1>5
  <1>7. CASE more
    <2>1. PICK a : a = <<Digit(h)>>
      OBVIOUS
    <2>2. Digit(h) \in Words /\ Hundred \in Words
      BY <1>3, WordsAreWords DEF Hundred
    <2>3. a \in Sentences /\ Len(a) = 1 /\ a[1] = Digit(h)
      BY <2>1, <2>2 DEF Sentences
    <2>4. w = Marked(a, Hundred, rest)
      BY <1>2, <1>7, <2>1
    <2>5. Holds(w, a, Hundred, rest)
      BY <1>4, <2>2, <2>3, <2>4, MarkedWords
    <2>6. Len(w) = 2 + Len(rest) /\ Len(rest) \in Nat /\ w[1] = Digit(h) /\ w[2] = Hundred
      BY <2>3, <2>5 DEF Holds
    <2>7. \A i \in 3..Len(w) : w[i] = rest[i - 2] /\ i - 2 \in 1..Len(rest)
      <3>1. ASSUME NEW i \in 3..Len(w)
            PROVE  w[i] = rest[i - 2] /\ i - 2 \in 1..Len(rest)
        <4>1. i - 2 \in 1..Len(rest) /\ Len(a) + 1 + (i - 2) = i
          BY <2>3, <2>6
        <4> QED BY <2>5, <4>1 DEF Holds
      <3> QED BY <3>1
    <2>8. Digit(h) \notin Scales \cup Ends /\ Hundred \notin Scales \cup Ends
      BY <1>3, DigitsApart DEF Hundred, Scales, Ends
    <2>9. Free(w, Scales \cup Ends)
      <3>1. ASSUME NEW i \in 1..Len(w)
            PROVE  w[i] \notin Scales \cup Ends
        <4>1. i = 1 \/ i = 2 \/ i \in 3..Len(w)
          BY <2>6
        <4> QED BY <1>4, <2>6, <2>7, <2>8, <4>1 DEF Free
      <3> QED BY <3>1 DEF Free
    <2>10. w \in Sentences
      BY <2>5 DEF Holds
    <2>11. Len(w) > 0 /\ Len(w) # 1
      BY <2>6
    <2> QED BY <1>5, <1>6, <2>9, <2>10, <2>11
  <1>8. CASE ~more
    <2>1. w = rest
      BY <1>2, <1>8
    <2>2. n > 0 => t > 0 \/ u > 0
      BY <1>3, <1>8
    <2>3. ASSUME n > 0
          PROVE  Len(rest) > 0 /\ rest # zero
      <3>1. CASE t > 1
        BY <1>2, <1>6, <3>1 DEF Spoken
      <3>2. CASE t = 1
        <4>1. Len(rest) > 0 /\ rest[1] = "muwowif"
          BY <1>2, <3>2 DEF Spoken
        <4>2. Digit(0) # "muwowif"
          BY DigitsApart DEF Others
        <4> QED BY <1>6, <4>1, <4>2
      <3>3. CASE t = 0
        <4>1. u > 0
          BY <1>3, <2>2, <2>3, <3>3
        <4>2. Len(rest) = 1 /\ rest[1] = Digit(u)
          BY <1>2, <1>3, <1>8, <3>3, <4>1 DEF Spoken
        <4>3. Digit(u) # Digit(0)
          BY <1>3, <4>1, DigitsApart
        <4> QED BY <1>6, <4>2, <4>3
      <3> QED BY <1>3, <3>1, <3>2, <3>3
    <2> QED BY <1>4, <1>5, <2>1, <2>3
  <1> QED BY <1>7, <1>8

LEMMA MarkedIsFree ==
  ASSUME NEW marks, NEW x \in Sentences, NEW m \in Words, NEW y \in Sentences,
         Free(x, marks), Free(y, marks), m \notin marks
  PROVE  Marked(x, m, y) \in Sentences /\ Free(Marked(x, m, y), marks)
  <1> PICK s : s = Marked(x, m, y)
    OBVIOUS
  <1>1. Holds(s, x, m, y)
    BY MarkedWords
  <1>2. ASSUME NEW i \in 1..Len(s)
        PROVE  s[i] \notin marks
    <2>1. CASE i <= Len(x)
      BY <1>1, <2>1 DEF Holds, Free
    <2>2. CASE i = Len(x) + 1
      BY <1>1, <2>2 DEF Holds
    <2>3. CASE i > Len(x) + 1
      <3>1. PICK j : j = i - (Len(x) + 1)
        OBVIOUS
      <3>2. j \in 1..Len(y) /\ i = Len(x) + 1 + j
        BY <1>1, <2>3, <3>1 DEF Holds
      <3>3. s[i] = y[j]
        BY <1>1, <3>2 DEF Holds
      <3> QED BY <3>2, <3>3 DEF Free
    <2>4. Len(x) \in Nat
      BY <1>1 DEF Holds
    <2> QED BY <2>1, <2>2, <2>3, <2>4
  <1> QED BY <1>1, <1>2 DEF Free, Holds

\* A group that has a value comes with its scale before the rest.
Group(n, high, scale, rest) ==
    IF n > 0 THEN Marked(readThreeDigits(n, high), scale, rest) ELSE rest

LEMMA GroupIsSpoken ==
  ASSUME NEW n \in GroupValues, NEW high, NEW scale \in Words, NEW rest \in Sentences
  PROVE  SpeakGroup(n, high, <<scale>>) \o rest = Group(n, high, scale, rest)
  <1> PICK w : w = readThreeDigits(n, high)
    OBVIOUS
  <1>1. w \in Sentences /\ <<scale>> \in Sentences
    <2>1. w \in Sentences
      BY NumberIsFree
    <2>2. <<scale>> \in Sentences
      BY DEF Sentences
    <2> QED BY <2>1, <2>2
  <1>2. CASE n > 0
    <2>1. SpeakGroup(n, high, <<scale>>) = w \o <<scale>>
      BY <1>2 DEF SpeakGroup, If
    <2>2. (w \o <<scale>>) \o rest = w \o (<<scale>> \o rest)
      BY <1>1, ConcatAssociative
    <2> QED BY <1>2, <2>1, <2>2 DEF Group, Marked
  <1>3. CASE n = 0
    <2>1. SpeakGroup(n, high, <<scale>>) = <<>>
      BY <1>3 DEF SpeakGroup, If
    <2>2. <<>> \o rest = rest
      BY ConcatEmptySeq DEF Sentences
    <2>3. Group(n, high, scale, rest) = rest
      BY <1>3 DEF Group
    <2> QED BY <2>1, <2>2, <2>3
  <1> QED BY <1>2, <1>3, Values

LEMMA GroupIsFree ==
  ASSUME NEW marks \in SUBSET (Scales \cup Ends), NEW n \in GroupValues, NEW high,
         NEW scale \in Words, scale \notin marks, NEW rest \in Sentences, Free(rest, marks)
  PROVE  Group(n, high, scale, rest) \in Sentences /\ Free(Group(n, high, scale, rest), marks)
  <1> PICK w : w = readThreeDigits(n, high)
    OBVIOUS
  <1>1. w \in Sentences /\ Free(w, Scales \cup Ends)
    BY NumberIsFree
  <1>2. Free(w, marks)
    BY <1>1 DEF Free
  <1>3. Marked(w, scale, rest) \in Sentences /\ Free(Marked(w, scale, rest), marks)
    BY <1>1, <1>2, MarkedIsFree
  <1> QED BY <1>3 DEF Group

LEMMA GroupIsNotZero ==
  ASSUME NEW n \in GroupValues, NEW high, NEW scale \in Scales,
         NEW rest \in Sentences, rest # <<Digit(0)>>
  PROVE  Group(n, high, scale, rest) # <<Digit(0)>>
  <1> PICK w : w = readThreeDigits(n, high)
    OBVIOUS
  <1>1. w \in Sentences
    BY NumberIsFree
  <1>2. PICK zero : zero = <<Digit(0)>>
    OBVIOUS
  <1>3. zero \in Sentences /\ Len(zero) = 1 /\ zero[1] = Digit(0)
    BY <1>2, WordsAreWords DEF Sentences
  <1>4. Free(zero, {scale})
    BY <1>3, DigitsApart DEF Free
  <1>5. Marked(w, scale, rest) # zero
    <2>1. scale \in {scale} \cap Words
      BY DEF Words
    <2> QED BY <1>1, <1>3, <1>4, <2>1, NoPart
  <1> QED BY <1>2, <1>5 DEF Group

\* The first group of a scale tells its number, if the rest has another scale.
LEMMA GroupsApart ==
  ASSUME NEW n \in GroupValues, NEW m \in GroupValues, NEW high,
         NEW scale \in Scales, NEW x \in Sentences, Free(x, {scale}),
         NEW y \in Sentences, Free(y, {scale})
  PROVE  Group(n, high, scale, x) = Group(m, high, scale, y) => n = m /\ x = y
  <1>1. PICK w : w = readThreeDigits(n, high)
    OBVIOUS
  <1>2. PICK v : v = readThreeDigits(m, high)
    OBVIOUS
  <1>3. /\ w \in Sentences /\ Free(w, Scales \cup Ends) /\ ThreeDigits(w, n, high)
        /\ v \in Sentences /\ Free(v, Scales \cup Ends) /\ ThreeDigits(v, m, high)
    <2>1. w \in Sentences /\ Free(w, Scales \cup Ends) /\ ThreeDigits(w, n, high)
      BY <1>1, NumberIsFree, NumberSpoken
    <2>2. v \in Sentences /\ Free(v, Scales \cup Ends) /\ ThreeDigits(v, m, high)
      BY <1>2, NumberIsFree, NumberSpoken
    <2> QED BY <2>1, <2>2
  <1>4. Free(w, {scale}) /\ Free(v, {scale})
    BY <1>3 DEF Free
  <1>5. scale \in {scale} \cap Words
    BY DEF Words
  <1>6. ASSUME Group(n, high, scale, x) = Group(m, high, scale, y)
        PROVE  n = m /\ x = y
    <2>1. CASE n > 0 /\ m > 0
      <3>1. Marked(w, scale, x) = Marked(v, scale, y)
        BY <1>1, <1>2, <1>6, <2>1 DEF Group
      <3>2. w = v /\ x = y
        BY <1>3, <1>4, <1>5, <3>1, OnePart
      <3>3. ThreeDigits(w, n, high) /\ ThreeDigits(w, m, high)
        BY <1>3, <3>2
      <3>4. n = m
        BY <3>3, NumbersApart
      <3> QED BY <3>2, <3>4
    <2>2. CASE n > 0 /\ m = 0
      <3>1. Marked(w, scale, x) = y
        BY <1>1, <1>6, <2>2 DEF Group
      <3> QED BY <1>3, <1>5, <3>1, NoPart
    <2>3. CASE n = 0 /\ m > 0
      <3>1. Marked(v, scale, y) = x
        BY <1>2, <1>6, <2>3 DEF Group
      <3> QED BY <1>3, <1>5, <3>1, NoPart
    <2>4. CASE n = 0 /\ m = 0
      BY <1>6, <2>4 DEF Group
    <2> QED BY <2>1, <2>2, <2>3, <2>4, Values
  <1> QED BY <1>6

\* The last group of a block has no scale.
LEMMA LastGroup ==
  ASSUME NEW n \in GroupValues, NEW high, NEW w, w = SpeakGroup(n, high, <<>>)
  PROVE  /\ w \in Sentences /\ Free(w, Scales \cup Ends)
         /\ n = 0 => w = <<>>
         /\ n > 0 => w = readThreeDigits(n, high) /\ w # <<>> /\ w # <<Digit(0)>>
  <1> PICK v : v = readThreeDigits(n, high)
    OBVIOUS
  <1>1. /\ v \in Sentences /\ Free(v, Scales \cup Ends)
        /\ n > 0 => Len(v) > 0 /\ v # <<Digit(0)>>
    BY NumberIsFree
  <1>2. CASE n > 0
    <2>1. w = v \o <<>>
      BY <1>2 DEF SpeakGroup, If
    <2>2. w = v
      BY <1>1, <2>1, ConcatEmptySeq
    <2>3. v # <<>>
      BY <1>1, <1>2
    <2> QED BY <1>1, <1>2, <2>2, <2>3
  <1>3. CASE n = 0
    <2>1. w = <<>>
      BY <1>3 DEF SpeakGroup, If
    <2>2. w \in Sentences /\ Len(w) = 0
      <3>1. <<>> \in Seq(Words) /\ Len(<<>>) = 0
        BY EmptySeq
      <3> QED BY <2>1, <3>1 DEF Sentences
    <2> QED BY <1>3, <2>1, <2>2 DEF Free
  <1> QED BY <1>2, <1>3, Values

LEMMA LastGroupsApart ==
  ASSUME NEW n \in GroupValues, NEW m \in GroupValues, NEW high
  PROVE  SpeakGroup(n, high, <<>>) = SpeakGroup(m, high, <<>>) => n = m
  <1>1. PICK w : w = SpeakGroup(n, high, <<>>)
    OBVIOUS
  <1>2. (n = 0 => w = <<>>) /\ (n > 0 => w # <<>> /\ ThreeDigits(w, n, high))
    <2>1. (n = 0 => w = <<>>) /\ (n > 0 => w # <<>> /\ w = readThreeDigits(n, high))
      BY <1>1, LastGroup
    <2> QED BY <2>1, NumberSpoken
  <1>3. ASSUME w = SpeakGroup(m, high, <<>>)
        PROVE  n = m
    <2>1. (m = 0 => w = <<>>) /\ (m > 0 => w # <<>> /\ ThreeDigits(w, m, high))
      <3>1. (m = 0 => w = <<>>) /\ (m > 0 => w # <<>> /\ w = readThreeDigits(m, high))
        BY <1>3, LastGroup
      <3> QED BY <3>1, NumberSpoken
    <2>2. CASE n > 0 /\ m > 0
      <3>1. ThreeDigits(w, n, high) /\ ThreeDigits(w, m, high)
        BY <1>2, <2>1, <2>2
      <3> QED BY <3>1, NumbersApart
    <2> QED BY <1>2, <2>1, <2>2, Values
  <1> QED BY <1>1, <1>3

\* The words of a block are its groups, the last one without a scale.
AmountGroups == [Groups -> GroupValues]

UnitWords(f, b)     == SpeakGroup(f[3 * b], HasHigher(f, 3 * b), <<>>)
ThousandWords(f, b) ==
    Group(f[3 * b + 1], HasHigher(f, 3 * b + 1), "nghifn", UnitWords(f, b))
MillionWords(f, b)  ==
    Group(f[3 * b + 2], HasHigher(f, 3 * b + 2), "trieeuj", ThousandWords(f, b))

LEMMA GroupsOfBlock ==
  ASSUME NEW f \in AmountGroups, NEW b \in 0..2
  PROVE  /\ 3 * b \in Groups /\ 3 * b + 1 \in Groups /\ 3 * b + 2 \in Groups
         /\ f[3 * b] \in GroupValues /\ f[3 * b + 1] \in GroupValues /\ f[3 * b + 2] \in GroupValues
  <1>1. 3 * b \in Groups /\ 3 * b + 1 \in Groups /\ 3 * b + 2 \in Groups
    BY DEF Groups
  <1> QED BY <1>1 DEF AmountGroups

LEMMA UnitWordsFree ==
  ASSUME NEW f \in AmountGroups, NEW b \in 0..2
  PROVE  /\ UnitWords(f, b) \in Sentences /\ Free(UnitWords(f, b), Scales \cup Ends)
         /\ UnitWords(f, b) # <<Digit(0)>>
  <1>1. f[3 * b] \in GroupValues
    BY GroupsOfBlock
  <1>2. PICK n \in GroupValues : n = f[3 * b]
    BY <1>1
  <1>3. PICK w : w = SpeakGroup(n, HasHigher(f, 3 * b), <<>>)
    OBVIOUS
  <1>4. w \in Sentences /\ Free(w, Scales \cup Ends)
    BY <1>3, LastGroup
  <1>5. (n = 0 => w = <<>>) /\ (n > 0 => w # <<Digit(0)>>)
    BY <1>3, LastGroup
  <1>6. <<>> # <<Digit(0)>>
    OBVIOUS
  <1> QED BY <1>2, <1>3, <1>4, <1>5, <1>6, Values DEF UnitWords

LEMMA ThousandWordsFree ==
  ASSUME NEW f \in AmountGroups, NEW b \in 0..2
  PROVE  /\ ThousandWords(f, b) \in Sentences
         /\ Free(ThousandWords(f, b), {"trieeuj"} \cup Ends)
         /\ ThousandWords(f, b) # <<Digit(0)>>
  <1>1. f[3 * b + 1] \in GroupValues
    BY GroupsOfBlock
  <1>2. PICK n \in GroupValues : n = f[3 * b + 1]
    BY <1>1
  <1>3. PICK high : high = HasHigher(f, 3 * b + 1)
    OBVIOUS
  <1>4. PICK x : x = UnitWords(f, b)
    OBVIOUS
  <1>5. x \in Sentences /\ Free(x, Scales \cup Ends) /\ x # <<Digit(0)>>
    BY <1>4, UnitWordsFree
  <1>6. PICK marks : marks = {"trieeuj"} \cup Ends
    OBVIOUS
  <1>7. marks \in SUBSET (Scales \cup Ends) /\ "nghifn" \notin marks /\ "nghifn" \in Words
    BY <1>6, WordsAreWords DEF Scales, Ends
  <1>8. Free(x, marks)
    BY <1>5, <1>7 DEF Free
  <1>9. Group(n, high, "nghifn", x) \in Sentences /\ Free(Group(n, high, "nghifn", x), marks)
    BY <1>5, <1>7, <1>8, GroupIsFree
  <1>10. Group(n, high, "nghifn", x) # <<Digit(0)>>
    BY <1>5, <1>7, GroupIsNotZero DEF Scales
  <1>11. ThousandWords(f, b) = Group(n, high, "nghifn", x)
    BY <1>2, <1>3, <1>4 DEF ThousandWords
  <1> QED BY <1>6, <1>9, <1>10, <1>11

LEMMA MillionWordsFree ==
  ASSUME NEW f \in AmountGroups, NEW b \in 0..2
  PROVE  /\ MillionWords(f, b) \in Sentences /\ Free(MillionWords(f, b), Ends)
         /\ MillionWords(f, b) # <<Digit(0)>>
  <1>1. f[3 * b + 2] \in GroupValues
    BY GroupsOfBlock
  <1>2. PICK n \in GroupValues : n = f[3 * b + 2]
    BY <1>1
  <1>3. PICK high : high = HasHigher(f, 3 * b + 2)
    OBVIOUS
  <1>4. PICK x : x = ThousandWords(f, b)
    OBVIOUS
  <1>5. x \in Sentences /\ Free(x, {"trieeuj"} \cup Ends) /\ x # <<Digit(0)>>
    BY <1>4, ThousandWordsFree
  <1>6. Ends \in SUBSET (Scales \cup Ends) /\ "trieeuj" \notin Ends /\ "trieeuj" \in Words
    BY WordsAreWords DEF Ends
  <1>7. Free(x, Ends)
    BY <1>5 DEF Free
  <1>8. Group(n, high, "trieeuj", x) \in Sentences /\ Free(Group(n, high, "trieeuj", x), Ends)
    BY <1>5, <1>6, <1>7, GroupIsFree
  <1>9. Group(n, high, "trieeuj", x) # <<Digit(0)>>
    BY <1>5, GroupIsNotZero DEF Scales
  <1>10. MillionWords(f, b) = Group(n, high, "trieeuj", x)
    BY <1>2, <1>3, <1>4 DEF MillionWords
  <1> QED BY <1>8, <1>9, <1>10

LEMMA BlockIsSpoken ==
  ASSUME NEW f \in AmountGroups, NEW b \in 0..2
  PROVE  BlockWords(f, b) = MillionWords(f, b)
  <1>1. /\ f[3 * b + 1] \in GroupValues /\ f[3 * b + 2] \in GroupValues
    BY GroupsOfBlock
  <1>2. PICK n \in GroupValues : n = f[3 * b + 1]
    BY <1>1
  <1>3. PICK m \in GroupValues : m = f[3 * b + 2]
    BY <1>1
  <1>4. PICK x : x = UnitWords(f, b)
    OBVIOUS
  <1>5. PICK y : y = ThousandWords(f, b)
    OBVIOUS
  <1>6. PICK nh : nh = HasHigher(f, 3 * b + 1)
    OBVIOUS
  <1>7. PICK mh : mh = HasHigher(f, 3 * b + 2)
    OBVIOUS
  <1>8. x \in Sentences /\ y \in Sentences /\ "nghifn" \in Words /\ "trieeuj" \in Words
    BY <1>4, <1>5, UnitWordsFree, ThousandWordsFree, WordsAreWords
  <1>9. SpeakGroup(n, nh, <<"nghifn">>) \o x = y
    <2>1. SpeakGroup(n, nh, <<"nghifn">>) \o x = Group(n, nh, "nghifn", x)
      BY <1>8, GroupIsSpoken
    <2> QED BY <1>2, <1>4, <1>5, <1>6, <2>1 DEF ThousandWords
  <1>10. SpeakGroup(m, mh, <<"trieeuj">>) \o y = MillionWords(f, b)
    <2>1. SpeakGroup(m, mh, <<"trieeuj">>) \o y = Group(m, mh, "trieeuj", y)
      BY <1>8, GroupIsSpoken
    <2> QED BY <1>3, <1>5, <1>7, <2>1 DEF MillionWords
  <1>11. BlockWords(f, b) =
           SpeakGroup(m, mh, <<"trieeuj">>) \o (SpeakGroup(n, nh, <<"nghifn">>) \o x)
    BY <1>2, <1>3, <1>4, <1>6, <1>7 DEF BlockWords, UnitWords
  <1> QED BY <1>9, <1>10, <1>11

LEMMA HigherAlike ==
  ASSUME NEW f \in AmountGroups, NEW g \in AmountGroups, NEW i \in Groups,
         \A j \in Groups : j > i => f[j] = g[j]
  PROVE  HasHigher(f, i) = HasHigher(g, i)
  BY DEF HasHigher

\* Blocks that sound alike are alike, if what was spoken before them is.
LEMMA BlocksApart ==
  ASSUME NEW f \in AmountGroups, NEW g \in AmountGroups, NEW b \in 0..2,
         \A j \in Groups : j > 3 * b + 2 => f[j] = g[j],
         MillionWords(f, b) = MillionWords(g, b)
  PROVE  \A j \in Groups : j >= 3 * b => f[j] = g[j]
  <1>1. /\ 3 * b \in Groups /\ 3 * b + 1 \in Groups /\ 3 * b + 2 \in Groups
        /\ f[3 * b] \in GroupValues /\ f[3 * b + 1] \in GroupValues /\ f[3 * b + 2] \in GroupValues
    BY GroupsOfBlock
  <1>2. g[3 * b] \in GroupValues /\ g[3 * b + 1] \in GroupValues /\ g[3 * b + 2] \in GroupValues
    BY GroupsOfBlock
  <1>3. f[3 * b + 2] = g[3 * b + 2] /\ ThousandWords(f, b) = ThousandWords(g, b)
    <2>1. PICK high : high = HasHigher(f, 3 * b + 2)
      OBVIOUS
    <2>2. high = HasHigher(g, 3 * b + 2)
      BY <1>1, <2>1, HigherAlike
    <2>3. PICK n \in GroupValues : n = f[3 * b + 2]
      BY <1>1
    <2>4. PICK m \in GroupValues : m = g[3 * b + 2]
      BY <1>2
    <2>5. PICK x : x = ThousandWords(f, b)
      OBVIOUS
    <2>6. PICK y : y = ThousandWords(g, b)
      OBVIOUS
    <2>7. x \in Sentences /\ Free(x, {"trieeuj"} \cup Ends)
      BY <2>5, ThousandWordsFree
    <2>8. y \in Sentences /\ Free(y, {"trieeuj"} \cup Ends)
      BY <2>6, ThousandWordsFree
    <2>9. Free(x, {"trieeuj"}) /\ Free(y, {"trieeuj"}) /\ "trieeuj" \in Scales
      BY <2>7, <2>8 DEF Free, Scales
    <2>10. Group(n, high, "trieeuj", x) = Group(m, high, "trieeuj", y)
      BY <2>1, <2>2, <2>3, <2>4, <2>5, <2>6 DEF MillionWords
    <2>11. n = m /\ x = y
      BY <2>7, <2>8, <2>9, <2>10, GroupsApart
    <2> QED BY <2>3, <2>4, <2>5, <2>6, <2>11
  <1>4. f[3 * b + 1] = g[3 * b + 1] /\ UnitWords(f, b) = UnitWords(g, b)
    <2>1. PICK high : high = HasHigher(f, 3 * b + 1)
      OBVIOUS
    <2>2. high = HasHigher(g, 3 * b + 1)
      <3>1. \A j \in Groups : j > 3 * b + 1 => j = 3 * b + 2 \/ j > 3 * b + 2
        BY DEF Groups
      <3>2. \A j \in Groups : j > 3 * b + 1 => f[j] = g[j]
        BY <1>3, <3>1
      <3> QED BY <1>1, <2>1, <3>2, HigherAlike
    <2>3. PICK n \in GroupValues : n = f[3 * b + 1]
      BY <1>1
    <2>4. PICK m \in GroupValues : m = g[3 * b + 1]
      BY <1>2
    <2>5. PICK x : x = UnitWords(f, b)
      OBVIOUS
    <2>6. PICK y : y = UnitWords(g, b)
      OBVIOUS
    <2>7. x \in Sentences /\ Free(x, Scales \cup Ends)
      BY <2>5, UnitWordsFree
    <2>8. y \in Sentences /\ Free(y, Scales \cup Ends)
      BY <2>6, UnitWordsFree
    <2>9. Free(x, {"nghifn"}) /\ Free(y, {"nghifn"}) /\ "nghifn" \in Scales
      BY <2>7, <2>8 DEF Free, Scales
    <2>10. Group(n, high, "nghifn", x) = Group(m, high, "nghifn", y)
      BY <1>3, <2>1, <2>2, <2>3, <2>4, <2>5, <2>6 DEF ThousandWords
    <2>11. n = m /\ x = y
      BY <2>7, <2>8, <2>9, <2>10, GroupsApart
    <2> QED BY <2>3, <2>4, <2>5, <2>6, <2>11
  <1>5. f[3 * b] = g[3 * b]
    <2>1. PICK high : high = HasHigher(f, 3 * b)
      OBVIOUS
    <2>2. high = HasHigher(g, 3 * b)
      <3>1. \A j \in Groups : j > 3 * b => j = 3 * b + 1 \/ j = 3 * b + 2 \/ j > 3 * b + 2
        BY DEF Groups
      <3>2. \A j \in Groups : j > 3 * b => f[j] = g[j]
        BY <1>3, <1>4, <3>1
      <3> QED BY <1>1, <2>1, <3>2, HigherAlike
    <2>3. PICK n \in GroupValues : n = f[3 * b]
      BY <1>1
    <2>4. PICK m \in GroupValues : m = g[3 * b]
      BY <1>2
    <2>5. SpeakGroup(n, high, <<>>) = SpeakGroup(m, high, <<>>)
      BY <1>4, <2>1, <2>2, <2>3, <2>4 DEF UnitWords
    <2> QED BY <2>3, <2>4, <2>5, LastGroupsApart
  <1>6. \A j \in Groups : j >= 3 * b =>
          j = 3 * b \/ j = 3 * b + 1 \/ j = 3 * b + 2 \/ j > 3 * b + 2
    BY DEF Groups
  <1> QED BY <1>3, <1>4, <1>5, <1>6

\* A whole amount: blocks, "billion" once or twice, and the currency.
Price(f)    == Marked(MillionWords(f, 0), "ddoofng", <<>>)
Billions(f) == IF MillionWords(f, 1) # <<>> THEN Marked(MillionWords(f, 1), "tyr", Price(f))
               ELSE Price(f)
TwiceBillions(f) ==
    IF MillionWords(f, 2) # <<>>
    THEN Marked(MillionWords(f, 2), "tyr", Marked(<<>>, "tyr", Billions(f)))
    ELSE Billions(f)

LEMMA EmptySentence == <<>> \in Sentences /\ \A marks : Free(<<>>, marks)
  BY DEF Sentences, Free

LEMMA WholeSentences ==
  ASSUME NEW f \in AmountGroups
  PROVE  /\ Price(f) \in Sentences /\ Billions(f) \in Sentences
         /\ Marked(<<>>, "tyr", Billions(f)) \in Sentences
  <1>1. PICK w : w = MillionWords(f, 0)
    OBVIOUS
  <1>2. PICK v : v = MillionWords(f, 1)
    OBVIOUS
  <1>3. w \in Sentences /\ v \in Sentences /\ <<>> \in Sentences
    BY <1>1, <1>2, MillionWordsFree, EmptySentence
  <1>4. PICK x : x = Marked(w, "ddoofng", <<>>)
    OBVIOUS
  <1>5. x \in Sentences
    BY <1>3, <1>4, MarkedWords, WordsAreWords DEF Holds
  <1>6. PICK y : y = Marked(v, "tyr", x)
    OBVIOUS
  <1>7. y \in Sentences
    BY <1>3, <1>5, <1>6, MarkedWords, WordsAreWords DEF Holds
  <1>8. Price(f) = x
    BY <1>1, <1>4 DEF Price
  <1>9. Billions(f) = x \/ Billions(f) = y
    BY <1>2, <1>6, <1>8 DEF Billions
  <1>10. PICK z : z = Billions(f)
    OBVIOUS
  <1>11. z \in Sentences
    BY <1>5, <1>7, <1>9, <1>10
  <1>12. PICK s : s = Marked(<<>>, "tyr", z)
    OBVIOUS
  <1>13. s \in Sentences
    BY <1>3, <1>11, <1>12, MarkedWords, WordsAreWords DEF Holds
  <1> QED BY <1>5, <1>8, <1>10, <1>11, <1>12, <1>13

LEMMA TyrsAre ==
  /\ Tyrs(0) = <<>> /\ Tyrs(1) = <<"tyr">>
  /\ \A y \in Sentences : Tyrs(2) \o y = <<"tyr">> \o (<<"tyr">> \o y)
  <1>1. PICK c \in Words : c = "tyr"
    BY WordsAreWords
  <1>2. \A k \in Nat : /\ Tyrs(k) \in Sentences /\ Len(Tyrs(k)) = k
                       /\ \A i \in 1..k : Tyrs(k)[i] = c
    BY <1>1 DEF Tyrs, Sentences
  <1>3. PICK one : one = <<c>>
    OBVIOUS
  <1>4. one \in Sentences /\ Len(one) = 1 /\ one[1] = c
    BY <1>3 DEF Sentences
  <1>5. PICK two : two = one \o one
    OBVIOUS
  <1>6. two \in Sentences /\ Len(two) = 2 /\ two[1] = c /\ two[2] = c
    <2>1. /\ two \in Sentences /\ Len(two) = Len(one) + Len(one)
          /\ \A i \in 1..Len(one) : two[i] = one[i]
          /\ \A i \in 1..Len(one) : two[Len(one) + i] = one[i]
      <3>1. one \in Sentences
        BY <1>4
      <3> QED BY <1>5, <3>1, Joined
    <2>2. 1 \in 1..Len(one)
      BY <1>4
    <2> QED BY <1>4, <2>1, <2>2
  <1>7. Tyrs(0) = <<>>
    <2>1. <<>> \in Sentences /\ Len(<<>>) = 0
      BY EmptySentence
    <2>2. Tyrs(0) \in Sentences /\ Len(Tyrs(0)) = 0
      BY <1>2
    <2> QED BY <2>1, <2>2, SeqEqual DEF Sentences
  <1>8. Tyrs(1) = one
    <2>1. 1 \in Nat /\ 1 \in 1..1
      OBVIOUS
    <2>2. Tyrs(1) \in Sentences /\ Len(Tyrs(1)) = 1 /\ Tyrs(1)[1] = c
      BY <1>2, <2>1
    <2> QED BY <1>4, <2>2, SeqEqual DEF Sentences
  <1>9. Tyrs(2) = two
    <2>1. Tyrs(2) \in Sentences /\ Len(Tyrs(2)) = 2 /\ Tyrs(2)[1] = c /\ Tyrs(2)[2] = c
      BY <1>2
    <2> QED BY <1>6, <2>1, SeqEqual DEF Sentences
  <1>10. ASSUME NEW y \in Sentences
         PROVE  Tyrs(2) \o y = one \o (one \o y)
    <2>1. (one \o one) \o y = one \o (one \o y)
      BY <1>4, ConcatAssociative DEF Sentences
    <2> QED BY <1>5, <1>9, <2>1
  <1> QED BY <1>1, <1>3, <1>7, <1>8, <1>10

LEMMA WholeIsSpoken ==
  ASSUME NEW f \in AmountGroups, ~(\A i \in Groups : f[i] = 0)
  PROVE  SpeakVND(f) = TwiceBillions(f)
  <1>1. PICK w : w = MillionWords(f, 0)
    OBVIOUS
  <1>2. PICK v : v = MillionWords(f, 1)
    OBVIOUS
  <1>3. PICK u : u = MillionWords(f, 2)
    OBVIOUS
  <1>4. /\ w \in Sentences /\ v \in Sentences /\ u \in Sentences /\ <<>> \in Sentences
        /\ BlockWords(f, 0) = w /\ BlockWords(f, 1) = v /\ BlockWords(f, 2) = u
    BY <1>1, <1>2, <1>3, MillionWordsFree, EmptySentence, BlockIsSpoken
  <1>5. PICK mark : mark = <<"ddoofng">>
    OBVIOUS
  <1>6. PICK one : one = <<"tyr">>
    OBVIOUS
  <1>7. mark \in Sentences /\ one \in Sentences
    <2>1. "ddoofng" \in Words /\ "tyr" \in Words
      BY WordsAreWords
    <2> QED BY <1>5, <1>6, <2>1 DEF Sentences
  <1>8. ASSUME NEW x \in Sentences
        PROVE  x \o <<>> = x /\ <<>> \o x = x
    BY ConcatEmptySeq DEF Sentences
  <1>9. SpeakBlock(f, 0) \o mark = Price(f)
    <2>1. SpeakBlock(f, 0) = w
      <3>1. SpeakBlock(f, 0) = w \o <<>>
        BY <1>4, TyrsAre DEF SpeakBlock, If
      <3> QED BY <1>4, <1>8, <3>1
    <2>2. mark \o <<>> = mark
      BY <1>7, <1>8
    <2> QED BY <1>1, <1>5, <2>1, <2>2 DEF Price, Marked
  <1>10. PICK p : p = Price(f)
    OBVIOUS
  <1>11. SpeakBlock(f, 1) \o p = Billions(f)
    <2>1. p \in Sentences
      BY <1>10, WholeSentences
    <2>2. CASE v = <<>>
      <3>1. SpeakBlock(f, 1) = <<>> \o <<>>
        BY <1>4, <2>2 DEF SpeakBlock, If
      <3>2. SpeakBlock(f, 1) \o p = p
        BY <1>4, <1>8, <2>1, <3>1
      <3> QED BY <1>2, <1>10, <2>2, <3>2 DEF Billions
    <2>3. CASE v # <<>>
      <3>1. SpeakBlock(f, 1) = v \o one
        BY <1>4, <1>6, <2>3, TyrsAre DEF SpeakBlock, If
      <3>2. (v \o one) \o p = v \o (one \o p)
        <4>1. v \in Sentences /\ one \in Sentences /\ p \in Sentences
          BY <1>4, <1>7, <2>1
        <4> QED BY <4>1, ConcatAssociative DEF Sentences
      <3> QED BY <1>2, <1>6, <1>10, <2>3, <3>1, <3>2 DEF Billions, Marked
    <2> QED BY <2>2, <2>3
  <1>12. PICK q : q = Billions(f)
    OBVIOUS
  <1>13. SpeakBlock(f, 2) \o q = TwiceBillions(f)
    <2>1. q \in Sentences
      BY <1>12, WholeSentences
    <2>2. CASE u = <<>>
      <3>1. SpeakBlock(f, 2) = <<>> \o <<>>
        BY <1>4, <2>2 DEF SpeakBlock, If
      <3>2. SpeakBlock(f, 2) \o q = q
        BY <1>4, <1>8, <2>1, <3>1
      <3> QED BY <1>3, <1>12, <2>2, <3>2 DEF TwiceBillions
    <2>3. CASE u # <<>>
      <3>1. PICK t : t = Tyrs(2)
        OBVIOUS
      <3>2. SpeakBlock(f, 2) = u \o t
        BY <1>4, <2>3, <3>1 DEF SpeakBlock, If
      <3>3. t \in Sentences
        BY <3>1, WordsAreWords DEF Tyrs, Sentences
      <3>4. (u \o t) \o q = u \o (t \o q)
        <4>1. u \in Sentences /\ t \in Sentences /\ q \in Sentences
          BY <1>4, <2>1, <3>3
        <4> QED BY <4>1, ConcatAssociative DEF Sentences
      <3>5. t \o q = one \o (one \o q)
        BY <1>6, <2>1, <3>1, TyrsAre
      <3>6. PICK z : z = one \o q
        OBVIOUS
      <3>7. z \in Sentences
        BY <1>7, <2>1, <3>6, Joined
      <3>8. Marked(<<>>, "tyr", q) = one \o q
        BY <1>6, <1>8, <3>6, <3>7 DEF Marked
      <3> QED BY <1>3, <1>6, <1>12, <2>3, <3>2, <3>4, <3>5, <3>8 DEF TwiceBillions, Marked
    <2> QED BY <2>2, <2>3
  <1>14. SpeakVND(f) = SpeakBlock(f, 2) \o (SpeakBlock(f, 1) \o (SpeakBlock(f, 0) \o mark))
    BY <1>5 DEF SpeakVND
  <1> QED BY <1>9, <1>10, <1>11, <1>12, <1>13, <1>14

LEMMA PricesApart ==
  ASSUME NEW f \in AmountGroups, NEW g \in AmountGroups, Price(f) = Price(g)
  PROVE  MillionWords(f, 0) = MillionWords(g, 0)
  <1>1. PICK w : w = MillionWords(f, 0)
    OBVIOUS
  <1>2. PICK v : v = MillionWords(g, 0)
    OBVIOUS
  <1>3. /\ w \in Sentences /\ Free(w, Ends) /\ v \in Sentences /\ Free(v, Ends)
        /\ <<>> \in Sentences
    BY <1>1, <1>2, MillionWordsFree, EmptySentence
  <1>4. "ddoofng" \in Ends \cap Words
    BY WordsAreWords DEF Ends
  <1>5. Marked(w, "ddoofng", <<>>) = Marked(v, "ddoofng", <<>>)
    BY <1>1, <1>2 DEF Price
  <1>6. w = v
    BY <1>3, <1>4, <1>5, OnePart
  <1> QED BY <1>1, <1>2, <1>6

\* A price has no "billion" before its currency.
LEMMA PriceIsLast ==
  ASSUME NEW f \in AmountGroups, NEW x \in Sentences, NEW y \in Sentences, Free(x, Ends)
  PROVE  Marked(x, "tyr", y) # Price(f)
  <1>1. PICK w : w = MillionWords(f, 0)
    OBVIOUS
  <1>2. w \in Sentences /\ Free(w, Ends) /\ <<>> \in Sentences
    BY <1>1, MillionWordsFree, EmptySentence
  <1>3. "ddoofng" \in Ends \cap Words /\ "tyr" \in Ends \cap Words
    BY WordsAreWords DEF Ends
  <1>4. ASSUME Marked(x, "tyr", y) = Marked(w, "ddoofng", <<>>)
        PROVE  FALSE
    <2>1. "tyr" = "ddoofng"
      BY <1>2, <1>3, <1>4, OnePart
    <2> QED BY <2>1
  <1> QED BY <1>1, <1>4 DEF Price

LEMMA BillionsApart ==
  ASSUME NEW f \in AmountGroups, NEW g \in AmountGroups, Billions(f) = Billions(g)
  PROVE  MillionWords(f, 1) = MillionWords(g, 1) /\ Price(f) = Price(g)
  <1>1. PICK w : w = MillionWords(f, 1)
    OBVIOUS
  <1>2. PICK v : v = MillionWords(g, 1)
    OBVIOUS
  <1>3. PICK x : x = Price(f)
    OBVIOUS
  <1>4. PICK y : y = Price(g)
    OBVIOUS
  <1>5. w \in Sentences /\ Free(w, Ends) /\ v \in Sentences /\ Free(v, Ends)
    BY <1>1, <1>2, MillionWordsFree
  <1>6. x \in Sentences /\ y \in Sentences
    BY <1>3, <1>4, WholeSentences
  <1>7. "tyr" \in Ends \cap Words
    BY WordsAreWords DEF Ends
  <1>8. CASE w # <<>> /\ v # <<>>
    <2>1. Marked(w, "tyr", x) = Marked(v, "tyr", y)
      BY <1>1, <1>2, <1>3, <1>4, <1>8 DEF Billions
    <2>2. w = v /\ x = y
      BY <1>5, <1>6, <1>7, <2>1, OnePart
    <2> QED BY <1>1, <1>2, <1>3, <1>4, <2>2
  <1>9. CASE w # <<>> /\ v = <<>>
    <2>1. Marked(w, "tyr", x) = Price(g)
      BY <1>1, <1>2, <1>3, <1>9 DEF Billions
    <2> QED BY <1>5, <1>6, <2>1, PriceIsLast
  <1>10. CASE w = <<>> /\ v # <<>>
    <2>1. Marked(v, "tyr", y) = Price(f)
      BY <1>1, <1>2, <1>4, <1>10 DEF Billions
    <2> QED BY <1>5, <1>6, <2>1, PriceIsLast
  <1>11. CASE w = <<>> /\ v = <<>>
    <2>1. x = y
      BY <1>1, <1>2, <1>3, <1>4, <1>11 DEF Billions
    <2> QED BY <1>1, <1>2, <1>3, <1>4, <1>11, <2>1
  <1> QED BY <1>8, <1>9, <1>10, <1>11

\* Words before two "billions" are not those before one.
LEMMA BillionsHaveWords ==
  ASSUME NEW f \in AmountGroups, NEW g \in AmountGroups, NEW w \in Sentences, Free(w, Ends)
  PROVE  Marked(w, "tyr", Marked(<<>>, "tyr", Billions(f))) # Billions(g)
  <1>1. PICK v : v = MillionWords(g, 1)
    OBVIOUS
  <1>2. PICK y : y = Price(g)
    OBVIOUS
  <1>3. PICK z : z = Billions(f)
    OBVIOUS
  <1>4. PICK x : x = Marked(<<>>, "tyr", z)
    OBVIOUS
  <1>5. /\ v \in Sentences /\ Free(v, Ends) /\ y \in Sentences /\ z \in Sentences
        /\ x \in Sentences /\ <<>> \in Sentences /\ Free(<<>>, Ends)
    BY <1>1, <1>2, <1>3, <1>4, MillionWordsFree, WholeSentences, EmptySentence
  <1>6. "tyr" \in Ends \cap Words
    BY WordsAreWords DEF Ends
  <1>7. ASSUME Marked(w, "tyr", x) = Marked(v, "tyr", y)
        PROVE  FALSE
    <2>1. x = y
      BY <1>5, <1>6, <1>7, OnePart
    <2>2. Marked(<<>>, "tyr", z) = Price(g)
      BY <1>2, <1>4, <2>1
    <2> QED BY <1>5, <2>2, PriceIsLast
  <1>8. Marked(w, "tyr", x) # Price(g)
    BY <1>5, PriceIsLast
  <1>9. Billions(g) = Marked(v, "tyr", y) \/ Billions(g) = Price(g)
    BY <1>1, <1>2 DEF Billions
  <1> QED BY <1>3, <1>4, <1>7, <1>8, <1>9

LEMMA TwiceBillionsApart ==
  ASSUME NEW f \in AmountGroups, NEW g \in AmountGroups, TwiceBillions(f) = TwiceBillions(g)
  PROVE  MillionWords(f, 2) = MillionWords(g, 2) /\ Billions(f) = Billions(g)
  <1>1. PICK w : w = MillionWords(f, 2)
    OBVIOUS
  <1>2. PICK v : v = MillionWords(g, 2)
    OBVIOUS
  <1>3. PICK p : p = Billions(f)
    OBVIOUS
  <1>4. PICK q : q = Billions(g)
    OBVIOUS
  <1>5. PICK x : x = Marked(<<>>, "tyr", p)
    OBVIOUS
  <1>6. PICK y : y = Marked(<<>>, "tyr", q)
    OBVIOUS
  <1>7. /\ w \in Sentences /\ Free(w, Ends) /\ v \in Sentences /\ Free(v, Ends)
        /\ <<>> \in Sentences /\ Free(<<>>, Ends)
    BY <1>1, <1>2, MillionWordsFree, EmptySentence
  <1>8. p \in Sentences /\ q \in Sentences /\ x \in Sentences /\ y \in Sentences
    BY <1>3, <1>4, <1>5, <1>6, WholeSentences
  <1>9. "tyr" \in Ends \cap Words
    BY WordsAreWords DEF Ends
  <1>10. CASE w # <<>> /\ v # <<>>
    <2>1. Marked(w, "tyr", x) = Marked(v, "tyr", y)
      BY <1>1, <1>2, <1>3, <1>4, <1>5, <1>6, <1>10 DEF TwiceBillions
    <2>2. w = v /\ x = y
      BY <1>7, <1>8, <1>9, <2>1, OnePart
    <2>3. Marked(<<>>, "tyr", p) = Marked(<<>>, "tyr", q)
      BY <1>5, <1>6, <2>2
    <2>4. p = q
      BY <1>7, <1>8, <1>9, <2>3, OnePart
    <2> QED BY <1>1, <1>2, <1>3, <1>4, <2>2, <2>4
  <1>11. CASE w # <<>> /\ v = <<>>
    <2>1. Marked(w, "tyr", Marked(<<>>, "tyr", Billions(f))) = Billions(g)
      BY <1>1, <1>2, <1>11 DEF TwiceBillions
    <2> QED BY <1>7, <2>1, BillionsHaveWords
  <1>12. CASE w = <<>> /\ v # <<>>
    <2>1. Marked(v, "tyr", Marked(<<>>, "tyr", Billions(g))) = Billions(f)
      BY <1>1, <1>2, <1>12 DEF TwiceBillions
    <2> QED BY <1>7, <2>1, BillionsHaveWords
  <1>13. CASE w = <<>> /\ v = <<>>
    <2>1. p = q
      BY <1>1, <1>2, <1>3, <1>4, <1>13 DEF TwiceBillions
    <2> QED BY <1>1, <1>2, <1>3, <1>4, <1>13, <2>1
  <1> QED BY <1>10, <1>11, <1>12, <1>13

\* Nothing sounds like zero.
LEMMA ZeroApart ==
  ASSUME NEW f \in AmountGroups
  PROVE  TwiceBillions(f) # <<Digit(0), "ddoofng">>
  <1>1. PICK zero : zero = <<Digit(0)>>
    OBVIOUS
  <1>2. "ddoofng" \in Ends \cap Words /\ "tyr" \in Ends \cap Words /\ Digit(0) \in Words
    BY WordsAreWords DEF Ends
  <1>3. zero \in Sentences /\ Len(zero) = 1 /\ zero[1] = Digit(0)
    BY <1>1, <1>2 DEF Sentences
  <1>4. Free(zero, Ends)
    BY <1>3, DigitsApart DEF Free
  <1>5. PICK s : s = Marked(zero, "ddoofng", <<>>)
    OBVIOUS
  <1>6. s = <<Digit(0), "ddoofng">>
    <2>1. PICK t : t = <<Digit(0), "ddoofng">>
      OBVIOUS
    <2>2. t \in Sentences /\ Len(t) = 2 /\ t[1] = Digit(0) /\ t[2] = "ddoofng"
      BY <1>2, <2>1 DEF Sentences
    <2>3. s \in Sentences /\ Len(s) = 2 /\ s[1] = Digit(0) /\ s[2] = "ddoofng"
      <3>1. zero \in Sentences /\ <<>> \in Sentences /\ "ddoofng" \in Words
        BY <1>2, <1>3, EmptySentence
      <3>2. Holds(s, zero, "ddoofng", <<>>)
        BY <1>5, <3>1, MarkedWords
      <3>3. Len(<<>>) = 0
        OBVIOUS
      <3> QED BY <1>3, <3>2, <3>3 DEF Holds
    <2>4. s = t
      BY <2>2, <2>3, SeqEqual DEF Sentences
    <2> QED BY <2>1, <2>4
  <1>7. /\ <<>> \in Sentences /\ Free(<<>>, Ends)
        /\ Price(f) \in Sentences /\ Marked(<<>>, "tyr", Billions(f)) \in Sentences
    BY EmptySentence, WholeSentences
  <1>8. ASSUME NEW x \in Sentences, Free(x, Ends), NEW y \in Sentences
        PROVE  Marked(x, "tyr", y) # s
    <2>1. ASSUME Marked(x, "tyr", y) = Marked(zero, "ddoofng", <<>>)
          PROVE  FALSE
      <3>1. "tyr" = "ddoofng"
        BY <1>2, <1>3, <1>4, <1>7, <1>8, <2>1, OnePart
      <3> QED BY <3>1
    <2> QED BY <1>5, <2>1
  <1>9. Price(f) # s
    <2>1. PICK w : w = MillionWords(f, 0)
      OBVIOUS
    <2>2. w \in Sentences /\ Free(w, Ends) /\ w # zero
      BY <1>1, <2>1, MillionWordsFree
    <2>3. ASSUME Marked(w, "ddoofng", <<>>) = Marked(zero, "ddoofng", <<>>)
          PROVE  FALSE
      <3>1. w = zero
        BY <1>2, <1>3, <1>4, <1>7, <2>2, <2>3, OnePart
      <3> QED BY <2>2, <3>1
    <2> QED BY <1>5, <2>1, <2>3 DEF Price
  <1>10. Billions(f) # s
    <2>1. PICK v : v = MillionWords(f, 1)
      OBVIOUS
    <2>2. Marked(v, "tyr", Price(f)) # s
      BY <1>7, <1>8, <2>1, MillionWordsFree
    <2> QED BY <1>9, <2>1, <2>2 DEF Billions
  <1>11. TwiceBillions(f) # s
    <2>1. PICK u : u = MillionWords(f, 2)
      OBVIOUS
    <2>2. Marked(u, "tyr", Marked(<<>>, "tyr", Billions(f))) # s
      BY <1>7, <1>8, <2>1, MillionWordsFree
    <2> QED BY <1>10, <2>1, <2>2 DEF TwiceBillions
  <1> QED BY <1>6, <1>11

\* Amounts that sound alike are alike.
LEMMA SentencesApart ==
  ASSUME NEW f \in AmountGroups, NEW g \in AmountGroups, SpeakVND(f) = SpeakVND(g)
  PROVE  f = g
  <1> DEFINE Zero(h) == \A i \in Groups : h[i] = 0
  <1>1. ASSUME NEW h \in AmountGroups, Zero(h)
        PROVE  SpeakVND(h) = <<Digit(0), "ddoofng">>
    BY <1>1 DEF SpeakVND
  <1>2. ASSUME NEW h \in AmountGroups, ~Zero(h)
        PROVE  SpeakVND(h) = TwiceBillions(h) /\ SpeakVND(h) # <<Digit(0), "ddoofng">>
    BY <1>2, WholeIsSpoken, ZeroApart
  <1>3. CASE Zero(f) /\ Zero(g)
    BY <1>3 DEF AmountGroups
  <1>4. CASE Zero(f) # Zero(g)
    BY <1>1, <1>2, <1>4
  <1>5. CASE ~Zero(f) /\ ~Zero(g)
    <2>1. TwiceBillions(f) = TwiceBillions(g)
      BY <1>2, <1>5
    <2>2. MillionWords(f, 2) = MillionWords(g, 2) /\ Billions(f) = Billions(g)
      BY <2>1, TwiceBillionsApart
    <2>3. MillionWords(f, 1) = MillionWords(g, 1) /\ Price(f) = Price(g)
      BY <2>2, BillionsApart
    <2>4. MillionWords(f, 0) = MillionWords(g, 0)
      BY <2>3, PricesApart
    <2>5. \A j \in Groups : j > 5 => f[j] = g[j]
      <3>1. \A j \in Groups : j > 3 * 2 + 2 => f[j] = g[j]
        BY DEF Groups
      <3>2. \A j \in Groups : j >= 3 * 2 => f[j] = g[j]
        BY <2>2, <3>1, BlocksApart
      <3> QED BY <3>2 DEF Groups
    <2>6. \A j \in Groups : j > 2 => f[j] = g[j]
      <3>1. \A j \in Groups : j > 3 * 1 + 2 => f[j] = g[j]
        BY <2>5
      <3>2. \A j \in Groups : j >= 3 * 1 => f[j] = g[j]
        BY <2>3, <3>1, BlocksApart
      <3> QED BY <3>2 DEF Groups
    <2>7. \A j \in Groups : f[j] = g[j]
      <3>1. \A j \in Groups : j > 3 * 0 + 2 => f[j] = g[j]
        BY <2>6
      <3>2. \A j \in Groups : j >= 3 * 0 => f[j] = g[j]
        BY <2>4, <3>1, BlocksApart
      <3> QED BY <3>2 DEF Groups
    <2> QED BY <2>7 DEF AmountGroups
  <1> QED BY <1>3, <1>4, <1>5

LEMMA OneToOne ==
  ASSUME NEW S, IsFiniteSet(S), NEW F, F = [x \in S |-> F[x]],
         \A x, y \in S : F[x] = F[y] => x = y
  PROVE  Cardinality({F[x] : x \in S}) = Cardinality(S)
  <1>1. PICK T : T = {F[x] : x \in S}
    OBVIOUS
  <1>2. F \in Surjection(S, T)
    BY <1>1 DEF Surjection
  <1>3. F \in Injection(S, T)
    BY <1>2 DEF Injection, Surjection, IsInjective
  <1> QED BY <1>1, <1>2, <1>3, FS_Surjection

LEMMA AmountsOfGroups ==
  ASSUME NEW n \in 0..8, NEW f \in [0..n -> GroupValues], NEW g \in [0..n -> GroupValues]
  PROVE  Amount(f) \in AmountGroups /\ (Amount(f) = Amount(g) => f = g)
  <1>1. 0..n \subseteq Groups
    BY DEF Groups
  <1>2. Amount(f) \in AmountGroups
    <2>1. \A i \in Groups : (IF i \in DOMAIN f THEN f[i] ELSE 0) \in GroupValues
      <3>1. 0 \in GroupValues
        BY DEF GroupValues
      <3> QED BY <3>1
    <2> QED BY <2>1 DEF Amount, AmountGroups
  <1>3. \A i \in 0..n : Amount(f)[i] = f[i] /\ Amount(g)[i] = g[i]
    BY <1>1 DEF Amount
  <1>4. Amount(f) = Amount(g) => f = g
    BY <1>3
  <1> QED BY <1>2, <1>4

LEMMA NumbersSoundApart ==
  ASSUME NEW high
  PROVE  Cardinality({readThreeDigits(n, high) : n \in GroupValues \ {0}}) = 999
  <1>1. PICK S : S = GroupValues \ {0}
    OBVIOUS
  <1>2. S \subseteq GroupValues /\ IsFiniteSet(S) /\ Cardinality(S) = 999
    <2>1. PICK k \in Int : k = 999
      OBVIOUS
    <2>2. S = 1..k /\ S \subseteq GroupValues
      BY <1>1, <2>1 DEF GroupValues
    <2>3. IsFiniteSet(1..k) /\ Cardinality(1..k) = IF 1 > k THEN 0 ELSE k - 1 + 1
      BY FS_Interval
    <2>4. Cardinality(1..k) = 999
      BY <2>1, <2>3
    <2> QED BY <2>2, <2>3, <2>4
  <1>3. PICK F : F = [n \in S |-> readThreeDigits(n, high)]
    OBVIOUS
  <1>4. \A n \in S : F[n] = readThreeDigits(n, high)
    BY <1>3
  <1>5. ASSUME NEW n \in S, NEW m \in S, F[n] = F[m]
        PROVE  n = m
    <2>1. PICK w : w = F[n]
      OBVIOUS
    <2>2. w = readThreeDigits(n, high) /\ w = readThreeDigits(m, high)
      BY <1>4, <1>5, <2>1
    <2>3. n \in GroupValues /\ m \in GroupValues
      BY <1>2
    <2>4. ThreeDigits(w, n, high) /\ ThreeDigits(w, m, high)
      BY <2>2, <2>3, NumberSpoken
    <2> QED BY <2>3, <2>4, NumbersApart
  <1>6. Cardinality({F[n] : n \in S}) = Cardinality(S)
    BY <1>2, <1>3, <1>5, OneToOne
  <1>7. {F[n] : n \in S} = {readThreeDigits(n, high) : n \in S}
    BY <1>4
  <1> QED BY <1>1, <1>2, <1>6, <1>7

\* The amounts that are spoken.
AmountsCalled == call.fn = "SpeakVND" => call.amounts \in SpokenGroups

LEMMA CalledAmountsApart ==
  ASSUME NEW amounts \in SpokenGroups
  PROVE  Cardinality({SpeakVND(Amount(f)) : f \in amounts}) = Cardinality(amounts)
  <1>1. PICK n \in 0..8 : amounts \subseteq [0..n -> GroupValues]
    BY SpokenAssumption
  <1>2. IsFiniteSet(amounts)
    BY SpokenAssumption
  <1>3. PICK F : F = [f \in amounts |-> SpeakVND(Amount(f))]
    OBVIOUS
  <1>4. \A f \in amounts : F[f] = SpeakVND(Amount(f))
    BY <1>3
  <1>5. ASSUME NEW f \in amounts, NEW g \in amounts, F[f] = F[g]
        PROVE  f = g
    <2>1. f \in [0..n -> GroupValues] /\ g \in [0..n -> GroupValues]
      BY <1>1
    <2>2. /\ Amount(f) \in AmountGroups /\ Amount(g) \in AmountGroups
          /\ Amount(f) = Amount(g) => f = g
      BY <2>1, AmountsOfGroups
    <2>3. SpeakVND(Amount(f)) = SpeakVND(Amount(g))
      BY <1>4, <1>5
    <2> QED BY <2>2, <2>3, SentencesApart
  <1>6. Cardinality({F[f] : f \in amounts}) = Cardinality(amounts)
    BY <1>2, <1>3, <1>5, OneToOne
  <1>7. {F[f] : f \in amounts} = {SpeakVND(Amount(f)) : f \in amounts}
    BY <1>4
  <1> QED BY <1>6, <1>7

(* Two amounts are never announced in the same words, whatever their       *)
(* groups, zero included, and no two numbers below a thousand are          *)
(* (SpeakVND, readThreeDigits).                                            *)
THEOREM AmountsAreSpokenApart == TextSpec => []AmountsSpokenApart
  <1>1. call = NoCall => AmountsCalled
    BY DEF NoCall, AmountsCalled
  <1>2. AmountsCalled /\ [Call]_call => AmountsCalled'
    <2> SUFFICES ASSUME AmountsCalled, [Call]_call
                 PROVE  AmountsCalled'
      OBVIOUS
    <2>1. CASE call' = call
      BY <2>1 DEF AmountsCalled
    <2>2. CASE CallText
      BY <2>2 DEF CallText, AmountsCalled
    <2>3. ASSUME NEW fn \in Lists, NEW f, NEW table, NEW limit, CallList(fn, f, table, limit)
          PROVE  AmountsCalled'
      BY <2>3, TextAssumption DEF CallList, Reads, AmountsCalled, Lists
    <2>4. ASSUME call.fn \in Lists, NEW table, NextPage(table)
          PROVE  AmountsCalled'
      BY <2>4, TextAssumption DEF NextPage, Reads, AmountsCalled, Lists
    <2> QED BY <2>1, <2>2, <2>3, <2>4 DEF Call
  <1>3. AmountsCalled => AmountsSpokenApart
    BY CalledAmountsApart, NumbersSoundApart DEF AmountsCalled, AmountsSpokenApart
  <1> QED BY <1>1, <1>2, <1>3, PTL DEF TextSpec
=============================================================================
