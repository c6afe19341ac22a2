------------------------- MODULE ConfigRulesProofs --------------------------
(***************************************************************************)
(* What the parser and the initializer of the configuration compute, for   *)
(* documents of any length: numbers and durations, the rules and policies  *)
(* that are built, and the document that is written.                       *)
(* Each loop of the code is a fold.  Its values are a row, from the first  *)
(* element to the last, and what holds of the row is proved by induction   *)
(* on the set of places where it holds (AlongRow).                         *)
(***************************************************************************)
EXTENDS ConfigRules, SequenceTheorems, WellFoundedInduction, TLAPS

-----------------------------------------------------------------------------
(* Folds.  FoldLeft computes a function on sets of positions, chosen by    *)
(* its recursive equation.  That function exists, and on the sets 1..k it  *)
(* is a row of values, each the step of the one before: what a fold        *)
(* computes is the end of that row.                                        *)

\* Induction over a set of numbers.
LEMMA Numbers ==
    ASSUME NEW S, 0 \in S, \A n \in Nat : n \in S => n + 1 \in S
    PROVE  \A n \in Nat : n \in S
  <1> SUFFICES ASSUME NEW m \in Nat, m \notin S PROVE FALSE
    OBVIOUS
  <1> DEFINE Out == {n \in Nat : n \notin S}
  <1>1. PICK n \in Out : \A k \in Out : ~ (<<k, n>> \in OpToRel(<, Nat))
    <2>1. Out \subseteq Nat /\ Out # {}
      OBVIOUS
    <2> HIDE DEF Out
    <2> QED
      BY <2>1, NatLessThanWellFounded, WFMin, Zenon
  <1>2. n # 0 /\ n - 1 \in Nat /\ n - 1 \in S
    <2>1. n # 0
      OBVIOUS
    <2>2. n - 1 \in Nat /\ n - 1 < n
      BY <2>1
    <2>3. <<n - 1, n>> \in OpToRel(<, Nat)
      BY <2>2 DEF OpToRel
    <2> QED
      BY <1>1, <2>1, <2>2, <2>3
  <1>3. (n - 1) + 1 = n
    OBVIOUS
  <1> QED
    BY <1>2, <1>3

\* The positions 1..n end with n.
LEMMA LastOf ==
    ASSUME NEW n \in Nat, n # 0
    PROVE  Max(1..n) = n /\ (1..n) \ {Max(1..n)} = 1..(n - 1)
  BY DEF Max

\* A set of positions that is not empty has a last one.
LEMMA LastExists ==
    ASSUME NEW n \in Nat, NEW s \in SUBSET (1..n), s # {}
    PROVE  Max(s) \in s /\ \A i \in s : i <= Max(s)
  <1> DEFINE Good == {m \in Nat : \A t \in SUBSET (1..m) :
                        t # {} => \E x \in t : \A y \in t : x >= y}
  <1>1. 0 \in Good
    <2>1. 1..0 = {}
      OBVIOUS
    <2> QED
      BY <2>1
  <1>2. ASSUME NEW m \in Nat, m \in Good PROVE m + 1 \in Good
    <2> SUFFICES ASSUME NEW t \in SUBSET (1..m + 1), t # {}
                 PROVE  \E x \in t : \A y \in t : x >= y
      OBVIOUS
    <2>1. CASE m + 1 \in t
      BY <2>1
    <2>2. CASE m + 1 \notin t
      <3>1. t \in SUBSET (1..m)
        BY <2>2
      <3> QED
        BY <1>2, <3>1
    <2> QED
      BY <2>1, <2>2
  <1> HIDE DEF Good
  <1>3. \A m \in Nat : m \in Good
    BY <1>1, <1>2, Numbers
  <1>4. \E x \in s : \A y \in s : x >= y
    BY <1>3 DEF Good
  <1>5. Max(s) \in s /\ \A y \in s : Max(s) >= y
    BY <1>4 DEF Max
  <1> QED
    BY <1>5

\* g is the function on sets of positions that FoldLeft computes.
Iterates(g, n, T, base, H) ==
    /\ g \in [SUBSET (1..n) -> T]
    /\ \A s \in SUBSET (1..n) :
         g[s] = IF s = {} THEN base ELSE H[<<g[s \ {Max(s)}], Max(s)>>]

\* The function that MapThenFoldSet chooses exists, for a step within a set.
LEMMA IterExists ==
    ASSUME NEW n \in Nat, NEW T, NEW base \in T, NEW H \in [T \X (1..n) -> T]
    PROVE  \E g : Iterates(g, n, T, base, H)
  <1> DEFINE Good == {m \in Nat : m <= n => \E g : Iterates(g, m, T, base, H)}
  <1>1. 0 \in Good
    <2> DEFINE g == [s \in SUBSET (1..0) |-> base]
    <2>1. \A s \in SUBSET (1..0) : s = {}
      OBVIOUS
    <2>2. Iterates(g, 0, T, base, H)
      BY <2>1 DEF Iterates
    <2> QED
      BY <2>2
  <1>2. ASSUME NEW m \in Nat, m \in Good PROVE m + 1 \in Good
    <2> SUFFICES ASSUME m + 1 <= n PROVE \E g : Iterates(g, m + 1, T, base, H)
      OBVIOUS
    <2>1. PICK g : Iterates(g, m, T, base, H)
      BY <1>2
    <2> DEFINE k == m + 1
               f == [s \in SUBSET (1..k) |-> IF k \in s THEN H[<<g[s \ {k}], k>>] ELSE g[s]]
    <2>2. g \in [SUBSET (1..m) -> T] /\ k \in 1..n /\ k \in Nat
      BY <2>1 DEF Iterates
    <2>3. \A s \in SUBSET (1..k) : s \ {k} \in SUBSET (1..m) /\ (k \notin s => s \in SUBSET (1..m))
      OBVIOUS
    <2>4. f \in [SUBSET (1..k) -> T]
      BY <2>2, <2>3
    <2>5. ASSUME NEW s \in SUBSET (1..k)
          PROVE  f[s] = IF s = {} THEN base ELSE H[<<f[s \ {Max(s)}], Max(s)>>]
      <3>1. CASE k \in s
        <4>1. Max(s) = k
          <5>1. Max(s) \in s /\ k <= Max(s)
            BY <2>2, <3>1, LastExists
          <5>2. \A i \in 1..k : k <= i => i = k
            BY <2>2
          <5>3. Max(s) \in 1..k
            BY <5>1
          <5> HIDE DEF k
          <5> QED
            BY <5>1, <5>2, <5>3
        <4>2. f[s \ {k}] = g[s \ {k}] /\ f[s] = H[<<g[s \ {k}], k>>]
          BY <3>1
        <4> QED
          BY <3>1, <4>1, <4>2
      <3>2. CASE k \notin s
        <4>1. s \in SUBSET (1..m) /\ f[s] = g[s]
          BY <2>3, <3>2
        <4>2. s # {} => Max(s) \in s /\ s \ {Max(s)} \in SUBSET (1..m) /\ s \ {Max(s)} \in SUBSET (1..k)
          BY <4>1, LastExists
        <4>3. s # {} => f[s \ {Max(s)}] = g[s \ {Max(s)}]
          BY <3>2, <4>2
        <4>4. g[s] = IF s = {} THEN base ELSE H[<<g[s \ {Max(s)}], Max(s)>>]
          BY <2>1, <4>1 DEF Iterates
        <4> QED
          BY <4>1, <4>3, <4>4
      <3> QED
        BY <3>1, <3>2
    <2> HIDE DEF f, k
    <2>6. Iterates(f, k, T, base, H)
      BY <2>4, <2>5 DEF Iterates
    <2> QED
      BY <2>6 DEF k
  <1> HIDE DEF Good
  <1>3. n \in Good
    BY <1>1, <1>2, Numbers
  <1> QED
    BY <1>3 DEF Good

\* What holds at the first place of a row, and at each after the one before.
LEMMA AlongRow ==
    ASSUME NEW n \in Nat, NEW Good, 0 \in Good, \A k \in 1..n : k - 1 \in Good => k \in Good
    PROVE  \A k \in 0..n : k \in Good
  <1> DEFINE S == {k \in Nat : k <= n => k \in Good}
  <1>1. 0 \in S
    OBVIOUS
  <1>2. ASSUME NEW k \in Nat, k \in S PROVE k + 1 \in S
    <2>1. k + 1 <= n => k + 1 \in 1..n /\ (k + 1) - 1 = k /\ k \in Good
      BY <1>2
    <2> QED
      BY <2>1
  <1> HIDE DEF S
  <1>3. \A k \in Nat : k \in S
    BY <1>1, <1>2, Numbers
  <1> QED
    BY <1>3 DEF S

\* The values of a fold, from its base to its end.
Row(h, n, T, base, H) ==
    /\ h \in [0..n -> T] /\ h[0] = base
    /\ \A k \in 1..n : h[k] = H[<<h[k - 1], k>>]

\* A function on sets that follows H as far as H goes.
Follows(iter, n, T, base, H) ==
    /\ n \in Nat /\ base \in T /\ H \in [T \X (1..n) -> T] /\ iter[{}] = base
    /\ \A s \in SUBSET (1..n) : s # {} /\ iter[s \ {Max(s)}] \in T =>
         iter[s] = H[<<iter[s \ {Max(s)}], Max(s)>>]

\* On the sets 1..k it is a row.
LEMMA IterRow ==
    ASSUME NEW n, NEW T, NEW base, NEW H, NEW iter, Follows(iter, n, T, base, H)
    PROVE  \E h : Row(h, n, T, base, H) /\ h[n] = iter[1..n]
  <1> DEFINE h == [k \in 0..n |-> iter[1..k]]
             Good == {k \in 0..n : h[k] \in T /\ (k # 0 => h[k] = H[<<h[k - 1], k>>])}
  <1>1. /\ n \in Nat /\ base \in T /\ H \in [T \X (1..n) -> T] /\ iter[{}] = base
        /\ \A s \in SUBSET (1..n) : s # {} /\ iter[s \ {Max(s)}] \in T =>
             iter[s] = H[<<iter[s \ {Max(s)}], Max(s)>>]
    BY DEF Follows
  <1>2. 0 \in Good /\ h[0] = base
    <2>1. 1..0 = {} /\ 0 \in 0..n
      BY <1>1
    <2>2. h[0] = base
      BY <1>1, <2>1
    <2> QED
      BY <1>1, <2>1, <2>2
  <1>3. ASSUME NEW k \in 1..n, k - 1 \in Good PROVE k \in Good
    <2>1. k \in Nat /\ k # 0 /\ 1..k \in SUBSET (1..n) /\ 1..k # {} /\ k \in 0..n /\ k - 1 \in 0..n
      BY <1>1
    <2>2. Max(1..k) = k /\ (1..k) \ {Max(1..k)} = 1..(k - 1)
      BY <2>1, LastOf
    <2>3. h[k] = iter[1..k] /\ h[k - 1] = iter[1..(k - 1)] /\ h[k - 1] \in T
      BY <1>3, <2>1
    <2> HIDE DEF h
    <2>4. iter[1..k] = H[<<iter[1..(k - 1)], k>>]
      BY <1>1, <2>1, <2>2, <2>3
    <2>5. H[<<iter[1..(k - 1)], k>>] \in T
      BY <1>1, <2>3
    <2> QED
      BY <2>1, <2>3, <2>4, <2>5
  <1> HIDE DEF Good
  <1>4. \A k \in 0..n : k \in Good
    BY <1>1, <1>2, <1>3, AlongRow
  <1>5. Row(h, n, T, base, H)
    <2>1. \A k \in 0..n : h[k] \in T /\ (k # 0 => h[k] = H[<<h[k - 1], k>>])
      BY <1>4 DEF Good
    <2>2. \A k \in 1..n : k \in 0..n /\ k # 0
      BY <1>1
    <2>3. h \in [0..n -> T]
      BY <2>1
    <2> HIDE DEF h
    <2> QED
      BY <1>2, <2>1, <2>2, <2>3 DEF Row
  <1> QED
    BY <1>1, <1>5

\* Every step within a set makes a row.
LEMMA RowExists ==
    ASSUME NEW n \in Nat, NEW T, NEW base \in T, NEW H \in [T \X (1..n) -> T]
    PROVE  \E h : Row(h, n, T, base, H)
  <1>1. PICK g : Iterates(g, n, T, base, H)
    BY IterExists
  <1>2. Follows(g, n, T, base, H)
    BY <1>1 DEF Iterates, Follows
  <1> QED
    BY <1>2, IterRow

-----------------------------------------------------------------------------
(* Numbers.  The code multiplies and adds digit by digit within its width; *)
(* the result is what the digits mean.                                     *)

\* One digit more.
NumberStep(r, c, maximum) ==
    IF r.error # "none" THEN r
    ELSE IF ~IsDigit(c) THEN Invalid
    ELSE IF ~FitsDigit(r.value, DigitOf(c), maximum) THEN Overflow
    ELSE Answer((r.value * Radix + DigitOf(c)) % (MaxU64 + 1))

\* Number is the end of a row of its digits.  (Here and for the other folds:
\* a lemma cannot take the step of a fold as a parameter, so each has its own.)
NumberBy(text, n, T, maximum) ==
    [p \in T \X (1..n) |-> NumberStep(p[1], text[p[2]], maximum)]

LEMMA NumberRow ==
    ASSUME NEW text, NEW maximum,
           NEW n \in Nat, DOMAIN text = 1..n, NEW T, Answer(0) \in T,
           \A r \in T, i \in 1..n : NumberStep(r, text[i], maximum) \in T
    PROVE  \E h : Row(h, n, T, Answer(0), NumberBy(text, n, T, maximum)) /\ Number(text, maximum) = h[n]
  <1> DEFINE base == Answer(0)
             H == NumberBy(text, n, T, maximum)
             Body(g) == [s \in SUBSET (1..n) |->
                           IF s = {} THEN base ELSE NumberStep(g[s \ {Max(s)}], text[Max(s)], maximum)]
             iter == CHOOSE g : g = Body(g)
  <1>1. Number(text, maximum) = iter[1..n]
    BY DEF Number, FoldLeft, MapThenFoldSet, NumberStep
  <1>2. H \in [T \X (1..n) -> T] /\ base \in T
    BY DEF NumberBy
  <1>3. iter = Body(iter)
    <2>1. PICK g : Iterates(g, n, T, base, H)
      <3> HIDE DEF H, base
      <3> QED
        BY <1>2, IterExists
    <2>2. ASSUME NEW s \in SUBSET (1..n)
          PROVE  g[s] = IF s = {} THEN base ELSE NumberStep(g[s \ {Max(s)}], text[Max(s)], maximum)
      <3>1. s # {} => Max(s) \in 1..n /\ g[s \ {Max(s)}] \in T
        BY <2>1, LastExists DEF Iterates
      <3> QED
        BY <2>1, <3>1 DEF Iterates, NumberBy
    <2>3. g = Body(g)
      BY <2>1, <2>2 DEF Iterates
    <2> HIDE DEF Body
    <2> QED
      BY <2>3
  <1>4. Follows(iter, n, T, base, H)
    <2> HIDE DEF iter
    <2>1. iter[{}] = base
      BY <1>3
    <2>2. \A s \in SUBSET (1..n) : s # {} /\ iter[s \ {Max(s)}] \in T =>
             iter[s] = H[<<iter[s \ {Max(s)}], Max(s)>>]
      <3> TAKE s \in SUBSET (1..n)
      <3> HAVE s # {} /\ iter[s \ {Max(s)}] \in T
      <3>1. Max(s) \in 1..n
        BY LastExists
      <3> QED
        BY <1>3, <3>1 DEF NumberBy
    <2> QED
      BY <1>2, <2>1, <2>2 DEF Follows
  <1> HIDE DEF iter, H, base
  <1>5. \E h : Row(h, n, T, base, H) /\ h[n] = iter[1..n]
    BY <1>4, IterRow
  <1> QED
    BY <1>1, <1>5 DEF H, base

\* Numeral is the end of a row of its digits.
NumeralBy(text, n, T) ==
    [p \in T \X (1..n) |-> (p[1] * Radix + DigitOf(text[p[2]]))]

LEMMA NumeralRow ==
    ASSUME NEW text,
           NEW n \in Nat, DOMAIN text = 1..n, NEW T, 0 \in T,
           \A r \in T, i \in 1..n : (r * Radix + DigitOf(text[i])) \in T
    PROVE  \E h : Row(h, n, T, 0, NumeralBy(text, n, T)) /\ Numeral(text) = h[n]
  <1> DEFINE base == 0
             H == NumeralBy(text, n, T)
             Body(g) == [s \in SUBSET (1..n) |->
                           IF s = {} THEN base ELSE (g[s \ {Max(s)}] * Radix + DigitOf(text[Max(s)]))]
             iter == CHOOSE g : g = Body(g)
  <1>1. Numeral(text) = iter[1..n]
    BY DEF Numeral, FoldLeft, MapThenFoldSet
  <1>2. H \in [T \X (1..n) -> T] /\ base \in T
    BY DEF NumeralBy
  <1>3. iter = Body(iter)
    <2>1. PICK g : Iterates(g, n, T, base, H)
      <3> HIDE DEF H, base
      <3> QED
        BY <1>2, IterExists
    <2>2. ASSUME NEW s \in SUBSET (1..n)
          PROVE  g[s] = IF s = {} THEN base ELSE (g[s \ {Max(s)}] * Radix + DigitOf(text[Max(s)]))
      <3>1. s # {} => Max(s) \in 1..n /\ g[s \ {Max(s)}] \in T
        BY <2>1, LastExists DEF Iterates
      <3> QED
        BY <2>1, <3>1 DEF Iterates, NumeralBy
    <2>3. g = Body(g)
      BY <2>1, <2>2 DEF Iterates
    <2> HIDE DEF Body
    <2> QED
      BY <2>3
  <1>4. Follows(iter, n, T, base, H)
    <2> HIDE DEF iter
    <2>1. iter[{}] = base
      BY <1>3
    <2>2. \A s \in SUBSET (1..n) : s # {} /\ iter[s \ {Max(s)}] \in T =>
             iter[s] = H[<<iter[s \ {Max(s)}], Max(s)>>]
      <3> TAKE s \in SUBSET (1..n)
      <3> HAVE s # {} /\ iter[s \ {Max(s)}] \in T
      <3>1. Max(s) \in 1..n
        BY LastExists
      <3> QED
        BY <1>3, <3>1 DEF NumeralBy
    <2> QED
      BY <1>2, <2>1, <2>2 DEF Follows
  <1> HIDE DEF iter, H, base
  <1>5. \E h : Row(h, n, T, base, H) /\ h[n] = iter[1..n]
    BY <1>4, IterRow
  <1> QED
    BY <1>1, <1>5 DEF H, base

\* A product stays below a bound when its factor is below the quotient.
LEMMA Quotient ==
    ASSUME NEW a \in Int, NEW b \in Nat, b > 0, NEW v \in Nat, v <= a \div b
    PROVE  v * b \in Nat /\ v * b <= a
  <1>1. a \div b \in Int /\ (a \div b) * b <= a
    BY SMTT(30)
  <1>2. v * b <= (a \div b) * b
    BY <1>1, SMTT(30)
  <1>3. v * b \in Nat
    BY SMTT(30)
  <1> QED
    BY <1>1, <1>2, <1>3

\* A digit is below the radix.
LEMMA DigitRange ==
    ASSUME NEW c, IsDigit(c)
    PROVE  Radix \in Nat /\ DigitOf(c) \in 0..Radix - 1
  <1>1. Radix \in Nat /\ DOMAIN Digits = 1..Radix
    BY DigitsAreListed DEF Radix
  <1>2. \E d \in 1..Radix : Digits[d] = c
    BY <1>1 DEF IsDigit, ToSet
  <1> DEFINE d == CHOOSE d \in 1..Radix : Digits[d] = c
  <1>3. d \in 1..Radix
    BY <1>2
  <1>4. DigitOf(c) = d - 1
    BY DEF DigitOf
  <1> HIDE DEF d
  <1> QED
    BY <1>1, <1>3, <1>4

\* What Number answers.
Answers == {Invalid, Overflow} \cup {Answer(v) : v \in Nat}

\* One digit more is exact, or it is refused.
LEMMA NumberStepType ==
    ASSUME NEW r \in Answers, NEW c, NEW maximum \in 0..MaxU64
    PROVE  /\ NumberStep(r, c, maximum) \in Answers
           /\ NumberStep(r, c, maximum).error = "none" =>
                /\ r.error = "none" /\ r.value \in Nat
                /\ IsDigit(c) /\ DigitOf(c) \in Nat /\ Radix \in Nat
                /\ NumberStep(r, c, maximum).value = r.value * Radix + DigitOf(c)
                /\ NumberStep(r, c, maximum).value \in Nat
  <1>0. /\ Invalid.error # "none" /\ Overflow.error # "none" /\ Invalid \in Answers /\ Overflow \in Answers
        /\ \A v : Answer(v).error = "none" /\ Answer(v).value = v
    BY DEF Invalid, Overflow, Refused, Answer, Answers
  <1>1. CASE r.error # "none"
    BY <1>1 DEF NumberStep
  <1>2. CASE r.error = "none" /\ ~IsDigit(c)
    BY <1>0, <1>2 DEF NumberStep
  <1>3. CASE r.error = "none" /\ IsDigit(c) /\ ~FitsDigit(r.value, DigitOf(c), maximum)
    BY <1>0, <1>3 DEF NumberStep
  <1>4. CASE r.error = "none" /\ IsDigit(c) /\ FitsDigit(r.value, DigitOf(c), maximum)
    <2> DEFINE v == r.value
               d == DigitOf(c)
               w == v * Radix + d
    <2>1. v \in Nat
      BY <1>0, <1>4 DEF Answers
    <2>2. Radix \in Nat /\ d \in 0..Radix - 1
      BY <1>4, DigitRange
    <2>3. v <= (maximum - d) \div Radix
      BY <1>4 DEF FitsDigit
    <2>4. maximum \in Int /\ MaxU64 \in Nat /\ maximum <= MaxU64
      BY SignedIsSmaller
    <2>5. NumberStep(r, c, maximum) = Answer(w % (MaxU64 + 1))
      BY <1>4 DEF NumberStep
    <2> HIDE DEF v, d
    <2>6. v * Radix \in Nat /\ v * Radix <= maximum - d
      BY <2>1, <2>2, <2>3, <2>4, Quotient
    <2>7. w \in Nat /\ w <= MaxU64
      BY <2>2, <2>4, <2>6
    <2> HIDE DEF w
    <2>8. w % (MaxU64 + 1) = w
      BY <2>4, <2>7
    <2>9. NumberStep(r, c, maximum) = Answer(w) /\ Answer(w) \in Answers
      BY <2>5, <2>7, <2>8 DEF Answers
    <2> QED
      BY <1>0, <1>4, <2>1, <2>2, <2>7, <2>9 DEF v, d, w
  <1> QED
    BY <1>1, <1>2, <1>3, <1>4

\* A number that is not refused is what its digits mean: no step wrapped
\* around, whatever the width and the radix (canonical_unsigned and the two
\* duration loops).
THEOREM NumberMeans ==
    ASSUME NEW text \in Seq(STRING), NEW maximum \in 0..MaxU64
    PROVE  /\ Number(text, maximum) \in Answers
           /\ Number(text, maximum).error = "none" =>
                /\ Number(text, maximum).value = Numeral(text)
                /\ Number(text, maximum).value \in Nat
  <1> DEFINE n == Len(text)
  <1>1. n \in Nat /\ DOMAIN text = 1..n
    OBVIOUS
  <1>2. Answer(0) \in Answers /\ Answer(0).value = 0 /\ Answer(0).error = "none"
    BY DEF Answers, Answer
  <1>3. \A r \in Answers, i \in 1..n : NumberStep(r, text[i], maximum) \in Answers
    BY NumberStepType
  <1> HIDE DEF n
  <1>4. PICK h : Row(h, n, Answers, Answer(0), NumberBy(text, n, Answers, maximum))
                 /\ Number(text, maximum) = h[n]
    BY <1>1, <1>2, <1>3, NumberRow
  <1>5. /\ h \in [0..n -> Answers] /\ h[0] = Answer(0)
        /\ \A k \in 1..n : h[k - 1] \in Answers /\ h[k] = NumberStep(h[k - 1], text[k], maximum)
    <2>1. \A k \in 1..n : k - 1 \in 0..n
      BY <1>1
    <2> QED
      BY <1>1, <1>4, <2>1 DEF Row, NumberBy
  <1>6. \A k \in 1..n : h[k].error = "none" =>
           /\ h[k - 1].error = "none" /\ h[k - 1].value \in Nat /\ Radix \in Nat
           /\ DigitOf(text[k]) \in Nat
           /\ h[k].value = h[k - 1].value * Radix + DigitOf(text[k]) /\ h[k].value \in Nat
    BY <1>5, NumberStepType
  <1>7. ASSUME h[n].error = "none" PROVE h[n].value = Numeral(text) /\ h[n].value \in Nat
    <2> DEFINE Back == {k \in 0..n : h[n - k].error = "none"}
    <2>1. 0 \in Back
      BY <1>1, <1>7
    <2>2. ASSUME NEW k \in 1..n, k - 1 \in Back PROVE k \in Back
      <3>1. n - (k - 1) \in 1..n /\ (n - (k - 1)) - 1 = n - k /\ k \in 0..n
        BY <1>1
      <3>2. h[n - (k - 1)].error = "none"
        BY <2>2
      <3>3. h[n - k].error = "none"
        BY <1>6, <3>1, <3>2
      <3> QED
        BY <3>1, <3>3
    <2>3. \A k \in 0..n : k \in Back
      <3> HIDE DEF Back
      <3> QED
        BY <1>1, <2>1, <2>2, AlongRow
    <2>4. ASSUME NEW k \in 0..n PROVE h[k].error = "none"
      <3>1. n - k \in 0..n /\ n - (n - k) = k
        BY <1>1
      <3> QED
        BY <2>3, <3>1
    <2> HIDE DEF Back
    <2>5. \A i \in 1..n : DigitOf(text[i]) \in Nat /\ Radix \in Nat
      BY <1>1, <1>6, <2>4
    <2>6. \A r \in Nat, i \in 1..n : (r * Radix + DigitOf(text[i])) \in Nat
      <3> TAKE r \in Nat, i \in 1..n
      <3> DEFINE d == DigitOf(text[i])
                 b == Radix
      <3>1. d \in Nat /\ b \in Nat
        BY <2>5
      <3> HIDE DEF d, b
      <3>2. (r * b + d) \in Nat
        BY <3>1
      <3> QED
        BY <3>2 DEF d, b
    <2>7. PICK g : Row(g, n, Nat, 0, NumeralBy(text, n, Nat)) /\ Numeral(text) = g[n]
      BY <1>1, <2>6, NumeralRow
    <2>8. /\ g \in [0..n -> Nat] /\ g[0] = 0
          /\ \A k \in 1..n : g[k] = g[k - 1] * Radix + DigitOf(text[k])
      <3>1. \A k \in 1..n : k - 1 \in 0..n
        BY <1>1
      <3> QED
        BY <2>7, <3>1 DEF Row, NumeralBy
    <2> DEFINE Same == {k \in 0..n : h[k].value = g[k]}
    <2>9. 0 \in Same
      BY <1>1, <1>2, <1>5, <2>8
    <2>10. ASSUME NEW k \in 1..n, k - 1 \in Same PROVE k \in Same
      <3>1. k \in 0..n /\ h[k - 1].value = g[k - 1]
        BY <1>1, <2>10
      <3>2. h[k].error = "none"
        BY <2>4, <3>1
      <3>3. h[k].value = h[k - 1].value * Radix + DigitOf(text[k])
        BY <1>6, <3>2
      <3>4. g[k] = g[k - 1] * Radix + DigitOf(text[k])
        BY <2>8
      <3>5. h[k].value = g[k]
        BY <3>1, <3>3, <3>4, Zenon
      <3> QED
        BY <3>1, <3>5
    <2> HIDE DEF Same
    <2>11. \A k \in 0..n : k \in Same
      BY <1>1, <2>9, <2>10, AlongRow
    <2>12. h[n].value = g[n] /\ g[n] \in Nat
      BY <1>1, <2>8, <2>11 DEF Same
    <2> QED
      BY <2>7, <2>12
  <1>8. h[n] \in Answers
    BY <1>1, <1>5
  <1> QED
    BY <1>4, <1>7, <1>8

-----------------------------------------------------------------------------
(* Durations.  A text is cut into parts, each with a number and a unit,    *)
(* and their times are added up.                                           *)

\* The places of a text that can be chained from its end.
Chains(g, L, seg, stop, next) ==
    g = [at \in 1..L + 1 |->
           IF at > L THEN <<>>
           ELSE <<seg[at]>> \o (IF at \in stop THEN <<>> ELSE g[next[at]])]

\* The recursive function of Segments exists: each place looks only at later
\* ones.
LEMMA ChainExists ==
    ASSUME NEW L \in Nat, NEW Seg, NEW seg \in [1..L -> Seg], NEW stop, NEW next,
           \A at \in 1..L : at \notin stop => next[at] \in at + 1..L + 1
    PROVE  \E g : Chains(g, L, seg, stop, next)
  <1> DEFINE At(g, at) == IF at > L THEN <<>>
                          ELSE <<seg[at]>> \o (IF at \in stop THEN <<>> ELSE g[next[at]])
             From(g, m) == /\ g = [at \in L + 1 - m..L + 1 |-> g[at]]
                           /\ \A at \in L + 1 - m..L + 1 : g[at] = At(g, at)
             Good == {m \in Nat : m <= L => \E g : From(g, m)}
  <1>1. 0 \in Good
    <2> DEFINE g == [at \in L + 1 - 0..L + 1 |-> <<>>]
    <2>1. From(g, 0)
      OBVIOUS
    <2> HIDE DEF From
    <2> QED
      BY <2>1
  <1>2. ASSUME NEW m \in Nat, m \in Good PROVE m + 1 \in Good
    <2> SUFFICES ASSUME m + 1 <= L PROVE \E g : From(g, m + 1)
      <3> HIDE DEF From
      <3> QED
        OBVIOUS
    <2>1. PICK g : From(g, m)
      <3> HIDE DEF From
      <3> QED
        BY <1>2
    <2> DEFINE k == L - m
               f == [at \in k..L + 1 |-> IF at = k THEN At(g, k) ELSE g[at]]
    <2>2. k \in 1..L /\ k = L + 1 - (m + 1) /\ k + 1 = L + 1 - m /\ k \in Nat
      OBVIOUS
    <2>3. ASSUME NEW at \in k..L + 1 PROVE f[at] = At(f, at)
      <3>1. at \notin stop /\ at <= L => /\ next[at] \in k + 1..L + 1
                                         /\ next[at] # k /\ next[at] \in k..L + 1
        <4> SUFFICES ASSUME at \notin stop, at <= L
                     PROVE  next[at] \in k + 1..L + 1 /\ next[at] # k /\ next[at] \in k..L + 1
          OBVIOUS
        <4>1. at \in 1..L
          BY <2>2
        <4>2. next[at] \in at + 1..L + 1
          BY <4>1
        <4> HIDE DEF k
        <4> QED
          BY <2>2, <4>2
      <3>2. at \notin stop /\ at <= L => f[next[at]] = g[next[at]]
        <4> HIDE DEF At, k
        <4> QED
          BY <3>1
      <3>3. At(f, at) = At(g, at)
        <4>1. CASE at > L
          BY <4>1
        <4>2. CASE at <= L
          <5> HIDE DEF f, k
          <5> QED
            BY <3>2, <4>2
        <4> HIDE DEF At, f
        <4> QED
          BY <2>2, <4>1, <4>2
      <3>4. CASE at = k
        BY <3>3, <3>4
      <3>5. CASE at # k
        <4>1. at \in k + 1..L + 1
          BY <2>2, <3>5
        <4>2. g[at] = At(g, at)
          BY <2>1, <2>2, <4>1
        <4>3. f[at] = g[at]
          BY <3>5
        <4> QED
          BY <3>3, <4>2, <4>3
      <3> QED
        BY <3>4, <3>5
    <2>4. f = [at \in k..L + 1 |-> f[at]]
      <3> HIDE DEF k, At
      <3> QED
        OBVIOUS
    <2>5. From(f, m + 1)
      <3> HIDE DEF f, k, At
      <3> QED
        BY <2>2, <2>3, <2>4
    <2> HIDE DEF From
    <2> QED
      BY <2>5
  <1>3. L \in Good
    <2> HIDE DEF Good
    <2> QED
      BY <1>1, <1>2, Numbers
  <1>4. PICK g : From(g, L)
    <2> HIDE DEF From
    <2> QED
      BY <1>3
  <1>5. g = [at \in 1..L + 1 |-> g[at]] /\ \A at \in 1..L + 1 : g[at] = At(g, at)
    <2>1. L + 1 - L = 1
      OBVIOUS
    <2> HIDE DEF At
    <2> QED
      BY <1>4, <2>1
  <1>6. Chains(g, L, seg, stop, next)
    <2>1. g = [at \in 1..L + 1 |-> At(g, at)]
      <3> HIDE DEF At
      <3> QED
        BY <1>5
    <2> QED
      BY <2>1 DEF Chains
  <1> QED
    BY <1>6

\* What is chained is a sequence of the parts at those places.
LEMMA ChainTyped ==
    ASSUME NEW L \in Nat, NEW Seg, NEW seg \in [1..L -> Seg], NEW stop, NEW next,
           \A at \in 1..L : at \notin stop => next[at] \in at + 1..L + 1,
           NEW g, Chains(g, L, seg, stop, next)
    PROVE  g[1] \in Seq(Seg)
  <1> DEFINE Good == {m \in 0..L : \A at \in L + 1 - m..L + 1 : g[at] \in Seq(Seg)}
  <1>0. ASSUME NEW at \in 1..L + 1
        PROVE  g[at] = IF at > L THEN <<>>
                       ELSE <<seg[at]>> \o (IF at \in stop THEN <<>> ELSE g[next[at]])
    BY DEF Chains
  <1>1. 0 \in Good
    <2>1. L + 1 \in 1..L + 1 /\ L + 1 > L /\ \A at \in L + 1 - 0..L + 1 : at = L + 1
      OBVIOUS
    <2>2. g[L + 1] = <<>> /\ <<>> \in Seq(Seg)
      <3>1. g[L + 1] = <<>>
        <4> HIDE DEF Good
        <4> QED
          BY <1>0, <2>1
      <3>2. <<>> \in Seq(Seg)
        OBVIOUS
      <3> QED
        BY <3>1, <3>2
    <2>3. 0 \in 0..L /\ \A at \in L + 1 - 0..L + 1 : g[at] \in Seq(Seg)
      <3>1. 0 \in 0..L
        OBVIOUS
      <3> QED
        BY <2>1, <2>2, <3>1
    <2> QED
      BY <2>3
  <1>2. ASSUME NEW m \in 1..L, m - 1 \in Good PROVE m \in Good
    <2> DEFINE k == L + 1 - m
    <2>1. k \in 1..L /\ k \in 1..L + 1 /\ ~(k > L) /\ k + 1 = L + 1 - (m - 1)
      OBVIOUS
    <2>2. \A at \in k + 1..L + 1 : g[at] \in Seq(Seg)
      BY <1>2, <2>1
    <2> HIDE DEF k
    <2>3. k \notin stop => g[next[k]] \in Seq(Seg)
      BY <2>1, <2>2
    <2>4. g[k] = <<seg[k]>> \o (IF k \in stop THEN <<>> ELSE g[next[k]])
      BY <1>0, <2>1
    <2>5. g[k] \in Seq(Seg)
      <3> DEFINE a == <<seg[k]>>
                 b == IF k \in stop THEN <<>> ELSE g[next[k]]
      <3>1. a \in Seq(Seg) /\ b \in Seq(Seg)
        BY <2>1, <2>3
      <3> HIDE DEF a, b
      <3>2. a \o b \in Seq(Seg)
        BY <3>1
      <3> QED
        BY <2>4, <3>2 DEF a, b
    <2>6. \A at \in k..L + 1 : at = k \/ at \in k + 1..L + 1
      BY <2>1
    <2>7. m \in 0..L
      OBVIOUS
    <2> QED
      BY <2>2, <2>5, <2>6, <2>7 DEF k
  <1>3. \A m \in 0..L : m \in Good
    <2> HIDE DEF Good
    <2> QED
      BY <1>1, <1>2, AlongRow
  <1>4. L \in 0..L /\ L + 1 - L = 1 /\ 1 \in 1..L + 1
    OBVIOUS
  <1>5. \A at \in L + 1 - L..L + 1 : g[at] \in Seq(Seg)
    BY <1>3, <1>4
  <1> QED
    BY <1>4, <1>5

\* The units of a duration.
Units == OneLetter \cup TwoLetter

LEMMA UnitLengths ==
    /\ Units = {<<"n", "s">>, <<"u", "s">>, <<"m", "s">>, <<"s">>, <<"m">>, <<"h">>}
    /\ \A u \in TwoLetter : Len(u) = 2
    /\ \A u \in OneLetter : Len(u) = 1
    /\ <<>> \notin Units
  BY DEF Units, OneLetter, TwoLetter

\* The unit that is read is one of them, or none, and within the text.
LEMMA UnitFound ==
    ASSUME NEW text \in Seq(STRING)
    PROVE  /\ UnitAt(text) \in Units \cup {<<>>}
           /\ Len(UnitAt(text)) \in Nat /\ Len(UnitAt(text)) <= Len(text)
  <1> DEFINE units == {u \in Units : IsPrefix(u, text)}
             unit == CHOOSE u \in units : \A v \in units : Len(u) >= Len(v)
  <1>1. UnitAt(text) = IF units = {} THEN <<>> ELSE unit
    BY DEF UnitAt, Units
  <1>2. \A u \in units : u \in Units /\ Len(u) \in {1, 2} /\ Len(u) <= Len(text)
    BY UnitLengths DEF IsPrefix, Units
  <1>3. units # {} => unit \in units
    <2> SUFFICES ASSUME units # {} PROVE \E u \in units : \A v \in units : Len(u) >= Len(v)
      OBVIOUS
    <2> HIDE DEF units
    <2>1. CASE \E u \in units : Len(u) = 2
      BY <1>2, <2>1
    <2>2. CASE ~ \E u \in units : Len(u) = 2
      BY <1>2, <2>2
    <2> QED
      BY <2>1, <2>2
  <1> HIDE DEF unit, units
  <1>4. CASE units = {}
    <2>1. Len(text) \in Nat /\ Len(<<>>) = 0
      OBVIOUS
    <2> QED
      BY <1>1, <1>4, <2>1
  <1>5. CASE units # {}
    <2>1. unit \in units /\ UnitAt(text) = unit
      BY <1>1, <1>3, <1>5
    <2>2. unit \in Units /\ Len(unit) \in {1, 2} /\ Len(unit) <= Len(text)
      BY <1>2, <2>1
    <2> QED
      BY <2>1, <2>2
  <1> QED
    BY <1>4, <1>5

\* So are the digits at the head of a text.
LEMMA LeadingFound ==
    ASSUME NEW text \in Seq(STRING)
    PROVE  Leading(text) \in 0..Len(text)
  <1> DEFINE n == Len(text)
             runs == {i \in 0..n : \A j \in 1..i : IsDigit(text[j])}
  <1>1. n \in Nat /\ runs \subseteq 0..n /\ 0 \in runs
    OBVIOUS
  <1>2. \E i \in runs : \A j \in runs : j <= i
    <2> DEFINE t == {i + 1 : i \in runs}
    <2>1. t \in SUBSET (1..n + 1) /\ t # {} /\ n + 1 \in Nat
      <3> HIDE DEF n, runs
      <3> QED
        BY <1>1
    <2>2. Max(t) \in t /\ \A i \in t : i <= Max(t)
      <3> HIDE DEF t, n
      <3> QED
        BY <2>1, LastExists
    <2>3. PICK m \in runs : Max(t) = m + 1
      BY <2>2
    <2>4. \A j \in runs : j + 1 <= m + 1
      BY <2>2, <2>3
    <2>5. \A j \in runs : j <= m
      <3> HIDE DEF runs, n, t
      <3> QED
        BY <1>1, <2>4
    <2> QED
      BY <2>5
  <1>3. Leading(text) = CHOOSE i \in runs : \A j \in runs : j <= i
    BY DEF Leading
  <1> HIDE DEF runs
  <1> QED
    BY <1>1, <1>2, <1>3

\* The part at a place of a text, and the place after it.
PartAt(text, at) == FirstSegment(SubSeq(text, at, Len(text)), Leading(SubSeq(text, at, Len(text))))
NextAt(text, at) == at + Leading(SubSeq(text, at, Len(text))) + Len(PartAt(text, at).unit)

\* A part has a number and a unit, or an error.
Parts == {s \in [number : Answers, unit : Units \cup {<<>>}] :
            s.number.error = "none" => s.unit \in Units /\ s.number.value \in Nat}

\* The rest of a text, as the loops see it.
LEMMA RestOf ==
    ASSUME NEW text \in Seq(STRING), NEW at \in 1..Len(text) + 1
    PROVE  /\ SubSeq(text, at, Len(text)) \in Seq(STRING)
           /\ Len(SubSeq(text, at, Len(text))) = Len(text) + 1 - at
  <1>1. Len(text) \in Nat /\ at \in Int /\ \A i \in at..Len(text) : text[i] \in STRING
    OBVIOUS
  <1>2. /\ SubSeq(text, at, Len(text)) \in Seq(STRING)
        /\ Len(SubSeq(text, at, Len(text))) = IF at <= Len(text) THEN Len(text) - at + 1 ELSE 0
    BY <1>1, SubSeqProperties
  <1> QED
    BY <1>1, <1>2

\* What is read is such a part, and it ends after its beginning, in the text.
LEMMA PartTyped ==
    ASSUME NEW text \in Seq(STRING), NEW at \in 1..Len(text)
    PROVE  /\ PartAt(text, at) \in Parts
           /\ PartAt(text, at).number.error = "none" => NextAt(text, at) \in at + 1..Len(text) + 1
  <1> DEFINE rest == SubSeq(text, at, Len(text))
             digits == Leading(rest)
             number == Number(SubSeq(rest, 1, digits), MaxU64)
             unit == UnitAt(SubSeq(rest, digits + 1, Len(rest)))
  <1>0. Len(text) \in Nat /\ at \in 1..Len(text) + 1
    OBVIOUS
  <1>1. rest \in Seq(STRING) /\ Len(rest) = Len(text) + 1 - at
    BY <1>0, RestOf
  <1>2. digits \in 0..Len(rest)
    BY <1>1, LeadingFound
  <1>3. Invalid \in Answers /\ Invalid.error # "none"
    BY DEF Invalid, Refused, Answers
  <1>4. PartAt(text, at) = FirstSegment(rest, digits) /\ NextAt(text, at) = at + digits + Len(PartAt(text, at).unit)
    BY DEF PartAt, NextAt
  <1>5. CASE digits = 0
    <2>1. FirstSegment(rest, digits) = [number |-> Invalid, unit |-> <<>>]
      BY <1>5 DEF FirstSegment
    <2> HIDE DEF digits
    <2> QED
      BY <1>3, <1>4, <2>1 DEF Parts
  <1>6. CASE digits # 0
    <2>1. SubSeq(rest, 1, digits) \in Seq(STRING)
      <3> HIDE DEF rest, digits
      <3> QED
        BY <1>1, <1>2, SubSeqProperties
    <2>2. digits + 1 \in 1..Len(rest) + 1
      <3> HIDE DEF rest, digits
      <3> QED
        BY <1>1, <1>2
    <2>3. /\ SubSeq(rest, digits + 1, Len(rest)) \in Seq(STRING)
          /\ Len(SubSeq(rest, digits + 1, Len(rest))) = Len(rest) + 1 - (digits + 1)
      <3> HIDE DEF rest, digits
      <3> QED
        BY <1>1, <2>2, RestOf
    <2>4. unit \in Units \cup {<<>>} /\ Len(unit) \in Nat /\ Len(unit) <= Len(rest) - digits
      <3>1. /\ unit \in Units \cup {<<>>}
            /\ Len(unit) \in Nat /\ Len(unit) <= Len(SubSeq(rest, digits + 1, Len(rest)))
        <4> HIDE DEF rest, digits
        <4> QED
          BY <2>3, UnitFound
      <3>2. Len(rest) \in Nat
        BY <1>1
      <3> HIDE DEF unit, rest, digits
      <3> QED
        BY <1>2, <2>3, <3>1, <3>2
    <2>5. number \in Answers /\ (number.error = "none" => number.value \in Nat)
      <3>1. MaxU64 \in 0..MaxU64
        BY SignedIsSmaller
      <3> HIDE DEF rest, digits
      <3> QED
        BY <2>1, <3>1, NumberMeans
    <2>6. FirstSegment(rest, digits) = Segment(number, unit)
      BY <1>6 DEF FirstSegment
    <2> HIDE DEF number, unit, digits, rest
    <2>7. Segment(number, unit) \in Parts
      BY <1>3, <2>4, <2>5 DEF Segment, Parts
    <2>8. Segment(number, unit).unit = unit
      BY DEF Segment
    <2>9. at + digits + Len(unit) \in at + 1..Len(text) + 1
      BY <1>0, <1>1, <1>2, <1>6, <2>4
    <2>10. NextAt(text, at) = at + digits + Len(unit)
      BY <1>4, <2>6, <2>8
    <2>11. PartAt(text, at) = Segment(number, unit)
      BY <1>4, <2>6
    <2> QED
      BY <2>7, <2>9, <2>10, <2>11
  <1> QED
    BY <1>5, <1>6

\* A text is read as a sequence of parts.
LEMMA SegmentsTyped ==
    ASSUME NEW text \in Seq(STRING)
    PROVE  Segments(text) \in Seq(Parts)
  <1> DEFINE L == Len(text)
             seg == [at \in 1..L |-> PartAt(text, at)]
             stop == {at \in 1..L : PartAt(text, at).number.error # "none"}
             next == [at \in 1..L |-> NextAt(text, at)]
             Body(g) == [at \in 1..L + 1 |->
                           IF at > L THEN <<>>
                           ELSE <<PartAt(text, at)>> \o
                                  (IF PartAt(text, at).number.error # "none" THEN <<>>
                                   ELSE g[NextAt(text, at)])]
             From == CHOOSE g : g = Body(g)
  <1>1. L \in Nat
    OBVIOUS
  <1>2. Segments(text) = From[1]
    BY DEF Segments, PartAt, NextAt
  <1>3. seg \in [1..L -> Parts] /\ \A at \in 1..L : at \notin stop => next[at] \in at + 1..L + 1
    BY PartTyped
  <1>4. ASSUME NEW g PROVE (g = Body(g)) <=> Chains(g, L, seg, stop, next)
    <2> DEFINE Chained == [at \in 1..L + 1 |->
                             IF at > L THEN <<>>
                             ELSE <<seg[at]>> \o (IF at \in stop THEN <<>> ELSE g[next[at]])]
    <2>1. \A at \in 1..L + 1 : at > L \/ at \in 1..L
      BY <1>1
    <2>2. Body(g) = Chained
      BY <2>1
    <2>3. Chains(g, L, seg, stop, next) <=> g = Chained
      BY DEF Chains
    <2> HIDE DEF Body, Chained
    <2> QED
      BY <2>2, <2>3
  <1> HIDE DEF L, seg, stop, next, Body
  <1>5. \E g : Chains(g, L, seg, stop, next)
    BY <1>1, <1>3, ChainExists
  <1>6. From = Body(From)
    BY <1>4, <1>5
  <1>7. Chains(From, L, seg, stop, next)
    <2> HIDE DEF From
    <2> QED
      BY <1>4, <1>6
  <1> HIDE DEF From
  <1>8. From[1] \in Seq(Parts)
    BY <1>1, <1>3, <1>7, ChainTyped
  <1> QED
    BY <1>2, <1>8

\* One part more: the sum as seconds and a rest.
SecondsAdd(total, number, unit) ==
    LET perSecond == Second \div SubSecond(unit)
        whole == IF unit \in OneLetter THEN number * Seconds(unit) ELSE number \div perSecond
        rest == IF unit \in OneLetter THEN 0 ELSE (number % perSecond) * SubSecond(unit)
    IN  IF \/ unit \in OneLetter /\ number > MaxU64 \div Seconds(unit)
           \/ total.s > MaxU64 - whole
        THEN Overflow ELSE Carry(total.s + whole, total.n + rest)
SecondsStep(total, seg) ==
    IF total.error # "none" THEN total
    ELSE IF seg.number.error # "none" THEN seg.number
    ELSE SecondsAdd(total.value, seg.number.value, seg.unit)
SecondsSum(segments) == FoldLeft(SecondsStep, Answer([s |-> 0, n |-> 0]), segments)

\* The sum is the end of a row of its parts.
SecondsBy(segments, n, T) ==
    [p \in T \X (1..n) |-> SecondsStep(p[1], segments[p[2]])]

LEMMA SecondsRow ==
    ASSUME NEW segments,
           NEW n \in Nat, DOMAIN segments = 1..n, NEW T, Answer([s |-> 0, n |-> 0]) \in T,
           \A r \in T, i \in 1..n : SecondsStep(r, segments[i]) \in T
    PROVE  \E h : Row(h, n, T, Answer([s |-> 0, n |-> 0]), SecondsBy(segments, n, T)) /\ SecondsSum(segments) = h[n]
  <1> DEFINE base == Answer([s |-> 0, n |-> 0])
             H == SecondsBy(segments, n, T)
             Body(g) == [s \in SUBSET (1..n) |->
                           IF s = {} THEN base ELSE SecondsStep(g[s \ {Max(s)}], segments[Max(s)])]
             iter == CHOOSE g : g = Body(g)
  <1>1. SecondsSum(segments) = iter[1..n]
    BY DEF SecondsSum, FoldLeft, MapThenFoldSet
  <1>2. H \in [T \X (1..n) -> T] /\ base \in T
    BY DEF SecondsBy
  <1>3. iter = Body(iter)
    <2>1. PICK g : Iterates(g, n, T, base, H)
      <3> HIDE DEF H, base
      <3> QED
        BY <1>2, IterExists
    <2>2. ASSUME NEW s \in SUBSET (1..n)
          PROVE  g[s] = IF s = {} THEN base ELSE SecondsStep(g[s \ {Max(s)}], segments[Max(s)])
      <3>1. s # {} => Max(s) \in 1..n /\ g[s \ {Max(s)}] \in T
        BY <2>1, LastExists DEF Iterates
      <3> QED
        BY <2>1, <3>1 DEF Iterates, SecondsBy
    <2>3. g = Body(g)
      BY <2>1, <2>2 DEF Iterates
    <2> HIDE DEF Body
    <2> QED
      BY <2>3
  <1>4. Follows(iter, n, T, base, H)
    <2> HIDE DEF iter
    <2>1. iter[{}] = base
      BY <1>3
    <2>2. \A s \in SUBSET (1..n) : s # {} /\ iter[s \ {Max(s)}] \in T =>
             iter[s] = H[<<iter[s \ {Max(s)}], Max(s)>>]
      <3> TAKE s \in SUBSET (1..n)
      <3> HAVE s # {} /\ iter[s \ {Max(s)}] \in T
      <3>1. Max(s) \in 1..n
        BY LastExists
      <3> QED
        BY <1>3, <3>1 DEF SecondsBy
    <2> QED
      BY <1>2, <2>1, <2>2 DEF Follows
  <1> HIDE DEF iter, H, base
  <1>5. \E h : Row(h, n, T, base, H) /\ h[n] = iter[1..n]
    BY <1>4, IterRow
  <1> QED
    BY <1>1, <1>5 DEF H, base

LEMMA WholeSecondsIs ==
    ASSUME NEW text, NEW positive
    PROVE  LET sum == IF Len(text) < 2 THEN Invalid ELSE SecondsSum(Segments(text))
           IN  whole_seconds(text, positive) =
                 IF sum.error # "none" THEN sum
                 ELSE IF sum.value.n # 0 \/ (positive /\ sum.value.s = 0) \/ sum.value.s > MaxI64
                 THEN Invalid ELSE Answer(sum.value.s)
  BY DEF whole_seconds, AddUp, SecondsSum, SecondsStep, SecondsAdd

\* What a sum of parts may be.
Sums == {Invalid, Overflow} \cup {Answer([s |-> a, n |-> b]) : a \in Nat, b \in Nat}

\* The units have positive values, and those below a second divide it.
LEMMA UnitValues ==
    ASSUME NEW unit \in Units
    PROVE  /\ unit \in OneLetter => Seconds(unit) \in Nat \ {0}
           /\ unit \notin OneLetter => SubSecond(unit) \in Nat \ {0} /\ Second % SubSecond(unit) = 0
  <1>1. Micro \in Nat \ {0} /\ Milli \in Nat \ {0} /\ Minute \in Nat \ {0} /\ Hour \in Nat \ {0}
        /\ Second \in Nat \ {0} /\ Second % Micro = 0 /\ Second % Milli = 0 /\ Second % 1 = 0
    BY UnitsDivide
  <1>2. <<"s">> # <<"m">> /\ <<"s">> # <<"h">> /\ <<"m">> # <<"h">>
        /\ <<"n", "s">> # <<"u", "s">> /\ <<"n", "s">> # <<"m", "s">> /\ <<"u", "s">> # <<"m", "s">>
    OBVIOUS
  <1>3. CASE unit \in OneLetter
    <2>1. Seconds(<<"s">>) = 1 /\ Seconds(<<"m">>) = Minute /\ Seconds(<<"h">>) = Hour
      BY <1>2 DEF Seconds
    <2>2. unit = <<"s">> \/ unit = <<"m">> \/ unit = <<"h">>
      BY <1>3 DEF OneLetter
    <2> QED
      BY <1>1, <1>3, <2>1, <2>2
  <1>4. CASE unit \notin OneLetter
    <2>1. SubSecond(<<"n", "s">>) = 1 /\ SubSecond(<<"u", "s">>) = Micro /\ SubSecond(<<"m", "s">>) = Milli
      BY <1>2 DEF SubSecond
    <2>2. unit = <<"n", "s">> \/ unit = <<"u", "s">> \/ unit = <<"m", "s">>
      BY <1>4 DEF Units, TwoLetter
    <2> QED
      BY <1>1, <1>4, <2>1, <2>2
  <1> QED
    BY <1>3, <1>4

LEMMA Divided ==
    ASSUME NEW a \in Nat, NEW b \in Nat, b # 0
    PROVE  a \div b \in Nat /\ a % b \in Nat
  BY SMTT(30)

LEMMA ExactlyDivided ==
    ASSUME NEW a \in Nat, NEW b \in Nat, a # 0, b # 0, a % b = 0
    PROVE  a \div b \in Nat /\ a \div b # 0
  <1>1. a \div b \in Nat
    BY Divided
  <1>2. a >= b
    <2> SUFFICES ASSUME a < b PROVE FALSE
      OBVIOUS
    <2>1. a % b = a
      BY SMTT(30)
    <2> QED
      BY <2>1
  <1>3. a \div b # 0
    BY <1>2, SMTT(30)
  <1> QED
    BY <1>1, <1>3

LEMMA Multiplied ==
    ASSUME NEW a \in Nat, NEW b \in Nat
    PROVE  a * b \in Nat
  BY SMTT(30)

\* A sum that is not refused has its two parts.
LEMMA SumTyped ==
    ASSUME NEW sum \in Sums, sum.error = "none"
    PROVE  sum.value.s \in Nat /\ sum.value.n \in Nat
  <1>1. sum # Invalid /\ sum # Overflow
    BY DEF Invalid, Overflow, Refused
  <1>2. PICK a \in Nat, b \in Nat : sum = Answer([s |-> a, n |-> b])
    BY <1>1 DEF Sums
  <1> QED
    BY <1>2 DEF Answer

LEMMA CarryTyped ==
    ASSUME NEW a \in Nat, NEW b \in Nat
    PROVE  Carry(a, b) \in Sums
  <1>1. Second \in Nat
    BY UnitsDivide
  <1>2. CASE b < Second
    BY <1>2 DEF Carry, Sums
  <1>3. CASE ~(b < Second) /\ a = MaxU64
    BY <1>3 DEF Carry, Sums
  <1>4. CASE ~(b < Second) /\ a # MaxU64
    <2>1. a + 1 \in Nat /\ b - Second \in Nat
      BY <1>1, <1>4
    <2>2. Carry(a, b) = Answer([s |-> a + 1, n |-> b - Second])
      BY <1>4 DEF Carry
    <2> QED
      BY <2>1, <2>2 DEF Sums
  <1> QED
    BY <1>2, <1>3, <1>4

\* One part more makes a sum.
LEMMA SecondsStepTyped ==
    ASSUME NEW total \in Sums, NEW seg \in Parts
    PROVE  SecondsStep(total, seg) \in Sums
  <1>1. CASE total.error # "none"
    BY <1>1 DEF SecondsStep
  <1>2. CASE total.error = "none" /\ seg.number.error # "none"
    <2>1. seg.number \in Answers
      BY DEF Parts
    <2>2. seg.number \in {Invalid, Overflow}
      BY <1>2, <2>1 DEF Answers, Answer
    <2> QED
      BY <1>2, <2>2 DEF SecondsStep, Sums
  <1>3. CASE total.error = "none" /\ seg.number.error = "none"
    <2> DEFINE number == seg.number.value
               unit == seg.unit
               perSecond == Second \div SubSecond(unit)
               whole == IF unit \in OneLetter THEN number * Seconds(unit) ELSE number \div perSecond
               rest == IF unit \in OneLetter THEN 0 ELSE (number % perSecond) * SubSecond(unit)
    <2>1. total.value.s \in Nat /\ total.value.n \in Nat
      BY <1>3, SumTyped
    <2>2. number \in Nat /\ unit \in Units
      BY <1>3 DEF Parts
    <2>3. /\ unit \in OneLetter => Seconds(unit) \in Nat \ {0}
          /\ unit \notin OneLetter => SubSecond(unit) \in Nat \ {0} /\ Second % SubSecond(unit) = 0
      BY <2>2, UnitValues
    <2>4. Second \in Nat /\ Second # 0
      BY UnitsDivide
    <2>5. whole \in Nat /\ rest \in Nat
      <3>1. CASE unit \in OneLetter
        BY <2>2, <2>3, <3>1, Multiplied
      <3>2. CASE unit \notin OneLetter
        <4>1. perSecond \in Nat /\ perSecond # 0
          BY <2>3, <2>4, <3>2, ExactlyDivided
        <4> HIDE DEF perSecond, number, unit
        <4>2. number \div perSecond \in Nat /\ number % perSecond \in Nat
          BY <2>2, <4>1, Divided
        <4>3. (number % perSecond) * SubSecond(unit) \in Nat
          BY <2>3, <3>2, <4>2, Multiplied
        <4> QED
          BY <3>2, <4>2, <4>3
      <3> QED
        BY <3>1, <3>2
    <2>6. SecondsStep(total, seg) = Overflow \/ SecondsStep(total, seg) = Carry(total.value.s + whole, total.value.n + rest)
      BY <1>3 DEF SecondsStep, SecondsAdd
    <2> HIDE DEF whole, rest
    <2>7. total.value.s + whole \in Nat /\ total.value.n + rest \in Nat
      BY <2>1, <2>5
    <2>8. Carry(total.value.s + whole, total.value.n + rest) \in Sums
      BY <2>7, CarryTyped
    <2> QED
      BY <2>6, <2>8 DEF Sums
  <1> QED
    BY <1>1, <1>2, <1>3

\* The sum of the parts of a text.
LEMMA SecondsSumTyped ==
    ASSUME NEW text \in Seq(STRING)
    PROVE  SecondsSum(Segments(text)) \in Sums
  <1> DEFINE segments == Segments(text)
             n == Len(segments)
             zero == Answer([s |-> 0, n |-> 0])
  <1>1. segments \in Seq(Parts)
    BY SegmentsTyped
  <1> HIDE DEF segments
  <1>2. n \in Nat /\ DOMAIN segments = 1..n /\ \A i \in 1..n : segments[i] \in Parts
    BY <1>1
  <1>3. zero \in Sums
    <2>1. \E a \in Nat, b \in Nat : zero = Answer([s |-> a, n |-> b])
      OBVIOUS
    <2> QED
      BY <2>1 DEF Sums
  <1>4. \A r \in Sums, i \in 1..n : SecondsStep(r, segments[i]) \in Sums
    BY <1>2, SecondsStepTyped
  <1> HIDE DEF n
  <1>5. PICK h : Row(h, n, Sums, Answer([s |-> 0, n |-> 0]), SecondsBy(segments, n, Sums))
                 /\ SecondsSum(segments) = h[n]
    BY <1>2, <1>3, <1>4, SecondsRow
  <1>6. h[n] \in Sums
    BY <1>2, <1>5 DEF Row
  <1> QED
    BY <1>5, <1>6 DEF segments

\* A duration that is not refused fits the signed seconds the verify command
\* counts in, and is not zero where it must not be (whole_seconds).
THEOREM WholeSecondsRange ==
    ASSUME NEW text \in Seq(STRING), NEW positive
    PROVE  LET answer == whole_seconds(text, positive)
           IN  /\ answer \in {Invalid, Overflow} \cup {Answer(v) : v \in 0..MaxI64}
               /\ answer.error = "none" => answer.value \in 0..MaxI64 /\ (positive => answer.value # 0)
  <1> DEFINE sum == IF Len(text) < 2 THEN Invalid ELSE SecondsSum(Segments(text))
             answer == whole_seconds(text, positive)
  <1>1. sum \in Sums
    BY SecondsSumTyped DEF Sums
  <1>2. answer = IF sum.error # "none" THEN sum
                 ELSE IF sum.value.n # 0 \/ (positive /\ sum.value.s = 0) \/ sum.value.s > MaxI64
                 THEN Invalid ELSE Answer(sum.value.s)
    BY WholeSecondsIs
  <1>3. sum.error = "none" => sum.value.s \in Nat
    BY <1>1, SumTyped
  <1>4. sum.error # "none" => sum \in {Invalid, Overflow}
    BY <1>1 DEF Sums, Answer
  <1>5. MaxI64 \in Nat /\ Invalid.error # "none" /\ Overflow.error # "none"
        /\ \A v : Answer(v).error = "none" /\ Answer(v).value = v
    BY SignedIsSmaller DEF Invalid, Overflow, Refused, Answer
  <1> HIDE DEF sum, answer
  <1>6. answer \in {Invalid, Overflow} \/
        \E v \in 0..MaxI64 : answer = Answer(v) /\ (positive => v # 0)
    <2>1. CASE sum.error # "none"
      BY <1>2, <1>4, <2>1
    <2>2. CASE /\ sum.error = "none"
               /\ sum.value.n # 0 \/ (positive /\ sum.value.s = 0) \/ sum.value.s > MaxI64
      BY <1>2, <2>2
    <2>3. CASE /\ sum.error = "none"
               /\ ~(sum.value.n # 0 \/ (positive /\ sum.value.s = 0) \/ sum.value.s > MaxI64)
      <3>1. answer = Answer(sum.value.s) /\ (positive => sum.value.s # 0)
        BY <1>2, <2>3
      <3>2. sum.value.s \in 0..MaxI64
        BY <1>3, <1>5, <2>3
      <3> QED
        BY <3>1, <3>2
    <2> QED
      BY <2>1, <2>2, <2>3
  <1> QED
    BY <1>5, <1>6 DEF answer

-----------------------------------------------------------------------------
(* Checks.  A row of checks that finds no error has made each of them, and *)
(* each says something of what it looked at.                               *)

LEMMA KindsAreErrors ==
    "none" \notin {Malformed, Limit, Untrusted, Unsupported, "unsupported_version"}
  BY DEF Malformed, Limit, Untrusted, Unsupported

\* A number or a duration without a fault was answered.
LEMMA NoFault ==
    ASSUME NEW answer, Fault(answer) = "none"
    PROVE  answer # Invalid /\ answer # Overflow
  BY KindsAreErrors DEF Fault, Unless, ++

LEMMA NotFaulty ==
    ASSUME NEW text \in Seq(STRING), NEW positive, Fault(whole_seconds(text, positive)) = "none"
    PROVE  /\ whole_seconds(text, positive).error = "none"
           /\ whole_seconds(text, positive).value \in 0..MaxI64
           /\ positive => whole_seconds(text, positive).value # 0
  <1> DEFINE answer == whole_seconds(text, positive)
  <1>1. answer # Invalid /\ answer # Overflow
    BY NoFault
  <1>2. /\ answer \in {Invalid, Overflow} \cup {Answer(v) : v \in 0..MaxI64}
        /\ answer.error = "none" => answer.value \in 0..MaxI64 /\ (positive => answer.value # 0)
    BY WholeSecondsRange
  <1> HIDE DEF answer
  <1>3. answer.error = "none"
    BY <1>1, <1>2 DEF Answer
  <1> QED
    BY <1>2, <1>3 DEF answer

\* If something is wrong, there is a first place where it is.
LEMMA FirstBad ==
    ASSUME NEW n \in Nat, NEW f, \E i \in 1..n : f[i] # "none"
    PROVE  \E i \in 1..n : f[i] # "none" /\ \A j \in 1..i - 1 : f[j] = "none"
  <1> SUFFICES ASSUME \A i \in 1..n : f[i] # "none" => \E j \in 1..i - 1 : f[j] # "none"
               PROVE  FALSE
    OBVIOUS
  <1> DEFINE Good == {k \in 0..n : \A j \in 1..k : f[j] = "none"}
  <1>1. 0 \in Good
    OBVIOUS
  <1>2. ASSUME NEW k \in 1..n, k - 1 \in Good PROVE k \in Good
    <2>1. \A j \in 1..k - 1 : f[j] = "none"
      BY <1>2
    <2>2. f[k] = "none"
      BY <2>1
    <2>3. \A j \in 1..k : j = k \/ j \in 1..k - 1
      OBVIOUS
    <2> QED
      BY <2>1, <2>2, <2>3
  <1>3. \A k \in 0..n : k \in Good
    <2> HIDE DEF Good
    <2> QED
      BY <1>1, <1>2, AlongRow
  <1>4. n \in Good
    BY <1>3
  <1> QED
    BY <1>4

LEMMA LimitNamesAre ==
    /\ DOMAIN LimitNames = 1..5
    /\ ToSet(LimitNames) = {LimitNames[1], LimitNames[2], LimitNames[3], LimitNames[4], LimitNames[5]}
    /\ LimitNames[1] = "max_token_bytes" /\ LimitNames[2] = "max_evidence_bytes"
    /\ LimitNames[3] = "max_ssh_certificate_bytes" /\ LimitNames[4] = "max_offered_key_chars"
    /\ LimitNames[5] = "max_authorized_keys_output_chars"
  <1>1. DOMAIN LimitNames = 1..5
    BY DEF LimitNames
  <1>2. 1..5 = {1, 2, 3, 4, 5}
    OBVIOUS
  <1>3. ToSet(LimitNames) = {LimitNames[1], LimitNames[2], LimitNames[3], LimitNames[4], LimitNames[5]}
    BY <1>1, <1>2 DEF ToSet
  <1> QED
    BY <1>1, <1>3 DEF LimitNames

\* The sizes are there, and within their limits.
LEMMA LimitsChecked ==
    ASSUME NEW value, resource_limits(value) = "none"
    PROVE  /\ DOMAIN value = ToSet(LimitNames)
           /\ \A name \in ToSet(LimitNames) : value[name] \in 1..MaxSize[name]
  <1> DEFINE SizeError(i) == size_member(value[LimitNames[i]], MaxSize[LimitNames[i]])
             f == [i \in 1..5 |-> SizeError(i)]
  <1>1. ExactMembers(value, ToSet(LimitNames), {}) /\ FirstError(DOMAIN LimitNames, SizeError) = "none"
    BY KindsAreErrors DEF resource_limits, Unless, ++
  <1>2. \A i \in 1..5 : SizeError(i) = "none"
    <2> SUFFICES ASSUME \E i \in 1..5 : SizeError(i) # "none" PROVE FALSE
      OBVIOUS
    <2> HIDE DEF SizeError
    <2>1. \E i \in 1..5 : f[i] # "none"
      OBVIOUS
    <2>2. PICK i \in 1..5 : f[i] # "none" /\ \A j \in 1..i - 1 : f[j] = "none"
      <3> HIDE DEF f
      <3> QED
        BY <2>1, FirstBad
    <2>3. \A j \in 1..i - 1 : j \in 1..5
      OBVIOUS
    <2>4. SizeError(i) # "none" /\ \A j \in 1..i - 1 : SizeError(j) = "none"
      BY <2>2, <2>3
    <2> QED
      BY <1>1, <2>4, LimitNamesAre DEF FirstError
  <1>3. \A i \in 1..5 : value[LimitNames[i]] \in 1..MaxSize[LimitNames[i]]
    BY <1>2, KindsAreErrors DEF size_member, Unless
  <1>4. DOMAIN value = ToSet(LimitNames)
    BY <1>1 DEF ExactMembers
  <1> QED
    BY <1>3, <1>4, LimitNamesAre DEF ToSet

LEMMA ListsAre ==
    /\ DOMAIN Lists = 1..6
    /\ Lists[1] = "audiences" /\ Lists[2] = "issuer_algorithms" /\ Lists[3] = "caller_algorithms"
    /\ Lists[4] = "evidence_profiles" /\ Lists[5] = "binding_profiles"
    /\ Lists[6] = "acquisition_profiles"
    /\ ToSet(Lists) = {"audiences", "issuer_algorithms", "caller_algorithms", "evidence_profiles",
                       "binding_profiles", "acquisition_profiles"}
  <1>1. DOMAIN Lists = 1..6
    BY DEF Lists
  <1>2. /\ Lists[1] = "audiences" /\ Lists[2] = "issuer_algorithms" /\ Lists[3] = "caller_algorithms"
        /\ Lists[4] = "evidence_profiles" /\ Lists[5] = "binding_profiles"
        /\ Lists[6] = "acquisition_profiles"
    BY DEF Lists
  <1>3. 1..6 = {1, 2, 3, 4, 5, 6}
    OBVIOUS
  <1>4. ToSet(Lists) = {Lists[1], Lists[2], Lists[3], Lists[4], Lists[5], Lists[6]}
    BY <1>1, <1>3 DEF ToSet
  <1> QED
    BY <1>1, <1>2, <1>4

\* A key source names a file.
LEMMA KeySourceChecked ==
    ASSUME NEW source, NEW keys, KeySourceError(source, keys) = "none"
    PROVE  DOMAIN source = {"type", "path"}
  <1>1. ExactMembers(source, {"type", "path"}, {})
    BY KindsAreErrors DEF KeySourceError, Unless, ++
  <1> QED
    BY <1>1 DEF ExactMembers

\* What the checks of a policy say.
PolicyIsChecked(policy, taken, keys) ==
    /\ ExactMembers(policy, PolicyMembers, PolicyOptions)
    /\ policy["policy_id"] \in PolicyIds \ taken /\ policy["issuer"] \in HttpsUris
    /\ policy["certificate_principal_claim"] \notin {"", NotText}
    /\ \A i \in DOMAIN Lists : StringSet(policy[Lists[i]], TRUE)
    /\ Supported(policy)
    /\ "authorized_parties" \in DOMAIN policy => StringSet(policy["authorized_parties"], TRUE)
    /\ "required_claims" \in DOMAIN policy => PredicatesOk(policy["required_claims"])
    /\ "environment_discriminator" \in DOMAIN policy => PredicateOk(policy["environment_discriminator"])
    /\ "maximum_credential_age" \in DOMAIN policy =>
         Fault(whole_seconds(policy["maximum_credential_age"], TRUE)) = "none"
    /\ "maximum_identity_lifetime" \in DOMAIN policy =>
         Fault(whole_seconds(policy["maximum_identity_lifetime"], TRUE)) = "none"
    /\ "audit_identity_claim" \in DOMAIN policy => policy["audit_identity_claim"] \in PlainNames
    /\ KeySourceError(policy["key_source"], keys) = "none"

LEMMA PolicyChecked ==
    ASSUME NEW policy, NEW taken, NEW keys, PolicyError(policy, taken, keys) = "none"
    PROVE  PolicyIsChecked(policy, taken, keys)
  BY KindsAreErrors, ZenonT(90) DEF PolicyError, PolicyIsChecked, Optional, Unless, ++

LEMMA PoliciesChecked ==
    ASSUME NEW trusted, NEW keys, NEW n \in Nat, DOMAIN trusted = 1..n,
           PoliciesError(trusted, keys) = "none"
    PROVE  \A i \in 1..n : PolicyIsChecked(trusted[i], {trusted[j]["policy_id"] : j \in 1..i - 1}, keys)
  <1> DEFINE ErrorAt(i) == PolicyError(trusted[i], {trusted[j]["policy_id"] : j \in 1..i - 1}, keys)
             f == [i \in 1..n |-> ErrorAt(i)]
  <1>1. FirstError(1..n, ErrorAt) = "none"
    BY DEF PoliciesError
  <1> SUFFICES \A i \in 1..n : ErrorAt(i) = "none"
    BY PolicyChecked
  <1> SUFFICES ASSUME \E i \in 1..n : ErrorAt(i) # "none" PROVE FALSE
    <2> HIDE DEF ErrorAt
    <2> QED
      OBVIOUS
  <1> HIDE DEF ErrorAt
  <1>2. \E i \in 1..n : f[i] # "none"
    OBVIOUS
  <1>3. PICK i \in 1..n : f[i] # "none" /\ \A j \in 1..i - 1 : f[j] = "none"
    <2> HIDE DEF f
    <2> QED
      BY <1>2, FirstBad
  <1>4. \A j \in 1..i - 1 : j \in 1..n
    OBVIOUS
  <1>5. ErrorAt(i) # "none" /\ \A j \in 1..i - 1 : ErrorAt(j) = "none"
    BY <1>3, <1>4
  <1> QED
    BY <1>1, <1>5 DEF FirstError

\* What the checks of a rule, an account and all accounts say.
RuleIsChecked(rule, count, issuers) ==
    /\ count <= MaxRules
    /\ ExactMembers(rule, {"issuer", "all", "allowed_certificate_extensions"}, {})
    /\ PredicatesOk(rule["all"]) /\ rule["issuer"] \in issuers

LEMMA RuleChecked ==
    ASSUME NEW rule, NEW count, NEW issuers, RuleError(rule, count, issuers) = "none"
    PROVE  RuleIsChecked(rule, count, issuers)
  BY KindsAreErrors DEF RuleError, RuleIsChecked, Unless, ++

AccountIsChecked(account, before, issuers) ==
    /\ account.name \in PlainNames /\ ExactMembers(account.policy, {"allow"}, {})
    /\ account.policy["allow"] # <<>>
    /\ \A j \in DOMAIN account.policy["allow"] :
         RuleIsChecked(account.policy["allow"][j], before + j, issuers)

LEMMA AccountChecked ==
    ASSUME NEW account, NEW before, NEW issuers, NEW m \in Nat,
           AccountError(account, before, issuers) = "none", DOMAIN account.policy["allow"] = 1..m
    PROVE  AccountIsChecked(account, before, issuers)
  <1> DEFINE allow == account.policy["allow"]
             ErrorAt(j) == RuleError(allow[j], before + j, issuers)
             f == [i \in 1..m |-> ErrorAt(i)]
  <1>1. /\ account.name \in PlainNames /\ ExactMembers(account.policy, {"allow"}, {}) /\ allow # <<>>
        /\ FirstError(1..m, ErrorAt) = "none"
    BY KindsAreErrors DEF AccountError, Unless, ++
  <1> SUFFICES \A i \in 1..m : ErrorAt(i) = "none"
    BY <1>1, RuleChecked DEF AccountIsChecked
  <1> SUFFICES ASSUME \E i \in 1..m : ErrorAt(i) # "none" PROVE FALSE
    <2> HIDE DEF ErrorAt
    <2> QED
      OBVIOUS
  <1> HIDE DEF ErrorAt
  <1>2. \E i \in 1..m : f[i] # "none"
    OBVIOUS
  <1>3. PICK i \in 1..m : f[i] # "none" /\ \A j \in 1..i - 1 : f[j] = "none"
    <2> HIDE DEF f
    <2> QED
      BY <1>2, FirstBad
  <1>4. \A j \in 1..i - 1 : j \in 1..m
    OBVIOUS
  <1>5. ErrorAt(i) # "none" /\ \A j \in 1..i - 1 : ErrorAt(j) = "none"
    BY <1>3, <1>4
  <1> QED
    BY <1>1, <1>5 DEF FirstError

\* The rules of the accounts before one.
RulesBefore(accounts, i) == Len(FlattenSeq([k \in 1..i - 1 |-> accounts[k].policy["allow"]]))

LEMMA AccountsChecked ==
    ASSUME NEW accounts, NEW issuers, NEW n \in Nat, DOMAIN accounts = 1..n,
           AccountsError(accounts, issuers) = "none"
    PROVE  \A i \in 1..n : AccountError(accounts[i], RulesBefore(accounts, i), issuers) = "none"
  <1> DEFINE ErrorAt(i) == AccountError(accounts[i], RulesBefore(accounts, i), issuers)
             f == [i \in 1..n |-> ErrorAt(i)]
  <1>1. FirstError(1..n, ErrorAt) = "none"
    BY DEF AccountsError, RulesBefore
  <1> SUFFICES \A i \in 1..n : ErrorAt(i) = "none"
    OBVIOUS
  <1> SUFFICES ASSUME \E i \in 1..n : ErrorAt(i) # "none" PROVE FALSE
    <2> HIDE DEF ErrorAt
    <2> QED
      OBVIOUS
  <1> HIDE DEF ErrorAt
  <1>2. \E i \in 1..n : f[i] # "none"
    OBVIOUS
  <1>3. PICK i \in 1..n : f[i] # "none" /\ \A j \in 1..i - 1 : f[j] = "none"
    <2> HIDE DEF f
    <2> QED
      BY <1>2, FirstBad
  <1>4. \A j \in 1..i - 1 : j \in 1..n
    OBVIOUS
  <1>5. ErrorAt(i) # "none" /\ \A j \in 1..i - 1 : ErrorAt(j) = "none"
    BY <1>3, <1>4
  <1> QED
    BY <1>1, <1>5 DEF FirstError

\* What the checks of a whole document say.
IssuersOf(root) == {root["trusted_issuers"][i]["issuer"] : i \in DOMAIN root["trusted_issuers"]}
ConfigurationIsChecked(root, keys) ==
    /\ ExactMembers(root, RootMembers, {"issuer_key_cache"})
    /\ Fault(whole_seconds(root["clock_skew"], FALSE)) = "none"
    /\ resource_limits(root["resource_limits"]) = "none"
    /\ duration_nanoseconds(root["total_verification_deadline"]).value \in 1..MaxDeadline
    /\ Len(root["trusted_issuers"]) <= MaxPolicies
    /\ PoliciesError(root["trusted_issuers"], keys) = "none"
    /\ AccountsError(root["accounts"], IssuersOf(root)) = "none"

LEMMA ConfigurationChecked ==
    ASSUME NEW root, NEW keys, ConfigurationError(root, keys) = "none"
    PROVE  ConfigurationIsChecked(root, keys)
  BY KindsAreErrors DEF ConfigurationError, ConfigurationIsChecked, IssuersOf, Unless, ++

-----------------------------------------------------------------------------
(* Rules.  The rules of all accounts are put in one row: what is built is  *)
(* as long as what was counted, and every rule of it was checked.          *)

\* Sequences of one set, put one after the other.
ListsIn(seqs, n, X) == \A i \in 1..n : seqs[i] \in Seq(X)
SameLength(a, b, n) == \A i \in 1..n : Len(a[i]) = Len(b[i])
FlatRow(h, seqs, n, X) ==
    h \in [0..n -> Seq(X)] /\ h[0] = <<>> /\ \A k \in 1..n : h[k] = h[k - 1] \o seqs[k]

LEMMA Joined ==
    ASSUME NEW X, NEW p \in Seq(X), NEW q \in Seq(X)
    PROVE  p \o q \in Seq(X) /\ Len(p \o q) = Len(p) + Len(q) /\ <<>> \o q = q
  OBVIOUS

LEMMA FlatRowExists ==
    ASSUME NEW n \in Nat, NEW X, NEW seqs, ListsIn(seqs, n, X)
    PROVE  \E h : FlatRow(h, seqs, n, X)
  <1> DEFINE T == Seq(X)
             H == [p \in T \X (1..n) |-> p[1] \o seqs[p[2]]]
  <1>1. H \in [T \X (1..n) -> T]
    <2>1. ASSUME NEW a \in T, NEW b \in T PROVE a \o b \in T
      OBVIOUS
    <2>2. \A i \in 1..n : seqs[i] \in T
      BY DEF ListsIn
    <2> HIDE DEF T
    <2> QED
      BY <2>1, <2>2
  <1>2. <<>> \in T
    OBVIOUS
  <1> HIDE DEF T, H
  <1>3. PICK h : Row(h, n, T, <<>>, H)
    BY <1>1, <1>2, RowExists
  <1>4. \A k \in 1..n : h[k] = h[k - 1] \o seqs[k]
    <2> TAKE k \in 1..n
    <2>1. k - 1 \in 0..n
      OBVIOUS
    <2>2. h[k - 1] \in T /\ h[k] = H[<<h[k - 1], k>>]
      BY <1>3, <2>1 DEF Row
    <2> QED
      BY <2>2 DEF H
  <1> QED
    BY <1>3, <1>4 DEF Row, FlatRow, T

\* FlattenSeq computes such a row.
LEMMA Flattens ==
    ASSUME NEW n \in Nat, NEW X, NEW seqs, ListsIn(seqs, n, X),
           NEW h, FlatRow(h, seqs, n, X), NEW m \in 0..n, NEW row, row = [k \in 1..m |-> seqs[k]]
    PROVE  FlattenSeq(row) = h[m]
  <1>1. m \in Nat /\ Len(row) = m /\ h[0] = <<>>
    BY DEF FlatRow
  <1>2. CASE m = 0
    <2>1. row = <<>>
      BY <1>2
    <2> QED
      BY <1>1, <1>2, <2>1 DEF FlattenSeq
  <1>3. CASE m # 0
    <2> DEFINE Body(f) == [i \in 1..m |-> IF i = 1 THEN row[i] ELSE f[i - 1] \o row[i]]
               flatten == CHOOSE f : f = Body(f)
               g == [i \in 1..m |-> h[i]]
    <2>1. FlattenSeq(row) = flatten[m]
      BY <1>1, <1>3 DEF FlattenSeq
    <2>2. \A i \in 1..m : i \in 1..n /\ i - 1 \in 0..n /\ (i # 1 => i - 1 \in 1..m)
      OBVIOUS
    <2>3. h[1] = seqs[1] /\ 1 \in 1..m
      <3>1. 1 \in 1..n /\ 1 - 1 = 0 /\ 1 \in 1..m
        BY <1>1, <1>3
      <3>2. seqs[1] \in Seq(X) /\ h[1] = h[1 - 1] \o seqs[1] /\ h[1 - 1] = <<>>
        BY <1>1, <3>1 DEF FlatRow, ListsIn
      <3>3. <<>> \in Seq(X)
        OBVIOUS
      <3>4. <<>> \o seqs[1] = seqs[1]
        BY <3>2, <3>3, Joined, Zenon
      <3> QED
        BY <3>1, <3>2, <3>4, Zenon
    <2>4. \A i \in 1..m : h[i] = h[i - 1] \o seqs[i]
      BY <2>2 DEF FlatRow
    <2>5. g = Body(g)
      <3>1. \A i \in 1..m : g[i] = IF i = 1 THEN row[i] ELSE g[i - 1] \o row[i]
        BY <2>2, <2>3, <2>4
      <3> HIDE DEF g
      <3>2. g = [i \in 1..m |-> g[i]]
        BY DEF g
      <3> QED
        BY <3>1, <3>2
    <2>6. flatten = Body(flatten)
      <3> HIDE DEF Body
      <3> QED
        BY <2>5
    <2> HIDE DEF flatten, g
    <2>7. \A i \in 1..m : flatten[i] = IF i = 1 THEN seqs[i] ELSE flatten[i - 1] \o seqs[i]
      BY <2>6
    <2> HIDE DEF Body
    <2> DEFINE Good == {k \in 0..m : k # 0 => flatten[k] = h[k]}
    <2>8. 0 \in Good
      BY <1>1
    <2>9. ASSUME NEW k \in 1..m, k - 1 \in Good PROVE k \in Good
      <3>1. k \in 0..m /\ (k # 1 => k - 1 # 0)
        OBVIOUS
      <3>2. flatten[k] = h[k]
        BY <2>3, <2>4, <2>7, <2>9, <3>1
      <3> QED
        BY <3>1, <3>2
    <2> HIDE DEF Good
    <2>10. \A k \in 0..m : k \in Good
      BY <1>1, <2>8, <2>9, AlongRow
    <2>11. flatten[m] = h[m]
      BY <1>1, <1>3, <2>10 DEF Good
    <2> QED
      BY <2>1, <2>11
  <1> QED
    BY <1>2, <1>3

\* Rows of sequences of the same lengths are equally long.
LEMMA SameLengths ==
    ASSUME NEW n \in Nat, NEW X, NEW Y, NEW a, NEW b,
           ListsIn(a, n, X), ListsIn(b, n, Y), SameLength(a, b, n),
           NEW g, FlatRow(g, a, n, X), NEW h, FlatRow(h, b, n, Y)
    PROVE  \A k \in 0..n : Len(g[k]) = Len(h[k])
  <1> DEFINE Good == {k \in 0..n : Len(g[k]) = Len(h[k])}
  <1>1. 0 \in Good
    BY DEF FlatRow
  <1>2. ASSUME NEW k \in 1..n, k - 1 \in Good PROVE k \in Good
    <2>1. k - 1 \in 0..n /\ k \in 0..n
      OBVIOUS
    <2>2. g[k - 1] \in Seq(X) /\ h[k - 1] \in Seq(Y) /\ Len(g[k - 1]) = Len(h[k - 1])
      BY <1>2, <2>1 DEF FlatRow
    <2>3. /\ g[k] = g[k - 1] \o a[k] /\ h[k] = h[k - 1] \o b[k]
          /\ a[k] \in Seq(X) /\ b[k] \in Seq(Y) /\ Len(a[k]) = Len(b[k])
      BY DEF FlatRow, ListsIn, SameLength
    <2>4. Len(g[k]) = Len(g[k - 1]) + Len(a[k])
      BY <2>2, <2>3, Joined, Zenon
    <2>5. Len(h[k]) = Len(h[k - 1]) + Len(b[k])
      BY <2>2, <2>3, Joined, ZenonT(60)
    <2>6. Len(g[k]) = Len(h[k])
      BY <2>2, <2>3, <2>4, <2>5, Zenon
    <2> QED
      BY <2>1, <2>6
  <1> HIDE DEF Good
  <1>3. \A k \in 0..n : k \in Good
    BY <1>1, <1>2, AlongRow
  <1> QED
    BY <1>3 DEF Good

\* A list is a sequence of what is in it.
LEMMA Listing ==
    ASSUME NEW v, IsList(v)
    PROVE  Len(v) \in Nat /\ DOMAIN v = 1..Len(v) /\ v \in Seq(ToSet(v))
  <1>1. Len(v) \in Nat /\ v = [i \in 1..Len(v) |-> v[i]]
    BY DEF IsList
  <1>2. DOMAIN v = 1..Len(v)
    BY <1>1
  <1>3. \A i \in 1..Len(v) : v[i] \in ToSet(v)
    BY <1>2 DEF ToSet
  <1>4. \E n \in Nat : v \in [1..n -> ToSet(v)]
    BY <1>1, <1>3
  <1> QED
    BY <1>1, <1>2, <1>4

\* The two lists of a document.
IsTrusted(list) == IsListOf(list, IsPolicy)
IsAccounts(list) == IsListOf(list, IsAccount)

LEMMA AllowListed ==
    ASSUME NEW account, NEW before, NEW issuers, IsAccount(account),
           AccountError(account, before, issuers) = "none"
    PROVE  /\ IsList(account.policy["allow"]) /\ \A j \in DOMAIN account.policy["allow"] :
                                                   IsRule(account.policy["allow"][j])
           /\ AccountIsChecked(account, before, issuers)
  <1>1. ExactMembers(account.policy, {"allow"}, {})
    BY KindsAreErrors DEF AccountError, Unless, ++
  <1>2. IsRules(account.policy["allow"])
    BY <1>1 DEF ExactMembers, IsAccount, May
  <1>3. /\ IsList(account.policy["allow"])
        /\ \A j \in DOMAIN account.policy["allow"] : IsRule(account.policy["allow"][j])
    BY <1>2 DEF IsRules, IsListOf
  <1>4. AccountIsChecked(account, before, issuers)
    BY <1>3, Listing, AccountChecked
  <1> QED
    BY <1>3, <1>4

\* The rules as the document has them.
RulesOf(accounts) == UNION {ToSet(accounts[i].policy["allow"]) : i \in DOMAIN accounts}

\* The rules are built from checked ones, and there are not too many.
LEMMA RulesBuilt ==
    ASSUME NEW accounts, NEW issuers, IsAccounts(accounts), AccountsError(accounts, issuers) = "none"
    PROVE  /\ Rules(accounts) \in Seq({Rule(r) : r \in RulesOf(accounts)})
           /\ Len(Rules(accounts)) <= MaxRules
           /\ \A r \in RulesOf(accounts) :
                IsRule(r) /\ ExactMembers(r, {"issuer", "all", "allowed_certificate_extensions"}, {})
                /\ PredicatesOk(r["all"]) /\ r["issuer"] \in issuers
  <1> DEFINE n == Len(accounts)
             X == RulesOf(accounts)
             Y == {Rule(r) : r \in RulesOf(accounts)}
             a == [i \in 1..n |-> accounts[i].policy["allow"]]
             b == [i \in 1..n |-> [j \in DOMAIN a[i] |-> Rule(a[i][j])]]
  <1>1. n \in Nat /\ DOMAIN accounts = 1..n /\ \A i \in 1..n : IsAccount(accounts[i])
    BY Listing DEF IsAccounts, IsListOf
  <1>2. \A i \in 1..n :
          /\ IsList(a[i]) /\ \A j \in DOMAIN a[i] : IsRule(a[i][j])
          /\ AccountIsChecked(accounts[i], RulesBefore(accounts, i), issuers)
    <2>1. \A i \in 1..n : AccountError(accounts[i], RulesBefore(accounts, i), issuers) = "none"
      BY <1>1, AccountsChecked
    <2> QED
      BY <1>1, <2>1, AllowListed
  <1>3. \A i \in 1..n : Len(a[i]) \in Nat /\ DOMAIN a[i] = 1..Len(a[i]) /\ a[i] # <<>>
    BY <1>2, Listing DEF AccountIsChecked
  <1>4. \A i \in 1..n : \A j \in DOMAIN a[i] :
          a[i][j] \in X /\ RuleIsChecked(a[i][j], RulesBefore(accounts, i) + j, issuers) /\ IsRule(a[i][j])
    BY <1>1, <1>2 DEF AccountIsChecked, RulesOf, ToSet
  <1>5. \A r \in X : \E i \in 1..n : \E j \in DOMAIN a[i] : r = a[i][j]
    BY <1>1 DEF RulesOf, ToSet
  <1>6. Rules(accounts) = FlattenSeq(b)
    BY <1>1 DEF Rules
  <1>7. ListsIn(a, n, X)
    <2> SUFFICES \A i \in 1..n : a[i] \in Seq(X)
      BY DEF ListsIn
    <2> TAKE i \in 1..n
    <2> HIDE DEF X
    <2>1. IsList(a[i]) /\ Len(a[i]) \in Nat /\ \A j \in 1..Len(a[i]) : a[i][j] \in X
      BY <1>2, <1>3, <1>4
    <2>2. a[i] = [j \in 1..Len(a[i]) |-> a[i][j]]
      BY <2>1 DEF IsList
    <2> DEFINE s == a[i]
    <2>3. s = [j \in 1..Len(s) |-> s[j]] /\ Len(s) \in Nat /\ \A j \in 1..Len(s) : s[j] \in X
      BY <2>1, <2>2
    <2> HIDE DEF s
    <2>4. s \in Seq(X)
      BY <2>3
    <2> QED
      BY <2>4 DEF s
  <1>8. ListsIn(b, n, Y) /\ SameLength(a, b, n)
    <2> SUFFICES \A i \in 1..n : b[i] \in Seq(Y) /\ Len(a[i]) = Len(b[i])
      BY DEF ListsIn, SameLength
    <2> TAKE i \in 1..n
    <2> DEFINE m == Len(a[i])
    <2>1. m \in Nat /\ b[i] = [j \in 1..m |-> Rule(a[i][j])] /\ \A j \in 1..m : Rule(a[i][j]) \in Y
      <3>1. b[i] = [j \in DOMAIN a[i] |-> Rule(a[i][j])]
        OBVIOUS
      <3> HIDE DEF a, b
      <3> QED
        BY <1>3, <1>4, <3>1
    <2> HIDE DEF b, a, Y, m
    <2>2. [j \in 1..m |-> Rule(a[i][j])] \in Seq(Y) /\ Len([j \in 1..m |-> Rule(a[i][j])]) = m
      BY <2>1
    <2> QED
      BY <2>1, <2>2 DEF m
  <1> HIDE DEF X, Y
  <1>9. PICK g : FlatRow(g, a, n, X)
    <2> HIDE DEF a, n
    <2> QED
      BY <1>1, <1>7, FlatRowExists
  <1>10. PICK h : FlatRow(h, b, n, Y)
    <2> HIDE DEF a, b, n
    <2> QED
      BY <1>1, <1>8, FlatRowExists
  <1>11. \A k \in 0..n : Len(g[k]) = Len(h[k])
    <2> HIDE DEF a, b, n
    <2> QED
      BY <1>1, <1>7, <1>8, <1>9, <1>10, SameLengths
  <1>12. FlattenSeq(b) = h[n] /\ h[n] \in Seq(Y)
    <2>1. b = [k \in 1..n |-> b[k]] /\ n \in 0..n
      BY <1>1
    <2> HIDE DEF a, b, n
    <2>2. FlattenSeq(b) = h[n]
      BY <1>1, <1>8, <1>10, <2>1, Flattens
    <2> QED
      BY <2>1, <2>2, <1>10 DEF FlatRow
  <1>13. ASSUME NEW i \in 1..n PROVE RulesBefore(accounts, i) = Len(g[i - 1])
    <2> DEFINE row == [k \in 1..i - 1 |-> accounts[k].policy["allow"]]
    <2>1. row = [k \in 1..i - 1 |-> a[k]] /\ i - 1 \in 0..n
      BY <1>1
    <2> HIDE DEF a, row, n
    <2>2. FlattenSeq(row) = g[i - 1]
      BY <1>1, <1>7, <1>9, <2>1, Flattens
    <2> QED
      BY <2>2 DEF RulesBefore, row
  <1>14. Len(h[n]) <= MaxRules
    <2>1. CASE n = 0
      <3>1. h[n] = <<>>
        BY <1>10, <2>1 DEF FlatRow
      <3>2. MaxRules \in Nat
        BY ConfigLimits
      <3> QED
        BY <3>1, <3>2
    <2>2. CASE n # 0
      <3> DEFINE m == Len(a[n])
      <3>1. n \in 1..n /\ n - 1 \in 0..n /\ n \in 0..n
        BY <1>1, <2>2
      <3>2. m \in Nat /\ m \in 1..m /\ m \in DOMAIN a[n]
        <4>1. m \in Nat /\ DOMAIN a[n] = 1..m /\ a[n] # <<>> /\ a[n] \in Seq(X)
          BY <1>3, <1>7, <3>1 DEF ListsIn
        <4>2. m # 0
          <5> DEFINE s == a[n]
          <5>1. s \in Seq(X) /\ s # <<>>
            BY <4>1
          <5> HIDE DEF s
          <5>2. Len(s) # 0
            BY <5>1
          <5> QED
            BY <5>2 DEF s
        <4> HIDE DEF m
        <4> QED
          BY <4>1, <4>2
      <3>3. RulesBefore(accounts, n) + m <= MaxRules
        <4> HIDE DEF a, m, n
        <4> QED
          BY <1>4, <3>1, <3>2 DEF RuleIsChecked
      <3>4. g[n] = g[n - 1] \o a[n] /\ g[n - 1] \in Seq(X) /\ a[n] \in Seq(X)
        BY <1>7, <1>9, <3>1 DEF FlatRow, ListsIn
      <3>5. Len(g[n]) = Len(g[n - 1]) + m
        BY <3>4
      <3>6. Len(g[n]) <= MaxRules
        BY <1>13, <3>1, <3>3, <3>5
      <3> QED
        BY <1>11, <3>1, <3>6
    <2> QED
      BY <2>1, <2>2
  <1>15. \A r \in X : IsRule(r) /\ ExactMembers(r, {"issuer", "all", "allowed_certificate_extensions"}, {})
                      /\ PredicatesOk(r["all"]) /\ r["issuer"] \in issuers
    <2> HIDE DEF a, n
    <2> QED
      BY <1>4, <1>5 DEF RuleIsChecked
  <1> QED
    BY <1>6, <1>12, <1>14, <1>15 DEF X, Y

-----------------------------------------------------------------------------
(* Policies.  Admitting the rules one after the other gives each policy    *)
(* the claims of all the rules of its issuer.                              *)

\* The policies after the last rule are the end of a row.
AdmitBy(rules, n, T) ==
    [p \in T \X (1..n) |-> Admit(p[1], rules[p[2]])]

LEMMA AdmitRow ==
    ASSUME NEW policies, NEW rules,
           NEW n \in Nat, DOMAIN rules = 1..n, NEW T, policies \in T,
           \A r \in T, i \in 1..n : Admit(r, rules[i]) \in T
    PROVE  \E h : Row(h, n, T, policies, AdmitBy(rules, n, T)) /\ FoldLeft(Admit, policies, rules) = h[n]
  <1> DEFINE base == policies
             H == AdmitBy(rules, n, T)
             Body(g) == [s \in SUBSET (1..n) |->
                           IF s = {} THEN base ELSE Admit(g[s \ {Max(s)}], rules[Max(s)])]
             iter == CHOOSE g : g = Body(g)
  <1>1. FoldLeft(Admit, policies, rules) = iter[1..n]
    BY DEF FoldLeft, MapThenFoldSet
  <1>2. H \in [T \X (1..n) -> T] /\ base \in T
    BY DEF AdmitBy
  <1>3. iter = Body(iter)
    <2>1. PICK g : Iterates(g, n, T, base, H)
      <3> HIDE DEF H, base
      <3> QED
        BY <1>2, IterExists
    <2>2. ASSUME NEW s \in SUBSET (1..n)
          PROVE  g[s] = IF s = {} THEN base ELSE Admit(g[s \ {Max(s)}], rules[Max(s)])
      <3>1. s # {} => Max(s) \in 1..n /\ g[s \ {Max(s)}] \in T
        BY <2>1, LastExists DEF Iterates
      <3> QED
        BY <2>1, <3>1 DEF Iterates, AdmitBy
    <2>3. g = Body(g)
      BY <2>1, <2>2 DEF Iterates
    <2> HIDE DEF Body
    <2> QED
      BY <2>3
  <1>4. Follows(iter, n, T, base, H)
    <2> HIDE DEF iter
    <2>1. iter[{}] = base
      BY <1>3
    <2>2. \A s \in SUBSET (1..n) : s # {} /\ iter[s \ {Max(s)}] \in T =>
             iter[s] = H[<<iter[s \ {Max(s)}], Max(s)>>]
      <3> TAKE s \in SUBSET (1..n)
      <3> HAVE s # {} /\ iter[s \ {Max(s)}] \in T
      <3>1. Max(s) \in 1..n
        BY LastExists
      <3> QED
        BY <1>3, <3>1 DEF AdmitBy
    <2> QED
      BY <1>2, <2>1, <2>2 DEF Follows
  <1> HIDE DEF iter, H, base
  <1>5. \E h : Row(h, n, T, base, H) /\ h[n] = iter[1..n]
    BY <1>4, IterRow
  <1> QED
    BY <1>1, <1>5 DEF H, base

\* A policy as parse_and_validate builds it.
PolicyFieldNames == {"id", "issuer", "audiences", "parties", "callers", "evidence", "bindings",
                     "acquisitions", "gqOnly", "maxAge", "lifetime", "skew", "required",
                     "principal", "audit", "admitted"}
IsPolicyRecord(p) == p = [f \in PolicyFieldNames |-> p[f]]
Admitted(p, claims) == [p EXCEPT !.admitted = @ \cup claims]

\* Claims that are admitted are added to those there were, and change no more.
LEMMA AdmittedIs ==
    ASSUME NEW p, IsPolicyRecord(p), NEW c
    PROVE  /\ IsPolicyRecord(Admitted(p, c))
           /\ Admitted(p, c)["admitted"] = p["admitted"] \cup c
           /\ \A f \in PolicyFieldNames : f # "admitted" => Admitted(p, c)[f] = p[f]
  <1>1. DOMAIN p = PolicyFieldNames
    BY DEF IsPolicyRecord
  <1>2. Admitted(p, c) = [f \in PolicyFieldNames |-> IF f = "admitted" THEN p["admitted"] \cup c ELSE p[f]]
    BY <1>1 DEF Admitted
  <1>3. "admitted" \in PolicyFieldNames
    BY DEF PolicyFieldNames
  <1> QED
    BY <1>2, <1>3 DEF IsPolicyRecord

LEMMA SamePolicy ==
    ASSUME NEW p, NEW q, IsPolicyRecord(p), IsPolicyRecord(q), \A f \in PolicyFieldNames : p[f] = q[f]
    PROVE  p = q
  BY DEF IsPolicyRecord

LEMMA AdmittedTwice ==
    ASSUME NEW p, IsPolicyRecord(p), NEW c, NEW d
    PROVE  Admitted(Admitted(p, c), d) = Admitted(p, c \cup d) /\ Admitted(p, {}) = p
  <1> DEFINE one == Admitted(p, c)
             two == Admitted(one, d)
             both == Admitted(p, c \cup d)
             none == Admitted(p, {})
  <1>1. /\ IsPolicyRecord(one) /\ one["admitted"] = p["admitted"] \cup c
        /\ \A f \in PolicyFieldNames : f # "admitted" => one[f] = p[f]
    BY AdmittedIs
  <1>2. /\ IsPolicyRecord(both) /\ both["admitted"] = p["admitted"] \cup (c \cup d)
        /\ \A f \in PolicyFieldNames : f # "admitted" => both[f] = p[f]
    BY AdmittedIs
  <1>3. /\ IsPolicyRecord(none) /\ none["admitted"] = p["admitted"] \cup {}
        /\ \A f \in PolicyFieldNames : f # "admitted" => none[f] = p[f]
    BY AdmittedIs
  <1> HIDE DEF one, both, none
  <1>4. /\ IsPolicyRecord(two) /\ two["admitted"] = one["admitted"] \cup d
        /\ \A f \in PolicyFieldNames : f # "admitted" => two[f] = one[f]
    BY <1>1, AdmittedIs
  <1> HIDE DEF two
  <1>5. \A f \in PolicyFieldNames : two[f] = both[f] /\ none[f] = p[f]
    <2> TAKE f \in PolicyFieldNames
    <2>1. CASE f = "admitted"
      BY <1>1, <1>2, <1>3, <1>4, <2>1
    <2>2. CASE f # "admitted"
      BY <1>1, <1>2, <1>3, <1>4, <2>2
    <2> QED
      BY <2>1, <2>2
  <1>6. two = both /\ none = p
    BY <1>2, <1>3, <1>4, <1>5, SamePolicy
  <1> QED
    BY <1>6 DEF two, both, none, one

\* The claims of the rules of an issuer, of those at some places.
ClaimsFor(rules, places, issuer) ==
    UNION {ClaimsOf(rules[k].all) : k \in {j \in places : rules[j].issuer = issuer}}

LEMMA ClaimsNone ==
    ASSUME NEW rules, NEW issuer
    PROVE  ClaimsFor(rules, {}, issuer) = {}
  BY DEF ClaimsFor

LEMMA ClaimsMore ==
    ASSUME NEW rules, NEW places, NEW k, NEW issuer
    PROVE  ClaimsFor(rules, places \cup {k}, issuer) =
             ClaimsFor(rules, places, issuer) \cup
               (IF rules[k].issuer = issuer THEN ClaimsOf(rules[k].all) ELSE {})
  BY DEF ClaimsFor

Admitting(policies, rules, places) ==
    [i \in DOMAIN policies |-> Admitted(policies[i], ClaimsFor(rules, places, policies[i].issuer))]
ArePolicies(policies) ==
    policies = [i \in DOMAIN policies |-> policies[i]] /\ \A i \in DOMAIN policies : IsPolicyRecord(policies[i])

LEMMA AdmitsNothing ==
    ASSUME NEW policies, NEW rules, ArePolicies(policies)
    PROVE  Admitting(policies, rules, {}) = policies
  <1>1. \A i \in DOMAIN policies : Admitted(policies[i], ClaimsFor(rules, {}, policies[i].issuer)) = policies[i]
    BY ClaimsNone, AdmittedTwice DEF ArePolicies
  <1> QED
    BY <1>1 DEF Admitting, ArePolicies

\* One rule more.
LEMMA AdmitsOne ==
    ASSUME NEW policies, NEW rules, NEW places, NEW k, ArePolicies(policies)
    PROVE  Admit(Admitting(policies, rules, places), rules[k]) = Admitting(policies, rules, places \cup {k})
  <1> DEFINE had(i) == Admitted(policies[i], ClaimsFor(rules, places, policies[i].issuer))
             has(i) == Admitted(policies[i], ClaimsFor(rules, places \cup {k}, policies[i].issuer))
             more == ClaimsOf(rules[k].all)
             rule == rules[k]
  <1>1. Admit(Admitting(policies, rules, places), rule) =
          [i \in DOMAIN policies |->
             IF had(i).issuer = rule.issuer THEN Admitted(had(i), more) ELSE had(i)]
    BY DEF Admit, Admitting, Admitted
  <1>2. ASSUME NEW i \in DOMAIN policies
        PROVE  (IF had(i).issuer = rule.issuer THEN Admitted(had(i), more) ELSE had(i)) = has(i)
    <2> DEFINE p == policies[i]
               c == ClaimsFor(rules, places, p.issuer)
               d == ClaimsFor(rules, places \cup {k}, p.issuer)
    <2>1. IsPolicyRecord(p)
      BY DEF ArePolicies
    <2>2. /\ rule.issuer = p.issuer => d = c \cup more
          /\ rule.issuer # p.issuer => d = c
      <3>1. d = c \cup (IF rule.issuer = p.issuer THEN more ELSE {})
        BY ClaimsMore
      <3> HIDE DEF c, d, more, rule, p
      <3> QED
        BY <3>1
    <2> HIDE DEF p, c, d, more, rule
    <2>3. Admitted(p, c)["issuer"] = p["issuer"]
      <3>1. "issuer" \in PolicyFieldNames /\ "issuer" # "admitted"
        BY DEF PolicyFieldNames
      <3> QED
        BY <2>1, <3>1, AdmittedIs
    <2>4. Admitted(Admitted(p, c), more) = Admitted(p, c \cup more)
      BY <2>1, AdmittedTwice
    <2>5. (IF Admitted(p, c).issuer = rule.issuer THEN Admitted(Admitted(p, c), more) ELSE Admitted(p, c))
            = Admitted(p, d)
      BY <2>2, <2>3, <2>4
    <2> QED
      BY <2>5 DEF p, c, d
  <1>3. Admitting(policies, rules, places \cup {k}) = [i \in DOMAIN policies |-> has(i)]
    BY DEF Admitting
  <1> HIDE DEF had, has, more
  <1>4. [i \in DOMAIN policies |-> IF had(i).issuer = rule.issuer THEN Admitted(had(i), more) ELSE had(i)]
          = [i \in DOMAIN policies |-> has(i)]
    BY <1>2
  <1> QED
    BY <1>1, <1>3, <1>4

\* All rules are admitted, whatever their order.
LEMMA AdmitsAll ==
    ASSUME NEW policies, NEW rules, NEW n \in Nat, DOMAIN rules = 1..n, ArePolicies(policies)
    PROVE  FoldLeft(Admit, policies, rules) = Admitting(policies, rules, 1..n)
  <1> DEFINE T == {Admitting(policies, rules, places) : places \in SUBSET (1..n)}
  <1>1. policies \in T
    <2>1. Admitting(policies, rules, {}) = policies
      BY AdmitsNothing
    <2>2. {} \in SUBSET (1..n)
      OBVIOUS
    <2> QED
      BY <2>1, <2>2, Zenon
  <1>2. \A r \in T, i \in 1..n : Admit(r, rules[i]) \in T
    <2> TAKE r \in T, i \in 1..n
    <2>1. PICK places \in SUBSET (1..n) : r = Admitting(policies, rules, places)
      OBVIOUS
    <2>2. Admit(Admitting(policies, rules, places), rules[i]) = Admitting(policies, rules, places \cup {i})
      BY AdmitsOne
    <2>3. places \cup {i} \in SUBSET (1..n)
      OBVIOUS
    <2> QED
      BY <2>1, <2>2, <2>3, Zenon
  <1> HIDE DEF T
  <1>3. PICK h : Row(h, n, T, policies, AdmitBy(rules, n, T)) /\ FoldLeft(Admit, policies, rules) = h[n]
    BY <1>1, <1>2, AdmitRow
  <1> DEFINE Good == {k \in 0..n : h[k] = Admitting(policies, rules, 1..k)}
  <1>4. 0 \in Good
    <2>1. 1..0 = {} /\ 0 \in 0..n
      OBVIOUS
    <2>2. h[0] = policies
      BY <1>3 DEF Row
    <2>3. Admitting(policies, rules, {}) = policies
      BY AdmitsNothing
    <2>4. h[0] = Admitting(policies, rules, 1..0)
      BY <2>1, <2>2, <2>3, Zenon
    <2> QED
      BY <2>1, <2>4
  <1>5. ASSUME NEW k \in 1..n, k - 1 \in Good PROVE k \in Good
    <2>1. k - 1 \in 0..n /\ k \in 0..n /\ 1..k = (1..k - 1) \cup {k}
      OBVIOUS
    <2>2. h[k - 1] \in T /\ h[k] = AdmitBy(rules, n, T)[<<h[k - 1], k>>]
      BY <1>3, <2>1 DEF Row
    <2>3. h[k] = Admit(h[k - 1], rules[k])
      BY <2>2 DEF AdmitBy
    <2>4. h[k - 1] = Admitting(policies, rules, 1..k - 1)
      BY <1>5
    <2>5. Admit(Admitting(policies, rules, 1..k - 1), rules[k]) = Admitting(policies, rules, (1..k - 1) \cup {k})
      BY AdmitsOne
    <2>6. h[k] = Admitting(policies, rules, 1..k)
      BY <2>1, <2>3, <2>4, <2>5, Zenon
    <2> QED
      BY <2>1, <2>6
  <1>6. \A k \in 0..n : k \in Good
    <2> HIDE DEF Good
    <2> QED
      BY <1>4, <1>5, AlongRow
  <1>7. n \in 0..n
    OBVIOUS
  <1> QED
    BY <1>3, <1>6, <1>7

\* What a policy requires of the claims.
RequiredOf(value) ==
    Predicates(Member(value, "required_claims", <<>>)) \cup
    {Predicate(p) : p \in {value[n] : n \in {"environment_discriminator"} \cap DOMAIN value}}

LEMMA PolicyFields ==
    ASSUME NEW value, NEW skew
    PROVE  LET p == Policy(value, skew)
           IN  /\ IsPolicyRecord(p)
               /\ p["id"] = value["policy_id"] /\ p["issuer"] = value["issuer"]
               /\ p["required"] = RequiredOf(value)
               /\ p["admitted"] = ({p["principal"], p["audit"]} \ {""}) \cup ClaimsOf(p["required"])
  <1>1. DOMAIN Policy(value, skew) = PolicyFieldNames
    BY DEF Policy, PolicyFieldNames
  <1>2. IsPolicyRecord(Policy(value, skew))
    BY DEF IsPolicyRecord, Policy, PolicyFieldNames
  <1> QED
    BY <1>2 DEF Policy, RequiredOf

\* What parse_and_validate makes of a document it accepts.
SkewOf(root) == whole_seconds(root["clock_skew"], FALSE).value
PoliciesOf(root) ==
    [i \in DOMAIN root["trusted_issuers"] |-> Policy(root["trusted_issuers"][i], SkewOf(root))]
BuiltFrom(root) ==
    [error |-> "none", skew |-> SkewOf(root),
     deadline |-> duration_nanoseconds(root["total_verification_deadline"]).value,
     limits |-> root["resource_limits"],
     trusted |-> FoldLeft(Admit, PoliciesOf(root), Rules(root["accounts"])),
     accounts |-> {a.name : a \in ToSet(root["accounts"])}, rules |-> Rules(root["accounts"]),
     facility |-> Member(root["logging"], "facility", "authpriv")]

LEMMA Parsed ==
    ASSUME NEW root, NEW keys
    PROVE  /\ ConfigurationError(root, keys) = "none" => parse_and_validate(root, keys) = BuiltFrom(root)
           /\ ConfigurationError(root, keys) # "none" =>
                parse_and_validate(root, keys) = Failed(ConfigurationError(root, keys))
           /\ parse_and_validate(root, keys).error = "none" <=> ConfigurationError(root, keys) = "none"
  <1>1. ConfigurationError(root, keys) = "none" => parse_and_validate(root, keys) = BuiltFrom(root)
    BY DEF parse_and_validate, BuiltFrom, SkewOf, PoliciesOf
  <1>2. ConfigurationError(root, keys) # "none" =>
          parse_and_validate(root, keys) = Failed(ConfigurationError(root, keys))
    BY DEF parse_and_validate
  <1>3. BuiltFrom(root).error = "none"
    BY DEF BuiltFrom
  <1>4. Failed(ConfigurationError(root, keys)).error = ConfigurationError(root, keys)
    BY DEF Failed
  <1> QED
    BY <1>1, <1>2, <1>3, <1>4, Zenon

\* The parts of a document that are read, when all members are there.
LEMMA DocumentParts ==
    ASSUME NEW root, NEW keys, IsDocument(root), ConfigurationError(root, keys) = "none"
    PROVE  /\ ConfigurationIsChecked(root, keys)
           /\ root["clock_skew"] \in Seq(STRING)
           /\ IsTrusted(root["trusted_issuers"]) /\ IsAccounts(root["accounts"])
           /\ Len(root["trusted_issuers"]) \in Nat
           /\ DOMAIN root["trusted_issuers"] = 1..Len(root["trusted_issuers"])
           /\ \A i \in 1..Len(root["trusted_issuers"]) : IsPolicy(root["trusted_issuers"][i])
           /\ \A i \in 1..Len(root["trusted_issuers"]) :
                PolicyIsChecked(root["trusted_issuers"][i],
                                {root["trusted_issuers"][j]["policy_id"] : j \in 1..i - 1}, keys)
  <1> DEFINE trusted == root["trusted_issuers"]
  <1>1. ConfigurationIsChecked(root, keys)
    BY ConfigurationChecked
  <1>2. {"clock_skew", "trusted_issuers", "accounts"} \subseteq DOMAIN root
    BY <1>1 DEF ConfigurationIsChecked, ExactMembers, RootMembers
  <1>3. root["clock_skew"] \in Seq(STRING)
    BY <1>2 DEF IsDocument, May, IsDuration
  <1>4. IsTrusted(trusted) /\ IsAccounts(root["accounts"])
    BY <1>2 DEF IsDocument, May, IsTrusted, IsAccounts
  <1>5. IsList(trusted) /\ \A i \in DOMAIN trusted : IsPolicy(trusted[i])
    BY <1>4 DEF IsTrusted, IsListOf
  <1>6. PoliciesError(trusted, keys) = "none"
    BY <1>1 DEF ConfigurationIsChecked
  <1> HIDE DEF trusted
  <1>7. Len(trusted) \in Nat /\ DOMAIN trusted = 1..Len(trusted)
    BY <1>5, Listing
  <1>8. \A i \in 1..Len(trusted) : PolicyIsChecked(trusted[i], {trusted[j]["policy_id"] : j \in 1..i - 1}, keys)
    BY <1>6, <1>7, PoliciesChecked
  <1> QED
    BY <1>1, <1>3, <1>4, <1>5, <1>7, <1>8 DEF trusted

\* The rules of an accepted document, and its policies with their claims.
LEMMA BuiltPolicies ==
    ASSUME NEW root, NEW keys, IsDocument(root), ConfigurationError(root, keys) = "none"
    PROVE  LET n == Len(root["trusted_issuers"])
               P == PoliciesOf(root)
               rules == Rules(root["accounts"])
               built == BuiltFrom(root).trusted
           IN  /\ n \in Nat /\ DOMAIN P = 1..n /\ ArePolicies(P)
               /\ DOMAIN rules = 1..Len(rules) /\ Len(rules) \in Nat
               /\ built = [i \in 1..n |-> Admitted(P[i], ClaimsFor(rules, 1..Len(rules), P[i].issuer))]
  <1> DEFINE n == Len(root["trusted_issuers"])
             P == PoliciesOf(root)
             rules == Rules(root["accounts"])
             m == Len(rules)
             built == BuiltFrom(root).trusted
  <1>1. n \in Nat /\ DOMAIN root["trusted_issuers"] = 1..n
    BY DocumentParts
  <1>2. DOMAIN P = 1..n /\ P = [i \in 1..n |-> Policy(root["trusted_issuers"][i], SkewOf(root))]
    BY <1>1 DEF PoliciesOf
  <1>3. ArePolicies(P)
    <2>1. \A i \in 1..n : P[i] = Policy(root["trusted_issuers"][i], SkewOf(root))
      BY <1>2
    <2>2. \A i \in 1..n : IsPolicyRecord(Policy(root["trusted_issuers"][i], SkewOf(root)))
      BY PolicyFields
    <2> HIDE DEF P, n
    <2>3. \A i \in 1..n : IsPolicyRecord(P[i])
      BY <2>1, <2>2
    <2>4. P = [i \in 1..n |-> P[i]]
      BY <1>2
    <2> QED
      BY <1>2, <2>3, <2>4 DEF ArePolicies
  <1>4. m \in Nat /\ DOMAIN rules = 1..m
    <2>1. IsAccounts(root["accounts"]) /\ AccountsError(root["accounts"], IssuersOf(root)) = "none"
      BY DocumentParts DEF ConfigurationIsChecked
    <2>2. rules \in Seq({Rule(r) : r \in RulesOf(root["accounts"])})
      BY <2>1, RulesBuilt
    <2> HIDE DEF rules
    <2> QED
      BY <2>2
  <1>5. built = FoldLeft(Admit, P, rules)
    BY DEF BuiltFrom
  <1>6. FoldLeft(Admit, P, rules) = Admitting(P, rules, 1..m)
    <2> HIDE DEF P, rules, m
    <2> QED
      BY <1>3, <1>4, AdmitsAll
  <1>7. Admitting(P, rules, 1..m) = [i \in 1..n |-> Admitted(P[i], ClaimsFor(rules, 1..m, P[i].issuer))]
    <2> HIDE DEF P, rules, m
    <2> QED
      BY <1>2 DEF Admitting
  <1> QED
    BY <1>1, <1>2, <1>3, <1>4, <1>5, <1>6, <1>7, Zenon

\* A policy of an accepted configuration is one of the document, with the
\* claims of its rules.
LEMMA PolicyOfDocument ==
    ASSUME NEW root, NEW keys, IsDocument(root), ConfigurationError(root, keys) = "none",
           NEW i \in 1..Len(root["trusted_issuers"])
    PROVE  LET p == BuiltFrom(root).trusted[i]
               P == Policy(root["trusted_issuers"][i], SkewOf(root))
               rules == Rules(root["accounts"])
           IN  /\ \A f \in PolicyFieldNames : f # "admitted" => p[f] = P[f]
               /\ p["admitted"] = P["admitted"] \cup ClaimsFor(rules, 1..Len(rules), P["issuer"])
  <1> DEFINE n == Len(root["trusted_issuers"])
             p == BuiltFrom(root).trusted[i]
             P == Policy(root["trusted_issuers"][i], SkewOf(root))
             rules == Rules(root["accounts"])
             c == ClaimsFor(rules, 1..Len(rules), P["issuer"])
  <1>1. DOMAIN root["trusted_issuers"] = 1..n
    BY DocumentParts
  <1>2. PoliciesOf(root)[i] = P
    BY <1>1 DEF PoliciesOf
  <1>3. BuiltFrom(root).trusted =
          [k \in 1..n |-> Admitted(PoliciesOf(root)[k],
                                   ClaimsFor(rules, 1..Len(rules), PoliciesOf(root)[k].issuer))]
    BY BuiltPolicies
  <1>4. p = Admitted(PoliciesOf(root)[i], ClaimsFor(rules, 1..Len(rules), PoliciesOf(root)[i].issuer))
    <2> HIDE DEF rules
    <2> QED
      BY <1>3
  <1>5. p = Admitted(P, c)
    BY <1>2, <1>4, Zenon
  <1>6. IsPolicyRecord(P)
    BY PolicyFields
  <1> HIDE DEF p, P, c
  <1>7. /\ Admitted(P, c)["admitted"] = P["admitted"] \cup c
        /\ \A f \in PolicyFieldNames : f # "admitted" => Admitted(P, c)[f] = P[f]
    BY <1>6, AdmittedIs
  <1>8. /\ p["admitted"] = P["admitted"] \cup c
        /\ \A f \in PolicyFieldNames : f # "admitted" => p[f] = P[f]
    BY <1>5, <1>7, Zenon
  <1> QED
    BY <1>8 DEF p, P, c

\* Whatever document is accepted, the configuration is sound: within its
\* bounds, its policies told apart, its rules about trusted issuers, and the
\* claims that reach a decision exactly those that are read
\* (parse_and_validate).
THEOREM ParsedSound ==
    ASSUME NEW root, NEW keys, IsDocument(root), parse_and_validate(root, keys).error = "none"
    PROVE  IsSound(parse_and_validate(root, keys))
  <1> DEFINE trusted == root["trusted_issuers"]
             n == Len(trusted)
             rules == Rules(root["accounts"])
             m == Len(rules)
             c == BuiltFrom(root)
  <1>0. ConfigurationError(root, keys) = "none" /\ parse_and_validate(root, keys) = c
    BY Parsed
  <1>1. /\ ConfigurationIsChecked(root, keys) /\ root["clock_skew"] \in Seq(STRING)
        /\ IsAccounts(root["accounts"]) /\ n \in Nat /\ DOMAIN trusted = 1..n
        /\ \A i \in 1..n : PolicyIsChecked(trusted[i], {trusted[j]["policy_id"] : j \in 1..i - 1}, keys)
    BY <1>0, DocumentParts
  <1>2. /\ rules \in Seq({Rule(r) : r \in RulesOf(root["accounts"])}) /\ m <= MaxRules
        /\ \A r \in RulesOf(root["accounts"]) : r["issuer"] \in IssuersOf(root)
    BY <1>1, RulesBuilt DEF ConfigurationIsChecked
  <1>3. /\ c.skew = SkewOf(root) /\ c.limits = root["resource_limits"] /\ c.rules = rules
        /\ c.deadline = duration_nanoseconds(root["total_verification_deadline"]).value
    BY DEF BuiltFrom
  <1>4. /\ DOMAIN rules = 1..m /\ m \in Nat /\ DOMAIN c.trusted = 1..n /\ Len(c.trusted) = n
    <2>1. /\ DOMAIN rules = 1..m /\ m \in Nat
          /\ c.trusted = [i \in 1..n |-> Admitted(PoliciesOf(root)[i],
                                                  ClaimsFor(rules, 1..m, PoliciesOf(root)[i].issuer))]
      BY <1>0, BuiltPolicies
    <2> HIDE DEF rules, m, n, c
    <2> QED
      BY <1>1, <2>1
  <1>5. ASSUME NEW i \in 1..n
        PROVE  /\ c.trusted[i].id = trusted[i]["policy_id"] /\ c.trusted[i].issuer = trusted[i]["issuer"]
               /\ c.trusted[i].admitted =
                    ({c.trusted[i].principal, c.trusted[i].audit} \ {""}) \cup ClaimsOf(c.trusted[i].required)
                    \cup ClaimsFor(rules, 1..m, c.trusted[i].issuer)
    <2> DEFINE p == c.trusted[i]
               P == Policy(trusted[i], SkewOf(root))
    <2>1. /\ \A f \in PolicyFieldNames : f # "admitted" => p[f] = P[f]
          /\ p["admitted"] = P["admitted"] \cup ClaimsFor(rules, 1..m, P["issuer"])
      BY <1>0, PolicyOfDocument
    <2>2. /\ P["id"] = trusted[i]["policy_id"] /\ P["issuer"] = trusted[i]["issuer"]
          /\ P["admitted"] = ({P["principal"], P["audit"]} \ {""}) \cup ClaimsOf(P["required"])
      BY PolicyFields
    <2>3. \A f \in {"id", "issuer", "principal", "audit", "required"} : f \in PolicyFieldNames /\ f # "admitted"
      BY DEF PolicyFieldNames
    <2> HIDE DEF p, P
    <2>4. p["id"] = P["id"] /\ p["issuer"] = P["issuer"] /\ p["principal"] = P["principal"]
          /\ p["audit"] = P["audit"] /\ p["required"] = P["required"]
      BY <2>1, <2>3
    <2>5. p["admitted"] = (({p["principal"], p["audit"]} \ {""}) \cup ClaimsOf(p["required"]))
                          \cup ClaimsFor(rules, 1..m, p["issuer"])
      BY <2>1, <2>2, <2>4, Zenon
    <2> QED
      BY <2>2, <2>4, <2>5 DEF p
  <1>6. c.skew \in 0..MaxI64
    <2>1. Fault(whole_seconds(root["clock_skew"], FALSE)) = "none"
      BY <1>1 DEF ConfigurationIsChecked
    <2>2. whole_seconds(root["clock_skew"], FALSE).value \in 0..MaxI64
      BY <1>1, <2>1, NotFaulty
    <2> QED
      BY <1>3, <2>2 DEF SkewOf
  <1>7. c.deadline \in 1..MaxDeadline /\ n <= MaxPolicies
    BY <1>1, <1>3 DEF ConfigurationIsChecked
  <1>8. \A name \in DOMAIN c.limits : c.limits[name] \in 1..MaxSize[name]
    <2>1. resource_limits(root["resource_limits"]) = "none"
      BY <1>1 DEF ConfigurationIsChecked
    <2> QED
      BY <1>3, <2>1, LimitsChecked
  <1>9. IsInjective([i \in DOMAIN c.trusted |-> c.trusted[i].id])
    <2>1. ASSUME NEW i \in 1..n, NEW j \in 1..n, i < j PROVE trusted[i]["policy_id"] # trusted[j]["policy_id"]
      <3>1. trusted[j]["policy_id"] \notin {trusted[k]["policy_id"] : k \in 1..j - 1}
        BY <1>1 DEF PolicyIsChecked
      <3>2. i \in 1..j - 1
        BY <1>1, <2>1
      <3> QED
        BY <3>1, <3>2
    <2>2. \A i, j \in 1..n : trusted[i]["policy_id"] = trusted[j]["policy_id"] => i = j
      <3> HIDE DEF trusted
      <3> TAKE i \in 1..n, j \in 1..n
      <3> HAVE trusted[i]["policy_id"] = trusted[j]["policy_id"]
      <3>1. i < j \/ j < i \/ i = j
        BY <1>1
      <3> QED
        BY <2>1, <3>1
    <2> HIDE DEF trusted, n, c
    <2>3. \A i, j \in 1..n : c.trusted[i].id = c.trusted[j].id => i = j
      BY <1>5, <2>2
    <2> QED
      BY <1>4, <2>3 DEF IsInjective
  <1>10. {r.issuer : r \in ToSet(rules)} \subseteq {p.issuer : p \in ToSet(c.trusted)}
    <2> SUFFICES ASSUME NEW k \in 1..m PROVE rules[k].issuer \in {p.issuer : p \in ToSet(c.trusted)}
      BY <1>4 DEF ToSet
    <2>1. PICK r \in RulesOf(root["accounts"]) : rules[k] = Rule(r)
      <3> HIDE DEF rules
      <3> QED
        BY <1>2, <1>4
    <2>2. rules[k].issuer = r["issuer"] /\ r["issuer"] \in IssuersOf(root)
      <3>1. Rule(r).issuer = r["issuer"]
        BY DEF Rule
      <3> QED
        BY <1>2, <2>1, <3>1, Zenon
    <2>3. PICK i \in 1..n : r["issuer"] = trusted[i]["issuer"]
      BY <1>1, <2>2 DEF IssuersOf
    <2>4. c.trusted[i].issuer = rules[k].issuer /\ c.trusted[i] \in ToSet(c.trusted)
      <3> HIDE DEF c, rules, n, trusted
      <3> QED
        BY <1>4, <1>5, <2>2, <2>3 DEF ToSet
    <2> QED
      BY <2>4
  <1>11. ASSUME NEW p \in ToSet(c.trusted) PROVE p.admitted = ReadBy(p, c)
    <2>1. PICK i \in 1..n : p = c.trusted[i]
      BY <1>4 DEF ToSet
    <2> HIDE DEF c, rules, n, m
    <2>2. p.admitted = ({p.principal, p.audit} \ {""}) \cup ClaimsOf(p.required)
                       \cup ClaimsFor(rules, 1..m, p.issuer)
      BY <1>5, <2>1
    <2>3. ClaimsFor(rules, 1..m, p.issuer) =
            UNION {ClaimsOf(r.all) : r \in {s \in ToSet(rules) : s.issuer = p.issuer}}
      BY <1>4 DEF ClaimsFor, ToSet
    <2> QED
      BY <1>3, <2>2, <2>3 DEF ReadBy
  <1> HIDE DEF c, rules, m, n
  <1>12. IsSound(c)
    BY <1>2, <1>3, <1>4, <1>6, <1>7, <1>8, <1>9, <1>10, <1>11, SMTT(60) DEF IsSound
  <1> QED
    BY <1>0, <1>12

-----------------------------------------------------------------------------
(* The initializer.  What it writes is what it checked: it copies the      *)
(* members it lists, and a document that passes the checks has no others.  *)

LEMMA AllListed ==
    ASSUME NEW object, IsObject(object), NEW names, DOMAIN object \subseteq names
    PROVE  Listed(object, names) = object
  <1>1. names \cap DOMAIN object = DOMAIN object
    OBVIOUS
  <1>2. object = [n \in DOMAIN object |-> object[n]]
    BY DEF IsObject
  <1> QED
    BY <1>1, <1>2 DEF Listed, Restrict

LEMMA SameMember ==
    ASSUME NEW object, IsObject(object), NEW name, NEW value, value = object[name]
    PROVE  [object EXCEPT ![name] = value] = object
  <1>1. object = [n \in DOMAIN object |-> object[n]]
    BY DEF IsObject
  <1>2. [object EXCEPT ![name] = value] = [n \in DOMAIN object |-> IF n = name THEN value ELSE object[n]]
    OBVIOUS
  <1>3. \A n \in DOMAIN object : (IF n = name THEN value ELSE object[n]) = object[n]
    OBVIOUS
  <1>4. [n \in DOMAIN object |-> IF n = name THEN value ELSE object[n]] = [n \in DOMAIN object |-> object[n]]
    BY <1>3
  <1> QED
    BY <1>1, <1>2, <1>4, Zenon

\* A predicate that was checked has only the members that are copied.
LEMMA PredicateKept ==
    ASSUME NEW p, IsPredicate(p), PredicateOk(p)
    PROVE  ordered_predicate(p) = p
  <1>1. DOMAIN p \subseteq PredicateMembers \cup {"value", "values"}
    BY DEF PredicateOk, ExactMembers
  <1>2. IsObject(p)
    BY DEF IsPredicate
  <1> QED
    BY <1>1, <1>2, AllListed DEF ordered_predicate

LEMMA PredicatesKept ==
    ASSUME NEW list, IsPredicates(list), PredicatesOk(list)
    PROVE  ordered_predicates(list) = list
  <1>1. IsList(list) /\ \A i \in DOMAIN list : IsPredicate(list[i]) /\ PredicateOk(list[i])
    BY DEF IsPredicates, IsListOf, PredicatesOk
  <1>2. list = [i \in DOMAIN list |-> list[i]]
    BY <1>1, Listing DEF IsList
  <1>3. \A i \in DOMAIN list : ordered_predicate(list[i]) = list[i]
    BY <1>1, PredicateKept
  <1> QED
    BY <1>2, <1>3 DEF ordered_predicates

\* So has a policy.
LEMMA IssuerKept ==
    ASSUME NEW value, NEW taken, NEW keys, IsPolicy(value), PolicyIsChecked(value, taken, keys)
    PROVE  ordered_issuer(value) = value
  <1> DEFINE Source(source) == Listed(source, {"type", "path"})
  <1>1. IsObject(value) /\ DOMAIN value \subseteq IssuerMembers /\ "key_source" \in DOMAIN value
    BY DEF IsPolicy, PolicyIsChecked, ExactMembers, IssuerMembers, PolicyMembers
  <1>2. Listed(value, IssuerMembers) = value
    BY <1>1, AllListed
  <1>3. Source(value["key_source"]) = value["key_source"]
    <2>1. IsObject(value["key_source"])
      BY <1>1 DEF IsPolicy, May
    <2>2. DOMAIN value["key_source"] = {"type", "path"}
      BY KeySourceChecked DEF PolicyIsChecked
    <2> QED
      BY <2>1, <2>2, AllListed
  <1>4. Rewrite(value, "key_source", Source) = value
    <2> HIDE DEF Source
    <2>1. [value EXCEPT !["key_source"] = Source(value["key_source"])] = value
      BY <1>1, <1>3, SameMember
    <2> QED
      BY <2>1 DEF Rewrite
  <1>5. Rewrite(value, "required_claims", ordered_predicates) = value
    <2>1. CASE "required_claims" \notin DOMAIN value
      BY <2>1 DEF Rewrite
    <2>2. CASE "required_claims" \in DOMAIN value
      <3>1. IsPredicates(value["required_claims"]) /\ PredicatesOk(value["required_claims"])
        BY <2>2 DEF IsPolicy, May, PolicyIsChecked
      <3>2. ordered_predicates(value["required_claims"]) = value["required_claims"]
        BY <3>1, PredicatesKept
      <3>3. [value EXCEPT !["required_claims"] = ordered_predicates(value["required_claims"])] = value
        BY <1>1, <3>2, SameMember
      <3> QED
        BY <2>2, <3>3 DEF Rewrite
    <2> QED
      BY <2>1, <2>2
  <1>6. Rewrite(value, "environment_discriminator", ordered_predicate) = value
    <2>1. CASE "environment_discriminator" \notin DOMAIN value
      BY <2>1 DEF Rewrite
    <2>2. CASE "environment_discriminator" \in DOMAIN value
      <3>1. IsPredicate(value["environment_discriminator"]) /\ PredicateOk(value["environment_discriminator"])
        BY <2>2 DEF IsPolicy, May, PolicyIsChecked
      <3>2. ordered_predicate(value["environment_discriminator"]) = value["environment_discriminator"]
        BY <3>1, PredicateKept
      <3>3. [value EXCEPT !["environment_discriminator"] =
                            ordered_predicate(value["environment_discriminator"])] = value
        BY <1>1, <3>2, SameMember
      <3> QED
        BY <2>2, <3>3 DEF Rewrite
    <2> QED
      BY <2>1, <2>2
  <1>7. ordered_issuer(value) =
          Rewrite(Rewrite(Rewrite(Listed(value, IssuerMembers), "key_source", Source),
                          "required_claims", ordered_predicates),
                  "environment_discriminator", ordered_predicate)
    BY DEF ordered_issuer
  <1> HIDE DEF Source
  <1> QED
    BY <1>2, <1>4, <1>5, <1>6, <1>7

\* So have all policies of a document, and all its rules.
LEMMA TrustedKept ==
    ASSUME NEW root, NEW keys, IsDocument(root), ConfigurationError(root, keys) = "none"
    PROVE  ordered_trusted_issuers(root["trusted_issuers"]) = root["trusted_issuers"]
  <1> DEFINE trusted == root["trusted_issuers"]
             n == Len(trusted)
             taken(i) == {trusted[j]["policy_id"] : j \in 1..i - 1}
  <1>1. /\ IsTrusted(trusted) /\ n \in Nat /\ DOMAIN trusted = 1..n
        /\ \A i \in 1..n : IsPolicy(trusted[i])
        /\ \A i \in 1..n : PolicyIsChecked(trusted[i], taken(i), keys)
    BY DocumentParts
  <1>2. trusted = [i \in 1..n |-> trusted[i]]
    BY <1>1 DEF IsTrusted, IsListOf, IsList
  <1> HIDE DEF trusted, taken, n
  <1>3. \A i \in 1..n : ordered_issuer(trusted[i]) = trusted[i]
    BY <1>1, IssuerKept
  <1>4. ordered_trusted_issuers(trusted) = trusted
    BY <1>1, <1>2, <1>3 DEF ordered_trusted_issuers
  <1> QED
    BY <1>4 DEF trusted

OrderedRule(rule) ==
    [issuer |-> rule["issuer"], all |-> ordered_predicates(rule["all"]),
     allowed_certificate_extensions |-> rule["allowed_certificate_extensions"]]

LEMMA RuleKept ==
    ASSUME NEW rule, IsRule(rule), PredicatesOk(rule["all"]),
           ExactMembers(rule, {"issuer", "all", "allowed_certificate_extensions"}, {})
    PROVE  OrderedRule(rule) = rule
  <1>1. DOMAIN rule = {"issuer", "all", "allowed_certificate_extensions"}
    BY DEF ExactMembers
  <1>2. rule = [n \in DOMAIN rule |-> rule[n]] /\ IsPredicates(rule["all"])
    BY <1>1 DEF IsRule, IsObject, May
  <1>3. ordered_predicates(rule["all"]) = rule["all"]
    BY <1>2, PredicatesKept
  <1>4. rule = [issuer |-> rule["issuer"], all |-> rule["all"],
                allowed_certificate_extensions |-> rule["allowed_certificate_extensions"]]
    BY <1>1, <1>2
  <1> QED
    BY <1>3, <1>4 DEF OrderedRule

LEMMA AccountsKept ==
    ASSUME NEW accounts, NEW issuers, IsAccounts(accounts), AccountsError(accounts, issuers) = "none"
    PROVE  ordered_accounts(accounts) = accounts
  <1> DEFINE n == Len(accounts)
             allow(i) == accounts[i].policy["allow"]
  <1>1. n \in Nat /\ DOMAIN accounts = 1..n /\ accounts = [i \in 1..n |-> accounts[i]]
        /\ \A i \in 1..n : IsAccount(accounts[i])
    BY Listing DEF IsAccounts, IsListOf, IsList
  <1>2. \A r \in RulesOf(accounts) :
          IsRule(r) /\ ExactMembers(r, {"issuer", "all", "allowed_certificate_extensions"}, {})
          /\ PredicatesOk(r["all"])
    BY RulesBuilt
  <1>3. ASSUME NEW i \in 1..n
        PROVE  accounts[i] = [name |-> accounts[i].name,
                              policy |-> [allow |-> [j \in DOMAIN allow(i) |-> OrderedRule(allow(i)[j])]]]
    <2>1. /\ IsList(allow(i)) /\ DOMAIN accounts[i].policy = {"allow"} /\ IsAccount(accounts[i])
      <3>1. AccountError(accounts[i], RulesBefore(accounts, i), issuers) = "none"
        BY <1>1, AccountsChecked
      <3>2. IsAccount(accounts[i])
        BY <1>1
      <3>3. IsList(allow(i)) /\ AccountIsChecked(accounts[i], RulesBefore(accounts, i), issuers)
        BY <3>1, <3>2, AllowListed
      <3> QED
        BY <3>2, <3>3 DEF AccountIsChecked, ExactMembers
    <2>2. \A j \in DOMAIN allow(i) : OrderedRule(allow(i)[j]) = allow(i)[j]
      <3> TAKE j \in DOMAIN allow(i)
      <3>1. allow(i)[j] \in RulesOf(accounts)
        BY <1>1 DEF RulesOf, ToSet
      <3> QED
        BY <1>2, <3>1, RuleKept
    <2>3. allow(i) = [j \in DOMAIN allow(i) |-> allow(i)[j]]
      BY <2>1, Listing DEF IsList
    <2>4. allow(i) = [j \in DOMAIN allow(i) |-> OrderedRule(allow(i)[j])]
      <3> HIDE DEF allow
      <3> QED
        BY <2>2, <2>3
    <2>5. accounts[i].policy = [allow |-> allow(i)]
      BY <2>1 DEF IsAccount, IsObject
    <2>6. accounts[i] = [name |-> accounts[i].name, policy |-> accounts[i].policy]
      BY <2>1 DEF IsAccount
    <2> HIDE DEF allow
    <2> QED
      BY <2>4, <2>5, <2>6, Zenon
  <1>4. ordered_accounts(accounts) =
          [i \in 1..n |-> [name |-> accounts[i].name,
                           policy |-> [allow |-> [j \in DOMAIN allow(i) |-> OrderedRule(allow(i)[j])]]]]
    BY <1>1 DEF ordered_accounts, OrderedRule
  <1> HIDE DEF allow, n
  <1>5. [i \in 1..n |-> [name |-> accounts[i].name,
                         policy |-> [allow |-> [j \in DOMAIN allow(i) |-> OrderedRule(allow(i)[j])]]]]
          = [i \in 1..n |-> accounts[i]]
    BY <1>3
  <1> QED
    BY <1>1, <1>4, <1>5, Zenon

\* The options whose texts are numbers or durations that are read.
TextOptions(o) == \A name \in {"clock_skew"} \cup ToSet(LimitNames) : o[name] \in Seq(STRING)

\* A size without a fault is what its digits mean.
LEMMA SizeMeans ==
    ASSUME NEW text \in Seq(STRING), NEW maximum \in 1..MaxU64,
           Fault(canonical_unsigned(text, maximum)) = "none"
    PROVE  canonical_unsigned(text, maximum).value = Numeral(text)
  <1>1. canonical_unsigned(text, maximum) # Invalid /\ canonical_unsigned(text, maximum) # Overflow
    BY NoFault
  <1>2. canonical_unsigned(text, maximum) = Number(text, maximum)
    BY <1>1 DEF canonical_unsigned
  <1>3. maximum \in 0..MaxU64
    BY SignedIsSmaller
  <1>4. /\ Number(text, maximum) \in Answers
        /\ Number(text, maximum).error = "none" => Number(text, maximum).value = Numeral(text)
    BY <1>3, NumberMeans
  <1> DEFINE number == Number(text, maximum)
  <1> HIDE DEF number
  <1>5. number.error = "none"
    <2>1. number # Invalid /\ number # Overflow /\ number \in Answers
      BY <1>1, <1>2, <1>4 DEF number
    <2> QED
      BY <2>1 DEF Answers, Answer
  <1> QED
    BY <1>2, <1>4, <1>5 DEF number

LEMMA SizesMean ==
    ASSUME NEW o, TextOptions(o), OptionsError(o) = "none"
    PROVE  \A name \in ToSet(LimitNames) : canonical_unsigned(o[name], MaxSize[name]).value = Numeral(o[name])
  <1> DEFINE SizeError(i) == Fault(canonical_unsigned(o[LimitNames[i]], MaxSize[LimitNames[i]]))
             f == [i \in 1..5 |-> SizeError(i)]
  <1>1. FirstError(DOMAIN LimitNames, SizeError) = "none"
    BY KindsAreErrors DEF OptionsError, Unless, ++
  <1>2. \A i \in 1..5 : SizeError(i) = "none"
    <2> SUFFICES ASSUME \E i \in 1..5 : SizeError(i) # "none" PROVE FALSE
      OBVIOUS
    <2> HIDE DEF SizeError
    <2>1. \E i \in 1..5 : f[i] # "none"
      OBVIOUS
    <2>2. PICK i \in 1..5 : f[i] # "none" /\ \A j \in 1..i - 1 : f[j] = "none"
      <3> HIDE DEF f
      <3> QED
        BY <2>1, FirstBad
    <2>3. \A j \in 1..i - 1 : j \in 1..5
      OBVIOUS
    <2>4. SizeError(i) # "none" /\ \A j \in 1..i - 1 : SizeError(j) = "none"
      BY <2>2, <2>3
    <2> QED
      BY <1>1, <2>4, LimitNamesAre DEF FirstError
  <1> SUFFICES ASSUME NEW name \in ToSet(LimitNames)
               PROVE  canonical_unsigned(o[name], MaxSize[name]).value = Numeral(o[name])
    OBVIOUS
  <1>3. PICK i \in 1..5 : name = LimitNames[i]
    BY LimitNamesAre DEF ToSet
  <1>4. Fault(canonical_unsigned(o[name], MaxSize[name])) = "none"
    BY <1>2, <1>3
  <1>5. o[name] \in Seq(STRING) /\ MaxSize[name] \in 1..MaxU64
    BY ConfigLimits DEF TextOptions
  <1> QED
    BY <1>4, <1>5, SizeMeans

\* The policies and the accounts that an initialization is asked for.
TrustedOf(o, input) == IF o.deny_all THEN <<>> ELSE input.document["trusted_issuers"]
AccountsOf(o, input) == IF o.deny_all THEN <<>> ELSE input.document["accounts"]

LEMMA NothingListed == IsTrusted(<<>>) /\ IsAccounts(<<>>)
  BY DEF IsTrusted, IsAccounts, IsListOf, IsList

\* A document that is written without an error is the one that was asked for:
\* nothing was lost on the way, and on one line it fits in the parser's bound.
\* Its rules are never what refuses it: parse_and_validate accepts the document,
\* and load_and_validate the text that initialize returns, if laid out this
\* still fits; otherwise read_file refuses it (initialize, config.cpp:1172-1179).
THEOREM InitializedMeans ==
    ASSUME NEW o, NEW input, NEW keys, TextOptions(o),
           input.error = "none" => IsDocument(input.document),
           initialize(o, input, keys).error = "none"
    PROVE  LET root == initialize(o, input, keys).document
           IN  /\ root = Document(o, TrustedOf(o, input), AccountsOf(o, input))
               /\ IsDocument(root)
               /\ Compact(root) <= MaxBytes
               /\ parse_and_validate(root, keys).error = "none"
               /\ load_and_validate(Reread(root), keys).error = IF Readable(root) THEN "none" ELSE "state_invalid"
               /\ \A name \in ToSet(LimitNames) :
                    canonical_unsigned(o[name], MaxSize[name]).value = Numeral(o[name])
               /\ ~o.deny_all => input.error = "none"
  <1> DEFINE trusted == TrustedOf(o, input)
             accounts == AccountsOf(o, input)
             root == Document(o, trusted, accounts)
             inputError == IF o.deny_all THEN "none" ELSE InputError(input)
             sizeError == Unless(Compact(root) <= MaxBytes, Limit)
             error == OptionsError(o) ++ inputError ++ sizeError ++ ConfigurationError(root, keys)
             written == Document(o, ordered_trusted_issuers(trusted), ordered_accounts(accounts))
  <1>1. initialize(o, input, keys) =
          IF error # "none" THEN Failed(error) ELSE [error |-> "none", document |-> written]
    BY DEF initialize, TrustedOf, AccountsOf
  <1>2. error = "none" /\ initialize(o, input, keys).document = written
    <2> HIDE DEF error, written
    <2>1. Failed(error).error = error
      BY DEF Failed
    <2>2. error = "none"
      BY <1>1, <2>1
    <2> QED
      BY <1>1, <2>2
  <1>3. /\ OptionsError(o) = "none" /\ inputError = "none" /\ sizeError = "none"
        /\ ConfigurationError(root, keys) = "none"
    <2> HIDE DEF inputError, sizeError, root
    <2> QED
      BY <1>2 DEF ++
  <1>4. ~o.deny_all => /\ input.error = "none"
                       /\ {"trusted_issuers", "accounts"} \subseteq DOMAIN input.document
    BY <1>3, KindsAreErrors DEF InputError, Unless, ++, ExactMembers
  <1>5. IsTrusted(trusted) /\ IsAccounts(accounts)
    <2>1. CASE o.deny_all
      BY <2>1, NothingListed DEF TrustedOf, AccountsOf
    <2>2. CASE ~o.deny_all
      <3>1. trusted = input.document["trusted_issuers"] /\ accounts = input.document["accounts"]
        BY <2>2 DEF TrustedOf, AccountsOf
      <3>2. IsTrusted(input.document["trusted_issuers"]) /\ IsAccounts(input.document["accounts"])
        BY <1>4, <2>2 DEF IsDocument, May, IsTrusted, IsAccounts
      <3> QED
        BY <3>1, <3>2
    <2> QED
      BY <2>1, <2>2
  <1> HIDE DEF trusted, accounts, error, inputError
  <1>6. Compact(root) <= MaxBytes
    <2> HIDE DEF root
    <2> QED
      BY <1>3 DEF Unless, Limit
  <1> HIDE DEF sizeError
  <1>7. root["trusted_issuers"] = trusted /\ root["accounts"] = accounts /\ root["clock_skew"] = o["clock_skew"]
    BY DEF Document
  <1>8. IsDocument(root)
    <2>1. o["clock_skew"] \in Seq(STRING)
      BY DEF TextOptions
    <2> HIDE DEF root
    <2> QED
      BY <1>5, <1>7, <2>1 DEF IsDocument, May, IsTrusted, IsAccounts, IsDuration
  <1>9. ordered_trusted_issuers(trusted) = trusted
    <2> HIDE DEF root
    <2> QED
      BY <1>3, <1>7, <1>8, TrustedKept
  <1>10. ordered_accounts(accounts) = accounts
    <2>1. AccountsError(accounts, IssuersOf(root)) = "none"
      <3> HIDE DEF root
      <3> QED
        BY <1>3, <1>7, ConfigurationChecked DEF ConfigurationIsChecked
    <2> QED
      BY <1>5, <2>1, AccountsKept
  <1>11. written = root
    BY <1>9, <1>10
  <1> HIDE DEF written, root
  <1>12. parse_and_validate(root, keys).error = "none"
    BY <1>3, Parsed
  <1>13. \A name \in ToSet(LimitNames) : canonical_unsigned(o[name], MaxSize[name]).value = Numeral(o[name])
    BY <1>3, SizesMean
  <1>14. load_and_validate(Reread(root), keys).error = IF Readable(root) THEN "none" ELSE "state_invalid"
    <2>1. CASE Readable(root)
      BY <1>12, <2>1 DEF load_and_validate, Reread, Unless
    <2>2. CASE ~Readable(root)
      BY <2>2 DEF load_and_validate, Reread, Unless, Contents, Failed
    <2> QED
      BY <2>1, <2>2
  <1> QED
    BY <1>2, <1>4, <1>8, <1>11, <1>12, <1>13, <1>6, <1>14 DEF root, trusted, accounts
=============================================================================
