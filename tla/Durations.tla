----------------------------- MODULE Durations ------------------------------
(***************************************************************************)
(* Durations as texts: the two loops of the configuration parser, which    *)
(* add up numbers with units in unsigned 64-bit integers, and the stricter *)
(* form the initializer takes on its command line.  The radix, the units   *)
(* and the ends of the integer types are constants, so that an instance    *)
(* can be small enough for every number to be near an end.                 *)
(***************************************************************************)
EXTENDS Integers, Sequences, SequencesExt

CONSTANTS Digits,                 \* the digits in order; ten in the code
          Micro, Milli, Second,   \* nanoseconds: 1000, 10^6 and 10^9 in the code
          Minute, Hour,           \* seconds: 60 and 3600
          MaxU64, MaxI64

ASSUME UnitsDivide == {Micro, Milli, Second, Minute, Hour} \subseteq Nat \ {0}
                      /\ Second % Milli = 0 /\ Second % Micro = 0
ASSUME SignedIsSmaller == MaxU64 \in Nat /\ MaxI64 \in 1..MaxU64 /\ Second > 1
ASSUME DigitsAreListed == Digits \in Seq(STRING)

Answer(value) == [error |-> "none", value |-> value]
Refused(kind) == [error |-> kind, value |-> 0]
Overflow == Refused("resource_limit")
Invalid == Refused("malformed_input")

Radix == Len(Digits)
IsDigit(c) == c \in ToSet(Digits)
DigitOf(c) == (CHOOSE d \in 1..Radix : Digits[d] = c) - 1

(* A run of digits: every step is checked against the maximum before it is *)
(* taken.  canonical_unsigned meets its first odd character here as well.  *)
FitsLater(number, digit, maximum) == number <= maximum \div Radix
FitsDigit(number, digit, maximum) == number <= (maximum - digit) \div Radix
Number(text, maximum) ==
  LET Step(n, c) == IF n.error # "none" THEN n
                    ELSE IF ~IsDigit(c) THEN Invalid
                    ELSE IF ~FitsDigit(n.value, DigitOf(c), maximum) THEN Overflow
                    ELSE Answer((n.value * Radix + DigitOf(c)) % (MaxU64 + 1))
  IN  FoldLeft(Step, Answer(0), text)

(* The unit at the head of a text: "ms" before "m".                        *)
TwoLetter == {<<"n", "s">>, <<"u", "s">>, <<"m", "s">>}
OneLetter == {<<"s">>, <<"m">>, <<"h">>}
UnitAt(text) ==
  LET units == {u \in OneLetter \cup TwoLetter : IsPrefix(u, text)}
  IN  IF units = {} THEN <<>> ELSE CHOOSE u \in units : \A v \in units : Len(u) >= Len(v)

(* What the loops read, one number and unit after the other, up to the     *)
(* first error.                                                            *)
Leading(text) ==
  LET runs == {i \in 0..Len(text) : \A j \in 1..i : IsDigit(text[j])}
  IN  CHOOSE i \in runs : \A j \in runs : j <= i
Segment(number, unit) ==
  [number |-> IF number.error = "none" /\ unit = <<>> THEN Invalid ELSE number, unit |-> unit]
FirstSegment(text, digits) ==
  IF digits = 0 THEN [number |-> Invalid, unit |-> <<>>]
  ELSE Segment(Number(SubSeq(text, 1, digits), MaxU64), UnitAt(SubSeq(text, digits + 1, Len(text))))
Segments(text) ==
  LET From[at \in 1..Len(text) + 1] ==
        LET Chain(segment, digits) ==
              << segment >> \o (IF segment.number.error # "none" THEN <<>>
                               ELSE From[at + digits + Len(segment.unit)])
            Cut(rest, digits) == Chain(FirstSegment(rest, digits), digits)
            Scan(rest) == Cut(rest, Leading(rest))
        IN  IF at > Len(text) THEN <<>> ELSE Scan(SubSeq(text, at, Len(text)))
  IN  From[1]
AddUp(text, Add(_, _, _), zero) ==
  LET Step(total, seg) == IF total.error # "none" THEN total
                          ELSE IF seg.number.error # "none" THEN seg.number
                          ELSE Add(total.value, seg.number.value, seg.unit)
  IN  IF Len(text) < 2 THEN Invalid ELSE FoldLeft(Step, Answer(zero), Segments(text))

(* A unit in nanoseconds, or in whole seconds when it is one or more.      *)
SubSecond(unit) == CASE unit = <<"n", "s">> -> 1 [] unit = <<"u", "s">> -> Micro
                     [] unit = <<"m", "s">> -> Milli
Seconds(unit) == CASE unit = <<"s">> -> 1 [] unit = <<"m">> -> Minute [] unit = <<"h">> -> Hour
Nanos(unit) == IF unit \in TwoLetter THEN SubSecond(unit) ELSE Seconds(unit) * Second

duration_nanoseconds(text) ==
  LET Add(total, number, unit) ==
        IF number > MaxU64 \div Nanos(unit) \/ total > MaxU64 - number * Nanos(unit)
        THEN Overflow ELSE Answer(total + number * Nanos(unit))
  IN  AddUp(text, Add, 0)

(* whole_seconds: the sum as seconds and a rest below one second, which is *)
(* carried over and has to be zero in the end.                             *)
Carry(seconds, nanos) ==
  IF nanos < Second THEN Answer([s |-> seconds, n |-> nanos])
  ELSE IF seconds = MaxU64 THEN Overflow
  ELSE Answer([s |-> seconds + 1, n |-> nanos - Second])
whole_seconds(text, positive) ==
  LET Add(total, number, unit) ==
        LET perSecond == Second \div SubSecond(unit)
            whole == IF unit \in OneLetter THEN number * Seconds(unit) ELSE number \div perSecond
            rest == IF unit \in OneLetter THEN 0 ELSE (number % perSecond) * SubSecond(unit)
        IN  IF \/ unit \in OneLetter /\ number > MaxU64 \div Seconds(unit)
               \/ total.s > MaxU64 - whole
            THEN Overflow ELSE Carry(total.s + whole, total.n + rest)
      sum == AddUp(text, Add, [s |-> 0, n |-> 0])
  IN  IF sum.error # "none" THEN sum
      ELSE IF sum.value.n # 0 \/ (positive /\ sum.value.s = 0) \/ sum.value.s > MaxI64
      THEN Invalid ELSE Answer(sum.value.s)

(* The initializer: one number without a leading zero and one unit.        *)
canonical_unsigned(text, maximum) ==
  IF text = <<>> \/ (Len(text) > 1 /\ text[1] = Digits[1]) THEN Invalid
  ELSE Number(text, maximum)
canonical_duration(text) ==
  LET units == {u \in OneLetter \cup TwoLetter : IsSuffix(u, text)}
      unit == CHOOSE u \in units : \A v \in units : Len(u) >= Len(v)
      number == canonical_unsigned(SubSeq(text, 1, Len(text) - Len(unit)), MaxU64)
  IN  IF units = {} \/ Len(text) = Len(unit) THEN Invalid
      ELSE IF number.error # "none" THEN number
      ELSE duration_nanoseconds(text)

-----------------------------------------------------------------------------
(* What a text means in nanoseconds, with integers that have no end: every *)
(* way to read it as numerals with units.                                  *)
Numeral(digits) == FoldLeft(LAMBDA n, c : n * Radix + DigitOf(c), 0, digits)
Readings(text) ==
  LET From[at \in 1..Len(text) + 1] ==
        IF at > Len(text) THEN {[nanos |-> 0, largest |-> 0]}
        ELSE LET Starting(last, u) ==
                   LET number == Numeral(SubSeq(text, at, last))
                   IN  {[nanos |-> number * Nanos(u) + r.nanos,
                         largest |-> IF number > r.largest THEN number ELSE r.largest] :
                          r \in From[last + Len(u) + 1]}
             IN  UNION {Starting(p[1], p[2]) :
                          p \in {q \in (at..Len(text)) \X (OneLetter \cup TwoLetter) :
                                   /\ \A j \in at..q[1] : IsDigit(text[j])
                                   /\ IsPrefix(q[2], SubSeq(text, q[1] + 1, Len(text)))}}
  IN  From[1]

(* One numeral without a leading zero and one unit.                        *)
Canonical(text) ==
  \E u \in OneLetter \cup TwoLetter :
    /\ IsSuffix(u, text) /\ Len(text) > Len(u)
    /\ \A i \in 1..Len(text) - Len(u) : IsDigit(text[i])
    /\ text[1] = Digits[1] => Len(text) = Len(u) + 1

(* Each reader of a duration gives the meaning of its text, and refuses    *)
(* only what has none or does not fit: no wrapped sum, no lost carry from  *)
(* parts of a second, no unit read as another.  A number that is itself    *)
(* out of range is refused whatever its unit.                              *)
DurationIsExact(text) ==
  LET readings == IF text = <<>> THEN {} ELSE Readings(text)
      Gives(answer, value) == answer = Answer(value)
      Gave(answer) == answer.error = "none"
      nanos == duration_nanoseconds(text)
  IN  /\ readings = {} => ~Gave(nanos) /\ ~Gave(whole_seconds(text, FALSE))
      /\ \A r \in readings :
           /\ IF r.nanos <= MaxU64 THEN Gives(nanos, r.nanos) ELSE nanos = Overflow
           /\ \A positive \in BOOLEAN :
                LET seconds == whole_seconds(text, positive)
                    fits == /\ r.nanos % Second = 0 /\ r.nanos \div Second <= MaxI64
                            /\ positive => r.nanos > 0
                IN  IF fits /\ r.largest <= MaxU64 THEN Gives(seconds, r.nanos \div Second)
                    ELSE ~Gave(seconds)
      /\ canonical_duration(text) # nanos => ~Gave(canonical_duration(text))
      /\ Gave(canonical_duration(text)) <=> Canonical(text) /\ Gave(nanos)
=============================================================================
