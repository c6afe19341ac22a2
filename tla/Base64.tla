------------------------------- MODULE Base64 -------------------------------
(***************************************************************************)
(* The two decoders and two encoders of base64, and the compact JWS that   *)
(* is made of three Base64url segments.  A symbol carries 3*Unit bits and  *)
(* a byte 4*Unit: Unit is 2 in the code.  A text is a sequence of symbol   *)
(* values and of the marks below; the two alphabets, which differ in two   *)
(* symbols only, are left out.                                             *)
(***************************************************************************)
EXTENDS Integers, Sequences, FiniteSets

CONSTANT Unit
ASSUME UnitIsPositive == Unit \in Nat \ {0}

Pad == -1    \* '='
Dot == -2    \* '.'
Junk == -3   \* a character of no alphabet

Pow(k) == 2 ^ (k * Unit)
IsSymbol(c) == c \in 0..Pow(3) - 1

Ok(value) == [error |-> "none", value |-> value]
Error(kind) == [error |-> kind, value |-> <<>>]

(* Symbols of one group of four to bytes.  A padded position counts as 0.  *)
Sextet(text, i) == IF i > Len(text) \/ text[i] = Pad THEN 0 ELSE text[i]
ByteAt(text, i) ==
  LET g == 4 * ((i - 1) \div 3)
      S(j) == Sextet(text, g + j)
  IN  CASE i % 3 = 1 -> (S(1) * Pow(1) + S(2) \div Pow(2)) % Pow(4)
        [] i % 3 = 2 -> (S(2) * Pow(2) + S(3) \div Pow(1)) % Pow(4)
        [] OTHER     -> (S(3) * Pow(3) + S(4)) % Pow(4)
BytesOf(text, count) == [i \in 1..count |-> ByteAt(text, i)]

(* The bits of the last symbol that no byte takes are zero.                *)
PadBitsLoose(text, remainder) == TRUE
PadBitsClear(text, remainder) ==
  /\ remainder = 2 => text[Len(text)] % Pow(2) = 0
  /\ remainder = 3 => text[Len(text)] % Pow(1) = 0

DecodedSize(text) ==
  3 * (Len(text) \div 4) + (IF Len(text) % 4 = 0 THEN 0 ELSE (Len(text) % 4) - 1)

(* base64url::decode                                                       *)
Decode(text, maximum) ==
  IF maximum = 0 THEN Error("resource_limit")
  ELSE IF text = <<>> \/ Len(text) % 4 = 1 THEN Error("malformed_input")
  ELSE IF DecodedSize(text) > maximum THEN Error("resource_limit")
  ELSE IF (\E i \in 1..Len(text) : ~IsSymbol(text[i])) \/ ~PadBitsClear(text, Len(text) % 4)
  THEN Error("malformed_input")
  ELSE Ok(BytesOf(text, DecodedSize(text)))

(* decode_base64 of the command line's --key.                              *)
Pads(text) == Cardinality({i \in 1..Len(text) : text[i] = Pad})
PadsPlaced(text) ==
  /\ \A i \in 1..Len(text) : text[i] # Pad => IsSymbol(text[i])
  /\ \A i \in 1..Len(text) : text[i] = Pad => i >= Len(text) - 1
  /\ text[Len(text) - 1] = Pad => text[Len(text)] = Pad
decode_base64(text, maximum) ==
  IF text = <<>> \/ Len(text) % 4 # 0 \/ Len(text) \div 4 > (maximum + 2) \div 3
  THEN Error("malformed_input")
  ELSE IF ~PadsPlaced(text) \/ ~PadBitsClear(SubSeq(text, 1, Len(text) - Pads(text)), (4 - Pads(text)) % 4)
  THEN Error("malformed_input")
  ELSE IF 3 * (Len(text) \div 4) - Pads(text) > maximum THEN Error("resource_limit")
  ELSE Ok(BytesOf(text, 3 * (Len(text) \div 4) - Pads(text)))

(* encode_base64url and encode_base64: 24 bits at a time, the last group   *)
(* with one symbol more than it has bytes.                                 *)
SymbolAt(bytes, i) ==
  LET g == 3 * ((i - 1) \div 4)
      B(j) == IF g + j > Len(bytes) THEN 0 ELSE bytes[g + j]
      value == B(1) * Pow(8) + B(2) * Pow(4) + B(3)
  IN  (value \div Pow(9 - 3 * ((i - 1) % 4))) % Pow(3)
EncodedSize(bytes) ==
  4 * (Len(bytes) \div 3) + (IF Len(bytes) % 3 = 0 THEN 0 ELSE (Len(bytes) % 3) + 1)
encode_base64url(bytes) == [i \in 1..EncodedSize(bytes) |-> SymbolAt(bytes, i)]
encode_base64(bytes) ==
  [i \in 1..4 * ((Len(bytes) + 2) \div 3) |->
     IF i > EncodedSize(bytes) THEN Pad ELSE SymbolAt(bytes, i)]

(* parse_compact: the segments themselves, each of them decodable.         *)
Dots(text) == {i \in 1..Len(text) : text[i] = Dot}
parse_compact(text, maximum, segmentMaximum) ==
  IF maximum = 0 \/ segmentMaximum = 0 \/ Len(text) > maximum THEN Error("resource_limit")
  ELSE IF Cardinality(Dots(text)) # 2 THEN Error("malformed_input")
  ELSE LET first == CHOOSE i \in Dots(text) : \A j \in Dots(text) : i <= j
           second == CHOOSE i \in Dots(text) : i # first
           segments == << SubSeq(text, 1, first - 1), SubSeq(text, first + 1, second - 1),
                          SubSeq(text, second + 1, Len(text)) >>
           errors == [i \in 1..3 |-> Decode(segments[i], segmentMaximum).error]
           failed == {i \in 1..3 : errors[i] # "none"}
       IN  IF failed = {} THEN Ok(segments)
           ELSE Error(errors[CHOOSE i \in failed : \A j \in failed : i <= j])
-----------------------------------------------------------------------------
(* Exactness of each decoder, against the encoders.                        *)
Marks(text) == {text[i] : i \in 1..Len(text)} \ Nat
Accepted(answer) == answer.error = "none"

(* What is accepted encodes to the same text; what is refused is too long  *)
(* or is not what its own bits encode to.                                  *)
DecodeIsExact(text, maximum) ==
  LET answer == Decode(text, maximum)
      bytes == BytesOf(text, DecodedSize(text))
      canonical == text # <<>> /\ Junk \notin Marks(text) /\ Pad \notin Marks(text)
                   /\ encode_base64url(bytes) = text
  IN  IF Accepted(answer)
      THEN Len(answer.value) <= maximum /\ encode_base64url(answer.value) = text
      ELSE canonical => Len(bytes) > maximum
PaddedIsExact(text, maximum) ==
  LET answer == decode_base64(text, maximum)
  IN  Accepted(answer) => /\ Len(answer.value) \in 1..maximum
                          /\ encode_base64(answer.value) = text
EncodingsDecode(bytes, maximum) ==
  Len(bytes) \in 1..maximum =>
    /\ Decode(encode_base64url(bytes), maximum) = Ok(bytes)
    /\ decode_base64(encode_base64(bytes), maximum) = Ok(bytes)

(* Three segments that decode, between two dots, and nothing else.         *)
CompactIsExact(text, maximum) ==
  LET answer == parse_compact(text, Len(text), maximum)
      s == answer.value
      Segment(i, j) == Accepted(Decode(SubSeq(text, i, j), maximum))
  IN  IF Accepted(answer)
      THEN /\ s[1] \o <<Dot>> \o s[2] \o <<Dot>> \o s[3] = text
           /\ \A i \in 1..3 : Accepted(Decode(s[i], maximum))
      ELSE \A i, j \in Dots(text) :
             i < j => ~(Segment(1, i - 1) /\ Segment(i + 1, j - 1) /\ Segment(j + 1, Len(text)))
=============================================================================
