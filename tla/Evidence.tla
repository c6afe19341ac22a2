------------------------------ MODULE Evidence ------------------------------
(***************************************************************************)
(* Issuer evidence: the frames of the two profiles, the transcript a GQ    *)
(* proof is bound to, and the proof's equation.  A representation is a     *)
(* sequence of cells; a length or a count is one cell, a header or an      *)
(* encoded signature is Base64url, and an integer is its digits, the most  *)
(* significant first.                                                      *)
(***************************************************************************)
EXTENDS Base64, SequencesExt

CONSTANTS MaxHeader, MaxSignatureBytes, MaxEvidence,
          Rounds,            \* 8 in the code
          CellBase,          \* the base of an integer's cells: 256
          Modulus,           \* digits
          Exponent,          \* 65537
          PrivateExponent,   \* the issuer's, for the honest proofs
          Candidates,        \* the challenge is drawn from 0..Candidates-1: 2^17
          MaxRetry

ASSUME ProofConstants == {Rounds, CellBase, Exponent, PrivateExponent, Candidates, MaxRetry} \subseteq Nat \ {0}

Broken(kind) == [error |-> kind]

-----------------------------------------------------------------------------
(* A length and that many cells, never none: Reader::value of the proof    *)
(* verifier and read_text of the issuer verifier.                          *)
TextAt(cells, at, most) ==
  LET size == cells[at]
  IN  IF Len(cells) < at \/ size = 0 \/ size > Len(cells) - at \/ size > most
      THEN [error |-> "malformed_input", next |-> at, value |-> <<>>]
      ELSE [error |-> "none", next |-> at + 1 + size, value |-> SubSeq(cells, at + 1, at + size)]
AtEnd(cells, at) == at = Len(cells) + 1

parse_standard(cells) ==
  LET header == TextAt(cells, 1, MaxHeader)
      encoded == TextAt(cells, header.next, MaxHeader)
      signature == Decode(encoded.value, MaxSignatureBytes)
  IN  IF header.error # "none" \/ encoded.error # "none" \/ ~AtEnd(cells, encoded.next)
      THEN Broken("malformed_input")
      ELSE IF signature.error # "none" THEN Broken(signature.error)
      ELSE [error |-> "none", header |-> header.value, signature |-> signature.value]

gq_header(cells) ==
  LET header == TextAt(cells, 1, MaxHeader)
  IN  IF header.error # "none" THEN Broken("evidence_invalid")
      ELSE [error |-> "none", header |-> header.value]

-----------------------------------------------------------------------------
(* append_value and the transcript: every value behind its length, except  *)
(* the count of rounds.  The labels and profile names are fixed.           *)
Value(value) == <<Len(value)>> \o value
Values(values) == FlattenSeq([i \in 1..Len(values) |-> Value(values[i])])

(* A statement: what a proof is about.                                     *)
Transcript(st, encodedMessage, commitments) ==
  Values(<< st.header, st.payload, st.commitment, st.issuer, Modulus, <<Exponent>>,
            encodedMessage >>)
  \o << Rounds >> \o Values(commitments)

(* evidence_digest and, from its own copy, expected_evidence_digest.       *)
DigestInput(profile, payload, evidence) == Values(<< profile, payload, evidence >>)

NumberOf(digits) == FoldLeft(LAMBDA n, d : n * CellBase + d, 0, digits)
RECURSIVE DigitsOf(_)
DigitsOf(n) == IF n < CellBase THEN <<n>> ELSE Append(DigitsOf(n \div CellBase), n % CellBase)
N == NumberOf(Modulus)
RECURSIVE PowerMod(_, _)
PowerMod(b, k) == IF k = 0 THEN 1 ELSE (b * PowerMod(b, k - 1)) % N

(* The digest, which any function stands for: what matters is that it is   *)
(* taken of the right cells.                                               *)
Digest(cells) == FoldLeft(LAMBDA h, c : ((h * 11) + c + 5) % 97, 3, cells)
Message(st) == 1 + (Digest(Append(st.header, Dot) \o st.payload) % (N - 1))

(* challenge: candidates at or above the exponent are drawn again.         *)
RECURSIVE Draw(_, _, _)
Draw(transcript, round, retry) ==
  LET candidate == Digest(Value(<<Digest(transcript)>>) \o <<round, retry>>) % Candidates
  IN  IF candidate < Exponent THEN [error |-> "none", value |-> candidate]
      ELSE IF retry = MaxRetry THEN Broken("evidence_invalid")
      ELSE Draw(transcript, round, retry + 1)
Challenge(transcript, round) == Draw(transcript, round, 0)

BelowModulus(digits) == NumberOf(digits) \in 1..N - 1
CanonicalInteger(digits) == digits # <<>> /\ digits[1] # 0 /\ NumberOf(digits) \in 1..N - 1

(* The rounds from one position on, in order, up to the first that cannot  *)
(* be read: pairs of canonical integers.                                   *)
RECURSIVE RoundsAt(_, _, _)
RoundsAt(cells, at, count) ==
  LET t == TextAt(cells, at, Len(Modulus))
      z == TextAt(cells, t.next, Len(Modulus))
      rest == RoundsAt(cells, z.next, count - 1)
  IN  IF count = 0 THEN [error |-> "none", next |-> at, rounds |-> <<>>]
      ELSE IF \/ t.error # "none" \/ z.error # "none"
              \/ ~CanonicalInteger(t.value) \/ ~CanonicalInteger(z.value)
      THEN [error |-> "evidence_invalid", next |-> at, rounds |-> <<>>]
      ELSE [rest EXCEPT !.rounds = << [t |-> t.value, z |-> z.value] >> \o @]

EquationHolds(transcript, message, round, i) ==
  LET c == Challenge(transcript, i - 1)
  IN  /\ c.error = "none"
      /\ PowerMod(NumberOf(round.z), Exponent)
           = (NumberOf(round.t) * PowerMod(message, c.value)) % N

verify_gq_rs256(st, cells) ==
  LET header == TextAt(cells, 1, MaxHeader)
      read == RoundsAt(cells, header.next + 1, Rounds)
      statement == [st EXCEPT !.header = header.value]
      message == Message(statement)
      transcript == Transcript(statement, DigitsOf(message),
                               [i \in 1..Len(read.rounds) |-> read.rounds[i].t])
  IN  IF Len(cells) > MaxEvidence THEN Broken("resource_limit")
      ELSE IF \/ header.error # "none" \/ Decode(header.value, MaxHeader).error # "none"
              \/ header.next > Len(cells) \/ cells[header.next] # Rounds
              \/ read.error # "none" \/ ~AtEnd(cells, read.next)
              \/ \E i \in 1..Rounds : ~EquationHolds(transcript, message, read.rounds[i], i)
      THEN Broken("evidence_invalid")
      ELSE [error |-> "none", header |-> header.value, rounds |-> read.rounds]

-----------------------------------------------------------------------------
(* A proof as an honest holder of the issuer's signature makes it: r^e     *)
(* commits, and r times the signature to the challenge's power answers.    *)
Prove(st, secrets) ==
  LET message == Message(st)
      signature == PowerMod(message, PrivateExponent)
      t == [i \in 1..Rounds |-> DigitsOf(PowerMod(secrets[i], Exponent))]
      transcript == Transcript(st, DigitsOf(message), t)
      z(i) == DigitsOf((secrets[i] * PowerMod(signature, Challenge(transcript, i - 1).value)) % N)
  IN  [i \in 1..Rounds |-> [t |-> t[i], z |-> z(i)]]
EncodeProof(header, rounds) ==
  Value(header) \o << Rounds >>
  \o FlattenSeq([i \in 1..Len(rounds) |-> Values(<< rounds[i].t, rounds[i].z >>)])

(* Honest proofs are accepted whatever is committed to.                    *)
ProofIsComplete(st, secrets) ==
  LET rounds == Prove(st, secrets)
      transcript == Transcript(st, DigitsOf(Message(st)), [i \in 1..Rounds |-> rounds[i].t])
  IN  (\A i \in 1..Rounds : Challenge(transcript, i - 1).error = "none")
        => verify_gq_rs256(st, EncodeProof(st.header, rounds)).error = "none"

(* There is one representation of a proof, so no second one of the same    *)
(* proof is accepted; and the header that selected the key is the header   *)
(* that the proof was checked for.                                         *)
ProofIsExact(st, cells) ==
  LET proof == verify_gq_rs256(st, cells)
  IN  proof.error = "none" =>
        /\ EncodeProof(proof.header, proof.rounds) = cells
        /\ \A r \in ToSet(proof.rounds) :
             r.t = DigitsOf(NumberOf(r.t)) /\ r.z = DigitsOf(NumberOf(r.z))
        /\ gq_header(cells).error = "none" /\ gq_header(cells).header = proof.header

StandardIsExact(cells) ==
  LET standard == parse_standard(cells)
  IN  IF standard.error = "none"
      THEN Values(<< standard.header, encode_base64url(standard.signature) >>) = cells
      ELSE \A k \in 1..Len(cells) :
             LET header == SubSeq(cells, 2, k)
                 signature == SubSeq(cells, k + 2, Len(cells))
             IN  Values(<<header, signature>>) = cells /\ header # <<>>
                 /\ Len(header) <= MaxHeader /\ Len(signature) <= MaxHeader
                   => Decode(signature, MaxSignatureBytes).error # "none"

(* Two statements with one transcript, or two pieces of evidence with one  *)
(* digest input, are the same: the lengths keep the values apart.          *)
TranscriptIsInjective(a, b) ==
  /\ Transcript(a, <<1>>, <<>>) = Transcript(b, <<1>>, <<>>) => a = b
  /\ DigestInput(a.header, a.payload, a.issuer) = DigestInput(b.header, b.payload, b.issuer)
       => <<a.header, a.payload, a.issuer>> = <<b.header, b.payload, b.issuer>>
=============================================================================
