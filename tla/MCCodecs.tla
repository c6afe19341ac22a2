------------------------------ MODULE MCCodecs ------------------------------
(* Bounded inputs of the pure codecs.  A run picks a codec; texts grow     *)
(* symbol by symbol from the empty one, and frames start as the encoding   *)
(* of an item and are then changed, cell by cell.                          *)
EXTENDS Base64, Durations, Utf8, Certificate, Evidence

CONSTANTS MaxGrowth,  \* of the texts, by codec
          MaxOutput,  \* the largest bound given to a decoder
          MaxFaults

VARIABLES codec, item, text, faults
vars == <<codec, item, text, faults>>

Growing == {"base64url", "base64", "bytes", "compact", "duration", "name"}
Framed == {"certificate", "proof", "standard"}

-----------------------------------------------------------------------------
(* Base64 symbols with all bits clear, the lowest set, and others.         *)
Symbols == {0, 1, 6}
MCDigits == <<"0", "1">>
MCModulus == <<1, 7>>
Leads == {65, 127, 193, 194, 223, 224, 237, 239, 240, 244, 245}
Continuations == {65, 127, 128, 143, 144, 159, 160, 191, 192}
MCMaxGrowth == ("base64url" :> 6) @@ ("base64" :> 8) @@ ("bytes" :> 4) @@ ("compact" :> 8)
               @@ ("duration" :> 6) @@ ("name" :> 5)
Largest == <<"1", "h">>   \* as many seconds as fit
Alphabet ==
  CASE codec = "base64url" -> Symbols \cup {Pad, Junk}
    [] codec = "base64" -> Symbols \cup {Pad} \cup IF Len(text) = 2 THEN {Junk} ELSE {}
    [] codec = "bytes" -> {0, 1, 6, 15}
    [] codec = "compact" -> {0, 6, Dot}
    [] codec = "duration" -> {"0", "1", "n", "u", "m", "s", "h"}
    [] codec = "name" -> IF Len(text) \in {0, 4} THEN Leads \cup {10, 31, 32}
                         ELSE Continuations \cup IF Len(text) < 3 THEN Leads ELSE {}

-----------------------------------------------------------------------------
(* Certificates of either kind, with up to two fields off.                 *)
Extension(name, data) == [name |-> name, data |-> data]
Tuple == Extension(Carrier, <<1, 7>>)
Certificates ==
  [type : {"ecdsa"}, nonce : {<<9>>}, key : {<<PointLead, 2>>}, serial : {3}, class : {1},
   key_id : {<<>>}, principals : {<< <<28>> >>}, after : {5}, before : {6}, critical : {<<>>},
   extensions : {<<Tuple, Extension(PermitPty, <<>>)>>}, reserved : {<<>>}, ca : {"ecdsa"},
   point : {<<PointLead, 8>>}, numbers : {<< <<1>>, <<0, 30>> >>}]
  \cup
  [type : {"ed25519"}, nonce : {<<9>>}, key : {<<2>>}, serial : {3}, class : {1},
   key_id : {<<>>}, principals : {<< <<28>> >>}, after : {5}, before : {6}, critical : {<<>>},
   extensions : {<<Tuple>>}, reserved : {<<>>}, ca : {"ed25519"}, point : {<<8>>},
   numbers : {<< <<1, 30>> >>}]
Off == [
  type |-> {"ecdsa", "ed25519"}, ca |-> {"ecdsa", "ed25519"}, nonce |-> {<<>>, <<9, 9, 9>>},
  key |-> {<<>>, <<8>>, <<PointLead, 8>>, <<8, 8>>}, point |-> {<<PointLead, 8, 8>>, <<8, PointLead>>},
  class |-> {0, 2}, key_id |-> {<<9, 9>>, <<9, 9, 9>>},
  principals |-> {<<>>, << <<28>>, <<28>> >>, << <<28, 30>> >>, << <<28, 29>> >>, << <<>> >>,
                  << <<28>>, <<28>>, <<28>> >>},
  after |-> {6, Forever}, before |-> {5, Forever}, critical |-> {<<0>>}, reserved |-> {<<0>>},
  extensions |-> {<<>>, <<Extension(PermitPty, <<>>), Tuple>>, <<Tuple, Tuple>>,
                  <<Tuple, Extension(PermitPty, <<0>>)>>, <<Extension(PermitPty, <<>>)>>,
                  <<Extension(Carrier, <<0>>)>>, <<Extension(Carrier, <<1, 7, 7>>)>>,
                  <<Extension(Carrier, <<2, 7, 7>>), Extension(PermitUserRc, <<>>)>>,
                  <<Extension(Carrier, <<3, 7, 7, 7>>)>>, <<Extension(Carrier, <<2, 7>>)>>,
                  <<Tuple, Extension(PermitPty, <<>>), Extension(PermitUserRc, <<>>)>>,
                  <<Tuple, Extension(28, <<>>)>>},
  numbers |-> {<< <<0>>, <<1>> >>, << <<30>>, <<1>> >>, << <<1>>, <<0, 1>> >>,
               << <<1, 0>>, <<29>> >>, << <<>>, <<1, 1, 1>> >>}]
Deviate(records) ==
  records \cup UNION {{[r EXCEPT ![f] = v] : r \in records, v \in Off[f]} : f \in DOMAIN Off}
Shaped(r) == r.ca = "ecdsa" => Len(r.numbers) = 2

-----------------------------------------------------------------------------
(* Proofs of a small group, and pairs of statements.                       *)
Statement(header, payload, commitment, issuer) ==
  [header |-> header, payload |-> payload, commitment |-> commitment, issuer |-> issuer]
Statements == {Statement(h, p, <<2>>, <<3>>) : h \in {<<1, 4>>, <<3, 0>>, <<1, 2, 4>>},
                                              p \in {<<1>>, <<2, 2>>}}
Units == {1, 2, 4, 7, 8, 11, 13, 14}
Short == {<<>>, <<1>>, <<1, 1>>, <<2>>}
Unary == {Statement(h, p, c, i) : h \in Short, p \in Short, c \in Short, i \in {<<>>, <<1>>}}

Cells == IF codec = "certificate" THEN {0, 1, 2, 25, Forever} ELSE 0..CellBase - 1

Init ==
  /\ faults = 0
  /\ \/ codec \in Growing /\ item = <<>> /\ text = <<>>
     \/ codec = "certificate" /\ item \in {r \in Deviate(Deviate(Certificates)) : Shaped(r)}
        /\ text = EncodeSigned(item)
     \/ codec = "proof" /\ item \in [st : Statements, secrets : [1..Rounds -> Units]]
        /\ text = EncodeProof(item.st.header, Prove(item.st, item.secrets))
     \/ codec = "standard" /\ item = <<>> /\ text \in {<<2, 1, 4, 3, 1, 2, 4>>, <<1, 1, 2, 1, 4>>}
     \/ codec = "statements" /\ item \in [a : Unary, b : Unary] /\ text = <<>>

Grow ==
  /\ codec \in Growing
  /\ Len(text) < MaxGrowth[codec]
                 + IF codec = "duration" /\ IsPrefix(Largest, text) THEN Len(Largest) ELSE 0
  /\ \E c \in Alphabet : text' = Append(text, c)
  /\ UNCHANGED <<codec, item, faults>>

(* Frames of a few items are changed.                                      *)
Changeable == CASE codec = "certificate" -> item \in Certificates
                [] codec = "proof" -> item.secrets \in [1..Rounds -> {2, 8}]
                [] codec = "standard" -> TRUE
                [] OTHER -> FALSE
Change(changed) ==
  /\ Changeable /\ faults < MaxFaults
  /\ faults' = faults + 1
  /\ text' = changed /\ text' # text
  /\ UNCHANGED <<codec, item>>
Corrupt == \E i \in 1..Len(text), c \in Cells : Change([text EXCEPT ![i] = c])
Truncate == \E i \in 1..Len(text) : Change(SubSeq(text, 1, i - 1))
Insert == \E i \in 0..Len(text), c \in {0, 1, 2} : Change(InsertAt(text, i + 1, c))

Next == Grow \/ Corrupt \/ Truncate \/ Insert
Spec == Init /\ [][Next]_vars

-----------------------------------------------------------------------------
(* Decoding and encoding are inverse: a decoder accepts the one text of    *)
(* every byte string within its bound and no other, so that no two texts   *)
(* carry one signature, key or digest; a compact JWS is three of them; and *)
(* a user name is what spells characters.                                  *)
TextsAreExact ==
  /\ codec = "base64url" => \A maximum \in 0..MaxOutput : DecodeIsExact(text, maximum)
  /\ codec = "base64" => \A maximum \in 1..MaxOutput : PaddedIsExact(text, maximum)
  /\ codec = "bytes" => \A maximum \in 1..MaxOutput : EncodingsDecode(text, maximum)
  /\ codec = "compact" => \A maximum \in 1..MaxOutput : CompactIsExact(text, maximum)
  /\ codec = "name" => NameIsExact(text)

(* Every reader of a duration gives what its text means, or refuses it.    *)
DurationsAreExact == codec = "duration" => DurationIsExact(text)

(* The certificates that are accepted are those of the profile, whole and  *)
(* with one meaning, however a blob was made, and the two readers of a     *)
(* blob never disagree.                                                    *)
CertificatesAreExact ==
  codec = "certificate" => CertificateIsExact(text) /\ (faults = 0 => CertificateIsComplete(item))

(* Evidence has one representation; an honest proof is accepted, and no    *)
(* two statements share a transcript.                                      *)
EvidenceIsExact ==
  /\ codec = "proof" => ProofIsExact(item.st, text)
                        /\ (faults = 0 => ProofIsComplete(item.st, item.secrets))
  /\ codec = "standard" => StandardIsExact(text)
  /\ codec = "statements" => TranscriptIsInjective(item.a, item.b)
=============================================================================
