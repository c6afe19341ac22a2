----------------------------- MODULE Certificate ----------------------------
(***************************************************************************)
(* The OpenSSH user certificate: parse_certificate, and the second reader, *)
(* verify_certificate_signature, which takes the CA key and the signature  *)
(* apart again.  A blob is a sequence of cells.  A number, a length prefix *)
(* among them, is one cell, and so is a name; cells are integers, so a     *)
(* length can be anything that another field can be.                       *)
(***************************************************************************)
EXTENDS Integers, Sequences, SequencesExt, FiniteSets, TLC

CONSTANTS MaxCertificate, MaxToken, MaxPrincipals, MaxExtensions,  \* Limits
          MaxField,      \* of nonce, key ID and principal: 1024 and 256 bytes
          Forever        \* the last unsigned 64-bit integer: no end

ASSUME CertificateLimits ==
  {MaxCertificate, MaxToken, MaxPrincipals, MaxExtensions, MaxField, Forever} \subseteq Nat \ {0}

(* Names, in their lexical order, and the other cells a check looks at.    *)
MaxName == 1
EcdsaCertificate == 20
Ed25519Certificate == 21
EcdsaKey == 22
Ed25519Key == 23
Curve == 24
Carrier == 25
PermitPty == 26
PermitUserRc == 27
Permissions == {PermitPty, PermitUserRc}
Printable == 20..29
HighBit == 30        \* from here on the top bit of a byte is set
PointLead == 4
PointSize == 2
KeySize == 1
RawSignatureSize == 2
ScalarSize == 2
UserClass == 1

-----------------------------------------------------------------------------
(* Reader: a position, the first error, and the fields read so far.        *)
Start == [at |-> 1, error |-> "none", got |-> <<>>]
Stop(s, kind) == [s EXCEPT !.error = kind]
Left(blob, s) == Len(blob) - s.at + 1
Ended(blob, s) == Left(blob, s) = 0
Take(blob, s, size, field) ==
  [s EXCEPT !.at = @ + size, !.got = (field :> SubSeq(blob, s.at, s.at + size - 1)) @@ @]

Str(field, most) == [op |-> "string", field |-> field, most |-> most]
Num(field) == [op |-> "number", field |-> field, most |-> 0]
Must(field) == [op |-> "check", field |-> field, most |-> 0]

ReadString(blob, s, e) ==
  IF Left(blob, s) < 1 THEN Stop(s, "malformed_input")
  ELSE LET size == blob[s.at]
           body == [s EXCEPT !.at = @ + 1]
       IN  IF size > Left(blob, body) THEN Stop(body, "malformed_input")
           ELSE IF size > e.most THEN Stop(body, "resource_limit")
           ELSE Take(blob, body, size, e.field)
ReadNumber(blob, s, e) ==
  IF Left(blob, s) < 1 THEN Stop(s, "malformed_input")
  ELSE [s EXCEPT !.at = @ + 1, !.got = (e.field :> blob[s.at]) @@ @]
Read(blob, s, e) ==
  IF s.error # "none" THEN s
  ELSE IF e.op = "string" THEN ReadString(blob, s, e) ELSE ReadNumber(blob, s, e)
ReadAll(blob, layout) == FoldLeft(LAMBDA s, e : Read(blob, s, e), Start, layout)

(* Items of one layout up to the end of a field; a count over the bound    *)
(* and a failed read end the list with their error.                        *)
RECURSIVE Items(_, _, _)
Items(text, layout, most) ==
  IF text = <<>> THEN <<>>
  ELSE IF most = 0 THEN << Stop(Start, "resource_limit") >>
  ELSE LET s == ReadAll(text, layout)
       IN  << s >> \o IF s.error # "none" THEN <<>>
                      ELSE Items(SubSeq(text, s.at, Len(text)), layout, most - 1)
FirstError(errors) ==
  LET bad == {i \in 1..Len(errors) : errors[i] # "none"}
  IN  IF bad = {} THEN "none" ELSE errors[CHOOSE i \in bad : \A j \in bad : i <= j]
Unless(ok, kind) == IF ok THEN "none" ELSE kind

-----------------------------------------------------------------------------
(* The fields that are frames themselves.                                  *)
valid_ecdsa_point(point) == Len(point) = PointSize /\ point[1] = PointLead
ascii_nonempty(name) == name # <<>> /\ \A i \in 1..Len(name) : name[i] \in Printable

valid_positive_mpint(value) ==
  /\ value # <<>> /\ value[1] < HighBit
  /\ value[1] = 0 => Len(value) > 1 /\ value[2] >= HighBit

Principals(text) == Items(text, <<Str("name", MaxField)>>, MaxPrincipals)
PrincipalsFault(text) ==
  LET items == Principals(text)
      Fault(i) == IF items[i].error # "none" THEN items[i].error
                  ELSE Unless(ascii_nonempty(items[i].got.name), "malformed_input")
  IN  FirstError(Append([i \in 1..Len(items) |-> Fault(i)],
                        Unless(Len(items) = 1, "malformed_input")))

Extensions(text) ==
  Items(text, <<Str("name", MaxName), Str("data", MaxCertificate)>>, MaxExtensions)
SortedLoosely(before, name) == before[1] <= name[1]
Sorted(before, name) == before[1] < name[1]
CarrierFault(data) ==
  LET s == ReadAll(data, <<Str("token", MaxToken)>>)
  IN  IF s.error # "none" THEN s.error
      ELSE Unless(s.got.token # <<>> /\ Ended(data, s), "malformed_input")
ExtensionsFault(text) ==
  LET items == Extensions(text)
      Name(i) == items[i].got.name
      InOrder(i) == /\ ascii_nonempty(Name(i))
                    /\ i > 1 => Name(i - 1) = <<>> \/ Sorted(Name(i - 1), Name(i))
      Fault(i) ==
        IF items[i].error # "none" THEN items[i].error
        ELSE IF ~InOrder(i) THEN "malformed_input"
        ELSE IF Name(i) = <<Carrier>> THEN CarrierFault(items[i].got.data)
        ELSE Unless(ToSet(Name(i)) \subseteq Permissions /\ items[i].got.data = <<>>, "malformed_input")
  IN  FirstError(Append([i \in 1..Len(items) |-> Fault(i)],
        Unless(\E i \in 1..Len(items) : items[i].error = "none" /\ Name(i) = <<Carrier>>, "malformed_input")))

(* parse_public_key_blob and parse_signature_blob.                         *)
KeyName(ecdsa) == IF ecdsa THEN <<EcdsaKey>> ELSE <<Ed25519Key>>
KeyLayout(ecdsa) ==
  IF ecdsa THEN <<Str("curve", MaxName), Str("point", PointSize)>> ELSE <<Str("point", KeySize)>>
KeyFault(blob, ecdsa) ==
  LET name == ReadAll(blob, <<Str("type", MaxName)>>)
      s == ReadAll(blob, <<Str("type", MaxName)>> \o KeyLayout(ecdsa))
      whole == IF ecdsa THEN valid_ecdsa_point(s.got.point) ELSE Len(s.got.point) = KeySize
  IN  IF name.error # "none" THEN name.error
      ELSE IF name.got.type # KeyName(ecdsa) THEN "unsupported_algorithm"
      ELSE IF s.error # "none" THEN s.error
      ELSE IF ecdsa /\ s.got.curve # <<Curve>> THEN "unsupported_algorithm"
      ELSE Unless(whole /\ Ended(blob, s), "malformed_input")

MaxSignature == 2 * (ScalarSize + 1)
SignatureFields(blob) == ReadAll(blob, <<Str("type", MaxName), Str("value", MaxSignature)>>)
Scalars(value) == ReadAll(value, <<Str("r", ScalarSize), Str("s", ScalarSize)>>)
SignatureFault(blob, ecdsa) ==
  LET s == SignatureFields(blob)
      rs == Scalars(s.got.value)
  IN  IF s.error # "none" THEN s.error
      ELSE IF ~Ended(blob, s) THEN "malformed_input"
      ELSE IF s.got.type # KeyName(ecdsa) THEN "unsupported_algorithm"
      ELSE IF ~ecdsa THEN Unless(Len(s.got.value) = RawSignatureSize, "malformed_input")
      ELSE IF rs.error # "none" THEN rs.error
      ELSE Unless(/\ valid_positive_mpint(rs.got.r) /\ valid_positive_mpint(rs.got.s)
                  /\ Ended(s.got.value, rs), "malformed_input")

-----------------------------------------------------------------------------
(* parse_certificate: reads and checks in the order of the code, which     *)
(* reads several fields before it looks at the first of them.              *)
Layout(ecdsa) ==
  << Str("type", MaxName), Str("nonce", MaxField), Must("nonce") >>
  \o (IF ecdsa
      THEN << Str("curve", MaxName), Str("key", PointSize), Must("curve"), Must("point") >>
      ELSE << Str("key", KeySize), Must("key") >>)
  \o << Num("serial"), Num("class"), Str("key_id", MaxField), Str("principals", MaxCertificate),
        Must("class"), Must("principals"),
        Num("after"), Num("before"), Str("critical", MaxCertificate),
        Str("extensions", MaxCertificate), Str("reserved", MaxCertificate),
        Str("signature_key", MaxCertificate),
        Must("validity"), Must("critical"), Must("reserved"), Must("extensions"),
        Must("signature_key"), Str("signature", 2 * MaxSignature), Must("end"),
        Must("signature") >>

Fault(blob, s, field, ecdsa) ==
  LET g == s.got
  IN  CASE field = "nonce"     -> Unless(g.nonce # <<>>, "malformed_input")
        [] field = "curve"     -> Unless(g.curve = <<Curve>>, "unsupported_algorithm")
        [] field = "point"     -> Unless(valid_ecdsa_point(g.key), "malformed_input")
        [] field = "key"       -> Unless(Len(g.key) = KeySize, "malformed_input")
        [] field = "class"     -> Unless(g.class = UserClass, "malformed_input")
        [] field = "principals" -> PrincipalsFault(g.principals)
        [] field = "validity"  -> Unless(g.before # Forever /\ g.after < g.before, "malformed_input")
        [] field \in {"critical", "reserved"} -> Unless(g[field] = <<>>, "malformed_input")
        [] field = "extensions" -> ExtensionsFault(g.extensions)
        [] field = "signature_key" -> KeyFault(g.signature_key, ecdsa)
        [] field = "end"       -> Unless(Ended(blob, s), "malformed_input")
        [] field = "signature" -> SignatureFault(g.signature, ecdsa)
Run(blob, ecdsa) ==
  LET Step(s, e) == IF s.error = "none" /\ e.op = "check"
                    THEN Stop(s, Fault(blob, s, e.field, ecdsa)) ELSE Read(blob, s, e)
  IN  FoldLeft(Step, Start, Layout(ecdsa))

NoCertificate(kind) == [error |-> kind]
CertificateOf(blob, s) ==
  LET g == s.got
      extensions == Extensions(g.extensions)
      carried == CHOOSE i \in 1..Len(extensions) : extensions[i].got.name = <<Carrier>>
      signature == SignatureFields(g.signature).got
  IN  IF s.error # "none" THEN NoCertificate(s.error)
      ELSE [error |-> "none", ecdsa |-> g.type = <<EcdsaCertificate>>, key |-> g.key,
            serial |-> g.serial, key_id |-> g.key_id,
            principal |-> Principals(g.principals)[1].got.name,
            after |-> g.after, before |-> g.before,
            permissions |-> SelectSeq([i \in 1..Len(extensions) |-> extensions[i].got.name[1]],
                                      LAMBDA name : name # Carrier),
            token |-> Tail(extensions[carried].got.data),
            signature_key |-> g.signature_key,
            signature_algorithm |-> signature.type, signature |-> signature.value,
            signed |-> SubSeq(blob, 1, s.at - 1 - (Len(g.signature) + 1))]
parse_certificate(blob) ==
  LET type == ReadAll(blob, <<Str("type", MaxName)>>)
  IN  IF Len(blob) > MaxCertificate THEN NoCertificate("resource_limit")
      ELSE IF type.error # "none" THEN NoCertificate(type.error)
      ELSE IF type.got.type \notin {<<EcdsaCertificate>>, <<Ed25519Certificate>>}
      THEN NoCertificate("unsupported_algorithm")
      ELSE CertificateOf(blob, Run(blob, type.got.type = <<EcdsaCertificate>>))

-----------------------------------------------------------------------------
(* verify_certificate_signature with p256_key, ed25519_key and ecdsa_der:  *)
(* the key and the numbers it hands to the library.                        *)
Unusable == [error |-> "ssh_certificate_invalid"]
NonZero(value) == \E i \in 1..Len(value) : value[i] # 0
verify_certificate_signature(c) ==
  LET key == ReadAll(c.signature_key, <<Str("type", MaxName)>> \o KeyLayout(c.ecdsa))
      rs == Scalars(c.signature)
      usable ==
        /\ key.error = "none" /\ key.got.type = KeyName(c.ecdsa) /\ Ended(c.signature_key, key)
        /\ IF c.ecdsa
           THEN /\ key.got.curve = <<Curve>> /\ valid_ecdsa_point(key.got.point)
                /\ rs.error = "none" /\ Ended(c.signature, rs)
                /\ NonZero(rs.got.r) /\ NonZero(rs.got.s)
           ELSE Len(key.got.point) = KeySize /\ Len(c.signature) = RawSignatureSize
  IN  IF ~usable THEN Unusable
      ELSE [error |-> "none", point |-> key.got.point,
            numbers |-> IF c.ecdsa THEN <<rs.got.r, rs.got.s>> ELSE <<c.signature>>]

-----------------------------------------------------------------------------
(* A certificate as the format describes it, and its encoding.             *)
Frame(value) == <<Len(value)>> \o value
Frames(values) == FlattenSeq([i \in 1..Len(values) |-> Frame(values[i])])
CaKey(r) == Frames(IF r.ca = "ecdsa" THEN << <<EcdsaKey>>, <<Curve>>, r.point >>
                   ELSE << <<Ed25519Key>>, r.point >>)
EncodeUnsigned(r) ==
  Frames(<< IF r.type = "ecdsa" THEN <<EcdsaCertificate>> ELSE <<Ed25519Certificate>>, r.nonce >>
         \o (IF r.type = "ecdsa" THEN << <<Curve>> >> ELSE <<>>) \o << r.key >>)
  \o << r.serial, r.class >> \o Frames(<< r.key_id, Frames(r.principals) >>)
  \o << r.after, r.before >>
  \o Frames(<< r.critical,
               FlattenSeq([i \in 1..Len(r.extensions) |->
                             Frames(<< <<r.extensions[i].name>>, r.extensions[i].data >>)]),
               r.reserved, CaKey(r) >>)
EncodeSigned(r) ==
  EncodeUnsigned(r) \o Frame(Frames(<< KeyName(r.ca = "ecdsa"),
                               IF r.ca = "ecdsa" THEN Frames(r.numbers) ELSE r.numbers[1] >>))

(* The profile of a carrier certificate.                                   *)
Strict(value) == IF value[1] = 0 THEN Len(value) > 1 /\ value[2] >= HighBit
                 ELSE value[1] < HighBit
IsCarrierCertificate(r) ==
  /\ r.type = r.ca /\ r.class = UserClass
  /\ r.nonce # <<>> /\ {Len(r.nonce), Len(r.key_id)} \subseteq 0..MaxField
  /\ \A key \in {r.key, r.point} :
       IF r.ca = "ecdsa" THEN Len(key) = PointSize /\ key[1] = PointLead ELSE Len(key) = KeySize
  /\ Len(r.principals) = 1 /\ Len(r.principals[1]) \in 1..MaxField
  /\ ToSet(r.principals[1]) \subseteq Printable
  /\ r.after < r.before /\ r.before < Forever
  /\ r.critical = <<>> /\ r.reserved = <<>>
  /\ Len(r.extensions) <= MaxExtensions
  /\ \A i, j \in 1..Len(r.extensions) : i < j => r.extensions[i].name < r.extensions[j].name
  /\ \E i \in 1..Len(r.extensions) : r.extensions[i].name = Carrier
  /\ \A i \in 1..Len(r.extensions) : LET x == r.extensions[i] IN
       IF x.name = Carrier THEN Len(x.data) - 1 \in 1..MaxToken /\ x.data[1] = Len(x.data) - 1
       ELSE x.name \in Permissions /\ x.data = <<>>
  /\ IF r.ca = "ecdsa"
     THEN \A i \in 1..2 : Len(r.numbers[i]) \in 1..ScalarSize /\ Strict(r.numbers[i])
     ELSE Len(r.numbers[1]) = RawSignatureSize

(* What a parsed certificate says, as a record of the format.  The nonce   *)
(* is not kept; it is the second field.                                    *)
Said(c, blob) ==
  LET second == verify_certificate_signature(c)
      names == SortSeq(Append(c.permissions, Carrier), <)
      kind == IF c.ecdsa THEN "ecdsa" ELSE "ed25519"
  IN  [type |-> kind, nonce |-> SubSeq(blob, 4, 3 + blob[3]), key |-> c.key,
       serial |-> c.serial, class |-> UserClass, key_id |-> c.key_id,
       principals |-> <<c.principal>>, after |-> c.after, before |-> c.before,
       critical |-> <<>>, reserved |-> <<>>,
       extensions |-> [i \in 1..Len(names) |->
         [name |-> names[i], data |-> IF names[i] = Carrier THEN Frame(c.token) ELSE <<>>]],
       ca |-> kind, point |-> second.point, numbers |-> second.numbers]

(* Only certificates of the profile are accepted, with the meaning that    *)
(* encodes to these very cells and with everything before the signature    *)
(* signed: no field hides in a length, is read twice or is left over.  And *)
(* the second reader accepts what the first has accepted: the key and the  *)
(* numbers that reach the library are those that were checked.             *)
CertificateIsExact(blob) ==
  LET Exact(c) == c.error = "none" =>
        /\ verify_certificate_signature(c).error = "none"
        /\ \E r \in {Said(c, blob)} :
             IsCarrierCertificate(r) /\ EncodeSigned(r) = blob /\ EncodeUnsigned(r) = c.signed
  IN  Exact(parse_certificate(blob))

(* And every one of them is accepted, within the bound on its size.        *)
CertificateIsComplete(r) ==
  LET blob == EncodeSigned(r)
  IN  parse_certificate(blob).error = "none"
        <=> IsCarrierCertificate(r) /\ Len(blob) <= MaxCertificate
=============================================================================
