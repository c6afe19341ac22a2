---------------------------- MODULE CarrierProofs ----------------------------
(***************************************************************************)
(* Theorems about Carrier, for any requests and policies, any width of the *)
(* integers and any clock.  What verify_carrier answers is the error of    *)
(* the first check that fails in a long row; the lemmas about FirstError   *)
(* take that row apart.                                                    *)
(***************************************************************************)
EXTENDS Carrier, SequenceTheorems, WellFoundedInduction, TLAPS

-----------------------------------------------------------------------------
(* Rows of checks. *)

CheckRecords(kinds) == [holds : BOOLEAN, kind : kinds]

Rows(kinds) == Seq(CheckRecords(kinds))

Holds(row) == \A i \in DOMAIN row : row[i].holds

\* The first check that fails, if one does.
FailsFirst(row, i) ==
    /\ i \in 1 .. Len(row) /\ ~row[i].holds
    /\ \A j \in 1 .. i - 1 : row[j].holds

\* The well-founded order of the naturals, written out.
LEMMA NaturalOrder ==
    IsWellFoundedOn({ss \in Nat \X Nat : ss[1] < ss[2]}, Nat)
  BY NatLessThanWellFounded DEF OpToRel

LEMMA LeastFailure ==
    ASSUME NEW kinds, NEW row \in Rows(kinds), ~Holds(row)
    PROVE  \E i \in 1 .. Len(row) : FailsFirst(row, i)
  <1> DEFINE failing == {i \in 1 .. Len(row) : ~row[i].holds}
             order == {ss \in Nat \X Nat : ss[1] < ss[2]}
  <1>1. DOMAIN row = 1 .. Len(row) /\ Len(row) \in Nat
    BY LenProperties DEF Rows
  <1>2. failing \subseteq Nat /\ failing # {}
    BY <1>1 DEF Holds
  <1>3. IsWellFoundedOn(order, Nat)
    BY NaturalOrder
  <1>4. PICK i \in failing : \A j \in failing : <<j, i>> \notin order
    <2> HIDE DEF failing, order
    <2> QED
      BY <1>2, <1>3, WFMin
  <1>5. ASSUME NEW j \in 1 .. i - 1 PROVE row[j].holds
    <2>1. j \in Nat /\ i \in Nat /\ j < i /\ j \in 1 .. Len(row)
      BY <1>1, <1>4
    <2>2. <<j, i>> \in order
      BY <2>1
    <2> QED
      BY <1>4, <2>1, <2>2
  <1> QED
    BY <1>4, <1>5 DEF FailsFirst

LEMMA FailureIsUnique ==
    ASSUME NEW kinds, NEW row \in Rows(kinds), NEW i \in 1 .. Len(row),
           NEW j \in 1 .. Len(row), FailsFirst(row, i), FailsFirst(row, j)
    PROVE  i = j
  <1>1. ~(i < j) /\ ~(j < i)
    BY DEF FailsFirst
  <1> QED
    BY <1>1

\* The error is the kind of the first check that fails.
LEMMA ErrorOfFirst ==
    ASSUME NEW kinds, NEW row \in Rows(kinds), NEW i \in 1 .. Len(row),
           FailsFirst(row, i)
    PROVE  FirstError(row) = row[i].kind
  <1> DEFINE P(k) == ~row[k].holds /\ \A j \in 1 .. k - 1 : row[j].holds
             first == CHOOSE k \in DOMAIN row : P(k)
  <1>1. DOMAIN row = 1 .. Len(row)
    BY LenProperties DEF Rows
  <1>2. \E k \in DOMAIN row : P(k)
    BY <1>1 DEF FailsFirst
  <1>3. first \in DOMAIN row /\ P(first)
    <2> HIDE DEF P
    <2> QED
      BY <1>2
  <1>4. FailsFirst(row, first)
    BY <1>1, <1>3 DEF FailsFirst
  <1>5. first = i
    <2> HIDE DEF first
    <2> QED
      BY <1>1, <1>3, <1>4, FailureIsUnique
  <1>6. ~ \A k \in DOMAIN row : row[k].holds
    BY <1>1 DEF FailsFirst
  <1>7. FirstError(row) = row[first].kind
    BY <1>6 DEF FirstError
  <1> HIDE DEF first
  <1> QED
    BY <1>5, <1>7

LEMMA ErrorOfRow ==
    ASSUME NEW kinds, "none" \notin kinds, NEW row \in Rows(kinds)
    PROVE  /\ FirstError(row) \in kinds \cup {"none"}
           /\ FirstError(row) = "none" <=> Holds(row)
           /\ FirstError(row) # "none" =>
                 \E i \in 1 .. Len(row) :
                    FailsFirst(row, i) /\ FirstError(row) = row[i].kind
  <1>1. CASE Holds(row)
    BY <1>1 DEF FirstError, Holds
  <1>2. CASE ~Holds(row)
    <2>1. PICK i \in 1 .. Len(row) : FailsFirst(row, i)
      BY <1>2, LeastFailure
    <2>2. FirstError(row) = row[i].kind
      BY <2>1, ErrorOfFirst
    <2>3. row[i] \in CheckRecords(kinds)
      BY ElementOfSeq DEF Rows
    <2>4. row[i].kind \in kinds
      BY <2>3 DEF CheckRecords
    <2> QED
      BY <1>2, <2>1, <2>2, <2>4
  <1> QED
    BY <1>1, <1>2

\* Two rows, one after the other.
LEMMA ErrorOfTwoRows ==
    ASSUME NEW kinds, "none" \notin kinds,
           NEW row \in Rows(kinds), NEW rest \in Rows(kinds)
    PROVE  /\ row \o rest \in Rows(kinds)
           /\ FirstError(row \o rest) =
                IF FirstError(row) = "none" THEN FirstError(rest)
                ELSE FirstError(row)
  <1> DEFINE both == row \o rest
  <1>1. /\ Len(row) \in Nat /\ Len(rest) \in Nat
        /\ DOMAIN row = 1 .. Len(row) /\ DOMAIN rest = 1 .. Len(rest)
    BY LenProperties DEF Rows
  <1>2. /\ both \in Rows(kinds) /\ Len(both) = Len(row) + Len(rest)
        /\ \A i \in 1 .. Len(row) + Len(rest) :
              both[i] = IF i <= Len(row) THEN row[i] ELSE rest[i - Len(row)]
    BY ConcatProperties DEF Rows
  <1> HIDE DEF both
  <1>3. \A i \in 1 .. Len(row) : i \in 1 .. Len(both) /\ both[i] = row[i]
    BY <1>1, <1>2
  <1>4. CASE ~Holds(row)
    <2>1. PICK i \in 1 .. Len(row) :
             FailsFirst(row, i) /\ FirstError(row) = row[i].kind
      BY <1>4, ErrorOfRow
    <2>2. \A j \in 1 .. i - 1 : j \in 1 .. Len(row)
      BY <1>1
    <2>3. FailsFirst(both, i)
      BY <1>3, <2>1, <2>2 DEF FailsFirst
    <2>4. FirstError(both) = both[i].kind
      BY <1>2, <1>3, <2>3, ErrorOfFirst
    <2> QED
      BY <1>2, <1>3, <1>4, <2>1, <2>4, ErrorOfRow DEF both
  <1>5. CASE Holds(row) /\ ~Holds(rest)
    <2>1. PICK i \in 1 .. Len(rest) :
             FailsFirst(rest, i) /\ FirstError(rest) = rest[i].kind
      BY <1>5, ErrorOfRow
    <2>2. i + Len(row) \in 1 .. Len(both) /\ both[i + Len(row)] = rest[i]
      BY <1>1, <1>2
    <2>3. ASSUME NEW j \in 1 .. (i + Len(row)) - 1 PROVE both[j].holds
      <3>1. CASE j <= Len(row)
        BY <1>1, <1>3, <1>5, <3>1 DEF Holds
      <3>2. CASE ~(j <= Len(row))
        <4>1. j - Len(row) \in 1 .. i - 1 /\ both[j] = rest[j - Len(row)]
          BY <1>1, <1>2, <3>2
        <4> QED
          BY <2>1, <4>1 DEF FailsFirst
      <3> QED
        BY <3>1, <3>2
    <2>4. FailsFirst(both, i + Len(row))
      BY <2>1, <2>2, <2>3 DEF FailsFirst
    <2>5. FirstError(both) = both[i + Len(row)].kind
      BY <1>2, <2>2, <2>4, ErrorOfFirst
    <2> QED
      BY <1>2, <1>5, <2>1, <2>2, <2>5, ErrorOfRow DEF both
  <1>6. CASE Holds(row) /\ Holds(rest)
    <2>1. ASSUME NEW i \in 1 .. Len(both) PROVE both[i].holds
      <3>1. CASE i <= Len(row)
        BY <1>1, <1>3, <1>6, <3>1 DEF Holds
      <3>2. CASE ~(i <= Len(row))
        <4>1. i - Len(row) \in 1 .. Len(rest) /\ both[i] = rest[i - Len(row)]
          BY <1>1, <1>2, <3>2
        <4> QED
          BY <1>1, <1>6, <4>1 DEF Holds
      <3> QED
        BY <3>1, <3>2
    <2>2. DOMAIN both = 1 .. Len(both)
      BY <1>2, LenProperties DEF Rows
    <2>3. Holds(both)
      BY <2>1, <2>2 DEF Holds
    <2> QED
      BY <1>2, <1>6, <2>3, ErrorOfRow DEF both
  <1> QED
    BY <1>4, <1>5, <1>6

-----------------------------------------------------------------------------
(* The rows of verify_carrier. *)

\* The kinds of the checks that do not look at the clock.
Untimed(kinds) == kinds \ (Early \cup Late)

LEMMA NoneIsNoKind ==
    /\ "none" \notin TokenKinds /\ "none" \notin Untimed(TokenKinds)
    /\ "none" \notin CarrierKinds /\ "none" \notin Untimed(CarrierKinds)
  BY DEF CarrierKinds, TokenKinds, Untimed

LEMMA UntimedRows ==
    ASSUME NEW kinds, NEW row \in Rows(Untimed(kinds)) PROVE row \in Rows(kinds)
  <1>1. CheckRecords(Untimed(kinds)) \subseteq CheckRecords(kinds)
    BY DEF CheckRecords, Untimed
  <1>2. /\ Len(row) \in Nat /\ row \in [1 .. Len(row) -> CheckRecords(kinds)]
    BY <1>1, LenProperties DEF Rows
  <1> QED
    BY <1>2 DEF Rows

LEMMA EnvelopeRow ==
    ASSUME NEW token, NEW policy
    PROVE  EnvelopeChecks(token, policy) \in Rows(Untimed(TokenKinds))
  BY DEF EnvelopeChecks, Sound, Check, Rows, CheckRecords, TokenKinds, Untimed,
         Early, Late

LEMMA PolicyRow ==
    ASSUME NEW token, NEW policy
    PROVE  PolicyChecks(token, policy) \in Rows(Untimed(TokenKinds))
  BY DEF PolicyChecks, Sound, Check, Rows, CheckRecords, TokenKinds, Untimed,
         Early, Late

LEMMA EvidenceRow ==
    ASSUME NEW token PROVE EvidenceChecks(token) \in Rows(Untimed(TokenKinds))
  BY DEF EvidenceChecks, Sound, Check, Rows, CheckRecords, TokenKinds, Untimed,
         Early, Late

LEMMA ClaimRow ==
    ASSUME NEW token, NEW policy
    PROVE  ClaimChecks(token, policy) \in Rows(Untimed(TokenKinds))
  <1>1. Bound(token) \in BOOLEAN
    BY DEF Bound, ExactAudience
  <1>2. AudienceOk(token, policy) \in BOOLEAN
    BY DEF AudienceOk
  <1> QED
    BY <1>1, <1>2 DEF ClaimChecks, Check, Rows, CheckRecords, TokenKinds, Untimed,
         Early, Late

LEMMA TimeRow ==
    ASSUME NEW token, NEW policy, NEW t
    PROVE  TimeChecks(token, policy, t) \in Rows(TokenKinds)
  BY DEF TimeChecks, Check, Rows, CheckRecords, TokenKinds, IsDate, Fits,
         NotAfter, After

LEMMA SizeRow ==
    ASSUME NEW token
    PROVE  <<Sound(token, "evidence size", "resource_limit")>>
               \in Rows(Untimed(TokenKinds))
  BY DEF Sound, Check, Rows, CheckRecords, TokenKinds, Untimed,
         Early, Late

LEMMA DigestRow ==
    ASSUME NEW token
    PROVE  << Sound(token, "digest", "evidence_result_mismatch") >>
               \in Rows(Untimed(TokenKinds))
  BY DEF Sound, Check, Rows, CheckRecords, TokenKinds, Untimed,
         Early, Late

LEMMA CallerRow ==
    ASSUME NEW token PROVE CallerSignature(token) \in Rows(Untimed(TokenKinds))
  BY DEF CallerSignature, Sound, Check, Rows, CheckRecords, TokenKinds, Untimed,
         Early, Late

LEMMA FrameRow ==
    ASSUME NEW request, NEW policy
    PROVE  FrameChecks(request, policy) \in Rows(Untimed(TokenKinds))
  BY DEF FrameChecks, Sound, Check, Rows, CheckRecords, TokenKinds, Untimed,
         Early, Late

LEMMA CertificateTimeRow ==
    ASSUME NEW request, NEW policy, NEW t
    PROVE  CertificateTimeChecks(request, policy, t) \in Rows(CarrierKinds)
  BY DEF CertificateTimeChecks, Check, Rows, CheckRecords, CarrierKinds,
         Fits, Expired

\* The checks of the certificate before and after those of its times.
KeyChecks(request) ==
    << Sound(request, "certificate signature", "ssh_certificate_invalid"),
       Check(/\ "certified key" \notin request.faults
             /\ request.certified = request.algorithm, "ssh_key_mismatch") >>

AccountChecks(request, policy) ==
    << Check(PrincipalOk(request, policy), "ssh_principal_invalid"),
       Check(AccountAdmits(request, policy), "account_unauthorized") >>

LEMMA KeyRow ==
    ASSUME NEW request PROVE KeyChecks(request) \in Rows(Untimed(CarrierKinds))
  BY DEF KeyChecks, Sound, Check, Rows, CheckRecords, CarrierKinds, Untimed, Early, Late

LEMMA AccountRow ==
    ASSUME NEW request, NEW policy
    PROVE  AccountChecks(request, policy) \in Rows(Untimed(CarrierKinds))
  BY DEF AccountChecks, PrincipalOk, AccountAdmits, Check, Rows, CheckRecords,
         CarrierKinds, Untimed, Early, Late

-----------------------------------------------------------------------------
(* What verify_carrier answers is the error of the first row that has one. *)

Before(error, next) == IF error = "none" THEN next ELSE error

LEMMA TokenError ==
    ASSUME NEW token, NEW policy, NEW t
    PROVE  /\ TokenChecks(token, policy, t) \in Rows(TokenKinds)
           /\ FirstError(TokenChecks(token, policy, t)) =
                Before(FirstError(EnvelopeChecks(token, policy)),
                Before(FirstError(<<Sound(token, "evidence size",
                                          "resource_limit")>>),
                Before(FirstError(PolicyChecks(token, policy)),
                Before(FirstError(EvidenceChecks(token)),
                Before(FirstError(ClaimChecks(token, policy)),
                Before(FirstError(TimeChecks(token, policy, t)),
                Before(FirstError(<<Sound(token, "digest",
                                          "evidence_result_mismatch")>>),
                       FirstError(CallerSignature(token)))))))))
  <1> DEFINE envelope == EnvelopeChecks(token, policy)
             size == <<Sound(token, "evidence size", "resource_limit")>>
             rules == PolicyChecks(token, policy)
             evidence == EvidenceChecks(token)
             claims == ClaimChecks(token, policy)
             times == TimeChecks(token, policy, t)
             digest == << Sound(token, "digest", "evidence_result_mismatch") >>
             caller == CallerSignature(token)
             R == Rows(TokenKinds)
  <1>1. /\ envelope \in R /\ size \in R /\ rules \in R /\ evidence \in R
        /\ claims \in R /\ times \in R /\ digest \in R /\ caller \in R
    BY EnvelopeRow, SizeRow, PolicyRow, EvidenceRow, ClaimRow, TimeRow,
       DigestRow, CallerRow, UntimedRows
  <1>2. TokenChecks(token, policy, t) =
          ((envelope \o ((size \o rules) \o ((evidence \o claims) \o times)))
           \o digest) \o caller
    BY DEF TokenChecks, IssuerChecks, EvidenceFirst
  <1> HIDE DEF envelope, size, rules, evidence, claims, times, digest, caller
  <1>3. ASSUME NEW row \in R, NEW rest \in R
        PROVE  /\ row \o rest \in R
               /\ FirstError(row \o rest) =
                     Before(FirstError(row), FirstError(rest))
    BY <1>3, NoneIsNoKind, ErrorOfTwoRows DEF Before
  <1> HIDE DEF R
  <1>4. /\ (evidence \o claims) \o times \in R
        /\ FirstError((evidence \o claims) \o times) =
             Before(FirstError(evidence),
               Before(FirstError(claims), FirstError(times)))
    <2>1. evidence \o claims \in R
      BY <1>1, <1>3
    <2> QED
      BY <1>1, <1>3, <2>1 DEF Before
  <1>5. /\ size \o rules \in R
        /\ FirstError(size \o rules) = Before(FirstError(size), FirstError(rules))
    BY <1>1, <1>3
  <1>6. DEFINE issuer == (size \o rules) \o ((evidence \o claims) \o times)
  <1>7. /\ issuer \in R
        /\ FirstError(issuer) =
             Before(FirstError(size), Before(FirstError(rules),
               FirstError((evidence \o claims) \o times)))
    BY <1>3, <1>4, <1>5 DEF Before
  <1> HIDE DEF issuer
  <1>8. /\ envelope \o issuer \in R
        /\ FirstError(envelope \o issuer) =
             Before(FirstError(envelope), FirstError(issuer))
    BY <1>1, <1>3, <1>7
  <1>9. /\ (envelope \o issuer) \o digest \in R
        /\ FirstError((envelope \o issuer) \o digest) =
             Before(FirstError(envelope \o issuer), FirstError(digest))
    BY <1>1, <1>3, <1>8
  <1>10. /\ ((envelope \o issuer) \o digest) \o caller \in R
         /\ FirstError(((envelope \o issuer) \o digest) \o caller) =
              Before(FirstError((envelope \o issuer) \o digest),
                     FirstError(caller))
    BY <1>1, <1>3, <1>9
  <1>11. TokenChecks(token, policy, t) =
           ((envelope \o issuer) \o digest) \o caller
    BY <1>2 DEF issuer
  <1>12. FirstError(TokenChecks(token, policy, t)) =
           Before(FirstError(envelope), Before(FirstError(size),
             Before(FirstError(rules), Before(FirstError(evidence),
               Before(FirstError(claims), Before(FirstError(times),
                 Before(FirstError(digest), FirstError(caller))))))))
    BY <1>4, <1>7, <1>8, <1>9, <1>10, <1>11 DEF Before
  <1> QED
    BY <1>10, <1>11, <1>12
       DEF envelope, size, rules, evidence, claims, times, digest, caller, R

LEMMA CertificateError ==
    ASSUME NEW request, NEW policy, NEW t
    PROVE  /\ CertificateChecks(request, policy, t) \in Rows(CarrierKinds)
           /\ FirstError(CertificateChecks(request, policy, t)) =
                Before(FirstError(KeyChecks(request)),
                Before(FirstError(CertificateTimeChecks(request, policy, t)),
                       FirstError(AccountChecks(request, policy))))
  <1> DEFINE keys == KeyChecks(request)
             times == CertificateTimeChecks(request, policy, t)
             accounts == AccountChecks(request, policy)
             R == Rows(CarrierKinds)
  <1>1. keys \in R /\ times \in R /\ accounts \in R
    BY KeyRow, CertificateTimeRow, AccountRow, UntimedRows
  <1>2. CertificateChecks(request, policy, t) = (keys \o times) \o accounts
    BY DEF CertificateChecks, KeyChecks, AccountChecks
  <1> HIDE DEF keys, times, accounts
  <1>3. /\ keys \o times \in R
        /\ FirstError(keys \o times) =
              Before(FirstError(keys), FirstError(times))
    BY <1>1, NoneIsNoKind, ErrorOfTwoRows DEF Before
  <1>4. /\ (keys \o times) \o accounts \in R
        /\ FirstError((keys \o times) \o accounts) =
              Before(FirstError(keys \o times), FirstError(accounts))
    BY <1>1, <1>3, NoneIsNoKind, ErrorOfTwoRows DEF Before
  <1> QED
    BY <1>2, <1>3, <1>4 DEF keys, times, accounts, R, Before

-----------------------------------------------------------------------------
(* What holds when a row has no error. *)

LEMMA RowLengths ==
    ASSUME NEW token, NEW policy, NEW t
    PROVE  /\ DOMAIN EnvelopeChecks(token, policy) = 1 .. 8
           /\ DOMAIN EvidenceChecks(token) = 1 .. 7
           /\ DOMAIN TimeChecks(token, policy, t) = 1 .. 9
           /\ DOMAIN FrameChecks(token, policy) = 1 .. 5
           /\ DOMAIN CertificateTimeChecks(token, policy, t) = 1 .. 7
  <1>1. DOMAIN EnvelopeChecks(token, policy) = 1 .. 8
    BY DEF EnvelopeChecks
  <1>2. DOMAIN EvidenceChecks(token) = 1 .. 7
    BY DEF EvidenceChecks
  <1>3. DOMAIN TimeChecks(token, policy, t) = 1 .. 9
    BY DEF TimeChecks
  <1>4. DOMAIN FrameChecks(token, policy) = 1 .. 5
    BY DEF FrameChecks
  <1>5. DOMAIN CertificateTimeChecks(token, policy, t) = 1 .. 7
    BY DEF CertificateTimeChecks
  <1> QED
    BY <1>1, <1>2, <1>3, <1>4, <1>5

LEMMA EnvelopeHolds ==
    ASSUME NEW token, NEW policy,
           FirstError(EnvelopeChecks(token, policy)) = "none"
    PROVE  /\ "token size" \notin token.faults
           /\ "envelope" \notin token.faults
           /\ "members" \notin token.faults
           /\ "version" \notin token.faults
           /\ "caller key" \notin token.faults
  <1>1. Holds(EnvelopeChecks(token, policy))
    BY EnvelopeRow, NoneIsNoKind, ErrorOfRow
  <1>2. /\ EnvelopeChecks(token, policy)[1].holds
        /\ EnvelopeChecks(token, policy)[3].holds
        /\ EnvelopeChecks(token, policy)[4].holds
        /\ EnvelopeChecks(token, policy)[5].holds
        /\ EnvelopeChecks(token, policy)[8].holds
    BY <1>1, RowLengths DEF Holds
  <1> QED
    BY <1>2 DEF EnvelopeChecks, Sound, Check

LEMMA EvidenceHolds ==
    ASSUME NEW token, FirstError(EvidenceChecks(token)) = "none"
    PROVE  /\ "payload" \notin token.faults
           /\ "framing" \notin token.faults
           /\ "key reference" \notin token.faults
           /\ "critical" \notin token.faults
           /\ "algorithm" \notin token.faults
           /\ "key" \notin token.faults
           /\ "issuer signature" \notin token.faults
  <1>1. Holds(EvidenceChecks(token))
    BY EvidenceRow, NoneIsNoKind, ErrorOfRow
  <1>2. /\ EvidenceChecks(token)[1].holds
        /\ EvidenceChecks(token)[2].holds
        /\ EvidenceChecks(token)[3].holds
        /\ EvidenceChecks(token)[4].holds
        /\ EvidenceChecks(token)[5].holds
        /\ EvidenceChecks(token)[6].holds
        /\ EvidenceChecks(token)[7].holds
    BY <1>1, RowLengths DEF Holds
  <1> QED
    BY <1>2 DEF EvidenceChecks, Sound, Check

LEMMA PolicyHolds ==
    ASSUME NEW token, NEW policy,
           FirstError(PolicyChecks(token, policy)) = "none"
    PROVE  policy.skew >= 0 /\ policy.maxAge >= 0
  <1>1. Holds(PolicyChecks(token, policy))
    BY PolicyRow, NoneIsNoKind, ErrorOfRow
  <1> QED
    BY <1>1 DEF PolicyChecks, Holds, Check

LEMMA ClaimsHold ==
    ASSUME NEW token, NEW policy,
           FirstError(ClaimChecks(token, policy)) = "none"
    PROVE  Bound(token)
  <1>1. Holds(ClaimChecks(token, policy))
    BY ClaimRow, NoneIsNoKind, ErrorOfRow
  <1> QED
    BY <1>1 DEF ClaimChecks, Holds, Check

LEMMA SingleHolds ==
    ASSUME NEW token, NEW fault, NEW kind, kind # "none",
           FirstError(<<Sound(token, fault, kind)>>) = "none"
    PROVE  fault \notin token.faults
  <1> DEFINE row == <<Sound(token, fault, kind)>>
  <1>1. row \in Rows({kind}) /\ "none" \notin {kind}
    BY DEF Rows, CheckRecords, Sound, Check
  <1>2. Holds(row)
    <2> HIDE DEF row
    <2> QED
      BY <1>1, ErrorOfRow DEF row
  <1>3. row[1].holds
    BY <1>2 DEF Holds
  <1> QED
    BY <1>3 DEF Sound, Check

LEMMA FrameHolds ==
    ASSUME NEW request, NEW policy,
           FirstError(FrameChecks(request, policy)) = "none"
    PROVE  /\ "user" \notin request.faults
           /\ "certificate" \notin request.faults
           /\ "key type" \notin request.faults
           /\ policy.skew >= 0 /\ policy.lifetime >= 0
           /\ request.validAfter < request.validBefore
           /\ request.validBefore < MaxUint
  <1>1. Holds(FrameChecks(request, policy))
    BY FrameRow, NoneIsNoKind, ErrorOfRow
  <1>2. /\ FrameChecks(request, policy)[1].holds
        /\ FrameChecks(request, policy)[2].holds
        /\ FrameChecks(request, policy)[3].holds
        /\ FrameChecks(request, policy)[4].holds
        /\ FrameChecks(request, policy)[5].holds
    BY <1>1, RowLengths DEF Holds
  <1> QED
    BY <1>2 DEF FrameChecks, Sound, Check

\* Where FirstError is none for a token, it is none for each of its rows.
LEMMA TokenHolds ==
    ASSUME NEW token, NEW policy, NEW t,
           FirstError(TokenChecks(token, policy, t)) = "none"
    PROVE  /\ FirstError(EnvelopeChecks(token, policy)) = "none"
           /\ "evidence size" \notin token.faults
           /\ FirstError(PolicyChecks(token, policy)) = "none"
           /\ FirstError(EvidenceChecks(token)) = "none"
           /\ FirstError(ClaimChecks(token, policy)) = "none"
           /\ FirstError(TimeChecks(token, policy, t)) = "none"
           /\ "digest" \notin token.faults
           /\ "caller signature" \notin token.faults
  <1> DEFINE size == FirstError(<<Sound(token, "evidence size",
                                        "resource_limit")>>)
             digest == FirstError(<<Sound(token, "digest",
                                          "evidence_result_mismatch")>>)
             caller == FirstError(CallerSignature(token))
  <1>1. /\ FirstError(EnvelopeChecks(token, policy)) = "none"
        /\ size = "none"
        /\ FirstError(PolicyChecks(token, policy)) = "none"
        /\ FirstError(EvidenceChecks(token)) = "none"
        /\ FirstError(ClaimChecks(token, policy)) = "none"
        /\ FirstError(TimeChecks(token, policy, t)) = "none"
        /\ digest = "none" /\ caller = "none"
    <2> DEFINE envelope == FirstError(EnvelopeChecks(token, policy))
               rules == FirstError(PolicyChecks(token, policy))
               evidence == FirstError(EvidenceChecks(token))
               claims == FirstError(ClaimChecks(token, policy))
               times == FirstError(TimeChecks(token, policy, t))
    <2>1. Before(envelope, Before(size, Before(rules, Before(evidence,
            Before(claims, Before(times, Before(digest, caller))))))) = "none"
      BY TokenError
    <2> HIDE DEF envelope, size, rules, evidence, claims, times, digest, caller
    <2>2. /\ envelope = "none" /\ size = "none" /\ rules = "none"
          /\ evidence = "none" /\ claims = "none" /\ times = "none"
          /\ digest = "none" /\ caller = "none"
      BY <2>1 DEF Before
    <2> QED
      BY <2>2 DEF envelope, rules, evidence, claims, times
  <1>2. "evidence size" \notin token.faults
    BY <1>1, SingleHolds
  <1>3. "digest" \notin token.faults
    BY <1>1, SingleHolds
  <1>4. "caller signature" \notin token.faults
    BY <1>1, SingleHolds DEF CallerSignature
  <1> QED
    BY <1>1, <1>2, <1>3, <1>4

-----------------------------------------------------------------------------
(* The invariant. *)

Answers(request, policy, last) ==
    {CarrierAnswer(request, policy, t) : t \in 0 .. last}

\* The answer is that of a time already past.
CarrierInv ==
    /\ case \in Cases
    /\ now \in 0 .. MaxNow
    /\ answer = NoAnswer \/ answer \in Answers(Request, Policy, now)

LEMMA CarrierInvariant == Spec => []CarrierInv
  <1>1. Init => CarrierInv
    BY CasesAssumption DEF Init, CarrierInv
  <1>2. CarrierInv /\ [Next]_vars => CarrierInv'
    <2> SUFFICES ASSUME CarrierInv, [Next]_vars PROVE CarrierInv'
      OBVIOUS
    <2> USE CasesAssumption
    <2>1. CASE Judge
      <3>1. answer' \in Answers(Request, Policy, now)
        BY <2>1 DEF Judge, Answers, CarrierInv, Request, Policy
      <3> QED
        BY <2>1, <3>1 DEF Judge, CarrierInv, Request, Policy
    <2>2. CASE Tick
      <3>1. Answers(Request, Policy, now) \subseteq Answers(Request, Policy, now')
        BY <2>2 DEF Tick, Answers, CarrierInv
      <3>2. now' \in 0 .. MaxNow
        BY <2>2 DEF Tick, CarrierInv
      <3> QED
        BY <2>2, <3>1, <3>2 DEF Tick, CarrierInv, Request, Policy
    <2>3. CASE UNCHANGED vars
      BY <2>3 DEF vars, CarrierInv, Request, Policy
    <2> QED
      BY <2>1, <2>2, <2>3 DEF Next
  <1> QED
    BY <1>1, <1>2, PTL DEF Spec

LEMMA CaseTypes ==
    ASSUME case \in Cases
    PROVE  /\ DOMAIN case = {"request", "policy"}
           /\ IsRequest(Request) /\ IsPolicy(Policy)
  BY CasesAssumption DEF Request, Policy

LEMMA AnswerKinds ==
    ASSUME NEW request, NEW policy, NEW t
    PROVE  \/ CarrierAnswer(request, policy, t)
                \in [core : {FALSE}, error : TokenKinds]
           \/ CarrierAnswer(request, policy, t)
                \in [core : {TRUE}, error : CarrierKinds \cup {"none"}]
  <1> DEFINE frame == FirstError(FrameChecks(request, policy))
             token == FirstError(TokenChecks(request, policy, t))
             rest == FirstError(CertificateChecks(request, policy, t))
  <1>1. frame \in TokenKinds \cup {"none"}
    BY FrameRow, UntimedRows, NoneIsNoKind, ErrorOfRow
  <1>2. token \in TokenKinds \cup {"none"}
    BY TokenError, NoneIsNoKind, ErrorOfRow
  <1>3. rest \in CarrierKinds \cup {"none"}
    BY CertificateError, NoneIsNoKind, ErrorOfRow
  <1>4. CASE frame # "none"
    <2>1. CarrierAnswer(request, policy, t) = [core |-> FALSE, error |-> frame]
      BY <1>4 DEF CarrierAnswer, CoreVerified
    <2> HIDE DEF frame
    <2> QED
      BY <1>1, <1>4, <2>1
  <1>5. CASE frame = "none" /\ token # "none"
    <2>1. CarrierAnswer(request, policy, t) = [core |-> FALSE, error |-> token]
      BY <1>5 DEF CarrierAnswer, CoreVerified
    <2> HIDE DEF token
    <2> QED
      BY <1>2, <1>5, <2>1
  <1>6. CASE frame = "none" /\ token = "none"
    <2>1. CarrierAnswer(request, policy, t) = [core |-> TRUE, error |-> rest]
      BY <1>6 DEF CarrierAnswer, CoreVerified
    <2> HIDE DEF rest
    <2> QED
      BY <1>3, <2>1
  <1> QED
    BY <1>4, <1>5, <1>6

\* verify_carrier: an error of the token never comes with a verified core,
\* and one of the certificate or the account always does.
THEOREM CarrierTypes == Spec => []TypeOK
  <1>1. CarrierInv => TypeOK
    <2> SUFFICES ASSUME CarrierInv PROVE TypeOK
      OBVIOUS
    <2>1. DOMAIN case = {"request", "policy"} /\ now \in 0 .. MaxNow
      BY CaseTypes DEF CarrierInv
    <2>2. CASE answer = NoAnswer
      BY <2>1, <2>2 DEF TypeOK
    <2>3. CASE answer \in Answers(Request, Policy, now)
      <3>1. PICK t \in 0 .. now : answer = CarrierAnswer(Request, Policy, t)
        BY <2>3 DEF Answers
      <3> QED
        BY <2>1, <3>1, AnswerKinds DEF TypeOK
    <2> QED
      BY <2>2, <2>3 DEF CarrierInv
  <1> QED
    BY <1>1, CarrierInvariant, PTL

-----------------------------------------------------------------------------
(* The core. *)

LEMMA ItemsOfOne == ASSUME NEW v, NEW x, v.items = <<x>> PROVE Items(v) = {x}
  BY DEF Items

\* Each binding profile finds the commitment alone in the claim it looks at.
LEMMA BoundClaim ==
    ASSUME NEW token, Bound(token)
    PROVE  \E name \in {"nonce", "aud", "commitment"} :
               Items(token.claims[name]) = {token.commitment}
  <1>1. CASE token.binding = "oidc-nonce"
    <2>1. token.claims["nonce"].items = <<token.commitment>>
      BY <1>1 DEF Bound, Text
    <2> QED
      BY <2>1, ItemsOfOne
  <1>2. CASE token.binding = "audience"
    <2>1. token.claims["aud"].items = <<token.commitment>>
      BY <1>2 DEF Bound, ExactAudience
    <2> QED
      BY <2>1, ItemsOfOne
  <1>3. CASE token.binding \notin {"oidc-nonce", "audience"}
    <2>1. token.claims["commitment"].items = <<token.commitment>>
      BY <1>3 DEF Bound, Text
    <2> QED
      BY <2>1, ItemsOfOne
  <1> QED
    BY <1>1, <1>2, <1>3

LEMMA VerifiedCore ==
    ASSUME NEW request, NEW policy, NEW t, CarrierAnswer(request, policy, t).core
    PROVE  /\ FirstError(FrameChecks(request, policy)) = "none"
           /\ FirstError(TokenChecks(request, policy, t)) = "none"
  BY DEF CarrierAnswer, CoreVerified

LEMMA SoundCore ==
    ASSUME NEW request, NEW policy, NEW t, request.faults \subseteq Faults,
           CarrierAnswer(request, policy, t).core
    PROVE  request.faults \subseteq CertificateFaults
  <1>1. /\ FirstError(FrameChecks(request, policy)) = "none"
        /\ FirstError(TokenChecks(request, policy, t)) = "none"
    BY VerifiedCore
  <1>2. /\ FirstError(EnvelopeChecks(request, policy)) = "none"
        /\ FirstError(EvidenceChecks(request)) = "none"
        /\ {"evidence size", "digest", "caller signature"} \cap request.faults = {}
    BY <1>1, TokenHolds
  <1>3. {"token size", "envelope", "members", "version", "caller key"}
            \cap request.faults = {}
    BY <1>2, EnvelopeHolds
  <1>4. {"payload", "framing", "key reference", "critical", "algorithm", "key",
         "issuer signature"} \cap request.faults = {}
    BY <1>2, EvidenceHolds
  <1>5. {"user", "certificate", "key type"} \cap request.faults = {}
    BY <1>1, FrameHolds
  <1> QED
    BY <1>2, <1>3, <1>4, <1>5 DEF Faults, CertificateFaults

\* verify_token, verify_carrier: the core that the audit event and the account
\* rules use comes from a token without any fault, in which the issuer signed
\* the caller's commitment, and nothing else, in one claim.
THEOREM CoreAuthentic == Spec => []CoreIsAuthentic
  <1>1. CarrierInv => CoreIsAuthentic
    <2> SUFFICES ASSUME CarrierInv, answer.core
                 PROVE  /\ Request.faults \subseteq CertificateFaults
                        /\ \E name \in {"nonce", "aud", "commitment"} :
                              Items(Request.claims[name]) = {Request.commitment}
      BY DEF CoreIsAuthentic
    <2>1. PICK t \in 0 .. now : answer = CarrierAnswer(Request, Policy, t)
      BY DEF CarrierInv, NoAnswer, Answers
    <2>2. Request.faults \subseteq Faults
      BY CaseTypes DEF CarrierInv, IsRequest
    <2>3. Request.faults \subseteq CertificateFaults
      BY <2>1, <2>2, SoundCore
    <2>4. Bound(Request)
      BY <2>1, VerifiedCore, TokenHolds, ClaimsHold
    <2> QED
      BY <2>3, <2>4, BoundClaim
  <1> QED
    BY <1>1, CarrierInvariant, PTL

-----------------------------------------------------------------------------
(* Times. *)

LEMMA DatesAreIntegers ==
    ASSUME NEW d \in Int \cup {Absent, Invalid}
    PROVE  IsDate(d) => d \in Int /\ d \notin {Absent, Invalid}
  BY IssuerAssumption DEF IsDate

LEMMA TimesHold ==
    ASSUME NEW token, NEW policy, NEW t, FirstError(TimeChecks(token, policy, t)) = "none"
    PROVE  /\ IsDate(token.iat) /\ IsDate(token.exp)
           /\ Fits(Latest(policy, t)) /\ Fits(Earliest(policy, t))
           /\ token.iat <= Latest(policy, t)
           /\ token.nbf = Absent \/ IsDate(token.nbf)
           /\ IsDate(token.nbf) => token.nbf <= Latest(policy, t)
           /\ Earliest(policy, t) < token.exp
           /\ policy.maxAge > 0 =>
                 /\ Fits(token.iat + policy.maxAge)
                 /\ Earliest(policy, t) < token.iat + policy.maxAge
  <1>1. Holds(TimeChecks(token, policy, t))
    BY TimeRow, NoneIsNoKind, ErrorOfRow
  <1>2. /\ TimeChecks(token, policy, t)[1].holds
        /\ TimeChecks(token, policy, t)[2].holds
        /\ TimeChecks(token, policy, t)[3].holds
        /\ TimeChecks(token, policy, t)[4].holds
        /\ TimeChecks(token, policy, t)[5].holds
        /\ TimeChecks(token, policy, t)[6].holds
        /\ TimeChecks(token, policy, t)[7].holds
        /\ TimeChecks(token, policy, t)[8].holds
        /\ TimeChecks(token, policy, t)[9].holds
    BY <1>1, RowLengths DEF Holds
  <1> QED
    BY <1>2 DEF TimeChecks, Check, NotAfter, After

LEMMA CertificateTimesHold ==
    ASSUME NEW request, NEW policy, NEW t,
           FirstError(CertificateTimeChecks(request, policy, t)) = "none"
    PROVE  /\ Latest(policy, t) >= 0 /\ request.validAfter <= Latest(policy, t)
           /\ ~Expired(Earliest(policy, t), request.validBefore)
           /\ ValidUntil(request, policy) >= 0
           /\ policy.lifetime > 0 =>
                 request.validAfter + policy.lifetime <= MaxUint
           /\ request.validBefore <=
                 Boundary(request, policy, ValidUntil(request, policy))
  <1>1. Holds(CertificateTimeChecks(request, policy, t))
    BY CertificateTimeRow, NoneIsNoKind, ErrorOfRow
  <1>2. /\ CertificateTimeChecks(request, policy, t)[1].holds
        /\ CertificateTimeChecks(request, policy, t)[2].holds
        /\ CertificateTimeChecks(request, policy, t)[3].holds
        /\ CertificateTimeChecks(request, policy, t)[4].holds
        /\ CertificateTimeChecks(request, policy, t)[5].holds
        /\ CertificateTimeChecks(request, policy, t)[6].holds
        /\ CertificateTimeChecks(request, policy, t)[7].holds
    BY <1>1, RowLengths DEF Holds
  <1> QED
    BY <1>2 DEF CertificateTimeChecks, Check

\* validate_claims, and the times of the certificate, where they refuse.
TimedOut(token, policy, t) ==
    \/ Latest(policy, t) < token.iat
    \/ IsDate(token.nbf) /\ Latest(policy, t) < token.nbf
    \/ token.exp <= Earliest(policy, t)
    \/ policy.maxAge > 0 /\ token.iat + policy.maxAge <= Earliest(policy, t)

LEMMA TimeFails ==
    ASSUME NEW token, NEW policy, NEW t,
           {token.iat, token.exp, token.nbf} \subseteq Int \cup {Absent, Invalid},
           {policy.skew, policy.maxAge, t} \subseteq Int,
           FirstError(TimeChecks(token, policy, t)) \in Early \cup Late
    PROVE  /\ IsDate(token.iat) /\ IsDate(token.exp)
           /\ TimedOut(token, policy, t)
  <1> DEFINE row == TimeChecks(token, policy, t)
  <1>1. row \in Rows(TokenKinds) /\ DOMAIN row = 1 .. 9
    BY TimeRow, RowLengths
  <1>2. FirstError(row) # "none"
    BY DEF Early, Late
  <1>3. PICK i \in 1 .. 9 : FailsFirst(row, i) /\ FirstError(row) = row[i].kind
    <2> HIDE DEF row
    <2> QED
      BY <1>1, <1>2, NoneIsNoKind, ErrorOfRow, LenProperties DEF Rows
  <1>4. i \in {3, 5, 7, 9}
    <2>1. row[i].kind \in Early \cup Late
      BY <1>3
    <2> QED
      BY <1>3, <2>1 DEF TimeChecks, Check, Early, Late
  <1>5. row[1].holds
    BY <1>3, <1>4 DEF FailsFirst
  <1>6. IsDate(token.iat) /\ IsDate(token.exp)
    BY <1>5 DEF TimeChecks, Check
  <1>7. token.iat \in Int /\ token.exp \in Int
    BY <1>6, DatesAreIntegers
  <1>8. IsDate(token.nbf) => token.nbf \in Int
    BY DatesAreIntegers
  <1>9. /\ Latest(policy, t) \in Int /\ Earliest(policy, t) \in Int
        /\ token.iat + policy.maxAge \in Int
    BY <1>7 DEF Latest, Earliest
  <1>10. TimedOut(token, policy, t)
    <2>0. ~row[i].holds
      BY <1>3 DEF FailsFirst
    <2>1. CASE i = 3
      <3>1. ~NotAfter(token.iat, Latest(policy, t))
        BY <2>0, <2>1 DEF TimeChecks, Check
      <3> QED
        BY <1>7, <1>9, <3>1 DEF NotAfter, TimedOut
    <2>2. CASE i = 5
      <3>1. ~NotAfter(token.nbf, Latest(policy, t))
        BY <2>0, <2>2 DEF TimeChecks, Check
      <3> QED
        BY <1>8, <1>9, <3>1 DEF NotAfter, TimedOut
    <2>3. CASE i = 7
      <3>1. ~After(token.exp, Earliest(policy, t))
        BY <2>0, <2>3 DEF TimeChecks, Check
      <3> QED
        BY <1>6, <1>7, <1>9, <3>1 DEF After, TimedOut
    <2>4. CASE i = 9
      <3>1. /\ policy.maxAge > 0
            /\ ~(Earliest(policy, t) < token.iat + policy.maxAge)
        BY <2>0, <2>4 DEF TimeChecks, Check
      <3> QED
        BY <1>9, <3>1 DEF TimedOut
    <2> QED
      BY <1>4, <2>1, <2>2, <2>3, <2>4
  <1> QED
    BY <1>6, <1>10

CertificateTimedOut(request, policy, t) ==
    LET until == ValidUntil(request, policy) IN
    \/ Latest(policy, t) < request.validAfter
    \/ request.validBefore <= Earliest(policy, t)
    \/ until < 0
    \/ Boundary(request, policy, until) < request.validBefore

LEMMA CertificateTimeFails ==
    ASSUME NEW request, NEW policy, NEW t,
           {request.validAfter, request.validBefore} \subseteq Nat,
           {policy.skew, policy.lifetime, t} \subseteq Int,
           ValidUntil(request, policy) \in Int,
           FirstError(CertificateTimeChecks(request, policy, t))
               \in Early \cup Late,
           Fits(Latest(policy, t)), Fits(Earliest(policy, t))
    PROVE  CertificateTimedOut(request, policy, t)
  <1> DEFINE row == CertificateTimeChecks(request, policy, t)
             until == ValidUntil(request, policy)
  <1>1. row \in Rows(CarrierKinds) /\ DOMAIN row = 1 .. 7
    BY CertificateTimeRow, RowLengths
  <1>2. FirstError(row) # "none"
    BY DEF Early, Late
  <1>3. PICK i \in 1 .. 7 : FailsFirst(row, i) /\ FirstError(row) = row[i].kind
    <2> HIDE DEF row
    <2> QED
      BY <1>1, <1>2, NoneIsNoKind, ErrorOfRow, LenProperties DEF Rows
  <1>4. ~row[i].holds
    BY <1>3 DEF FailsFirst
  <1>5. i \in {3, 4, 5, 7}
    <2>1. row[i].kind \in Early \cup Late
      BY <1>3
    <2>2. i # 6
      BY <2>1 DEF CertificateTimeChecks, Check, Early, Late
    <2>3. i # 1 /\ i # 2
      BY <1>4 DEF CertificateTimeChecks, Check
    <2> QED
      BY <2>2, <2>3
  <1>6. /\ Latest(policy, t) \in Int /\ Earliest(policy, t) \in Int
        /\ Boundary(request, policy, until) \in Int
    BY DEF Latest, Earliest, Boundary, Lesser
  <1>7. CASE i = 3
    <2>1. ~(Latest(policy, t) >= 0 /\ request.validAfter <= Latest(policy, t))
      BY <1>4, <1>7 DEF CertificateTimeChecks, Check
    <2> QED
      BY <1>6, <2>1 DEF CertificateTimedOut
  <1>8. CASE i = 4
    <2>1. Expired(Earliest(policy, t), request.validBefore)
      BY <1>4, <1>8 DEF CertificateTimeChecks, Check
    <2> QED
      BY <1>6, <2>1 DEF CertificateTimedOut, Expired
  <1>9. CASE i = 5
    <2>1. ~(until >= 0)
      BY <1>4, <1>9 DEF CertificateTimeChecks, Check
    <2> QED
      BY <2>1 DEF CertificateTimedOut
  <1>10. CASE i = 7
    <2>1. ~(request.validBefore <= Boundary(request, policy, until))
      BY <1>4, <1>10 DEF CertificateTimeChecks, Check
    <2> QED
      BY <1>6, <2>1 DEF CertificateTimedOut
  <1> QED
    BY <1>5, <1>7, <1>8, <1>9, <1>10

-----------------------------------------------------------------------------
(* The answer, taken apart into what looks at the clock and what does not. *)

Size(token) == <<Sound(token, "evidence size", "resource_limit")>>
Digest(token) == << Sound(token, "digest", "evidence_result_mismatch") >>

BeforeTimes(request, policy) ==
    Before(FirstError(FrameChecks(request, policy)),
    Before(FirstError(EnvelopeChecks(request, policy)),
    Before(FirstError(Size(request)),
    Before(FirstError(PolicyChecks(request, policy)),
    Before(FirstError(EvidenceChecks(request)),
           FirstError(ClaimChecks(request, policy)))))))

BetweenTimes(request) ==
    Before(FirstError(Digest(request)),
    Before(FirstError(CallerSignature(request)),
           FirstError(KeyChecks(request))))

AfterTimes(request, policy) == FirstError(AccountChecks(request, policy))

LEMMA AnswerError ==
    ASSUME NEW request, NEW policy, NEW t
    PROVE  CarrierAnswer(request, policy, t).error =
             Before(BeforeTimes(request, policy),
             Before(FirstError(TimeChecks(request, policy, t)),
             Before(BetweenTimes(request),
             Before(FirstError(CertificateTimeChecks(request, policy, t)),
                    AfterTimes(request, policy)))))
  <1> DEFINE frame == FirstError(FrameChecks(request, policy))
             token == FirstError(TokenChecks(request, policy, t))
             rest == FirstError(CertificateChecks(request, policy, t))
             envelope == FirstError(EnvelopeChecks(request, policy))
             size == FirstError(Size(request))
             rules == FirstError(PolicyChecks(request, policy))
             evidence == FirstError(EvidenceChecks(request))
             claims == FirstError(ClaimChecks(request, policy))
             times == FirstError(TimeChecks(request, policy, t))
             digest == FirstError(Digest(request))
             caller == FirstError(CallerSignature(request))
             keys == FirstError(KeyChecks(request))
             dates == FirstError(CertificateTimeChecks(request, policy, t))
             accounts == FirstError(AccountChecks(request, policy))
  <1>1. CarrierAnswer(request, policy, t).error =
          Before(frame, Before(token, rest))
    BY DEF CarrierAnswer, Before
  <1>2. token = Before(envelope, Before(size, Before(rules, Before(evidence,
                  Before(claims, Before(times, Before(digest, caller)))))))
    BY TokenError DEF Size, Digest
  <1>3. rest = Before(keys, Before(dates, accounts))
    BY CertificateError
  <1>4. /\ BeforeTimes(request, policy) =
             Before(frame, Before(envelope, Before(size, Before(rules,
               Before(evidence, claims)))))
        /\ BetweenTimes(request) = Before(digest, Before(caller, keys))
        /\ AfterTimes(request, policy) = accounts
    BY DEF BeforeTimes, BetweenTimes, AfterTimes
  <1> HIDE DEF frame, token, rest, envelope, size, rules, evidence, claims,
               times, digest, caller, keys, dates, accounts
  <1>5. Before(frame, Before(token, rest)) =
          Before(Before(frame, Before(envelope, Before(size, Before(rules,
                   Before(evidence, claims))))),
          Before(times,
          Before(Before(digest, Before(caller, keys)),
          Before(dates, accounts))))
    BY <1>2, <1>3 DEF Before
  <1> QED
    BY <1>1, <1>4, <1>5 DEF times, dates

LEMMA UntimedErrors ==
    ASSUME NEW request, NEW policy
    PROVE  /\ BeforeTimes(request, policy) \notin Early \cup Late
           /\ BetweenTimes(request) \notin Early \cup Late
           /\ AfterTimes(request, policy) \notin Early \cup Late
  <1>1. ASSUME NEW kinds, "none" \notin Untimed(kinds),
               NEW row \in Rows(Untimed(kinds))
        PROVE  FirstError(row) \notin Early \cup Late
    <2>1. FirstError(row) \in Untimed(kinds) \cup {"none"}
      BY <1>1, ErrorOfRow
    <2> QED
      BY <2>1 DEF Untimed, Early, Late
  <1>2. /\ FirstError(FrameChecks(request, policy)) \notin Early \cup Late
        /\ FirstError(EnvelopeChecks(request, policy)) \notin Early \cup Late
        /\ FirstError(Size(request)) \notin Early \cup Late
        /\ FirstError(PolicyChecks(request, policy)) \notin Early \cup Late
        /\ FirstError(EvidenceChecks(request)) \notin Early \cup Late
        /\ FirstError(ClaimChecks(request, policy)) \notin Early \cup Late
    BY <1>1, NoneIsNoKind, FrameRow, EnvelopeRow, SizeRow, PolicyRow,
       EvidenceRow, ClaimRow DEF Size
  <1>3. /\ FirstError(Digest(request)) \notin Early \cup Late
        /\ FirstError(CallerSignature(request)) \notin Early \cup Late
        /\ FirstError(KeyChecks(request)) \notin Early \cup Late
        /\ FirstError(AccountChecks(request, policy)) \notin Early \cup Late
    BY <1>1, NoneIsNoKind, DigestRow, CallerRow, KeyRow, AccountRow DEF Digest
  <1> QED
    BY <1>2, <1>3 DEF BeforeTimes, BetweenTimes, AfterTimes, Before

\* The parts of an answer that accepts.
LEMMA Accepted ==
    ASSUME NEW request, NEW policy, NEW t
    PROVE  CarrierAnswer(request, policy, t).error = "none" <=>
             /\ BeforeTimes(request, policy) = "none"
             /\ FirstError(TimeChecks(request, policy, t)) = "none"
             /\ BetweenTimes(request) = "none"
             /\ FirstError(CertificateTimeChecks(request, policy, t)) = "none"
             /\ AfterTimes(request, policy) = "none"
  BY AnswerError DEF Before

\* The parts of an answer that refuses for its time.
LEMMA RefusedForTime ==
    ASSUME NEW request, NEW policy, NEW t,
           CarrierAnswer(request, policy, t).error \in Early \cup Late
    PROVE  /\ BeforeTimes(request, policy) = "none"
           /\ \/ FirstError(TimeChecks(request, policy, t)) =
                     CarrierAnswer(request, policy, t).error
              \/ /\ FirstError(TimeChecks(request, policy, t)) = "none"
                 /\ BetweenTimes(request) = "none"
                 /\ FirstError(CertificateTimeChecks(request, policy, t)) =
                       CarrierAnswer(request, policy, t).error
  BY AnswerError, UntimedErrors DEF Before

LEMMA PolicyInRange ==
    ASSUME NEW request, NEW policy, BeforeTimes(request, policy) = "none"
    PROVE  /\ policy.skew >= 0 /\ policy.maxAge >= 0 /\ policy.lifetime >= 0
           /\ request.validAfter < request.validBefore
           /\ request.validBefore < MaxUint
  <1>1. /\ FirstError(FrameChecks(request, policy)) = "none"
        /\ FirstError(PolicyChecks(request, policy)) = "none"
    BY DEF BeforeTimes, Before
  <1> QED
    BY <1>1, FrameHolds, PolicyHolds

LEMMA TimeTypes ==
    ASSUME NEW request, NEW policy, IsRequest(request), IsPolicy(policy)
    PROVE  /\ {request.iat, request.exp, request.nbf}
                  \subseteq Int \cup {Absent, Invalid}
           /\ {request.validAfter, request.validBefore} \subseteq Nat
           /\ {policy.skew, policy.maxAge, policy.lifetime} \subseteq Int
           /\ MaxInt \in Nat /\ MinInt \in Int /\ MaxUint \in Nat
           /\ MaxDate \in Nat
  BY IssuerAssumption DEF IsRequest, IsPolicy, MinInt, MaxUint

-----------------------------------------------------------------------------
(* What is accepted is valid, and what is refused for its time is not. *)

LEMMA AcceptedEndsInTime ==
    ASSUME NEW request, NEW policy, NEW t \in Nat,
           IsRequest(request), IsPolicy(policy),
           CarrierAnswer(request, policy, t).error = "none"
    PROVE  /\ request.iat \in Int /\ request.exp \in Int
           /\ ~Outlives(request, policy)
  <1>0. FirstError(TimeChecks(request, policy, t)) = "none"
    BY Accepted
  <1>1. /\ IsDate(request.iat) /\ request.iat \in Int
        /\ IsDate(request.exp) /\ request.exp \in Int
    <2>1. IsDate(request.iat) /\ IsDate(request.exp)
      BY <1>0, TimesHold
    <2>2. /\ request.iat \in Int \cup {Absent, Invalid}
          /\ request.exp \in Int \cup {Absent, Invalid}
      BY TimeTypes
    <2> QED
      BY <2>1, <2>2, DatesAreIntegers
  <1>2. request.validBefore <=
          Boundary(request, policy, ValidUntil(request, policy))
    BY Accepted, CertificateTimesHold
  <1>3. policy.maxAge >= 0 /\ policy.lifetime >= 0
    BY Accepted, PolicyInRange
  <1> QED
    BY <1>1, <1>2, <1>3, TimeTypes DEF Outlives, Boundary, ValidUntil, Lesser

LEMMA AcceptedInWindow ==
    ASSUME NEW request, NEW policy, now \in Nat,
           IsRequest(request), IsPolicy(policy),
           CarrierAnswer(request, policy, now).error = "none"
    PROVE  InWindow(request, policy)
  <1>1. FirstError(TimeChecks(request, policy, now)) = "none"
    BY Accepted
  <1>2. FirstError(CertificateTimeChecks(request, policy, now)) = "none"
    BY Accepted
  <1>3. ASSUME NEW start \in Starts(request) PROVE start <= now + policy.skew
    <2>1. request.iat <= Latest(policy, now)
      BY <1>1, TimesHold
    <2>2. request.nbf # Absent => request.nbf <= Latest(policy, now)
      BY <1>1, TimesHold
    <2>3. request.validAfter <= Latest(policy, now)
      BY <1>2, CertificateTimesHold
    <2> QED
      BY <2>1, <2>2, <2>3 DEF Starts, Latest
  <1>4. ASSUME NEW end \in Ends(request) PROVE now - policy.skew < end
    <2>1. Earliest(policy, now) < request.exp
      BY <1>1, TimesHold
    <2>2. ~Expired(Earliest(policy, now), request.validBefore)
      BY <1>2, CertificateTimesHold
    <2>3. Earliest(policy, now) < request.validBefore
      BY <2>2, TimeTypes DEF Expired, Earliest
    <2> QED
      BY <2>1, <2>3 DEF Ends, Earliest
  <1>5. policy.maxAge > 0 => now - policy.skew < request.iat + policy.maxAge
    BY <1>1, TimesHold DEF Earliest
  <1> QED
    BY <1>3, <1>4, <1>5 DEF InWindow

\* issuer_verifier.cpp computes until when the credential is good and
\* direct_verifier.cpp compares the certificate with it: what is accepted ends
\* no later than the credential, the age and the lifetime the policy allows.
THEOREM AuthorityBounded == Spec => []AuthorityIsBounded
  <1>1. CarrierInv => AuthorityIsBounded
    <2> SUFFICES ASSUME CarrierInv, answer.error = "none"
                 PROVE  AuthorityIsBounded
      BY DEF AuthorityIsBounded
    <2>1. PICK t \in 0 .. now : answer = CarrierAnswer(Request, Policy, t)
      BY DEF CarrierInv, NoAnswer, Answers
    <2>2. /\ IsRequest(Request) /\ IsPolicy(Policy) /\ t \in Nat
      BY <2>1, CaseTypes DEF CarrierInv
    <2>3. /\ Request.iat \in Int /\ Request.exp \in Int
          /\ ~Outlives(Request, Policy)
      BY <2>1, <2>2, AcceptedEndsInTime
    <2> QED
      BY <2>2, <2>3, TimeTypes DEF AuthorityIsBounded, Outlives
  <1> QED
    BY <1>1, CarrierInvariant, PTL

LEMMA RefusedInVain ==
    ASSUME NEW request, NEW policy, now \in Nat,
           IsRequest(request), IsPolicy(policy),
           CarrierAnswer(request, policy, now).error \in Early \cup Late
    PROVE  ~InWindow(request, policy) \/ Outlives(request, policy)
  <1>1. policy.skew >= 0 /\ policy.maxAge >= 0 /\ policy.lifetime >= 0
    BY RefusedForTime, PolicyInRange
  <1>2. /\ {request.iat, request.exp, request.nbf}
               \subseteq Int \cup {Absent, Invalid}
        /\ {request.validAfter, request.validBefore} \subseteq Nat
        /\ {policy.skew, policy.maxAge, policy.lifetime, now} \subseteq Int
    BY TimeTypes
  <1>3. /\ request.validAfter \in Starts(request)
        /\ request.validBefore \in Ends(request)
    BY <1>2, IssuerAssumption DEF Starts, Ends
  <1>4. CASE FirstError(TimeChecks(request, policy, now)) \in Early \cup Late
    <2>1. /\ IsDate(request.iat) /\ IsDate(request.exp)
          /\ TimedOut(request, policy, now)
      BY <1>2, <1>4, TimeFails
    <2>2. /\ request.iat \in Starts(request) /\ request.iat \in Int
          /\ request.exp \in Ends(request) /\ request.exp \in Int
      BY <1>2, <2>1, DatesAreIntegers DEF Starts, Ends
    <2>3. IsDate(request.nbf) =>
            request.nbf \in Starts(request) /\ request.nbf \in Int
      BY <1>2, DatesAreIntegers DEF Starts
    <2>4. CASE Latest(policy, now) < request.iat
      BY <1>2, <2>2, <2>4 DEF InWindow, Latest
    <2>5. CASE IsDate(request.nbf) /\ Latest(policy, now) < request.nbf
      BY <1>2, <2>3, <2>5 DEF InWindow, Latest
    <2>6. CASE request.exp <= Earliest(policy, now)
      BY <1>2, <2>2, <2>6 DEF InWindow, Earliest
    <2>7. CASE /\ policy.maxAge > 0
               /\ request.iat + policy.maxAge <= Earliest(policy, now)
      BY <1>2, <2>2, <2>7 DEF InWindow, Earliest
    <2> QED
      BY <2>1, <2>4, <2>5, <2>6, <2>7 DEF TimedOut
  <1>5. CASE /\ FirstError(TimeChecks(request, policy, now)) = "none"
             /\ FirstError(CertificateTimeChecks(request, policy, now))
                   \in Early \cup Late
    <2>1. /\ IsDate(request.iat) /\ IsDate(request.exp)
          /\ Fits(Latest(policy, now)) /\ Fits(Earliest(policy, now))
      BY <1>5, TimesHold
    <2>2. request.iat \in Int /\ request.exp \in Int
      BY <1>2, <2>1, DatesAreIntegers
    <2>3. /\ ValidUntil(request, policy) \in Int
          /\ ValidUntil(request, policy) < request.validBefore =>
                Outlives(request, policy)
      BY <1>1, <1>2, <2>2 DEF ValidUntil, Lesser, Outlives
    <2>4. CertificateTimedOut(request, policy, now)
      BY <1>2, <1>5, <2>1, <2>3, CertificateTimeFails
    <2>5. CASE Latest(policy, now) < request.validAfter
      BY <1>2, <1>3, <2>5 DEF InWindow, Latest
    <2>6. CASE request.validBefore <= Earliest(policy, now)
      BY <1>2, <1>3, <2>6 DEF InWindow, Earliest
    <2>7. CASE ValidUntil(request, policy) < 0
      BY <1>2, <2>3, <2>7
    <2>8. CASE Boundary(request, policy, ValidUntil(request, policy))
                 < request.validBefore
      <3>1. CASE ValidUntil(request, policy) < request.validBefore
        BY <2>3, <3>1
      <3>2. CASE ~(ValidUntil(request, policy) < request.validBefore)
        BY <1>1, <1>2, <2>3, <2>8, <3>2 DEF Boundary, Lesser, Outlives
      <3> QED
        BY <3>1, <3>2
    <2> QED
      BY <2>4, <2>5, <2>6, <2>7, <2>8 DEF CertificateTimedOut
  <1> QED
    BY <1>4, <1>5, RefusedForTime

\* verify_carrier and validate_claims, with 64-bit sums, dates that may be
\* negative and certificate times that may not, accept only what is valid in
\* plain integers, and refuse for its time only what is not.
THEOREM TimesExact == Spec => []TimesAreExact
  <1>1. CarrierInv => TimesAreExact
    <2> SUFFICES ASSUME CarrierInv PROVE TimesAreExact
      OBVIOUS
    <2>1. IsRequest(Request) /\ IsPolicy(Policy) /\ now \in Nat
      BY CaseTypes, CasesAssumption DEF CarrierInv
    <2>2. CarrierAnswer(Request, Policy, now).error = "none" =>
            InWindow(Request, Policy) /\ ~Outlives(Request, Policy)
      BY <2>1, AcceptedInWindow, AcceptedEndsInTime
    <2>3. CarrierAnswer(Request, Policy, now).error \in Early \cup Late =>
            ~InWindow(Request, Policy) \/ Outlives(Request, Policy)
      BY <2>1, RefusedInVain
    <2> QED
      BY <2>2, <2>3 DEF TimesAreExact
  <1> QED
    BY <1>1, CarrierInvariant, PTL

-----------------------------------------------------------------------------
(* What is read of a token. *)

\* The requests differ at most in their claims and in when they expire.
SameButClaims(r, q) ==
    /\ r.faults = q.faults /\ r.binding = q.binding /\ r.evidence = q.evidence
    /\ r.commitment = q.commitment /\ r.algorithm = q.algorithm
    /\ r.certified = q.certified /\ r.extensions = q.extensions
    /\ r.principals = q.principals /\ r.iat = q.iat /\ r.nbf = q.nbf
    /\ r.validAfter = q.validAfter /\ r.validBefore = q.validBefore

LEMMA SameUnread ==
    ASSUME NEW r, NEW q, NEW policy, SameButClaims(r, q)
    PROVE  /\ FrameChecks(r, policy) = FrameChecks(q, policy)
           /\ EnvelopeChecks(r, policy) = EnvelopeChecks(q, policy)
           /\ Size(r) = Size(q)
           /\ PolicyChecks(r, policy) = PolicyChecks(q, policy)
           /\ EvidenceChecks(r) = EvidenceChecks(q)
           /\ Digest(r) = Digest(q)
           /\ CallerSignature(r) = CallerSignature(q)
           /\ KeyChecks(r) = KeyChecks(q)
  <1> USE DEF SameButClaims, Sound
  <1>1. FrameChecks(r, policy) = FrameChecks(q, policy)
    BY DEF FrameChecks
  <1>2. EnvelopeChecks(r, policy) = EnvelopeChecks(q, policy)
    BY DEF EnvelopeChecks
  <1>3. Size(r) = Size(q) /\ Digest(r) = Digest(q)
    BY DEF Size, Digest
  <1>4. PolicyChecks(r, policy) = PolicyChecks(q, policy)
    BY DEF PolicyChecks
  <1>5. EvidenceChecks(r) = EvidenceChecks(q)
    BY DEF EvidenceChecks
  <1>6. CallerSignature(r) = CallerSignature(q) /\ KeyChecks(r) = KeyChecks(q)
    BY DEF CallerSignature, KeyChecks
  <1> QED
    BY <1>1, <1>2, <1>3, <1>4, <1>5, <1>6

\* The answer when the issuer's evidence does not verify.
LEMMA UnverifiedAnswer ==
    ASSUME NEW request, NEW policy, NEW t,
           FirstError(EvidenceChecks(request)) # "none"
    PROVE  CarrierAnswer(request, policy, t) =
             [core  |-> FALSE,
              error |-> Before(FirstError(FrameChecks(request, policy)),
                        Before(FirstError(EnvelopeChecks(request, policy)),
                        Before(FirstError(Size(request)),
                        Before(FirstError(PolicyChecks(request, policy)),
                               FirstError(EvidenceChecks(request))))))]
  <1> DEFINE frame == FirstError(FrameChecks(request, policy))
             token == FirstError(TokenChecks(request, policy, t))
  <1>1. /\ token # "none"
        /\ token = Before(FirstError(EnvelopeChecks(request, policy)),
                   Before(FirstError(Size(request)),
                   Before(FirstError(PolicyChecks(request, policy)),
                          FirstError(EvidenceChecks(request)))))
    BY TokenError DEF Size, Before
  <1>2. CarrierAnswer(request, policy, t) =
          [core |-> FALSE, error |-> Before(frame, token)]
    BY <1>1 DEF CarrierAnswer, CoreVerified, Before
  <1> QED
    BY <1>1, <1>2

\* issuer::verify: no answer depends on claims whose signature does not
\* verify, so that nothing is told, or denied, because of them.
THEOREM ForgedUnread == Spec => []ForgedClaimsAreUnread
  <1>1. CarrierInv => ForgedClaimsAreUnread
    <2> SUFFICES ASSUME CarrierInv, ~Signed(Request), NEW r \in Forged(Request)
                 PROVE  CarrierAnswer(r, Policy, now)
                          = CarrierAnswer(Request, Policy, now)
      BY DEF ForgedClaimsAreUnread
    <2>1. PICK c, d : r = Forge(Request, c, d)
      BY DEF Forged
    <2>2. SameButClaims(r, Request)
      BY <2>1, CaseTypes DEF CarrierInv, IsRequest, SameButClaims, Forge
    <2>3. FirstError(EvidenceChecks(Request)) # "none"
      BY EvidenceHolds DEF Signed
    <2>4. FirstError(EvidenceChecks(r)) # "none"
      BY <2>2, <2>3, SameUnread
    <2>5. /\ FrameChecks(r, Policy) = FrameChecks(Request, Policy)
          /\ EnvelopeChecks(r, Policy) = EnvelopeChecks(Request, Policy)
          /\ Size(r) = Size(Request)
          /\ PolicyChecks(r, Policy) = PolicyChecks(Request, Policy)
          /\ EvidenceChecks(r) = EvidenceChecks(Request)
      BY <2>2, SameUnread
    <2> QED
      BY Zenon, <2>3, <2>4, <2>5, UnverifiedAnswer
  <1> QED
    BY <1>1, CarrierInvariant, PTL

\* The claims agree on what the protocol reads and on what the policy admits.
Agree(c, d, policy) ==
    /\ DOMAIN c = DOMAIN d
    /\ \A name \in ProtocolClaims \cup policy.admitted : c[name] = d[name]

LEMMA AgreeingClaims ==
    ASSUME NEW r, NEW q, NEW policy, NEW t, IsPolicy(policy),
           SameButClaims(r, q), r.exp = q.exp, Agree(r.claims, q.claims, policy)
    PROVE  CarrierAnswer(r, policy, t) = CarrierAnswer(q, policy, t)
  <1>1. \A name \in ProtocolClaims : r.claims[name] = q.claims[name]
    BY DEF Agree
  <1>2. Bound(r) = Bound(q)
    BY <1>1 DEF Bound, SameButClaims, ProtocolClaims
  <1>3. AudienceOk(r, policy) = AudienceOk(q, policy)
    BY <1>1 DEF AudienceOk, SameButClaims, ProtocolClaims
  <1>4. \A p \in policy.required :
           PredicateMatches(r.claims, p) = PredicateMatches(q.claims, p)
    <2>1. ASSUME NEW p \in policy.required
          PROVE  r.claims[p.claim] = q.claims[p.claim]
      BY DEF IsPolicy, Agree
    <2> QED
      BY <2>1 DEF PredicateMatches
  <1>5. ClaimChecks(r, policy) = ClaimChecks(q, policy)
    <2>1. /\ r.claims["iss"] = q.claims["iss"]
          /\ r.claims["azp"] = q.claims["azp"]
      BY <1>1 DEF ProtocolClaims
    <2>2. (\A p \in policy.required : PredicateMatches(r.claims, p))
            = (\A p \in policy.required : PredicateMatches(q.claims, p))
      BY <1>4
    <2> QED
      BY <1>2, <1>3, <2>1, <2>2 DEF ClaimChecks
  <1>6. TimeChecks(r, policy, t) = TimeChecks(q, policy, t)
    BY DEF TimeChecks, SameButClaims
  <1>7. ValidUntil(r, policy) = ValidUntil(q, policy)
    BY DEF ValidUntil, SameButClaims
  <1>8. CertificateTimeChecks(r, policy, t) = CertificateTimeChecks(q, policy, t)
    BY <1>7 DEF CertificateTimeChecks, Boundary, SameButClaims
  <1>9. Admitted(r.claims, policy) = Admitted(q.claims, policy)
    BY DEF Admitted, Agree
  <1>10. Principal(r, policy) = Principal(q, policy)
    <2>1. r.claims[policy.principalClaim] = q.claims[policy.principalClaim]
      BY DEF IsPolicy, Agree
    <2> QED
      BY <2>1 DEF Principal
  <1>11. AccountChecks(r, policy) = AccountChecks(q, policy)
    <2>1. PrincipalOk(r, policy) = PrincipalOk(q, policy)
      BY <1>9, <1>10 DEF PrincipalOk, SameButClaims
    <2>2. AccountAdmits(r, policy) = AccountAdmits(q, policy)
      BY <1>9 DEF AccountAdmits, SameButClaims
    <2> QED
      BY <2>1, <2>2 DEF AccountChecks
  <1>12. TokenChecks(r, policy, t) = TokenChecks(q, policy, t)
    BY <1>5, <1>6, SameUnread
       DEF TokenChecks, IssuerChecks, EvidenceFirst, Size, Digest
  <1>13. CertificateChecks(r, policy, t) = CertificateChecks(q, policy, t)
    BY <1>8, <1>11, SameUnread DEF CertificateChecks, KeyChecks, AccountChecks
  <1> QED
    BY <1>12, <1>13, SameUnread DEF CarrierAnswer

\* issuer::verify and account_rule_matches: of the claims that are not part of
\* the protocol only those the policy admits decide anything.
THEOREM AdmittedDecide == Spec => []OnlyAdmittedDecide
  <1>1. CarrierInv => OnlyAdmittedDecide
    <2> SUFFICES ASSUME CarrierInv, NEW c \in ClaimSets,
                        \A name \in ProtocolClaims \cup Policy.admitted :
                           c[name] = Request.claims[name]
                 PROVE  CarrierAnswer([Request EXCEPT !.claims = c], Policy, now)
                          = CarrierAnswer(Request, Policy, now)
      BY DEF OnlyAdmittedDecide
    <2> DEFINE r == [Request EXCEPT !.claims = c]
    <2>1. SameButClaims(r, Request) /\ r.exp = Request.exp /\ r.claims = c
      BY CaseTypes DEF CarrierInv, IsRequest, SameButClaims
    <2>2. DOMAIN c = DOMAIN Request.claims
      BY CasesAssumption, CaseTypes DEF CarrierInv, ClaimSets, IsRequest
    <2>3. IsPolicy(Policy)
      BY CaseTypes DEF CarrierInv
    <2> HIDE DEF r
    <2>4. Agree(r.claims, Request.claims, Policy)
      BY <2>1, <2>2 DEF Agree
    <2>5. CarrierAnswer(r, Policy, now) = CarrierAnswer(Request, Policy, now)
      BY <2>1, <2>3, <2>4, AgreeingClaims
    <2> QED
      BY <2>5 DEF r
  <1> QED
    BY <1>1, CarrierInvariant, PTL

-----------------------------------------------------------------------------
(* Later, and with other limits, while no sum overflows. *)

\* What TimeChecks asks but that the credential has not ended.
Dated(token, policy, t) ==
    /\ IsDate(token.iat) /\ IsDate(token.exp)
    /\ token.iat <= Latest(policy, t)
    /\ token.nbf = Absent \/ IsDate(token.nbf)
    /\ IsDate(token.nbf) => token.nbf <= Latest(policy, t)

Unexpired(token, policy, t) ==
    /\ Earliest(policy, t) < token.exp
    /\ policy.maxAge > 0 => Earliest(policy, t) < token.iat + policy.maxAge

LEMMA DatedUntilLate ==
    ASSUME NEW token, NEW policy, NEW t,
           {token.iat, token.exp, token.nbf} \subseteq Int \cup {Absent, Invalid},
           {policy.skew, policy.maxAge, t} \subseteq Int,
           FirstError(TimeChecks(token, policy, t)) \in Late \cup {"none"}
    PROVE  Dated(token, policy, t)
  <1> DEFINE row == TimeChecks(token, policy, t)
  <1>1. CASE FirstError(row) = "none"
    BY <1>1, TimesHold DEF Dated
  <1>2. CASE FirstError(row) \in Late
    <2>1. row \in Rows(TokenKinds) /\ DOMAIN row = 1 .. 9
      BY TimeRow, RowLengths
    <2>2. FirstError(row) # "none"
      BY <1>2 DEF Late
    <2>3. PICK i \in 1 .. 9 :
             FailsFirst(row, i) /\ FirstError(row) = row[i].kind
      <3> HIDE DEF row
      <3> QED
        BY <2>1, <2>2, NoneIsNoKind, ErrorOfRow, LenProperties DEF Rows
    <2>4. i \in {7, 9}
      <3>1. row[i].kind \in Late
        BY <1>2, <2>3
      <3> QED
        BY <2>3, <3>1 DEF TimeChecks, Check, Late
    <2>5. /\ row[1].holds
          /\ row[3].holds
          /\ row[4].holds
          /\ row[5].holds
      BY <2>3, <2>4 DEF FailsFirst
    <2>6. /\ IsDate(token.iat) /\ IsDate(token.exp)
          /\ NotAfter(token.iat, Latest(policy, t))
          /\ token.nbf = Absent \/ IsDate(token.nbf)
          /\ NotAfter(token.nbf, Latest(policy, t))
      BY <2>5 DEF TimeChecks, Check
    <2> QED
      BY <2>6 DEF Dated, NotAfter
  <1> QED
    BY <1>1, <1>2

LEMMA LateOnceDated ==
    ASSUME NEW token, NEW policy, NEW t, policy.maxAge \in Int,
           Dated(token, policy, t), SumsFit(token, policy, t)
    PROVE  /\ FirstError(TimeChecks(token, policy, t)) \in Late \cup {"none"}
           /\ FirstError(TimeChecks(token, policy, t)) = "none" <=>
                 Unexpired(token, policy, t)
  <1> DEFINE row == TimeChecks(token, policy, t)
  <1>1. row \in Rows(TokenKinds) /\ DOMAIN row = 1 .. 9
    BY TimeRow, RowLengths
  <1>2. /\ row[1].holds
        /\ row[2].holds
        /\ row[3].holds
        /\ row[4].holds
        /\ row[5].holds
        /\ row[6].holds
        /\ row[8].holds
    BY DEF TimeChecks, Check, Dated, SumsFit, NotAfter
  <1>3. /\ row[7].holds <=> Earliest(policy, t) < token.exp
        /\ row[9].holds <=>
              (policy.maxAge > 0 =>
                 Earliest(policy, t) < token.iat + policy.maxAge)
    BY DEF TimeChecks, Check, Dated, After
  <1>4. row[7].kind = "credential_expired" /\ row[9].kind = "credential_expired"
    BY DEF TimeChecks, Check
  <1> HIDE DEF row
  <1>5. Holds(row) <=> Unexpired(token, policy, t)
    <2>1. Holds(row) <=> row[7].holds /\ row[9].holds
      BY <1>1, <1>2 DEF Holds
    <2> QED
      BY <1>3, <2>1 DEF Unexpired
  <1>6. FirstError(row) = "none" <=> Unexpired(token, policy, t)
    BY <1>1, <1>5, NoneIsNoKind, ErrorOfRow
  <1>7. FirstError(row) \in Late \cup {"none"}
    <2> SUFFICES ASSUME FirstError(row) # "none" PROVE FirstError(row) \in Late
      OBVIOUS
    <2>1. PICK i \in 1 .. 9 :
             FailsFirst(row, i) /\ FirstError(row) = row[i].kind
      BY <1>1, NoneIsNoKind, ErrorOfRow, LenProperties DEF Rows
    <2>2. i \in {7, 9}
      BY <1>2, <2>1 DEF FailsFirst
    <2> QED
      BY <1>4, <2>1, <2>2 DEF Late
  <1> QED
    BY <1>6, <1>7 DEF row

Begun(request, policy, t) ==
    Latest(policy, t) >= 0 /\ request.validAfter <= Latest(policy, t)

InForce(request, policy, t) ==
    LET until == ValidUntil(request, policy) IN
    /\ ~Expired(Earliest(policy, t), request.validBefore)
    /\ until >= 0
    /\ request.validBefore <= Boundary(request, policy, until)

LEMMA BegunUntilLate ==
    ASSUME NEW request, NEW policy, NEW t, SumsFit(request, policy, t),
           FirstError(CertificateTimeChecks(request, policy, t))
               \in Late \cup {"none"}
    PROVE  Begun(request, policy, t)
  <1> DEFINE row == CertificateTimeChecks(request, policy, t)
  <1>1. CASE FirstError(row) = "none"
    BY <1>1, CertificateTimesHold DEF Begun
  <1>2. CASE FirstError(row) \in Late
    <2>1. row \in Rows(CarrierKinds) /\ DOMAIN row = 1 .. 7
      BY CertificateTimeRow, RowLengths
    <2>2. FirstError(row) # "none"
      BY <1>2 DEF Late
    <2>3. PICK i \in 1 .. 7 :
             FailsFirst(row, i) /\ FirstError(row) = row[i].kind
      <3> HIDE DEF row
      <3> QED
        BY <2>1, <2>2, NoneIsNoKind, ErrorOfRow, LenProperties DEF Rows
    <2>4. i \in 4 .. 7
      <3>1. row[i].kind \in Late /\ ~row[i].holds
        BY <1>2, <2>3 DEF FailsFirst
      <3>2. i # 1 /\ i # 3
        BY <3>1 DEF CertificateTimeChecks, Check, Late
      <3>3. i # 2
        BY <3>1 DEF CertificateTimeChecks, Check, SumsFit
      <3> QED
        BY <3>2, <3>3
    <2>5. row[3].holds
      BY <2>3, <2>4 DEF FailsFirst
    <2> QED
      BY <2>5 DEF CertificateTimeChecks, Check, Begun
  <1> QED
    BY <1>1, <1>2

LEMMA LateOnceBegun ==
    ASSUME NEW request, NEW policy, NEW t,
           Begun(request, policy, t), SumsFit(request, policy, t)
    PROVE  /\ FirstError(CertificateTimeChecks(request, policy, t))
                 \in Late \cup {"none"}
           /\ FirstError(CertificateTimeChecks(request, policy, t)) = "none" <=>
                 InForce(request, policy, t)
  <1> DEFINE row == CertificateTimeChecks(request, policy, t)
             until == ValidUntil(request, policy)
  <1>1. row \in Rows(CarrierKinds) /\ DOMAIN row = 1 .. 7
    BY CertificateTimeRow, RowLengths
  <1>2. /\ row[1].holds
        /\ row[2].holds
        /\ row[3].holds
        /\ row[6].holds
    BY DEF CertificateTimeChecks, Check, Begun, SumsFit
  <1>3. /\ row[4].holds <=> ~Expired(Earliest(policy, t), request.validBefore)
        /\ row[5].holds <=> until >= 0
        /\ row[7].holds <=>
              request.validBefore <= Boundary(request, policy, until)
    BY DEF CertificateTimeChecks, Check
  <1>4. /\ row[4].kind = "ssh_identity_expired"
        /\ row[5].kind = "ssh_identity_expired"
        /\ row[7].kind = "ssh_identity_expired"
    BY DEF CertificateTimeChecks, Check
  <1>5. InForce(request, policy, t) <=>
          row[4].holds /\ row[5].holds /\ row[7].holds
    BY <1>3 DEF InForce
  <1> HIDE DEF row
  <1>6. Holds(row) <=> InForce(request, policy, t)
    <2>1. Holds(row) <=> row[4].holds /\ row[5].holds /\ row[7].holds
      BY <1>1, <1>2 DEF Holds
    <2> QED
      BY <1>5, <2>1
  <1>7. FirstError(row) = "none" <=> InForce(request, policy, t)
    BY <1>1, <1>6, NoneIsNoKind, ErrorOfRow
  <1>8. FirstError(row) \in Late \cup {"none"}
    <2> SUFFICES ASSUME FirstError(row) # "none" PROVE FirstError(row) \in Late
      OBVIOUS
    <2>1. PICK i \in 1 .. 7 :
             FailsFirst(row, i) /\ FirstError(row) = row[i].kind
      BY <1>1, NoneIsNoKind, ErrorOfRow, LenProperties DEF Rows
    <2>2. i \in {4, 5, 7}
      BY <1>2, <2>1 DEF FailsFirst
    <2> QED
      BY <1>4, <2>1, <2>2 DEF Late
  <1> QED
    BY <1>7, <1>8 DEF row

LEMMA LaterTimes ==
    ASSUME NEW request, NEW policy, NEW t \in Nat, NEW u \in Nat, t <= u,
           IsRequest(request), IsPolicy(policy),
           SumsFit(request, policy, t), SumsFit(request, policy, u),
           FirstError(TimeChecks(request, policy, t)) \in Late \cup {"none"}
    PROVE  /\ FirstError(TimeChecks(request, policy, u)) \in Late \cup {"none"}
           /\ FirstError(TimeChecks(request, policy, t)) # "none" =>
                FirstError(TimeChecks(request, policy, u)) # "none"
  <1>1. Dated(request, policy, t)
    BY TimeTypes, DatedUntilLate
  <1>2. /\ request.iat \in Int /\ request.exp \in Int
        /\ IsDate(request.nbf) => request.nbf \in Int
    BY <1>1, TimeTypes, DatesAreIntegers DEF Dated
  <1>3. /\ Latest(policy, t) <= Latest(policy, u)
        /\ Earliest(policy, t) <= Earliest(policy, u)
        /\ {Latest(policy, t), Latest(policy, u), Earliest(policy, t),
            Earliest(policy, u), request.iat + policy.maxAge} \subseteq Int
    BY <1>2, TimeTypes DEF Latest, Earliest
  <1>4. Dated(request, policy, u)
    BY <1>1, <1>2, <1>3 DEF Dated
  <1>5. Unexpired(request, policy, u) => Unexpired(request, policy, t)
    BY <1>2, <1>3, TimeTypes DEF Unexpired
  <1> QED
    BY <1>1, <1>4, <1>5, TimeTypes, LateOnceDated

LEMMA LaterCertificateTimes ==
    ASSUME NEW request, NEW policy, NEW t \in Nat, NEW u \in Nat, t <= u,
           IsRequest(request), IsPolicy(policy),
           SumsFit(request, policy, t), SumsFit(request, policy, u),
           FirstError(CertificateTimeChecks(request, policy, t))
               \in Late \cup {"none"}
    PROVE  /\ FirstError(CertificateTimeChecks(request, policy, u))
                 \in Late \cup {"none"}
           /\ FirstError(CertificateTimeChecks(request, policy, t)) # "none" =>
                FirstError(CertificateTimeChecks(request, policy, u)) # "none"
  <1>1. Begun(request, policy, t)
    BY BegunUntilLate
  <1>2. /\ Latest(policy, t) <= Latest(policy, u)
        /\ Earliest(policy, t) <= Earliest(policy, u)
        /\ {Latest(policy, t), Latest(policy, u), Earliest(policy, t),
            Earliest(policy, u)} \subseteq Int
    BY TimeTypes DEF Latest, Earliest
  <1>3. Begun(request, policy, u)
    BY <1>1, <1>2, TimeTypes DEF Begun
  <1>4. InForce(request, policy, u) => InForce(request, policy, t)
    BY <1>2, TimeTypes DEF InForce, Expired
  <1> QED
    BY <1>1, <1>3, <1>4, LateOnceBegun

LEMMA Later ==
    ASSUME NEW request, NEW policy, NEW t \in Nat, NEW u \in Nat, t <= u,
           IsRequest(request), IsPolicy(policy),
           SumsFit(request, policy, t), SumsFit(request, policy, u)
    PROVE  /\ CarrierAnswer(request, policy, t).error \in Late =>
                CarrierAnswer(request, policy, u).error \in Late
           /\ CarrierAnswer(request, policy, t).error = "none" =>
                CarrierAnswer(request, policy, u).error \in Late \cup {"none"}
  <1> DEFINE before == BeforeTimes(request, policy)
             between == BetweenTimes(request)
             after == AfterTimes(request, policy)
             times(x) == FirstError(TimeChecks(request, policy, x))
             dates(x) == FirstError(CertificateTimeChecks(request, policy, x))
             error(x) == CarrierAnswer(request, policy, x).error
  <1>1. \A x \in {t, u} :
          error(x) = Before(before, Before(times(x), Before(between,
                     Before(dates(x), after))))
    BY AnswerError
  <1>2. /\ before \notin Late /\ between \notin Late /\ after \notin Late
        /\ "none" \notin Late
    BY UntimedErrors DEF Late
  <1>3. times(t) \in Late \cup {"none"} =>
          /\ times(u) \in Late \cup {"none"}
          /\ times(t) # "none" => times(u) # "none"
    BY LaterTimes
  <1>4. dates(t) \in Late \cup {"none"} =>
          /\ dates(u) \in Late \cup {"none"}
          /\ dates(t) # "none" => dates(u) # "none"
    BY LaterCertificateTimes
  <1> HIDE DEF before, between, after, times, dates, error
  <1>5. /\ error(t) \in Late => error(u) \in Late
        /\ error(t) = "none" => error(u) \in Late \cup {"none"}
    BY <1>1, <1>2, <1>3, <1>4 DEF Before
  <1> QED
    BY <1>5 DEF error

\* Sums that fit now fitted before: the clock only makes them grow, and no
\* limit is below the least integer.
LEMMA SumsFitted ==
    ASSUME NEW request, NEW policy, IsPolicy(policy), NEW later \in Nat, NEW t \in 0 .. later,
           SumsFit(request, policy, later)
    PROVE  SumsFit(request, policy, t)
  <1>1. policy.skew \in MinInt .. MaxInt
    BY DEF IsPolicy
  <1>2. Fits(Latest(policy, t)) /\ Fits(Earliest(policy, t))
    BY <1>1, IssuerAssumption DEF SumsFit, Fits, Latest, Earliest, MinInt
  <1> QED
    BY <1>2 DEF SumsFit

\* validate_claims and verify_carrier, asked again later: what has expired is
\* never accepted again, and what was accepted is refused later only as too
\* late, while no sum of the code overflows.
THEOREM ValidityEnds == Spec => ValidOnce
  <1>1. CarrierInv /\ [Next]_vars =>
          [SumsFit(Request, Policy, now) =>
             /\ answer.error \in Late => answer'.error \in Late
             /\ answer.error = "none" => answer'.error \in Late \cup {"none"}]_vars
    <2> SUFFICES ASSUME CarrierInv, Next, SumsFit(Request, Policy, now)
                 PROVE  /\ answer.error \in Late => answer'.error \in Late
                        /\ answer.error = "none" =>
                             answer'.error \in Late \cup {"none"}
      OBVIOUS
    <2>1. CASE Judge
      <3>1. CASE answer = NoAnswer
        BY <3>1 DEF NoAnswer, Late
      <3>2. CASE answer \in Answers(Request, Policy, now)
        <4>1. PICK t \in 0 .. now : answer = CarrierAnswer(Request, Policy, t)
          BY <3>2 DEF Answers
        <4>2. answer' = CarrierAnswer(Request, Policy, now)
          BY <2>1 DEF Judge, Request, Policy
        <4>3. /\ IsRequest(Request) /\ IsPolicy(Policy)
              /\ t \in Nat /\ now \in Nat /\ t <= now
              /\ t \in 0 .. MaxNow /\ now \in 0 .. MaxNow
          BY <4>1, CaseTypes, CasesAssumption DEF CarrierInv
        <4>4. SumsFit(Request, Policy, t) /\ SumsFit(Request, Policy, now)
          BY <4>3, SumsFitted
        <4> QED
          BY <4>1, <4>2, <4>3, <4>4, Later
      <3> QED
        BY <3>1, <3>2 DEF CarrierInv
    <2>2. CASE Tick
      BY <2>2 DEF Tick
    <2> QED
      BY <2>1, <2>2 DEF Next
  <1> QED
    BY <1>1, CarrierInvariant, PTL DEF Spec, ValidOnce

LEMMA StricterLimits ==
    ASSUME NEW policy, IsPolicy(policy), NEW strict \in Stricter(policy)
    PROVE  /\ {strict.skew, strict.maxAge, strict.lifetime} \subseteq Nat
           /\ strict.skew <= policy.skew /\ policy.skew \in Nat
           /\ policy.maxAge # 0 => strict.maxAge \in 1 .. policy.maxAge
           /\ policy.lifetime # 0 => strict.lifetime \in 1 .. policy.lifetime
           /\ policy.maxAge \in Nat /\ policy.lifetime \in Nat
           /\ \A f \in DOMAIN policy \ {"skew", "maxAge", "lifetime"} :
                 strict[f] = policy[f]
  <1>1. PICK s \in 0 .. policy.skew, a \in Shorter(policy.maxAge),
             l \in Shorter(policy.lifetime) : strict = Limited(policy, s, a, l)
    BY DEF Stricter
  <1>2. {policy.skew, policy.maxAge, policy.lifetime} \subseteq Int
    BY IssuerAssumption DEF IsPolicy, MinInt
  <1>3. strict.skew = s /\ strict.maxAge = a /\ strict.lifetime = l
    BY <1>1 DEF Limited, IsPolicy
  <1>4. \A f \in DOMAIN policy \ {"skew", "maxAge", "lifetime"} :
          strict[f] = policy[f]
    BY <1>1 DEF Limited
  <1>5. /\ a \in Nat /\ policy.maxAge \in Nat
        /\ policy.maxAge # 0 => a \in 1 .. policy.maxAge
    BY <1>2 DEF Shorter
  <1>6. /\ l \in Nat /\ policy.lifetime \in Nat
        /\ policy.lifetime # 0 => l \in 1 .. policy.lifetime
    BY <1>2 DEF Shorter
  <1> QED
    BY <1>2, <1>3, <1>4, <1>5, <1>6

\* What does not look at the clock does not look at the limits, once they are
\* not negative.
LEMMA SameUntimed ==
    ASSUME NEW request, NEW policy, IsPolicy(policy), NEW strict \in Stricter(policy)
    PROVE  /\ BeforeTimes(request, strict) = BeforeTimes(request, policy)
           /\ AfterTimes(request, strict) = AfterTimes(request, policy)
  <1>1. /\ strict.issuer = policy.issuer /\ strict.audiences = policy.audiences
        /\ strict.parties = policy.parties /\ strict.evidence = policy.evidence
        /\ strict.bindings = policy.bindings /\ strict.gqOnly = policy.gqOnly
        /\ strict.callerAlgorithms = policy.callerAlgorithms
        /\ strict.required = policy.required /\ strict.rules = policy.rules
        /\ strict.admitted = policy.admitted
        /\ strict.principalClaim = policy.principalClaim
    BY StricterLimits DEF IsPolicy
  <1>2. /\ strict.skew >= 0 /\ strict.maxAge >= 0 /\ strict.lifetime >= 0
        /\ policy.skew >= 0 /\ policy.maxAge >= 0 /\ policy.lifetime >= 0
    BY StricterLimits
  <1>3. FrameChecks(request, strict) = FrameChecks(request, policy)
    BY <1>2 DEF FrameChecks
  <1>4. EnvelopeChecks(request, strict) = EnvelopeChecks(request, policy)
    BY <1>1 DEF EnvelopeChecks
  <1>5. PolicyChecks(request, strict) = PolicyChecks(request, policy)
    BY <1>1, <1>2 DEF PolicyChecks
  <1>6. ClaimChecks(request, strict) = ClaimChecks(request, policy)
    BY <1>1 DEF ClaimChecks, AudienceOk
  <1>7. AccountChecks(request, strict) = AccountChecks(request, policy)
    <2>1. Admitted(request.claims, strict) = Admitted(request.claims, policy)
      BY <1>1 DEF Admitted
    <2>2. PrincipalOk(request, strict) = PrincipalOk(request, policy)
      BY <1>1, <2>1 DEF PrincipalOk, Principal
    <2>3. AccountAdmits(request, strict) = AccountAdmits(request, policy)
      BY <1>1, <2>1 DEF AccountAdmits
    <2> QED
      BY <2>2, <2>3 DEF AccountChecks
  <1> QED
    BY <1>3, <1>4, <1>5, <1>6, <1>7 DEF BeforeTimes, AfterTimes

LEMMA StricterAdmitsLess ==
    ASSUME NEW request, NEW policy, NEW t \in Nat,
           IsRequest(request), IsPolicy(policy), SumsFit(request, policy, t),
           NEW strict \in Stricter(policy),
           CarrierAnswer(request, strict, t).error = "none"
    PROVE  CarrierAnswer(request, policy, t).error = "none"
  <1>1. /\ BeforeTimes(request, policy) = "none"
        /\ AfterTimes(request, policy) = "none"
        /\ BetweenTimes(request) = "none"
    BY SameUntimed, Accepted
  <1>2. FirstError(TimeChecks(request, strict, t)) = "none"
    BY Accepted
  <1>3. FirstError(CertificateTimeChecks(request, strict, t)) = "none"
    BY Accepted
  <1>4. Dated(request, strict, t) /\ Unexpired(request, strict, t)
    BY <1>2, TimesHold DEF Dated, Unexpired
  <1>5. Begun(request, strict, t) /\ InForce(request, strict, t)
    BY <1>3, CertificateTimesHold DEF Begun, InForce
  <1>6. /\ request.iat \in Int /\ request.exp \in Int
        /\ IsDate(request.nbf) => request.nbf \in Int
        /\ {request.validAfter, request.validBefore} \subseteq Nat
    BY <1>4, TimeTypes, DatesAreIntegers DEF Dated
  <1>7. /\ Latest(strict, t) <= Latest(policy, t)
        /\ Earliest(policy, t) <= Earliest(strict, t)
        /\ {Latest(strict, t), Latest(policy, t), Earliest(strict, t),
            Earliest(policy, t)} \subseteq Int
    BY StricterLimits DEF Latest, Earliest
  <1>8. policy.maxAge \in Nat /\ strict.maxAge \in Nat
        /\ (policy.maxAge # 0 => strict.maxAge \in 1 .. policy.maxAge)
    BY StricterLimits
  <1>9. policy.lifetime \in Nat /\ strict.lifetime \in Nat
        /\ (policy.lifetime # 0 => strict.lifetime \in 1 .. policy.lifetime)
    BY StricterLimits
  <1>10. Dated(request, policy, t)
    BY <1>4, <1>6, <1>7 DEF Dated
  <1>11. Unexpired(request, policy, t)
    BY <1>4, <1>6, <1>7, <1>8 DEF Unexpired
  <1>12. Begun(request, policy, t)
    BY <1>5, <1>6, <1>7 DEF Begun
  <1>13. /\ ValidUntil(request, strict) \in Int
         /\ ValidUntil(request, policy) \in Int
         /\ ValidUntil(request, strict) <= ValidUntil(request, policy)
    BY <1>6, <1>8 DEF ValidUntil, Lesser
  <1>14. request.validBefore <=
           Boundary(request, policy, ValidUntil(request, policy))
    BY <1>5, <1>6, <1>9, <1>13 DEF InForce, Boundary, Lesser
  <1>15. InForce(request, policy, t)
    BY <1>5, <1>6, <1>7, <1>13, <1>14 DEF InForce, Expired
  <1>16. FirstError(TimeChecks(request, policy, t)) = "none"
    BY <1>8, <1>10, <1>11, LateOnceDated
  <1>17. FirstError(CertificateTimeChecks(request, policy, t)) = "none"
    BY <1>12, <1>15, LateOnceBegun
  <1> QED
    BY <1>1, <1>16, <1>17, Accepted

\* config.cpp 961-971: an operator who tightens the times of a policy never
\* makes verify_carrier accept more, while no sum of the code overflows.
THEOREM TighteningSafe == Spec => []TighteningNeverAdmits
  <1>1. CarrierInv => TighteningNeverAdmits
    <2> SUFFICES ASSUME CarrierInv, SumsFit(Request, Policy, now), NEW p \in Stricter(Policy),
                        CarrierAnswer(Request, p, now).error = "none"
                 PROVE  CarrierAnswer(Request, Policy, now).error = "none"
      BY DEF TighteningNeverAdmits
    <2>1. /\ IsRequest(Request) /\ IsPolicy(Policy)
          /\ now \in Nat /\ now \in 0 .. MaxNow
      BY CaseTypes, CasesAssumption DEF CarrierInv
    <2> QED
      BY <2>1, StricterAdmitsLess
  <1> QED
    BY <1>1, CarrierInvariant, PTL

=============================================================================
