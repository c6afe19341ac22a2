------------------------------- MODULE Carrier ------------------------------
(***************************************************************************)
(* direct_verifier.cpp: verify_token, which verifies the token a client's  *)
(* certificate carries, and verify_carrier, which verifies the certificate *)
(* around it and asks whether the account admits the identity.             *)
(*                                                                         *)
(* One request is judged against one policy again and again while the wall *)
(* clock moves.  A request is the certificate, with the token in it; its   *)
(* faults are those of Issuer and those of the certificate itself.         *)
(***************************************************************************)
EXTENDS Issuer

CONSTANTS
    Cases,      \* the requests and the policies they are judged by
    MaxNow      \* bound on the wall clock, in seconds

MaxUint == 2 * MaxInt + 1

\* All that may be wrong with a request.
Faults == {"token size", "envelope", "members", "version", "caller key",
    "evidence size", "payload", "framing", "key reference", "critical",
    "algorithm", "key", "issuer signature", "digest", "caller signature",
    "user", "certificate", "key type", "certificate signature",
    "certified key"}

ClaimNames == UNION {DOMAIN c.request.claims : c \in Cases}

IsRequest(r) ==
    /\ DOMAIN r = {"faults", "claims", "binding", "evidence", "commitment",
                   "algorithm", "certified", "extensions", "principals",
                   "iat", "exp", "nbf", "validAfter", "validBefore"}
    /\ r.faults \subseteq Faults
    /\ DOMAIN r.claims = ClaimNames
    /\ {r.iat, r.exp, r.nbf} \subseteq Int \cup {Absent, Invalid}
    /\ {r.validAfter, r.validBefore} \subseteq 0 .. MaxUint

\* parse_and_validate admits the principal claim and the required ones of
\* every policy (config.cpp 1017-1019); its limits are 64-bit integers.
IsPolicy(p) ==
    /\ DOMAIN p = {"issuer", "audiences", "parties", "evidence", "bindings",
                   "gqOnly", "callerAlgorithms", "required", "admitted",
                   "principalClaim", "rules", "skew", "maxAge", "lifetime"}
    /\ {p.skew, p.maxAge, p.lifetime} \subseteq MinInt .. MaxInt
    /\ {p.principalClaim} \cup {q.claim : q \in p.required} \subseteq p.admitted

ASSUME CasesAssumption ==
    /\ MaxNow \in Nat
    /\ \A c \in Cases :
          /\ DOMAIN c = {"request", "policy"}
          /\ IsRequest(c.request) /\ IsPolicy(c.policy)

VARIABLES
    case,       \* [request, policy]: what is being judged
    now,        \* the wall clock
    answer      \* the last answer, with the time it was asked for

vars == <<case, now, answer>>

-----------------------------------------------------------------------------
(* verify_token *)

CallerSignatureUnchecked(token) == <<>>

CallerSignature(token) ==
    << Sound(token, "caller signature", "caller_signature_invalid") >>

\* What is asked of the token before the issuer's evidence.  "members" are
\* all the ways in which the CIC is not what it must be, but for its version
\* or role.
EnvelopeChecks(token, policy) ==
    << Sound(token, "token size", "resource_limit"),
       Check(policy.callerAlgorithms # {}, "issuer_untrusted"),
       Sound(token, "envelope", "malformed_input"),
       Sound(token, "members", "malformed_input"),
       Sound(token, "version", "unsupported_version"),
       Check(/\ token.binding \in Profiles \cap policy.bindings
             /\ token.evidence \in Evidence \cap policy.evidence
             /\ policy.gqOnly => token.evidence # "standard",
             "unsupported_profile"),
       Check(token.algorithm \in policy.callerAlgorithms,
             "unsupported_algorithm"),
       Sound(token, "caller key", "caller_key_invalid") >>

TokenChecks(token, policy, t) ==
    EnvelopeChecks(token, policy) \o IssuerChecks(token, policy, t)
    \o << Sound(token, "digest", "evidence_result_mismatch") >>
    \o CallerSignature(token)

-----------------------------------------------------------------------------
(* verify_carrier *)

\* Before the token is looked at; parse_certificate is among them.
FrameChecks(request, policy) ==
    << Check(policy.skew >= 0 /\ policy.lifetime >= 0, "issuer_untrusted"),
       Sound(request, "user", "malformed_input"),
       Sound(request, "certificate", "malformed_input"),
       Check(/\ Len(request.principals) = 1
             /\ request.validAfter < request.validBefore
             /\ request.validBefore < MaxUint, "malformed_input"),
       Sound(request, "key type", "malformed_input") >>

WithoutLifetime(request, policy, until) == until

LifetimeAlways(request, policy, until) ==
    Lesser(until, request.validAfter + policy.lifetime)

\* Where the certificate must end: with the credential, and after the
\* longest identity the policy allows.
Boundary(request, policy, until) ==
    IF policy.lifetime = 0 THEN until
    ELSE Lesser(until, request.validAfter + policy.lifetime)

ExpiredUnguarded(early, before) == early % (MaxUint + 1) >= before

\* The times of a certificate are unsigned: a negative time is before all.
Expired(early, before) == early >= 0 /\ early >= before

CertificateTimeChecks(request, policy, t) ==
    LET late == Latest(policy, t)
        early == Earliest(policy, t)
        until == ValidUntil(request, policy)
    IN
    << Check(Fits(late), "ssh_identity_not_yet_valid"),
       Check(Fits(early), "ssh_identity_expired"),
       Check(late >= 0 /\ request.validAfter <= late,
             "ssh_identity_not_yet_valid"),
       Check(~Expired(early, request.validBefore),
             "ssh_identity_expired"),
       Check(until >= 0, "ssh_identity_expired"),
       Check(policy.lifetime > 0 =>
                 request.validAfter + policy.lifetime <= MaxUint,
             "ssh_certificate_invalid"),
       Check(request.validBefore <= Boundary(request, policy, until),
             "ssh_identity_expired") >>

\* The hash of the identity: injective in what it is taken of.
Principal(request, policy) ==
    <<policy.issuer, policy.principalClaim,
      request.claims[policy.principalClaim]>>

PrincipalOk(request, policy) ==
    LET v == Admitted(request.claims, policy)[policy.principalClaim] IN
    /\ v.kind = "text" /\ v.items[1] # ""
    /\ request.principals = <<Principal(request, policy)>>

\* account_predicate_matches: a list must be of distinct texts.
AccountPredicateMatches(claims, p) ==
    /\ PredicateValid(p)
    /\ PredicateMatches(claims, p)
    /\ p.operation = "string_array_contains" => Distinct(claims[p.claim])

AccountAdmits(request, policy) ==
    \E rule \in policy.rules :
        /\ rule.issuer = policy.issuer
        /\ \A p \in rule.all :
               AccountPredicateMatches(Admitted(request.claims, policy), p)
        /\ request.extensions \subseteq rule.extensions

CertificateChecks(request, policy, t) ==
    << Sound(request, "certificate signature", "ssh_certificate_invalid"),
       Check(/\ "certified key" \notin request.faults
             /\ request.certified = request.algorithm, "ssh_key_mismatch") >>
    \o CertificateTimeChecks(request, policy, t)
    \o << Check(PrincipalOk(request, policy), "ssh_principal_invalid"),
          Check(AccountAdmits(request, policy), "account_unauthorized") >>

CoreVerifiedAtOnce(frame, token) == frame = "none"

\* When verify_carrier fills the audit context.
CoreVerified(frame, token) == frame = "none" /\ token = "none"

\* What verify_carrier returns, and whether it set core_verified.
CarrierAnswer(request, policy, t) ==
    LET frame == FirstError(FrameChecks(request, policy))
        token == FirstError(TokenChecks(request, policy, t))
    IN  [core  |-> CoreVerified(frame, token),
         error |-> IF frame # "none" THEN frame
                   ELSE IF token # "none" THEN token
                   ELSE FirstError(CertificateChecks(request, policy, t))]

-----------------------------------------------------------------------------
NoAnswer == [core |-> FALSE, error |-> "unasked"]

Init ==
    /\ case \in Cases
    /\ now = 0
    /\ answer = NoAnswer

Judge ==
    /\ answer' = CarrierAnswer(case.request, case.policy, now)
    /\ UNCHANGED <<case, now>>

Tick ==
    /\ now < MaxNow
    /\ now' = now + 1
    /\ UNCHANGED <<case, answer>>

Next == Judge \/ Tick

Spec == Init /\ [][Next]_vars

-----------------------------------------------------------------------------
(* Properties *)

Request == case.request
Policy == case.policy

CarrierKinds == {"account_unauthorized", "ssh_certificate_invalid",
    "ssh_identity_expired", "ssh_identity_not_yet_valid", "ssh_key_mismatch",
    "ssh_principal_invalid"}

TokenKinds == {"binding_invalid", "caller_key_invalid",
    "caller_signature_invalid", "credential_expired",
    "credential_not_yet_valid", "evidence_invalid",
    "evidence_result_mismatch", "issuer_claims_invalid",
    "issuer_signature_invalid", "issuer_untrusted", "malformed_input",
    "resource_limit", "unsupported_algorithm", "unsupported_profile",
    "unsupported_version"}

\* An error of the token never comes with a verified core, so that a denial
\* names the identity only of a token that verified (command.cpp 347-354).
TypeOK ==
    /\ DOMAIN case = {"request", "policy"} /\ now \in 0 .. MaxNow
    /\ \/ answer = NoAnswer
       \/ answer \in [core : {FALSE}, error : TokenKinds]
       \/ answer \in [core : {TRUE}, error : CarrierKinds \cup {"none"}]

\* issuer_verifier.cpp computes until when the credential is good and
\* direct_verifier.cpp compares the certificate with it: a certificate that
\* is accepted ends no later than the credential, than the age and than the
\* lifetime the policy allows, whatever the time it is judged at.
AuthorityIsBounded ==
    answer.error = "none" =>
        /\ Request.validBefore <= Request.exp
        /\ Policy.maxAge > 0 =>
               Request.validBefore <= Request.iat + Policy.maxAge
        /\ Policy.lifetime > 0 =>
               Request.validBefore <= Request.validAfter + Policy.lifetime

\* The times at which all of a request is valid, give or take the skew,
\* in integers without a width.
Starts(r) == {r.iat, r.nbf, r.validAfter} \ {Absent, Invalid}
Ends(r) == {r.exp, r.validBefore} \ {Absent, Invalid}

InWindow(r, p) ==
    /\ \A start \in Starts(r) : start <= now + p.skew
    /\ \A end \in Ends(r) : now - p.skew < end
    /\ p.maxAge > 0 => now - p.skew < r.iat + p.maxAge

\* The certificate outlives what it may not.
Outlives(r, p) ==
    \/ r.validBefore > r.exp
    \/ p.maxAge > 0 /\ r.validBefore > r.iat + p.maxAge
    \/ p.lifetime > 0 /\ r.validBefore > r.validAfter + p.lifetime

Early == {"credential_not_yet_valid", "ssh_identity_not_yet_valid"}
Late == {"credential_expired", "ssh_identity_expired"}

\* verify_carrier and validate_claims, with 64-bit sums, dates that may be
\* negative and certificate times that may not, accept only what is valid in
\* plain integers, and refuse for its time only what is not.
TimesAreExact ==
    LET found == CarrierAnswer(Request, Policy, now).error IN
    /\ found = "none" => InWindow(Request, Policy) /\ ~Outlives(Request, Policy)
    /\ found \in Early \cup Late =>
           ~InWindow(Request, Policy) \/ Outlives(Request, Policy)

\* No sum of the code leaves its integers.  A sum that does makes the code
\* refuse, so that a looser policy may refuse what a stricter one accepts.
SumsFit(request, policy, t) ==
    /\ Fits(Latest(policy, t)) /\ Fits(Earliest(policy, t))
    /\ IsDate(request.iat) => Fits(request.iat + policy.maxAge)
    /\ request.validAfter + policy.lifetime <= MaxUint

\* validate_claims and verify_carrier, asked again later: what has expired is
\* never accepted again, and what was accepted is refused later only as too
\* late, while no sum overflows.
ValidOnce ==
    [][SumsFit(Request, Policy, now) =>
          /\ answer.error \in Late => answer'.error \in Late
          /\ answer.error = "none" => answer'.error \in Late \cup {"none"}]_vars

\* Policies with less skew and a shorter age and lifetime, 0 being none.
Shorter(limit) == IF limit = 0 THEN {0, 1, 2} ELSE 1 .. limit

Limited(p, s, a, l) == [p EXCEPT !.skew = s, !.maxAge = a, !.lifetime = l]

Stricter(p) ==
    {Limited(p, s, a, l) :
        s \in 0 .. p.skew, a \in Shorter(p.maxAge), l \in Shorter(p.lifetime)}

\* An operator who tightens the times of a policy (config.cpp 961-971, where
\* an absent limit becomes 0) never makes verify_carrier accept more, while
\* no sum of the looser policy overflows: one that does refuses everything.
TighteningNeverAdmits ==
    SumsFit(Request, Policy, now) /\ CarrierAnswer(Request, Policy, now).error # "none" =>
        \A p \in Stricter(Policy) : CarrierAnswer(Request, p, now).error # "none"

CertificateFaults == {"certificate signature", "certified key"}

\* verify_token: the core that the audit event and the account rules use
\* comes from a token without any fault, in which the issuer signed the
\* caller's commitment, and nothing else, in one claim.
CoreIsAuthentic ==
    answer.core =>
        /\ Request.faults \subseteq CertificateFaults
        /\ \E name \in {"nonce", "aud", "commitment"} :
               Items(Request.claims[name]) = {Request.commitment}

Signed(request) ==
    request.faults \cap {"algorithm", "key", "issuer signature"} = {}

\* Other things that a token may claim without the issuer's signature.
Unsigned == {c.request : c \in {d \in Cases : ~Signed(d.request)}}

Forge(r, claims, exp) == [r EXCEPT !.claims = claims, !.exp = exp]

Forged(r) ==
    {Forge(r, c, d) :
        c \in {u.claims : u \in Unsigned}, d \in {u.exp : u \in Unsigned}}

\* issuer::verify: no answer depends on claims whose signature does not
\* verify, so that nothing is told, or denied, because of them.
ForgedClaimsAreUnread ==
    ~Signed(Request) =>
        \A r \in Forged(Request) :
            CarrierAnswer(r, Policy, now) = CarrierAnswer(Request, Policy, now)

ClaimSets == {c.request.claims : c \in Cases}

ProtocolClaims == {"iss", "aud", "nonce", "commitment", "azp"}

\* issuer::verify and account_rule_matches: of the claims that are not part
\* of the protocol only those the policy admits decide anything.
OnlyAdmittedDecide ==
    \A c \in ClaimSets :
        (\A name \in ProtocolClaims \cup Policy.admitted :
             c[name] = Request.claims[name]) =>
        CarrierAnswer([Request EXCEPT !.claims = c], Policy, now)
            = CarrierAnswer(Request, Policy, now)
=============================================================================
