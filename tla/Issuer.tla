------------------------------- MODULE Issuer -------------------------------
(***************************************************************************)
(* issuer_verifier.cpp: whether the issuer's evidence in a token satisfies *)
(* one trusted policy at a given time, and until when the credential is    *)
(* good.  verify is a fixed order of checks; the first that fails names    *)
(* the error.                                                              *)
(*                                                                         *)
(* A token is a record.  "faults" holds what is wrong with its encodings   *)
(* and signatures, which no computation here depends on; its claims are    *)
(* values, because the rest of the verification computes with them.  Where *)
(* a decoder tells malformed from oversized, one fault stands for both.    *)
(***************************************************************************)
EXTENDS Integers, Sequences

CONSTANTS
    MaxInt,     \* the largest int64
    MaxDate,    \* the largest integer every double holds, 2^53 - 1
    Absent,     \* no such claim
    Invalid     \* a claim whose value has another type than is asked for

ASSUME IssuerAssumption ==
    /\ MaxInt \in Nat \ {0} /\ MaxDate \in 0 .. MaxInt
    /\ Absent \notin Int /\ Invalid \notin Int /\ Absent # Invalid

MinInt == -MaxInt - 1

Fits(n) == MinInt <= n /\ n <= MaxInt

Lesser(m, n) == IF m <= n THEN m ELSE n

-----------------------------------------------------------------------------
(* A row of checks: each holds, or gives its kind of error. *)

Check(holds, kind) == [holds |-> holds, kind |-> kind]

\* The error of the first check that fails, "none" if all hold.
FirstError(checks) ==
    IF \A i \in DOMAIN checks : checks[i].holds THEN "none"
    ELSE LET first == CHOOSE i \in DOMAIN checks :
                         /\ ~checks[i].holds
                         /\ \A j \in 1 .. i - 1 : checks[j].holds
         IN  checks[first].kind

-----------------------------------------------------------------------------
(* Claims: absent, a text, a list of texts, or something else. *)

Text(t) == [kind |-> "text", items |-> <<t>>]
List(s) == [kind |-> "list", items |-> s]
NoClaim == [kind |-> "absent", items |-> <<>>]

Items(v) == {v.items[i] : i \in DOMAIN v.items}

\* A list without duplicates, of texts alone.
Distinct(v) ==
    /\ Invalid \notin Items(v)
    /\ \A i, j \in DOMAIN v.items : v.items[i] = v.items[j] => i = j

AudienceAllowed(v, allowed) ==
    \/ v.kind = "text" /\ v.items[1] \in allowed
    \/ v.kind = "list" /\ Distinct(v) /\ Items(v) \cap allowed # {}

HasAudience(v, commitment) ==
    v.kind \in {"text", "list"} /\ commitment \in Items(v)

ExactAudience(v, commitment) ==
    v.kind \in {"text", "list"} /\ v.items = <<commitment>>

\* predicate_matches.  values is a set here; validate_policy refused repeats.
PredicateMatches(claims, p) ==
    LET v == claims[p.claim] IN
    \/ /\ p.operation = "string_array_contains"
       /\ v.kind = "list" /\ p.value \in Items(v)
    \/ p.operation = "string_equals" /\ v = Text(p.value)
    \/ /\ p.operation = "string_one_of"
       /\ v.kind = "text" /\ v.items[1] \in p.values

-----------------------------------------------------------------------------
(* validate_policy *)

Profiles == {"oidc-nonce", "audience", "credbind-claim"}
Evidence == {"standard", "gq"}

PredicateValid(p) ==
    /\ p.operation \in {"string_equals", "string_array_contains"} =>
           p.values = {}
    /\ p.operation = "string_one_of" => p.values # {} /\ p.value = ""

PolicyChecks(token, policy) ==
    << Check(/\ policy.audiences # {} /\ policy.evidence # {}
             /\ policy.bindings # {}
             /\ policy.skew >= 0 /\ policy.maxAge >= 0, "issuer_untrusted"),
       Check(/\ token.evidence \in Evidence \cap policy.evidence
             /\ policy.gqOnly => token.evidence # "standard",
             "unsupported_profile"),
       Check(token.binding \in Profiles \cap policy.bindings,
             "unsupported_profile"),
       Check(\A p \in policy.required : PredicateValid(p),
             "issuer_untrusted") >>

-----------------------------------------------------------------------------
(* validate_claims *)

\* Where each binding profile looks for the commitment.
Bound(token) ==
    LET c == token.claims IN
    CASE token.binding = "oidc-nonce" -> c["nonce"] = Text(token.commitment)
      [] token.binding = "audience" -> ExactAudience(c["aud"], token.commitment)
      [] OTHER -> c["commitment"] = Text(token.commitment)

AudienceOk(token, policy) ==
    \/ token.binding = "audience"
    \/ AudienceAllowed(token.claims["aud"], policy.audiences)

ClaimChecks(token, policy) ==
    LET c == token.claims IN
    << Check(c["iss"] = Text(policy.issuer), "issuer_claims_invalid"),
       Check(Bound(token), "binding_invalid"),
       Check(AudienceOk(token, policy), "issuer_claims_invalid"),
       Check(\/ policy.parties = {}
             \/ c["azp"].kind = "text" /\ c["azp"].items[1] \in policy.parties,
             "issuer_claims_invalid"),
       Check(\A p \in policy.required : PredicateMatches(c, p),
             "issuer_claims_invalid") >>

\* integer_claim: the date, if it is an exact integer.
IsDate(d) == d \notin {Absent, Invalid} /\ -MaxDate <= d /\ d <= MaxDate

EarliestAhead(policy, now) == now + policy.skew

\* The two times that dates are compared with.
Latest(policy, now) == now + policy.skew
Earliest(policy, now) == now - policy.skew

NotBefore(d, n) == ~IsDate(d) \/ n <= d

\* A comparison with a date that is not there is not reached.
After(d, n) == IsDate(d) /\ n < d
NotAfter(d, n) == ~IsDate(d) \/ d <= n

TimeChecks(token, policy, now) ==
    LET ages == policy.maxAge > 0 /\ IsDate(token.iat) IN
    << Check(IsDate(token.iat) /\ IsDate(token.exp), "issuer_claims_invalid"),
       Check(Fits(Latest(policy, now)), "issuer_claims_invalid"),
       Check(NotAfter(token.iat, Latest(policy, now)),
             "credential_not_yet_valid"),
       Check(token.nbf = Absent \/ IsDate(token.nbf), "issuer_claims_invalid"),
       Check(NotAfter(token.nbf, Latest(policy, now)),
             "credential_not_yet_valid"),
       Check(Fits(Earliest(policy, now)), "issuer_claims_invalid"),
       Check(After(token.exp, Earliest(policy, now)), "credential_expired"),
       Check(ages => Fits(token.iat + policy.maxAge),
             "issuer_claims_invalid"),
       Check(ages => Earliest(policy, now) < token.iat + policy.maxAge,
             "credential_expired") >>

UnboundedAge(token, policy) == token.exp

\* Meaningful once both dates are there and the sum fits.
ValidUntil(token, policy) ==
    IF policy.maxAge = 0 THEN token.exp
    ELSE Lesser(token.exp, token.iat + policy.maxAge)

-----------------------------------------------------------------------------
(* verify *)

Sound(token, fault, kind) == Check(fault \notin token.faults, kind)

\* Nothing the issuer says is looked at before its signature was verified.
EvidenceChecks(token) ==
    << Sound(token, "payload", "malformed_input"),
       Sound(token, "framing",
             IF token.evidence = "gq" THEN "evidence_invalid"
             ELSE "malformed_input"),
       Sound(token, "key reference", "issuer_untrusted"),
       Sound(token, "critical", "unsupported_profile"),
       Sound(token, "algorithm", "unsupported_algorithm"),
       Sound(token, "key", "issuer_untrusted"),
       Sound(token, "issuer signature",
             IF token.evidence = "gq" THEN "evidence_invalid"
             ELSE "issuer_signature_invalid") >>

ClaimsFirst(token, policy, now) ==
    ClaimChecks(token, policy) \o TimeChecks(token, policy, now)
    \o EvidenceChecks(token)

EvidenceFirst(token, policy, now) ==
    EvidenceChecks(token)
    \o ClaimChecks(token, policy) \o TimeChecks(token, policy, now)

IssuerChecks(token, policy, now) ==
    <<Sound(token, "evidence size", "resource_limit")>>
    \o PolicyChecks(token, policy) \o EvidenceFirst(token, policy, now)

AllClaims(claims, policy) == claims

\* The claims that leave this component.
Admitted(claims, policy) ==
    [name \in DOMAIN claims |->
        IF name \in policy.admitted THEN claims[name] ELSE NoClaim]
=============================================================================
