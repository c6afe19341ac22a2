---------------------------- MODULE ConfigRules -----------------------------
(***************************************************************************)
(* What the configuration parser admits and builds, and what the           *)
(* initializer writes.  A JSON object is a function on its member names, a *)
(* list a sequence; a value of another type is one that the next check     *)
(* refuses with the same kind of error.  Durations are texts; other        *)
(* strings are names, some of which satisfy the code's rule for them.      *)
(***************************************************************************)
EXTENDS Durations, FiniteSets, TLC

CONSTANTS
  MaxPolicies, MaxRules,          \* 64 and 256
  MaxSize,                        \* of each resource limit
  MaxBytes,                       \* of a text: 1 MiB
  Compact(_), Indented(_),        \* bytes of a document's text: on one line, or laid out
  MaxDeadline, MaxSkew,           \* nanoseconds: ten and thirty seconds
  MinFreshness, MaxFreshness,     \* one minute and 720 hours
  PolicyIds, HttpsUris, PlainNames, AbsolutePaths, Facilities

LimitNames == <<"max_token_bytes", "max_evidence_bytes", "max_ssh_certificate_bytes",
                "max_offered_key_chars", "max_authorized_keys_output_chars">>

ASSUME ConfigLimits ==
  /\ {MaxPolicies, MaxRules, MaxDeadline, MaxSkew, MinFreshness, MaxFreshness} \subseteq Nat \ {0}
  /\ MaxSize \in [ToSet(LimitNames) -> 1..MaxU64] /\ MaxBytes \in Nat

Malformed == "malformed_input"
Limit == "resource_limit"
Untrusted == "issuer_untrusted"
Unsupported == "unsupported_profile"

(* The first error of a row of checks.                                     *)
Unless(holds, kind) == IF holds THEN "none" ELSE kind
a ++ b == IF a = "none" THEN b ELSE a
FirstError(places, ErrorAt(_)) ==
  LET First(i) == ErrorAt(i) # "none" /\ \A j \in 1..i - 1 : ErrorAt(j) = "none"
  IN  IF \E i \in places : First(i) THEN ErrorAt(CHOOSE i \in places : First(i)) ELSE "none"

(* What is wrong with a text that should be a number or a duration.        *)
Fault(answer) == Unless(answer # Invalid, Malformed) ++ Unless(answer # Overflow, Limit)

NotText == "another type"
NotSize == -1
NotDuration == <<NotText>>
NotObject == (NotText :> NotText)
IsText(v) == v # NotText

(* The member of an object, or a default when it has none.                 *)
Member(object, name, default) == IF name \in DOMAIN object THEN object[name] ELSE default
ExactMembers(object, required, optional) ==
  required \subseteq DOMAIN object /\ DOMAIN object \subseteq required \cup optional

StringSetLoosely(list, nonempty) == {"", NotText} \cap ToSet(list) = {} /\ IsInjective(list)
StringSet(list, nonempty) ==
  /\ nonempty => list # <<>>
  /\ {"", NotText} \cap ToSet(list) = {} /\ IsInjective(list)

-----------------------------------------------------------------------------
(* predicate: three forms, each with its own members.                      *)
PredicateMembers == {"claim", "type", "op"}
PredicateOk(p) ==
  /\ PredicateMembers \subseteq DOMAIN p
  /\ p["claim"] \notin {"", NotText}
  /\ \/ /\ <<p["type"], p["op"]>> \in {<<"string", "equals">>, <<"string-array", "contains">>}
        /\ ExactMembers(p, PredicateMembers \cup {"value"}, {}) /\ IsText(p["value"])
     \/ /\ <<p["type"], p["op"]>> = <<"string", "one-of">>
        /\ ExactMembers(p, PredicateMembers \cup {"values"}, {})
        /\ StringSet(p["values"], TRUE)
PredicatesOk(list) == \A i \in DOMAIN list : PredicateOk(list[i])
Predicate(p) ==
  [claim |-> p["claim"], value |-> Member(p, "value", ""), values |-> ToSet(Member(p, "values", <<>>)),
   operation |-> CASE p["op"] = "equals" -> "string_equals"
                   [] p["op"] = "contains" -> "string_array_contains"
                   [] p["op"] = "one-of" -> "string_one_of"]
Predicates(list) == {Predicate(list[i]) : i \in DOMAIN list}
ClaimsOf(predicates) == {p.claim : p \in predicates}

size_member(n, maximum) == IF n = NotSize THEN Malformed ELSE Unless(n \in 1..maximum, Limit)
resource_limits(value) ==
  LET SizeError(i) == size_member(value[LimitNames[i]], MaxSize[LimitNames[i]])
  IN  Unless(ExactMembers(value, ToSet(LimitNames), {}), Malformed)
      ++ FirstError(DOMAIN LimitNames, SizeError)

-----------------------------------------------------------------------------
(* A policy.                                                               *)
Lists == <<"audiences", "issuer_algorithms", "caller_algorithms", "evidence_profiles",
           "binding_profiles", "acquisition_profiles">>
PolicyMembers == ToSet(Lists) \cup
  {"policy_id", "issuer", "key_source", "require_non_reconstructible_evidence",
   "certificate_principal_claim"}
PolicyOptions == {"authorized_parties", "maximum_credential_age", "maximum_identity_lifetime",
                  "audit_identity_claim", "required_claims", "environment_discriminator"}

Interactive == {"oidc-native-auth-code-v1", "oidc-confidential-web-auth-code-v1"}
Workload == {"challenge-bound-workload-v1"}
compatible_acquisition_binding(acquisitions, bindings) ==
  /\ Interactive \cap acquisitions # {} <=> "oidc-nonce" \in bindings
  /\ Workload \cap acquisitions # {} <=> {"audience", "credbind-claim"} \cap bindings # {}
Supported(policy) ==
  LET Set(name) == ToSet(policy[name])
  IN  /\ Set("issuer_algorithms") = {"RS256"}
      /\ "ES256" \in Set("caller_algorithms") /\ Set("caller_algorithms") \subseteq {"ES256", "Ed25519"}
      /\ Set("evidence_profiles") \subseteq {"standard", "gq"}
      /\ Set("binding_profiles") \subseteq {"oidc-nonce", "audience", "credbind-claim"}
      /\ Set("acquisition_profiles") \subseteq Interactive \cup Workload
      /\ compatible_acquisition_binding(Set("acquisition_profiles"), Set("binding_profiles"))

(* The key source; keys gives the error of load_static_file for a path.    *)
KeySourceError(source, keys) ==
  LET type == Member(source, "type", NotText)
      path == Member(source, "path", NotText)
  IN  Unless(IsText(type), Malformed)
      ++ Unless(type # "oidc-discovery" \/ ExactMembers(source, {"type"}, {}), Malformed)
      ++ Unless(type = "static-jwks-file" /\ ExactMembers(source, {"type", "path"}, {}), Unsupported)
      ++ Unless(path \in AbsolutePaths, Untrusted)
      ++ keys[path]

(* An optional member, when it is there.                                   *)
Optional(object, name, Error(_)) == IF name \in DOMAIN object THEN Error(object[name]) ELSE "none"
PolicyError(policy, taken, keys) ==
  LET Positive(text) == Fault(whole_seconds(text, TRUE))
      Parties(list) == Unless(StringSet(list, TRUE), Malformed)
      Required(list) == Unless(PredicatesOk(list), Malformed)
      Discriminator(p) == Unless(PredicateOk(p), Malformed)
      Audit(name) == Unless(name \in PlainNames, Malformed)
  IN  Unless(ExactMembers(policy, PolicyMembers, PolicyOptions), Malformed)
      ++ Unless(/\ policy["policy_id"] \in PolicyIds \ taken /\ policy["issuer"] \in HttpsUris
                /\ policy["certificate_principal_claim"] \notin {"", NotText}, Untrusted)
      ++ Unless(\A i \in DOMAIN Lists : StringSet(policy[Lists[i]], TRUE), Malformed)
      ++ Unless(Supported(policy), Unsupported)
      ++ Optional(policy, "authorized_parties", Parties)
      ++ Optional(policy, "required_claims", Required)
      ++ Optional(policy, "environment_discriminator", Discriminator)
      ++ Optional(policy, "maximum_credential_age", Positive)
      ++ Optional(policy, "maximum_identity_lifetime", Positive)
      ++ Unless(policy["require_non_reconstructible_evidence"] \in {"true", "false"}, Malformed)
      ++ Optional(policy, "audit_identity_claim", Audit)
      ++ KeySourceError(policy["key_source"], keys)
PoliciesError(trusted, keys) ==
  LET ErrorAt(i) == PolicyError(trusted[i], {trusted[j]["policy_id"] : j \in 1..i - 1}, keys)
  IN  FirstError(DOMAIN trusted, ErrorAt)

Policy(value, skew) ==
  LET Set(name) == ToSet(Member(value, name, <<>>))
      SecondsOr0(name) == IF name \in DOMAIN value THEN whole_seconds(value[name], TRUE).value ELSE 0
      audit == Member(value, "audit_identity_claim", "")
      principal == value["certificate_principal_claim"]
      required == Predicates(Member(value, "required_claims", <<>>)) \cup
                  {Predicate(p) : p \in {value[n] : n \in {"environment_discriminator"} \cap DOMAIN value}}
  IN  [id |-> value["policy_id"], issuer |-> value["issuer"], audiences |-> Set("audiences"),
       parties |-> Set("authorized_parties"), callers |-> Set("caller_algorithms"),
       evidence |-> Set("evidence_profiles"), bindings |-> Set("binding_profiles"),
       acquisitions |-> Set("acquisition_profiles"),
       gqOnly |-> value["require_non_reconstructible_evidence"] = "true",
       maxAge |-> SecondsOr0("maximum_credential_age"), lifetime |-> SecondsOr0("maximum_identity_lifetime"),
       skew |-> skew, required |-> required, principal |-> principal, audit |-> audit,
       admitted |-> ({principal, audit} \ {""}) \cup ClaimsOf(required)]

-----------------------------------------------------------------------------
(* The accounts, in the order of items(), which is that of their names;    *)
(* the rules are counted over all of them.                                 *)
SshExtensions == {"permit-agent-forwarding", "permit-port-forwarding", "permit-pty",
                  "permit-user-rc", "permit-X11-forwarding"}
RuleError(rule, count, issuers) ==
  Unless(count <= MaxRules, Limit)
  ++ Unless(ExactMembers(rule, {"issuer", "all", "allowed_certificate_extensions"}, {}), Malformed)
  ++ Unless(/\ PredicatesOk(rule["all"]) /\ rule["issuer"] \in issuers
            /\ StringSet(rule["allowed_certificate_extensions"], FALSE)
            /\ ToSet(rule["allowed_certificate_extensions"]) \subseteq SshExtensions, Untrusted)
AccountError(account, before, issuers) ==
  LET allow == account.policy["allow"]
      ErrorAt(j) == RuleError(allow[j], before + j, issuers)
  IN  Unless(/\ account.name \in PlainNames /\ ExactMembers(account.policy, {"allow"}, {})
             /\ allow # <<>>, Malformed)
      ++ FirstError(DOMAIN allow, ErrorAt)
AccountsError(accounts, issuers) ==
  LET RulesBefore(i) == Len(FlattenSeq([k \in 1..i - 1 |-> accounts[k].policy["allow"]]))
      ErrorAt(i) == AccountError(accounts[i], RulesBefore(i), issuers)
  IN  FirstError(DOMAIN accounts, ErrorAt)

Rule(rule) == [issuer |-> rule["issuer"], all |-> Predicates(rule["all"]),
               extensions |-> ToSet(rule["allowed_certificate_extensions"])]
Rules(accounts) ==
  FlattenSeq([i \in DOMAIN accounts |->
    [j \in DOMAIN accounts[i].policy["allow"] |-> Rule(accounts[i].policy["allow"][j])]])

(* A rule admits its claims to every policy of its issuer.                 *)
AdmitOnce(policies, rule) ==
  LET its == {i \in DOMAIN policies : policies[i].issuer = rule.issuer}
  IN  [i \in DOMAIN policies |->
         IF i \in its /\ \A j \in its : i <= j
         THEN [policies[i] EXCEPT !.admitted = @ \cup ClaimsOf(rule.all)] ELSE policies[i]]
Admit(policies, rule) ==
  [i \in DOMAIN policies |->
     IF policies[i].issuer = rule.issuer
     THEN [policies[i] EXCEPT !.admitted = @ \cup ClaimsOf(rule.all)] ELSE policies[i]]

-----------------------------------------------------------------------------
(* parse_and_validate                                                      *)
RootMembers == {"version", "clock_skew", "total_verification_deadline", "resource_limits",
                "trusted_issuers", "accounts", "logging"}
FreshnessOk(nanos) == nanos = 0 \/ nanos \in MinFreshness..MaxFreshness
CacheError(cache) ==
  LET Checks(freshness) ==
        Unless(ExactMembers(cache, {"directory", "maximum_freshness"}, {}), Malformed)
        ++ Fault(freshness)
        ++ Unless(cache["directory"] \in AbsolutePaths, Malformed)
        ++ Unless(FreshnessOk(freshness.value), Limit)
  IN  Checks(duration_nanoseconds(cache["maximum_freshness"]))
LoggingError(logging) ==
  LET Known(name) == IF ~IsText(name) THEN Malformed ELSE Unless(name \in Facilities, Unsupported)
  IN  Optional(logging, "facility", Known)
NotList == <<NotObject>>
NotAccounts == << [name |-> NotText, policy |-> NotObject] >>

ConfigurationError(root, keys) ==
  LET trusted == root["trusted_issuers"]
      Checks(deadline) ==
        Unless(ExactMembers(root, RootMembers, {"issuer_key_cache"}), Malformed)
        ++ Unless(root["version"] = 1, "unsupported_version")
        ++ Fault(whole_seconds(root["clock_skew"], FALSE))
        ++ Fault(deadline)
        ++ resource_limits(root["resource_limits"])
        ++ Unless(deadline.value \in 1..MaxDeadline, Limit)
        ++ Optional(root, "issuer_key_cache", CacheError)
        ++ Unless(/\ trusted # NotList /\ Len(trusted) <= MaxPolicies
                  /\ root["accounts"] # NotAccounts
                  /\ ExactMembers(root["logging"], {}, {"facility"}), Malformed)
        ++ LoggingError(root["logging"])
        ++ PoliciesError(trusted, keys)
        ++ AccountsError(root["accounts"], {trusted[i]["issuer"] : i \in DOMAIN trusted})
  IN  Checks(duration_nanoseconds(root["total_verification_deadline"]))

Failed(kind) == [error |-> kind]
parse_and_validate(root, keys) ==
  LET Policies(skew) ==
        [i \in DOMAIN root["trusted_issuers"] |-> Policy(root["trusted_issuers"][i], skew)]
      Built(skew, rules) ==
        [error |-> "none", skew |-> skew,
         deadline |-> duration_nanoseconds(root["total_verification_deadline"]).value,
         limits |-> root["resource_limits"],
         trusted |-> FoldLeft(Admit, Policies(skew), rules),
         accounts |-> {a.name : a \in ToSet(root["accounts"])}, rules |-> rules,
         facility |-> Member(root["logging"], "facility", "authpriv")]
      Result(error) ==
        IF error # "none" THEN Failed(error)
        ELSE Built(whole_seconds(root["clock_skew"], FALSE).value, Rules(root["accounts"]))
  IN  Result(ConfigurationError(root, keys))

(* load_and_validate.  A file is its document, or the error with which it  *)
(* cannot be read: one that is larger than MaxBytes is refused as unsafe.  *)
Contents(file) == IF file.error = "absent" THEN Failed("state_invalid") ELSE file
load_and_validate(file, keys) ==
  IF file.error # "none" THEN Failed(Contents(file).error) ELSE parse_and_validate(file.document, keys)

(* The text that initialize returns for a document, when it is read again. *)
Readable(document) == Indented(document) <= MaxBytes
Reread(document) == [error |-> Unless(Readable(document), "state_invalid"), document |-> document]

-----------------------------------------------------------------------------
(* initialize.  The options hold texts, a policy input's path or none; the *)
(* input is its document, or the error with which it could not be read.    *)
DurationOptions == <<"clock_skew", "total_verification_deadline", "maximum_freshness">>
OptionsError(o) ==
  LET Given(name) == canonical_duration(o[name])
      Size(name) == canonical_unsigned(o[name], MaxSize[name])
      DurationError(i) == Fault(Given(DurationOptions[i]))
      SizeError(i) == Fault(Size(LimitNames[i]))
  IN  Unless(o.deny_all # (o.policy_input # ""), Malformed)
      ++ FirstError(DOMAIN DurationOptions, DurationError)
      ++ Unless(/\ Given("clock_skew").value % Second = 0 /\ Given("clock_skew").value <= MaxSkew
                /\ Given("total_verification_deadline").value \in 1..MaxDeadline
                /\ FreshnessOk(Given("maximum_freshness").value), Limit)
      ++ FirstError(DOMAIN LimitNames, SizeError)
      ++ Unless(\A n \in ToSet(LimitNames) : Size(n).value # 0, Limit)
      ++ Unless(o.directory \in AbsolutePaths, Malformed)
      ++ Unless(o.facility \in Facilities, Unsupported)
InputError(input) ==
  input.error
  ++ Unless(/\ ExactMembers(input.document, {"trusted_issuers", "accounts"}, {})
            /\ input.document["trusted_issuers"] \notin {NotList, <<>>}
            /\ input.document["accounts"] \notin {NotAccounts, <<>>}, Malformed)

Document(o, trusted, accounts) ==
  [version |-> 1, clock_skew |-> o.clock_skew,
   total_verification_deadline |-> o.total_verification_deadline,
   resource_limits |-> [n \in ToSet(LimitNames) |-> canonical_unsigned(o[n], MaxSize[n]).value],
   issuer_key_cache |-> [directory |-> o.directory, maximum_freshness |-> o.maximum_freshness],
   trusted_issuers |-> trusted, accounts |-> accounts, logging |-> [facility |-> o.facility]]

(* The writer copies the members it lists.                                 *)
Listed(object, names) == Restrict(object, names \cap DOMAIN object)
ordered_predicate(p) == Listed(p, PredicateMembers \cup {"value", "values"})
ordered_predicates(list) == [i \in DOMAIN list |-> ordered_predicate(list[i])]
WithoutParties == PolicyMembers \cup (PolicyOptions \ {"authorized_parties"})
IssuerMembers == PolicyMembers \cup PolicyOptions
Rewrite(object, name, Order(_)) ==
  IF name \in DOMAIN object THEN [object EXCEPT ![name] = Order(@)] ELSE object
ordered_issuer(value) ==
  LET Source(source) == Listed(source, {"type", "path"})
      copy == Listed(value, IssuerMembers)
  IN  Rewrite(Rewrite(Rewrite(copy, "key_source", Source), "required_claims", ordered_predicates),
              "environment_discriminator", ordered_predicate)
ordered_trusted_issuers(values) == [i \in DOMAIN values |-> ordered_issuer(values[i])]
ordered_accounts(accounts) ==
  LET OrderedRule(rule) == [issuer |-> rule["issuer"], all |-> ordered_predicates(rule["all"]),
                            allowed_certificate_extensions |-> rule["allowed_certificate_extensions"]]
  IN  [i \in DOMAIN accounts |->
         [name |-> accounts[i].name,
          policy |-> [allow |-> [j \in DOMAIN accounts[i].policy["allow"] |->
                                   OrderedRule(accounts[i].policy["allow"][j])]]]]

(* What is validated is one line of text, and the parser refuses one that  *)
(* is too large; what is returned is laid out, and nobody measures it.     *)
initialize(o, input, keys) ==
  LET trusted == IF o.deny_all THEN <<>> ELSE input.document["trusted_issuers"]
      accounts == IF o.deny_all THEN <<>> ELSE input.document["accounts"]
      Result(error) ==
        IF error # "none" THEN Failed(error)
        ELSE [error |-> "none",
              document |-> Document(o, ordered_trusted_issuers(trusted), ordered_accounts(accounts))]
  IN  Result(OptionsError(o) ++ (IF o.deny_all THEN "none" ELSE InputError(input))
             ++ Unless(Compact(Document(o, trusted, accounts)) <= MaxBytes, Limit)
             ++ ConfigurationError(Document(o, trusted, accounts), keys))

-----------------------------------------------------------------------------
(* What the readers of the two files give the parser: objects, lists, and  *)
(* texts where a duration is read.                                         *)
IsObject(v) == v = [n \in DOMAIN v |-> v[n]]
IsList(v) == Len(v) \in Nat /\ v = [i \in 1..Len(v) |-> v[i]]
IsListOf(v, Is(_)) == IsList(v) /\ \A i \in DOMAIN v : Is(v[i])
May(object, name, Is(_)) == name \in DOMAIN object => Is(object[name])
IsDuration(text) == text \in Seq(STRING)
IsPredicate(p) == IsObject(p) /\ May(p, "values", IsList)
IsPredicates(list) == IsListOf(list, IsPredicate)
IsPolicy(value) ==
  /\ IsObject(value) /\ May(value, "key_source", IsObject)
  /\ \A i \in DOMAIN Lists : May(value, Lists[i], IsList)
  /\ May(value, "required_claims", IsPredicates)
  /\ May(value, "environment_discriminator", IsPredicate)
  /\ May(value, "maximum_credential_age", IsDuration)
  /\ May(value, "maximum_identity_lifetime", IsDuration)
IsRule(rule) == IsObject(rule) /\ May(rule, "all", IsPredicates)
IsRules(list) == IsListOf(list, IsRule)
IsAccount(account) ==
  /\ account = [name |-> account.name, policy |-> account.policy]
  /\ IsObject(account.policy) /\ May(account.policy, "allow", IsRules)
IsDocument(document) ==
  LET IsTrusted(list) == IsListOf(list, IsPolicy)
      IsAccounts(list) == IsListOf(list, IsAccount)
  IN  /\ May(document, "clock_skew", IsDuration)
      /\ May(document, "trusted_issuers", IsTrusted)
      /\ May(document, "accounts", IsAccounts)

-----------------------------------------------------------------------------
(* What the verify command may rely on in an accepted configuration: it is *)
(* within the bounds; policies are told apart by their identifiers; every  *)
(* rule is about a trusted issuer; and the claims that reach a decision    *)
(* under a policy are those that some part of it, or some rule of its own  *)
(* issuer, reads, no fewer and no more.                                    *)
ReadBy(policy, configuration) ==
  ({policy.principal, policy.audit} \ {""}) \cup ClaimsOf(policy.required)
  \cup UNION {ClaimsOf(r.all) : r \in {s \in ToSet(configuration.rules) : s.issuer = policy.issuer}}
IsSound(c) ==
  /\ c.deadline \in 1..MaxDeadline /\ c.skew \in 0..MaxI64
  /\ \A n \in DOMAIN c.limits : c.limits[n] \in 1..MaxSize[n]
  /\ Len(c.trusted) <= MaxPolicies /\ Len(c.rules) <= MaxRules
  /\ IsInjective([i \in DOMAIN c.trusted |-> c.trusted[i].id])
  /\ {r.issuer : r \in ToSet(c.rules)} \subseteq {p.issuer : p \in ToSet(c.trusted)}
  /\ \A p \in ToSet(c.trusted) : p.admitted = ReadBy(p, c)
=============================================================================
