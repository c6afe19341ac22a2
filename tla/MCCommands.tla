----------------------------- MODULE MCCommands -----------------------------
(* Commands for TLC: configurations and policy inputs with one or two      *)
(* things wrong, and the calls made on them.                               *)
EXTENDS Commands

MCDigits == <<"0", "1">>
MCMaxSize == [n \in ToSet(LimitNames) |-> IF n = "max_token_bytes" THEN 3 ELSE 2]

(* The audiences are what makes a text long: a byte for each, and another  *)
(* for the line and the indentation that it gets when it is laid out.      *)
MCCompact(d) ==
  FoldLeft(LAMBDA n, policy : n + Len(Member(policy, "audiences", <<>>)), 0, d.trusted_issuers)
MCIndented(d) == 2 * MCCompact(d)

-----------------------------------------------------------------------------
(* Words and their characters.                                             *)
Word(chars) == FoldLeft(LAMBDA w, c : w \o c, "", chars)
DurationTexts == {<<"1", "s">>, <<"0", "s">>, <<"1", "0", "s">>, <<"1", "0", "0", "s">>, <<"1", "n", "s">>,
              <<"1", "h">>, <<"1", "0", "h">>, <<"1", "1", "h">>, <<"0", "1", "s">>, <<"s">>,
              <<"1", "s", "1", "s">>, <<"1", "0", "0", "0", "0", "m">>, <<"1", "m", "s">>}
Sizes == {<<>>, <<"0">>, <<"1">>, <<"1", "0">>, <<"1", "1">>, <<"0", "1">>, <<"1", "0", "0">>, <<"l">>}
Chars == PathChars \cup {Blank, "%", NewLine}
Paths == {<<>>} \cup {<<c>> : c \in Chars} \cup {<<c, d>> : c \in Chars, d \in Chars}
         \cup {<<"/", c, d>> : c \in Chars, d \in {"l", Blank}}
Spelled == DurationTexts \cup Sizes \cup Paths
MCSpelling == [w \in {Word(chars) : chars \in Spelled} |-> CHOOSE chars \in Spelled : Word(chars) = w]

MCDefaults ==
  [deny_all |-> FALSE, policy_input |-> "", clock_skew |-> <<"1", "s">>,
   total_verification_deadline |-> <<"1", "s">>, maximum_freshness |-> <<"1", "h">>,
   directory |-> "/cache", facility |-> "authpriv"]
  @@ [n \in ToSet(LimitNames) |-> <<"1">>]

-----------------------------------------------------------------------------
(* Documents.                                                              *)
Equals(claim, value) == [claim |-> claim, type |-> "string", op |-> "equals", value |-> value]
Holds(claim, value) == [claim |-> claim, type |-> "string-array", op |-> "contains", value |-> value]
OneOf(claim, values) == [claim |-> claim, type |-> "string", op |-> "one-of", values |-> values]
Wrong == {NotObject, [claim |-> "c", type |-> "string", op |-> "contains", value |-> "v"],
          Equals("", "v"), Equals("c", NotText), OneOf("c", <<>>), OneOf("c", <<"v", "v">>),
          OneOf("c", <<"">>), ("extra" :> "e") @@ Equals("c", "v"),
          [claim |-> "c", type |-> "string", op |-> "one-of", value |-> "v"]}

KeyFile == [type |-> "static-jwks-file", path |-> "/k"]
Basic(id, issuer) ==
  [policy_id |-> id, issuer |-> issuer, key_source |-> KeyFile, audiences |-> <<"aud">>,
   issuer_algorithms |-> <<"RS256">>, caller_algorithms |-> <<"Ed25519", "ES256">>,
   evidence_profiles |-> <<"gq", "standard">>, binding_profiles |-> <<"oidc-nonce">>,
   acquisition_profiles |-> <<"oidc-native-auth-code-v1">>,
   require_non_reconstructible_evidence |-> "true", certificate_principal_claim |-> "email"]
Options ==
  [authorized_parties |-> <<"azp">>, maximum_credential_age |-> <<"1", "s">>,
   maximum_identity_lifetime |-> <<"1", "0", "s">>, audit_identity_claim |-> "sub",
   required_claims |-> <<Equals("env", "prod"), OneOf("team", <<"x", "y">>)>>,
   environment_discriminator |-> Holds("groups", "ops")]
Full == Basic("p1", "https://a") @@ Options
Without(object, name) == Restrict(object, DOMAIN object \ {name})
With(object, name, value) == (name :> value) @@ object

Values ==
  [policy_id |-> {"", "p2", NotText}, issuer |-> {"http://a", "https://b"},
   certificate_principal_claim |-> {"", "sub"}, audiences |-> {<<>>, <<"a", "b">>, <<"a", "a">>, <<NotText>>},
   issuer_algorithms |-> {<<"ES256">>, <<"RS256", "ES256">>}, caller_algorithms |-> {<<"Ed25519">>, <<"ES256">>},
   evidence_profiles |-> {<<"standard">>, <<"gq", "other">>},
   binding_profiles |-> {<<"audience">>, <<"oidc-nonce", "credbind-claim">>, <<"other">>},
   acquisition_profiles |-> {<<"challenge-bound-workload-v1">>, <<"other">>,
                             <<"oidc-native-auth-code-v1", "challenge-bound-workload-v1">>},
   require_non_reconstructible_evidence |-> {"false", NotText},
   authorized_parties |-> {<<>>, <<"", "azp">>}, maximum_credential_age |-> {<<"0", "s">>, <<"1", "n", "s">>},
   maximum_identity_lifetime |-> {<<"s">>, <<"1", "n", "s", "1", "m", "s">>},
   audit_identity_claim |-> {"\n", "email"},
   required_claims |-> {<<>>, <<NotObject>>} \cup {<<Equals("env", "prod"), p>> : p \in Wrong},
   environment_discriminator |-> Wrong,
   key_source |-> {NotObject, [type |-> "oidc-discovery"], [type |-> "oidc-discovery", path |-> "/k"],
                   [type |-> "static-jwks-file"], [type |-> "static-jwks-file", path |-> "k"],
                   [type |-> "static-jwks-file", path |-> "/bad"], [type |-> "other", path |-> "/k"]}]
PolicyVariants ==
  {Full, NotObject, With(Full, "extra", "e"), Basic("p1", "https://a"),
   [Full EXCEPT !.binding_profiles = <<"audience">>,
                !.acquisition_profiles = <<"challenge-bound-workload-v1">>]}
  \cup {Without(Full, name) : name \in DOMAIN Full}
  \cup UNION {{With(Full, name, v) : v \in Values[name]} : name \in DOMAIN Values}
Sibling == Basic("p2", "https://a")
Trusted == <<Full, Sibling, Basic("p3", "https://b")>>
TrustedVariants ==
  {Trusted, <<>>, NotList, Append(Trusted, Basic("p4", "https://b"))}
  \cup {<<p, Sibling, Basic("p3", "https://b")>> : p \in PolicyVariants}

Permit(issuer, all) == [issuer |-> issuer, all |-> all, allowed_certificate_extensions |-> <<"permit-pty">>]
Account(name, allow) == [name |-> name, policy |-> [allow |-> allow]]
InA == Permit("https://a", <<Holds("roles", "admin")>>)
InB == Permit("https://b", <<Equals("org", "x"), OneOf("team", <<"y">>)>>)
Accounts == <<Account("me", <<InA, InB>>), Account("you", <<InA>>)>>
RuleVariants ==
  {NotObject, With(InA, "extra", "e"), Permit("https://c", <<>>), Permit(NotText, <<>>), Permit("https://a", <<>>),
   [InA EXCEPT !.allowed_certificate_extensions = <<>>],
   [InA EXCEPT !.allowed_certificate_extensions = <<"permit-pty", "permit-pty">>],
   [InA EXCEPT !.allowed_certificate_extensions = <<"force-command">>]}
  \cup {Without(InA, name) : name \in DOMAIN InA}
  \cup {Permit("https://a", <<p>>) : p \in Wrong}
AccountsVariants ==
  {Accounts, <<>>, NotAccounts, <<Account("me", <<>>)>>, <<Account("\n", <<InA>>)>>,
   <<[name |-> "me", policy |-> NotObject]>>, <<Account("me", <<InA, InB, InA>>), Account("you", <<InA>>)>>,
   <<Account("me", <<InB, InA>>), Account("you", <<InA, NotObject>>)>>}
  \cup {<<Account("me", <<r, InB>>), Account("you", <<InA>>)>> : r \in RuleVariants}

Limits == [n \in ToSet(LimitNames) |-> 1]
Base == Document([deny_all |-> FALSE] @@ MCDefaults, Trusted, Accounts)
RootVariants ==
  {NotObject, With(Base, "extra", "e"), With(Base, "version", 2), With(Base, "logging", NotObject),
   With(Base, "logging", [n \in {} |-> ""]), With(Base, "logging", [facility |-> NotText]),
   With(Base, "logging", [facility |-> "kern"]), With(Base, "logging", [facility |-> "local0"])}
  \cup {Without(Base, name) : name \in DOMAIN Base}
  \cup {With(Base, name, d) : name \in {"clock_skew", "total_verification_deadline"},
                              d \in DurationTexts \cup {NotDuration}}
  \cup {With(Base, "issuer_key_cache", [directory |-> p, maximum_freshness |-> d]) :
          p \in {"/cache", "cache"}, d \in DurationTexts \cup {NotDuration}}
  \cup {With(Base, "issuer_key_cache", NotObject)}
  \cup {With(Base, "resource_limits", With(Limits, n, v)) : n \in ToSet(LimitNames), v \in {NotSize, 0, 3, 4}}
  \cup {With(Base, "resource_limits", With(Limits, "extra", 1)), With(Base, "resource_limits", NotObject)}

Configurations ==
  RootVariants \cup {[Base EXCEPT !.trusted_issuers = t, !.accounts = a] :
                       t \in TrustedVariants, a \in AccountsVariants}
Input(trusted, accounts) == [trusted_issuers |-> trusted, accounts |-> accounts]
For(n) == [Full EXCEPT !.audiences = SubSeq(<<"a", "b", "c", "d", "e", "f", "g", "h", "i">>, 1, n)]
Inputs ==
  {Input(<<For(n)>> \o Tail(Trusted), Accounts) : n \in 1..9}
  \cup {Input(t, Accounts) : t \in TrustedVariants} \cup {Input(Trusted, a) : a \in AccountsVariants}
  \cup {NotObject, With(Input(Trusted, Accounts), "extra", "e")}

-----------------------------------------------------------------------------
(* Calls.                                                                  *)
InitWith(words) == <<"config", "init">> \o words
Make == InitWith(<<"--policy-input", "/l", "--output", "/l", "--force">>)
Check == <<"config", "check", "--config", "/l">>
Render(config, verifier, user) ==
  <<"sshd-config", "render", "--config", config, "--verifier", verifier, "--command-user", user>>

FlagWords == {"--deny-all", "--force", "--output", "--policy-input", "--unknown", "/l"}
FlagCalls == UNION {{InitWith(words) : words \in [1..n -> FlagWords]} : n \in 0..3}
OptionCalls ==
  {InitWith(<<"--deny-all", flag, Word(d)>>) :
     flag \in {"--clock-skew", "--total-verification-deadline", "--issuer-key-cache-maximum-freshness"},
     d \in DurationTexts}
  \cup {InitWith(<<"--deny-all", flag, Word(n)>>) :
          flag \in {"--max-token-bytes", "--max-evidence-bytes", "--max-offered-key-chars"}, n \in Sizes}
  \cup {InitWith(<<"--deny-all", "--issuer-key-cache-directory", "cache">>),
        InitWith(<<"--deny-all", "--logging-facility", "kern">>),
        InitWith(<<"--logging-facility", "local0", "--deny-all", "--deny-all">>)}
RenderCalls ==
  {Render(Word(p), "/l", "l") : p \in Paths} \cup {Render("/l", Word(p), "l") : p \in Paths}
  \cup {Render("/l", "/l", Word(p)) : p \in Paths}
HelpCalls == {<<>>, <<"-h">>, <<"help">>, <<"config", "--help">>, <<"verify", "--help">>,
              <<"config", "check", "-h">>, <<"sshd-config", "render", "-h">>, <<"config", "render", "-h">>}

Keys == [p \in AbsolutePaths |-> IF p = "/bad" THEN "issuer_untrusted" ELSE "none"]
Revoked == [p \in DOMAIN Keys |-> "issuer_untrusted"]
File(document) == [error |-> "none", document |-> document]
Lost(kind) == [error |-> kind]
Files(config, input) == [config |-> config, input |-> input, keys |-> Keys]
Good == Files(File(Base), File(Input(Trusted, Accounts)))
Scenario(before, after, sequence) == [files |-> before, edit |-> after, calls |-> sequence]
Alone(before, sequence) == Scenario(before, before, sequence)
MCScenarios ==
  {Alone(Files(File(c), Lost("absent")), <<Check>>) : c \in Configurations}
  \cup {Alone(Files(Lost(e), Lost(e)), <<Check>>) : e \in {"absent", "malformed_input", "internal_error"}}
  \cup {Alone(Files(Lost(e), File(Input(Trusted, Accounts))), <<Make, Check>>) : e \in {"absent", "malformed_input"}}
  \cup {Alone(Files(Lost("absent"), File(i)), <<Make, Check>>) : i \in Inputs}
  \cup {Scenario(Good, [Good EXCEPT !.keys = Revoked], <<Make, Check, Check>>),
        Scenario(Good, Files(Lost("malformed_input"), Lost("absent")), <<Make, Check, Render("/l", "/l", "l")>>)}
  \cup {Alone(Good, <<c>>) : c \in FlagCalls \cup OptionCalls \cup RenderCalls \cup HelpCalls}

(* A policy input whose text is laid out: it may become too large.         *)
LongScenarios ==
  {Alone(Files(Lost("absent"), File(Input(<<For(n)>> \o Tail(Trusted), Accounts))), <<Make, Check>>) : n \in 1..9}
=============================================================================
