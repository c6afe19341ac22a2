----------------------------- MODULE MCCarrier ------------------------------
(* Carrier for TLC: the requests and the policies of its runs.             *)
EXTENDS Carrier, FiniteSets

Claims == [iss |-> Text("issuer"), aud |-> Text("client"),
           nonce |-> Text("cic"), commitment |-> NoClaim, azp |-> NoClaim,
           email |-> Text("me"), groups |-> List(<<"a", "b">>)]

InGroup(g) == [claim |-> "groups", operation |-> "string_array_contains",
               value |-> g, values |-> {}]
IsMe == [claim |-> "email", operation |-> "string_equals",
         value |-> "me", values |-> {}]

BasePolicy ==
    [issuer |-> "issuer", audiences |-> {"client"}, parties |-> {},
     evidence |-> Evidence, bindings |-> Profiles, gqOnly |-> FALSE,
     callerAlgorithms |-> {"ES256", "Ed25519"}, required |-> {IsMe},
     admitted |-> {"email", "groups"}, principalClaim |-> "email",
     rules |-> {[issuer |-> "issuer", all |-> {InGroup("a")},
                 extensions |-> {"permit-pty"}]},
     skew |-> 0, maxAge |-> 0, lifetime |-> 0]

BaseRequest ==
    [faults |-> {}, claims |-> Claims, binding |-> "oidc-nonce",
     evidence |-> "gq", commitment |-> "cic", algorithm |-> "Ed25519",
     certified |-> "Ed25519", extensions |-> {"permit-pty"},
     principals |-> <<Principal([claims |-> Claims], BasePolicy)>>,
     iat |-> 0, exp |-> 4, nbf |-> Absent, validAfter |-> 0, validBefore |-> 4]

Case(request, policy) == [request |-> request, policy |-> policy]

-----------------------------------------------------------------------------
(* Times: every way to order the dates of a request around the clock. *)

TimePolicies ==
    {[BasePolicy EXCEPT !.skew = s, !.maxAge = a, !.lifetime = l] :
        s \in 0 .. 1, a \in {0, 2}, l \in {0, 2}}

TimeRequests ==
    {[BaseRequest EXCEPT !.iat = i, !.exp = e, !.nbf = n,
                         !.validAfter = f, !.validBefore = b] :
        i \in {0, 2, Absent}, e \in {2, 4}, n \in {Absent, Invalid, 3},
        f \in {0, 2}, b \in {1, 2, 4}}

TimeCases == {Case(r, p) : r \in TimeRequests, p \in TimePolicies}

(* The ends of the integers: dates end at MaxDate, durations and the times *)
(* of a certificate do not.                                                *)

EdgePolicies ==
    {[BasePolicy EXCEPT !.skew = s, !.maxAge = a, !.lifetime = l] :
        s \in {0, 2, MaxInt}, a \in {0, 2, MaxInt}, l \in {0, 2, MaxInt}}

EdgeRequests ==
    {[BaseRequest EXCEPT !.iat = i, !.exp = e,
                         !.validAfter = f, !.validBefore = b] :
        i \in {-MaxDate, 0, MaxDate, MaxInt}, e \in {-1, MaxDate, MaxDate + 1},
        f \in {0, MaxDate, MaxUint - 2}, b \in {1, MaxDate, MaxInt + 1,
                                              MaxUint - 1, MaxUint}}

EdgeCases == {Case(r, p) : r \in EdgeRequests, p \in EdgePolicies}

-----------------------------------------------------------------------------
(* Faults: a request with up to two, and claims that may be wrong as well. *)

WrongNonce == [Claims EXCEPT !["nonce"] = Text("another")]
WrongIssuer == [Claims EXCEPT !["iss"] = Text("another")]

UpToTwo == {{}} \cup {{x, y} : x \in Faults, y \in Faults}

FaultCases ==
    {Case([BaseRequest EXCEPT !.faults = f, !.claims = c, !.exp = e,
                              !.validBefore = e, !.evidence = v], BasePolicy) :
        f \in UpToTwo, c \in {Claims, WrongNonce, WrongIssuer},
        e \in {1, 4}, v \in Evidence}

-----------------------------------------------------------------------------
(* Claims: each profile, with the commitment where it belongs or elsewhere. *)

ClaimVariants ==
    {[Claims EXCEPT !["aud"] = a, !["nonce"] = n, !["commitment"] = c,
                    !["groups"] = g] :
        a \in {Text("client"), Text("cic"), List(<<"cic">>),
               List(<<"client", "cic">>), List(<<"client", "client">>)},
        n \in {Text("cic"), Text("another")}, c \in {NoClaim, Text("cic")},
        g \in {NoClaim, Text("a"), List(<<"a", "b">>), List(<<"a", "a">>),
               List(<<"a", Invalid>>)}}

ClaimPolicies ==
    {[BasePolicy EXCEPT !.admitted = a, !.bindings = b, !.required = r,
                        !.rules = {[issuer |-> "issuer", all |-> m,
                                    extensions |-> {"permit-pty"}]}] :
        a \in {{"email"}, {"email", "groups"}},
        b \in {Profiles, {"oidc-nonce"}},
        r \in {{IsMe}, {IsMe, InGroup("a")}}, m \in {{}, {InGroup("a")}}}

ClaimCases ==
    {Case([BaseRequest EXCEPT !.claims = c, !.binding = b], p) :
        c \in ClaimVariants, b \in Profiles,
        p \in {q \in ClaimPolicies :
                 \A x \in q.required : x.claim \in q.admitted}}

MCCases == TimeCases \cup EdgeCases \cup FaultCases \cup ClaimCases
=============================================================================
