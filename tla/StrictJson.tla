----------------------------- MODULE StrictJson -----------------------------
(***************************************************************************)
(* The five readers that turn untrusted JSON into values.  Each is a SAX   *)
(* handler called back by the vendored parser, and stops it by returning   *)
(* false:                                                                  *)
(*   header  HeaderSax        a claim-independent header, any object       *)
(*   config  ConfigSax        the configuration, any object                *)
(*   object  ObjectSax        issuer claims and evidence, any object       *)
(*   core    CoreEnvelopeSax  the closed shape of a core envelope          *)
(*   jwks    JwksSax          the closed shape of a static key set         *)
(* The parser is external: it delivers the callbacks of a grammatical      *)
(* document, which it may break off with a syntax error at any point.      *)
(* doc is what has been read, as paths and values; it is compared with     *)
(* what the handler accepts, builds and reports.                           *)
(***************************************************************************)
EXTENDS Integers, Sequences, SequencesExt, FiniteSets, Functions, TLC

CONSTANTS Names,       \* by reader: member names of the documents, "" among them
          LongNames,   \* those that exceed the bound on a key's bytes
          JwkMembers,  \* the members of a key; the code has six
          Texts,       \* by reader: the strings of the documents
          MaxDepth, MaxMembers, MaxValues,   \* by reader
          MaxKeys

Trees == {"header", "config", "object"}
Handlers == Trees \cup {"core", "jwks"}

ASSUME BoundsArePositive ==
  /\ MaxKeys \in Nat \ {0}
  /\ {MaxDepth, MaxMembers, MaxValues} \subseteq [Handlers -> Nat \ {0}]
ASSUME KidIsMember == "kid" \in JwkMembers
(* The items of an array are told apart by their index in decimal.         *)
ASSUME IndexesDiffer ==
  \A h \in Trees : \A i, j \in 0..MaxValues[h] : ToString(i) = ToString(j) => i = j

VARIABLES handler, \* which reader was called
          open,    \* the parser's open containers: [kind, at, ready]
          doc,     \* what was read: [keys, seen, closed]
          sax,     \* the handler object
          verdict, \* "parsing", "accepted" or the kind of the error
          result   \* what the reader returned: a set of entries
vars == <<handler, open, doc, sax, verdict, result>>

-----------------------------------------------------------------------------
(* The handler object.  A context holds the names of its members, the name *)
(* whose value is awaited (an empty sequence when none is) and the value   *)
(* built so far, as a set of [path, kind, text].                           *)

NoText == ""
Context(kind) == [kind |-> kind, members |-> {}, pending |-> <<>>, items |-> 0, value |-> {}]
NewSax == [stack |-> <<>>, members |-> 0, values |-> 0, keys |-> 0, have |-> {},
           current |-> [m \in JwkMembers |-> NoText], parsed |-> <<>>,
           failure |-> "none", live |-> TRUE, complete |-> FALSE, root |-> {}]

Top(s) == Last(s.stack)
SetTop(s, context) == [s EXCEPT !.stack[Len(s.stack)] = context]
Push(s, kind) == [s EXCEPT !.stack = Append(@, Context(kind))]
Pop(s) == [s EXCEPT !.stack = Front(@)]
InKind(s, kind) == s.stack # <<>> /\ Top(s).kind = kind
Awaits(s, name) == Top(s).pending = <<name>>

Malformed == "malformed_input"
Limit == "resource_limit"
Untrusted == "issuer_untrusted"
Default(h) == IF h = "jwks" THEN Untrusted ELSE Malformed

(* Returning false, with the first failure kept or with none recorded.     *)
Silent(s) == [s EXCEPT !.live = FALSE]
Fail(s, kind) == [Silent(s) EXCEPT !.failure = IF @ = "none" THEN kind ELSE @]
Require(ok, s, kind) == IF ok THEN s ELSE Fail(s, kind)
Then(s, Step(_)) == IF s.live THEN Step(s) ELSE s

CountValue(s) ==
  LET t == [s EXCEPT !.values = @ + 1] IN Require(t.values <= MaxValues[handler], t, Limit)

(* key(): the count, the key's bytes, the duplicate, then the reader's own *)
(* rule on the name.                                                       *)
CountMemberMalformed(s, name, bounded) ==
  LET t == [s EXCEPT !.members = @ + 1]
  IN  Require(t.members <= MaxMembers[handler] /\ ~(bounded /\ name \in LongNames), t, Malformed)
CountMember(s, name, bounded) ==
  LET t == [s EXCEPT !.members = @ + 1]
  IN  Require(t.members <= MaxMembers[handler] /\ ~(bounded /\ name \in LongNames), t, Limit)
InsertMemberTwice(s, name, kind) ==
  SetTop(s, [Top(s) EXCEPT !.members = @ \cup {name}, !.pending = <<name>>])
InsertMember(s, name, kind) ==
  IF name \in Top(s).members THEN Fail(s, kind)
  ELSE SetTop(s, [Top(s) EXCEPT !.members = @ \cup {name}, !.pending = <<name>>])

-----------------------------------------------------------------------------
(* HeaderSax, ConfigSax and ObjectSax: any tree within the bounds.         *)

TooDeepByOne(s) == Len(s.stack) > MaxDepth[handler]
TooDeep(s) == Len(s.stack) + 1 > MaxDepth[handler]
ParentReady(s) == Top(s).kind = "array" \/ Top(s).pending # <<>>
DepthFailure(s) == IF handler = "object" THEN Silent(s) ELSE Fail(s, Limit)

(* Below a container; a root array is refused, a root object pushed.       *)
TreeStart(s, kind) ==
  LET Nest(t) == IF TooDeep(t) THEN DepthFailure(t)
                 ELSE IF ~ParentReady(t) THEN Fail(t, Malformed) ELSE Push(t, kind)
      Root(t) == Push(t, kind)
  IN  IF s.stack # <<>> THEN Then(CountValue(s), Nest)
      ELSE IF kind = "object" THEN Then(CountValue(s), Root)
      ELSE IF handler = "object" THEN Fail(s, Malformed) ELSE Silent(s)

Under(name, entries) == {[e EXCEPT !.path = <<name>> \o @] : e \in entries}
Without(entries, name) == {e \in entries : e.path = <<>> \/ Head(e.path) # name}
AttachReplacing(s, value) ==
  LET top == Top(s)
      name == IF top.kind = "array" THEN "0" ELSE Head(top.pending)
  IN  SetTop(s, [top EXCEPT !.value = Without(top.value, name) \cup Under(name, value),
                            !.pending = <<>>])
Attach(s, value) ==
  LET top == Top(s)
      Put(name) == Without(top.value, name) \cup Under(name, value)
  IN  IF top.kind = "array"
      THEN SetTop(s, [top EXCEPT !.value = Put(ToString(top.items)), !.items = @ + 1])
      ELSE IF top.pending = <<>> THEN Fail(s, Malformed)
      ELSE SetTop(s, [top EXCEPT !.value = Put(Head(top.pending)), !.pending = <<>>])

TreeScalar(s, kind, text) ==
  LET Value(t) == IF t.stack = <<>> THEN Silent(t)
                  ELSE Attach(t, {[path |-> <<>>, kind |-> kind, text |-> text]})
  IN  Then(CountValue(s), Value)

TreeKey(s, name) ==
  LET Insert(t) == InsertMember(t, name, Malformed)
  IN  IF InKind(s, "object") THEN Then(CountMember(s, name, TRUE), Insert)
      ELSE Fail(s, Malformed)

TreeEnd(s, kind) ==
  LET whole == Top(s).value \cup {[path |-> <<>>, kind |-> kind, text |-> NoText]}
  IN  IF ~InKind(s, kind) \/ (kind = "object" /\ Top(s).pending # <<>>)
      THEN Fail(s, Malformed)
      ELSE IF Len(s.stack) = 1
      THEN [Pop(s) EXCEPT !.complete = TRUE, !.root = whole]
      ELSE Attach(Pop(s), whole)

-----------------------------------------------------------------------------
(* CoreEnvelopeSax: payload, credbind_evidence and one caller signature.   *)

RootMembers == {"payload", "credbind_evidence", "signatures"}
SignatureMembers == {"protected", "signature"}

CoreCount(s) ==
  LET Deep(t) == Require(~TooDeep(t), t, Limit) IN Then(CountValue(s), Deep)
CoreStartObject(s) ==
  LET Nest(t) ==
        IF t.stack = <<>> THEN Push(t, "root")
        ELSE IF Top(t).kind # "signatures" THEN Fail(t, Malformed)
        ELSE LET u == SetTop(t, [Top(t) EXCEPT !.items = @ + 1])
             IN  IF Top(u).items > 1 THEN Fail(u, Malformed) ELSE Push(u, "entry")
  IN  Then(CoreCount(s), Nest)
CoreStartArray(s) ==
  LET Nest(t) ==
        IF t.stack = <<>> THEN Silent(t)
        ELSE IF Top(t).kind # "root" \/ ~Awaits(t, "signatures") THEN Fail(t, Malformed)
        ELSE Push(SetTop([t EXCEPT !.have = @ \cup {"signatures"}],
                         [Top(t) EXCEPT !.pending = <<>>]), "signatures")
  IN  Then(CoreCount(s), Nest)
CoreKey(s, name) ==
  LET allowed == IF Top(s).kind = "root" THEN RootMembers ELSE SignatureMembers
      Insert(t) == InsertMember(t, name, Malformed)
      Known(t) == Require(name \in allowed, t, Malformed)
  IN  IF s.stack = <<>> \/ InKind(s, "signatures") THEN Fail(s, Malformed)
      ELSE Then(Then(CountMember(s, name, TRUE), Insert), Known)
CoreString(s, text) ==
  LET Accepts(t) == CASE InKind(t, "root") -> {"payload", "credbind_evidence"}
                      [] InKind(t, "entry") -> SignatureMembers
                      [] OTHER -> {}
      Path(t) == (IF InKind(t, "entry") THEN <<"signatures", "0">> ELSE <<>>) \o Top(t).pending
      Store(t) ==
        IF \A name \in Accepts(t) : ~Awaits(t, name) THEN Fail(t, Malformed)
        ELSE SetTop([t EXCEPT !.have = @ \cup {Head(Top(t).pending)},
                              !.root = @ \cup {[path |-> Path(t), kind |-> "string",
                                                text |-> text]}],
                    [Top(t) EXCEPT !.pending = <<>>])
  IN  Then(CountValue(s), Store)
CoreEndObject(s) ==
  LET wanted == IF InKind(s, "root") THEN RootMembers ELSE SignatureMembers
  IN  IF s.stack = <<>> \/ InKind(s, "signatures") \/ ~(wanted \subseteq s.have)
      THEN Fail(s, Malformed) ELSE Pop(s)
CoreEndArray(s) ==
  IF ~InKind(s, "signatures") \/ Top(s).items # 1 THEN Fail(s, Malformed) ELSE Pop(s)

-----------------------------------------------------------------------------
(* JwksSax and parse(): {"keys": [one public RS256 key or more]}.  Of the  *)
(* members other than kid the right string is "a": RSA, sig, RS256, a      *)
(* modulus of 2048 bits or more and 65537; "b" is any other.               *)

Roles == {"kty", "use", "alg"}

JwksStartObject(s) ==
  IF s.stack = <<>> THEN Push(s, "root")
  ELSE IF Top(s).kind # "keys" THEN Fail(s, Untrusted)
  ELSE LET t == [s EXCEPT !.keys = @ + 1]
       IN  IF t.keys > MaxKeys THEN Fail(t, Limit)
           ELSE Push([t EXCEPT !.current = [m \in JwkMembers |-> NoText]], "key")
JwksStartArray(s) ==
  IF ~InKind(s, "root") \/ ~Awaits(s, "keys") THEN Fail(s, Untrusted)
  ELSE Push(SetTop([s EXCEPT !.have = {"keys"}], [Top(s) EXCEPT !.pending = <<>>]), "keys")
JwksKey(s, name) ==
  LET allowed == IF Top(s).kind = "root" THEN {"keys"} ELSE JwkMembers
      Insert(t) == InsertMember(t, name, Untrusted)
      Known(t) == Require(name \in allowed, t, Untrusted)
  IN  IF s.stack = <<>> \/ InKind(s, "keys") THEN Fail(s, Untrusted)
      ELSE Then(Then(CountMember(s, name, FALSE), Insert), Known)
JwksString(s, text) ==
  IF ~InKind(s, "key") \/ Top(s).pending = <<>> THEN Fail(s, Untrusted)
  ELSE IF Awaits(s, "kid") /\ text \in {NoText, "long"} THEN Fail(s, Untrusted)
  ELSE SetTop([s EXCEPT !.current[Head(Top(s).pending)] = text],
              [Top(s) EXCEPT !.pending = <<>>])
CompleteKey(s) ==
  /\ Top(s).members = JwkMembers
  /\ \A m \in JwkMembers : s.current[m] # NoText
  /\ \A m \in JwkMembers \cap Roles : s.current[m] = "a"
JwksEndObject(s) ==
  IF InKind(s, "key")
  THEN IF CompleteKey(s) THEN [Pop(s) EXCEPT !.parsed = Append(@, s.current)]
       ELSE Fail(s, Untrusted)
  ELSE IF InKind(s, "root") /\ "keys" \in s.have /\ Cardinality(Top(s).members) = 1
  THEN Pop(s) ELSE Fail(s, Untrusted)
JwksEndArray(s) ==
  IF ~InKind(s, "keys") \/ s.keys = 0 THEN Fail(s, Untrusted) ELSE Pop(s)

(* decode_key of each key in order, and the map from kid to key.           *)
Decodes(key) == \A m \in JwkMembers \ (Roles \cup {"kid"}) : key[m] = "a"
KeysAdmitted(s) ==
  /\ \A i \in 1..Len(s.parsed) : Decodes(s.parsed[i])
  /\ IsInjective([i \in 1..Len(s.parsed) |-> s.parsed[i]["kid"]])

-----------------------------------------------------------------------------
(* The callbacks, by reader.                                               *)

StartObject(s) == CASE handler \in Trees -> TreeStart(s, "object")
                    [] handler = "core" -> CoreStartObject(s)
                    [] handler = "jwks" -> JwksStartObject(s)
StartArray(s) == CASE handler \in Trees -> TreeStart(s, "array")
                   [] handler = "core" -> CoreStartArray(s)
                   [] handler = "jwks" -> JwksStartArray(s)
MemberName(s, name) == CASE handler \in Trees -> TreeKey(s, name)
                         [] handler = "core" -> CoreKey(s, name)
                         [] handler = "jwks" -> JwksKey(s, name)
Scalar(s, kind, text) ==
  CASE handler \in Trees -> TreeScalar(s, kind, text)
    [] handler = "core" /\ kind = "string" -> CoreString(s, text)
    [] handler = "core" /\ kind # "string" -> Fail(CountValue(s), Malformed)
    [] handler = "jwks" -> IF kind = "string" THEN JwksString(s, text) ELSE Fail(s, Untrusted)
EndObject(s) == CASE handler \in Trees -> TreeEnd(s, "object")
                  [] handler = "core" -> CoreEndObject(s)
                  [] handler = "jwks" -> JwksEndObject(s)
EndArray(s) == CASE handler \in Trees -> TreeEnd(s, "array")
                 [] handler = "core" -> CoreEndArray(s)
                 [] handler = "jwks" -> JwksEndArray(s)

Kind(s) == IF s.failure = "none" THEN Default(handler) ELSE s.failure

-----------------------------------------------------------------------------
(* The parser: a value may come at the root, in an array, or after a name. *)

Rooted == doc.seen # <<>>
Inside == open # <<>>
ValueExpected == IF Inside THEN Last(open).ready ELSE ~Rooted
Place == [i \in 1..Len(open) |-> open[i].at]

(* The open containers once a value in the innermost has been read: an     *)
(* object awaits a name, an array's next item has the next index.          *)
Advance(frames) ==
  IF frames = <<>> THEN <<>>
  ELSE LET top == Last(frames)
       IN  Append(Front(frames),
             IF top.kind = "object" THEN [top EXCEPT !.ready = FALSE]
             ELSE [top EXCEPT !.count = @ + 1, !.at = ToString(top.count + 1)])
Frame(kind) == [kind |-> kind, ready |-> kind = "array", count |-> 0,
                at |-> IF kind = "array" THEN ToString(0) ELSE NoText]
Seen(kind, text) ==
  [doc EXCEPT !.seen = Append(@, [path |-> Place, kind |-> kind, text |-> text])]

Deliver(s) ==
  /\ verdict = "parsing"
  /\ sax' = s
  /\ verdict' = IF s.live THEN "parsing" ELSE Kind(s)
  /\ UNCHANGED <<handler, result>>

ReadStart(kind) ==
  /\ ValueExpected
  /\ Deliver(IF kind = "object" THEN StartObject(sax) ELSE StartArray(sax))
  /\ doc' = Seen(kind, NoText)
  /\ open' = Append(open, Frame(kind))
ReadScalar(kind, text) ==
  /\ ValueExpected
  /\ Deliver(Scalar(sax, kind, text))
  /\ doc' = Seen(kind, text)
  /\ open' = Advance(open)
ReadKey(name) ==
  /\ Inside /\ Last(open).kind = "object" /\ ~Last(open).ready
  /\ Deliver(MemberName(sax, name))
  /\ open' = Append(Front(open), [Last(open) EXCEPT !.ready = TRUE, !.at = name])
  /\ doc' = [doc EXCEPT !.keys = Append(@, Front(Place) \o <<name>>)]
ReadEnd ==
  /\ Inside /\ (Last(open).kind = "object" => ~Last(open).ready)
  /\ Deliver(IF Last(open).kind = "object" THEN EndObject(sax) ELSE EndArray(sax))
  /\ open' = Advance(Front(open))
  /\ doc' = [doc EXCEPT !.closed = @ \cup {Front(Place)}]

(* A syntax error calls parse_error, which fails; so does anything after   *)
(* the root value and an end inside it.                                    *)
ReadGarbage ==
  /\ Deliver(Fail(sax, Default(handler)))
  /\ doc' = [doc EXCEPT !.garbage = TRUE]
  /\ UNCHANGED open

(* The input ends after the root value: the reader's own checks follow.    *)
ReadFinish ==
  /\ verdict = "parsing" /\ Rooted /\ ~Inside
  /\ verdict' = IF \/ handler \in Trees /\ ~(sax.complete /\ sax.stack = <<>>)
                   \/ handler = "jwks" /\ ~KeysAdmitted(sax)
                THEN Kind(sax) ELSE "accepted"
  /\ result' = CASE verdict' # "accepted" -> {}
                 [] verdict' = "accepted" /\ handler = "jwks" ->
                      {sax.parsed[i]["kid"] : i \in 1..Len(sax.parsed)}
                 [] OTHER -> sax.root
  /\ UNCHANGED <<handler, open, doc, sax>>

(* An input over the byte bound is refused before the parser is called.    *)
Init ==
  /\ handler \in Handlers
  /\ open = <<>> /\ sax = NewSax /\ result = {}
  /\ \E large \in BOOLEAN :
       /\ doc = [keys |-> <<>>, seen |-> <<>>, closed |-> {}, garbage |-> FALSE, large |-> large]
       /\ verdict = IF large THEN Limit ELSE "parsing"

Next ==
  \/ \E kind \in {"object", "array"} : ReadStart(kind)
  \/ \E text \in Texts[handler] : ReadScalar("string", text)
  \/ ReadScalar("other", NoText)
  \/ \E name \in Names[handler] : ReadKey(name)
  \/ ReadEnd \/ ReadGarbage \/ ReadFinish

Spec == Init /\ [][Next]_vars
-----------------------------------------------------------------------------
(* What each reader is for, stated on the document alone.  May says that   *)
(* what has been read can still become a document of the reader.           *)

Containers == {i \in 1..Len(doc.seen) : doc.seen[i].kind \in {"object", "array"}}
KeyObjects == {i \in 1..Len(doc.seen) : Len(doc.seen[i].path) = 2 /\ doc.seen[i].kind = "object"}
WithinBounds ==
  /\ ~doc.large
  /\ Len(doc.keys) <= MaxMembers[handler]
  /\ handler # "jwks" =>
       /\ Len(doc.seen) <= MaxValues[handler]
       /\ \A i \in 1..Len(doc.keys) : Last(doc.keys[i]) \notin LongNames
       /\ \A i \in Containers : Len(doc.seen[i].path) < MaxDepth[handler]
  /\ handler = "jwks" => Cardinality(KeyObjects) <= MaxKeys

(* A closed shape: the kind of the value at each path, and what a          *)
(* container needs before it ends.                                         *)
Leaf == [kind |-> "string", needs |-> {}]
At(path, names) == {path \o <<name>> : name \in names}
CoreShape ==
  (<<>> :> [kind |-> "object", needs |-> At(<<>>, RootMembers)]) @@
  (<<"signatures">> :> [kind |-> "array", needs |-> {<<"signatures", "0">>}]) @@
  (<<"signatures", "0">> :> [kind |-> "object", needs |-> At(<<"signatures", "0">>, SignatureMembers)]) @@
  [p \in At(<<>>, RootMembers \ {"signatures"})
          \cup At(<<"signatures", "0">>, SignatureMembers) |-> Leaf]
KeyPaths == {<<"keys", ToString(i)>> : i \in 0..MaxKeys - 1}
JwksShape ==
  (<<>> :> [kind |-> "object", needs |-> {<<"keys">>}]) @@
  (<<"keys">> :> [kind |-> "array", needs |-> {<<"keys", "0">>}]) @@
  [p \in KeyPaths |-> [kind |-> "object", needs |-> At(p, JwkMembers)]] @@
  [p \in UNION {At(q, JwkMembers) : q \in KeyPaths} |-> Leaf]
Fits(shape) ==
  /\ Range(doc.keys) \subseteq DOMAIN shape
  /\ \A v \in Range(doc.seen) : v.path \in DOMAIN shape /\ v.kind = shape[v.path].kind
  /\ \A p \in doc.closed : shape[p].needs \subseteq {v.path : v \in Range(doc.seen)}

Kids == {i \in 1..Len(doc.seen) : doc.seen[i].path # <<>> /\ Last(doc.seen[i].path) = "kid"}
GoodTexts ==
  \A i \in 1..Len(doc.seen) : LET v == doc.seen[i] IN
    v.kind = "string" => IF i \in Kids
                         THEN /\ v.text \notin {NoText, "long"}
                              /\ \A j \in Kids \ {i} : doc.seen[j].text # v.text
                         ELSE v.text = "a"

May ==
  /\ ~doc.garbage /\ WithinBounds /\ IsInjective(doc.keys)
  /\ CASE handler = "core" -> Fits(CoreShape)
       [] handler = "jwks" -> Fits(JwksShape) /\ GoodTexts
       [] OTHER -> \A v \in Range(doc.seen) : v.path = <<>> => v.kind = "object"

(* A reader accepts only whole documents of its language, and refuses only *)
(* what can no longer become one: no duplicate name at any nesting is      *)
(* lost when an inner container ends, and no legal document, one that      *)
(* reaches every bound included, is turned away.                           *)
AcceptsExactly ==
  /\ verdict = "accepted" => May /\ <<>> \in doc.closed
  /\ verdict \notin {"parsing", "accepted"} => ~May

(* What a reader returns is what the document said: every value at its     *)
(* path for a tree, the strings of an envelope, the identifiers of the     *)
(* keys of a key set.                                                      *)
Built ==
  CASE handler = "core" -> {v \in Range(doc.seen) : v.kind = "string"}
    [] handler = "jwks" -> {doc.seen[i].text : i \in Kids}
    [] OTHER -> Range(doc.seen)
ResultIsDocument == verdict = "accepted" => result = Built

(* resource_limit is reported exactly when the refusal came from a bound,  *)
(* which is what the audit event tells an operator to raise; the exception *)
(* is ObjectSax, which reports too deep a nesting as malformed input.      *)
LimitsAreReported ==
  verdict \notin {"parsing", "accepted"} /\ ~doc.garbage =>
    /\ verdict = Limit => ~WithinBounds
    /\ ~WithinBounds => \/ verdict = Limit
                        \/ handler = "object" /\ \E i \in Containers : Len(doc.seen[i].path) >= MaxDepth[handler]

(* However the input goes on, the failure is one that the reader may       *)
(* report, at most one name is awaited per object, and a handler holds no  *)
(* more contexts, names and values than its bounds: the nesting of         *)
(* JwksSax, which has no depth bound, is bounded by its shape.             *)
Held == UNION {{<<i, n>> : n \in sax.stack[i].members} : i \in 1..Len(sax.stack)}
TypeOK ==
  /\ handler \in Handlers
  /\ verdict \in {"parsing", "accepted", Limit, IF handler = "jwks" THEN Untrusted ELSE Malformed}
  /\ sax.live \in BOOLEAN /\ sax.complete \in BOOLEAN
  /\ \A i \in 1..Len(sax.stack) : Len(sax.stack[i].pending) <= 1
  /\ Len(sax.stack) <= IF handler = "jwks" THEN 3 ELSE MaxDepth[handler]
  /\ Cardinality(Held) <= MaxMembers[handler]
  /\ \A i \in 1..Len(sax.stack) : Cardinality(sax.stack[i].value) <= MaxValues[handler]
  /\ Len(sax.parsed) <= MaxKeys

=============================================================================
