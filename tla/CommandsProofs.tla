---------------------------- MODULE CommandsProofs ----------------------------
(***************************************************************************)
(* What a call of config init, config check, sshd-config render or the     *)
(* help tells its caller and the log is what it did, for any files, any    *)
(* edit of them and any calls.                                             *)
(* What config init makes is accepted and means what was asked for, what   *)
(* the parser accepts is sound and usable, and sshd finds in a fragment    *)
(* what was given and nothing else.                                        *)
(***************************************************************************)
EXTENDS Commands, ConfigRulesProofs

-----------------------------------------------------------------------------
(* The kinds of error of a row of checks.  Whatever a document says, what  *)
(* is found wrong with it is not taken for an interruption.                *)

LEMMA ThenKinds ==
    ASSUME NEW a \in FileErrors, NEW b \in FileErrors
    PROVE  a ++ b \in FileErrors
  BY DEF ++

LEMMA UnlessKinds ==
    ASSUME NEW holds, NEW kind \in FileErrors
    PROVE  Unless(holds, kind) \in FileErrors
  BY DEF Unless, FileErrors

LEMMA NamedKinds ==
    {Malformed, Limit, Untrusted, Unsupported, "unsupported_version", "none"}
        \subseteq FileErrors
  BY DEF FileErrors, Malformed, Limit, Untrusted, Unsupported

LEMMA FaultKinds ==
    ASSUME NEW answer
    PROVE  Fault(answer) \in FileErrors
  BY ThenKinds, UnlessKinds, NamedKinds DEF Fault

LEMMA SizesKinds ==
    ASSUME NEW value
    PROVE  resource_limits(value) \in FileErrors
  <1> DEFINE SizeError(i) == size_member(value[LimitNames[i]], MaxSize[LimitNames[i]])
  <1>1. ASSUME NEW i PROVE SizeError(i) \in FileErrors
    BY UnlessKinds, NamedKinds DEF size_member
  <1>2. FirstError(DOMAIN LimitNames, SizeError) \in FileErrors
    <2> HIDE DEF SizeError
    <2> QED
      BY <1>1, NamedKinds DEF FirstError
  <1> QED
    BY <1>2, ThenKinds, UnlessKinds, NamedKinds DEF resource_limits

LEMMA KeySourceKinds ==
    ASSUME NEW source, NEW keys \in [AbsolutePaths -> FileErrors]
    PROVE  KeySourceError(source, keys) \in FileErrors
  <1> DEFINE type == Member(source, "type", NotText)
             path == Member(source, "path", NotText)
             first == Unless(IsText(type), Malformed)
                 ++ Unless(type # "oidc-discovery" \/ ExactMembers(source, {"type"}, {}), Malformed)
                 ++ Unless(type = "static-jwks-file" /\ ExactMembers(source, {"type", "path"}, {}),
                           Unsupported)
  <1>1. first \in FileErrors
    BY ThenKinds, UnlessKinds, NamedKinds
  <1>2. (first ++ Unless(path \in AbsolutePaths, Untrusted)) ++ keys[path] \in FileErrors
    <2>1. CASE path \in AbsolutePaths
      BY <1>1, <2>1, ThenKinds, UnlessKinds, NamedKinds
    <2>2. CASE path \notin AbsolutePaths
      <3> HIDE DEF first, path
      <3>1. Unless(path \in AbsolutePaths, Untrusted) = "issuer_untrusted"
        BY <2>2 DEF Unless, Untrusted
      <3>2. first ++ Unless(path \in AbsolutePaths, Untrusted) # "none"
        BY <3>1 DEF ++
      <3> QED
        BY <1>1, <3>1, <3>2 DEF ++, FileErrors
    <2> QED
      BY <2>1, <2>2
  <1> QED
    BY <1>2 DEF KeySourceError

LEMMA PolicyKinds ==
    ASSUME NEW policy, NEW taken, NEW keys \in [AbsolutePaths -> FileErrors]
    PROVE  PolicyError(policy, taken, keys) \in FileErrors
  <1> DEFINE Positive(text) == Fault(whole_seconds(text, TRUE))
             Parties(list) == Unless(StringSet(list, TRUE), Malformed)
             Required(list) == Unless(PredicatesOk(list), Malformed)
             Discriminator(p) == Unless(PredicateOk(p), Malformed)
             Audit(name) == Unless(name \in PlainNames, Malformed)
  <1>1. /\ Optional(policy, "authorized_parties", Parties) \in FileErrors
        /\ Optional(policy, "required_claims", Required) \in FileErrors
        /\ Optional(policy, "environment_discriminator", Discriminator) \in FileErrors
        /\ Optional(policy, "audit_identity_claim", Audit) \in FileErrors
    BY UnlessKinds, NamedKinds DEF Optional
  <1>2. /\ Optional(policy, "maximum_credential_age", Positive) \in FileErrors
        /\ Optional(policy, "maximum_identity_lifetime", Positive) \in FileErrors
    BY FaultKinds, NamedKinds DEF Optional
  <1>3. KeySourceError(policy["key_source"], keys) \in FileErrors
    BY KeySourceKinds
  <1> QED
    BY <1>1, <1>2, <1>3, ThenKinds, UnlessKinds, NamedKinds DEF PolicyError

LEMMA PoliciesKinds ==
    ASSUME NEW trusted, NEW keys \in [AbsolutePaths -> FileErrors]
    PROVE  PoliciesError(trusted, keys) \in FileErrors
  <1> DEFINE ErrorAt(i) == PolicyError(trusted[i], {trusted[j]["policy_id"] : j \in 1..i - 1}, keys)
  <1>1. ASSUME NEW i PROVE ErrorAt(i) \in FileErrors
    BY PolicyKinds
  <1>2. FirstError(DOMAIN trusted, ErrorAt) \in FileErrors
    <2> HIDE DEF ErrorAt
    <2> QED
      BY <1>1, NamedKinds DEF FirstError
  <1> QED
    BY <1>2 DEF PoliciesError

LEMMA AccountKinds ==
    ASSUME NEW account, NEW before, NEW issuers
    PROVE  AccountError(account, before, issuers) \in FileErrors
  <1> DEFINE allow == account.policy["allow"]
             ErrorAt(j) == RuleError(allow[j], before + j, issuers)
  <1>1. ASSUME NEW j PROVE ErrorAt(j) \in FileErrors
    BY ThenKinds, UnlessKinds, NamedKinds DEF RuleError
  <1>2. FirstError(DOMAIN allow, ErrorAt) \in FileErrors
    <2> HIDE DEF ErrorAt
    <2> QED
      BY <1>1, NamedKinds DEF FirstError
  <1> QED
    BY <1>2, ThenKinds, UnlessKinds, NamedKinds DEF AccountError

LEMMA AccountsKinds ==
    ASSUME NEW accounts, NEW issuers
    PROVE  AccountsError(accounts, issuers) \in FileErrors
  <1> DEFINE Before(i) == Len(FlattenSeq([k \in 1..i - 1 |-> accounts[k].policy["allow"]]))
             ErrorAt(i) == AccountError(accounts[i], Before(i), issuers)
  <1>1. ASSUME NEW i PROVE ErrorAt(i) \in FileErrors
    BY AccountKinds
  <1>2. FirstError(DOMAIN accounts, ErrorAt) \in FileErrors
    <2> HIDE DEF ErrorAt
    <2> QED
      BY <1>1, NamedKinds DEF FirstError
  <1> QED
    BY <1>2 DEF AccountsError

LEMMA ConfigurationKinds ==
    ASSUME NEW root, NEW keys \in [AbsolutePaths -> FileErrors]
    PROVE  ConfigurationError(root, keys) \in FileErrors
  <1>1. ASSUME NEW cache PROVE CacheError(cache) \in FileErrors
    BY FaultKinds, ThenKinds, UnlessKinds, NamedKinds DEF CacheError
  <1>2. ASSUME NEW logging PROVE LoggingError(logging) \in FileErrors
    BY UnlessKinds, NamedKinds DEF LoggingError, Optional
  <1> QED
    BY <1>1, <1>2, SizesKinds, PoliciesKinds, AccountsKinds, FaultKinds, ThenKinds,
       UnlessKinds, NamedKinds DEF ConfigurationError, Optional

LEMMA ParseKinds ==
    ASSUME NEW root, NEW keys \in [AbsolutePaths -> FileErrors]
    PROVE  parse_and_validate(root, keys).error \in FileErrors
  BY ConfigurationKinds, NamedKinds DEF parse_and_validate, Failed

LEMMA OptionsKinds ==
    ASSUME NEW o
    PROVE  OptionsError(o) \in FileErrors
  <1> DEFINE DurationError(i) == Fault(canonical_duration(o[DurationOptions[i]]))
             SizeError(i) == Fault(canonical_unsigned(o[LimitNames[i]], MaxSize[LimitNames[i]]))
  <1>1. ASSUME NEW i PROVE DurationError(i) \in FileErrors /\ SizeError(i) \in FileErrors
    BY FaultKinds
  <1>2. /\ FirstError(DOMAIN DurationOptions, DurationError) \in FileErrors
        /\ FirstError(DOMAIN LimitNames, SizeError) \in FileErrors
    <2> HIDE DEF DurationError, SizeError
    <2> QED
      BY <1>1, NamedKinds DEF FirstError
  <1> QED
    BY <1>2, ThenKinds, UnlessKinds, NamedKinds DEF OptionsError

LEMMA InitializeKinds ==
    ASSUME NEW o, NEW input, input.error \in FileErrors,
           NEW keys \in [AbsolutePaths -> FileErrors]
    PROVE  initialize(o, input, keys).error \in FileErrors
  <1>1. InputError(input) \in FileErrors
    BY ThenKinds, UnlessKinds, NamedKinds DEF InputError
  <1> QED
    BY <1>1, OptionsKinds, ConfigurationKinds, ThenKinds, UnlessKinds, NamedKinds DEF initialize, Failed

-----------------------------------------------------------------------------
(* The call that runs.  Before its effect nothing was written, placed or   *)
(* logged; what was read never looks like an interruption; and a signal    *)
(* that came before the last look stopped the call there, unless it is     *)
(* the help, which does not look.                                          *)

\* What reading the files may give.
HasKinds(f) ==
    /\ DOMAIN f = {"config", "input", "keys"}
    /\ f.config.error \in FileErrors /\ f.input.error \in FileErrors
    /\ f.keys \in [AbsolutePaths -> FileErrors]

FilesInv == HasKinds(files) /\ HasKinds(edit)

CallType ==
    /\ calls \in Seq(Seq(STRING)) /\ arguments \in Seq(STRING)
    /\ stage \in {"idle", "dispatch", "work", "ready", "effect", "done"}
    /\ signal \in BOOLEAN /\ warned \in BOOLEAN /\ placed \in BOOLEAN
    /\ got.error \in FileErrors \cup {"nothing"}

Untouched == stage # "done" => written = "none" /\ ~placed /\ events = <<>>

WarnedInv ==
    /\ warned => signal
    /\ stage = "effect" /\ ~Helps => ~warned

CommandsInv == FilesInv /\ CallType /\ Untouched /\ WarnedInv /\ ReportsAreTrue

LEMMA OneCommand ==
    ASSUME arguments \in Seq(STRING), Checks
    PROVE  Understood /\ ~Helps /\ ~Inits /\ ~Renders
  <1>1. Len(arguments) = 4
    BY DEF Checks
  <1>2. arguments[2] = SubSeq(arguments, 1, 3)[2]
    BY <1>1, SubSeqProperties
  <1>3. arguments[2] = "check"
    <2>1. SubSeq(arguments, 1, 3) = <<"config", "check", "--config">>
      BY DEF Checks
    <2>2. <<"config", "check", "--config">>[2] = "check"
      OBVIOUS
    <2> QED
      BY <1>2, <2>1, <2>2, Zenon
  <1> QED
    BY <1>1, <1>3 DEF Checks, Understood, Inits, Renders

LEMMA InitHolds == Init => CommandsInv
  <1> SUFFICES ASSUME Init PROVE CommandsInv
    OBVIOUS
  <1>1. PICK s \in Scenarios : files = s.files /\ edit = s.edit /\ calls = s.calls
    BY DEF Init
  <1>2. FilesInv /\ calls \in Seq(Seq(STRING))
    BY <1>1, ScenariosAssumption DEF FilesInv, HasKinds, IsFiles
  <1>3. CallType
    <2>1. arguments \in Seq(STRING)
      BY DEF Init
    <2>2. got.error \in FileErrors \cup {"nothing"}
      BY DEF Init, Nothing
    <2> QED
      BY <1>2, <2>1, <2>2 DEF Init, CallType
  <1> QED
    BY <1>2, <1>3 DEF Init, CommandsInv, Untouched, WarnedInv, ReportsAreTrue

-----------------------------------------------------------------------------
(* One step.                                                               *)

LEMMA SameCall ==
    ASSUME arguments' = arguments
    PROVE  Helps' = Helps /\ Checks' = Checks
  BY DEF Helps, IsHelp, Checks

LEMMA EmitOne ==
    ASSUME NEW outcome, NEW reason, NEW facility, events = <<>>,
           Emit(outcome, reason, facility),
           \/ outcome = "valid" /\ reason = "none"
           \/ outcome = "invalid"
              /\ reason \notin {"none", "internal_error", "operation_cancelled"}
           \/ outcome = "error" /\ reason \in {"internal_error", "operation_cancelled"}
    PROVE  /\ Len(events') = 1 /\ events' # <<>> /\ DOMAIN events' = {1}
           /\ events'[1].outcome = outcome /\ events'[1].reason = reason
           /\ events'[1].facility = facility
  <1>1. PICK sent \in BOOLEAN :
            LET e == [outcome |-> outcome, reason |-> reason, facility |-> facility, sent |-> sent]
            IN  events' = IF Serializes(e) THEN Append(events, e) ELSE events
    BY DEF Emit
  <1> DEFINE e == [outcome |-> outcome, reason |-> reason, facility |-> facility, sent |-> sent]
  <1>2. e.outcome = outcome /\ e.reason = reason /\ e.facility = facility
    OBVIOUS
  <1> HIDE DEF e
  <1>3. Serializes(e)
    BY <1>2 DEF Serializes
  <1>4. events' = <<e>>
    BY <1>1, <1>3 DEF e
  <1> QED
    BY <1>2, <1>4

LEMMA CancelledStep ==
    ASSUME CommandsInv, stage # "done", Cancelled
    PROVE  CommandsInv'
  <1> USE DEF CommandsInv
  <1>1. /\ signal /\ signal' /\ stage' = "done" /\ diagnostic' = "operation_cancelled"
        /\ written' = "none" /\ ~placed' /\ events = <<>>
        /\ UNCHANGED <<files, edit, calls, signal, arguments, warned, got, placed>>
    BY DEF Cancelled, Exit, Untouched
  <1>2. Helps' = Helps /\ Checks' = Checks
    BY <1>1, SameCall
  <1>3. FilesInv' /\ CallType' /\ Untouched' /\ WarnedInv'
    BY <1>1 DEF FilesInv, CallType, Untouched, WarnedInv, HasKinds
  <1>4. ReportsAreTrue'
    <2>1. CASE Checks
      <3>1. Emit("error", "operation_cancelled", FacilityOf(got))
        BY <2>1 DEF Cancelled
      <3>2. /\ Len(events') = 1 /\ events' # <<>> /\ DOMAIN events' = {1}
            /\ events'[1].outcome = "error" /\ events'[1].reason = "operation_cancelled"
            /\ events'[1].facility = FacilityOf(got)
        BY <1>1, <3>1, EmitOne
      <3>3. FacilityOf(got') = FacilityOf(got)
        BY <1>1
      <3> QED
        BY <1>1, <1>2, <2>1, <3>2, <3>3 DEF ReportsAreTrue, Succeeded
    <2>2. CASE ~Checks
      <3>1. events' = <<>>
        BY <1>1, <2>2 DEF Cancelled
      <3> QED
        BY <1>1, <1>2, <2>2, <3>1 DEF ReportsAreTrue, Succeeded
    <2> QED
      BY <2>1, <2>2
  <1> QED
    BY <1>3, <1>4

\* A refusal says so, and leaves nothing behind; only an exception may
\* refuse a check.
LEMMA RefuseStep ==
    ASSUME CommandsInv, stage # "done", NEW kind, Refuse(kind),
           kind \notin {"none", "operation_cancelled"}, Checks => kind = "internal_error"
    PROVE  CommandsInv'
  <1> USE DEF CommandsInv
  <1>1. /\ stage' = "done" /\ diagnostic' = kind
        /\ written' = "none" /\ ~placed' /\ events' = <<>>
        /\ UNCHANGED <<files, edit, calls, signal, arguments, warned, got, placed>>
    BY DEF Refuse, Exit, Untouched
  <1>2. Helps' = Helps /\ Checks' = Checks
    BY <1>1, SameCall
  <1>3. FilesInv' /\ CallType' /\ Untouched' /\ WarnedInv'
    BY <1>1 DEF FilesInv, CallType, Untouched, WarnedInv, HasKinds
  <1>4. ReportsAreTrue'
    BY <1>1, <1>2 DEF ReportsAreTrue, Succeeded
  <1> QED
    BY <1>3, <1>4

LEMMA GoStep ==
    ASSUME CommandsInv, stage # "done", NEW next, Go(next), warned' = warned,
           next \in {"work", "effect"}, next = "effect" /\ ~Helps => ~warned
    PROVE  CommandsInv'
  <1> USE DEF CommandsInv
  <1>1. /\ stage' = next
        /\ UNCHANGED <<files, edit, calls, signal, arguments, warned, got, written, placed, events>>
    BY DEF Go
  <1>2. Helps' = Helps /\ Checks' = Checks
    BY <1>1, SameCall
  <1>3. FilesInv' /\ CallType'
    BY <1>1 DEF FilesInv, CallType, HasKinds
  <1>4. Untouched' /\ WarnedInv' /\ ReportsAreTrue'
    BY <1>1, <1>2 DEF Untouched, WarnedInv, ReportsAreTrue
  <1> QED
    BY <1>3, <1>4

LEMMA StartStep == CommandsInv /\ Start => CommandsInv'
  <1> SUFFICES ASSUME CommandsInv, Start PROVE CommandsInv'
    OBVIOUS
  <1> USE DEF CommandsInv
  <1>1. /\ stage' = "dispatch" /\ signal' = FALSE /\ warned' = FALSE /\ got' = Nothing
        /\ written' = "none" /\ placed' = FALSE /\ events' = <<>>
        /\ UNCHANGED <<files, edit>>
    BY DEF Start
  <1>2. arguments' \in Seq(STRING) /\ calls' \in Seq(Seq(STRING))
    <2>1. calls \in Seq(Seq(STRING)) /\ calls # <<>> /\ arguments' = Head(calls) /\ calls' = Tail(calls)
      BY DEF Start, CallType
    <2> HIDE DEF CommandsInv
    <2> QED
      BY <2>1, HeadTailProperties
  <1>3. got'.error \in FileErrors \cup {"nothing"}
    BY <1>1 DEF Nothing
  <1> QED
    BY <1>1, <1>2, <1>3 DEF FilesInv, HasKinds, CallType, Untouched, WarnedInv, ReportsAreTrue

LEMMA DispatchStep == CommandsInv /\ Dispatch => CommandsInv'
  <1> SUFFICES ASSUME CommandsInv, Dispatch PROVE CommandsInv'
    OBVIOUS
  <1>0. stage # "done" /\ arguments \in Seq(STRING)
    BY DEF Dispatch, CommandsInv, CallType
  <1>1. CASE Helps /\ Go("effect") /\ UNCHANGED warned
    BY <1>0, <1>1, GoStep
  <1>2. CASE ~Helps /\ ~Understood /\ Refuse(Malformed)
    <2>1. ~Checks
      BY <1>2 DEF Understood
    <2> QED
      BY <1>0, <1>2, <2>1, RefuseStep DEF Malformed
  <1>3. CASE Understood /\ Cancelled
    BY <1>0, <1>3, CancelledStep
  <1>4. CASE Understood /\ ~signal /\ Go("work") /\ UNCHANGED warned
    BY <1>0, <1>4, GoStep
  <1> QED
    BY <1>1, <1>2, <1>3, <1>4 DEF Dispatch

LEMMA WorkStep == CommandsInv /\ Work => CommandsInv'
  <1> SUFFICES ASSUME CommandsInv, Work PROVE CommandsInv'
    OBVIOUS
  <1> USE DEF CommandsInv
  <1>1. /\ stage = "work" /\ written = "none" /\ ~placed /\ events = <<>>
        /\ UNCHANGED <<files, edit, calls, signal, arguments, warned, written, placed, events>>
    BY DEF Work, Untouched
  <1>2. Helps' = Helps /\ Checks' = Checks
    BY <1>1, SameCall
  <1>3. got'.error \in FileErrors
    <2>1. /\ files.config.error \in FileErrors /\ files.input.error \in FileErrors
          /\ files.keys \in [AbsolutePaths -> FileErrors]
      BY DEF FilesInv, HasKinds
    <2>2. /\ Contents(files.config).error \in FileErrors
          /\ Contents(files.input).error \in FileErrors
      BY <2>1 DEF Contents, Failed, FileErrors
    <2>3. initialize(Flags.options, Contents(files.input), files.keys).error \in FileErrors
      BY <2>1, <2>2, InitializeKinds
    <2>4. Load.error \in FileErrors
      BY <2>1, <2>2, ParseKinds DEF Load, load_and_validate, Failed
    <2> QED
      BY <2>3, <2>4 DEF Work
  <1>4. \/ stage' = "ready"
        \/ /\ stage' = "done" /\ diagnostic' = got'.error /\ got'.error # "none" /\ ~Checks
    BY DEF Work, Exit
  <1>5. FilesInv' /\ CallType' /\ Untouched' /\ WarnedInv'
    BY <1>1, <1>2, <1>3, <1>4 DEF FilesInv, HasKinds, CallType, Untouched, WarnedInv
  <1>6. ReportsAreTrue'
    BY <1>1, <1>2, <1>3, <1>4 DEF ReportsAreTrue, Succeeded, FileErrors
  <1> QED
    BY <1>5, <1>6

LEMMA LookStep == CommandsInv /\ Look => CommandsInv'
  <1> SUFFICES ASSUME CommandsInv, Look PROVE CommandsInv'
    OBVIOUS
  <1>1. stage # "done"
    BY DEF Look
  <1>2. CASE Cancelled
    BY <1>1, <1>2, CancelledStep
  <1>3. CASE ~signal /\ Go("effect") /\ UNCHANGED warned
    <2>1. ~warned
      BY <1>3 DEF CommandsInv, WarnedInv
    <2> QED
      BY <1>1, <1>3, <2>1, GoStep
  <1> QED
    BY <1>2, <1>3 DEF Look

\* What is written, and by whom: a help, or what init makes, or a fragment.
LEMMA WriteStep ==
    ASSUME CommandsInv, stage = "effect", Write, ~Checks
    PROVE  CommandsInv'
  <1> USE DEF CommandsInv
  <1>1. /\ stage' = "done" /\ events' = <<>> /\ ~placed'
        /\ \/ written' = "whole" /\ diagnostic' = "none"
           \/ written' # "whole" /\ diagnostic' = "internal_error"
        /\ UNCHANGED <<files, edit, calls, signal, arguments, warned, got, placed>>
    BY DEF Write, Exit, Untouched
  <1>2. Helps' = Helps /\ Checks' = Checks
    BY <1>1, SameCall
  <1>3. FilesInv' /\ CallType' /\ Untouched' /\ WarnedInv'
    BY <1>1 DEF FilesInv, CallType, Untouched, WarnedInv, HasKinds
  <1>4. warned' => Helps'
    BY <1>1, <1>2 DEF WarnedInv
  <1> QED
    BY <1>1, <1>2, <1>3, <1>4 DEF ReportsAreTrue, Succeeded

LEMMA PublishStep ==
    ASSUME CommandsInv, stage = "effect", PublishOutcome, ~Checks
    PROVE  CommandsInv'
  <1> USE DEF CommandsInv
  <1>1. PICK error \in {"none", "state_invalid"}, entry \in BOOLEAN :
            /\ error = "none" => entry
            /\ placed' = entry
            /\ files' = IF entry
                        THEN [files EXCEPT !.config = Reread(got.document)]
                        ELSE files
            /\ stage' = "done" /\ diagnostic' = error
    BY DEF PublishOutcome, Exit
  <1>2. /\ written' = "none" /\ events' = <<>>
        /\ UNCHANGED <<edit, calls, signal, arguments, warned, got>>
    BY DEF PublishOutcome, Untouched
  <1>3. Helps' = Helps /\ Checks' = Checks
    BY <1>2, SameCall
  <1>4. FilesInv'
    <2>1. CASE entry
      <3>1. /\ DOMAIN files' = {"config", "input", "keys"}
            /\ files'.config.error \in {"none", "state_invalid"} /\ files'.input = files.input
            /\ files'.keys = files.keys
        BY <1>1, <2>1 DEF FilesInv, HasKinds, Reread, Unless
      <3> QED
        BY <1>2, <3>1 DEF FilesInv, HasKinds, FileErrors
    <2>2. CASE ~entry
      BY <1>1, <1>2, <2>2 DEF FilesInv, HasKinds
    <2> QED
      BY <2>1, <2>2
  <1>5. CallType' /\ Untouched' /\ WarnedInv'
    BY <1>1, <1>2 DEF CallType, Untouched, WarnedInv
  <1>6. warned' => Helps'
    BY <1>2, <1>3 DEF WarnedInv
  <1> QED
    BY <1>1, <1>2, <1>3, <1>4, <1>5, <1>6 DEF ReportsAreTrue, Succeeded

LEMMA FragmentStep ==
    ASSUME CommandsInv, stage = "effect", WriteFragment, ~Checks
    PROVE  CommandsInv'
  <1> DEFINE config == Spelling[arguments[4]]
             verifier == Spelling[arguments[6]]
             user == Spelling[arguments[8]]
             Good(regularConfig, regularVerifier) ==
                 Unless(validate_render_path(config), Malformed)
                 ++ Unless(regularConfig, "state_invalid")
                 ++ Unless(validate_render_path(verifier), Malformed)
                 ++ Unless(regularVerifier, "state_invalid")
                 ++ Unless(valid_command_user(user), Malformed)
  <1>1. PICK regularConfig, regularVerifier \in BOOLEAN :
            \/ /\ Good(regularConfig, regularVerifier) # "none"
               /\ Refuse(Good(regularConfig, regularVerifier))
            \/ Write
    BY DEF WriteFragment
  <1>2. Good(regularConfig, regularVerifier) \in FileErrors
    <2>1. "state_invalid" \in FileErrors
      BY DEF FileErrors
    <2> QED
      BY <2>1, ThenKinds, UnlessKinds, NamedKinds
  <1> HIDE DEF Good
  <1>3. Good(regularConfig, regularVerifier) # "operation_cancelled"
    BY <1>2 DEF FileErrors
  <1> QED
    BY <1>1, <1>3, RefuseStep, WriteStep

\* The event of a check is that of its verdict, and is always logged.
LEMMA VerdictStep ==
    ASSUME CommandsInv, stage = "effect", Verdict, Checks
    PROVE  CommandsInv'
  <1> USE DEF CommandsInv
  <1>1. PICK taken \in {"none", "part", "whole"} :
          LET outcome == IF got.error = "none" THEN IF taken = "whole" THEN "valid" ELSE "error"
                         ELSE IF got.error = "internal_error" THEN "error" ELSE "invalid"
              reason == CASE outcome = "valid" -> "none"
                          [] outcome = "error" -> "internal_error"
                          [] outcome = "invalid" -> got.error
          IN  /\ got.error # "none" => taken = "none"
              /\ written' = taken
              /\ Emit(outcome, reason, FacilityOf(got))
              /\ Exit(reason)
    BY DEF Verdict
  <1>2. /\ ~placed' /\ events = <<>>
        /\ UNCHANGED <<files, edit, calls, signal, arguments, warned, got, placed>>
    BY DEF Verdict, Untouched
  <1>3. Helps' = Helps /\ Checks' = Checks /\ FacilityOf(got)' = FacilityOf(got)
    BY <1>2, SameCall DEF FacilityOf
  <1>4. ~warned
    BY OneCommand DEF WarnedInv, CallType
  <1>5. got.error \in FileErrors \cup {"nothing"}
    BY DEF CallType
  <1>6. PICK outcome, reason :
          /\ Emit(outcome, reason, FacilityOf(got)) /\ Exit(reason)
          /\ \/ /\ outcome = "valid" /\ reason = "none" /\ got.error = "none"
                /\ written' = "whole"
             \/ /\ outcome = "error" /\ reason = "internal_error"
                /\ written' # "whole" /\ (got.error # "none" => written' = "none")
             \/ /\ outcome = "invalid" /\ reason = got.error /\ written' = "none"
                /\ reason \notin {"none", "internal_error", "operation_cancelled"}
    <2>1. CASE got.error = "none" /\ taken = "whole"
      BY <1>1, <2>1
    <2>2. CASE got.error = "none" /\ taken # "whole"
      BY <1>1, <2>2
    <2>3. CASE got.error = "internal_error"
      BY <1>1, <2>3
    <2>4. CASE got.error \notin {"none", "internal_error"}
      <3>1. got.error # "operation_cancelled"
        BY <1>5 DEF FileErrors
      <3> QED
        BY <1>1, <2>4, <3>1
    <2> QED
      BY <2>1, <2>2, <2>3, <2>4
  <1>7. stage' = "done" /\ diagnostic' = reason
    BY <1>6 DEF Exit
  <1>8. /\ Len(events') = 1 /\ events' # <<>> /\ DOMAIN events' = {1}
        /\ events'[1].outcome = outcome /\ events'[1].reason = reason
        /\ events'[1].facility = FacilityOf(got)
    BY <1>2, <1>6, EmitOne
  <1>9. FilesInv' /\ CallType' /\ Untouched' /\ WarnedInv'
    BY <1>2, <1>7 DEF FilesInv, CallType, Untouched, WarnedInv, HasKinds
  <1>10. ReportsAreTrue'
    BY <1>2, <1>3, <1>4, <1>6, <1>7, <1>8 DEF ReportsAreTrue, Succeeded
  <1> QED
    BY <1>9, <1>10

LEMMA EffectStep == CommandsInv /\ Effect => CommandsInv'
  <1> SUFFICES ASSUME CommandsInv, Effect PROVE CommandsInv'
    OBVIOUS
  <1>1. stage = "effect" /\ arguments \in Seq(STRING)
    BY DEF Effect, CommandsInv, CallType
  <1>2. CASE (Helps \/ (Inits /\ ~Publishes)) /\ Write
    BY <1>1, <1>2, OneCommand, WriteStep
  <1>3. CASE (Inits /\ Publishes) /\ PublishOutcome
    BY <1>1, <1>3, OneCommand, PublishStep
  <1>4. CASE Renders /\ WriteFragment
    BY <1>1, <1>4, OneCommand, FragmentStep
  <1>5. CASE Checks /\ Verdict
    BY <1>1, <1>5, VerdictStep
  <1> QED
    BY <1>2, <1>3, <1>4, <1>5 DEF Effect

LEMMA AroundStep == CommandsInv /\ (Throw \/ Signal \/ Edit \/ UNCHANGED vars) => CommandsInv'
  <1> SUFFICES ASSUME CommandsInv, Throw \/ Signal \/ Edit \/ UNCHANGED vars
               PROVE  CommandsInv'
    OBVIOUS
  <1>1. CASE Throw
    BY <1>1, RefuseStep DEF Throw
  <1>2. CASE Signal
    <2>1. /\ stage' = stage /\ stage # "done" /\ signal' = TRUE /\ warned' = (stage # "effect")
          /\ UNCHANGED <<files, edit, calls, arguments, got, written, placed, events>>
      BY <1>2 DEF Signal
    <2>2. FilesInv' /\ CallType' /\ Untouched'
      BY <2>1 DEF CommandsInv, FilesInv, HasKinds, CallType, Untouched
    <2>3. WarnedInv' /\ ReportsAreTrue'
      BY <2>1 DEF WarnedInv, ReportsAreTrue
    <2> QED
      BY <2>2, <2>3 DEF CommandsInv
  <1>3. CASE Edit
    <2>1. /\ files' = edit /\ edit' = edit
          /\ UNCHANGED <<calls, stage, signal, arguments, warned, got, written, placed,
                         events, diagnostic>>
      BY <1>3 DEF Edit, call
    <2>2. Helps' = Helps /\ Checks' = Checks
      BY <2>1, SameCall
    <2>3. FilesInv' /\ CallType' /\ Untouched'
      BY <2>1 DEF CommandsInv, FilesInv, HasKinds, CallType, Untouched
    <2>4. WarnedInv' /\ ReportsAreTrue'
      BY <2>1, <2>2 DEF CommandsInv, WarnedInv, ReportsAreTrue, Succeeded, FacilityOf
    <2> QED
      BY <2>3, <2>4 DEF CommandsInv
  <1>4. CASE UNCHANGED vars
    <2>1. UNCHANGED <<files, edit, calls, stage, signal, arguments, warned, got, written,
                      placed, events, diagnostic>>
      BY <1>4 DEF vars, call
    <2>2. Helps' = Helps /\ Checks' = Checks
      BY <2>1, SameCall
    <2>3. FilesInv' /\ CallType' /\ Untouched'
      BY <2>1 DEF CommandsInv, FilesInv, HasKinds, CallType, Untouched
    <2>4. WarnedInv' /\ ReportsAreTrue'
      BY <2>1, <2>2 DEF CommandsInv, WarnedInv, ReportsAreTrue, Succeeded, FacilityOf
    <2> QED
      BY <2>3, <2>4 DEF CommandsInv
  <1> QED
    BY <1>1, <1>2, <1>3, <1>4

\* Exit status, output, placed file and audit event of a call agree, and a
\* signal that came before the last look left no effect (run_dispatch).
THEOREM ReportsTrue == Spec => []ReportsAreTrue
  <1>1. Init => CommandsInv
    BY InitHolds
  <1>2. CommandsInv /\ [Next]_vars => CommandsInv'
    BY StartStep, DispatchStep, WorkStep, LookStep, EffectStep, AroundStep DEF Next
  <1>3. CommandsInv => ReportsAreTrue
    BY DEF CommandsInv
  <1> QED
    BY <1>1, <1>2, <1>3, PTL DEF Spec

-----------------------------------------------------------------------------
(* What the parser accepts.  No policy of it is one that validate_policy   *)
(* would refuse for every token.                                           *)

LEMMA ListNonempty ==
    ASSUME NEW v, IsList(v), v # <<>>
    PROVE  ToSet(v) # {}
  <1>1. v \in Seq(ToSet(v)) /\ DOMAIN v = 1..Len(v)
    BY Listing
  <1> DEFINE S == ToSet(v)
  <1>2. v \in Seq(S)
    BY <1>1
  <1> HIDE DEF S
  <1>3. Len(v) # 0 /\ Len(v) \in Nat
    BY <1>2
  <1>4. v[1] \in ToSet(v)
    BY <1>1, <1>3 DEF ToSet
  <1> QED
    BY <1>4

\* A predicate that was checked is one that validate_policy takes.
LEMMA PredicateAccepted ==
    ASSUME NEW p, IsPredicate(p), PredicateOk(p)
    PROVE  Validator!PredicateValid(Predicate(p))
  <1> DEFINE q == Predicate(p)
  <1>1. /\ q.value = Member(p, "value", "") /\ q.values = ToSet(Member(p, "values", <<>>))
        /\ q.operation = CASE p["op"] = "equals" -> "string_equals"
                           [] p["op"] = "contains" -> "string_array_contains"
                           [] p["op"] = "one-of" -> "string_one_of"
    BY DEF Predicate
  <1>2. ToSet(<<>>) = {}
    BY DEF ToSet
  <1> HIDE DEF q
  <1>3. CASE /\ <<p["type"], p["op"]>> \in {<<"string", "equals">>, <<"string-array", "contains">>}
             /\ ExactMembers(p, PredicateMembers \cup {"value"}, {})
    <2>1. "values" \notin DOMAIN p
      BY <1>3 DEF ExactMembers, PredicateMembers
    <2>2. q.values = {}
      BY <1>1, <1>2, <2>1 DEF Member
    <2>3. p["op"] = "equals" \/ p["op"] = "contains"
      BY <1>3
    <2>4. q.operation # "string_one_of"
      BY <1>1, <2>3
    <2> QED
      BY <2>2, <2>4 DEF q, Validator!PredicateValid
  <1>4. CASE /\ <<p["type"], p["op"]>> = <<"string", "one-of">>
             /\ ExactMembers(p, PredicateMembers \cup {"values"}, {})
             /\ StringSet(p["values"], TRUE)
    <2>1. "values" \in DOMAIN p /\ "value" \notin DOMAIN p
      BY <1>4 DEF ExactMembers, PredicateMembers
    <2>2. IsList(p["values"]) /\ p["values"] # <<>>
      BY <1>4, <2>1 DEF IsPredicate, May, StringSet
    <2>3. q.values # {} /\ q.value = ""
      BY <1>1, <2>1, <2>2, ListNonempty DEF Member
    <2>4. p["op"] = "one-of"
      BY <1>4
    <2>5. q.operation = "string_one_of"
      BY <1>1, <2>4
    <2> QED
      BY <2>3, <2>5 DEF q, Validator!PredicateValid
  <1> QED
    BY <1>3, <1>4 DEF PredicateOk

\* What validate_policy asks of a policy, whatever the token.
ValidFields(p) ==
    /\ p["audiences"] # {} /\ p["evidence"] # {} /\ p["bindings"] # {}
    /\ p["evidence"] \subseteq {"standard", "gq"}
    /\ p["bindings"] \subseteq {"oidc-nonce", "audience", "credbind-claim"}
    /\ p["skew"] >= 0 /\ p["maxAge"] >= 0
    /\ \A q \in p["required"] : Validator!PredicateValid(q)

LEMMA ValidIsUsable ==
    ASSUME NEW p, ValidFields(p)
    PROVE  Usable(p)
  <1> SUFFICES ASSUME NEW e \in p.evidence \ (IF p.gqOnly THEN {"standard"} ELSE {}),
                      NEW b \in p.bindings
               PROVE  Validator!FirstError(Validator!PolicyChecks([evidence |-> e, binding |-> b], p)) = "none"
    BY DEF Usable
  <1> DEFINE checks == Validator!PolicyChecks([evidence |-> e, binding |-> b], p)
  <1>1. DOMAIN checks = 1..4
    BY DEF Validator!PolicyChecks
  <1>2. checks[1].holds /\ checks[2].holds /\ checks[3].holds /\ checks[4].holds
    BY DEF ValidFields, Validator!PolicyChecks, Validator!Check, Validator!Evidence, Validator!Profiles
  <1> HIDE DEF checks
  <1>3. \A i \in DOMAIN checks : checks[i].holds
    <2>1. \A i \in 1..4 : i = 1 \/ i = 2 \/ i = 3 \/ i = 4
      OBVIOUS
    <2> QED
      BY <1>1, <1>2, <2>1
  <1>4. Validator!FirstError(checks) = "none"
    BY <1>3 DEF Validator!FirstError
  <1> QED
    BY <1>4 DEF checks

\* A policy that was checked is one that validate_policy takes.
LEMMA PolicyIsValid ==
    ASSUME NEW value, NEW taken, NEW keys, NEW skew \in Nat,
           IsPolicy(value), PolicyIsChecked(value, taken, keys)
    PROVE  ValidFields(Policy(value, skew))
  <1> DEFINE P == Policy(value, skew)
             Set(name) == ToSet(Member(value, name, <<>>))
             SecondsOr0(name) == IF name \in DOMAIN value THEN whole_seconds(value[name], TRUE).value ELSE 0
  <1>1. /\ P["audiences"] = Set("audiences") /\ P["evidence"] = Set("evidence_profiles")
        /\ P["bindings"] = Set("binding_profiles") /\ P["skew"] = skew
        /\ P["maxAge"] = SecondsOr0("maximum_credential_age")
    BY DEF Policy
  <1>2. {"audiences", "evidence_profiles", "binding_profiles"} \subseteq DOMAIN value
    <2>1. ToSet(Lists) \subseteq DOMAIN value
      BY DEF PolicyIsChecked, ExactMembers, PolicyMembers
    <2> QED
      BY <2>1, ListsAre
  <1>3. ASSUME NEW i \in DOMAIN Lists PROVE Set(Lists[i]) # {} /\ Set(Lists[i]) = ToSet(value[Lists[i]])
    <2>1. Lists[i] \in DOMAIN value
      BY DEF PolicyIsChecked, ExactMembers, PolicyMembers, ToSet
    <2>2. IsList(value[Lists[i]]) /\ value[Lists[i]] # <<>>
      BY <2>1 DEF IsPolicy, May, PolicyIsChecked, StringSet
    <2> QED
      BY <2>1, <2>2, ListNonempty DEF Member
  <1>4. /\ 1 \in DOMAIN Lists /\ 4 \in DOMAIN Lists /\ 5 \in DOMAIN Lists
        /\ Lists[1] = "audiences" /\ Lists[4] = "evidence_profiles" /\ Lists[5] = "binding_profiles"
    BY ListsAre
  <1>5. /\ Set("audiences") # {} /\ Set("evidence_profiles") # {} /\ Set("binding_profiles") # {}
        /\ Set("evidence_profiles") = ToSet(value["evidence_profiles"])
        /\ Set("binding_profiles") = ToSet(value["binding_profiles"])
    <2> HIDE DEF Set
    <2> QED
      BY <1>3, <1>4
  <1>6. /\ ToSet(value["evidence_profiles"]) \subseteq {"standard", "gq"}
        /\ ToSet(value["binding_profiles"]) \subseteq {"oidc-nonce", "audience", "credbind-claim"}
    BY DEF PolicyIsChecked, Supported
  <1>7. SecondsOr0("maximum_credential_age") >= 0
    <2>1. CASE "maximum_credential_age" \notin DOMAIN value
      BY <2>1
    <2>2. CASE "maximum_credential_age" \in DOMAIN value
      <3>1. value["maximum_credential_age"] \in Seq(STRING)
            /\ Fault(whole_seconds(value["maximum_credential_age"], TRUE)) = "none"
        BY <2>2 DEF IsPolicy, May, IsDuration, PolicyIsChecked
      <3>2. whole_seconds(value["maximum_credential_age"], TRUE).value \in 0..MaxI64
        BY <3>1, NotFaulty
      <3>3. \A n \in 0..MaxI64 : n >= 0
        BY SignedIsSmaller
      <3>4. whole_seconds(value["maximum_credential_age"], TRUE).value >= 0
        BY <3>2, <3>3
      <3> QED
        BY <2>2, <3>4
    <2> QED
      BY <2>1, <2>2
  <1>8. ASSUME NEW q \in P["required"] PROVE Validator!PredicateValid(q)
    <2>1. q \in Predicates(Member(value, "required_claims", <<>>)) \cup
               {Predicate(p) : p \in {value[n] : n \in {"environment_discriminator"} \cap DOMAIN value}}
      BY PolicyFields DEF RequiredOf
    <2>2. CASE q \in Predicates(Member(value, "required_claims", <<>>))
      <3>1. PICK i \in DOMAIN Member(value, "required_claims", <<>>) :
                q = Predicate(Member(value, "required_claims", <<>>)[i])
        BY <2>2 DEF Predicates
      <3>2. "required_claims" \in DOMAIN value
        <4>1. DOMAIN <<>> = {}
          OBVIOUS
        <4> QED
          BY <3>1, <4>1 DEF Member
      <3>3. Member(value, "required_claims", <<>>) = value["required_claims"]
        BY <3>2 DEF Member
      <3>4. IsPredicates(value["required_claims"]) /\ PredicatesOk(value["required_claims"])
        BY <3>2 DEF IsPolicy, May, PolicyIsChecked
      <3>5. i \in DOMAIN value["required_claims"] /\ q = Predicate(value["required_claims"][i])
        BY <3>1, <3>3
      <3>6. IsPredicate(value["required_claims"][i]) /\ PredicateOk(value["required_claims"][i])
        BY <3>4, <3>5 DEF IsPredicates, IsListOf, PredicatesOk
      <3> QED
        BY <3>5, <3>6, PredicateAccepted
    <2>3. CASE q \in {Predicate(p) : p \in {value[n] : n \in {"environment_discriminator"} \cap DOMAIN value}}
      <3>1. "environment_discriminator" \in DOMAIN value /\ q = Predicate(value["environment_discriminator"])
        BY <2>3
      <3>2. IsPredicate(value["environment_discriminator"]) /\ PredicateOk(value["environment_discriminator"])
        BY <3>1 DEF IsPolicy, May, PolicyIsChecked
      <3> QED
        BY <3>1, <3>2, PredicateAccepted
    <2> QED
      BY <2>1, <2>2, <2>3
  <1>9. skew >= 0
    OBVIOUS
  <1> HIDE DEF P, Set, SecondsOr0
  <1>10. ValidFields(P)
    BY <1>1, <1>5, <1>6, <1>7, <1>8, <1>9 DEF ValidFields
  <1> QED
    BY <1>10 DEF P

\* An accepted configuration is sound, and each policy of it can be met.
LEMMA ParsedIsSound ==
    ASSUME NEW root, NEW keys, IsDocument(root), parse_and_validate(root, keys).error = "none"
    PROVE  LET c == parse_and_validate(root, keys)
           IN  IsSound(c) /\ \A p \in ToSet(c.trusted) : Usable(p)
  <1> DEFINE trusted == root["trusted_issuers"]
             n == Len(trusted)
             c == BuiltFrom(root)
             skew == SkewOf(root)
  <1>1. ConfigurationError(root, keys) = "none" /\ parse_and_validate(root, keys) = c
    BY Parsed
  <1>2. IsSound(parse_and_validate(root, keys))
    BY ParsedSound
  <1>3. DOMAIN c.trusted = 1..n
    <2>1. c.trusted = [i \in 1..n |-> Admitted(PoliciesOf(root)[i],
                                               ClaimsFor(Rules(root["accounts"]), 1..Len(Rules(root["accounts"])),
                                                         PoliciesOf(root)[i].issuer))]
      BY <1>1, BuiltPolicies
    <2> HIDE DEF c, n
    <2> QED
      BY <2>1
  <1>4. skew \in Nat
    <2>1. root["clock_skew"] \in Seq(STRING) /\ Fault(whole_seconds(root["clock_skew"], FALSE)) = "none"
      BY <1>1, DocumentParts DEF ConfigurationIsChecked
    <2>2. whole_seconds(root["clock_skew"], FALSE).value \in 0..MaxI64
      BY <2>1, NotFaulty
    <2>3. \A k \in 0..MaxI64 : k \in Nat
      BY SignedIsSmaller
    <2> QED
      BY <2>2, <2>3 DEF SkewOf
  <1>5. ASSUME NEW i \in 1..n PROVE Usable(c.trusted[i])
    <2> DEFINE P == Policy(trusted[i], skew)
               p == c.trusted[i]
    <2>1. /\ IsPolicy(trusted[i])
          /\ PolicyIsChecked(trusted[i], {trusted[j]["policy_id"] : j \in 1..i - 1}, keys)
      BY <1>1, DocumentParts
    <2>2. ValidFields(P)
      BY <1>4, <2>1, PolicyIsValid
    <2>3. \A f \in PolicyFieldNames : f # "admitted" => p[f] = P[f]
      BY <1>1, PolicyOfDocument
    <2>4. \A f \in {"audiences", "evidence", "bindings", "skew", "maxAge", "required"} :
             f \in PolicyFieldNames /\ f # "admitted"
      BY DEF PolicyFieldNames
    <2> HIDE DEF P, p
    <2>5. /\ p["audiences"] = P["audiences"] /\ p["evidence"] = P["evidence"]
          /\ p["bindings"] = P["bindings"] /\ p["skew"] = P["skew"] /\ p["maxAge"] = P["maxAge"]
          /\ p["required"] = P["required"]
      BY <2>3, <2>4
    <2>6. ValidFields(p)
      BY <2>2, <2>5 DEF ValidFields
    <2>7. Usable(p)
      BY <2>6, ValidIsUsable
    <2> QED
      BY <2>7 DEF p
  <1>6. \A p \in ToSet(c.trusted) : Usable(p)
    <2> HIDE DEF c, n
    <2> QED
      BY <1>3, <1>5 DEF ToSet
  <1> HIDE DEF c
  <1> QED
    BY <1>1, <1>2, <1>6

-----------------------------------------------------------------------------
(* What config init makes.  Its document is accepted while the keys are as *)
(* they were, and it means what was asked for.                             *)

MeansWhatWasAsked(m) ==
    /\ parse_and_validate(m.document, m.keys).error = "none"
    /\ parse_and_validate(m.document, m.keys) = parse_and_validate(Asked(m), m.keys)

LEMMA MadeMeans ==
    ASSUME NEW o, NEW file, NEW keys, TextOptions(o), file.error = "none" => IsDocument(file.document),
           initialize(o, Contents(file), keys).error = "none"
    PROVE  LET document == initialize(o, Contents(file), keys).document
           IN  /\ IsDocument(document)
               /\ MeansWhatWasAsked([document |-> document, options |-> o, input |-> file, keys |-> keys])
  <1> DEFINE input == Contents(file)
             document == initialize(o, input, keys).document
             m == [document |-> document, options |-> o, input |-> file, keys |-> keys]
             sizes == [n \in ToSet(LimitNames) |-> canonical_unsigned(o[n], MaxSize[n]).value]
             numerals == [n \in ToSet(LimitNames) |-> Numeral(o[n])]
             root == Document(o, TrustedOf(o, file), AccountsOf(o, file))
  <1>1. input.error = "none" => input = file
    <2>1. Failed("state_invalid").error = "state_invalid"
      BY DEF Failed
    <2> QED
      BY <2>1 DEF Contents
  <1>2. /\ document = Document(o, TrustedOf(o, input), AccountsOf(o, input))
        /\ IsDocument(document) /\ parse_and_validate(document, keys).error = "none"
        /\ \A n \in ToSet(LimitNames) : canonical_unsigned(o[n], MaxSize[n]).value = Numeral(o[n])
        /\ ~o.deny_all => input.error = "none"
    <2>1. input.error = "none" => IsDocument(input.document)
      BY <1>1
    <2>2. initialize(o, input, keys).error = "none"
      OBVIOUS
    <2> HIDE DEF input, m, sizes, numerals, root
    <2> QED
      BY <2>1, <2>2, InitializedMeans
  <1>3. document = root
    <2>1. TrustedOf(o, input) = TrustedOf(o, file) /\ AccountsOf(o, input) = AccountsOf(o, file)
      BY <1>1, <1>2 DEF TrustedOf, AccountsOf
    <2> QED
      BY <1>2, <2>1, Zenon
  <1>4. sizes = numerals
    BY <1>2
  <1>5. root = [root EXCEPT !.resource_limits = sizes]
    BY DEF Document
  <1>6. Asked(m) = [root EXCEPT !.resource_limits = numerals]
    BY DEF Asked, TrustedOf, AccountsOf
  <1> HIDE DEF root, sizes, numerals
  <1>7. Asked(m) = root
    BY <1>4, <1>5, <1>6, Zenon
  <1>8. m.document = document /\ m.keys = keys
    OBVIOUS
  <1> HIDE DEF m, document
  <1>9. MeansWhatWasAsked(m)
    BY <1>2, <1>3, <1>7, <1>8, Zenon DEF MeansWhatWasAsked
  <1> QED
    BY <1>2, <1>9 DEF m, document, input

-----------------------------------------------------------------------------
(* The flags.  The options that initialize reads as numbers and durations  *)
(* keep their defaults or hold the spelling of the word after their flag.  *)

TakeWord(s, word) == IF s.awaits # "" THEN TakeValue(s, word) ELSE TakeFlag(s, word)
FlagWords == SubSeq(arguments, 3, Len(arguments))

\* The flags are the end of a row of the words after the command.
FlagsBy(n, T) ==
    [p \in T \X (1..n) |-> TakeWord(p[1], FlagWords[p[2]])]

LEMMA FlagsRow ==
    ASSUME NEW n \in Nat, DOMAIN FlagWords = 1..n, NEW T, NoFlags \in T,
           \A r \in T, i \in 1..n : TakeWord(r, FlagWords[i]) \in T
    PROVE  \E h : Row(h, n, T, NoFlags, FlagsBy(n, T)) /\ Flags = h[n]
  <1> DEFINE base == NoFlags
             H == FlagsBy(n, T)
             Body(g) == [s \in SUBSET (1..n) |->
                           IF s = {} THEN base ELSE TakeWord(g[s \ {Max(s)}], FlagWords[Max(s)])]
             iter == CHOOSE g : g = Body(g)
  <1>1. Flags = iter[1..n]
    BY DEF Flags, FlagWords, FoldLeft, MapThenFoldSet, TakeWord
  <1>2. H \in [T \X (1..n) -> T] /\ base \in T
    BY DEF FlagsBy
  <1>3. iter = Body(iter)
    <2>1. PICK g : Iterates(g, n, T, base, H)
      <3> HIDE DEF H, base
      <3> QED
        BY <1>2, IterExists
    <2>2. ASSUME NEW s \in SUBSET (1..n)
          PROVE  g[s] = IF s = {} THEN base ELSE TakeWord(g[s \ {Max(s)}], FlagWords[Max(s)])
      <3>1. s # {} => Max(s) \in 1..n /\ g[s \ {Max(s)}] \in T
        BY <2>1, LastExists DEF Iterates
      <3> QED
        BY <2>1, <3>1 DEF Iterates, FlagsBy
    <2>3. g = Body(g)
      BY <2>1, <2>2 DEF Iterates
    <2> HIDE DEF Body
    <2> QED
      BY <2>3
  <1>4. Follows(iter, n, T, base, H)
    <2> HIDE DEF iter
    <2>1. iter[{}] = base
      BY <1>3
    <2>2. \A s \in SUBSET (1..n) : s # {} /\ iter[s \ {Max(s)}] \in T =>
             iter[s] = H[<<iter[s \ {Max(s)}], Max(s)>>]
      <3> TAKE s \in SUBSET (1..n)
      <3> HAVE s # {} /\ iter[s \ {Max(s)}] \in T
      <3>1. Max(s) \in 1..n
        BY LastExists
      <3> QED
        BY <1>3, <3>1 DEF FlagsBy
    <2> QED
      BY <1>2, <2>1, <2>2 DEF Follows
  <1> HIDE DEF iter, H, base
  <1>5. \E h : Row(h, n, T, base, H) /\ h[n] = iter[1..n]
    BY <1>4, IterRow
  <1> QED
    BY <1>1, <1>5 DEF H, base

\* The states of the loop, for words of a set.
OptionValues(W) == {DefaultOptions[d] : d \in DOMAIN DefaultOptions} \cup W \cup {Spelling[w] : w \in W} \cup {TRUE}
FlagStates(W) ==
    [ok : BOOLEAN, seen : SUBSET W, awaits : {""} \cup (W \cap Valued), force : BOOLEAN,
     output : {<<>>} \cup {<<w>> : w \in W}, options : [DOMAIN DefaultOptions -> OptionValues(W)]]

\* What a word may change.
Awaiting(s, flag) == [s EXCEPT !.awaits = flag]
Seeing(s, word) == [s EXCEPT !.seen = @ \cup {word}]
NotOk(s) == [s EXCEPT !.ok = FALSE]
Forced(s) == [s EXCEPT !.force = TRUE]
OutputTo(s, word) == [s EXCEPT !.output = <<word>>]
OptionIs(s, name, value) == [s EXCEPT !.options[name] = value]

\* What is left of a state when one of its fields has changed.
IsOf(s, t, W) == t \in FlagStates(W) /\ t.awaits = s.awaits
SameOptions(s, t, W) == IsOf(s, t, W) /\ t.options = s.options
Awaits(s, t, flag, W) == t \in FlagStates(W) /\ t.awaits = flag /\ t.options = s.options
OneOption(s, t, name, value, W) ==
    /\ IsOf(s, t, W) /\ t.options[name] = value
    /\ \A d \in DOMAIN DefaultOptions : d # name => t.options[d] = s.options[d]

LEMMA OptionSet ==
    ASSUME NEW W, NEW s \in FlagStates(W), NEW name \in DOMAIN DefaultOptions, NEW value \in OptionValues(W)
    PROVE  OneOption(s, OptionIs(s, name, value), name, value, W)
  <1> DEFINE options == s.options
             t == [options EXCEPT ![name] = value]
  <1>1. OptionIs(s, name, value) = [s EXCEPT !.options = t]
    BY DEF OptionIs
  <1>2. options \in [DOMAIN DefaultOptions -> OptionValues(W)]
    BY DEF FlagStates
  <1>3. /\ t \in [DOMAIN DefaultOptions -> OptionValues(W)] /\ t[name] = value
        /\ \A d \in DOMAIN DefaultOptions : d # name => t[d] = options[d]
    <2> HIDE DEF options
    <2> QED
      BY <1>2
  <1> HIDE DEF t
  <1>4. /\ [s EXCEPT !.options = t] \in FlagStates(W)
        /\ [s EXCEPT !.options = t].awaits = s.awaits /\ [s EXCEPT !.options = t].options = t
    BY <1>3 DEF FlagStates
  <1> QED
    BY <1>1, <1>3, <1>4 DEF OneOption, IsOf

LEMMA AwaitsSet ==
    ASSUME NEW W, NEW s \in FlagStates(W), NEW flag, flag = "" \/ (flag \in W /\ flag \in Valued)
    PROVE  Awaits(s, Awaiting(s, flag), flag, W)
  BY DEF Awaiting, FlagStates, Awaits

LEMMA OthersSet ==
    ASSUME NEW W, NEW s \in FlagStates(W), NEW word \in W
    PROVE  /\ SameOptions(s, Seeing(s, word), W)
           /\ SameOptions(s, NotOk(s), W)
           /\ SameOptions(s, Forced(s), W)
  BY DEF Seeing, NotOk, Forced, FlagStates, SameOptions, IsOf

LEMMA OutputChanged ==
    ASSUME NEW Seen, NEW Flag, NEW Output, NEW Held,
           NEW s \in [ok : BOOLEAN, seen : Seen, awaits : Flag, force : BOOLEAN, output : Output, options : Held],
           NEW new \in Output
    PROVE  LET t == [s EXCEPT !.output = new]
           IN  /\ t \in [ok : BOOLEAN, seen : Seen, awaits : Flag, force : BOOLEAN, output : Output, options : Held]
               /\ t.awaits = s.awaits /\ t.options = s.options
  OBVIOUS

LEMMA OutputSet ==
    ASSUME NEW W, NEW s \in FlagStates(W), NEW word \in W
    PROVE  SameOptions(s, OutputTo(s, word), W)
  <1>1. \E w \in W : <<word>> = <<w>>
    OBVIOUS
  <1> DEFINE outputs == {<<>>} \cup {<<w>> : w \in W}
             new == <<word>>
             seen == SUBSET W
             flags == {""} \cup (W \cap Valued)
             held == [DOMAIN DefaultOptions -> OptionValues(W)]
  <1>2. new \in outputs
    BY <1>1
  <1>3. OutputTo(s, word) = [s EXCEPT !.output = new]
    BY DEF OutputTo
  <1>4. FlagStates(W) = [ok : BOOLEAN, seen : seen, awaits : flags, force : BOOLEAN, output : outputs,
                         options : held]
    BY DEF FlagStates
  <1> HIDE DEF new, outputs, seen, flags, held
  <1>5. s \in [ok : BOOLEAN, seen : seen, awaits : flags, force : BOOLEAN, output : outputs, options : held]
    BY <1>4, Zenon
  <1> DEFINE t == [s EXCEPT !.output = new]
  <1>6. /\ t \in [ok : BOOLEAN, seen : seen, awaits : flags, force : BOOLEAN, output : outputs,
                  options : held]
        /\ t.awaits = s.awaits /\ t.options = s.options
    BY <1>2, <1>5, OutputChanged
  <1> HIDE DEF t
  <1>7. SameOptions(s, t, W)
    BY <1>4, <1>6, Zenon DEF SameOptions, IsOf
  <1> QED
    BY <1>3, <1>7, Zenon DEF t

\* The options that are read as texts hold texts.
TextsHeld(options) == \A name \in {OptionOf[flag] : flag \in DOMAIN OptionOf} : options[name] \in Seq(STRING)

LEMMA FlagNames ==
    /\ DOMAIN OptionOf \cap DOMAIN NameOf = {} /\ "" \notin Valued
    /\ {"--output", "--deny-all", "--force"} \cap (DOMAIN OptionOf \cup DOMAIN NameOf) = {}
    /\ \A f \in DOMAIN OptionOf : OptionOf[f] \in DOMAIN DefaultOptions
    /\ \A f \in DOMAIN NameOf : NameOf[f] \in DOMAIN DefaultOptions
    /\ "deny_all" \in DOMAIN DefaultOptions
    /\ \A f \in DOMAIN OptionOf, g \in DOMAIN NameOf : OptionOf[f] # NameOf[g]
    /\ \A f \in DOMAIN OptionOf : OptionOf[f] # "deny_all"
  <1>1. /\ DOMAIN OptionOf \cap DOMAIN NameOf = {} /\ "" \notin Valued
        /\ {"--output", "--deny-all", "--force"} \cap (DOMAIN OptionOf \cup DOMAIN NameOf) = {}
    BY DEF OptionOf, NameOf, Valued
  <1>2. /\ \A f \in DOMAIN OptionOf : OptionOf[f] \in Range(OptionOf)
        /\ \A f \in DOMAIN NameOf : NameOf[f] \in Range(NameOf)
    BY DEF Range
  <1>3. /\ \A f \in DOMAIN OptionOf :
             OptionOf[f] \in {"clock_skew", "total_verification_deadline", "max_token_bytes",
                              "max_evidence_bytes", "max_ssh_certificate_bytes", "max_offered_key_chars",
                              "max_authorized_keys_output_chars", "maximum_freshness"}
        /\ \A g \in DOMAIN NameOf : NameOf[g] \in {"policy_input", "directory", "facility"}
    BY DEF OptionOf, NameOf
  <1>4. /\ \A f \in DOMAIN OptionOf, g \in DOMAIN NameOf : OptionOf[f] # NameOf[g]
        /\ \A f \in DOMAIN OptionOf : OptionOf[f] # "deny_all"
    BY <1>3
  <1> QED
    BY <1>1, <1>2, <1>4, OptionsAssumption

LEMMA DefaultsHeld ==
    /\ DefaultOptions \in [DOMAIN DefaultOptions -> {DefaultOptions[d] : d \in DOMAIN DefaultOptions}]
    /\ TextsHeld(DefaultOptions)
  <1>1. \A f \in DOMAIN OptionOf : OptionOf[f] \in Range(OptionOf)
    BY DEF Range
  <1>2. TextsHeld(DefaultOptions)
    BY <1>1, OptionsAssumption DEF TextsHeld
  <1>3. DefaultOptions = [d \in DOMAIN DefaultOptions |-> DefaultOptions[d]]
    BY OptionsAssumption DEF IsObject
  <1> QED
    BY <1>2, <1>3

\* A state that a word may lead to.
After(s, word, t, W) ==
    /\ t \in FlagStates(W)
    /\ t.awaits \in {"", word}
    /\ TextsHeld(s.options) /\ (s.awaits \in DOMAIN OptionOf => word \in DOMAIN Spelling)
         => TextsHeld(t.options)

LEMMA ValueTaken ==
    ASSUME NEW W, NEW s \in FlagStates(W), NEW word \in W, s.awaits # ""
    PROVE  After(s, word, TakeValue(s, word), W)
  <1> DEFINE t == Awaiting(s, "")
             u == TakeValue(s, word)
  <1>1. t \in FlagStates(W) /\ t.awaits = "" /\ t.options = s.options
    BY AwaitsSet DEF Awaits
  <1>2. s.awaits \in DOMAIN OptionOf \cup DOMAIN NameOf \cup {"--output"}
    BY DEF FlagStates, Valued
  <1>3. word \in OptionValues(W) /\ Spelling[word] \in OptionValues(W)
    <2>1. \E w \in W : Spelling[word] = Spelling[w]
      OBVIOUS
    <2> QED
      BY <2>1 DEF OptionValues
  <1> SUFFICES After(s, word, u, W)
    OBVIOUS
  <1>4. CASE s.awaits = "--output"
    <2>1. s.awaits \notin DOMAIN OptionOf /\ s.awaits \notin DOMAIN NameOf
      BY <1>4, FlagNames
    <2>2. u = OutputTo(t, word)
      BY <1>4, <2>1 DEF TakeValue, OutputTo, Awaiting
    <2> HIDE DEF t, u
    <2>3. SameOptions(t, u, W)
      BY <1>1, <2>2, OutputSet
    <2> QED
      BY <1>1, <2>3 DEF After, SameOptions, IsOf
  <1>5. CASE s.awaits \in DOMAIN OptionOf
    <2> DEFINE name == OptionOf[s.awaits]
               value == Spelling[word]
    <2>1. name \in DOMAIN DefaultOptions /\ s.awaits # "--output" /\ s.awaits \notin DOMAIN NameOf
      BY <1>5, FlagNames
    <2>2. u = OptionIs(t, name, value)
      BY <1>5, <2>1 DEF TakeValue, OptionIs, Awaiting
    <2>3. value \in OptionValues(W)
      BY <1>3
    <2>4. word \in DOMAIN Spelling => value \in Seq(STRING)
      BY OptionsAssumption
    <2>5. \A f \in DOMAIN OptionOf : OptionOf[f] \in DOMAIN DefaultOptions
      BY FlagNames
    <2> HIDE DEF t, u, value, name
    <2>6. OneOption(t, u, name, value, W)
      BY <1>1, <2>1, <2>2, <2>3, OptionSet
    <2>7. TextsHeld(s.options) /\ word \in DOMAIN Spelling => TextsHeld(u.options)
      BY <1>1, <2>4, <2>5, <2>6 DEF TextsHeld, OneOption
    <2> QED
      BY <1>1, <1>5, <2>6, <2>7 DEF After, OneOption, IsOf
  <1>6. CASE s.awaits \in DOMAIN NameOf
    <2> DEFINE name == NameOf[s.awaits]
    <2>1. name \in DOMAIN DefaultOptions /\ s.awaits # "--output" /\ s.awaits \notin DOMAIN OptionOf
      BY <1>6, FlagNames
    <2>2. u = OptionIs(t, name, word)
      BY <1>6, <2>1 DEF TakeValue, OptionIs, Awaiting
    <2>3. \A f \in DOMAIN OptionOf : OptionOf[f] \in DOMAIN DefaultOptions /\ OptionOf[f] # name
      BY <1>6, FlagNames
    <2> HIDE DEF t, u, name
    <2>4. OneOption(t, u, name, word, W)
      BY <1>1, <1>3, <2>1, <2>2, OptionSet
    <2>5. TextsHeld(s.options) => TextsHeld(u.options)
      BY <1>1, <2>3, <2>4 DEF TextsHeld, OneOption
    <2> QED
      BY <1>1, <2>4, <2>5 DEF After, OneOption, IsOf
  <1> QED
    BY <1>2, <1>4, <1>5, <1>6

LEMMA FlagTaken ==
    ASSUME NEW W, NEW s \in FlagStates(W), NEW word \in W, s.awaits = ""
    PROVE  After(s, word, TakeFlag(s, word), W)
  <1> DEFINE t == Seeing(s, word)
             u == TakeFlag(s, word)
  <1>1. t \in FlagStates(W) /\ t.awaits = "" /\ t.options = s.options
    BY OthersSet, ZenonT(90) DEF SameOptions, IsOf
  <1> SUFFICES After(s, word, u, W)
    OBVIOUS
  <1>2. CASE word \in s.seen \/ word \notin {"--deny-all", "--force"} \cup Valued
    <2>1. u = NotOk(s)
      BY <1>2 DEF TakeFlag, NotOk
    <2> HIDE DEF u
    <2>2. SameOptions(s, u, W)
      BY <2>1, OthersSet
    <2> QED
      BY <2>2 DEF After, SameOptions, IsOf
  <1>3. CASE word \notin s.seen /\ word = "--deny-all"
    <2> DEFINE yes == TRUE
    <2>1. word # "--force" /\ word \notin Valued
      BY <1>3, FlagNames DEF Valued
    <2>2. u = OptionIs(t, "deny_all", yes)
      BY <1>3, <2>1 DEF TakeFlag, OptionIs, Seeing
    <2>3. "deny_all" \in DOMAIN DefaultOptions /\ yes \in OptionValues(W)
      BY FlagNames DEF OptionValues
    <2>4. \A f \in DOMAIN OptionOf : OptionOf[f] \in DOMAIN DefaultOptions /\ OptionOf[f] # "deny_all"
      BY FlagNames
    <2> HIDE DEF t, u, yes
    <2>5. OneOption(t, u, "deny_all", yes, W)
      BY <1>1, <2>2, <2>3, OptionSet
    <2>6. TextsHeld(s.options) => TextsHeld(u.options)
      BY <1>1, <2>4, <2>5 DEF TextsHeld, OneOption
    <2> QED
      BY <1>1, <2>5, <2>6 DEF After, OneOption, IsOf
  <1>4. CASE word \notin s.seen /\ word = "--force"
    <2>1. word # "--deny-all" /\ word \notin Valued
      BY <1>4, FlagNames DEF Valued
    <2>2. u = Forced(t)
      BY <1>4, <2>1 DEF TakeFlag, Forced, Seeing
    <2> HIDE DEF t, u
    <2>3. SameOptions(t, u, W)
      BY <1>1, <2>2, OthersSet
    <2> QED
      BY <1>1, <2>3 DEF After, SameOptions, IsOf
  <1>5. CASE word \notin s.seen /\ word \in Valued
    <2>1. word \notin {"--deny-all", "--force"}
      BY <1>5 DEF Valued, OptionOf, NameOf
    <2>2. u = Awaiting(t, word)
      BY <1>5, <2>1 DEF TakeFlag, Awaiting, Seeing
    <2> HIDE DEF t, u
    <2>3. Awaits(t, u, word, W)
      BY <1>1, <1>5, <2>2, AwaitsSet
    <2> QED
      BY <1>1, <2>3 DEF After, Awaits
  <1> QED
    BY <1>2, <1>3, <1>4, <1>5

LEMMA WordTaken ==
    ASSUME NEW W, NEW s \in FlagStates(W), NEW word \in W
    PROVE  After(s, word, TakeWord(s, word), W)
  BY ValueTaken, FlagTaken DEF TakeWord

\* The words after the command.
LEMMA FlagWordsAre ==
    ASSUME arguments \in Seq(STRING), Len(arguments) >= 2
    PROVE  LET n == Len(arguments) - 2
           IN  /\ n \in Nat /\ DOMAIN FlagWords = 1..n
               /\ \A i \in 1..n : i + 2 \in 3..Len(arguments) /\ FlagWords[i] = arguments[i + 2]
  <1> DEFINE l == Len(arguments)
             n == l - 2
             words == SubSeq(arguments, 3, l)
  <1>1. l \in Nat /\ l >= 2 /\ \A i \in 3..l : arguments[i] \in STRING
    OBVIOUS
  <1> HIDE DEF l
  <1>2. /\ words \in Seq(STRING) /\ Len(words) = IF 3 <= l THEN l - 3 + 1 ELSE 0
        /\ \A i \in 1..l - 3 + 1 : words[i] = arguments[3 + i - 1]
    BY <1>1, SubSeqProperties
  <1> HIDE DEF words
  <1>3. Len(words) = n /\ n \in Nat /\ \A i \in 1..n : words[i] = arguments[i + 2] /\ i + 2 \in 3..l
    <2>1. l - 3 + 1 = n
      BY <1>1
    <2>2. \A i \in 1..n : 3 + i - 1 = i + 2 /\ i + 2 \in 3..l
      BY <1>1
    <2> HIDE DEF n
    <2>3. \A i \in 1..n : words[i] = arguments[i + 2]
      <3> TAKE i \in 1..n
      <3>1. words[i] = arguments[3 + i - 1]
        BY <1>2, <2>1
      <3> QED
        BY <2>2, <3>1, Zenon
    <2>4. Len(words) = n /\ n \in Nat
      BY <1>1, <1>2 DEF n
    <2> QED
      BY <2>2, <2>3, <2>4
  <1>4. DOMAIN words = 1..Len(words)
    BY <1>2
  <1> QED
    BY <1>3, <1>4 DEF words, l, FlagWords

\* A word that is the value of an option that is read as a text is spelled.
LEMMA ValuesAreSpelled ==
    ASSUME arguments \in Seq(STRING), Len(arguments) >= 2, IsSpelled(arguments),
           NEW i \in 2..Len(arguments) - 2, FlagWords[i - 1] \in DOMAIN OptionOf
    PROVE  FlagWords[i] \in DOMAIN Spelling
  <1>1. Len(arguments) \in Nat
    OBVIOUS
  <1>2. i - 1 \in 1..Len(arguments) - 2 /\ i \in 1..Len(arguments) - 2 /\ (i - 1) + 2 = (i + 2) - 1
    BY <1>1
  <1>3. i + 2 \in 2..Len(arguments)
    BY <1>1
  <1>4. FlagWords[i - 1] = arguments[(i + 2) - 1] /\ FlagWords[i] = arguments[i + 2]
    BY <1>2, FlagWordsAre
  <1>5. \A k \in 2..Len(arguments) : arguments[k - 1] \in DOMAIN OptionOf => arguments[k] \in DOMAIN Spelling
    BY DEF IsSpelled
  <1> HIDE DEF FlagWords
  <1> QED
    BY <1>3, <1>4, <1>5

\* Whatever the flags, the options that initialize reads as texts hold texts.
LEMMA FlagsTexts ==
    ASSUME arguments \in Seq(STRING), Len(arguments) >= 2, IsSpelled(arguments)
    PROVE  TextOptions(Flags.options)
  <1> DEFINE n == Len(arguments) - 2
             W == {FlagWords[i] : i \in 1..n}
             T == FlagStates(W)
  <1>1. n \in Nat /\ DOMAIN FlagWords = 1..n
    BY FlagWordsAre
  <1>2. NoFlags \in T /\ TextsHeld(NoFlags.options) /\ NoFlags.awaits = ""
    <2> DEFINE values == {DefaultOptions[d] : d \in DOMAIN DefaultOptions}
               options == DefaultOptions
    <2>1. options \in [DOMAIN DefaultOptions -> values]
      BY DefaultsHeld
    <2>2. values \subseteq OptionValues(W)
      BY DEF OptionValues
    <2> HIDE DEF values, options, W
    <2>3. options \in [DOMAIN DefaultOptions -> OptionValues(W)]
      BY <2>1, <2>2
    <2>4. NoFlags = [ok |-> TRUE, seen |-> {}, awaits |-> "", force |-> FALSE, output |-> <<>>,
                     options |-> options]
      BY DEF NoFlags, options
    <2>5. [ok |-> TRUE, seen |-> {}, awaits |-> "", force |-> FALSE, output |-> <<>>,
           options |-> options] \in T
      BY <2>3 DEF FlagStates
    <2> QED
      BY <2>4, <2>5, DefaultsHeld DEF options
  <1>3. ASSUME NEW r \in T, NEW i \in 1..n
        PROVE  After(r, FlagWords[i], TakeWord(r, FlagWords[i]), W)
    <2>1. FlagWords[i] \in W
      OBVIOUS
    <2> HIDE DEF W
    <2> QED
      BY <2>1, WordTaken
  <1>4. PICK h : Row(h, n, T, NoFlags, FlagsBy(n, T)) /\ Flags = h[n]
    <2>1. \A r \in T, i \in 1..n : TakeWord(r, FlagWords[i]) \in T
      BY <1>3 DEF After
    <2> HIDE DEF T, n
    <2> QED
      BY <1>1, <1>2, <2>1, FlagsRow
  <1>5. ASSUME NEW k \in 1..n
        PROVE  k - 1 \in 0..n /\ h[k - 1] \in T /\ h[k] = TakeWord(h[k - 1], FlagWords[k])
    <2> HIDE DEF T, n
    <2>1. k - 1 \in 0..n
      BY <1>1
    <2>2. h[k - 1] \in T /\ h[k] = FlagsBy(n, T)[<<h[k - 1], k>>]
      BY <1>4, <2>1 DEF Row
    <2> QED
      BY <2>1, <2>2 DEF FlagsBy
  <1>6. h[0] = NoFlags
    BY <1>4 DEF Row
  <1> DEFINE Good == {k \in Nat : /\ TextsHeld(h[k].options)
                                  /\ h[k].awaits # "" => k >= 1 /\ h[k].awaits = FlagWords[k]}
  <1>7. 0 \in Good
    BY <1>2, <1>6
  <1>8. ASSUME NEW k \in 1..n, k - 1 \in Good PROVE k \in Good
    <2>1. After(h[k - 1], FlagWords[k], h[k], W)
      BY <1>3, <1>5
    <2>2. h[k - 1].awaits \in DOMAIN OptionOf => FlagWords[k] \in DOMAIN Spelling
      <3> HAVE h[k - 1].awaits \in DOMAIN OptionOf
      <3>1. h[k - 1].awaits # ""
        BY FlagNames DEF Valued
      <3>2. k - 1 >= 1 /\ FlagWords[k - 1] \in DOMAIN OptionOf
        BY <1>8, <3>1
      <3>3. k \in 2..n
        BY <1>1, <3>2
      <3> QED
        BY <3>2, <3>3, ValuesAreSpelled
    <2>3. TextsHeld(h[k - 1].options)
      BY <1>8
    <2>4. TextsHeld(h[k].options) /\ h[k].awaits \in {"", FlagWords[k]}
      BY <2>1, <2>2, <2>3 DEF After
    <2>5. k \in Nat /\ k >= 1
      BY <1>1
    <2>6. h[k].awaits # "" => k >= 1 /\ h[k].awaits = FlagWords[k]
      BY <2>4, <2>5
    <2> QED
      BY <2>4, <2>5, <2>6
  <1>9. n \in Good
    <2> HIDE DEF Good, n
    <2>1. n \in 0..n
      BY <1>1
    <2> QED
      BY <1>1, <1>7, <1>8, <2>1, AlongRow
  <1>10. TextsHeld(Flags.options)
    BY <1>4, <1>9
  <1>11. {"clock_skew"} \cup ToSet(LimitNames) \subseteq {OptionOf[flag] : flag \in DOMAIN OptionOf}
    <2>1. /\ "--clock-skew" \in DOMAIN OptionOf /\ OptionOf["--clock-skew"] = "clock_skew"
          /\ "--max-token-bytes" \in DOMAIN OptionOf /\ OptionOf["--max-token-bytes"] = "max_token_bytes"
          /\ "--max-evidence-bytes" \in DOMAIN OptionOf
          /\ OptionOf["--max-evidence-bytes"] = "max_evidence_bytes"
          /\ "--max-ssh-certificate-bytes" \in DOMAIN OptionOf
          /\ OptionOf["--max-ssh-certificate-bytes"] = "max_ssh_certificate_bytes"
          /\ "--max-offered-key-chars" \in DOMAIN OptionOf
          /\ OptionOf["--max-offered-key-chars"] = "max_offered_key_chars"
          /\ "--max-authorized-keys-output-chars" \in DOMAIN OptionOf
          /\ OptionOf["--max-authorized-keys-output-chars"] = "max_authorized_keys_output_chars"
      BY DEF OptionOf
    <2> QED
      BY <2>1, LimitNamesAre
  <1> QED
    BY <1>10, <1>11 DEF TextsHeld, TextOptions

-----------------------------------------------------------------------------
(* Documents through the calls.  Files hold documents that a parser can    *)
(* be given; config init makes such a document, and it may become the      *)
(* configuration.  A call is a start, a reading of the files, or a step    *)
(* that leaves what was read alone.                                        *)

FilesAreDocuments == IsFiles(files) /\ IsFiles(edit)
CallsAreSpelled == IsSpelled(arguments) /\ \A i \in DOMAIN calls : IsSpelled(calls[i])
MadeInv == made # Nothing => MeansWhatWasAsked(made)
GotInv ==
    /\ Inits /\ got.error = "none" => IsDocument(got.document)
    /\ Inits /\ stage \in {"ready", "effect"} => got.error = "none"

DocumentsInv == FilesAreDocuments /\ CallsAreSpelled /\ MadeInv /\ GotInv /\ AcceptedIsSound

\* What a step other than the start and the work of a call does to the files.
KeepsFiles == UNCHANGED <<files, edit>>
TakesEdit == files' = edit /\ edit' = edit
PlacesFile ==
    /\ edit' = edit /\ stage = "effect" /\ Inits
    /\ files' = [files EXCEPT !.config = Reread(got.document)]
LeavesReading ==
    /\ UNCHANGED <<arguments, calls, made, got>>
    /\ KeepsFiles \/ TakesEdit \/ PlacesFile
    /\ Inits /\ stage' \in {"ready", "effect"} => stage \in {"ready", "effect"}

LEMMA RefuseLeaves ==
    ASSUME NEW kind, Refuse(kind)
    PROVE  LeavesReading
  BY DEF Refuse, Exit, LeavesReading, KeepsFiles

LEMMA CancelledLeaves == Cancelled => LeavesReading
  BY DEF Cancelled, Exit, LeavesReading, KeepsFiles

LEMMA WriteLeaves == Write => LeavesReading
  BY DEF Write, Exit, LeavesReading, KeepsFiles

LEMMA DispatchLeaves == Dispatch => LeavesReading
  <1> SUFFICES ASSUME Dispatch PROVE LeavesReading
    OBVIOUS
  <1>1. CASE Helps /\ Go("effect")
    BY <1>1 DEF Go, LeavesReading, KeepsFiles, Inits
  <1>2. CASE Go("work")
    BY <1>2 DEF Go, LeavesReading, KeepsFiles
  <1> QED
    BY <1>1, <1>2, RefuseLeaves, CancelledLeaves DEF Dispatch

LEMMA LookLeaves == Look => LeavesReading
  <1> SUFFICES ASSUME Look PROVE LeavesReading
    OBVIOUS
  <1>1. CASE Go("effect")
    BY <1>1 DEF Look, Go, LeavesReading, KeepsFiles
  <1> QED
    BY <1>1, CancelledLeaves DEF Look

LEMMA EffectLeaves == Effect => LeavesReading
  <1> SUFFICES ASSUME Effect PROVE LeavesReading
    OBVIOUS
  <1>1. CASE (Inits /\ Publishes) /\ PublishOutcome
    <2>1. stage = "effect" /\ Inits
      BY <1>1 DEF Effect
    <2>2. stage' = "done" /\ UNCHANGED <<arguments, calls, made, got, edit>>
      BY <1>1 DEF PublishOutcome, Exit
    <2>3. \/ files' = files
          \/ files' = [files EXCEPT !.config = Reread(got.document)]
      BY <1>1 DEF PublishOutcome
    <2> QED
      BY <2>1, <2>2, <2>3 DEF LeavesReading, KeepsFiles, PlacesFile
  <1>2. CASE WriteFragment
    BY <1>2, RefuseLeaves, WriteLeaves DEF WriteFragment
  <1>3. CASE Verdict
    BY <1>3 DEF Verdict, Exit, LeavesReading, KeepsFiles
  <1> QED
    BY <1>1, <1>2, <1>3, WriteLeaves DEF Effect

LEMMA OtherLeaves == Throw \/ Signal \/ Edit \/ UNCHANGED vars => LeavesReading
  <1>1. Throw => LeavesReading
    BY RefuseLeaves DEF Throw
  <1>2. Signal => LeavesReading
    BY DEF Signal, LeavesReading, KeepsFiles
  <1>3. Edit => LeavesReading
    BY DEF Edit, LeavesReading, TakesEdit, call
  <1>4. UNCHANGED vars => LeavesReading
    BY DEF vars, call, LeavesReading, KeepsFiles
  <1> QED
    BY <1>1, <1>2, <1>3, <1>4

LEMMA DocumentsAtFirst == Init => DocumentsInv
  <1> SUFFICES ASSUME Init PROVE DocumentsInv
    OBVIOUS
  <1>1. PICK s \in Scenarios : files = s.files /\ edit = s.edit /\ calls = s.calls
    BY DEF Init
  <1>2. FilesAreDocuments
    BY <1>1, ScenariosAssumption DEF FilesAreDocuments
  <1>3. CallsAreSpelled
    <2>1. \A i \in DOMAIN calls : IsSpelled(calls[i])
      BY <1>1, OptionsAssumption
    <2>2. arguments = <<>>
      BY DEF Init
    <2>3. IsSpelled(<<>>)
      BY DEF IsSpelled
    <2> QED
      BY <2>1, <2>2, <2>3 DEF CallsAreSpelled
  <1>4. made = Nothing /\ got.error = "nothing"
    BY DEF Init, Nothing
  <1> QED
    BY <1>2, <1>3, <1>4 DEF DocumentsInv, MadeInv, GotInv, AcceptedIsSound, Accepted, Init

LEMMA LeavesDocuments == DocumentsInv /\ LeavesReading => DocumentsInv'
  <1> SUFFICES ASSUME DocumentsInv, LeavesReading PROVE DocumentsInv'
    OBVIOUS
  <1>1. UNCHANGED <<arguments, calls, made, got>>
    BY DEF LeavesReading
  <1>2. Inits' = Inits /\ Accepted' = Accepted
    BY <1>1 DEF Inits, Helps, IsHelp, Accepted, Checks, Renders
  <1>3. FilesAreDocuments'
    <2>1. CASE PlacesFile
      <3> DEFINE new == Reread(got.document)
      <3>1. new.error \in {"none", "state_invalid"} /\ IsDocument(new.document)
        BY <2>1 DEF PlacesFile, DocumentsInv, GotInv, Reread, Unless
      <3> HIDE DEF new
      <3>2. files' = [files EXCEPT !.config = new] /\ edit' = edit
        BY <2>1 DEF PlacesFile, new
      <3>3. {"none", "state_invalid"} \subseteq FileErrors
        BY DEF FileErrors
      <3>4. IsFiles(files) /\ IsFiles(edit)
        BY DEF DocumentsInv, FilesAreDocuments
      <3>5. IsFiles([files EXCEPT !.config = new])
        BY <3>1, <3>3, <3>4 DEF IsFiles
      <3> QED
        BY <3>2, <3>4, <3>5 DEF FilesAreDocuments
    <2> QED
      BY <2>1 DEF LeavesReading, KeepsFiles, TakesEdit, DocumentsInv, FilesAreDocuments
  <1>4. CallsAreSpelled'
    BY <1>1 DEF DocumentsInv, CallsAreSpelled
  <1>5. MadeInv'
    BY <1>1 DEF DocumentsInv, MadeInv
  <1>6. GotInv'
    BY <1>1, <1>2 DEF DocumentsInv, GotInv, LeavesReading
  <1>7. AcceptedIsSound'
    BY <1>1, <1>2 DEF DocumentsInv, AcceptedIsSound
  <1> QED
    BY <1>3, <1>4, <1>5, <1>6, <1>7 DEF DocumentsInv

LEMMA StartDocuments == CommandsInv /\ DocumentsInv /\ Start => DocumentsInv'
  <1> SUFFICES ASSUME CommandsInv, DocumentsInv, Start PROVE DocumentsInv'
    OBVIOUS
  <1>1. /\ calls \in Seq(Seq(STRING)) /\ calls # <<>> /\ arguments' = Head(calls) /\ calls' = Tail(calls)
        /\ stage' = "dispatch" /\ got' = Nothing /\ UNCHANGED <<files, edit, made>>
    BY DEF Start, CommandsInv, CallType
  <1>2. got'.error = "nothing"
    BY <1>1 DEF Nothing
  <1>3. CallsAreSpelled'
    <2>1. /\ DOMAIN calls = 1..Len(calls) /\ Len(calls) \in Nat /\ Len(calls) # 0 /\ Head(calls) = calls[1]
          /\ \A i \in DOMAIN Tail(calls) : i + 1 \in DOMAIN calls /\ Tail(calls)[i] = calls[i + 1]
      <3> DEFINE S == Seq(STRING)
      <3>1. calls \in Seq(S) /\ calls # <<>>
        BY <1>1
      <3> HIDE DEF S
      <3>2. DOMAIN calls = 1..Len(calls) /\ Len(calls) \in Nat /\ Len(calls) # 0
        BY <3>1
      <3>3. Head(calls) = calls[1] /\ Tail(calls) \in Seq(S) /\ Len(Tail(calls)) = Len(calls) - 1
            /\ \A i \in 1..Len(Tail(calls)) : Tail(calls)[i] = calls[i + 1]
        BY <3>1, HeadTailProperties
      <3>4. DOMAIN Tail(calls) = 1..Len(Tail(calls))
        BY <3>3
      <3>5. \A i \in DOMAIN Tail(calls) : i + 1 \in DOMAIN calls
        BY <3>2, <3>3, <3>4
      <3> QED
        BY <3>2, <3>3, <3>4, <3>5
    <2>2. \A i \in DOMAIN calls : IsSpelled(calls[i])
      BY DEF DocumentsInv, CallsAreSpelled
    <2>3. IsSpelled(Head(calls))
      BY <2>1, <2>2
    <2>4. \A i \in DOMAIN Tail(calls) : IsSpelled(Tail(calls)[i])
      BY <2>1, <2>2
    <2> QED
      BY <1>1, <2>3, <2>4 DEF CallsAreSpelled
  <1>4. FilesAreDocuments' /\ MadeInv'
    BY <1>1 DEF DocumentsInv, FilesAreDocuments, MadeInv
  <1>5. GotInv' /\ AcceptedIsSound'
    BY <1>1, <1>2 DEF GotInv, AcceptedIsSound, Accepted
  <1> QED
    BY <1>3, <1>4, <1>5 DEF DocumentsInv

LEMMA RendersCommand ==
    ASSUME arguments \in Seq(STRING), Renders
    PROVE  Len(arguments) = 8 /\ arguments[1] = "sshd-config"
  <1>1. Len(arguments) = 8 /\ SubSeq(arguments, 1, 3) = <<"sshd-config", "render", "--config">>
    BY DEF Renders
  <1>2. arguments[1] = SubSeq(arguments, 1, 3)[1]
    BY <1>1, SubSeqProperties
  <1>3. <<"sshd-config", "render", "--config">>[1] = "sshd-config"
    OBVIOUS
  <1> QED
    BY <1>1, <1>2, <1>3, Zenon

LEMMA WorkDocuments == CommandsInv /\ DocumentsInv /\ Work => DocumentsInv'
  <1> SUFFICES ASSUME CommandsInv, DocumentsInv, Work PROVE DocumentsInv'
    OBVIOUS
  <1>1. UNCHANGED <<arguments, calls, files, edit>> /\ arguments \in Seq(STRING)
    BY DEF Work, CommandsInv, CallType
  <1>2. Inits' = Inits /\ Checks' = Checks /\ Renders' = Renders
    BY <1>1 DEF Inits, Helps, IsHelp, Checks, Renders
  <1>3. Inits => ~Checks /\ ~Renders
    <2>1. Checks => ~Inits
      BY <1>1, OneCommand
    <2>2. Renders => ~Inits
      BY <1>1, RendersCommand DEF Inits
    <2> QED
      BY <2>1, <2>2
  <1>4. FilesAreDocuments' /\ CallsAreSpelled'
    BY <1>1 DEF DocumentsInv, FilesAreDocuments, CallsAreSpelled
  <1>5. IsFiles(files)
    BY DEF DocumentsInv, FilesAreDocuments
  <1>6. CASE Inits
    <2> DEFINE o == Flags.options
               file == files.input
    <2>1. /\ got' = initialize(o, Contents(file), files.keys)
          /\ made' = IF got'.error = "none"
                     THEN [document |-> got'.document, options |-> o, input |-> file, keys |-> files.keys]
                     ELSE made
          /\ got'.error # "none" => stage' = "done"
      BY <1>3, <1>6 DEF Work, Exit
    <2>2. TextOptions(o)
      BY <1>1, <1>6, FlagsTexts DEF Inits, DocumentsInv, CallsAreSpelled
    <2>3. file.error = "none" => IsDocument(file.document)
      BY <1>5 DEF IsFiles
    <2> HIDE DEF o, file
    <2>4. ASSUME got'.error = "none"
          PROVE  IsDocument(got'.document) /\ MeansWhatWasAsked(made')
      <3>1. initialize(o, Contents(file), files.keys).error = "none"
        BY <2>1, <2>4
      <3>2. LET document == initialize(o, Contents(file), files.keys).document
            IN  /\ IsDocument(document)
                /\ MeansWhatWasAsked([document |-> document, options |-> o, input |-> file,
                                      keys |-> files.keys])
        BY <2>2, <2>3, <3>1, MadeMeans
      <3> QED
        BY <2>1, <2>4, <3>2
    <2>5. MadeInv'
      <3>1. got'.error # "none" => made' = made
        BY <2>1
      <3> QED
        BY <2>4, <3>1 DEF MadeInv, DocumentsInv
    <2>6. GotInv'
      BY <2>1, <2>4 DEF GotInv
    <2>7. AcceptedIsSound'
      BY <1>2, <1>3, <1>6 DEF AcceptedIsSound, Accepted
    <2> QED
      BY <1>4, <2>5, <2>6, <2>7 DEF DocumentsInv
  <1>7. CASE ~Inits
    <2>1. got' = Load /\ made' = made
      BY <1>7 DEF Work
    <2>2. MadeInv' /\ GotInv'
      BY <1>2, <1>7, <2>1 DEF DocumentsInv, MadeInv, GotInv
    <2>3. AcceptedIsSound'
      <3> SUFFICES ASSUME got'.error = "none"
                   PROVE  IsSound(got') /\ \A p \in ToSet(got'.trusted) : Usable(p)
        BY DEF AcceptedIsSound, Accepted
      <3>1. files.config.error # "none" => Failed(Contents(files.config).error).error # "none"
        BY DEF Failed, Contents
      <3>2. files.config.error = "none"
        BY <2>1, <3>1 DEF Load, load_and_validate
      <3>3. got' = parse_and_validate(files.config.document, files.keys)
        BY <2>1, <3>2 DEF Load, load_and_validate
      <3>4. IsDocument(files.config.document)
        BY <1>5, <3>2 DEF IsFiles
      <3> QED
        BY <3>3, <3>4, ParsedIsSound
    <2> QED
      BY <1>4, <2>2, <2>3 DEF DocumentsInv
  <1> QED
    BY <1>6, <1>7

LEMMA DocumentsHold == Spec => [](CommandsInv /\ DocumentsInv)
  <1>1. Init => CommandsInv /\ DocumentsInv
    BY InitHolds, DocumentsAtFirst
  <1>2. CommandsInv /\ [Next]_vars => CommandsInv'
    BY StartStep, DispatchStep, WorkStep, LookStep, EffectStep, AroundStep DEF Next
  <1>3. CommandsInv /\ DocumentsInv /\ [Next]_vars => DocumentsInv'
    BY StartDocuments, WorkDocuments, LeavesDocuments, DispatchLeaves, LookLeaves, EffectLeaves,
       OtherLeaves DEF Next
  <1> QED
    BY <1>1, <1>2, <1>3, PTL DEF Spec

\* What config init makes is accepted while the keys are as they were, unless
\* its text is larger than read_file admits, and means the options and the
\* policy input that it was made from (initialize, whose text load_and_validate
\* reads again).
THEOREM InitializedAccepted == Spec => []InitializedIsAccepted
  <1>1. DocumentsInv => InitializedIsAccepted
    <2> SUFFICES ASSUME DocumentsInv, made # Nothing, files.keys = made.keys, Readable(made.document)
                 PROVE  LET c == load_and_validate(Reread(made.document), files.keys)
                        IN  c.error = "none" /\ c = parse_and_validate(Asked(made), files.keys)
      BY DEF InitializedIsAccepted
    <2>1. load_and_validate(Reread(made.document), files.keys) = parse_and_validate(made.document, files.keys)
      BY DEF load_and_validate, Reread, Unless
    <2>2. MeansWhatWasAsked(made)
      BY DEF DocumentsInv, MadeInv
    <2> QED
      BY <2>1, <2>2 DEF MeansWhatWasAsked
  <1> QED
    BY <1>1, DocumentsHold, PTL

\* What load_and_validate accepts is sound, and no policy of it is one that
\* validate_policy would refuse for every token.
THEOREM AcceptedSound == Spec => []AcceptedIsSound
  <1>1. DocumentsInv => AcceptedIsSound
    BY DEF DocumentsInv
  <1> QED
    BY <1>1, DocumentsHold, PTL

-----------------------------------------------------------------------------
(* The parts of a text.  Split is a fold, which goes on with the parts of  *)
(* what came before.                                                       *)

FixedWords ==
    {"AuthorizedKeysCommand", "AuthorizedKeysCommandUser", "verify", "--config", "--user", "--key", "--key-type",
     "%", "u", "k", "t", Blank, NewLine}
Chars == STRING \cup FixedWords
Texts == Seq(Chars)
Pieces == Seq(Texts) \ {<<>>}

SplitStep(parts, c, separator) ==
    IF c = separator THEN Append(parts, <<>>) ELSE [parts EXCEPT ![Len(parts)] = Append(@, c)]
Splits(parts, text, separator) ==
    FoldLeft(LAMBDA q, c : IF c = separator THEN Append(q, <<>>)
                           ELSE [q EXCEPT ![Len(q)] = Append(@, c)],
             parts, text)

\* The parts of a text are the end of a row of parts.
SplitsBy(text, separator, n, T) ==
    [p \in T \X (1..n) |-> SplitStep(p[1], text[p[2]], separator)]

StepsStay(text, separator, n, T) == \A r \in T, i \in 1..n : SplitStep(r, text[i], separator) \in T

LEMMA SplitsRow ==
    ASSUME NEW p, NEW text, NEW separator,
           NEW n \in Nat, DOMAIN text = 1..n, NEW T, p \in T, StepsStay(text, separator, n, T)
    PROVE  \E h : Row(h, n, T, p, SplitsBy(text, separator, n, T)) /\ Splits(p, text, separator) = h[n]
  <1> DEFINE base == p
             H == SplitsBy(text, separator, n, T)
             Body(g) == [s \in SUBSET (1..n) |->
                           IF s = {} THEN base ELSE SplitStep(g[s \ {Max(s)}], text[Max(s)], separator)]
             iter == CHOOSE g : g = Body(g)
  <1>1. Splits(p, text, separator) = iter[1..n]
    BY DEF Splits, FoldLeft, MapThenFoldSet, SplitStep
  <1>2. H \in [T \X (1..n) -> T] /\ base \in T
    BY DEF SplitsBy, StepsStay
  <1>3. iter = Body(iter)
    <2>1. PICK g : Iterates(g, n, T, base, H)
      <3> HIDE DEF H, base
      <3> QED
        BY <1>2, IterExists
    <2>2. ASSUME NEW s \in SUBSET (1..n)
          PROVE  g[s] = IF s = {} THEN base ELSE SplitStep(g[s \ {Max(s)}], text[Max(s)], separator)
      <3>1. s # {} => Max(s) \in 1..n /\ g[s \ {Max(s)}] \in T
        BY <2>1, LastExists DEF Iterates
      <3> QED
        BY <2>1, <3>1 DEF Iterates, SplitsBy
    <2>3. g = Body(g)
      BY <2>1, <2>2 DEF Iterates
    <2> HIDE DEF Body
    <2> QED
      BY <2>3
  <1>4. Follows(iter, n, T, base, H)
    <2> HIDE DEF iter
    <2>1. iter[{}] = base
      BY <1>3
    <2>2. \A s \in SUBSET (1..n) : s # {} /\ iter[s \ {Max(s)}] \in T =>
             iter[s] = H[<<iter[s \ {Max(s)}], Max(s)>>]
      <3> TAKE s \in SUBSET (1..n)
      <3> HAVE s # {} /\ iter[s \ {Max(s)}] \in T
      <3>1. Max(s) \in 1..n
        BY LastExists
      <3> QED
        BY <1>3, <3>1 DEF SplitsBy
    <2> QED
      BY <1>2, <2>1, <2>2 DEF Follows
  <1> HIDE DEF iter, H, base
  <1>5. \E h : Row(h, n, T, base, H) /\ h[n] = iter[1..n]
    BY <1>4, IterRow
  <1> QED
    BY <1>1, <1>5 DEF H, base

LEMMA PartsAre ==
    ASSUME NEW p \in Pieces
    PROVE  /\ Len(p) \in Nat /\ Len(p) >= 1 /\ DOMAIN p = 1..Len(p)
           /\ \A j \in 1..Len(p) : p[j] \in Texts
  BY DEF Pieces

LEMMA TextsAre ==
    ASSUME NEW t \in Texts
    PROVE  /\ Len(t) \in Nat /\ DOMAIN t = 1..Len(t) /\ \A j \in 1..Len(t) : t[j] \in Chars
           /\ \A c \in Chars : Append(t, c) \in Texts
           /\ \A u \in Texts : t \o u \in Texts
  <1>1. Len(t) \in Nat /\ DOMAIN t = 1..Len(t) /\ \A j \in 1..Len(t) : t[j] \in Chars
    BY DEF Texts
  <1>2. \A c \in Chars : Append(t, c) \in Texts
    BY DEF Texts
  <1>3. \A u \in Texts : t \o u \in Texts
    BY ConcatProperties DEF Texts
  <1> QED
    BY <1>1, <1>2, <1>3

LEMMA EmptyText == <<>> \in Texts
  BY DEF Texts

\* What a character does to the parts: it ends the last one, or it extends it.
LEMMA StepParts ==
    ASSUME NEW p \in Pieces, NEW c \in Chars, NEW separator
    PROVE  LET q == SplitStep(p, c, separator)
           IN  /\ q \in Pieces
               /\ IF c = separator
                  THEN Len(q) = Len(p) + 1 /\ q[Len(q)] = <<>> /\ \A j \in 1..Len(p) : q[j] = p[j]
                  ELSE /\ Len(q) = Len(p) /\ q[Len(p)] = Append(p[Len(p)], c)
                       /\ \A j \in 1..Len(p) : j # Len(p) => q[j] = p[j]
  <1>1. Len(p) \in Nat /\ Len(p) >= 1 /\ p[Len(p)] \in Texts
    BY PartsAre
  <1>2. p \in Seq(Texts)
    BY DEF Pieces
  <1>3. CASE c = separator
    <2>1. /\ Append(p, <<>>) \in Seq(Texts) /\ Len(Append(p, <<>>)) = Len(p) + 1
          /\ Append(p, <<>>)[Len(p) + 1] = <<>> /\ \A j \in 1..Len(p) : Append(p, <<>>)[j] = p[j]
      BY <1>2, EmptyText
    <2>2. Append(p, <<>>) # <<>>
      BY <1>1, <2>1, SMTT(60)
    <2> QED
      BY <1>3, <2>1, <2>2 DEF SplitStep, Pieces
  <1>4. CASE c # separator
    <2> DEFINE new == Append(p[Len(p)], c)
    <2>1. new \in Texts
      BY <1>1, TextsAre
    <2>2. [p EXCEPT ![Len(p)] = new] = SplitStep(p, c, separator)
      BY <1>4 DEF SplitStep
    <2> HIDE DEF new
    <2>3. Len(p) \in 1..Len(p)
      BY <1>1
    <2>4. /\ [p EXCEPT ![Len(p)] = new] \in Seq(Texts) /\ Len([p EXCEPT ![Len(p)] = new]) = Len(p)
          /\ \A j \in 1..Len(p) : [p EXCEPT ![Len(p)] = new][j] = IF j = Len(p) THEN new ELSE p[j]
      BY <1>2, <2>1, <2>3, ExceptSeq
    <2>5. [p EXCEPT ![Len(p)] = new] # <<>>
      BY <1>1, <2>4
    <2> QED
      BY <1>4, <2>2, <2>3, <2>4, <2>5 DEF Pieces, new
  <1> QED
    BY <1>3, <1>4

LEMMA EndParts ==
    ASSUME NEW p \in Pieces, NEW c \in Chars
    PROVE  /\ Append(p, <<>>) \in Pieces /\ Len(Append(p, <<>>)) = Len(p) + 1
           /\ \A j \in 1..Len(p) : Append(p, <<>>)[j] = p[j]
  <1>1. SplitStep(p, c, c) = Append(p, <<>>)
    BY DEF SplitStep
  <1> DEFINE q == SplitStep(p, c, c)
  <1>2. q \in Pieces /\ Len(q) = Len(p) + 1 /\ \A j \in 1..Len(p) : q[j] = p[j]
    BY StepParts
  <1> HIDE DEF q
  <1> QED
    BY <1>1, <1>2 DEF q

\* A row for the parts of a text.
SplitRow(h, p, text, separator) ==
    /\ h[0] = p /\ h[Len(text)] = Splits(p, text, separator)
    /\ \A k \in 0..Len(text) : h[k] \in Pieces
    /\ \A k \in 1..Len(text) : k - 1 \in 0..Len(text) /\ h[k] = SplitStep(h[k - 1], text[k], separator)

LEMMA SplitsAre ==
    ASSUME NEW p \in Pieces, NEW text \in Texts, NEW separator
    PROVE  \E h : SplitRow(h, p, text, separator)
  <1> DEFINE n == Len(text)
  <1>1. n \in Nat /\ DOMAIN text = 1..n /\ \A i \in 1..n : text[i] \in Chars
    BY TextsAre
  <1> HIDE DEF n
  <1>2. StepsStay(text, separator, n, Pieces)
    BY <1>1, StepParts DEF StepsStay
  <1>3. PICK h : /\ Row(h, n, Pieces, p, SplitsBy(text, separator, n, Pieces))
                 /\ Splits(p, text, separator) = h[n]
    BY <1>1, <1>2, SplitsRow
  <1>4. ASSUME NEW k \in 1..n
        PROVE  k - 1 \in 0..n /\ h[k] = SplitStep(h[k - 1], text[k], separator)
    <2>1. k - 1 \in 0..n
      BY <1>1
    <2>2. h[k - 1] \in Pieces /\ h[k] = SplitsBy(text, separator, n, Pieces)[<<h[k - 1], k>>]
      BY <1>3, <2>1 DEF Row
    <2> QED
      BY <2>1, <2>2 DEF SplitsBy
  <1>5. h[0] = p /\ \A k \in 0..n : h[k] \in Pieces
    BY <1>3 DEF Row
  <1>6. SplitRow(h, p, text, separator)
    BY <1>3, <1>4, <1>5 DEF SplitRow, n
  <1> QED
    BY <1>6

\* The parts of a text that goes on are those of the rest, from the parts of
\* the beginning.
LEMMA SplitsConcat ==
    ASSUME NEW p \in Pieces, NEW a \in Texts, NEW b \in Texts, NEW separator
    PROVE  /\ Splits(p, a, separator) \in Pieces
           /\ Splits(p, a \o b, separator) = Splits(Splits(p, a, separator), b, separator)
  <1> DEFINE m == Len(a)
             n == Len(b)
             text == a \o b
             middle == Splits(p, a, separator)
  <1>1. m \in Nat /\ n \in Nat
    BY TextsAre
  <1>2. /\ text \in Texts /\ Len(text) = m + n
        /\ \A i \in 1..m + n : text[i] = IF i <= m THEN a[i] ELSE b[i - m]
    BY ConcatProperties DEF Texts
  <1>3. PICK f : SplitRow(f, p, a, separator)
    BY SplitsAre
  <1>4. middle \in Pieces
    BY <1>1, <1>3 DEF SplitRow
  <1> HIDE DEF middle, text
  <1>5. PICK g : SplitRow(g, middle, b, separator)
    BY <1>4, SplitsAre
  <1>6. PICK h : SplitRow(h, p, text, separator)
    BY <1>2, SplitsAre
  <1> HIDE DEF m, n
  <1>7. /\ h[0] = p /\ h[m + n] = Splits(p, text, separator)
        /\ \A k \in 1..m + n : h[k] = SplitStep(h[k - 1], text[k], separator)
    BY <1>2, <1>6 DEF SplitRow
  <1>8. f[0] = p /\ f[m] = middle /\ \A k \in 1..m : f[k] = SplitStep(f[k - 1], a[k], separator)
    BY <1>3 DEF SplitRow, m, middle
  <1>9. /\ g[0] = middle /\ g[n] = Splits(middle, b, separator)
        /\ \A k \in 1..n : g[k] = SplitStep(g[k - 1], b[k], separator)
    BY <1>5 DEF SplitRow, n
  <1>10. h[m] = middle
    <2> DEFINE Good == {k \in Nat : h[k] = f[k]}
    <2>1. 0 \in Good
      BY <1>7, <1>8
    <2>2. ASSUME NEW k \in 1..m, k - 1 \in Good PROVE k \in Good
      <3>1. k \in 1..m + n /\ text[k] = a[k] /\ k \in Nat
        BY <1>1, <1>2
      <3>2. h[k - 1] = f[k - 1]
        BY <2>2
      <3>3. h[k] = SplitStep(h[k - 1], text[k], separator) /\ f[k] = SplitStep(f[k - 1], a[k], separator)
        BY <1>7, <1>8, <3>1
      <3> QED
        BY <3>1, <3>2, <3>3
    <2>3. m \in Good
      <3> HIDE DEF Good
      <3>1. m \in 0..m
        BY <1>1
      <3> QED
        BY <1>1, <2>1, <2>2, <3>1, AlongRow
    <2> QED
      BY <1>8, <2>3
  <1>11. h[m + n] = g[n]
    <2> DEFINE Good == {k \in Nat : h[m + k] = g[k]}
    <2>1. 0 \in Good
      BY <1>1, <1>9, <1>10
    <2>2. ASSUME NEW k \in 1..n, k - 1 \in Good PROVE k \in Good
      <3>1. m + k \in 1..m + n /\ text[m + k] = b[k] /\ k \in Nat /\ (m + k) - 1 = m + (k - 1)
        <4>1. m + k \in 1..m + n /\ k \in Nat /\ (m + k) - 1 = m + (k - 1) /\ ~(m + k <= m) /\ (m + k) - m = k
          BY <1>1
        <4> QED
          BY <1>2, <4>1
      <3>2. h[m + (k - 1)] = g[k - 1]
        BY <2>2
      <3>3. h[m + k] = SplitStep(h[(m + k) - 1], text[m + k], separator)
        BY <1>7, <3>1
      <3>4. g[k] = SplitStep(g[k - 1], b[k], separator)
        BY <1>9
      <3> QED
        BY <3>1, <3>2, <3>3, <3>4
    <2>3. n \in Good
      <3> HIDE DEF Good
      <3>1. n \in 0..n
        BY <1>1
      <3> QED
        BY <1>1, <2>1, <2>2, <3>1, AlongRow
    <2> QED
      BY <2>3
  <1> QED
    BY <1>4, <1>7, <1>9, <1>11 DEF middle, text

\* A word without a separator extends the last part.
LEMMA SplitsWord ==
    ASSUME NEW p \in Pieces, NEW w \in Texts, NEW separator, \A i \in 1..Len(w) : w[i] # separator
    PROVE  LET q == Splits(p, w, separator)
           IN  /\ q \in Pieces /\ Len(q) = Len(p) /\ q[Len(p)] = p[Len(p)] \o w
               /\ \A j \in 1..Len(p) : j # Len(p) => q[j] = p[j]
  <1> DEFINE n == Len(w)
             l == Len(p)
             last == p[l]
  <1>1. n \in Nat /\ l \in Nat /\ l >= 1 /\ last \in Texts /\ \A i \in 1..n : w[i] \in Chars
    BY PartsAre, TextsAre
  <1>2. PICK h : SplitRow(h, p, w, separator)
    BY SplitsAre
  <1> HIDE DEF n, l, last
  <1>3. /\ h[0] = p /\ h[n] = Splits(p, w, separator) /\ \A k \in 0..n : h[k] \in Pieces
        /\ \A k \in 1..n : k - 1 \in 0..n /\ h[k] = SplitStep(h[k - 1], w[k], separator)
    BY <1>2 DEF SplitRow, n
  <1> DEFINE Begin(k) == last \o SubSeq(w, 1, k)
             Good == {k \in Nat : /\ Len(h[k]) = l /\ h[k][l] = Begin(k)
                                  /\ \A j \in 1..l : j # l => h[k][j] = p[j]}
  <1>4. Begin(0) = last
    <2>1. SubSeq(w, 1, 0) = <<>>
      BY SubSeqEmpty
    <2> QED
      BY <1>1, <2>1, ConcatEmptySeq DEF Texts
  <1>5. ASSUME NEW k \in 1..n PROVE Begin(k) = Append(Begin(k - 1), w[k])
    <2> DEFINE before == SubSeq(w, 1, k - 1)
               c == w[k]
    <2>1. w \in Seq(Chars) /\ c \in Chars /\ 1 \in 1..Len(w) /\ k \in 1..Len(w)
      BY <1>1 DEF Texts, n
    <2>2. SubSeq(w, 1, k) = before \o <<c>>
      BY <2>1, SubSeqRecursiveSecond
    <2>3. before \in Seq(Chars)
      <3>1. \A i \in 1..k - 1 : w[i] \in Chars
        BY <1>1
      <3> QED
        BY <3>1, SubSeqProperties
    <2>4. <<c>> \in Seq(Chars) /\ last \in Seq(Chars)
      BY <1>1, <2>1 DEF Texts
    <2> HIDE DEF before, c
    <2>5. (last \o before) \o <<c>> = last \o (before \o <<c>>)
      BY <2>3, <2>4, ConcatAssociative
    <2>6. last \o before \in Seq(Chars)
      BY <2>3, <2>4, ConcatProperties
    <2>7. Append(last \o before, c) = (last \o before) \o <<c>>
      BY <2>1, <2>6, AppendIsConcat
    <2> QED
      BY <2>2, <2>5, <2>7 DEF before, c
  <1>6. 0 \in Good
    BY <1>3, <1>4 DEF last, l
  <1>7. ASSUME NEW k \in 1..n, k - 1 \in Good PROVE k \in Good
    <2>1. h[k - 1] \in Pieces /\ w[k] \in Chars /\ w[k] # separator /\ k \in Nat
      BY <1>1, <1>3 DEF n
    <2>2. /\ Len(h[k - 1]) = l /\ h[k - 1][l] = Begin(k - 1)
          /\ \A j \in 1..l : j # l => h[k - 1][j] = p[j]
      BY <1>7
    <2> HIDE DEF Begin
    <2>3. /\ Len(h[k]) = l /\ h[k][l] = Append(Begin(k - 1), w[k])
          /\ \A j \in 1..l : j # l => h[k][j] = p[j]
      BY <1>3, <2>1, <2>2, StepParts, SMTT(60)
    <2> QED
      BY <1>5, <2>1, <2>3
  <1>8. n \in Good
    <2> HIDE DEF Good
    <2>1. n \in 0..n
      BY <1>1
    <2> QED
      BY <1>1, <1>6, <1>7, <2>1, AlongRow
  <1>9. SubSeq(w, 1, n) = w
    BY SubSeqFull DEF n, Texts
  <1>10. h[n] \in Pieces
    BY <1>1, <1>3
  <1> HIDE DEF Begin
  <1>11. Len(h[n]) = l /\ h[n][l] = Begin(n) /\ \A j \in 1..l : j # l => h[n][j] = p[j]
    BY <1>8
  <1> QED
    BY <1>3, <1>9, <1>10, <1>11 DEF Begin, last, l

\* A separator ends the last part.
LEMMA SplitsEnd ==
    ASSUME NEW p \in Pieces, NEW c \in Chars
    PROVE  Splits(p, <<c>>, c) = Append(p, <<>>)
  <1>1. <<c>> \in Texts /\ Len(<<c>>) = 1 /\ <<c>>[1] = c
    BY DEF Texts
  <1>2. PICK h : SplitRow(h, p, <<c>>, c)
    BY <1>1, SplitsAre
  <1>3. h[0] = p /\ h[1] = Splits(p, <<c>>, c) /\ h[1] = SplitStep(h[1 - 1], c, c)
    BY <1>1, <1>2 DEF SplitRow
  <1> QED
    BY <1>3 DEF SplitStep

\* How often a separator comes in a text.
Counts(cnt, text, separator) ==
    /\ cnt[0] = 0
    /\ \A k \in 1..Len(text) :
         cnt[k] \in Nat /\ cnt[k] = cnt[k - 1] + (IF text[k] = separator THEN 1 ELSE 0)

\* What a text makes of parts.
Extended(p, q, w) ==
    /\ q \in Pieces /\ Len(q) = Len(p) /\ q[Len(p)] = p[Len(p)] \o w
    /\ \A j \in 1..Len(p) : j # Len(p) => q[j] = p[j]
Counted(p, q, m) == q \in Pieces /\ Len(q) = Len(p) + m
Kept(p, q) == \A j \in 1..Len(p) : q[j] = p[j]

LEMMA WordExtends ==
    ASSUME NEW p \in Pieces, NEW w \in Texts, NEW separator, \A i \in 1..Len(w) : w[i] # separator
    PROVE  Extended(p, Splits(p, w, separator), w)
  BY SplitsWord DEF Extended

\* The number of parts is that of the separators, which cnt counts; a text
\* that begins with one leaves the parts that there were, and one that ends
\* with one leaves the last part empty.
LEMMA SplitsCount ==
    ASSUME NEW p \in Pieces, NEW text \in Texts, NEW separator, NEW cnt, Counts(cnt, text, separator)
    PROVE  LET q == Splits(p, text, separator)
           IN  /\ Counted(p, q, cnt[Len(text)])
               /\ text # <<>> /\ text[1] = separator => Kept(p, q)
               /\ text # <<>> /\ text[Len(text)] = separator => q[Len(q)] = <<>>
  <1> DEFINE n == Len(text)
             l == Len(p)
  <1>1. n \in Nat /\ l \in Nat /\ l >= 1 /\ (\A i \in 1..n : text[i] \in Chars) /\ (text # <<>> => n >= 1)
    BY PartsAre, TextsAre, EmptySeq DEF Texts
  <1>2. PICK h : SplitRow(h, p, text, separator)
    BY SplitsAre
  <1> HIDE DEF n, l
  <1>3. /\ h[0] = p /\ h[n] = Splits(p, text, separator) /\ \A k \in 0..n : h[k] \in Pieces
        /\ \A k \in 1..n : k - 1 \in 0..n /\ h[k] = SplitStep(h[k - 1], text[k], separator)
    BY <1>2 DEF SplitRow, n
  <1>4. \A k \in 1..n : cnt[k] \in Nat /\ cnt[k] = cnt[k - 1] + (IF text[k] = separator THEN 1 ELSE 0)
    BY DEF n, Counts
  <1> DEFINE Keeps(k) == text[1] = separator => cnt[k] >= 1 /\ \A j \in 1..l : h[k][j] = p[j]
             Good == {k \in Nat : /\ cnt[k] \in Nat /\ Len(h[k]) = l + cnt[k]
                                  /\ k >= 1 => Keeps(k)}
  <1>5. 0 \in Good
    BY <1>1, <1>3 DEF l, Counts
  <1>6. ASSUME NEW k \in 1..n, k - 1 \in Good PROVE k \in Good
    <2> DEFINE s == h[k - 1]
               c == text[k]
               t == h[k]
    <2>1. s \in Pieces /\ c \in Chars /\ t = SplitStep(s, c, separator) /\ k \in Nat /\ k >= 1
      BY <1>1, <1>3
    <2>2. /\ cnt[k - 1] \in Nat /\ Len(s) = l + cnt[k - 1] /\ (k - 1 >= 1 => Keeps(k - 1))
          /\ cnt[k] \in Nat /\ cnt[k] = cnt[k - 1] + (IF c = separator THEN 1 ELSE 0)
      BY <1>4, <1>6
    <2> HIDE DEF s, c, t
    <2>3. IF c = separator
          THEN Len(t) = Len(s) + 1 /\ \A j \in 1..Len(s) : t[j] = s[j]
          ELSE Len(t) = Len(s) /\ \A j \in 1..Len(s) : j # Len(s) => t[j] = s[j]
      BY <2>1, StepParts
    <2>4. Len(t) = l + cnt[k]
      BY <1>1, <2>2, <2>3
    <2>5. ASSUME text[1] = separator
          PROVE  cnt[k] >= 1 /\ \A j \in 1..l : t[j] = p[j]
      <3>1. CASE k = 1
        <4>1. c = separator /\ s = p
          BY <1>3, <2>5, <3>1 DEF s, c
        <4> QED
          BY <2>2, <2>3, <4>1 DEF l
      <3>2. CASE k # 1
        <4>1. cnt[k - 1] >= 1 /\ \A j \in 1..l : s[j] = p[j]
          BY <2>1, <2>2, <2>5, <3>2 DEF s
        <4>2. cnt[k] >= 1
          BY <2>2, <4>1
        <4>3. \A j \in 1..l : j \in 1..Len(s) /\ j # Len(s)
          BY <1>1, <2>2, <4>1
        <4> QED
          BY <2>3, <4>1, <4>2, <4>3
      <3> QED
        BY <3>1, <3>2
    <2> QED
      BY <2>1, <2>2, <2>4, <2>5 DEF t
  <1>7. n \in Good
    <2> HIDE DEF Good
    <2>1. n \in 0..n
      BY <1>1
    <2> QED
      BY <1>1, <1>5, <1>6, <2>1, AlongRow
  <1>8. h[n] \in Pieces /\ Len(h[n]) = l + cnt[n] /\ (n >= 1 => Keeps(n))
    BY <1>1, <1>3, <1>7
  <1>9. n >= 1 /\ text[n] = separator => h[n][Len(h[n])] = <<>>
    <2> HAVE n >= 1 /\ text[n] = separator
    <2>1. n \in 1..n
      BY <1>1
    <2> QED
      BY <1>1, <1>3, <2>1, StepParts, SMTT(60)
  <1> DEFINE q == h[n]
  <1>10. q = Splits(p, text, separator)
    BY <1>3
  <1>11. /\ q \in Pieces /\ Len(q) = l + cnt[n]
         /\ text # <<>> /\ text[1] = separator => \A j \in 1..l : q[j] = p[j]
         /\ text # <<>> /\ text[n] = separator => q[Len(q)] = <<>>
    BY <1>1, <1>8, <1>9
  <1> HIDE DEF q
  <1> QED
    BY <1>10, <1>11 DEF n, l, Counted, Kept

-----------------------------------------------------------------------------
(* The parts of a fragment.  The words that are given hold no separator,   *)
(* so that the only separators are those of the fixed text.                *)

Opening == <<"AuthorizedKeysCommand", Blank>>
Between == <<Blank, "verify", Blank, "--config", Blank>>
Closing == <<Blank, "--user", Blank, "%", "u", Blank, "--key", Blank, "%", "k", Blank, "--key-type", Blank, "%", "t",
             NewLine, "AuthorizedKeysCommandUser", Blank>>
Arguments == SubSeq(Closing, 1, 15)
UserName == <<"AuthorizedKeysCommandUser", Blank>>
LineEnd == <<NewLine>>

\* A word that a fragment may be given.
Plain(w) == w \in Texts /\ \A i \in 1..Len(w) : w[i] \notin {Blank, NewLine, "%"}

LEMMA PlainPath ==
    ASSUME NEW w \in Seq(STRING), ToSet(w) \subseteq PathChars
    PROVE  Plain(w)
  <1>1. w \in Texts
    <2>1. STRING \subseteq Chars
      BY DEF Chars
    <2> QED
      BY <2>1, SeqMonotonic DEF Texts
  <1>2. DOMAIN w = 1..Len(w)
    BY <1>1, TextsAre
  <1>3. PathChars \cap {Blank, NewLine, "%"} = {}
    BY DEF PathChars, Letters, Numerals, Blank, NewLine
  <1> QED
    BY <1>1, <1>2, <1>3 DEF Plain, ToSet

LEMMA FixedTexts ==
    ASSUME NEW t \in Seq(FixedWords)
    PROVE  t \in Texts
  BY SeqMonotonic DEF Texts, Chars

LEMMA OpeningIs ==
    /\ Opening \in Texts /\ Len(Opening) = 2 /\ Opening[1] = "AuthorizedKeysCommand" /\ Opening[2] = Blank
  <1>1. Opening \in Seq(FixedWords)
    BY DEF Opening, FixedWords
  <1> QED
    BY <1>1, FixedTexts DEF Opening

LEMMA BetweenIs ==
    /\ Between \in Texts /\ Len(Between) = 5 /\ Between[1] = Blank /\ Between[2] = "verify"
    /\ Between[3] = Blank /\ Between[4] = "--config" /\ Between[5] = Blank
  <1>1. Between \in Seq(FixedWords)
    BY DEF Between, FixedWords
  <1> QED
    BY <1>1, FixedTexts DEF Between

LEMMA UserNameIs ==
    /\ UserName \in Texts /\ Len(UserName) = 2 /\ UserName[1] = "AuthorizedKeysCommandUser"
    /\ UserName[2] = Blank /\ UserName = <<"AuthorizedKeysCommandUser">> \o <<Blank>>
    /\ <<"AuthorizedKeysCommandUser">> \in Texts /\ <<Blank>> \in Texts /\ LineEnd \in Texts
    /\ Len(<<"AuthorizedKeysCommandUser">>) = 1 /\ Len(LineEnd) = 1 /\ LineEnd[1] = NewLine
    /\ <<"AuthorizedKeysCommandUser">>[1] = "AuthorizedKeysCommandUser" /\ {Blank, NewLine} \subseteq Chars
  <1>1. /\ UserName \in Seq(FixedWords) /\ LineEnd \in Seq(FixedWords) /\ <<Blank>> \in Seq(FixedWords)
        /\ <<"AuthorizedKeysCommandUser">> \in Seq(FixedWords)
    BY DEF UserName, LineEnd, FixedWords
  <1>2. UserName = <<"AuthorizedKeysCommandUser">> \o <<Blank>>
    BY DEF UserName
  <1>3. {Blank, NewLine} \subseteq Chars
    BY DEF Chars, FixedWords
  <1> QED
    BY <1>1, <1>2, <1>3, FixedTexts DEF UserName, LineEnd

LEMMA ClosingIs ==
    /\ Closing \in Texts /\ Len(Closing) = 18
    /\ Closing[1] = Blank /\ Closing[2] = "--user" /\ Closing[3] = Blank /\ Closing[4] = "%"
    /\ Closing[5] = "u" /\ Closing[6] = Blank /\ Closing[7] = "--key" /\ Closing[8] = Blank
    /\ Closing[9] = "%" /\ Closing[10] = "k" /\ Closing[11] = Blank /\ Closing[12] = "--key-type"
    /\ Closing[13] = Blank /\ Closing[14] = "%" /\ Closing[15] = "t" /\ Closing[16] = NewLine
    /\ Closing[17] = "AuthorizedKeysCommandUser" /\ Closing[18] = Blank
  <1>1. Closing \in Seq(FixedWords)
    BY DEF Closing, FixedWords
  <1>2. Closing \in Texts
    BY <1>1, FixedTexts
  <1> QED
    BY <1>2 DEF Closing

LEMMA ClosingParts ==
    /\ Closing = Arguments \o (LineEnd \o UserName)
    /\ Arguments \in Texts /\ Len(Arguments) = 15
    /\ \A i \in 1..15 : Arguments[i] = Closing[i]
  <1>1. Closing \in Seq(Chars) /\ Len(Closing) = 18
    BY ClosingIs DEF Texts
  <1>2. \A i \in 1..18 : Closing[i] \in Chars
    <2>1. \A i \in 1..Len(Closing) : Closing[i] \in Chars
      BY <1>1, ElementOfSeq
    <2> QED
      BY <1>1, <2>1
  <1>3. Arguments \in Texts /\ Len(Arguments) = 15 /\ \A i \in 1..15 : Arguments[i] = Closing[i]
    <2>1. \A i \in 1..15 : Closing[i] \in Chars
      BY <1>2
    <2>2. /\ SubSeq(Closing, 1, 15) \in Seq(Chars)
          /\ Len(SubSeq(Closing, 1, 15)) = IF 1 <= 15 THEN 15 - 1 + 1 ELSE 0
          /\ \A i \in 1..15 - 1 + 1 : SubSeq(Closing, 1, 15)[i] = Closing[1 + i - 1]
      BY <2>1, SubSeqProperties
    <2>3. \A i \in 1..15 : 1 + i - 1 = i
      OBVIOUS
    <2> QED
      BY <2>2, <2>3 DEF Arguments, Texts
  <1>4. SubSeq(Closing, 17, 18) = UserName
    <2> DEFINE s == SubSeq(Closing, 17, 18)
    <2>1. \A i \in 17..18 : Closing[i] \in Chars
      BY <1>2
    <2>2. /\ s \in Seq(Chars) /\ Len(s) = IF 17 <= 18 THEN 18 - 17 + 1 ELSE 0
          /\ \A i \in 1..18 - 17 + 1 : s[i] = Closing[17 + i - 1]
      BY <2>1, SubSeqProperties
    <2> HIDE DEF s
    <2>3. Len(s) = 2 /\ s[1] = Closing[17] /\ s[2] = Closing[18]
      BY <2>2
    <2>4. UserName \in Seq(Chars) /\ Len(UserName) = 2 /\ UserName[1] = s[1] /\ UserName[2] = s[2]
      BY <2>3, UserNameIs, ClosingIs DEF Texts
    <2>5. \A i \in 1..2 : i = 1 \/ i = 2
      OBVIOUS
    <2>6. \A i \in 1..Len(s) : s[i] = UserName[i]
      BY <2>3, <2>4, <2>5
    <2>7. s = UserName
      BY <2>2, <2>3, <2>4, <2>6, SeqEqual
    <2> QED
      BY <2>7 DEF s
  <1>5. SubSeq(Closing, 16, 18) = LineEnd \o UserName
    <2>1. SubSeq(Closing, 16, 18) = <<Closing[16]>> \o SubSeq(Closing, 16 + 1, 18)
      BY <1>1, SubSeqRecursiveFirst
    <2>2. 16 + 1 = 17 /\ Closing[16] = NewLine
      BY ClosingIs
    <2> QED
      BY <1>4, <2>1, <2>2 DEF LineEnd
  <1>6. SubSeq(Closing, 1, 15) \o SubSeq(Closing, 15 + 1, 18) = SubSeq(Closing, 1, 18)
    <2>1. 1 \in 1..Len(Closing) + 1 /\ 15 \in 1 - 1..Len(Closing) /\ 18 \in 15..Len(Closing)
      BY <1>1
    <2> QED
      BY <1>1, <2>1, ConcatAdjacentSubSeq
  <1>7. SubSeq(Closing, 1, 18) = Closing
    BY <1>1, SubSeqFull
  <1>8. 15 + 1 = 16
    OBVIOUS
  <1> QED
    BY <1>3, <1>5, <1>6, <1>7, <1>8 DEF Arguments

\* A fragment and its first line are pieces one after another.
Line(c, v) == (((Opening \o v) \o Between) \o c) \o Arguments

LEMMA LineSplits ==
    ASSUME NEW p \in Pieces, NEW c \in Texts, NEW v \in Texts, NEW separator
    PROVE  LET p1 == Splits(p, Opening, separator)
               p2 == Splits(p1, v, separator)
               p3 == Splits(p2, Between, separator)
               p4 == Splits(p3, c, separator)
           IN  /\ {p1, p2, p3, p4} \subseteq Pieces
               /\ ((Opening \o v) \o Between) \o c \in Texts
               /\ Splits(p, ((Opening \o v) \o Between) \o c, separator) = p4
  <1> DEFINE p1 == Splits(p, Opening, separator)
             p2 == Splits(p1, v, separator)
             p3 == Splits(p2, Between, separator)
             p4 == Splits(p3, c, separator)
             t2 == Opening \o v
             t3 == t2 \o Between
             t4 == t3 \o c
  <1>1. t2 \in Texts
    BY OpeningIs, TextsAre
  <1>2. p1 \in Pieces /\ Splits(p, t2, separator) = p2
    BY OpeningIs, SplitsConcat
  <1> HIDE DEF p1, t2
  <1>3. t3 \in Texts
    BY <1>1, BetweenIs, TextsAre
  <1>4. p2 \in Pieces /\ Splits(p, t3, separator) = p3
    BY <1>1, <1>2, BetweenIs, SplitsConcat
  <1> HIDE DEF p2, t3
  <1>5. t4 \in Texts
    BY <1>3, TextsAre
  <1>6. p3 \in Pieces /\ Splits(p, t4, separator) = p4
    BY <1>3, <1>4, BetweenIs, SplitsConcat
  <1> HIDE DEF p3, t4
  <1>7. p4 \in Pieces
    BY <1>6, SplitsConcat
  <1> QED
    BY <1>2, <1>4, <1>5, <1>6, <1>7 DEF p1, p2, p3, p4, t2, t3, t4

LEMMA FragmentIs ==
    ASSUME NEW c, NEW v, NEW u
    PROVE  Fragment(c, v, u) = (((((Opening \o v) \o Between) \o c) \o Closing) \o u) \o LineEnd
  BY DEF Fragment, Opening, Between, Closing, LineEnd

LEMMA FragmentSplits ==
    ASSUME NEW p \in Pieces, NEW c \in Texts, NEW v \in Texts, NEW u \in Texts, NEW separator
    PROVE  LET p4 == Splits(p, ((Opening \o v) \o Between) \o c, separator)
               p5 == Splits(p4, Closing, separator)
               p6 == Splits(p5, u, separator)
           IN  /\ {p4, p5, p6} \subseteq Pieces
               /\ Splits(p, Fragment(c, v, u), separator) = Splits(p6, LineEnd, separator)
  <1> DEFINE t4 == ((Opening \o v) \o Between) \o c
             t5 == t4 \o Closing
             t6 == t5 \o u
             t7 == t6 \o LineEnd
             p4 == Splits(p, t4, separator)
             p5 == Splits(p4, Closing, separator)
             p6 == Splits(p5, u, separator)
  <1>1. Fragment(c, v, u) = t7
    BY FragmentIs
  <1>2. t4 \in Texts /\ p4 \in Pieces
    <2>1. t4 \in Texts
      BY LineSplits
    <2> HIDE DEF t4
    <2> QED
      BY <2>1, SplitsConcat
  <1> HIDE DEF t4
  <1>3. t5 \in Texts /\ p5 \in Pieces /\ Splits(p, t5, separator) = p5
    <2>1. t5 \in Texts
      BY <1>2, ClosingIs, TextsAre
    <2>2. Splits(p, t5, separator) = p5
      BY <1>2, ClosingIs, SplitsConcat
    <2> HIDE DEF p4
    <2>3. p5 \in Pieces
      BY <1>2, ClosingIs, SplitsConcat
    <2> QED
      BY <2>1, <2>2, <2>3
  <1> HIDE DEF p4, t5
  <1>4. t6 \in Texts /\ Splits(p, t6, separator) = p6
    BY <1>3, TextsAre, SplitsConcat
  <1> HIDE DEF p5, t6
  <1>5. p6 \in Pieces
    BY <1>3, SplitsConcat
  <1>6. Splits(p, t7, separator) = Splits(p6, LineEnd, separator)
    BY <1>4, UserNameIs, SplitsConcat
  <1> HIDE DEF t7, p6
  <1>7. Splits(p, Fragment(c, v, u), separator) = Splits(p6, LineEnd, separator)
    BY <1>1, <1>6
  <1> QED
    BY <1>2, <1>3, <1>5, <1>7 DEF p4, p5, p6, t4

\* One or two parts, and what a word and a separator make of them.
One(p, t) == p \in Pieces /\ Len(p) = 1 /\ p[1] = t
Two(p, s, t) == p \in Pieces /\ Len(p) = 2 /\ p[1] = s /\ p[2] = t
NoParts == << <<>> >>

LEMMA FirstPart == One(NoParts, <<>>)
  <1> DEFINE e == <<>>
  <1>1. e \in Texts
    BY EmptyText
  <1> HIDE DEF e
  <1>2. <<e>> \in Pieces /\ Len(<<e>>) = 1 /\ <<e>>[1] = e
    BY <1>1 DEF Pieces
  <1> QED
    BY <1>2 DEF One, NoParts, e

LEMMA SplitIs ==
    ASSUME NEW text, NEW separator
    PROVE  Split(text, separator) = Splits(NoParts, text, separator)
  BY DEF Split, Splits, NoParts

LEMMA OneWord ==
    ASSUME NEW p, NEW t, One(p, t), NEW w \in Texts, NEW separator, \A i \in 1..Len(w) : w[i] # separator
    PROVE  One(Splits(p, w, separator), t \o w)
  BY SplitsWord, SMTT(60) DEF One

LEMMA TwoWords ==
    ASSUME NEW p, NEW s, NEW t, Two(p, s, t), NEW w \in Texts, NEW separator,
           \A i \in 1..Len(w) : w[i] # separator
    PROVE  Two(Splits(p, w, separator), s, t \o w)
  <1> DEFINE q == Splits(p, w, separator)
  <1>1. p \in Pieces /\ Len(p) = 2 /\ p[1] = s /\ p[2] = t
    BY DEF Two
  <1>2. /\ q \in Pieces /\ Len(q) = Len(p) /\ q[Len(p)] = p[Len(p)] \o w
        /\ \A j \in 1..Len(p) : j # Len(p) => q[j] = p[j]
    BY <1>1, SplitsWord, SMTT(60)
  <1> HIDE DEF q
  <1>3. Two(q, s, t \o w)
    BY <1>1, <1>2 DEF Two
  <1> QED
    BY <1>3 DEF q

LEMMA OneEnd ==
    ASSUME NEW p, NEW t, One(p, t), NEW c \in Chars
    PROVE  Two(Splits(p, <<c>>, c), t, <<>>)
  <1>1. p \in Pieces /\ Len(p) = 1 /\ p[1] = t
    BY DEF One
  <1> DEFINE q == SplitStep(p, c, c)
  <1>2. Splits(p, <<c>>, c) = q
    BY <1>1, SplitsEnd DEF SplitStep
  <1>3. q \in Pieces /\ Len(q) = Len(p) + 1 /\ q[Len(q)] = <<>> /\ \A j \in 1..Len(p) : q[j] = p[j]
    BY <1>1, StepParts
  <1> HIDE DEF q
  <1>4. Len(q) = 2 /\ q[2] = <<>>
    BY <1>1, <1>3
  <1>5. q[1] = t
    BY <1>1, <1>3
  <1> QED
    BY <1>2, <1>3, <1>4, <1>5 DEF Two

\* The lines of a fragment.
LEMMA FragmentLines ==
    ASSUME NEW c, NEW v, NEW u, Plain(c), Plain(v), Plain(u)
    PROVE  LET lines == Split(Fragment(c, v, u), NewLine)
           IN  Len(lines) = 3 /\ lines[1] = Line(c, v) /\ lines[2] = UserName \o u
  <1>1. {c, v, u} \subseteq Texts
    BY DEF Plain
  <1> DEFINE t4 == ((Opening \o v) \o Between) \o c
             p1 == Splits(NoParts, Opening, NewLine)
             p2 == Splits(p1, v, NewLine)
             p3 == Splits(p2, Between, NewLine)
             p4 == Splits(p3, c, NewLine)
             a5 == Splits(p4, Arguments, NewLine)
             b5 == Splits(a5, LineEnd, NewLine)
             p5 == Splits(b5, UserName, NewLine)
             p6 == Splits(p5, u, NewLine)
  <1>2. NoParts \in Pieces
    BY FirstPart DEF One
  <1>3. Splits(NoParts, t4, NewLine) = p4
    BY <1>1, <1>2, LineSplits
  <1>4. /\ \A i \in 1..Len(Opening) : Opening[i] # NewLine
        /\ \A i \in 1..Len(Between) : Between[i] # NewLine
    <2>1. /\ \A i \in 1..2 : i = 1 \/ i = 2
          /\ \A i \in 1..5 : i = 1 \/ i = 2 \/ i = 3 \/ i = 4 \/ i = 5
      OBVIOUS
    <2>2. NewLine # Blank /\ NewLine \notin {"AuthorizedKeysCommand", "verify", "--config"}
      BY DEF NewLine, Blank
    <2> QED
      BY <2>1, <2>2, OpeningIs, BetweenIs
  <1>5. One(p1, Opening)
    <2>1. One(p1, <<>> \o Opening)
      BY <1>4, FirstPart, OpeningIs, OneWord
    <2>2. <<>> \o Opening = Opening
      BY OpeningIs, ConcatEmptySeq DEF Texts
    <2> QED
      BY <2>1, <2>2
  <1> HIDE DEF p1
  <1>6. One(p2, Opening \o v)
    BY <1>1, <1>5, OneWord DEF Plain
  <1> HIDE DEF p2
  <1>7. One(p3, (Opening \o v) \o Between)
    BY <1>4, <1>6, BetweenIs, OneWord
  <1> HIDE DEF p3
  <1>8. One(p4, t4)
    BY <1>1, <1>7, OneWord DEF Plain
  <1>9. One(a5, Line(c, v))
    <2>1. \A i \in 1..15 : Arguments[i] # NewLine
      <3>1. \A i \in 1..15 : \/ i = 1 \/ i = 2 \/ i = 3 \/ i = 4 \/ i = 5 \/ i = 6 \/ i = 7 \/ i = 8
                             \/ i = 9 \/ i = 10 \/ i = 11 \/ i = 12 \/ i = 13 \/ i = 14 \/ i = 15
        OBVIOUS
      <3>2. NewLine # Blank /\ NewLine \notin {"--user", "%", "u", "--key", "k", "--key-type", "t"}
        BY DEF NewLine, Blank
      <3>3. \A i \in 1..15 : Closing[i] # NewLine
        BY <3>1, <3>2, ClosingIs
      <3> QED
        BY <3>3, ClosingParts
    <2> HIDE DEF p4
    <2>2. One(a5, t4 \o Arguments)
      BY <1>8, <2>1, ClosingParts, OneWord
    <2> QED
      BY <2>2 DEF Line
  <1> DEFINE line == Line(c, v)
  <1>10. Two(b5, line, <<>>)
    <2> HIDE DEF a5
    <2>1. LineEnd = <<NewLine>> /\ NewLine \in Chars
      BY UserNameIs DEF LineEnd
    <2> QED
      BY <1>9, <2>1, OneEnd
  <1>11. Two(p5, line, UserName)
    <2> HIDE DEF b5, line
    <2>1. \A i \in 1..Len(UserName) : UserName[i] # NewLine
      <3>1. \A i \in 1..2 : i = 1 \/ i = 2
        OBVIOUS
      <3>2. NewLine # Blank /\ NewLine # "AuthorizedKeysCommandUser"
        BY DEF NewLine, Blank
      <3> QED
        BY <3>1, <3>2, UserNameIs
    <2>2. Two(p5, line, <<>> \o UserName)
      BY <1>10, <2>1, UserNameIs, TwoWords
    <2>3. <<>> \o UserName = UserName
      BY UserNameIs, ConcatEmptySeq DEF Texts
    <2> QED
      BY <2>2, <2>3
  <1>12. Two(p6, line, UserName \o u)
    <2> HIDE DEF p5, line
    <2> QED
      BY <1>1, <1>11, TwoWords DEF Plain
  <1>13. Splits(p4, Closing, NewLine) = p5
    <2>1. p4 \in Pieces
      BY <1>8 DEF One
    <2> HIDE DEF p4
    <2>2. LineEnd \o UserName \in Texts
      BY UserNameIs, TextsAre
    <2>3. Splits(p4, Closing, NewLine) = Splits(a5, LineEnd \o UserName, NewLine) /\ a5 \in Pieces
      BY <2>1, <2>2, ClosingParts, SplitsConcat
    <2> HIDE DEF a5
    <2>4. Splits(a5, LineEnd \o UserName, NewLine) = p5
      BY <2>3, UserNameIs, SplitsConcat
    <2> QED
      BY <2>3, <2>4
  <1>14. Splits(NoParts, Fragment(c, v, u), NewLine) = Splits(p6, LineEnd, NewLine)
    <2> HIDE DEF p5, p4
    <2> QED
      BY <1>1, <1>2, <1>3, <1>13, FragmentSplits
  <1> HIDE DEF p6, line
  <1>15. Splits(p6, LineEnd, NewLine) = Append(p6, <<>>)
    <2>1. p6 \in Pieces /\ NewLine \in Chars /\ LineEnd = <<NewLine>>
      BY <1>12, UserNameIs DEF Two, LineEnd
    <2> QED
      BY <2>1, SplitsEnd
  <1> DEFINE lines == Append(p6, <<>>)
  <1>16. Len(lines) = 3 /\ lines[1] = line /\ lines[2] = UserName \o u
    <2>1. p6 \in Pieces /\ Len(p6) = 2 /\ p6[1] = line /\ p6[2] = UserName \o u
      BY <1>12 DEF Two
    <2>2. Len(lines) = Len(p6) + 1 /\ \A j \in 1..Len(p6) : lines[j] = p6[j]
      BY <2>1, UserNameIs, EndParts
    <2> HIDE DEF lines
    <2> QED
      BY <2>1, <2>2
  <1>17. Split(Fragment(c, v, u), NewLine) = lines
    BY <1>14, <1>15, SplitIs
  <1> HIDE DEF lines
  <1> QED
    BY <1>16, <1>17 DEF line

\* The words of the first line.
LEMMA LineWords ==
    ASSUME NEW c, NEW v, Plain(c), Plain(v)
    PROVE  LET words == Split(Line(c, v), Blank)
           IN  Len(words) = 11 /\ words[2] = v /\ words[5] = c
  <1>1. {c, v} \subseteq Texts
    BY DEF Plain
  <1> DEFINE t4 == ((Opening \o v) \o Between) \o c
             p1 == Splits(NoParts, Opening, Blank)
             p2 == Splits(p1, v, Blank)
             p3 == Splits(p2, Between, Blank)
             p4 == Splits(p3, c, Blank)
             p5 == Splits(p4, Arguments, Blank)
  <1>2. NoParts \in Pieces /\ Len(NoParts) = 1
    BY FirstPart DEF One
  <1>3. t4 \in Texts /\ Splits(NoParts, t4, Blank) = p4
    BY <1>1, <1>2, LineSplits
  <1>4. Splits(NoParts, Line(c, v), Blank) = p5
    <2> HIDE DEF t4, p4
    <2>1. Splits(NoParts, t4 \o Arguments, Blank) = p5
      BY <1>2, <1>3, ClosingParts, SplitsConcat
    <2> QED
      BY <2>1 DEF Line, t4
  <1>5. Blank \notin {"AuthorizedKeysCommand", "verify", "--config", "--user", "%", "u", "--key", "k",
                      "--key-type", "t"}
    BY DEF Blank
  <1>6. p1 \in Pieces /\ Len(p1) = 2 /\ p1[2] = <<>>
    <2> DEFINE cnt == [k \in 0..2 |-> IF k < 2 THEN 0 ELSE 1]
    <2>1. cnt[0] = 0 /\ cnt[1] = 0 /\ cnt[2] = 1
      OBVIOUS
    <2>2. \A k \in 1..2 : k = 1 \/ k = 2
      OBVIOUS
    <2> HIDE DEF cnt
    <2>3. Counts(cnt, Opening, Blank)
      BY <1>5, <2>1, <2>2, OpeningIs DEF Counts
    <2>4. Opening # <<>> /\ Opening[Len(Opening)] = Blank
      BY OpeningIs
    <2>5. LET q == Splits(NoParts, Opening, Blank)
          IN  Counted(NoParts, q, cnt[Len(Opening)]) /\ q[Len(q)] = <<>>
      BY <1>2, <2>3, <2>4, OpeningIs, SplitsCount
    <2> QED
      BY <1>2, <2>1, <2>5, OpeningIs DEF Counted
  <1> HIDE DEF p1
  <1>7. p2 \in Pieces /\ Len(p2) = 2 /\ p2[2] = v
    <2>1. \A i \in 1..Len(v) : v[i] # Blank
      BY DEF Plain
    <2>2. p2 \in Pieces /\ Len(p2) = Len(p1) /\ p2[Len(p1)] = p1[Len(p1)] \o v
      BY <1>1, <1>6, <2>1, SplitsWord, ZenonT(60)
    <2>3. <<>> \o v = v
      BY <1>1, ConcatEmptySeq DEF Texts
    <2> QED
      BY <1>6, <2>2, <2>3
  <1> HIDE DEF p2
  <1>8. p3 \in Pieces /\ Len(p3) = 5 /\ p3[2] = v /\ p3[5] = <<>>
    <2> DEFINE cnt == [k \in 0..5 |-> IF k < 1 THEN 0 ELSE IF k < 3 THEN 1 ELSE IF k < 5 THEN 2 ELSE 3]
    <2>1. cnt[0] = 0 /\ cnt[1] = 1 /\ cnt[2] = 1 /\ cnt[3] = 2 /\ cnt[4] = 2 /\ cnt[5] = 3
      OBVIOUS
    <2>2. \A k \in 1..5 : k = 1 \/ k = 2 \/ k = 3 \/ k = 4 \/ k = 5
      OBVIOUS
    <2> HIDE DEF cnt
    <2>3. Counts(cnt, Between, Blank)
      BY <1>5, <2>1, <2>2, BetweenIs DEF Counts
    <2>4. Between # <<>> /\ Between[1] = Blank /\ Between[Len(Between)] = Blank
      BY BetweenIs
    <2>5. LET q == Splits(p2, Between, Blank)
          IN  Counted(p2, q, cnt[Len(Between)]) /\ q[Len(q)] = <<>> /\ Kept(p2, q)
      BY <1>7, <2>3, <2>4, BetweenIs, SplitsCount
    <2> HIDE DEF p3
    <2>6. /\ p3 \in Pieces /\ Len(p3) = 2 + 3 /\ p3[Len(p3)] = <<>>
          /\ \A j \in 1..2 : p3[j] = p2[j]
      BY <1>7, <2>1, <2>5, BetweenIs DEF p3, Counted, Kept
    <2> QED
      BY <1>7, <2>6
  <1> HIDE DEF p3
  <1>9. p4 \in Pieces /\ Len(p4) = 5 /\ p4[2] = v /\ p4[5] = c
    <2>1. \A i \in 1..Len(c) : c[i] # Blank
      BY DEF Plain
    <2>2. Extended(p3, p4, c)
      BY <1>1, <1>8, <2>1, WordExtends
    <2>3. <<>> \o c = c
      BY <1>1, ConcatEmptySeq DEF Texts
    <2> HIDE DEF p4
    <2>4. /\ p4 \in Pieces /\ Len(p4) = Len(p3) /\ p4[Len(p3)] = p3[Len(p3)] \o c
          /\ \A j \in 1..Len(p3) : j # Len(p3) => p4[j] = p3[j]
      BY <2>2 DEF Extended
    <2>5. Len(p3) = 5 /\ 2 \in 1..5 /\ 2 # 5
      BY <1>8
    <2>6. Len(p4) = 5 /\ p4[5] = p3[5] \o c /\ p4[2] = p3[2]
      BY <2>4, <2>5
    <2> QED
      BY <1>8, <2>3, <2>4, <2>6, Zenon
  <1> HIDE DEF p4
  <1>10. p5 \in Pieces /\ Len(p5) = 11 /\ p5[2] = v /\ p5[5] = c
    <2> DEFINE cnt == [k \in 0..15 |-> IF k < 1 THEN 0 ELSE IF k < 3 THEN 1 ELSE IF k < 6 THEN 2
                                       ELSE IF k < 8 THEN 3 ELSE IF k < 11 THEN 4
                                       ELSE IF k < 13 THEN 5 ELSE 6]
    <2>1. /\ cnt[0] = 0 /\ cnt[1] = 1 /\ cnt[2] = 1 /\ cnt[3] = 2 /\ cnt[4] = 2 /\ cnt[5] = 2
          /\ cnt[6] = 3 /\ cnt[7] = 3 /\ cnt[8] = 4 /\ cnt[9] = 4 /\ cnt[10] = 4 /\ cnt[11] = 5
          /\ cnt[12] = 5 /\ cnt[13] = 6 /\ cnt[14] = 6 /\ cnt[15] = 6
      OBVIOUS
    <2>2. \A k \in 1..15 : \/ k = 1 \/ k = 2 \/ k = 3 \/ k = 4 \/ k = 5 \/ k = 6 \/ k = 7 \/ k = 8
                           \/ k = 9 \/ k = 10 \/ k = 11 \/ k = 12 \/ k = 13 \/ k = 14 \/ k = 15
      OBVIOUS
    <2> HIDE DEF cnt
    <2>3. \A k \in 1..15 : cnt[k] \in Nat /\ cnt[k] = cnt[k - 1] + (IF Closing[k] = Blank THEN 1 ELSE 0)
      BY <1>5, <2>1, <2>2, ClosingIs
    <2>4. Counts(cnt, Arguments, Blank)
      BY <2>1, <2>3, ClosingParts DEF Counts
    <2>5. Arguments # <<>> /\ Arguments[1] = Blank
      <3>1. Len(Arguments) # Len(<<>>) /\ 1 \in 1..15
        BY ClosingParts
      <3> QED
        BY <3>1, ClosingParts, ClosingIs
    <2>6. LET q == Splits(p4, Arguments, Blank)
          IN  Counted(p4, q, cnt[Len(Arguments)]) /\ Kept(p4, q)
      BY <1>9, <2>4, <2>5, ClosingParts, SplitsCount
    <2> HIDE DEF p5
    <2>7. p5 \in Pieces /\ Len(p5) = 5 + 6 /\ \A j \in 1..5 : p5[j] = p4[j]
      BY <1>9, <2>1, <2>6, ClosingParts DEF p5, Counted, Kept
    <2> QED
      BY <1>9, <2>7
  <1> HIDE DEF p5
  <1> QED
    BY <1>4, <1>10, SplitIs

\* The words of the second line.
LEMMA UserWords ==
    ASSUME NEW u, Plain(u)
    PROVE  Split(UserName \o u, Blank) = << <<"AuthorizedKeysCommandUser">>, u >>
  <1> DEFINE name == <<"AuthorizedKeysCommandUser">>
             p1 == Splits(NoParts, name, Blank)
             p2 == Splits(p1, <<Blank>>, Blank)
             p3 == Splits(p2, u, Blank)
  <1>1. u \in Texts /\ \A i \in 1..Len(u) : u[i] # Blank
    BY DEF Plain
  <1>2. name \in Texts /\ \A i \in 1..Len(name) : name[i] # Blank
    <2>1. Blank # "AuthorizedKeysCommandUser" /\ \A i \in 1..1 : i = 1
      BY DEF Blank
    <2> QED
      BY <2>1, UserNameIs
  <1>3. UserName = name \o <<Blank>>
    BY UserNameIs
  <1> HIDE DEF name
  <1>4. NoParts \in Pieces
    BY FirstPart DEF One
  <1>5. One(p1, name)
    <2>1. One(p1, <<>> \o name)
      BY <1>2, FirstPart, OneWord
    <2>2. <<>> \o name = name
      BY <1>2, ConcatEmptySeq DEF Texts
    <2> QED
      BY <2>1, <2>2
  <1>6. Splits(NoParts, UserName, Blank) = p2
    BY <1>2, <1>3, <1>4, UserNameIs, SplitsConcat
  <1>7. Two(p2, name, <<>>)
    <2> HIDE DEF p1
    <2> QED
      BY <1>5, UserNameIs, OneEnd
  <1> HIDE DEF p2
  <1>8. Two(p3, name, u)
    <2>1. Two(p3, name, <<>> \o u)
      BY <1>1, <1>7, TwoWords
    <2>2. <<>> \o u = u
      BY <1>1, ConcatEmptySeq DEF Texts
    <2> QED
      BY <2>1, <2>2
  <1>9. Splits(NoParts, UserName \o u, Blank) = p3
    BY <1>1, <1>4, <1>6, UserNameIs, SplitsConcat
  <1> HIDE DEF p3
  <1>10. p3 = <<name, u>>
    <2>1. p3 \in Seq(Texts) /\ Len(p3) = 2 /\ p3[1] = name /\ p3[2] = u
      BY <1>8 DEF Two, Pieces
    <2>2. <<name, u>> \in Seq(Texts) /\ Len(<<name, u>>) = 2 /\ <<name, u>>[1] = name /\ <<name, u>>[2] = u
      BY <1>1, <1>2
    <2>3. \A i \in 1..2 : i = 1 \/ i = 2
      OBVIOUS
    <2> QED
      BY <2>1, <2>2, <2>3, SeqEqual
  <1> QED
    BY <1>9, <1>10, SplitIs DEF name

\* The percents of a fragment.
LEMMA FragmentPercents ==
    ASSUME NEW c, NEW v, NEW u, Plain(c), Plain(v), Plain(u)
    PROVE  Len(Split(Fragment(c, v, u), "%")) = 4
  <1> DEFINE x == "%"
             t4 == ((Opening \o v) \o Between) \o c
             p1 == Splits(NoParts, Opening, x)
             p2 == Splits(p1, v, x)
             p3 == Splits(p2, Between, x)
             p4 == Splits(p3, c, x)
             p5 == Splits(p4, Closing, x)
             p6 == Splits(p5, u, x)
             p7 == Splits(p6, LineEnd, x)
  <1>1. /\ {c, v, u} \subseteq Texts
        /\ \A i \in 1..Len(c) : c[i] # x
        /\ \A i \in 1..Len(v) : v[i] # x
        /\ \A i \in 1..Len(u) : u[i] # x
    BY DEF Plain
  <1>2. NoParts \in Pieces /\ Len(NoParts) = 1
    BY FirstPart DEF One
  <1>3. x \notin {Blank, NewLine, "AuthorizedKeysCommand", "AuthorizedKeysCommandUser", "verify", "--config",
                  "--user", "u", "--key", "k", "--key-type", "t"}
    BY DEF Blank, NewLine
  <1>4. Closing[4] = x /\ Closing[9] = x /\ Closing[14] = x
    BY ClosingIs
  <1> HIDE DEF x
  <1>5. Splits(NoParts, Fragment(c, v, u), x) = p7
    <2>1. Splits(NoParts, t4, x) = p4
      BY <1>1, <1>2, LineSplits
    <2> HIDE DEF p4
    <2> QED
      BY <1>1, <1>2, <2>1, FragmentSplits
  <1>6. /\ \A i \in 1..Len(Opening) : Opening[i] # x
        /\ \A i \in 1..Len(Between) : Between[i] # x
        /\ \A i \in 1..Len(LineEnd) : LineEnd[i] # x
    <2>1. /\ \A i \in 1..1 : i = 1
          /\ \A i \in 1..2 : i = 1 \/ i = 2
          /\ \A i \in 1..5 : i = 1 \/ i = 2 \/ i = 3 \/ i = 4 \/ i = 5
      OBVIOUS
    <2> QED
      BY <1>3, <2>1, OpeningIs, BetweenIs, UserNameIs
  <1>7. p1 \in Pieces /\ Len(p1) = 1
    BY <1>2, <1>6, OpeningIs, SplitsWord
  <1> HIDE DEF p1
  <1>8. p2 \in Pieces /\ Len(p2) = 1
    BY <1>1, <1>7, SplitsWord
  <1> HIDE DEF p2
  <1>9. p3 \in Pieces /\ Len(p3) = 1
    BY <1>6, <1>8, BetweenIs, SplitsWord
  <1> HIDE DEF p3
  <1>10. p4 \in Pieces /\ Len(p4) = 1
    BY <1>1, <1>9, SplitsWord
  <1> HIDE DEF p4
  <1>11. p5 \in Pieces /\ Len(p5) = 4
    <2> DEFINE cnt == [k \in 0..18 |-> IF k < 4 THEN 0 ELSE IF k < 9 THEN 1 ELSE IF k < 14 THEN 2 ELSE 3]
    <2>1. /\ cnt[0] = 0 /\ cnt[1] = 0 /\ cnt[2] = 0 /\ cnt[3] = 0 /\ cnt[4] = 1 /\ cnt[5] = 1
          /\ cnt[6] = 1 /\ cnt[7] = 1 /\ cnt[8] = 1 /\ cnt[9] = 2 /\ cnt[10] = 2 /\ cnt[11] = 2
          /\ cnt[12] = 2 /\ cnt[13] = 2 /\ cnt[14] = 3 /\ cnt[15] = 3 /\ cnt[16] = 3 /\ cnt[17] = 3
          /\ cnt[18] = 3
      OBVIOUS
    <2>2. \A k \in 1..18 : \/ k = 1 \/ k = 2 \/ k = 3 \/ k = 4 \/ k = 5 \/ k = 6 \/ k = 7 \/ k = 8
                           \/ k = 9 \/ k = 10 \/ k = 11 \/ k = 12 \/ k = 13 \/ k = 14 \/ k = 15
                           \/ k = 16 \/ k = 17 \/ k = 18
      OBVIOUS
    <2> HIDE DEF cnt
    <2>3. Counts(cnt, Closing, x)
      BY <1>3, <1>4, <2>1, <2>2, ClosingIs, SMTT(60) DEF Counts
    <2>4. LET q == Splits(p4, Closing, x)
          IN  Counted(p4, q, cnt[Len(Closing)])
      BY <1>10, <2>3, ClosingIs, SplitsCount
    <2> QED
      BY <1>10, <2>1, <2>4, ClosingIs DEF Counted
  <1> HIDE DEF p5
  <1>12. p6 \in Pieces /\ Len(p6) = 4
    BY <1>1, <1>11, SplitsWord
  <1> HIDE DEF p6
  <1>13. p7 \in Pieces /\ Len(p7) = 4
    BY <1>6, <1>12, UserNameIs, SplitsWord
  <1> QED
    BY <1>5, <1>13, SplitIs DEF x

-----------------------------------------------------------------------------
(* The fragment that a call of sshd-config render leaves.  It is made of   *)
(* the words that validate_render_path and valid_command_user let pass,    *)
(* and nothing but the next call changes it.                               *)

Allowed(config, verifier, user) ==
    /\ {config, verifier, user} \subseteq Seq(STRING)
    /\ validate_render_path(config) /\ validate_render_path(verifier) /\ valid_command_user(user)

FragmentInv ==
    LET config == Spelling[arguments[4]]
        verifier == Spelling[arguments[6]]
        user == Spelling[arguments[8]]
    IN  fragment # <<>> => Allowed(config, verifier, user) /\ fragment = Fragment(config, verifier, user)

\* sshd finds in a fragment what it was made of.
Found(text, config, verifier, user) ==
    LET lines == Split(text, NewLine)
        words == Split(lines[1], Blank)
    IN  /\ Len(lines) = 3 /\ Len(words) = 11
        /\ words[2] = verifier /\ words[2][1] = "/"
        /\ words[5] = config /\ words[5][1] = "/"
        /\ Split(lines[2], Blank) = << <<"AuthorizedKeysCommandUser">>, user >>
        /\ user # <<>> /\ user[1] # "-"
        /\ Len(Split(text, "%")) = 4

LEMMA AllowedIsFound ==
    ASSUME NEW config, NEW verifier, NEW user, Allowed(config, verifier, user)
    PROVE  Found(Fragment(config, verifier, user), config, verifier, user)
  <1> DEFINE text == Fragment(config, verifier, user)
             lines == Split(text, NewLine)
             words == Split(lines[1], Blank)
  <1>1. Plain(config) /\ Plain(verifier)
    BY PlainPath DEF Allowed, validate_render_path
  <1>2. Plain(user)
    <2>1. ToSet(user) \subseteq PathChars
      BY DEF Allowed, valid_command_user, PathChars
    <2> QED
      BY <2>1, PlainPath DEF Allowed
  <1>3. verifier[1] = "/" /\ config[1] = "/" /\ user # <<>> /\ user[1] # "-"
    BY DEF Allowed, validate_render_path, valid_command_user, Letters
  <1>4. Len(lines) = 3 /\ lines[1] = Line(config, verifier) /\ lines[2] = UserName \o user
    BY <1>1, <1>2, FragmentLines
  <1>5. Len(Split(text, "%")) = 4
    BY <1>1, <1>2, FragmentPercents
  <1> HIDE DEF lines
  <1>6. words = Split(Line(config, verifier), Blank)
    BY <1>4, Zenon
  <1>7. Len(words) = 11 /\ words[2] = verifier /\ words[5] = config
    BY <1>1, <1>6, LineWords
  <1>8. Split(lines[2], Blank) = << <<"AuthorizedKeysCommandUser">>, user >>
    <2>1. Split(UserName \o user, Blank) = << <<"AuthorizedKeysCommandUser">>, user >>
      BY <1>2, UserWords
    <2> QED
      BY <1>4, <2>1, Zenon
  <1> HIDE DEF words
  <1>9. words[2][1] = "/" /\ words[5][1] = "/"
    BY <1>3, <1>7, Zenon
  <1> QED
    BY <1>3, <1>4, <1>5, <1>7, <1>8, <1>9, Zenon DEF Found, lines, words, text

LEMMA RendersSpelled ==
    ASSUME DocumentsInv, arguments \in Seq(STRING), Renders
    PROVE  {Spelling[arguments[4]], Spelling[arguments[6]], Spelling[arguments[8]]} \subseteq Seq(STRING)
  <1>1. {arguments[4], arguments[6], arguments[8]} \subseteq DOMAIN Spelling
    BY RendersCommand DEF DocumentsInv, CallsAreSpelled, IsSpelled
  <1> QED
    BY <1>1, OptionsAssumption

LEMMA FragmentStays == FragmentInv /\ UNCHANGED <<arguments, fragment>> => FragmentInv'
  BY DEF FragmentInv

LEMMA WriteFragmentStep ==
    ASSUME DocumentsInv, arguments \in Seq(STRING), FragmentInv, Renders, WriteFragment
    PROVE  FragmentInv'
  <1> DEFINE config == Spelling[arguments[4]]
             verifier == Spelling[arguments[6]]
             user == Spelling[arguments[8]]
             Good(regularConfig, regularVerifier) ==
               Unless(validate_render_path(config), Malformed) ++ Unless(regularConfig, "state_invalid")
               ++ Unless(validate_render_path(verifier), Malformed) ++ Unless(regularVerifier, "state_invalid")
               ++ Unless(valid_command_user(user), Malformed)
  <1>1. {config, verifier, user} \subseteq Seq(STRING)
    BY RendersSpelled
  <1>2. ASSUME NEW a, NEW b, Good(a, b) = "none"
        PROVE  validate_render_path(config) /\ validate_render_path(verifier) /\ valid_command_user(user)
    BY <1>2 DEF ++, Unless, Malformed
  <1>3. PICK a \in BOOLEAN, b \in BOOLEAN :
          \/ Good(a, b) # "none" /\ Refuse(Good(a, b))
          \/ Good(a, b) = "none" /\ fragment' = Fragment(config, verifier, user) /\ Write
    BY DEF WriteFragment
  <1> HIDE DEF Good
  <1>4. CASE Good(a, b) # "none" /\ Refuse(Good(a, b))
    BY <1>4, FragmentStays DEF Refuse
  <1>5. CASE Good(a, b) = "none" /\ fragment' = Fragment(config, verifier, user) /\ Write
    <2>1. Allowed(config, verifier, user)
      BY <1>1, <1>2, <1>5 DEF Allowed
    <2>2. arguments' = arguments /\ fragment' = Fragment(config, verifier, user)
      BY <1>5 DEF Write
    <2> QED
      BY <2>1, <2>2 DEF FragmentInv
  <1> QED
    BY <1>3, <1>4, <1>5

LEMMA FragmentKept ==
    ASSUME CommandsInv, DocumentsInv, FragmentInv, [Next]_vars
    PROVE  FragmentInv'
  <1>1. arguments \in Seq(STRING)
    BY DEF CommandsInv, CallType
  <1>2. CASE Start
    BY <1>2 DEF Start, FragmentInv
  <1>3. CASE Dispatch
    BY <1>3, FragmentStays DEF Dispatch, Go, Refuse, Cancelled
  <1>4. CASE Work
    BY <1>4, FragmentStays DEF Work
  <1>5. CASE Look
    BY <1>5, FragmentStays DEF Look, Go, Cancelled
  <1>6. CASE Effect
    <2>1. CASE Write /\ UNCHANGED fragment
      BY <2>1, FragmentStays DEF Write
    <2>2. CASE PublishOutcome
      BY <2>2, FragmentStays DEF PublishOutcome
    <2>3. CASE Renders /\ WriteFragment
      BY <1>1, <2>3, WriteFragmentStep
    <2>4. CASE Verdict
      BY <2>4, FragmentStays DEF Verdict
    <2> QED
      BY <1>6, <2>1, <2>2, <2>3, <2>4 DEF Effect
  <1>7. CASE Throw
    BY <1>7, FragmentStays DEF Throw, Refuse
  <1>8. CASE Signal
    BY <1>8, FragmentStays DEF Signal
  <1>9. CASE Edit
    BY <1>9, FragmentStays DEF Edit, call
  <1>10. CASE UNCHANGED vars
    BY <1>10, FragmentStays DEF vars, call
  <1> QED
    BY <1>2, <1>3, <1>4, <1>5, <1>6, <1>7, <1>8, <1>9, <1>10 DEF Next

\* sshd finds in a fragment that a call renders the verifier, the
\* configuration and the user of the call, and no other word or expansion,
\* whatever the paths and the user are (validate_render_path,
\* valid_command_user and the text that run_dispatch writes).
THEOREM RenderedExact == Spec => []RenderedIsExact
  <1>1. Init => FragmentInv
    BY DEF Init, FragmentInv
  <1>2. FragmentInv => RenderedIsExact
    <2> SUFFICES ASSUME FragmentInv, fragment # <<>> PROVE RenderedIsExact
      BY DEF RenderedIsExact
    <2>1. Found(fragment, Spelling[arguments[4]], Spelling[arguments[6]], Spelling[arguments[8]])
      BY AllowedIsFound DEF FragmentInv
    <2> QED
      BY <2>1 DEF Found, RenderedIsExact
  <1>3. CommandsInv /\ DocumentsInv /\ FragmentInv /\ [Next]_vars => FragmentInv'
    BY FragmentKept
  <1> QED
    BY <1>1, <1>2, <1>3, DocumentsHold, PTL DEF Spec
=============================================================================
