------------------------------ MODULE Commands ------------------------------
(***************************************************************************)
(* config init, config check, sshd-config render and the help: the         *)
(* branches of run_dispatch other than verify, called one after another on *)
(* the same files.  Around them signals arrive, calls throw, writes are    *)
(* short, and other programs edit the files.                               *)
(***************************************************************************)
EXTENDS ConfigRules

CONSTANTS
  Spelling,        \* the characters of a word of the command line
  DefaultOptions,  \* InitializationOptions as it is constructed
  Scenarios        \* files to start from, an edit of them, and calls

(* What reading a file may give, or reading a key file.                    *)
FileErrors == {"none", "absent", "state_invalid", "internal_error", "malformed_input",
               "resource_limit", "issuer_untrusted", "unsupported_profile", "unsupported_version"}
IsFiles(f) ==
  /\ DOMAIN f = {"config", "input", "keys"}
  /\ {f.config.error, f.input.error} \subseteq FileErrors
  /\ f.config.error = "none" => IsDocument(f.config.document)
  /\ f.input.error = "none" => IsDocument(f.input.document)
  /\ f.keys \in [AbsolutePaths -> FileErrors]
ASSUME ScenariosAssumption ==
  \A s \in Scenarios : IsFiles(s.files) /\ IsFiles(s.edit) /\ s.calls \in Seq(Seq(STRING))

VARIABLES
  files,      \* config and input: [error, document]; keys: by path, an error or none
  edit,       \* what another program may make of the files, at most once
  calls,      \* the argument vectors still to come
  arguments,  \* of the call that runs
  stage,      \* "idle", "dispatch", "work", "ready", "effect", "done"
  signal,     \* the flag that the signal handlers set
  warned,     \* history: the flag was set before the last look at it
  got,        \* what load_and_validate or initialize returned
  made,       \* history: the last initialization, and what it was asked for
  written,    \* how much of the output was taken: "none", "part", "whole"
  fragment,   \* the rendered lines
  placed,     \* publish replaced the configuration
  events,     \* the audit events of the call, and whether each was sent
  diagnostic  \* the kind written to the diagnostics, "none" for exit status 0

call == <<arguments, warned, got, written, fragment, placed, events, diagnostic>>
vars == <<files, edit, calls, stage, signal, made, call>>

Nothing == [error |-> "nothing"]
IsHelp == Last(arguments) \in {"-h", "--help"} /\
          \/ Len(arguments) = 1
          \/ Len(arguments) = 2 /\ arguments[1] \in {"version", "config", "sshd-config", "verify"}
          \/ Len(arguments) = 3 /\ <<arguments[1], arguments[2]>> \in
               {<<"config", "init">>, <<"config", "check">>, <<"sshd-config", "render">>}
Helps == arguments # <<>> /\ IsHelp
Inits == ~Helps /\ Len(arguments) >= 2 /\ arguments[1] = "config" /\ arguments[2] = "init"
Checks == ~Helps /\ Len(arguments) = 4 /\ SubSeq(arguments, 1, 3) = <<"config", "check", "--config">>
Renders ==
  /\ ~Helps /\ Len(arguments) = 8
  /\ SubSeq(arguments, 1, 3) = <<"sshd-config", "render", "--config">>
  /\ arguments[5] = "--verifier" /\ arguments[7] = "--command-user"

-----------------------------------------------------------------------------
(* The flags of config init, each at most once, with their values.         *)
OptionOf ==
  [flag \in {"--clock-skew", "--total-verification-deadline", "--max-token-bytes",
             "--max-evidence-bytes", "--max-ssh-certificate-bytes", "--max-offered-key-chars",
             "--max-authorized-keys-output-chars", "--issuer-key-cache-maximum-freshness"} |->
     CASE flag = "--clock-skew" -> "clock_skew"
       [] flag = "--total-verification-deadline" -> "total_verification_deadline"
       [] flag = "--max-token-bytes" -> "max_token_bytes"
       [] flag = "--max-evidence-bytes" -> "max_evidence_bytes"
       [] flag = "--max-ssh-certificate-bytes" -> "max_ssh_certificate_bytes"
       [] flag = "--max-offered-key-chars" -> "max_offered_key_chars"
       [] flag = "--max-authorized-keys-output-chars" -> "max_authorized_keys_output_chars"
       [] flag = "--issuer-key-cache-maximum-freshness" -> "maximum_freshness"]
NameOf ==
  [flag \in {"--policy-input", "--issuer-key-cache-directory", "--logging-facility"} |->
     CASE flag = "--policy-input" -> "policy_input"
       [] flag = "--issuer-key-cache-directory" -> "directory"
       [] flag = "--logging-facility" -> "facility"]
Valued == DOMAIN OptionOf \cup DOMAIN NameOf \cup {"--output"}

(* The options have their defaults; a word that is the value of one, or a  *)
(* path or the user of a fragment, is spelled.                             *)
IsSpelled(words) ==
  /\ \A i \in 2..Len(words) : words[i - 1] \in DOMAIN OptionOf => words[i] \in DOMAIN Spelling
  /\ Len(words) = 8 /\ words[1] = "sshd-config" => {words[4], words[6], words[8]} \subseteq DOMAIN Spelling
ASSUME OptionsAssumption ==
  /\ IsObject(DefaultOptions)
  /\ {"deny_all"} \cup Range(OptionOf) \cup Range(NameOf) \subseteq DOMAIN DefaultOptions
  /\ \A name \in Range(OptionOf) : DefaultOptions[name] \in Seq(STRING)
  /\ \A word \in DOMAIN Spelling : Spelling[word] \in Seq(STRING)
  /\ \A s \in Scenarios : \A i \in DOMAIN s.calls : IsSpelled(s.calls[i])

NoFlags == [ok |-> TRUE, seen |-> {}, awaits |-> "", force |-> FALSE, output |-> <<>>,
            options |-> DefaultOptions]
TakeValue(s, word) ==
  LET t == [s EXCEPT !.awaits = ""]
  IN  CASE s.awaits = "--output" -> [t EXCEPT !.output = <<word>>]
        [] s.awaits \in DOMAIN OptionOf -> [t EXCEPT !.options[OptionOf[s.awaits]] = Spelling[word]]
        [] s.awaits \in DOMAIN NameOf -> [t EXCEPT !.options[NameOf[s.awaits]] = word]
TakeFlag(s, word) ==
  LET t == [s EXCEPT !.seen = @ \cup {word}]
  IN  CASE word \in s.seen -> [s EXCEPT !.ok = FALSE]
        [] word \notin s.seen /\ word = "--deny-all" -> [t EXCEPT !.options.deny_all = TRUE]
        [] word \notin s.seen /\ word = "--force" -> [t EXCEPT !.force = TRUE]
        [] word \notin s.seen /\ word \in Valued -> [t EXCEPT !.awaits = word]
        [] OTHER -> [s EXCEPT !.ok = FALSE]
Flags ==
  LET Take(s, word) == IF s.awaits # "" THEN TakeValue(s, word) ELSE TakeFlag(s, word)
  IN  FoldLeft(Take, NoFlags, SubSeq(arguments, 3, Len(arguments)))
Publishes == Flags.output # <<>>
FlagsOk == Flags.ok /\ Flags.awaits = "" /\ (Flags.force => Publishes)
Understood == Checks \/ Renders \/ (Inits /\ FlagsOk)

-----------------------------------------------------------------------------
(* The paths and the user of a fragment.                                   *)
Blank == "blank"
NewLine == "newline"
Letters == {"l"}
Numerals == {"1"}
WithPercent == Letters \cup Numerals \cup {"/", ".", "-", "%"}
PathChars == Letters \cup Numerals \cup {"/", ".", "-"}
validate_render_path(path) == path # <<>> /\ path[1] = "/" /\ ToSet(path) \subseteq PathChars
valid_command_user(user) ==
  /\ user # <<>> /\ user[1] \in Letters
  /\ ToSet(user) \subseteq Letters \cup Numerals \cup {".", "-"}

Fragment(config, verifier, user) ==
  <<"AuthorizedKeysCommand", Blank>> \o verifier \o <<Blank, "verify", Blank, "--config", Blank>> \o config
  \o <<Blank, "--user", Blank, "%", "u", Blank, "--key", Blank, "%", "k", Blank, "--key-type", Blank, "%", "t",
       NewLine, "AuthorizedKeysCommandUser", Blank>> \o user \o <<NewLine>>

-----------------------------------------------------------------------------
(* How a call ends.                                                        *)
Exit(kind) == stage' = "done" /\ diagnostic' = kind

(* An event is logged if its outcome goes with its reason; whatever goes   *)
(* wrong while it is made or sent is ignored, and the event is lost.       *)
Serializes(e) ==
  LET stopped == e.reason \in {"internal_error", "operation_cancelled"}
  IN  \/ e.outcome = "valid" /\ e.reason = "none"
      \/ e.outcome = "invalid" /\ e.reason # "none" /\ ~stopped
      \/ e.outcome = "error" /\ stopped
Emit(outcome, reason, facility) ==
  \E sent \in BOOLEAN :
    LET e == [outcome |-> outcome, reason |-> reason, facility |-> facility, sent |-> sent]
    IN  events' = IF Serializes(e) THEN Append(events, e) ELSE events
FacilityOf(result) == IF result.error = "none" THEN result.facility ELSE "authpriv"

Cancelled ==
  /\ signal
  /\ Exit("operation_cancelled")
  /\ IF Checks THEN Emit("error", "operation_cancelled", FacilityOf(got)) ELSE UNCHANGED events
  /\ UNCHANGED <<files, edit, calls, signal, made, arguments, warned, got, written, fragment, placed>>

Refuse(kind) ==
  /\ Exit(kind)
  /\ UNCHANGED <<files, edit, calls, signal, made, arguments, warned, got, written, fragment, placed, events>>

Go(next) ==
  /\ stage' = next
  /\ UNCHANGED <<files, edit, calls, signal, made, arguments, got, written, fragment, placed, events, diagnostic>>

Start ==
  /\ stage \in {"idle", "done"} /\ calls # <<>>
  /\ stage' = "dispatch" /\ arguments' = Head(calls) /\ calls' = Tail(calls)
  /\ warned' = FALSE /\ got' = Nothing /\ written' = "none" /\ fragment' = <<>>
  /\ placed' = FALSE /\ events' = <<>> /\ diagnostic' = "none" /\ signal' = FALSE
  /\ UNCHANGED <<files, edit, made>>

Dispatch ==
  /\ stage = "dispatch"
  /\ \/ Helps /\ Go("effect") /\ UNCHANGED warned
     \/ ~Helps /\ ~Understood /\ Refuse(Malformed)
     \/ Understood /\ Cancelled
     \/ Understood /\ ~signal /\ Go("work") /\ UNCHANGED warned

(* The files are read: initialize, or load_and_validate.                   *)
Load == load_and_validate(files.config, files.keys)
Work ==
  /\ stage = "work"
  /\ got' = IF Inits THEN initialize(Flags.options, Contents(files.input), files.keys) ELSE Load
  /\ made' = IF Inits /\ got'.error = "none"
             THEN [document |-> got'.document, options |-> Flags.options, input |-> files.input,
                   keys |-> files.keys]
             ELSE made
  /\ IF got'.error # "none" /\ ~Checks THEN Exit(got'.error)
     ELSE stage' = "ready" /\ UNCHANGED diagnostic
  /\ UNCHANGED <<files, edit, calls, signal, arguments, warned, written, fragment, placed, events>>

(* The last look at the flag.                                              *)
LookAway == stage = "ready" /\ Go("effect") /\ UNCHANGED warned
Look ==
  /\ stage = "ready"
  /\ \/ Cancelled
     \/ ~signal /\ Go("effect") /\ UNCHANGED warned

-----------------------------------------------------------------------------
(* What a call does.                                                       *)
Write ==
  /\ \E taken \in {"none", "part", "whole"} :
       /\ written' = taken
       /\ Exit(IF taken = "whole" THEN "none" ELSE "internal_error")
  /\ UNCHANGED <<files, edit, calls, signal, made, arguments, warned, got, placed, events>>

(* publish as Publish has it: an error may come before or after the entry  *)
(* is in place.  Whatever absolute path is given is the configuration's.   *)
Present == files.config.error # "absent"
PublishOutcome ==
  /\ \E error \in {"none", "state_invalid"}, entry \in BOOLEAN :
       /\ error = "none" => entry
       /\ entry => Flags.output[1] \in AbsolutePaths /\ (Present => Flags.force)
       /\ placed' = entry
       /\ files' = IF entry THEN [files EXCEPT !.config = Reread(got.document)]
                   ELSE files
       /\ Exit(error)
  /\ UNCHANGED <<edit, calls, signal, made, arguments, warned, got, written, fragment, events>>

WriteFragment ==
  LET config == Spelling[arguments[4]]
      verifier == Spelling[arguments[6]]
      user == Spelling[arguments[8]]
      Good(regularConfig, regularVerifier) ==
        Unless(validate_render_path(config), Malformed) ++ Unless(regularConfig, "state_invalid")
        ++ Unless(validate_render_path(verifier), Malformed) ++ Unless(regularVerifier, "state_invalid")
        ++ Unless(valid_command_user(user), Malformed)
  IN  \E regularConfig, regularVerifier \in BOOLEAN :
        LET error == Good(regularConfig, regularVerifier)
        IN  \/ error # "none" /\ Refuse(error)
            \/ error = "none" /\ fragment' = Fragment(config, verifier, user) /\ Write

(* The verdict of config check: printed if valid, and logged.              *)
Verdict ==
  /\ \E taken \in {"none", "part", "whole"} :
       LET outcome == IF got.error = "none" THEN IF taken = "whole" THEN "valid" ELSE "error"
                      ELSE IF got.error = "internal_error" THEN "error" ELSE "invalid"
           reason == CASE outcome = "valid" -> "none"
                       [] outcome = "error" -> "internal_error"
                       [] outcome = "invalid" -> got.error
       IN  /\ got.error # "none" => taken = "none"
           /\ written' = taken
           /\ Emit(outcome, reason, FacilityOf(got))
           /\ Exit(reason)
  /\ UNCHANGED <<files, edit, calls, signal, made, arguments, warned, got, fragment, placed>>

Effect ==
  /\ stage = "effect"
  /\ \/ (Helps \/ (Inits /\ ~Publishes)) /\ Write /\ UNCHANGED fragment
     \/ (Inits /\ Publishes) /\ PublishOutcome
     \/ Renders /\ WriteFragment
     \/ Checks /\ Verdict

(* Any call may throw before its effect; run_catching_exceptions ends it   *)
(* with no event.                                                          *)
Throw ==
  /\ ~Helps /\ stage \in {"dispatch", "work", "ready", "effect"}
  /\ Refuse("internal_error")

-----------------------------------------------------------------------------
(* Around the calls.                                                       *)
Signal ==
  /\ stage \in {"dispatch", "work", "ready", "effect"} /\ ~signal
  /\ signal' = TRUE
  /\ warned' = (stage # "effect")
  /\ UNCHANGED <<files, edit, calls, stage, made, arguments, got, written, fragment, placed, events, diagnostic>>
Edit ==
  /\ edit # files
  /\ files' = edit /\ edit' = files'
  /\ UNCHANGED <<calls, stage, signal, made, call>>

Init ==
  /\ \E s \in Scenarios : files = s.files /\ edit = s.edit /\ calls = s.calls
  /\ stage = "idle" /\ signal = FALSE /\ made = Nothing /\ arguments = <<>> /\ warned = FALSE
  /\ got = Nothing /\ written = "none" /\ fragment = <<>> /\ placed = FALSE
  /\ events = <<>> /\ diagnostic = "none"

Next == Start \/ Dispatch \/ Work \/ Look \/ Effect \/ Throw \/ Signal \/ Edit
Spec == Init /\ [][Next]_vars
-----------------------------------------------------------------------------
(* What a call tells its caller and the log is what it did: it exits with  *)
(* success exactly when its whole output was taken or its file is in       *)
(* place; a check that was understood makes one event, which names the     *)
(* verdict and reason that the exit gives, and only an exception can       *)
(* suppress it, before anything was printed; other calls make none.  A     *)
(* signal that arrived before the last look leaves no effect.              *)
Succeeded == diagnostic = "none"
ReportsAreTrue == stage = "done" =>
  /\ Succeeded => written = "whole" \/ placed
  /\ written = "whole" => Succeeded
  /\ diagnostic = "operation_cancelled" => signal
  /\ warned /\ ~Helps => ~Succeeded /\ written = "none" /\ ~placed
  /\ IF Checks THEN events # <<>> \/ (diagnostic = "internal_error" /\ written = "none")
     ELSE events = <<>>
  /\ Len(events) <= 1
  /\ \A i \in DOMAIN events :
       /\ events[i].reason = diagnostic
       /\ events[i].outcome = "valid" <=> Succeeded
       /\ events[i].facility = FacilityOf(got)
  /\ Checks /\ Succeeded => got.error = "none"
  /\ Checks /\ got.error \notin {"none", "nothing"} => written = "none"

(* What config init makes, printed or published, is a configuration that   *)
(* check and verify accept while the keys are as they were, unless its     *)
(* text has become too large by being laid out; and it means what was      *)
(* asked for: the durations and sizes of the options, and the policies and *)
(* rules of the input, of which the rewriting has lost nothing.            *)
Asked(m) ==
  LET Policies(name) == IF m.options.deny_all THEN <<>> ELSE m.input.document[name]
  IN  [Document(m.options, Policies("trusted_issuers"), Policies("accounts")) EXCEPT
         !.resource_limits = [n \in ToSet(LimitNames) |-> Numeral(m.options[n])]]
InitializedIsAccepted ==
  made # Nothing /\ files.keys = made.keys /\ Readable(made.document) =>
    \E c \in {load_and_validate(Reread(made.document), files.keys)} :
      c.error = "none" /\ c = parse_and_validate(Asked(made), files.keys)

(* "initializer output accepted by production parser"                      *)
(* (tests/cli/adapters_test.py:194), and OPERATIONS.md 69-73 has the       *)
(* published output checked by config check: a check of what config init   *)
(* put in place, with the keys as they were, finds it valid, unless a      *)
(* signal or a failed call ends it.                                        *)
InitializerOutputIsAccepted ==
  /\ made # Nothing /\ files.keys = made.keys /\ files.config = Reread(made.document)
  /\ stage = "done" /\ Checks
  => diagnostic \in {"none", "operation_cancelled", "internal_error"}

(* What load_and_validate accepts is sound, and no policy of it is one     *)
(* that validate_policy would refuse for every token at every login.       *)
Validator == INSTANCE Issuer WITH MaxInt <- MaxI64, MaxDate <- MaxI64,
                                  Absent <- "no claim", Invalid <- "not a claim"
Accepted == (Checks \/ Renders) /\ got.error = "none"
Usable(policy) ==
  \A e \in policy.evidence \ (IF policy.gqOnly THEN {"standard"} ELSE {}), b \in policy.bindings :
    LET checks == Validator!PolicyChecks([evidence |-> e, binding |-> b], policy)
    IN  Validator!FirstError(checks) = "none"
AcceptedIsSound == Accepted => IsSound(got) /\ \A p \in ToSet(got.trusted) : Usable(p)

(* sshd splits the fragment into lines and words and expands its percents: *)
(* it finds the verifier, the configuration and the user that were given,  *)
(* and no other word or expansion.                                         *)
Split(text, separator) ==
  FoldLeft(LAMBDA parts, c : IF c = separator THEN Append(parts, <<>>)
                             ELSE [parts EXCEPT ![Len(parts)] = Append(@, c)],
           << <<>> >>, text)
RenderedIsExact == fragment # <<>> =>
  LET lines == Split(fragment, NewLine)
      words == Split(lines[1], Blank)
  IN  /\ Len(lines) = 3 /\ Len(words) = 11
      /\ words[2] = Spelling[arguments[6]] /\ words[2][1] = "/"
      /\ words[5] = Spelling[arguments[4]] /\ words[5][1] = "/"
      /\ Split(lines[2], Blank) = << <<"AuthorizedKeysCommandUser">>, Spelling[arguments[8]] >>
      /\ Spelling[arguments[8]] # <<>> /\ Spelling[arguments[8]][1] # "-"
      /\ Len(Split(fragment, "%")) = 4
=============================================================================
