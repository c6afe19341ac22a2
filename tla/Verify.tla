------------------------------- MODULE Verify -------------------------------
(***************************************************************************)
(* One execution of `credbind-ssh-authorized-keys verify`: run_main in     *)
(* main.cpp, run_catching_exceptions and run_verify in command.cpp, with   *)
(* the signal handler, the monotonic clock, the standard output and the    *)
(* system log around it.                                                   *)
(*                                                                         *)
(* run_verify is a row of stages.  Each begins with a call of interrupted, *)
(* which reads the clock and then the cancellation flag (phases "clock"    *)
(* and "flag"), and then runs its body (phase "run").  The environment may *)
(* act between any two of these: time passes, a signal arrives, the        *)
(* process is killed.  What a carrier verification answers is left open    *)
(* here: a policy accepts, or rejects with an error, before or after the   *)
(* token core was verified.                                                *)
(***************************************************************************)
EXTENDS Integers, Sequences

CONSTANTS
    MaxPolicies,    \* largest number of policies a configuration may hold
    MaxBudget,      \* kMaximumVerificationNanoseconds, in clock units
    MaxClock,       \* bound on the clock: the environment stops it there
    Steady,         \* TRUE for SystemClock, whose readings never decrease
    ConfigErrors,   \* the errors load_and_validate may return
    KeyErrors,      \* the errors decode_base64 and the size bound may give
    CarrierErrors   \* the errors verify_carrier may return

ASSUME BoundsAssumption ==
    /\ MaxPolicies \in Nat
    /\ MaxBudget \in Nat \ {0}
    /\ MaxClock \in Nat
    /\ Steady \in BOOLEAN

\* interrupted alone gives these two: no stage's own errors hold them.
ASSUME ErrorsAssumption ==
    /\ ConfigErrors \cup KeyErrors \cup CarrierErrors \subseteq STRING
    /\ {"deadline_exceeded", "operation_cancelled", "none", "unknown"}
         \cap (ConfigErrors \cup KeyErrors \cup CarrierErrors) = {}

VARIABLES
    status,         \* of the process: "running", "exited" or "killed"
    stage,          \* where the program is
    phase,          \* within a stage: "clock", "flag", "run"
    handler,        \* exception handlers entered: 0, 1 (run), 2 (run_main)
    clock,          \* the monotonic clock
    cancelled,      \* the flag the signal handler sets
    started,        \* the clock when run_verify began
    budget,         \* the deadline, relative to started
    facility,       \* "authpriv" until the configuration names another
    policies,       \* trusted_issuers.size()
    index,          \* the policy the loop examines, from 1
    verdict,        \* what verify_carrier answered for each policy
    successes,      \* the policies that accepted
    authenticated,  \* the policies that rejected after the core verified
    firstError,     \* first_error; "none" while have_error is false
    written,        \* how much of the line sputn accepted
    delivered,      \* how much of it has left the process
    event,          \* the audit event being built
    log,            \* the audit events the logger took
    lost,           \* an event was too large to write, or the logger lost it
    overrun         \* history: bodies begun with the budget spent or a signal

environment == <<clock, cancelled>>
settings    == <<started, budget, facility, policies>>
findings    == <<index, verdict, successes, authenticated, firstError>>
output      == <<written, delivered>>
audit       == <<log, lost>>
vars == <<status, stage, phase, handler, environment, settings, findings,
          output, event, audit, overrun>>

-----------------------------------------------------------------------------
(* Data *)

Policies == 1 .. MaxPolicies

Extent == 0 .. 2    \* nothing, a proper part, the whole of the line
Whole  == 2

ErrorKinds == ConfigErrors \cup KeyErrors \cup CarrierErrors \cup
    {"deadline_exceeded", "operation_cancelled", "internal_error",
     "malformed_input", "resource_limit", "issuer_untrusted"}

\* A success carries its core; a rejection says whether the core verified.
Verdicts ==
    [ok : {TRUE}, core : {TRUE}, error : {"none"}] \cup
    [ok : {FALSE}, core : BOOLEAN, error : CarrierErrors]

Unknown == [ok |-> FALSE, core |-> FALSE, error |-> "unknown"]

\* policy is the one whose authenticated identity the event names, or 0.
Events == [outcome  : {"none", "allow", "deny", "error"},
           reason   : ErrorKinds \cup {"none"},
           policy   : 0 .. MaxPolicies,
           facility : {"authpriv", "configured"}]

NoEvent == [outcome |-> "none", reason |-> "none",
            policy |-> 0, facility |-> "authpriv"]

\* What both exception handlers report.
ExceptionEvent == [outcome |-> "error", reason |-> "internal_error",
                   policy |-> 0, facility |-> "authpriv"]

Guarded == {"arguments", "configuration", "offered", "decoded", "policy",
            "carrier", "selection", "line", "output"}
Stages == Guarded \cup {"start", "report", "exit"}

Sole(S) == CHOOSE p \in S : TRUE

-----------------------------------------------------------------------------
(* Control *)

At(s, p) == status = "running" /\ stage = s /\ phase = p

Enter(s) == stage' = s /\ phase' = "clock" /\ UNCHANGED event

Finish(e) == stage' = "report" /\ phase' = "run" /\ event' = e

PlainDenial(reason, policy) ==
    [outcome |-> "deny", reason |-> reason,
     policy |-> policy, facility |-> facility]

\* deny_verify: an internal error is reported as such, the rest as a denial.
Denial(reason, policy) ==
    [outcome  |-> IF reason = "internal_error" THEN "error" ELSE "deny",
     reason   |-> reason,
     policy   |-> policy,
     facility |-> facility]

Deny(reason, policy) == Finish(Denial(reason, policy))

\* A body about to run with the budget spent or the flag raised.
Overdue == clock < started \/ clock - started >= budget \/ cancelled
Count == overrun' = overrun + (IF Overdue THEN 1 ELSE 0)

-----------------------------------------------------------------------------
(* The environment *)

Tick ==
    /\ status = "running"
    /\ clock' \in 0 .. MaxClock \ {clock}
    /\ Steady => clock' > clock
    /\ UNCHANGED <<status, stage, phase, handler, cancelled, settings,
                   findings, output, event, audit, overrun>>

\* SIGINT or SIGTERM, once the handlers are installed.
RequestCancellation ==
    /\ status = "running" /\ stage # "start" /\ ~cancelled
    /\ cancelled' = TRUE
    /\ UNCHANGED <<status, stage, phase, handler, clock, settings, findings,
                   output, event, audit, overrun>>

\* A signal that is not handled (SIGKILL, SIGPIPE; SIGTERM before "start").
Kill ==
    /\ status = "running"
    /\ status' = "killed"
    /\ UNCHANGED <<stage, phase, handler, environment, settings, findings,
                   output, event, audit, overrun>>

-----------------------------------------------------------------------------
(* main.cpp: install_cancellation_handlers, then run; `throw 1` if not. *)

Start ==
    /\ At("start", "run")
    /\ Enter("arguments")
    /\ started' = clock
    /\ UNCHANGED <<status, handler, environment, budget, facility, policies,
                   findings, output, audit, overrun>>

InstallFails ==
    /\ At("start", "run")
    /\ handler' = 2
    /\ Finish(ExceptionEvent)
    /\ UNCHANGED <<status, environment, settings, findings, output, audit,
                   overrun>>

-----------------------------------------------------------------------------
(* interrupted: the clock first, the flag only within the budget. *)

\* The core result the caller of interrupted attributes an interruption to.
AttributedPolicyAnyVerdict ==
    IF stage = "carrier" THEN index
    ELSE IF stage \in {"line", "output"} THEN Sole(successes) ELSE 0

AttributedPolicy ==
    IF stage = "carrier" THEN (IF verdict[index].core THEN index ELSE 0)
    ELSE IF stage \in {"line", "output"} THEN Sole(successes) ELSE 0

ClockReasonInclusive ==
    IF clock < started THEN "internal_error"
    ELSE IF clock - started > budget THEN "deadline_exceeded" ELSE "none"

ClockReasonAbsolute ==
    IF clock < started THEN "internal_error"
    ELSE IF clock >= budget THEN "deadline_exceeded" ELSE "none"

ClockReason ==
    IF clock < started THEN "internal_error"
    ELSE IF clock - started >= budget THEN "deadline_exceeded" ELSE "none"

ReadClock ==
    /\ status = "running" /\ phase = "clock"
    /\ \/ /\ ClockReason = "none"
          /\ phase' = "flag"
          /\ UNCHANGED <<stage, event>>
       \/ /\ ClockReason # "none"
          /\ Deny(ClockReason, AttributedPolicy)
    /\ UNCHANGED <<status, handler, environment, settings, findings, output,
                   audit, overrun>>

ReadFlag ==
    /\ status = "running" /\ phase = "flag"
    /\ \/ /\ ~cancelled
          /\ phase' = "run"
          /\ UNCHANGED <<stage, event>>
       \/ /\ cancelled
          /\ Deny("operation_cancelled", AttributedPolicy)
    /\ UNCHANGED <<status, handler, environment, settings, findings, output,
                   audit, overrun>>

-----------------------------------------------------------------------------
(* The bodies of run_verify, in order. *)

ParseArguments ==
    /\ At("arguments", "run")
    /\ Enter("configuration") \/ Deny("malformed_input", 0)
    /\ Count
    /\ UNCHANGED <<status, handler, environment, settings, findings, output,
                   audit>>

UncappedBudgets == 1 .. MaxBudget + 1

\* total_verification_deadline is positive and at most ten seconds.
Budgets == 1 .. MaxBudget

\* load_and_validate; its deadline and its facility hold from here on.
LoadConfiguration ==
    /\ At("configuration", "run")
    /\ \/ /\ \E error \in ConfigErrors : Deny(error, 0)
          /\ UNCHANGED <<budget, policies, facility>>
       \/ /\ Enter("offered")
          /\ budget' \in Budgets
          /\ policies' \in 0 .. MaxPolicies
          /\ facility' = "configured"
    /\ Count
    /\ UNCHANGED <<status, handler, environment, started, findings, output,
                   audit>>

\* The size bound on the offered key, then decode_base64.
DecodeOffered ==
    /\ At("offered", "run")
    /\ Enter("decoded") \/ \E error \in KeyErrors : Deny(error, 0)
    /\ Count
    /\ UNCHANGED <<status, handler, environment, settings, findings, output,
                   audit>>

Loop(i) == Enter(IF i <= policies THEN "policy" ELSE "selection")

BeginLoop ==
    /\ At("decoded", "run")
    /\ Loop(index)
    /\ Count
    /\ UNCHANGED <<status, handler, environment, settings, findings, output,
                   audit>>

VerifyCarrier ==
    /\ At("policy", "run")
    /\ \E v \in Verdicts : verdict' = [verdict EXCEPT ![index] = v]
    /\ Enter("carrier")
    /\ Count
    /\ UNCHANGED <<status, handler, environment, settings, index, successes,
                   authenticated, firstError, output, audit>>

KeepLastError(v) == v.error

KeepFirstError(v) == IF firstError = "none" THEN v.error ELSE firstError

SameIndex(i) == i

NextIndex(i) == i + 1

RecordResult ==
    /\ At("carrier", "run")
    /\ LET v == verdict[index] IN
       \/ /\ v.ok
          /\ successes' = successes \cup {index}
          /\ UNCHANGED <<firstError, authenticated>>
       \/ /\ ~v.ok
          /\ firstError' = KeepFirstError(v)
          /\ authenticated' =
                 IF v.core THEN authenticated \cup {index} ELSE authenticated
          /\ UNCHANGED successes
    /\ index' = NextIndex(index)
    /\ Loop(index')
    /\ Count
    /\ UNCHANGED <<status, handler, environment, settings, verdict, output,
                   audit>>

FirstAcceptor(p) == p \in successes /\ \A q \in successes : p <= q

\* The policy whose line is to be written: there must be exactly one.
Selected(p) == successes = {p}

SelectionReason ==
    IF successes # {} THEN "issuer_untrusted"
    ELSE IF firstError = "none" THEN "issuer_untrusted" ELSE firstError

SomeAuthenticated ==
    IF successes = {} /\ authenticated # {} THEN Sole(authenticated) ELSE 0

\* A denial names an identity only if one policy alone authenticated one.
SelectionPolicy ==
    IF successes = {} /\ \E p \in Policies : authenticated = {p}
    THEN Sole(authenticated) ELSE 0

SelectPolicy ==
    /\ At("selection", "run")
    /\ \/ (\E p \in Policies : Selected(p)) /\ Enter("line")
       \/ /\ ~ \E p \in Policies : Selected(p)
          /\ Deny(SelectionReason, SelectionPolicy)
    /\ Count
    /\ UNCHANGED <<status, handler, environment, settings, findings, output,
                   audit>>

BoundLine ==
    /\ At("line", "run")
    /\ Enter("output") \/ Deny("resource_limit", Sole(successes))
    /\ Count
    /\ UNCHANGED <<status, handler, environment, settings, findings, output,
                   audit>>

Allowance(policy) == [outcome |-> "allow", reason |-> "none",
                      policy |-> policy, facility |-> facility]

AllowRegardless(accepted) == Finish(Allowance(Sole(successes)))

ReportWrite(accepted) ==
    IF accepted = Whole THEN Finish(Allowance(Sole(successes)))
    ELSE Deny("internal_error", Sole(successes))

\* sputn: it may take less than the line, and what it takes may stay in a
\* buffer of the process.  Nothing in the code flushes it before the exit.
WriteLine ==
    /\ At("output", "run")
    /\ \E accepted \in Extent :
          /\ written' = accepted
          /\ delivered' \in 0 .. accepted
          /\ ReportWrite(accepted)
    /\ Count
    /\ UNCHANGED <<status, handler, environment, settings, findings, audit>>

-----------------------------------------------------------------------------
(* Reporting, exceptions and the end of the process. *)

\* valid_outcome in the serializer: no other event is ever written.
Serializable(e) ==
    \/ e.outcome = "allow" /\ e.reason = "none"
    \/ e.outcome = "deny" /\ e.reason \notin {"none", "internal_error"}
    \/ e.outcome = "error" /\ e.reason = "internal_error"

\* emit, which swallows every failure; nothing after it can throw.
Emit ==
    /\ At("report", "run")
    /\ stage' = "exit"
    /\ \/ ~Serializable(event) /\ UNCHANGED audit
       \/ Serializable(event) /\ log' = Append(log, event) /\ UNCHANGED lost
       \/ Serializable(event) /\ lost' = TRUE /\ UNCHANGED log
    /\ UNCHANGED <<status, phase, handler, environment, settings, findings,
                   output, event, overrun>>

\* An exception, from a call on the Clock, an allocation or a library, at any
\* point of run_verify or while a handler builds its event.  run catches what
\* leaves run_verify, run_main what leaves run, and nobody what leaves
\* run_main's own handler.
Throw ==
    /\ status = "running" /\ stage \notin {"start", "exit"}
    /\ handler' = handler + 1
    /\ IF handler < 2
       THEN Finish(ExceptionEvent)
       ELSE stage' = "exit" /\ UNCHANGED <<phase, event>>
    /\ UNCHANGED <<status, environment, settings, findings, output, audit,
                   overrun>>

\* The return from main flushes what standard output still buffers, as far
\* as its reader takes it.
Exit ==
    /\ At("exit", "run")
    /\ status' = "exited"
    /\ delivered' \in delivered .. written
    /\ UNCHANGED <<stage, phase, handler, environment, settings, findings,
                   written, event, audit, overrun>>

-----------------------------------------------------------------------------
Init ==
    /\ status = "running" /\ stage = "start" /\ phase = "run" /\ handler = 0
    /\ clock \in 0 .. 1 /\ cancelled = FALSE
    /\ started = 0 /\ budget = MaxBudget
    /\ facility = "authpriv" /\ policies = 0
    /\ index = 1 /\ verdict = [p \in Policies |-> Unknown]
    /\ successes = {} /\ authenticated = {} /\ firstError = "none"
    /\ written = 0 /\ delivered = 0
    /\ event = NoEvent /\ log = <<>> /\ lost = FALSE /\ overrun = 0

Environment == Tick \/ RequestCancellation \/ Kill

\* What the process does by itself.
Computation ==
    \/ Start \/ ReadClock \/ ReadFlag
    \/ ParseArguments \/ DecodeOffered \/ BeginLoop
    \/ VerifyCarrier \/ RecordResult \/ SelectPolicy \/ BoundLine

\* What it asks of files, of standard output and of the system log.  None of
\* these calls has a deadline, and read_file opens without O_NONBLOCK: on a
\* FIFO, a full pipe or a full log socket each may wait for ever.
Call == LoadConfiguration \/ WriteLine \/ Emit \/ Exit

Program == Computation \/ Call \/ InstallFails \/ Throw

Next == Program \/ Environment

Spec == Init /\ [][Next]_vars

\* The scheduler runs the process.  Nothing is owed by the environment: time
\* need not pass, a call need not be answered, and nothing need be thrown.
FairSpec == Spec /\ WF_vars(Computation)

-----------------------------------------------------------------------------
(* Properties *)

TypeOK ==
    /\ status \in {"running", "exited", "killed"}
    /\ stage \in Stages /\ phase \in {"clock", "flag", "run"}
    /\ handler \in 0 .. 3
    /\ clock \in Nat /\ cancelled \in BOOLEAN
    /\ started \in Nat /\ budget \in 1 .. MaxBudget
    /\ facility \in {"authpriv", "configured"} /\ policies \in 0 .. MaxPolicies
    /\ index \in 1 .. MaxPolicies + 1
    /\ verdict \in [Policies -> Verdicts \cup {Unknown}]
    /\ successes \in SUBSET Policies /\ authenticated \in SUBSET Policies
    /\ firstError \in CarrierErrors \cup {"none"}
    /\ written \in Extent /\ delivered \in Extent
    /\ event \in Events /\ log \in Seq(Events) /\ lost \in BOOLEAN
    /\ overrun \in Nat

Acceptors == {p \in Policies : verdict[p].ok}
CoreVerified == {p \in Policies : verdict[p].core}
AllJudged == \A p \in 1 .. policies : verdict[p] # Unknown

\* A byte of an authorized-keys line leaves the process only after every
\* configured policy was tried and exactly one of them accepted: the loop and
\* the successes.size() test of run_verify, whatever signals, deadlines,
\* short writes and exceptions come in between.
LineIsUnambiguous ==
    written > 0 => AllJudged /\ \E p \in Policies : Acceptors = {p}

\* The audit event agrees with what happened: an allowance is logged only
\* for the sole acceptor and a line taken whole, a denial only when nothing
\* was written, and an identity only for a policy whose token core verified.
AuditIsTruthful ==
    \A i \in DOMAIN log : LET e == log[i] IN
        /\ e.outcome = "allow" => written = Whole /\ Acceptors = {e.policy}
        /\ e.outcome = "deny" => written = 0
        /\ e.policy # 0 => e.policy \in CoreVerified

\* The policy errors the selection reports, told apart from earlier stages'.
SelectionErrors == (CarrierErrors \cup {"issuer_untrusted"}) \
    (ConfigErrors \cup KeyErrors \cup
        {"internal_error", "malformed_input", "resource_limit"})

\* The denial that ends an uninterrupted evaluation, stated from the verdicts
\* alone: two acceptors or no policy are an untrusted issuer; otherwise the
\* reason is the first policy's, and the identity logged is that of the only
\* policy whose core verified, if there is just one.
SelectionMatchesVerdicts ==
    \A i \in DOMAIN log :
        LET e == log[i] IN
        e.outcome = "deny" /\ e.reason \in SelectionErrors =>
            /\ AllJudged
            /\ ~ \E p \in Policies : Acceptors = {p}
            /\ e.reason = IF Acceptors # {} \/ policies = 0
                          THEN "issuer_untrusted" ELSE verdict[1].error
            /\ IF Acceptors = {} /\ \E p \in Policies : CoreVerified = {p}
               THEN CoreVerified = {e.policy} ELSE e.policy = 0

\* interrupted blames the deadline or a signal only when the budget really
\* was spent or the signal really came, though it looks at them at two times.
InterruptionIsReal ==
    \A i \in DOMAIN log :
        /\ log[i].reason = "operation_cancelled" => cancelled
        /\ Steady /\ log[i].reason = "deadline_exceeded" =>
               clock - started >= budget

\* README, "every verification stage checks the same absolute budget": under
\* SystemClock at most one body starts after the budget is spent or a signal
\* has come, and that one had passed its check just before.
StopsPromptly == Steady => overrun <= 1

\* Never two audit events, and none missing at the exit unless an emission
\* was dropped or the last handler itself failed.
OneAuditEvent ==
    /\ Len(log) <= 1
    /\ status = "exited" => Len(log) = 1 \/ lost \/ handler = 3

\* The help text (command.cpp:94) promises that a denial leaves stdout empty,
\* and the tests call a failed write and an exception denials: no run whose
\* event is not an allowance may have delivered anything.
DenialIsSilent ==
    status = "exited" /\ log # <<>> =>
        log[1].outcome = "allow" \/ delivered = 0

\* In a call that has yet to be answered.
Waiting ==
    \E s \in {"configuration", "output", "report", "exit"} : At(s, "run")

\* The stages and the loop of run_verify, with the exception handlers around
\* them, never keep the process running: it ends, unless the load of the
\* configuration, the write of the line, the audit event or the flush at the
\* exit waits for ever.  No deadline and no look at the flag ends such a wait.
Termination == <>(status # "running") \/ <>[]Waiting
=============================================================================
